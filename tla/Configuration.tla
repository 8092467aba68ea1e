---------------------------- MODULE Configuration ----------------------------
(***************************************************************************)
(* Which rules a file is read under: the configuration files that are      *)
(* found from the working directory and merged, the flags of the command   *)
(* line on top, and for a path the sections that name its language or      *)
(* match it.  A table is a function over the keys its text names, so a key *)
(* that is absent differs from one set to its default.  Two computations   *)
(* go over the same layers: ForPath, which decides, and Trace, which says  *)
(* where every value of the decision was written.                          *)
(***************************************************************************)
EXTENDS Integers, SequencesExt

CONSTANT Supported \* the dialects of every language

none == "none"
stdin == <<"(stdin)">>
standard == "standard"
noTable == [k \in {} |-> none]
Lists == {"keep", "remove"}
At(table, key, otherwise) == IF key \in DOMAIN table THEN table[key] ELSE otherwise
Over(table, base) == [key \in DOMAIN table \union DOMAIN base |-> IF key \in DOMAIN table THEN table[key] ELSE base[key]]

\* The defaults every run starts from; a list is part of them even if empty.
Defaults ==
  [version |-> TRUE,
   policy |-> [mode |-> "code-only", layout |-> "lines", keep |-> <<>>, remove |-> <<>>, force |-> FALSE],
   allow |-> noTable, files |-> noTable, languages |-> [l \in {} |-> noTable], overrides |-> <<>>]

----------------------------------------------------------------------------
\* Paths are sequences of components.  Resolved without the disk: a dot goes,
\* two dots take the name before them.
Down(seen, c) ==
  CASE c = "." -> seen
    [] c = ".." /\ seen # <<>> /\ Last(seen) # ".." -> Front(seen)
    [] OTHER -> Append(seen, c)
Lexical(path) ==
  LET seen[n \in 0 .. Len(path)] == IF n = 0 THEN <<>> ELSE Down(seen[n - 1], path[n])
  IN  seen[Len(path)]

\* The nearest directory at or above a path that is in a set of directories,
\* as a sequence of at most one.
Nearest(path, directories) ==
  LET found == {n \in 0 .. Len(path) : SubSeq(path, 1, n) \in directories}
  IN  IF found = {} THEN <<>> ELSE <<SubSeq(path, 1, Max(found))>>

\* Tables are merged key by key; overrides are appended; all else is replaced.
Merge(base, layer) ==
  [version |-> layer.version,
   policy |-> Over(layer.policy, base.policy),
   allow |-> Over(layer.allow, base.allow),
   files |-> Over(layer.files, base.files),
   languages |-> [l \in DOMAIN base.languages \union DOMAIN layer.languages |->
                    Over(At(layer.languages, l, noTable), At(base.languages, l, noTable))],
   overrides |-> base.overrides \o layer.overrides]

\* The files a run loads, weakest first: a file named on the command line
\* replaces what is found.  here holds that file and the user's, as sequences of
\* at most one, the directories with a project file, and the repositories.
LayersOf(here, cwd) ==
  LET project == Nearest(cwd, DOMAIN here.projects)
  IN  IF here.explicit # <<>> THEN <<[kind |-> "explicit", text |-> here.explicit[1].text]>>
      ELSE [i \in DOMAIN here.user |-> [kind |-> "user", text |-> here.user[i]]]
           \o [i \in DOMAIN project |-> [kind |-> "project", text |-> here.projects[project[i]]]]

\* The directory that globs are relative to.
RootOf(here, cwd) ==
  LET candidates == [i \in DOMAIN here.explicit |-> here.explicit[i].directory]
                    \o Nearest(cwd, DOMAIN here.projects) \o Nearest(cwd, here.repositories)
                    \o <<cwd>>
  IN  candidates[1]

\* The last file that names a key of [policy], by its place among the layers:
\* it is credited with a value that no section gave.
Origin(layers, key) == Max({0} \union {i \in DOMAIN layers : key \in DOMAIN layers[i].text.policy})

DialectFits(language, dialect) == dialect \in Supported[language]

\* Every layer has its version (the user's need not), every section a language
\* that is known and a dialect that fits it, every override a glob.
Loads(layers, config) ==
  /\ \A i \in DOMAIN layers : layers[i].kind = "user" \/ layers[i].text.version
  /\ \A l \in DOMAIN config.languages :
       l \in DOMAIN Supported /\ DialectFits(l, At(config.languages[l], "dialect", standard))
  /\ \A i \in DOMAIN config.overrides :
       LET o == config.overrides[i]
       IN  /\ o.paths # {}
           /\ {"language", "dialect"} \subseteq DOMAIN o.set => DialectFits(o.set.language, o.set.dialect)

\* The flags of the command line: modes replace, kinds are added behind the
\* configured ones, and where the added ones begin is remembered.
WithFlags(config, flags) ==
  LET Given(keys) == [key \in DOMAIN flags \intersect keys |-> flags[key]]
      lists == [key \in Lists |-> config.policy[key] \o At(flags, key, <<>>)]
  IN  [config EXCEPT !.policy = Over(lists, Over(Given({"mode", "layout", "force"}), @)),
                     !.files = Over(Given({"generated"}), @)]
FlagsFrom(config, flags) ==
  [key \in (Lists \intersect DOMAIN flags) |-> Len(config.policy[key]) + 1]

\* What a run is resolved to before it looks at a file.
Merged(layers) ==
  LET merged[n \in 0 .. Len(layers)] == IF n = 0 THEN Defaults ELSE Merge(merged[n - 1], layers[n].text)
  IN  merged[Len(layers)]
Load(here, cwd, flags) ==
  LET layers == LayersOf(here, cwd)
      merged == Merged(layers)
  IN  [loads |-> Loads(layers, merged), config |-> WithFlags(merged, flags), flags |-> flags, forced |-> flags,
       from |-> FlagsFrom(merged, flags), root |-> RootOf(here, cwd), cwd |-> cwd,
       origins |-> [key \in DOMAIN Defaults.policy |-> Origin(layers, key)]]

----------------------------------------------------------------------------
\* Mutant of RelativeToRoot: paths are taken as they are spelled.
RelativeToCwd(r, path) == Lexical(path)

\* Globs see a path from the root, wherever the command runs and however the
\* path is spelled; standard input keeps its name.
RelativeToRoot(r, path) ==
  LET absolute == Lexical(r.cwd \o path)
  IN  CASE path = stdin -> path
        [] path # stdin /\ IsPrefix(r.root, absolute) -> SubSeq(absolute, Len(r.root) + 1, Len(absolute))
        [] OTHER -> absolute

\* What each override says of a path: nothing, unless it matches.
Matches(config, relative) ==
  [i \in DOMAIN config.overrides |->
     IF relative \in config.overrides[i].paths THEN config.overrides[i].set ELSE noTable]

\* The sections that have a say about a path, in their order: the language's,
\* then every override that matches.
Sections(config, relative, language) ==
  LET own == IF language \in DOMAIN config.languages
             THEN <<[source |-> <<"language", language>>, set |-> config.languages[language]]>> ELSE <<>>
  IN  own \o [i \in DOMAIN config.overrides |->
                [source |-> <<"override", i>>, set |-> Matches(config, relative)[i]]]

\* Overrides and the command line may say what language a file is in; a
\* language that changes takes its dialect back to the standard.
Switch(was, language) ==
  IF language \in {none, was.language} THEN was ELSE [language |-> language, dialect |-> standard]
Language(config, flags, relative, found) ==
  LET said == Matches(config, relative)
      was[n \in 0 .. Len(said)] == IF n = 0 THEN found ELSE Switch(was[n - 1], At(said[n], "language", none))
  IN  Switch(was[Len(said)], At(flags, "language", none))

LastOf(sections, key, otherwise) ==
  LET last[n \in 0 .. Len(sections)] == IF n = 0 THEN otherwise ELSE At(sections[n].set, key, last[n - 1])
  IN  last[Len(sections)]
ExtendUnique(list, more) ==
  LET seen[n \in 0 .. Len(more)] ==
        CASE n = 0 -> list
          [] n # 0 /\ Contains(seen[n - 1], more[n]) -> seen[n - 1]
          [] OTHER -> Append(seen[n - 1], more[n])
  IN  seen[Len(more)]
Extended(sections, key, list) ==
  LET extended[n \in 0 .. Len(sections)] ==
        IF n = 0 THEN list ELSE ExtendUnique(extended[n - 1], At(sections[n].set, key, <<>>))
  IN  extended[Len(sections)]

\* for_path: a mode, layout or dialect of the command line is the last word,
\* lists grow, an allow table of an override replaces the whole of it.
Decided(config, flags, language, sections) ==
  LET global == config.policy
      Scalar(key) == IF key \in DOMAIN flags THEN global[key] ELSE LastOf(sections, key, global[key])
      List(key) == Extended(sections, key, global[key])
      dialect == At(flags, "dialect", LastOf(sections, "dialect", language.dialect))
  IN  [fits |-> DialectFits(language.language, dialect),
       language |-> language.language, dialect |-> dialect,
       mode |-> Scalar("mode"), layout |-> Scalar("layout"), force |-> global.force,
       keep |-> List("keep"), remove |-> List("remove"), allow |-> LastOf(sections, "allow", config.allow)]
Rules(config, flags, relative, found) ==
  LET language == Language(config, flags, relative, found)
  IN  Decided(config, flags, language, Sections(config, relative, language.language))
ForPath(r, path, found) == Rules(r.config, r.flags, RelativeToRoot(r, path), found)

\* The entries a run starts with: the files', then the command line's.
Start(r, key) ==
  LET listed == r.config.policy[key]
      from == At(r.from, key, Len(listed) + 1)
  IN  [seen |-> listed, sources |-> [i \in DOMAIN listed |-> IF i >= from THEN <<"flag">> ELSE <<"global">>]]

\* Mutant of Credit: a value two sections name is credited twice.
CreditAgain(state, source, value) ==
  [seen |-> Append(state.seen, value), sources |-> Append(state.sources, source)]
Credit(state, source, value) ==
  IF Contains(state.seen, value) THEN state
  ELSE [seen |-> Append(state.seen, value), sources |-> Append(state.sources, source)]
CreditAll(state, source, values) ==
  LET credited[n \in 0 .. Len(values)] == IF n = 0 THEN state ELSE Credit(credited[n - 1], source, values[n])
  IN  credited[Len(values)]

\* attribute: the source of each entry of a list, found by going over the
\* layers once more.
Attribute(r, sections, key) ==
  LET attributed[n \in 0 .. Len(sections)] ==
        IF n = 0 THEN Start(r, key)
        ELSE CreditAll(attributed[n - 1], sections[n].source, At(sections[n].set, key, <<>>))
  IN  attributed[Len(sections)].sources

\* for_path_traced: where the mode and every entry of the lists come from.
Naming(sections, key) ==
  LET naming[n \in 0 .. Len(sections)] ==
        CASE n = 0 -> <<"global">>
          [] n # 0 /\ key \in DOMAIN sections[n].set -> sections[n].source
          [] OTHER -> naming[n - 1]
  IN  naming[Len(sections)]
Traced(r, sections) ==
  [mode |-> IF "mode" \in DOMAIN r.flags THEN <<"flag">> ELSE Naming(sections, "mode"),
   keep |-> Attribute(r, sections, "keep"), remove |-> Attribute(r, sections, "remove")]
Trace(r, path, found) ==
  LET relative == RelativeToRoot(r, path)
  IN  Traced(r, Sections(r.config, relative, Language(r.config, r.flags, relative, found).language))

LanguageIsEnabled(r, language) ==
  \/ "language" \in DOMAIN r.flags
  \/ At(At(r.config.languages, language, noTable), "enabled", TRUE)
=============================================================================
