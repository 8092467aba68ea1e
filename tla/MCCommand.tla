------------------------------ MODULE MCCommand ------------------------------
EXTENDS Command
MCSupported == [js |-> {"standard", "jsx"}, rs |-> {"standard"}, unknown |-> {"standard"}]
Of(l) == [language |-> l, dialect |-> "standard"]
MCByName == ("a.js" :> Of("js")) @@ ("c.js" :> Of("js")) @@ ("b.rs" :> Of("rs"))
MCByHead == "script" :> Of("js")
MCReaders == ("e.x" :> "plugin") @@ ("p.y" :> "profile")
MCGenerated == {"gen.js", "marked"}
MCDotted == {".h", ".git"}

Says(todo, wide, valid, after) == [todo |-> todo, wide |-> wide, valid |-> valid, after |-> after]
clean == Says(0, 0, TRUE, "clean")
once == Says(1, 0, TRUE, "clean")
MCTexts == {clean, once}
Contents == {clean, once, Says(0, 1, TRUE, "clean"), Says(2, 1, TRUE, "clean"), Says(1, 0, FALSE, "clean"),
             Says(1, 0, TRUE, "removable"), Says(1, 1, TRUE, "rewritable"), Says(1, 0, TRUE, "broken")}

Plain(text) == [link |-> "no", large |-> FALSE, ignored |-> FALSE, head |-> "plain", text |-> text]
A == <<"w", "a.js">>
B == <<"w", "s", "b.rs">>
Bare == [mode |-> "none"]
Table(f) == [version |-> TRUE, policy |-> f, allow |-> noTable, files |-> noTable,
             languages |-> [l \in {} |-> noTable], overrides |-> <<>>]
Nowhere == [explicit |-> <<>>, user |-> <<>>, projects |-> [d \in {} |-> none], repositories |-> {<<"w">>}]
Base == [here |-> Nowhere, cwd |-> <<"w">>, flags |-> noTable, targets |-> <<>>, deny |-> {}, ops |-> {"check"},
         edits |-> 0, input |-> Plain(once), disk |-> (A :> Plain(once)) @@ (B :> Plain(clean))]

\* Every way of layering a few settings.
Policies == {noTable, [keep |-> <<"line">>], [keep |-> <<"doc", "line">>, mode |-> "all"]}
Sets == {[mode |-> "none", keep |-> <<"line", "todo">>], [language |-> "js", dialect |-> "jsx"],
         [mode |-> "all", allow |-> [max |-> 1], keep |-> <<"todo">>]}
Overrides == {<<>>, <<[paths |-> {<<"a.js">>, <<"s", "b.rs">>}, set |-> [dialect |-> "jsx"]]>>}
             \union {<<[paths |-> {<<"a.js">>, <<"s", "b.rs">>}, set |-> s], [paths |-> {<<"a.js">>, <<>>}, set |-> t]>> : s \in Sets, t \in Sets}
ByLanguage == {[l \in {} |-> noTable], [js |-> [mode |-> "all", keep |-> <<"doc">>, dialect |-> "jsx"]],
              [js |-> [enabled |-> FALSE]]}
Projects == {[Table(p) EXCEPT !.languages = l, !.overrides = o] : p \in Policies, l \in ByLanguage, o \in Overrides}
Users == {<<>>, <<Table([keep |-> <<"todo">>, mode |-> "all"])>>,
          <<[Table(noTable) EXCEPT !.version = FALSE, !.overrides = <<[paths |-> {<<"a.js">>}, set |-> [keep |-> <<"doc">>]]>>]>>}
Flags == {noTable, [mode |-> "none", keep |-> <<"line", "doc">>], [dialect |-> "jsx"], [language |-> "js", dialect |-> "jsx"]}
Layered ==
  {[Base EXCEPT !.here.user = u, !.here.projects = (<<"w">> :> p), !.flags = f] : u \in Users, p \in Projects, f \in Flags}
  \union {[Base EXCEPT !.here.user = u, !.here.projects = (<<"w">> :> Table(Bare)) @@ (<<"w", "s">> :> p), !.cwd = c]
          : u \in Users, p \in {Table(q) : q \in Policies}, c \in {<<"w">>, <<"w", "s">>}}
  \union {[Base EXCEPT !.here.explicit = <<[directory |-> <<"w", "s">>, text |-> p]>>, !.flags = f]
          : p \in {[Table(q) EXCEPT !.version = v] : q \in Policies, v \in BOOLEAN}, f \in Flags}

\* Trees of every kind of file, walked under every filter.
Pool == (A :> Plain(once)) @@ (<<"w", ".h", "c.js">> :> Plain(once)) @@ (<<"w", "s", ".h", "c.js">> :> Plain(once))
        @@ (<<"w", "s", "c.js">> :> [Plain(once) EXCEPT !.large = TRUE])
        @@ (<<"w", "s", "gen.js">> :> Plain(once)) @@ (<<"w", "s", "n">> :> [Plain(once) EXCEPT !.head = "binary"])
        @@ (<<"w", "s", "m">> :> [Plain(once) EXCEPT !.head = "marked"])
        @@ (<<"w", "d.txt">> :> Plain(once)) @@ (<<"w", "s", "e.x">> :> Plain(once))
        @@ (<<"w", "s", "f">> :> [Plain(once) EXCEPT !.head = "script"])
        @@ (<<"w", "l.js">> :> [Plain(once) EXCEPT !.link = "file"])
        @@ (<<"w", "s", "l.js">> :> [Plain(once) EXCEPT !.link = "broken"])
        @@ (<<"w", "s", "i.js">> :> [Plain(once) EXCEPT !.ignored = TRUE])
        @@ (<<"w", ".git", "c.js">> :> Plain(once))
        @@ (<<"w", "s", "ln">> :> [Plain(clean) EXCEPT !.link = "directory"])
        @@ (<<"w", "s", "ln", "c.js">> :> Plain(once))
Trees == {[p \in t |-> Pool[p]] : t \in UNION {kSubset(2, DOMAIN Pool)}}
Arguments == {<<>>, <<<<"s", "ln">>>>, <<<<"s", "ln", ".">>>>, <<dot>>, <<<<"s">>>>, <<<<".h">>, <<"s", "..">>>>, <<<<"s">>, <<"a.js">>, <<"gone">>>>, <<dash>>, <<dash, dash>>}
Filters == {noTable, [hidden |-> TRUE], [follow |-> TRUE, ignore |-> FALSE], [include |-> {<<"a.js">>, <<"s", "c.js">>}],
            [exclude |-> {<<"a.js">>, <<"s", ".h", "c.js">>}, generated |-> TRUE]}
Walked ==
  {[Base EXCEPT !.here.explicit = <<[directory |-> <<"w">>, text |-> [Table(noTable) EXCEPT !.files = f]]>>,
      !.targets = t, !.disk = d, !.ops = {"coverage", "check"}]
   : f \in Filters, t \in Arguments, d \in Trees}

\* Two files with every pair of texts, under every operation.
Every == {"check", "diff", "fix", "tidy", "ratchet", "record"}
Judged ==
  {[Base EXCEPT !.here.explicit = <<[directory |-> <<"w">>, text |-> Table([mode |-> m, force |-> v])]>>,
      !.disk = (A :> Plain(x)) @@ (B :> Plain(y)), !.ops = Every, !.edits = 1, !.flags = f, !.targets = t]
   : m \in {"code-only"}, v \in BOOLEAN, x \in Contents, y \in {once, Says(1, 0, FALSE, "clean"), Says(1, 0, TRUE, "removable")},
     f \in {noTable}, t \in {<<>>}}
  \union {[Base EXCEPT !.disk = (A :> Plain(x)) @@ (<<"w", "s", "e.x">> :> Plain(y)), !.ops = Every,
             !.flags = f, !.targets = t]
          : x \in Contents, y \in {once, Says(0, 1, TRUE, "clean")}, f \in Flags,
            t \in {<<<<"a.js">>>>, <<<<"a.js">>, <<"s", "..", "a.js">>>>, <<dot, <<"gone">>>>, <<dot, dash>>}}
  \union {[Base EXCEPT !.disk = (A :> Plain(x)) @@ (<<"w", "d.txt">> :> Plain(clean)), !.ops = Every \union {"coverage"},
             !.deny = {"unknown language"}]
          : x \in Contents}
\* A dialect that no file of the matching language can have.
Misfit ==
  {[Base EXCEPT !.here.projects = (<<"w">> :> [Table(noTable) EXCEPT !.overrides =
      <<[paths |-> {<<"s", "b.rs">>}, set |-> [dialect |-> "jsx"]]>>]), !.ops = Every \union {"coverage"}]}
MCSetups == Layered \union Walked \union Judged \union Misfit
=============================================================================
