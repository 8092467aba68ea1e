-------------------------------- MODULE MCPolicy --------------------------------
EXTENDS Policy

Plain == [kind |-> "line", gap |-> "apart", lines |-> 1, hits |-> {}, dropped |-> FALSE,
          claimed |-> "line", tag |-> "none", age |-> "new", rough |-> FALSE,
          ragged |-> FALSE, deep |-> FALSE]
Of(k) == [Plain EXCEPT !.kind = k, !.claimed = k]
Calm == [language |-> "other", policy |-> "standard", force |-> FALSE, keepKinds |-> {},
         removeKinds |-> {}, keepRegex |-> 0, removeRegex |-> FALSE, tags |-> {},
         expiry |-> {}, trailing |-> "unset", maxLines |-> 0, wrap |-> FALSE,
         spell |-> FALSE, compact |-> TRUE]

\* Every file of up to n comments of the shapes, after what the gaps say.
FilesOf(shapes, gaps, n) ==
  {f \in UNION {[1..k -> {[c EXCEPT !.gap = g] : c \in shapes, g \in gaps}] : k \in 1..n} : Readable(f)}
Scene(fs, os) == [files |-> fs, options |-> os]


\* One comment of any kind against the table of rules.
Tables == Scene(
  FilesOf({Of(k) : k \in Kind}
          \cup {[Plain EXCEPT !.claimed = k] : k \in {"directive", "load-bearing"}}
          \cup {[Of(k) EXCEPT !.dropped = d, !.hits = {2}, !.rough = TRUE] :
                  k \in {"line", "shebang", "license"}, d \in BOOLEAN}
          \cup {[Of(k) EXCEPT !.dropped = TRUE] : k \in {"line", "license", "load-bearing"}},
          {"apart", "code"}, 1),
  {[Calm EXCEPT !.policy = p, !.force = x, !.keepKinds = k, !.removeKinds = r, !.keepRegex = n,
                !.removeRegex = d, !.trailing = t, !.spell = TRUE] :
     p \in {"none", "conservative", "standard", "all"}, x \in BOOLEAN,
     k \in {{}, {"line", "directive"}}, r \in {{}, {"line", "encoding", "html-comment"}},
     n \in {0, 2}, d \in BOOLEAN, t \in {"unset", "refused"}})

\* Up to three comments beside and below each other against the rules about place.
Neighbours == Scene(
  FilesOf({Plain, [Plain EXCEPT !.hits = {1}], [Plain EXCEPT !.tag = "note"], Of("doc-line"),
           [Of("block") EXCEPT !.lines = 2, !.hits = {1, 2}]},
          {"next", "apart", "code", "same"}, 3),
  {[Calm EXCEPT !.policy = p, !.keepRegex = n, !.tags = g, !.trailing = t[1], !.maxLines = t[2],
                !.compact = c] :
     p \in {"none", "all"}, n \in {0, 2}, g \in {{"note"}}, c \in BOOLEAN,
     t \in {<<"refused", 2>>, <<"allowed", 2>>, <<"refused", 0>>}})

\* Up to three comments under a block scalar.
Trails == Scene(
  {f \in FilesOf({Plain, [Plain EXCEPT !.deep = TRUE], [Of("directive") EXCEPT !.deep = TRUE],
                  [Plain EXCEPT !.tag = "note", !.deep = TRUE], [Plain EXCEPT !.hits = {1}],
                  [Plain EXCEPT !.tag = "todo", !.ragged = TRUE]},
                 {"next", "apart", "body"}, 3) : f[1].gap = "body"},
  {[Calm EXCEPT !.language = "yaml", !.policy = p, !.keepRegex = n, !.tags = g, !.maxLines = r[1],
                !.wrap = r[2]] :
     p \in {"standard", "all"}, n \in {0, 1}, g \in {{}, {"note"}},
     r \in {<<0, TRUE>>, <<1, TRUE>>, <<1, FALSE>>}})

\* Up to three comments and the rules about how they are written.
Styles == Scene(
  FilesOf({[Plain EXCEPT !.ragged = TRUE], [Plain EXCEPT !.rough = TRUE, !.tag = "todo", !.age = "old"],
           [Plain EXCEPT !.ragged = TRUE, !.tag = "todo", !.age = "old"], Of("directive"),
           [Plain EXCEPT !.ragged = TRUE, !.tag = "todo", !.age = "unknown"],
           [Of("doc-block") EXCEPT !.lines = 2, !.ragged = TRUE, !.rough = TRUE]},
          {"next", "apart", "code"}, 3),
  {[Calm EXCEPT !.language = l, !.policy = p, !.expiry = {"todo"}, !.spell = s, !.wrap = w,
                !.trailing = "refused"] :
     l \in {"python", "other"}, p \in {"none", "conservative"}, w \in BOOLEAN, s \in BOOLEAN})

Everything == {Tables, Neighbours, Trails, Styles}
=============================================================================
