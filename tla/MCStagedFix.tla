------------------------------ MODULE MCStagedFix ------------------------------
EXTENDS StagedFix

\* A text from the pieces on its lines.
Text(lines) ==
  LET pieces == FlattenSeq([i \in DOMAIN lines |-> Append(lines[i], "nl")])
  IN  [i \in DOMAIN pieces |-> [id |-> i, is |-> pieces[i]]]

a     == <<"a">>
b     == <<"b">>
hash  == <<"#">>
tail  == <<"a", "#">>
blank == <<>>
open  == <<"/*">>
close == <<"*/">>

Adding(lines, more) ==
  {InsertAt(lines, i, x) : i \in 1..(Len(lines) + 1), x \in more}
Route(bounds, named) == [bounds |-> bounds, named |-> named]
In == Route("in", FALSE)

MCFile == 1..2
MCSaveKinds == {hash, a, b}
\* One staged file, edited while the run looks at it.
One(old, new) == [head |-> <<Text(old), Text(<<a>>)>>, index |-> <<Text(new), Text(<<a>>)>>,
                  routes |-> <<In, In>>]
\* Two staged files, the second within and out of the run's bounds.
Two(old, new, route) ==
  [head |-> <<Text(old), Text(<<a>>)>>, index |-> <<Text(new), Text(<<a, hash>>)>>,
   routes |-> <<In, route>>]

MCStarts ==
  {One(<<hash, a>>, new) : new \in Adding(<<hash, a>>, {hash, tail, blank})}
  \cup {One(<<a>>, new) : new \in {<<hash, a, hash>>, <<a, hash, hash>>, <<tail, hash, a>>, <<a, hash, tail>>}}
  \cup {One(<<open, a, close>>, new) : new \in Adding(<<open, a, close>>, {hash})}
  \cup {One(<<a, blank>>, <<blank, hash, a, blank>>),
        One(<<a, hash>>, <<hash, b>>), One(<<a>>, <<open, a, close>>),
        One(<<a>>, <<hash, open, a>>), One(<<a, hash, a>>, <<a, hash, a, hash, a>>),
        One(<<hash>>, <<open, hash, close, hash>>)}
  \cup {Two(<<a>>, <<a, hash>>, r) : r \in {In, Route("excluded", TRUE)}}
  \cup {Two(<<a>>, <<open, a>>, r) : r \in {Route("hidden", FALSE), Route("large", TRUE)}}
=============================================================================
