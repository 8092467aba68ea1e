--------------------------------- MODULE MCText ---------------------------------
EXTENDS Text

Piece(tokens, kind, act, new, block) == [tokens |-> tokens, kind |-> kind, act |-> act, new |-> new, block |-> block]
Plain(tokens) == Piece(tokens, "code", "keep", <<>>, "none")
Gone(tokens) == Piece(tokens, "Block", "remove", <<>>, "none")
MCPieces == [
  a |-> Plain(<<"a">>), sp |-> Plain(<<"sp">>), tab |-> Plain(<<"tab">>), lf |-> Plain(<<"lf">>), gap |-> Plain(<<"lf", "lf">>),
  crlf |-> Plain(<<"cr", "lf">>), ls |-> Plain(<<"ls">>),
  c |-> Gone(<<"/*", "*/">>), m |-> Gone(<<"/*", "lf", "*/">>),
  t |-> Gone(<<"/*", "tab", "*/">>), w |-> Gone(<<"/*", "wide", "*/">>), u |-> Gone(<<"/*", "ls", "*/">>),
  l |-> Piece(<<"//">>, "Line", "remove", <<>>, "none"),
  k |-> Piece(<<"/*", "*/">>, "Block", "keep", <<>>, "none"),
  r |-> Piece(<<"/*", "*/">>, "Block", "rewrite", <<"/*", "sp", "*/">>, "none"),
  h |-> Piece(<<"<!--", "lf", "-->">>, "Html", "remove", <<>>, "none"),
  pipe |-> Piece(<<"|", "lf", "sp", "b", "lf">>, "code", "keep", <<>>, "clip"),
  plus |-> Piece(<<"|+", "lf", "sp", "b", "lf">>, "code", "keep", <<>>, "keep"),
  s |-> Piece(<<"#">>, "Line", "remove", <<>>, "none"),
  ks |-> Piece(<<"#">>, "Line", "keep", <<>>, "none"),
  \* characters of the shipped profiles
  dash |-> Plain(<<"-">>), dashes |-> Plain(<<"-", "-">>), open |-> Plain(<<"{", "-">>), close |-> Plain(<<"-", "}">>),
  bar |-> Plain(<<"|">>), quote |-> Plain(<<"q">>), escape |-> Plain(<<"esc">>),
  slash |-> Plain(<<"/">>), slashes |-> Plain(<<"/", "/">>), openC |-> Plain(<<"/", "*">>), closeC |-> Plain(<<"*", "/">>),
  semi |-> Plain(<<";">>), hash |-> Plain(<<"#">>), docline |-> Plain(<<"-", "-", "sp", "|">>),
  \* lines of prose
  word |-> Plain(<<"w">>), clause |-> Plain(<<"w", ",">>), two |-> Plain(<<"w", ".", "sp", "w">>),
  short |-> Plain(<<"etc", ".", "sp", "w">>), quoted |-> Plain(<<"(", "w", ".", ")", "sp", "w">>),
  code |-> Plain(<<"tick", "w", ".", "sp", "w", "tick", "sp", "w">>),
  ideo |-> Plain(<<"j", "stop", "j">>), item |-> Plain(<<"-", "sp", "w">>),
  deep |-> Plain(<<"sp", "sp", "w", ".", "sp", "w">>), near |-> Plain(<<"sp", "w">>), head |-> Plain(<<"#", "sp", "w">>),
  fence |-> Plain(<<"fence">>), none |-> Plain(<<>>), tag |-> Plain(<<"TODO", ":", "sp", "w", ".", "sp", "w">>)]
MCAlphabets == [compact |-> {"a", "sp", "lf", "gap", "c", "m", "l"},
                columns |-> {"a", "tab", "lf", "crlf", "t", "w", "u", "r", "h"},
                yaml    |-> {"a", "sp", "lf", "gap", "s", "ks", "pipe", "plus"},
                prose   |-> {"word", "clause", "two", "short", "quoted", "code", "ideo", "item", "deep",
                             "near", "head", "fence", "none", "tag"},
                haskell |-> {"dash", "dashes", "docline", "open", "close", "bar", "sp", "lf", "a"},
                wit     |-> {"slash", "slashes", "openC", "closeC", "quote", "escape", "lf", "a"},
                dune    |-> {"semi", "hash", "bar", "quote", "escape", "sp", "lf", "a"}]

MCMaxPieces == [compact |-> 5, columns |-> 4, yaml |-> 5, prose |-> 3, haskell |-> 4, wit |-> 4, dune |-> 4]

Delimiter(start, kind) == [start |-> start, kind |-> kind, boundary |-> FALSE, lineStart |-> FALSE, forbidden |-> {}]
Pair(start, end, kind) == [start |-> start, end |-> end, nested |-> TRUE, kind |-> kind]
Quoted == [start |-> <<"q">>, end |-> <<"q">>, escape |-> <<"esc">>, multiline |-> FALSE]
Format(lines, blocks, continuation) ==
  [lines |-> lines, blocks |-> blocks, strings |-> <<Quoted>>, protected |-> <<>>, tier |-> "Directive",
   continuation |-> continuation]
MCProfiles == [
  haskell |-> Format(<<Delimiter(<<"-", "-", "sp", "|">>, "DocLine"),
                       [Delimiter(<<"-", "-">>, "Line") EXCEPT !.forbidden = {"-", "+", "|"}]>>,
                     <<Pair(<<"{", "-", "|">>, <<"-", "}">>, "DocBlock"), Pair(<<"{", "-">>, <<"-", "}">>, "Block")>>, TRUE),
  wit     |-> Format(<<Delimiter(<<"/", "/", "/">>, "DocLine"), Delimiter(<<"/", "/">>, "Line")>>,
                     <<Pair(<<"/", "*">>, <<"*", "/">>, "Block")>>, FALSE),
  dune    |-> Format(<<Delimiter(<<";">>, "Line")>>, <<Pair(<<"#", "|">>, <<"|", "#">>, "Block")>>, FALSE)]
=============================================================================
