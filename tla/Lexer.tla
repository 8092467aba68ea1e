-------------------------------- MODULE Lexer --------------------------------
(***************************************************************************)
(* The scanner of ocomment-core: one pass over a document that finds its   *)
(* comments, notes what does not lex, and offers the offsets a later scan  *)
(* may restart from.  A scan is a fold of Step over the lexemes; its state *)
(* holds the stack of open modes (see Grammar), each with the position it  *)
(* opened at, its nesting depth and, for code, the language's own memory.  *)
(* lang is a language: what it is, and its modes.                          *)
(***************************************************************************)
EXTENDS Grammar, FiniteSets, SequencesExt

NONE == 99

\* Languages whose scan runs on a remapped copy, which offers no checkpoint.
Untracked == {"java"}

----------------------------------------------------------------------------
\* Lines and the preamble.
LineStart(doc, i) == i = 1 \/ doc[i - 1] \in NewLine
\* A line terminator: a CRLF pair is one, at its lf.
EndsLine(doc, i) == doc[i] = "lf" \/ (doc[i] = "cr" /\ (i = Len(doc) \/ doc[i + 1] # "lf"))
WithinFirstTwoLines(doc, p) == Cardinality({i \in 1..p : EndsLine(doc, i)}) < 2
LineEnd(doc, i) == CHOOSE e \in i..Len(doc) :
                     /\ e = Len(doc) \/ doc[e + 1] \in NewLine
                     /\ \A j \in (i + 1)..e : doc[j] \notin NewLine
NextLine(doc, i) ==
  LET e == LineEnd(doc, i)
  IN  IF e + 2 <= Len(doc) /\ doc[e + 1] = "cr" /\ doc[e + 2] = "lf" THEN e + 2
      ELSE Min({e + 1, Len(doc)})
PreambleIsSettled(doc, p) == ~WithinFirstTwoLines(doc, p)
DeclaresEncoding(doc, p) == p < Len(doc) /\ doc[p + 1] = "#coding" /\ LineStart(doc, p + 1)

\* The kind of the comment at p, found by a scan that began at from.
Classify(lang, doc, from, p, kind) ==
  IF from = 0 /\ p = 0 /\ doc[1] = "#!" THEN "Shebang"
  ELSE IF /\ from = 0 /\ lang.is \in {"python", "ruby"}
          /\ WithinFirstTwoLines(doc, p) /\ DeclaresEncoding(doc, p) THEN "Encoding"
  ELSE kind

----------------------------------------------------------------------------
\* The rules a restart is held to, asked of one revision's lexemes.
Splices(lang, doc) == lang.is = "c" /\ \E i \in 1..Len(doc) : doc[i] = "splice"
HeadsBlockScalar(doc, i) ==
  doc[i] = "|" /\ (i = Len(doc) \/ doc[i + 1] \in NewLine \cup {"#"})
FirstBlockScalar(lang, doc, from) ==
  IF lang.is = "yaml" /\ \E i \in (from + 1)..Len(doc) : HeadsBlockScalar(doc, i)
  THEN (CHOOSE i \in (from + 1)..Len(doc) :
          HeadsBlockScalar(doc, i)
          /\ \A j \in (from + 1)..(i - 1) : ~HeadsBlockScalar(doc, j)) - 1
  ELSE NONE
LineEndingPermits(doc, p) == p = 0 \/ p = Len(doc) \/ doc[p] # "cr" \/ doc[p + 1] # "lf"
PreamblePermits(lang, doc, p) ==
  p = 0 \/ lang.is \notin {"python", "ruby"} \/ ~WithinFirstTwoLines(doc, p)
        \/ ~DeclaresEncoding(doc, p)
\* Read forward from the < at i, quotes pairing, a tag that is still open at p.
OpenAt(doc, i, p) ==
  LET quoted[j \in i..p] == IF j = i THEN FALSE ELSE quoted[j - 1] # (doc[j] = "\"")
  IN  \A j \in (i + 1)..p :
        doc[j] \in {">", "-->", "<script>", "</script>"} => quoted[j - 1]
TagStart == {"<a", "<!--"}
TagBoundaryPermits(doc, from, p) ==
  \A i \in (from + 1)..p : doc[i] \in TagStart => ~OpenAt(doc, i, p)

\* What stands in front of a `<` decides whether it begins an element, and a scan
\* that begins there cannot see it.
ElementBoundaryPermits(doc, p) == p < Len(doc) => doc[p + 1] \notin {"<a", "<!--"}

\* permit_restart_at: the rules of one revision, for an offset of another.
PermitRestartAt(lang, doc, p) ==
  /\ ~Splices(lang, doc)
  /\ p <= FirstBlockScalar(lang, doc, 0)
  /\ LineEndingPermits(doc, p)
  /\ PreamblePermits(lang, doc, p)
  /\ lang.is = "scala" => ElementBoundaryPermits(doc, p)
  /\ lang.is = "html" => TagBoundaryPermits(doc, 0, p)

\* The rules as the scanner asks them of the suffix it was given.
Restartable(lang, doc, from, p) ==
  /\ lang.is \notin Untracked
  /\ ~Splices(lang, SubSeq(doc, from + 1, Len(doc)))
  /\ p <= FirstBlockScalar(lang, doc, from)
  /\ from > 0 \/ PermitRestartAt(lang, doc, p)
  /\ lang.is = "scala" => ElementBoundaryPermits(doc, p)
  /\ lang.is = "html" => TagBoundaryPermits(doc, from, p)

----------------------------------------------------------------------------
\* JavaScript: whether a / begins a regular expression, and what a { opens.
JsFresh(nested) == [regex |-> TRUE, stmt |-> ~nested, ctl |-> FALSE, blk |-> FALSE,
                    parens |-> <<>>, braces |-> <<>>]
JsSet(m, regex, stmt, ctl, blk) ==
  [m EXCEPT !.regex = regex, !.stmt = stmt, !.ctl = ctl, !.blk = blk]
JsPop(s, empty) == IF s = <<>> THEN empty ELSE Last(s)
JsAfter(m, x) ==
  CASE x \in {"\"", "tick", "literal", "x", "]", "++", "<a", "extends"} -> JsSet(m, FALSE, FALSE, FALSE, FALSE)
    [] x = "if"     -> JsSet(m, TRUE, FALSE, TRUE, FALSE)
    [] x = "else"   -> JsSet(m, TRUE, FALSE, FALSE, TRUE)
    [] x = "return" -> JsSet(m, TRUE, FALSE, FALSE, FALSE)
    [] x = ";"      -> JsSet(m, TRUE, TRUE, FALSE, FALSE)
    [] x = ":"      -> JsSet(m, TRUE, JsPop(m.braces, TRUE), FALSE, FALSE)
    [] x = "=>"     -> JsSet(m, TRUE, TRUE, FALSE, TRUE)
    [] x = "{" -> LET block == m.blk \/ ~m.regex \/ m.stmt
                  IN  [JsSet(m, TRUE, block, FALSE, FALSE) EXCEPT !.braces = Append(@, block)]
    [] x = "}" -> LET block == JsPop(m.braces, TRUE)
                  IN  [JsSet(m, block, block, FALSE, FALSE) EXCEPT
                         !.braces = IF @ = <<>> THEN @ ELSE Front(@)]
    [] x = "(" -> [JsSet(m, TRUE, FALSE, FALSE, FALSE) EXCEPT !.parens = Append(@, m.ctl)]
    [] x = ")" -> LET control == JsPop(m.parens, FALSE)
                  IN  [JsSet(m, control, control, FALSE, control) EXCEPT
                         !.parens = IF @ = <<>> THEN @ ELSE Front(@)]
    [] OTHER -> JsSet(m, TRUE, FALSE, FALSE, FALSE)
JsClean(m) == m.regex /\ m.stmt /\ ~m.ctl /\ ~m.blk /\ m.parens = <<>> /\ m.braces = <<>>
\* js_regex_end: a regular expression closes on its own line or is no literal.
JsRegexCloses(doc, i) ==
  \E j \in (i + 1)..Len(doc) :
    doc[j] \in Regex.close /\ \A k \in (i + 1)..j : doc[k] \notin NewLine

\* tsx_head_token: the token at or behind i, over line ends and comments.
TsxToken(doc, i) ==
  LET past(S, k) == IF S = {} THEN Len(doc) + 1 ELSE Min(S) + k
      at[j \in i..(Len(doc) + 1)] ==
        IF j > Len(doc) THEN j
        ELSE CASE doc[j] \in NewLine -> at[j + 1]
               [] doc[j] = "//" -> at[past({k \in j..Len(doc) : doc[k] \in NewLine}, 0)]
               [] doc[j] = "/*" -> at[past({k \in j..Len(doc) : doc[k] = "*/"}, 1)]
               [] OTHER -> j
  IN  at[i]
\* tsx_type_parameter_start: a comma or a constraint follows the name.
TsxTypeParameters(doc, i) ==
  LET follows == TsxToken(doc, i + 1)
      within  == TsxToken(doc, follows + 1)
  IN  /\ follows <= Len(doc)
      /\ \/ doc[follows] = ","
         \/ /\ doc[follows] = "extends"
            /\ within > Len(doc) \/ doc[within] \notin {">", "/>"}

\* Swift: a bare regular expression meets its / on its line, not behind a blank.
SwiftRegexCloses(doc, i) ==
  LET slashed == {j \in (i + 1)..Len(doc) :
                    /\ doc[j] \in {"x/", "*/", "#/", "//", "/*", "/x", "/#"}
                    /\ \A k \in i..j : doc[k] \notin NewLine}
  IN  slashed # {} /\ doc[Min(slashed)] \in {"x/", "*/", "#/"}

\* Ruby: the lexer state a / or a << is read in.
RubyAfter(m, x) ==
  [m EXCEPT !.state =
     CASE x \in {"\"", "literal", ")", "}", "def", "1", "<<E", "=end", "\\", "?#"} -> "End"
       [] x \in {"x", "E", "/x", "__END__"} -> "Argument"
       [] x \in {"%(", "%w("} -> IF @ = "End" THEN "Begin" ELSE "End"
       [] OTHER -> "Begin"]
\* An argument may begin with a literal whose first character touches it.
RubyLiteralOpens(m, x) == m.state = "Begin" \/ (m.state = "Argument" /\ x # "/")
RubyHeredocMayOpen(m) == m.state \in {"Begin", "Argument"}

\* Shell: where a command may begin, and the case statements around it.
ShellCase(m) == IF m.cases = <<>> THEN "none" ELSE Last(m.cases)
ShellWord(m) == [m EXCEPT !.cmd = FALSE]
ShellTurn(m, state, cmd) == [m EXCEPT !.cases = Append(Front(@), state), !.cmd = cmd]
ShellAfter(m, x) ==
  CASE x = "<<E" -> m
    [] x = "case" /\ m.cmd -> [m EXCEPT !.cases = Append(@, "AwaitIn"), !.cmd = FALSE]
    [] x = "in" /\ ShellCase(m) = "AwaitIn" -> ShellTurn(m, "Pattern", FALSE)
    [] x = "esac" /\ (m.cmd \/ ShellCase(m) = "Pattern") ->
         [m EXCEPT !.cases = IF @ = <<>> THEN @ ELSE Front(@), !.cmd = FALSE]
    [] x = ")" /\ ShellCase(m) = "Pattern" -> ShellTurn(m, "Body", TRUE)
    [] x = ";;" /\ ShellCase(m) = "Body" -> ShellTurn(m, "Pattern", FALSE)
    [] x = "(" -> [m EXCEPT !.cmd = ~m.sub \/ ShellCase(m) # "Pattern"]
    [] x = ")" /\ ShellCase(m) # "Pattern" -> [m EXCEPT !.cmd = TRUE]
    [] x = ";;" /\ ShellCase(m) # "Body" -> [m EXCEPT !.cmd = TRUE]
    [] x = ";" -> [m EXCEPT !.cmd = TRUE]
    [] OTHER -> ShellWord(m)

\* YAML: whether a node may begin here, the column of its first token and the
\* column the next value hangs off.  A lexeme is one column.
Column(doc, i) == i - 1 - (CHOOSE p \in 0..(i - 1) :
                             /\ p = 0 \/ doc[p] \in NewLine
                             /\ \A q \in (p + 1)..(i - 1) : doc[q] \notin NewLine)
YamlToken(m, doc, i) == IF m.node /\ m.token = NONE THEN Column(doc, i) ELSE m.token
YamlAfter(m, doc, i) ==
  LET x == doc[i]
      token == YamlToken(m, doc, i)
  IN  CASE x = "sp" -> m
        [] x = "-" /\ m.node -> [m EXCEPT !.owner = Column(doc, i), !.token = NONE]
        [] x = "k:" -> [node |-> TRUE, token |-> NONE,
                        owner |-> IF token # NONE THEN token ELSE m.owner]
        [] OTHER -> [m EXCEPT !.token = token, !.node = FALSE]
YamlNewLine(m) == [node |-> TRUE, token |-> NONE, owner |-> IF m.node THEN m.owner ELSE NONE]
\* The position where the lines under the header at i stop being its body.
Indent(doc, p) == CHOOSE n \in 0..(Len(doc) - p) :
                    /\ \A k \in 1..n : doc[p + k] = "sp"
                    /\ p + n = Len(doc) \/ doc[p + n + 1] # "sp"
BodyLine(doc, p, floor) ==
  LET n == Indent(doc, p)
  IN  n >= floor \/ p + n = Len(doc) \/ doc[p + n + 1] \in NewLine
YamlBodyEnd(doc, i, floor) ==
  LET starts == {p \in (i + 1)..Len(doc) : doc[p] \in NewLine}
      out    == {p \in starts : p < Len(doc) /\ ~BodyLine(doc, p, floor)}
  IN  IF out = {} THEN Len(doc) ELSE Min(out)

\* Perl: whether a / begins a regular expression, "either" behind a bracket.
PerlAfter(m, x) ==
  [m EXCEPT !.regex = CASE x \in {")", "]", "}"} -> "either"
                        [] x \in {"(", "[", "{", "=", ";", "print", "/", "q(", "s("} -> "yes"
                        [] x \in {".", "\\"} -> @
                        [] OTHER -> "no"]
\* perl_section_end_reach: where the section whose delimiter is at i closes.
PerlSection(doc, i, nest, close) ==
  LET at[j \in Nat, depth \in Nat] ==
        IF j > Len(doc) THEN NONE
        ELSE CASE doc[j] = "\\"   -> at[j + 2, depth]
               [] doc[j] = close  -> IF depth = 1 THEN j ELSE at[j + 1, depth - 1]
               [] doc[j] \in nest -> at[j + 1, depth + 1]
               [] OTHER           -> at[j + 1, depth]
  IN  at[i + 1, 1]
PerlWord == {"x", "E", "print", "format", "q(", "s("}
\* scan_perl_quote_word: the end of q(..) or s(..)(..), and what was read to find it.
PerlQuote(doc, i) ==
  LET paired == {"(", "q(", "s("}
      first  == PerlSection(doc, i, paired, ")")
      next   == first + 1
      second == IF doc[next] = "(" THEN PerlSection(doc, next, paired, ")")
                ELSE PerlSection(doc, next, {}, doc[next])
      found(end) == [end |-> end, reach |-> IF end = NONE THEN Len(doc) + 1 ELSE end]
  IN  IF doc[i] = "q(" \/ first = NONE THEN found(first)
      ELSE IF next > Len(doc) THEN found(NONE)
      ELSE IF doc[next] \in PerlWord \cup NewLine THEN [end |-> NONE, reach |-> next]
      ELSE found(second)
\* What is read by lines: documentation to its =cut, a format to its dot, data.
PerlPast(doc, i, closer) ==
  LET ends == {j \in (i + 1)..Len(doc) : doc[j] = closer /\ LineStart(doc, j)}
  IN  IF ends = {} THEN Len(doc) ELSE NextLine(doc, Min(ends))
PerlLines(doc, i) ==
  IF ~LineStart(doc, i) THEN NONE
  ELSE CASE doc[i] = "=pod"    -> PerlPast(doc, i, "=cut")
         [] doc[i] = "__END__" -> Len(doc)
         [] doc[i] = "format" /\ \E j \in i..LineEnd(doc, i) : doc[j] = "=" ->
              PerlPast(doc, i, ".")
         [] OTHER -> NONE

\* Markdown: where a block of indented lines ends, blank ones among them.
Fences == {"fence", "gofence"}
MarkdownIndented(doc, i) ==
  LET out == {p \in i..(Len(doc) - 1) :
                doc[p] \in NewLine /\ doc[p + 1] \notin NewLine \cup {"tab"}}
  IN  IF out = {} THEN Len(doc) ELSE Min(out)
FenceOpens(doc, i) ==
  LineStart(doc, i) /\ \A j \in (i + 1)..LineEnd(doc, i) : doc[j] \notin {"tick", "ticks", "ticks go"}
FenceCloses(doc, i) == LineStart(doc, i) /\ LineEnd(doc, i) = i

Scripts == {"javascript", "jsx", "tsx"}
Fresh(lang, nested) ==
  CASE lang.is \in Scripts -> JsFresh(nested)
    [] lang.is = "ruby"  -> [state |-> "Begin"]
    [] lang.is = "shell" -> [cmd |-> TRUE, cases |-> <<>>, sub |-> nested]
    [] lang.is = "yaml"  -> [node |-> TRUE, token |-> NONE, owner |-> NONE]
    [] lang.is = "perl"  -> [regex |-> "yes"]
    [] OTHER -> <<>>
After(lang, m, doc, i) ==
  CASE lang.is \in Scripts -> JsAfter(m, doc[i])
    [] lang.is = "ruby"  -> RubyAfter(m, doc[i])
    [] lang.is = "shell" -> ShellAfter(m, doc[i])
    [] lang.is = "yaml"  -> YamlAfter(m, doc, i)
    [] lang.is = "perl"  -> PerlAfter(m, doc[i])
    [] OTHER -> m
\* What a line terminator in code does to the memory.
OverLine(lang, m) ==
  CASE lang.is = "ruby"  -> [m EXCEPT !.state = "Begin"]
    [] lang.is = "shell" -> [m EXCEPT !.cmd = ShellCase(m) # "Pattern"]
    [] lang.is = "yaml"  -> YamlNewLine(m)
    [] lang.is = "perl"  -> [m EXCEPT !.regex = "yes"]
    [] OTHER -> m
\* The memory a restart reproduces.
Clean(lang, m) ==
  CASE lang.is \in Scripts -> JsClean(m)
    [] lang.is = "shell" -> m.cases = <<>>
    [] lang.is = "yaml"  -> m.owner = NONE
    [] OTHER -> TRUE

----------------------------------------------------------------------------
\* The scan.  Offsets count the lexemes before them: lexeme i stands between
\* offsets i - 1 and i.
Frame(mode, start, mem, saved) ==
  [mode |-> mode, start |-> start, depth |-> 1, mem |-> mem, saved |-> saved]
\* with_owned: the offset a scan begins at is the first it remembers, asked nothing.
Start(lang, from, stop) ==
  [from |-> from, stop |-> stop, skip |-> from, seen |-> from, halted |-> FALSE, pend |-> 0,
   stack |-> <<Frame("top", from, Fresh(lang, FALSE), 0)>>,
   found |-> <<>>, errors |-> {}, points |-> <<from>>]

ModeOf(lang, f) == lang.modes[f.mode]
Inner(s) == Last(s.stack)
Become(s, mode) == [s EXCEPT !.stack[Len(s.stack)].mode = mode]
Deeper(s, by) == [s EXCEPT !.stack[Len(s.stack)].depth = @ + by]
Remember(s, m) == [s EXCEPT !.stack[Len(s.stack)].mem = m]
Comment(lang, doc, s, f, to) ==
  [from |-> f.start, to |-> to,
   kind |-> Classify(lang, doc, s.from, f.start, ModeOf(lang, f).kind)]
IsComment(lang, f) == ModeOf(lang, f).kind \in {"Line", "Block", "HtmlComment"}

\* End every mode above the k-th at offset to, without its closer: a comment is
\* still a comment, and what may not stand open is an error.
CloseAbove(lang, doc, s, k, to) ==
  LET above == SubSeq(s.stack, k + 1, Len(s.stack))
  IN  [s EXCEPT !.stack = SubSeq(@, 1, k),
                !.found = @ \o [j \in 1..Len(SelectSeq(above, LAMBDA f : IsComment(lang, f))) |->
                   Comment(lang, doc, s, SelectSeq(above, LAMBDA f : IsComment(lang, f))[j], to)],
                !.errors = @ \cup {above[j].start : j \in
                                {h \in DOMAIN above : ~ModeOf(lang, above[h]).eof}}]

\* consult: what the scan has read to decide what it did; an offset in front of
\* it is no place to restart from.
Consult(s, p) == [s EXCEPT !.seen = Max({@, p})]
\* add_safe_checkpoint
Offer(lang, doc, s, p) ==
  IF p >= s.seen /\ Restartable(lang, doc, s.from, p)
  THEN [s EXCEPT !.points = Append(@, p), !.halted = (p = s.stop)]
  ELSE s

CodeNewLineNested(lang, doc, s, i) ==
  LET next == Remember(s, OverLine(lang, Inner(s).mem))
  IN  IF EndsLine(doc, i) THEN Offer(lang, doc, next, i) ELSE s

\* The bodies of the here documents announced so far begin at offset i.
HeredocBodies(s, i) ==
  [s EXCEPT !.stack = Append(@, [Frame("here", i, <<>>, 0) EXCEPT !.depth = s.pend]),
            !.pend = 0]
\* A line terminator read as code: the bodies of the here documents announced on
\* the line, or a line start the scan may be restarted from.
CodeNewLine(lang, doc, s, i) ==
  LET next == Remember(s, OverLine(lang, Inner(s).mem))
  IN  IF ~EndsLine(doc, i) THEN s
      ELSE IF s.pend > 0
      THEN HeredocBodies(next, i)
      ELSE IF Len(s.stack) = 1 /\ Clean(lang, Inner(next).mem) THEN Offer(lang, doc, next, i)
      ELSE next

\* Languages with a first line of their own at offset 0.
ShebangLanguages == Scripts \cup {"dart", "swift", "csharp", "scala", "php", "lua"}
Shebang(lang, doc, s, i) ==
  i = 1 /\ s.from = 0 /\ doc[1] = "#!" /\ lang.is \in ShebangLanguages

\* csharp_multiline_raw_string: nothing stands behind the opener on its line.
EndsItsLine(doc, i) == i < Len(doc) /\ doc[i + 1] \in NewLine
\* The mode the lexeme at i opens inside f, if it opens one there.
Target(lang, doc, f, i) ==
  LET mode == ModeOf(lang, f).opens[doc[i]]
  IN  CASE mode = "dir" /\ (\/ ~LineStart(doc, i)
                            \/ doc[i] = "#region" /\ (i = Len(doc) \/ doc[i + 1] # "//")) -> "rest"
        [] mode = "raw" /\ lang.is = "csharp" /\ ~EndsItsLine(doc, i) -> "rawline"
        [] mode = "fraw" /\ ~EndsItsLine(doc, i) -> "frawline"
        [] mode = "extended" /\ EndsItsLine(doc, i) -> "lines"
        [] mode \in Fences /\ ~FenceOpens(doc, i) -> IF doc[i] = "tick" THEN "span" ELSE "run"
        [] OTHER -> mode
RegexOpens(lang, doc, f, i) ==
  CASE lang.is = "ruby"  -> RubyLiteralOpens(f.mem, doc[i])
    [] lang.is = "swift" -> SwiftRegexCloses(doc, i)
    [] lang.is = "perl"  -> f.mem.regex # "no"
    [] OTHER -> (f.mem.regex \/ doc[i] = "</a>") /\ JsRegexCloses(doc, i)
ElementOpens(lang, doc, s, f, i) ==
  IF lang.is = "scala" THEN i - 1 = s.from \/ doc[i - 1] # "cr"
  ELSE f.mem.regex /\ ~(lang.is = "tsx" /\ TsxTypeParameters(doc, i))
\* The ' that has one character between itself and the next one.
CharLiteral(doc, i) == i < Len(doc) /\ doc[i + 1] = "'"
\* scala_character_literal_end: one character between quotes, or any one behind a
\* backslash, the end of the line too.
OneByte == {"'", "\\", "\"", "tick", "{", "}", "(", ")"} \cup NewLine
ScalaCharacter(doc, i) ==
  LET escaped == i < Len(doc) /\ doc[i + 1] = "\\"
      close   == i + (IF escaped THEN 3 ELSE 2)
  IN  IF /\ close <= Len(doc) /\ doc[close] = "'" /\ doc[close - 1] \in OneByte
         /\ escaped \/ doc[i + 1] \notin NewLine \cup {"'"}
      THEN close ELSE NONE
\* A url( takes a quoted value only as its first token.
UrlValue(doc, f, i) == \A j \in (f.start + 2)..(i - 1) : doc[j] \in NewLine
\* js_html_close_comment: a --> that begins its line.
HtmlCloseComment(doc, i) == LineStart(doc, i)
\* markdown_inline_code_end: the run of the same length that ends inline code.
SpanCloses(lang, doc, mode, i) == \E j \in (i + 1)..Len(doc) : doc[j] \in lang.modes[mode].close
\* php_heredoc_header: the label ends its line.
PhpHeredocHeader(doc, i) == EndsItsLine(doc, i)
Opens(lang, doc, s, i) ==
  LET f == Inner(s)
      x == doc[i]
      mode == Target(lang, doc, f, i)
  IN  /\ x \in DOMAIN ModeOf(lang, f).opens
      /\ CASE mode = "regex"   -> RegexOpens(lang, doc, f, i)
           [] mode = "element" -> ElementOpens(lang, doc, s, f, i)
           [] mode = "chr"     -> CharLiteral(doc, i)
           [] mode = "doc"     -> LineStart(doc, i)
           [] mode \in {"percent", "words"} -> RubyLiteralOpens(f.mem, x)
           [] mode \in {"span", "run"} -> SpanCloses(lang, doc, mode, i)
           [] x = "-->" -> HtmlCloseComment(doc, i)
           [] x = "?#"  -> f.mem.state = "End"
           [] f.mode = "url" /\ x = "\"" -> UrlValue(doc, f, i)
           [] mode = "here" -> PhpHeredocHeader(doc, i)
           [] OTHER -> TRUE
Open(lang, doc, s, i) ==
  LET f      == Inner(s)
      mode   == Target(lang, doc, f, i)
      told   == IF mode \in {"regex", "element"} THEN [doc EXCEPT ![i] = "literal"] ELSE doc
      held   == lang.is = "shell" /\ mode \in {"hole", "back"}
      child  == Frame(mode, i - 1, Fresh(lang, mode = "hole"), IF held THEN s.pend ELSE 0)
      outer  == IF ModeOf(lang, f).kind = "code" /\ ~IsComment(lang, child)
                THEN After(lang, f.mem, told, i) ELSE f.mem
      opened == IF mode = "element"
                THEN <<[child EXCEPT !.depth = 0], [child EXCEPT !.mode = "start"]>>
                ELSE <<child>>
      next   == [Remember(s, outer) EXCEPT !.stack = @ \o opened, !.pend = IF held THEN 0 ELSE @]
  IN  CASE mode \in Fences -> [next EXCEPT !.skip = LineEnd(doc, i)]
        [] mode = "header" -> [next EXCEPT !.pend = 1]
        [] mode = "regex" /\ lang.is = "perl" /\ f.mem.regex = "either" ->
             [next EXCEPT !.errors = @ \cup {i - 1}]
        [] OTHER -> next

\* The closer of the innermost mode is read; comments take it with them.
Close(lang, doc, s, i) ==
  LET f     == Inner(s)
      shut  == [s EXCEPT !.stack = Front(@),
                         !.pend = IF lang.is = "shell" /\ f.mode \in {"hole", "back"} THEN f.saved ELSE @]
      slash == f.mode = "regex" /\ doc[i] \in Regex.close \ {"/", "*/"} /\ lang.is # "swift"
      outer == Inner(shut)
  IN  IF IsComment(lang, f)
      THEN [shut EXCEPT !.found = Append(@, Comment(lang, doc, s, f, i))]
      ELSE IF f.mode \in Fences THEN [shut EXCEPT !.skip = NextLine(doc, i)]
      ELSE IF lang.is = "perl" /\ f.mode = "here"
      THEN [Remember(shut, [outer.mem EXCEPT !.regex = "no"]) EXCEPT !.skip = NextLine(doc, i)]
      ELSE IF slash THEN Remember(shut, JsAfter(outer.mem, "/"))
      ELSE shut

\* Elements: a start tag that does not close itself opens one, and the last of
\* them to close ends the literal.
TagEnd == {">", "/>", "-->", "</a>"}
ClosesItself(lang, doc, i) ==
  doc[i] = "/>" \/ (lang.is # "scala" /\ doc[i] = ">" /\ doc[i - 1] \in {"/", "//", "*/"})
EndStart(lang, doc, s, i) ==
  LET shut == [s EXCEPT !.stack = Front(@)]
  IN  IF ~ClosesItself(lang, doc, i) THEN Deeper(shut, 1)
      ELSE IF Inner(shut).depth = 0 THEN [shut EXCEPT !.stack = Front(@)]
      ELSE shut
EndElement(s) ==
  IF Inner(s).depth = 1 THEN [s EXCEPT !.stack = Front(@)] ELSE Deeper(s, -1)
\* What begins like markup and never ends takes the rest of a Scala file.
Swallows(lang, doc, f, i) ==
  /\ lang.is = "scala" /\ doc[i] = "<!--"
  /\ \/ ModeOf(lang, f).kind = "code" /\ (i = 1 \/ doc[i - 1] # "cr")
     \/ f.mode = "element" /\ \A j \in i..Len(doc) : doc[j] # "-->"

\* A `|` or `>` in front of a line's end: the lines of its body are no code.
YamlBlock(lang, doc, s, i) ==
  LET mem   == Inner(s).mem
      floor == IF mem.owner = NONE THEN 0 ELSE mem.owner + 1
      header == IF i < Len(doc) /\ doc[i + 1] = "#"
                THEN LineEnd(doc, i + 1) ELSE i
      end  == YamlBodyEnd(doc, header, floor)
      next == [Remember(s, Fresh(lang, FALSE)) EXCEPT
                 !.found = IF header > i
                           THEN Append(@, [from |-> i, to |-> header, kind |-> "Line"]) ELSE @,
                 !.skip = end]
  IN  IF end < Len(doc) \/ doc[end] \in NewLine THEN Offer(lang, doc, next, end) ELSE next

\* Ruby's =begin ends with the line of its =end, a here document with the line
\* that is its label.
EndsDocument(doc, i) == doc[i] = "=end" /\ LineStart(doc, i)
EndsHeredoc(lang, doc, s, i) ==
  /\ doc[i] = "E" /\ LineStart(doc, i) /\ s.skip < i - 1
  /\ lang.is = "php" \/ i = Len(doc) \/ doc[i + 1] \in NewLine
Closes(lang, doc, s, i) ==
  LET f == Inner(s) IN
  /\ doc[i] \in ModeOf(lang, f).close
  /\ f.mode = "here" => EndsHeredoc(lang, doc, s, i)
  /\ f.mode \in Fences => FenceCloses(doc, i)
  /\ ~(lang.is = "shell" /\ f.mode = "hole" /\ f.depth = 1 /\ ShellCase(f.mem) = "Pattern")

\* scan_swift_extended_regex: several lines of one that never closes are read, and
\* then read again as code.
UnclosedRegex(doc, i) ==
  EndsItsLine(doc, i) /\ \A j \in i..Len(doc) : doc[j] = "/#" => doc[j - 1] = "\\"

\* A line carried on by a backslash is no line start, and no body begins behind it.
Continues(lang, doc, m, i) ==
  m.kind = "code" /\ lang.is \in {"ruby", "shell"} /\ doc[i] = "\\" /\ EndsItsLine(doc, i)
\* ruby_data_marker: what follows is the program's data.
DataMarker(doc, i) ==
  doc[i] = "__END__" /\ LineStart(doc, i) /\ (i = Len(doc) \/ doc[i + 1] \in NewLine)

\* parse_heredoc: a here document whose body begins below this line.
AnnouncesHeredoc(lang, m, x) == x = "<<E" /\ (lang.is = "ruby" => RubyHeredocMayOpen(m))

\* One lexeme in the innermost mode.
Consume(lang, doc, s, i) ==
  LET f == Inner(s)
      m == ModeOf(lang, f)
      x == doc[i]
      code == m.kind = "code"
      told == IF code THEN Remember(s, After(lang, f.mem, doc, i)) ELSE s
  IN  IF x \in m.esc /\ i < Len(doc) /\ (m.carry \/ doc[i + 1] \notin NewLine)
      THEN [s EXCEPT !.skip = i + 1]
      ELSE IF Continues(lang, doc, m, i) THEN [s EXCEPT !.skip = i + 1]
      ELSE IF x \in NewLine
      THEN IF code THEN CodeNewLine(lang, doc, s, i)
           ELSE IF f.mode = "here" /\ s.pend > 0 THEN HeredocBodies(s, i) ELSE s
      ELSE IF Shebang(lang, doc, s, i)
      THEN [s EXCEPT !.stack = Append(@, Frame("line", 0, <<>>, 0))]
      ELSE IF f.mode = "doc"
      THEN IF EndsDocument(doc, i) THEN Become(s, "tail") ELSE s
      ELSE IF lang.is = "ruby" /\ code /\ DataMarker(doc, i) THEN [s EXCEPT !.skip = Len(doc)]
      ELSE IF lang.is = "perl" /\ code /\ PerlLines(doc, i) # NONE
      THEN [(IF x = "format" THEN Remember(s, [regex |-> "yes"]) ELSE s)
              EXCEPT !.skip = PerlLines(doc, i)]
      ELSE IF lang.is = "perl" /\ code /\ x \in {"q(", "s("}
      THEN LET quote == PerlQuote(doc, i)
           IN  Consult(IF quote.end = NONE THEN told
                       ELSE [Remember(s, [regex |-> "no"]) EXCEPT !.skip = quote.end],
                       quote.reach)
      ELSE IF f.mode = "header" /\ x = "<<E" THEN [s EXCEPT !.pend = @ + 1]
      ELSE IF lang.is = "markdown" /\ f.mode = "top" /\ x = "tab" /\ LineStart(doc, i)
      THEN [s EXCEPT !.skip = MarkdownIndented(doc, i)]
      ELSE IF lang.is = "csharp" /\ f.mode = "hole" /\ f.depth = 1 /\ x = ":"
      THEN Become(s, "format")
      ELSE IF lang.is = "scala" /\ code /\ x = "'" /\ ScalaCharacter(doc, i) # NONE
      THEN [s EXCEPT !.skip = ScalaCharacter(doc, i)]
      ELSE IF Swallows(lang, doc, f, i) THEN [s EXCEPT !.skip = Len(doc)]
      ELSE IF f.mode = "start" /\ x \in TagEnd THEN EndStart(lang, doc, s, i)
      ELSE IF f.mode = "element" /\ x = "</a>" THEN EndElement(s)
      ELSE IF lang.is = "swift" /\ x = "#/" /\ code /\ UnclosedRegex(doc, i)
      THEN Consult([s EXCEPT !.errors = @ \cup {i - 1}], Len(doc) + 1)
      ELSE IF Closes(lang, doc, s, i)
      THEN IF f.depth = 1 THEN Close(lang, doc, s, i)
           ELSE IF lang.is = "shell" /\ code
           THEN Deeper(Remember(s, [f.mem EXCEPT !.cmd = TRUE]), -1)
           ELSE Deeper(told, -1)
      ELSE IF x \in m.nest THEN Deeper(told, 1)
      ELSE IF x \in m.drop THEN Deeper(told, IF f.depth > 1 THEN -1 ELSE 0)
      ELSE IF Opens(lang, doc, s, i) THEN Open(lang, doc, s, i)
      ELSE IF lang.is = "markdown" /\ f.mode = "top" /\ x \in {"tick", "ticks", "ticks go"}
      THEN Consult(s, Len(doc) + 1)
      ELSE IF code /\ AnnouncesHeredoc(lang, f.mem, x)
      THEN [told EXCEPT !.pend = @ + 1]
      ELSE IF code /\ lang.is = "yaml" /\ x = "|" /\ f.mem.node /\ HeadsBlockScalar(doc, i)
      THEN YamlBlock(lang, doc, s, i)
      ELSE told

\* Modes that end in front of the lexeme, then the lexeme itself.
Step(lang, doc, s, i) ==
  LET x == doc[i]
      open == DOMAIN s.stack
      cut == {k \in open : /\ ModeOf(lang, s.stack[k]).cut /\ x \in ModeOf(lang, s.stack[k]).close
                           /\ lang.is = "markdown" => FenceCloses(doc, i)}
      stays == {k \in open : ~ModeOf(lang, s.stack[k]).line}
      settled == IF cut # {} THEN CloseAbove(lang, doc, s, Max(cut), i - 1)
                 ELSE IF x \in NewLine THEN CloseAbove(lang, doc, s, Max(stays), i - 1)
                 ELSE IF x \in ModeOf(lang, Inner(s)).until
                 THEN CloseAbove(lang, doc, s, Len(s.stack) - 1, i - 1)
                 ELSE s
  IN  IF s.halted \/ i <= s.skip THEN s ELSE Consume(lang, doc, settled, i)

\* finish_scan: what the end of the file leaves open.
Finish(lang, doc, s) ==
  LET done == CloseAbove(lang, doc, s, 1, Len(doc))
  IN  [comments |-> done.found, points |-> done.points, halted |-> done.halted,
       errors |-> done.errors \cup IF lang.is = "ruby" /\ s.pend > 0 THEN {Len(doc)} ELSE {}]

\* scan_until_checkpoint_prepared: the scan of the suffix at from, which stops at
\* the clean top-level state at offset stop if it meets it.
ScanUntil(lang, doc, from, stop) ==
  LET scan[i \in from..Len(doc)] ==
        IF i = from THEN Start(lang, from, stop) ELSE Step(lang, doc, scan[i - 1], i)
  IN  Finish(lang, doc, scan[Len(doc)])
Scan(lang, doc, from) == ScanUntil(lang, doc, from, NONE)
=============================================================================
