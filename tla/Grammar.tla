------------------------------- MODULE Grammar -------------------------------
(***************************************************************************)
(* What each language's scanner reads its bytes with: a grammar is a       *)
(* function from lexical modes to what ends a mode, what nests in it and   *)
(* what opens another mode inside it.  The scan of a file starts in mode   *)
(* "top".  A document is a sequence of lexemes, two lexemes of one line    *)
(* standing a blank apart; "lf" and "cr" are the line terminators.         *)
(***************************************************************************)
EXTENDS Naturals, Sequences, TLC

NewLine == {"lf", "cr"}

\* A lexical mode.  close ends it, nest and close count in it (drop counts
\* down and never ends it), opens maps the lexemes read as the beginning of
\* another mode, esc takes the lexeme behind it as content (a line terminator
\* too, when carry), until ends it without being consumed.  line: a line
\* terminator ends it.  eof: the end of the file may stand in it without an
\* error.  cut: its closer ends it whatever is open inside it.
Text == [kind |-> "text", close |-> {}, nest |-> {}, drop |-> {}, opens |-> <<>>,
         esc |-> {}, until |-> {}, carry |-> TRUE, line |-> FALSE, eof |-> FALSE,
         cut |-> FALSE]

Raw(closers)    == [Text EXCEPT !.close = closers]
Multi(closers)  == [Raw(closers) EXCEPT !.esc = {"\\"}]
Quoted(closers) == [Multi(closers) EXCEPT !.line = TRUE]
\* Strings whose backslash does not carry a line terminator (Zig, Dart, Swift).
Strict(mode)    == [mode EXCEPT !.carry = FALSE]
Holed(mode, opener, hole) == [mode EXCEPT !.opens = @ @@ (opener :> hole)]
\* A mode the end of the file may stand in, and one that is no comment.
Silent(mode) == [mode EXCEPT !.eof = TRUE]
Plain(mode)  == [mode EXCEPT !.kind = "text"]

LineComment          == [Text EXCEPT !.kind = "Line", !.line = TRUE, !.eof = TRUE]
BlockComment(closer) == [Raw({closer}) EXCEPT !.kind = "Block"]
Nested(opener, closer) == [BlockComment(closer) EXCEPT !.nest = {opener}]

Code(opens)               == [Text EXCEPT !.kind = "code", !.opens = opens, !.eof = TRUE]
Hole(opens, nest, closer) == [Code(opens) EXCEPT !.nest = nest, !.close = {closer},
                                                 !.eof = FALSE]
Lang(opens, modes) == modes @@ ("top" :> Code(opens))

----------------------------------------------------------------------------
\* The C family: `//` and `/*` everywhere, and each language's own literals.
CComments == ("//" :> "line") @@ ("/*" :> "block")
CFamily(block, opens, modes) ==
  Lang(CComments @@ opens, modes @@ ("line" :> LineComment) @@ ("block" :> block))
Flat == BlockComment("*/")
Deep == Nested("/*", "*/")

RustRaw == Raw({"\"#"})
Rust == CFamily(Deep, ("\"" :> "str") @@ ("\"#" :> "str") @@ ("r#\"" :> "raw") @@ ("'" :> "chr"),
                ("str" :> Multi({"\"", "\"#", "r#\""})) @@ ("raw" :> RustRaw)
                  @@ ("chr" :> Quoted({"'"})))
C    == CFamily(Flat, ("\"" :> "str"), "str" :> Quoted({"\""}))
CppRaw == Raw({")\""})
Cpp  == LET q == {"\"", "R\"(", ")\""}
        IN  CFamily(Flat, ("\"" :> "str") @@ (")\"" :> "str") @@ ("R\"(" :> "raw"),
                    ("str" :> Quoted(q)) @@ ("raw" :> CppRaw))
Go   == CFamily(Flat, ("\"" :> "str") @@ ("tick" :> "raw"),
                ("str" :> Quoted({"\""})) @@ ("raw" :> Raw({"tick"})))
Jsonc == CFamily(Flat, ("\"" :> "str") @@ ("'" :> "alt"),
                 ("str" :> Quoted({"\""})) @@ ("alt" :> Quoted({"'"})))
Java == CFamily(Flat, ("\"" :> "str") @@ ("\"\"\"" :> "txt"),
                ("str" :> Quoted({"\"", "\"\"\""})) @@ ("txt" :> Multi({"\"\"\""})))
Css  == Lang(("/*" :> "block") @@ ("\"" :> "str"),
             ("block" :> Flat) @@ ("str" :> Multi({"\""})))

\* A url( that never closes reads the rest of the file without an error.
ScssUrl == Holed(Silent(Holed(Multi({")"}), "\"", "str")), "#{", "hole")
Scss ==
  LET code == CComments @@ ("\"" :> "str") @@ ("url(" :> "url")
  IN  Lang(code @@ ("#{" :> "hole"),
           ("line" :> LineComment) @@ ("block" :> Flat)
             @@ ("str"  :> Holed(Multi({"\""}), "#{", "hole"))
             @@ ("url"  :> ScssUrl)
             @@ ("hole" :> Hole(code, {"{", "#{"}, "}")))

\* Strings with expressions in them: each hole is code again, of its own braces.
Templates(block, hole, nest, closer, opens, modes) ==
  Lang(opens, modes @@ ("line" :> LineComment) @@ ("block" :> block)
                @@ ("hole" :> Hole(opens, nest \cup {hole}, closer)))

Kotlin == Templates(Deep, "${", {"{"}, "}",
  CComments @@ ("\"" :> "str") @@ ("\"\"\"" :> "txt"),
  ("str" :> Holed(Quoted({"\"", "\"\"\""}), "${", "hole"))
    @@ ("txt" :> Holed(Raw({"\"\"\""}), "${", "hole")))

Dart == Templates(Deep, "${", {"{"}, "}",
  CComments @@ ("\"" :> "str") @@ ("\"\"\"" :> "txt"),
  ("str" :> Holed(Strict(Quoted({"\"", "\"\"\""})), "${", "hole"))
    @@ ("txt" :> Holed(Strict(Multi({"\"\"\""})), "${", "hole")))

\* A regular expression closes on its own line, unless its `#/` ends its line.
SwiftRegex == ("regex" :> Raw({"x/", "*/", "#/"})) @@ ("lines" :> Multi({"/#"}))
                @@ ("extended" :> Strict(Quoted({"/#"})))
Swift ==
  LET q == {"\"", "\"\"\"", "#\"", "\"#"}
  IN  Templates(Deep, "\\(", {"("}, ")",
        CComments @@ ("\"" :> "str") @@ ("\"#" :> "str") @@ ("\"\"\"" :> "txt") @@ ("#\"" :> "raw")
          @@ ("/x" :> "regex") @@ ("/#" :> "regex") @@ ("#/" :> "extended"),
        ("str" :> Holed(Strict(Quoted(q)), "\\(", "hole"))
          @@ ("txt" :> Holed(Strict(Multi({"\"\"\""})), "\\(", "hole"))
          @@ ("raw" :> [Raw({"\"#"}) EXCEPT !.line = TRUE])
          @@ SwiftRegex)

\* Elements in code (Scala's XML, JSX): the content between tags, its start tags
\* and their quoted attributes.  Lexer counts the elements.
Elements(content, quoted, silent) ==
  ("element" :> [Text EXCEPT !.opens = ("<a" :> "start") @@ ("{" :> "hole") @@ content,
                             !.eof = silent])
    @@ ("start" :> Silent([Text EXCEPT !.opens = ("\"" :> "attr") @@ ("{" :> "hole")]))
    @@ ("attr" :> Silent(quoted))

Scala == Templates(Deep, "${", {"{"}, "}",
  CComments @@ ("\"" :> "str") @@ ("s\"" :> "fmt") @@ ("tick" :> "name") @@ ("<a" :> "element"),
  ("str" :> Quoted({"\"", "s\""})) @@ ("name" :> [Raw({"tick"}) EXCEPT !.line = TRUE])
    @@ ("fmt" :> Holed(Quoted({"\"", "s\""}), "${", "hole"))
    @@ ("comment" :> [BlockComment("-->") EXCEPT !.kind = "HtmlComment"])
    @@ Elements("<!--" :> "comment", Raw({"\"", "s\""}), TRUE))

\* C#: a raw string whose opener does not end its line ends with it.
CSharpRaws   == {"\"\"\"", "$\"\"\""}
CSharpQuotes == {"\"", "@\"", "$\""} \cup CSharpRaws
CSharpStrings ==
  ("str" :> Quoted(CSharpQuotes)) @@ ("verb" :> Raw(CSharpQuotes))
    @@ ("fmt" :> Holed(Quoted(CSharpQuotes), "{", "hole")) @@ ("char" :> Quoted({"'"}))
CSharpRaw ==
  LET raw == Raw(CSharpRaws)
  IN  ("raw" :> raw) @@ ("fraw" :> Holed(raw, "{", "hole"))
        @@ ("rawline"  :> [raw EXCEPT !.line = TRUE])
        @@ ("frawline" :> [Holed(raw, "{", "hole") EXCEPT !.line = TRUE])
\* A `#` opens a directive; only one that begins its line is read for a `//`,
\* one that takes a message only in front of it.
CSharpDirective ==
  ("dir" :> [Plain(LineComment) EXCEPT
               !.opens = ("//" :> "line") @@ [x \in CSharpQuotes |-> "dstr"]])
    @@ ("dstr" :> [Silent(Raw(CSharpQuotes)) EXCEPT !.line = TRUE])
    @@ ("rest" :> Plain(LineComment))
\* A hole counts every bracket, and a colon at its own depth begins a format
\* that runs to its brace.
CSharpHole(code) == [Hole(code, {"{", "(", "["}, "}") EXCEPT !.drop = {")", "]"}]
CSharp ==
  LET code == CComments @@ ("\"" :> "str") @@ ("@\"" :> "verb") @@ ("$\"" :> "fmt")
                @@ ("\"\"\"" :> "raw") @@ ("$\"\"\"" :> "fraw") @@ ("'" :> "char")
  IN  Lang(code @@ ("#" :> "dir") @@ ("#region" :> "dir"),
           ("line" :> LineComment) @@ ("block" :> Flat) @@ ("hole" :> CSharpHole(code))
             @@ ("format" :> Raw({"}"})) @@ CSharpStrings @@ CSharpRaw @@ CSharpDirective)

PythonFString(q) == Holed(Quoted(q), "{", "hole")
Python ==
  LET code == ("#" :> "line") @@ ("#!" :> "line") @@ ("#coding" :> "line")
                @@ ("\"" :> "str") @@ ("\"\"\"" :> "txt") @@ ("f\"" :> "fmt")
      q    == {"\"", "\"\"\"", "f\""}
  IN  Templates(Flat, "{", {}, "}", code,
        ("str" :> Quoted(q)) @@ ("txt" :> Multi({"\"\"\""}))
          @@ ("fmt" :> PythonFString(q)))

----------------------------------------------------------------------------
\* Languages with comments of their own shape.
Toml == Lang(("#" :> "line") @@ ("\"" :> "str") @@ ("'" :> "lit") @@ ("\"\"\"" :> "txt"),
             ("line" :> LineComment) @@ ("str" :> Quoted({"\"", "\"\"\""}))
               @@ ("lit" :> [Raw({"'"}) EXCEPT !.line = TRUE]) @@ ("txt" :> Multi({"\"\"\""})))

LongBracket == Raw({"]]"})
Lua == Lang(("--" :> "line") @@ ("--[[" :> "block") @@ ("\"" :> "str") @@ ("[[" :> "long"),
            ("line" :> LineComment) @@ ("block" :> BlockComment("]]"))
              @@ ("str" :> Quoted({"\""})) @@ ("long" :> LongBracket))

\* Strings and characters are read inside a comment too, where the end of the
\* file is the comment's error alone.
OcamlComment == [Nested("com(", "com)") EXCEPT
                   !.opens = ("\"" :> "cstr") @@ ("{|" :> "cquot") @@ ("'" :> "chr")]
Ocaml == Lang(("com(" :> "block") @@ ("\"" :> "str") @@ ("{|" :> "quot") @@ ("'" :> "chr"),
              ("block" :> OcamlComment)
                @@ ("str"  :> Multi({"\""})) @@ ("quot"  :> Raw({"|}"}))
                @@ ("cstr" :> Silent(Multi({"\""}))) @@ ("cquot" :> Silent(Raw({"|}"})))
                @@ ("chr"  :> Quoted({"'"})))

\* A Zig line string runs to the end of its line and is no comment.
Zig == Lang(("//" :> "line") @@ ("\\\\" :> "lines") @@ ("\"" :> "str"),
            ("line" :> LineComment) @@ ("lines" :> [LineComment EXCEPT !.kind = "text"])
              @@ ("str" :> Strict(Quoted({"\""}))))

RRaw == Raw({")\""})
R == LET q == {"\"", "r\"(", ")\""}
     IN  Lang(("#" :> "line") @@ ("\"" :> "str") @@ (")\"" :> "str") @@ ("r\"(" :> "raw")
                @@ ("tick" :> "name") @@ ("%" :> "op"),
              ("line" :> LineComment) @@ ("str" :> Multi(q)) @@ ("raw" :> RRaw)
                @@ ("name" :> Multi({"tick"})) @@ ("op" :> [Raw({"%"}) EXCEPT !.line = TRUE]))

\* SQL: a dialect's own strings, names and comments around the common ones.
Dialect(block, quoted, opens, modes) ==
  Lang(("--" :> "line") @@ ("/*" :> "block") @@ ("'" :> "str") @@ ("\"" :> "name") @@ opens,
       ("line" :> LineComment) @@ ("block" :> block) @@ ("str" :> quoted)
         @@ ("name" :> Raw({"\""})) @@ modes)
Sql    == Dialect(Deep, Raw({"'", "E'"}), ("$$" :> "body") @@ ("E'" :> "esc"),
                  ("body" :> Raw({"$$"})) @@ ("esc" :> Multi({"'", "E'"})))
TSql   == Dialect(Deep, Raw({"'"}), "[" :> "brackets", "brackets" :> Raw({"]"}))
MySql  == Dialect(Flat, Multi({"'"}), ("#" :> "line") @@ ("\"" :> "dstr") @@ ("tick" :> "quoted"),
                  ("dstr" :> Multi({"\""})) @@ ("quoted" :> Raw({"tick"})))
Oracle == LET q == {"'", "q'[", "]'"}
          IN  Dialect(Flat, Raw(q), ("q'[" :> "alt") @@ ("]'" :> "str"), "alt" :> Raw({"]'"}))

\* A string's hole is read for its braces alone, over its own quotes and comments.
PhpLine == [LineComment EXCEPT !.until = {"?>"}]
PhpHole ==
  ("hole" :> [Silent(Raw({"}"})) EXCEPT
                !.nest = {"{", "{$"},
                !.opens = ("//" :> "hline") @@ ("#" :> "hline") @@ ("/*" :> "hblock")
                            @@ ("\"" :> "hstr")])
    @@ ("hline" :> Plain(PhpLine)) @@ ("hblock" :> Silent(Raw({"*/"})))
    @@ ("hstr" :> Silent(Multi({"\""})))
PhpHeredoc == Raw({"E"})
\* Inline HTML until `<?php`; a line comment ends at `?>` as well.
PhpCode == [Code(("//" :> "line") @@ ("#" :> "line") @@ ("/*" :> "block") @@ ("\"" :> "str")
                   @@ ("<<<E" :> "here")) EXCEPT !.close = {"?>"}]
Php == Lang("<?php" :> "php",
            ("php" :> PhpCode) @@ ("line" :> PhpLine) @@ ("block" :> Flat)
              @@ ("here" :> PhpHeredoc) @@ ("str" :> Holed(Multi({"\""}), "{$", "hole"))
              @@ PhpHole)

\* Markup: comments, tags with their quoted values, and one embedded script,
\* which `</script>` ends whatever its own lexical state is.
HtmlTag == [Raw({">", "-->", "<script>", "</script>"}) EXCEPT !.opens = "\"" :> "value"]
Html == Lang(("<!--" :> "block") @@ ("<a" :> "tag") @@ ("<script>" :> "script"),
             ("block" :> [BlockComment("-->") EXCEPT !.kind = "HtmlComment"])
               @@ ("tag" :> HtmlTag)
               @@ ("value" :> Raw({"\""}))
               @@ ("script" :> [Code(("//" :> "line") @@ ("/*" :> "jsblock")) EXCEPT
                                   !.close = {"</script>"}, !.eof = FALSE, !.cut = TRUE])
               @@ ("line" :> LineComment) @@ ("jsblock" :> Flat))

----------------------------------------------------------------------------
\* Languages whose scanner carries more than its nesting: see Lexer.
Regex == Raw({"/", "//", "/*", "*/", "/>", "</a>"})

\* `<!--` and a `-->` that begins its line are line comments too.
Script(opens, modes) ==
  Templates(Flat, "${", {"{"}, "}",
    CComments @@ ("\"" :> "str") @@ ("tick" :> "tpl") @@ ("/" :> "regex") @@ ("/>" :> "regex")
      @@ ("</a>" :> "regex") @@ ("<!--" :> "line") @@ ("-->" :> "line") @@ opens,
    ("str" :> Quoted({"\""})) @@ ("regex" :> Regex)
      @@ ("tpl" :> Holed(Multi({"tick"}), "${", "hole")) @@ modes)
JavaScript == Script(<<>>, <<>>)
Jsx == Script("<a" :> "element", Elements(<<>>, Multi({"\""}), FALSE))

RubyRegexp == Holed(Multi({"/", "/x"}), "#{", "hole")
RubyPercent ==
  LET list == [Multi({")"}) EXCEPT !.nest = {"(", "%(", "%w("}]
  IN  ("percent" :> Holed(list, "#{", "hole")) @@ ("words" :> list)
RubyHeredoc == Holed(Multi({"E"}), "#{", "hole")
Ruby ==
  LET code == ("#" :> "line") @@ ("#!" :> "line") @@ ("#coding" :> "line") @@ ("#{" :> "line")
                @@ ("?#" :> "line") @@ ("\"" :> "str") @@ ("/" :> "regex") @@ ("/x" :> "regex")
                @@ ("%(" :> "percent") @@ ("%w(" :> "words") @@ ("=begin" :> "doc")
  IN  Templates(Flat, "{", {}, "}", code,
        ("str" :> Holed(Multi({"\""}), "#{", "hole"))
          @@ ("regex" :> RubyRegexp)
          @@ RubyPercent @@ ("here" :> RubyHeredoc)
          @@ ("doc" :> BlockComment("=end")) @@ ("tail" :> [LineComment EXCEPT !.kind = "Block"]))

ShellDoubleQuote == Holed(Holed(Multi({"\""}), "$(", "hole"), "tick", "back")
\* A command substitution is code of its own, down to its here documents.
Shell ==
  LET code  == ("#" :> "line") @@ ("'" :> "str") @@ ("$'" :> "ansi") @@ ("\"" :> "dq")
                 @@ ("$(" :> "hole") @@ ("tick" :> "back")
      quote == {"'", "$'"}
  IN  Lang(code, ("line" :> LineComment) @@ ("str" :> Raw(quote)) @@ ("ansi" :> Multi(quote))
             @@ ("here" :> Raw({"E"}))
             @@ ("dq" :> ShellDoubleQuote)
             @@ ("hole" :> Hole(code, {"("}, ")")) @@ ("back" :> Hole(code, {}, "tick")))

\* What never closes runs to the end of the file, without an error.  The rest of
\* a line that announces a here document is read for quotes and its comment.
PerlRegex == ("regex" :> Holed(Silent(Multi({"/"})), "[", "class"))
               @@ ("class" :> Silent(Multi({"]"})))
PerlHeader == [Plain(LineComment) EXCEPT !.opens = ("#" :> "line") @@ ("\"" :> "hstr")]
Perl == Lang(("#" :> "line") @@ ("\"" :> "str") @@ ("/" :> "regex") @@ ("<<E" :> "header"),
             ("line" :> LineComment) @@ ("str" :> Silent(Multi({"\""})))
               @@ PerlRegex @@ ("header" :> PerlHeader) @@ ("here" :> Silent(Raw({"E"})))
               @@ ("hstr" :> [Silent(Multi({"\""})) EXCEPT !.line = TRUE]))

\* A fence that names a language is code of that language, here Go.
Fence == [Silent(Raw({"ticks"})) EXCEPT !.cut = TRUE]
Markdown ==
  LET ticks == {"tick", "ticks", "ticks go"}
  IN  Lang(("<!--" :> "html") @@ ("tick" :> "span") @@ ("ticks" :> "fence")
             @@ ("ticks go" :> "gofence"),
           ("html" :> [BlockComment("-->") EXCEPT !.kind = "HtmlComment"])
             @@ ("span" :> Raw({"tick"})) @@ ("run" :> Raw({"ticks", "ticks go"}))
             @@ ("fence" :> Fence)
             @@ ("gofence" :> [Fence EXCEPT !.kind = "code",
                                 !.opens = [x \in ticks |-> "raw"] @@ Go["top"].opens])
             @@ ("raw" :> Raw(ticks)))
        @@ Go

Yaml == Lang(("#" :> "line") @@ ("\"" :> "str") @@ ("'" :> "lit"),
             ("line" :> LineComment) @@ ("str" :> Multi({"\""})) @@ ("lit" :> Raw({"'"})))

Grammar ==
  [rust |-> Rust, c |-> C, cpp |-> Cpp, go |-> Go, jsonc |-> Jsonc, java |-> Java, css |-> Css,
   scss |-> Scss, kotlin |-> Kotlin, dart |-> Dart, swift |-> Swift, scala |-> Scala,
   csharp |-> CSharp, python |-> Python, toml |-> Toml, lua |-> Lua, ocaml |-> Ocaml,
   zig |-> Zig, r |-> R, sql |-> Sql, tsql |-> TSql, mysql |-> MySql, oracle |-> Oracle,
   php |-> Php, html |-> Html,
   javascript |-> JavaScript, jsx |-> Jsx, tsx |-> Jsx, ruby |-> Ruby, shell |-> Shell,
   perl |-> Perl, markdown |-> Markdown, yaml |-> Yaml]

\* A language, as the scan is handed it.
Language(name) == [is |-> name, modes |-> Grammar[name]]
=============================================================================
