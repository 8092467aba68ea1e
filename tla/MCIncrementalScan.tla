-------------------------- MODULE MCIncrementalScan --------------------------
EXTENDS IncrementalScan

\* Documents edited from their first lexeme on.
Whole(of, lexemes, n) ==
  [lang |-> of, alphabet |-> lexemes \cup {"lf"}, head |-> <<>>, room |-> n]
\* Documents edited behind their first two lines, where a rescan may converge.
Below(of, lexemes, n) == [Whole(of, lexemes, n) EXCEPT !.head = <<"lf", "lf">>]
\* Documents edited inside what their first lines leave open.
Inside(of, open, lexemes, n) == [Below(of, lexemes, n) EXCEPT !.head = @ \o open]

MCInstances == {
  Below("rust",   {"//", "/*", "*/", "\""}, 4),
  Below("rust",   {"r#\"", "\"#", "//", "'"}, 3),
  Below("c",      {"//", "splice", "\"", "/*"}, 4),
  Below("cpp",    {"R\"(", ")\"", "//"}, 3),
  Below("go",     {"//", "tick", "\""}, 3),
  Below("jsonc",  {"//", "'", "\""}, 3),
  Below("java",   {"//", "\"\"\"", "/*"}, 3),
  Below("css",    {"/*", "*/", "\"", "//"}, 3),
  Below("scss",   {"//", "\"", "#{", "}", "url("}, 3),
  Inside("scss",  <<"\"", "#{">>, {"//", "\"", "{", "}"}, 3),
  Below("kotlin", {"//", "\"", "${", "}"}, 3),
  Inside("kotlin", <<"\"\"\"", "${">>, {"//", "\"\"\"", "{", "}"}, 3),
  Inside("dart",  <<"\"\"\"", "${">>, {"//", "\"\"\"", "{", "}"}, 3),
  Inside("swift", <<"\"\"\"", "\\(">>, {"//", "\"\"\"", "(", ")"}, 3),
  Below("swift",  {"//", "/x", "x/", "/*"}, 3),
  Below("swift",  {"//", "#/", "/#", "\\"}, 3),
  Below("swift",  {"#\"", "\"#", "//", "\\("}, 3),
  Below("scala",  {"//", "s\"", "${", "}"}, 4),
  Below("scala",  {"<a", "/>", "//", "cr"}, 3),
  Inside("scala", <<"'", "\\", "lf">>, {"'", "tick", "//"}, 4),
  Inside("scala", <<"<a", ">">>, {"</a>", "{", "<!--", "-->"}, 3),
  Inside("scala", <<"<a">>, {"\"", "/>", "{", "//", "}"}, 3),
  Below("csharp", {"//", "$\"", "{", "}"}, 3),
  Below("csharp", {"//", "@\"", "/*", "*/"}, 3),
  Below("csharp", {"\"\"\"", "$\"\"\"", "//", "{"}, 3),
  Inside("csharp", <<"$\"\"\"", "lf">>, {"{", "}", "$\"\"\"", "//"}, 3),
  Inside("csharp", <<"$\"", "{">>, {":", "(", ")", "}", "//"}, 3),
  Below("csharp", {"#", "#region", "//", "\""}, 3),
  Below("python", {"#coding", "f\"", "{", "}"}, 4),
  Whole("python", {"#!", "#coding", "cr"}, 4),
  Whole("python", {"#coding", "\"\"\""}, 4),
  Below("toml",   {"#", "'", "\"\"\""}, 3),
  Below("lua",    {"--", "--[[", "[[", "]]"}, 3),
  Below("ocaml",  {"com(", "com)", "\"", "{|", "|}"}, 3),
  Below("ocaml",  {"com(", "com)", "\"", "'"}, 3),
  Below("zig",    {"//", "\\\\", "\""}, 3),
  Below("r",      {"#", "%", "tick"}, 3),
  Below("r",      {"#", "r\"(", ")\""}, 3),
  Below("sql",    {"--", "/*", "*/", "$$"}, 4),
  Below("sql",    {"--", "'", "E'", "\\"}, 3),
  Below("tsql",   {"--", "[", "]", "'"}, 3),
  Below("mysql",  {"--", "#", "'", "\\"}, 3),
  Below("oracle", {"--", "q'[", "]'", "'"}, 3),
  Below("php",    {"<?php", "?>", "#", "\""}, 3),
  Inside("php",   <<"<?php">>, {"<<<E", "E", "//"}, 3),
  Inside("php",   <<"<?php", "\"", "{$">>, {"{", "}", "\"", "//"}, 3),
  Below("html",   {"<!--", "<a", "\"", ">"}, 4),
  Below("html",   {"<script>", "</script>", "//", "/*"}, 4),
  Below("javascript", {"x", "/", "//", "(", ")"}, 4),
  Inside("javascript", <<"tick", "${">>, {"tick", "{", "}", "//"}, 3),
  Inside("javascript", <<"if", "(", "x">>, {"/", ")", "x", "//"}, 3),
  Below("javascript", {"<!--", "-->", "/*", "*/"}, 3),
  Whole("javascript", {"#!", "{", "}", "/*", "*/"}, 3),
  Inside("jsx",   <<"<a", ">">>, {"</a>", "{", "}", "//", "<a"}, 3),
  Below("jsx",    {"<a", "/>", "//", "x"}, 3),
  Inside("jsx",   <<"<a">>, {"</a>", ">", "\"", "//"}, 3),
  Below("tsx",    {"<a", ",", ">", "//"}, 3),
  Inside("tsx",   <<"<a", "extends">>, {">", "x", "/*", "*/"}, 3),
  Below("ruby",   {"x", "/", "#", "<<E", "E"}, 3),
  Below("ruby",   {"=begin", "=end", "#", "%w("}, 4),
  Whole("ruby",   {"#!", "#coding", "cr"}, 4),
  Below("ruby",   {"x", "/x", "/", "#"}, 3),
  Below("ruby",   {"%(", ")", "#", "?#"}, 3),
  Below("ruby",   {"__END__", "#", "\\", "<<E"}, 3),
  Inside("ruby",  <<"<<E", "lf">>, {"#{", "}", "<<E", "E", "#"}, 3),
  Below("shell",  {"<<E", "E", "#"}, 4),
  Inside("shell", <<"\"", "$(">>, {"<<E", "E", "#", ")", "\""}, 3),
  Inside("shell", <<"$(", "case", "in">>, {")", ";;", "esac", "#"}, 3),
  Inside("shell", <<"case", "in">>, {"$(", ")", "esac", "#"}, 3),
  Below("shell",  {"$'", "'", "\\", "#"}, 3),
  Below("shell",  {"\\", "<<E", "E", "#"}, 3),
  Inside("shell", <<"tick">>, {"<<E", "E", "tick", "#"}, 3),
  Inside("perl",  <<"q(">>, {")", "#", "\\"}, 3),
  Inside("perl",  <<"s(", ")">>, {"(", ")", "#", "x"}, 3),
  Below("perl",   {"#", "/", ")", "["}, 3),
  Below("perl",   {"<<E", "E", "#", "/"}, 3),
  Below("perl",   {"=pod", "=cut", "__END__", "#"}, 3),
  Inside("perl",  <<"format", "=", "lf">>, {".", "#", "=", "x"}, 3),
  Inside("perl",  <<"<<E", "<<E", "lf">>, {"E", "#", "q(", ")"}, 3),
  Inside("markdown", <<"tick">>, {"<!--", "-->", "tick", "ticks"}, 3),
  Below("markdown", {"ticks go", "ticks", "//", "tick"}, 4),
  Below("markdown", {"tab", "x", "<!--", "-->"}, 3),
  Below("yaml",   {"|", "sp", "#"}, 4),
  Inside("yaml",  <<"k:", "lf">>, {"|", "sp", "#", "-"}, 3),
  Below("yaml",   {"k:", "\"", "'", "#"}, 4) }
=============================================================================
