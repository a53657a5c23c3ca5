------------------------------- MODULE MCPlato ------------------------------
EXTENDS PlatoStacks

R(first, last) == [start |-> first, end |-> last]
ClassTables ==
    "variable" :> <<R(48, 57), R(65, 90), R(95, 95), R(97, 122), R(170, 170)>>
    @@ "identifier" :> <<R(65, 90), R(95, 95), R(97, 122), R(170, 170)>>
    @@ "rune" :> <<R(34, 34), R(39, 39), R(48, 55), R(85, 85), R(92, 92), R(97, 98), R(102, 102),
                   R(110, 110), R(114, 114), R(116, 118), R(120, 120)>>
MCTables == ClassTables

Each(strings) == { Chars(s) : s \in strings }
Raw(content) == <<Backquote>> \o Chars(content) \o <<Backquote>>

(* Blocks of every kind, two deep.                                         *)
Nested ==
    [texts |-> {"a"}, pipelines |-> Each({"x"}), conditions |-> Each({"x"}), variables |-> {<< >>},
     names |-> Each({"\"n\""}), comments |-> {},
     lefts |-> Each({"{{{"}), rights |-> Each({"}}}"}), touching |-> {},
     nesting |-> 2, misreadings |-> 0, reopens |-> FALSE]

(* The clauses of "if", "with" and "range", with one misreading: first two *)
(* deep, then one deep but with blocks after the misreading.               *)
Clauses2 == [Nested EXCEPT !.names = {}, !.misreadings = 1]
Clauses1 == [Clauses2 EXCEPT !.variables = {}, !.nesting = 1, !.reopens = TRUE]

(* Delimiters that trim, comments, variables, raw names.                   *)
Trimmed ==
    [Nested EXCEPT
        !.pipelines = Each({".a.b"}), !.conditions = Each({"x", "$v := .a"}),
        !.variables = Each({"", "$i, $v := "}),
        !.names = Each({"\"n\""}) \cup {Raw("}")}, !.comments = Each({"/**/", "/* }}} */"}),
        !.lefts = Each({"{{{", "{{{- "}), !.rights = Each({"}}}", " -}}}"}),
        !.touching = { <<Chars(d[1]), Chars(d[2])>> :
                       d \in {<<"{{{", "}}}">>, <<"{{{- ", "}}}">>, <<"{{{", " -}}}">>} },
        !.nesting = 1]

(* Text and operands of every form, without blocks.                        *)
Flat ==
    [Trimmed EXCEPT
        !.texts = {"a", "-", " ", "{", "}", "\"", "\n", "/"},
        !.pipelines = Each(
            {"x", ".", "$", "$v", ".a.b", "$v.a", "x.a", "(x).a.b", "(.a).b", "x y", "x 1 2", "x .a .b",
             "x $ $v", "$v.f 1", "(x 1) | y", ". | x", "x|y | z 1", "x (y 1) 2", "x (y).a", "x y.a",
             "x  y ", "x\ny", "$v := x | y", "$v=x 1", "1", "-1", "x +1", "0x1F", "0b1", "0o7",
             "007", "1.5", ".5", "-.5", "1e3", "2i", "1_000", "0x1p4", "true", "x nil", "truth",
             "iffy", "end1", "'a'", "x '\\n'", "'\\t'", "'\\''", "'\\x41'", "'\\u0041'", "'\\101'",
             "\"\"", "x \"a\" \"b\"", "\"a\\\"b\"", "\"}}}\"", "\"{{{\"", "\"\\x41\"", "\"\\u00e9\"",
             "\"\\101\""})
            \cup {Raw("}}}"), Chars("x ") \o Raw(""), Raw("\n\"")},
        !.comments = Each({"/**/", "/*a*/", "/* }}} */", "/***/", "/*{{{*/", "/*/*/", "/*\n*/"}),
        !.lefts = Each({"{{{", "{{{ ", "{{{-\n"}), !.rights = Each({"}}}", "\n-}}}"}),
        !.nesting = 0]

Documents ==
    "flat" :> Flat @@ "trimmed" :> Trimmed @@ "nested" :> Nested
    @@ "clauses1" :> Clauses1 @@ "clauses2" :> Clauses2
MCDialects == Documents
=============================================================================
