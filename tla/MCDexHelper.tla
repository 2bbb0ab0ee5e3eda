----------------------------- MODULE MCDexHelper -----------------------------
(* Two dex files.  The first has two overloads of A.a and a method B.a that *)
(* shares their callee; the second only refers to A.b and calls it.        *)
EXTENDS DexHelper

F(c, n, t) == [class |-> c, name |-> n, type |-> t]
M(c, n, r, p, s, code) == [class |-> c, name |-> n, ret |-> r, params |-> p,
                           shorty |-> s, code |-> code]

MCImage == <<
    [strings |-> <<"say", "saying", "zap">>, types |-> <<"A", "B", "I">>,
     fields |-> <<F(1, "f", 3)>>,
     methods |-> <<
        M(1, "a", 3, <<2>>, "IL", << <<"string", 1>>, <<"invoke", 3>> >>),
        M(1, "a", 3, <<3>>, "II", << <<"string", 2>>, <<"get", 1>> >>),
        M(1, "b", 3, <<>>, "I", << <<"string", 2>>, <<"get", 1>>, <<"put", 1>> >>),
        M(2, "a", 3, <<>>, "I", << <<"invoke", 3>>, <<"string", 1>>, <<"invoke", 3>> >>)>>],
    [strings |-> <<"say", "saying">>, types |-> <<"A", "C", "I">>,
     fields |-> <<F(1, "f", 3)>>,
     methods |-> <<
        M(1, "b", 3, <<>>, "I", <<>>),
        M(2, "c", 3, <<>>, "I", << <<"invoke", 1>>, <<"string", 2>>, <<"put", 1>> >>)>>]>>

MCSide(s, p) == IF s = "zap" THEN "after" ELSE "in"

Asked(kind, of) ==
    [kind |-> kind, of |-> of, prefix |-> FALSE, ret |-> None, count |-> None,
     shorty |-> "", class |-> None, params |-> <<>>, contains |-> <<>>,
     order |-> <<>>, first |-> FALSE]

MCQuestion == {
    [Asked("string", "say") EXCEPT !.first = TRUE],
    [Asked("string", "say") EXCEPT !.first = TRUE, !.shorty = "IL",
                            !.params = <<None>>],
    [Asked("string", "say") EXCEPT !.prefix = TRUE, !.params = <<1>>],
    [Asked("string", "saying") EXCEPT !.order = <<2, 1, 3>>],
    [Asked("invoked", 1) EXCEPT !.first = TRUE, !.count = 0],
    [Asked("getting", 1) EXCEPT !.first = TRUE, !.count = 0],
    [Asked("setting", 1) EXCEPT !.order = <<2>>],
    [Asked("invoking", 1) EXCEPT !.ret = 1],
    [Asked("field", 1) EXCEPT !.first = TRUE, !.order = <<2, 1>>]}

MCClass  == {"int"}
MCField  == {[class |-> "A", name |-> "f"]}
MCMethod == {[class |-> "A", name |-> "b", count |-> 0]}
=============================================================================
