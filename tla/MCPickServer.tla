---------------------------- MODULE MCPickServer ----------------------------
(***************************************************************************)
(* Small files and requests for PickServer.                                *)
(***************************************************************************)
EXTENDS PickServer

MCUpperCase ==
  [n \in {"a", "A", "b", "GET", "get", "POST", "FETCH"} |->
     CASE n = "a" -> "A" [] n = "get" -> "GET" [] OTHER -> n]
MCCompiled == [p \in {"[ab]", "("} |-> IF p = "(" THEN NULL ELSE {"a", "b"}]

None == [kind |-> "absent", elems |-> <<>>]
Array(s) == [kind |-> "array", elems |-> s]
List(s) == [kind |-> "list", elems |-> s]

Path(name, routine) ==
  [group |-> TRUE, path |-> name, pattern |-> NULL, subr |-> routine,
   method |-> None, get_param |-> None, sub_path |-> None]
Pattern(p) == [Path(NULL, NULL) EXCEPT !.pattern = p]
Methods(g, s) == [g EXCEPT !.method = Array(s)]
Below(g, s) == [g EXCEPT !.sub_path = List(s)]

(* Entries without a fault, and one of each fault. *)
Plain == Methods(Path("a", "s"), <<"GET">>)
LowerCase == Methods(Path("A", "s"), <<"get", "POST">>)
Catch == [Methods(Pattern("[ab]"), <<"POST">>) EXCEPT
            !.get_param = Array(<<"p", "q">>)]
Good == {Plain, Catch, [LowerCase EXCEPT !.get_param = Array(<<>>)]}
Faulty ==
  {Path(NULL, "s"), [Plain EXCEPT !.pattern = "[ab]"], Pattern("("),
   Path("a", "1s"), Methods(Plain, <<"GET", "FETCH">>),
   Methods(Plain, <<NULL>>), [Plain EXCEPT !.method.kind = "list"],
   [Plain EXCEPT !.get_param = Array(<<"p", NULL>>)],
   [Plain EXCEPT !.get_param.kind = "other"],
   [Plain EXCEPT !.sub_path.kind = "other"]}
Scalar == [Path(NULL, NULL) EXCEPT !.group = FALSE]

FileOf(top, settings) ==
  [readable |-> TRUE, port |-> "number", env |-> "group", account |-> "name",
   encoding |-> "known", url |-> List(top), setting |-> settings]

(* url = (1, 5); 1 holds 2 and 4, 2 holds 3.                               *)
Tree(e1, e2, e3, e4, e5) ==
  FileOf(<<1, 5>>, <<Below(e1, <<2, 4>>), Below(e2, <<3>>), e3, e4, e5>>)
Trees ==
  {Tree(e1, e2, Plain, e4, e5) :
     e1 \in {Plain, Catch}, e2 \in {Plain, Path("b", NULL)},
     e4 \in {Plain, Catch}, e5 \in {Pattern("[ab]"), LowerCase}}
FaultyTrees ==
  {Tree(Plain, Catch, e, Plain, Catch) : e \in Faulty \cup {Scalar}} \cup
  {Tree(Plain, Catch, Plain, e, Catch) : e \in {Scalar, Path(NULL, "s")}} \cup
  {Tree(Catch, Plain, Plain, Catch, e) : e \in {Scalar, Pattern("(")}} \cup
  {Tree(e, Plain, Catch, Plain, Plain) : e \in {Path(NULL, "s"), Catch}}
Basic == FileOf(<<1>>, [s \in 1..5 |-> Plain])
FaultySettings ==
  {[Basic EXCEPT !.readable = FALSE], [Basic EXCEPT !.port = "absent"],
   [Basic EXCEPT !.env = "other"], [Basic EXCEPT !.account = "empty"],
   [Basic EXCEPT !.encoding = "unknown"], [Basic EXCEPT !.url = None]}
EmptyList == {FileOf(<<>>, [s \in 1..5 |-> Plain])}
MCFiles == Trees \cup FaultyTrees \cup FaultySettings \cup EmptyList

MCRequests ==
  {[url |-> u, method |-> "GET"] : u \in {<<"">>, <<"a", "", "b">>,
                                       <<"", "a", "a", "a">>, <<"b", "b">>}} \cup
  {[url |-> <<"a">>, method |-> m] : m \in {"GET", "POST"}}
=============================================================================
