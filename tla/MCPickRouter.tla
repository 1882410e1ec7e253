---------------------------- MODULE MCPickRouter ----------------------------
(***************************************************************************)
(* Configurations of up to two top-level entries with up to three          *)
(* sub-entries, one of which may have its own, and all URLs of up to three *)
(* folders, for TLC.                                                       *)
(***************************************************************************)
EXTENDS PickRouter

E(match, routine_name, method, sub_path) ==
  [match |-> match, subr |-> routine_name, method |-> method,
   get_param |-> IF routine_name = NULL THEN {"p"} ELSE {},
   sub_path |-> sub_path]

(* A path, a pattern that covers it, one that does not. *)
Leaves ==
  {E({"a"}, NULL, {"GET"}, <<>>), E({"a", "b"}, "t", {"PUT"}, <<>>),
   E({"b"}, "u", {}, <<>>)}
Tops(sub_paths) ==
  {E(m, s, {"POST"}, p) : m \in {{"a"}, {"a", "b"}}, s \in {NULL, "s"},
                          p \in sub_paths}

MCConfigs ==
  {[url |-> top, node |-> <<e1, e2, e3, e4, e5>>] :
     top \in {<<1>>, <<1, 2>>, <<2, 1>>},
     e1 \in Tops({<<>>, <<3>>, <<3, 4>>}), e2 \in Tops({<<5>>}),
     e3 \in Leaves \cup {E({"b"}, NULL, {}, <<5>>)}, e4 \in Leaves, e5 \in Leaves}

MCUrls == UNION {[1..n -> {"a", "b", ""}] : n \in 0..3}
=============================================================================
