-------------------------- MODULE MCPickConnection --------------------------
(***************************************************************************)
(* Small instances of PickConnection and DocumentedBehaviour for TLC.      *)
(***************************************************************************)
EXTENDS DocumentedBehaviour, TLC

MCRoutes ==
  [u \in {"/all", "/get", "/none"} |->
     CASE u = "/all"  -> [status |-> 0, params |-> {"id"},
                          methods |-> {"GET", "OPTIONS", "POST"}]
       [] u = "/get"  -> [status |-> 0, params |-> {}, methods |-> {"GET"}]
       [] u = "/none" -> [status |-> 404, params |-> {}, methods |-> {}]]

Plain(n) == [i \in 1..n |-> "ascii"]

Ask(url, method, type, body) ==
  [url |-> url, method |-> method, content_type |-> type, host |-> TRUE,
   header |-> <<>>, query |-> [keys |-> {}, text |-> <<>>], body |-> body]

Get == Ask("/all", "GET", "other", <<>>)
Json(body) == Ask("/all", "POST", "json", body)
Form(body) == Ask("/all", "POST", "urlencoded", body)
Multipart(body) == Ask("/all", "POST", "multipart", body)
Options(body) == Ask("/all", "OPTIONS", "other", body)

(* Every way a request can be refused, and one of each that is served. *)
Refused == {Ask("/none", "GET", "other", <<>>),
            Ask("/get", "POST", "json", Plain(1)),
            Ask("/all", "POST", "other", Plain(1)),
            Ask("/all", "POST", "no boundary", Plain(1)),
            [Get EXCEPT !.header = Plain(4)],
            [Get EXCEPT !.query = [keys |-> {"id"}, text |-> Plain(1)]]}
Accented == <<"ascii", "lead", "trail">>
Marked == <<"mark lead", "trail", "ascii">>
Uploads == {Json(<<>>), Json(Accented), Json(<<"nul", "ascii">>),
            Form(<<>>), Form(Accented), Form(Marked), Form(<<"foreign">>),
            Multipart(<<"ascii", "nul">>)}
Oversized == {Json(Plain(9)), Form(Plain(6))}
Odd == {Options(Plain(1)), Options(<<>>), [Get EXCEPT !.body = Plain(1)]}

AllRequests == {Get} \cup Refused \cup Uploads \cup Oversized \cup Odd

(* A buffer of MHD may go on behind a piece that is not terminated. *)
Overread1 == {<<>>, <<"ascii">>}

Number(n) == [status |-> "number", code |-> n, output |-> "page"]
GoodReplies == {Number(0), [Number(404) EXCEPT !.output = "empty"]}
AllReplies ==
  GoodReplies \cup
  {Number(99), Number(-1), [Number(0) EXCEPT !.status = "*3"],
   [Number(0) EXCEPT !.status = "text"]}

(* Requests that cannot terminate the process, served, refused or dropped. *)
SafeRequests ==
  {Get, [Get EXCEPT !.body = Plain(1)], Json(Plain(2)), Json(<<"foreign">>),
   Json(Plain(9)), Form(Plain(2)), Form(Plain(6)),
   Ask("/none", "GET", "other", <<>>), Ask("/get", "POST", "json", Plain(1))}
LiveReplies == {Number(0), Number(99)}

(* One request, for the questions about what the documents say. *)
ListedParameter == {[Get EXCEPT !.query = [keys |-> {"id"}, text |-> Plain(1)]]}
UnlistedParameter ==
  {[Get EXCEPT !.query = [keys |-> {"other"}, text |-> Plain(1)]]}
EmptyJson == {Json(<<>>)}
PlainGet == {Get}
AccentedForm == {Form(<<"lead", "trail">>)}
EmptyError == {[Number(404) EXCEPT !.output = "empty"]}
GetWithBody == {[Get EXCEPT !.body = Plain(1)]}
Status200 == {Number(0)}

SymmetryConn == Permutations(Addr) \cup Permutations(Conn)
=============================================================================
