--------------------------- MODULE PickConnection ---------------------------
(***************************************************************************)
(* The life of HTTP requests in pick_httpd_server_connection.cpp.          *)
(*                                                                         *)
(* libmicrohttpd (MHD) calls pick_connection::pick_to_connection once with *)
(* the headers, then once per piece of body, then once more when the       *)
(* request is complete; it calls request_completed when the exchange ends. *)
(* All these callbacks run on MHD's single polling thread, so they are     *)
(* atomic with respect to each other, except that process() blocks inside  *)
(* QMCall while the OpenQM routine runs: there it is split in two actions. *)
(*                                                                         *)
(* What is abstracted: a text is a short sequence of units (see Unit), the *)
(* three size limits are small constants, and the routing table is a       *)
(* constant giving what extract_subroutine_name_from_url finds per URL.    *)
(* At most one allocation fails per callback.                              *)
(***************************************************************************)
EXTENDS Integers, Sequences, FiniteSets

CONSTANTS
  Conn,                 \* TCP connections, each carrying one request at a time
  Addr,                 \* heap cells a pick_connection object may occupy
  NULL,
  Requests,             \* the requests clients may send
  Routes,               \* url -> [status, methods, params] found in the config
  Replies,              \* what the routine may leave in its output arguments
  HasEncoding,          \* config_pick_encoding != NULL
  KeySize,              \* bytes of a form field's name
  post_max_size, headerin_max_size, querystring_max_size,
  UINT_MODULUS,         \* unsigned int wraps here; 2^32 in the build
  Overread,             \* what may stand behind a piece in MHD's buffer
  LogMayFail,           \* the log's file may fail to open
  MaxAllocFailures      \* bound on failing allocations in a behaviour

(* A unit is a byte of a text: a one-byte character, NUL, the two bytes of *)
(* a character the Pick encoding has ("mark lead" if it has it where value *)
(* or field marks are), a byte of a character it lacks, or a byte that is  *)
(* such a mark as it comes.                                                *)
Unit == {"ascii", "nul", "lead", "mark lead", "trail", "foreign", "mark"}
Text == Seq(Unit)
Method == {"GET", "OPTIONS", "POST", "PUT", "PATCH", "DELETE"}
ContentType == {"json", "urlencoded", "multipart", "no boundary", "other"}
EncodedText == [text : Text, enc : {"utf8", "pick"}]

Request == [url : DOMAIN Routes, method : STRING, content_type : ContentType,
            host : BOOLEAN, header : Text,
            query : [keys : SUBSET STRING, text : Text], body : Text]
Route == [status : {0, 404}, methods : SUBSET STRING, params : SUBSET STRING]
Reply == [status : {"*3", "text", "number"}, code : Int,
          output : {"page", "empty"}]

ASSUME ConstantsAssumption ==
  /\ NULL \notin Addr /\ NULL \notin Conn
  /\ Requests \subseteq Request
  /\ Routes \in [DOMAIN Routes -> Route]
  /\ Replies \subseteq Reply
  /\ HasEncoding \in BOOLEAN /\ LogMayFail \in BOOLEAN
  /\ Overread \subseteq Text
  /\ {KeySize, post_max_size, headerin_max_size, querystring_max_size,
      UINT_MODULUS, MaxAllocFailures} \subseteq Nat
  /\ UINT_MODULUS > 0

VARIABLES
  phase,          \* MHD's state of each connection's request
  request,        \* the request being handled
  received,       \* units of its body already handed to the handler
  answer,         \* the response MHD has queued for it
  response_refs,  \* references held on its MHD_Response object
  con_cls,        \* MHD's per-request pointer, *pick_connection_cls
  heap,           \* the pick_connection objects
  thread,         \* connection whose handler is blocked in QMCall
  sessions,       \* OpenQM sessions open in the process
  calls,          \* argument lists OpenQM received for the request
  replied,        \* what the routine has left in its output arguments
  alloc_failures, \* allocations that failed so far
  crash           \* why the process was terminated, "no" while it runs

mhd  == <<phase, request, received, answer, response_refs>>
objs == <<con_cls, heap>>
qm   == <<thread, sessions, calls, replied>>
env  == <<alloc_failures, crash>>
vars == <<mhd, objs, qm, env>>

Phase == {"idle", "headers", "body", "full", "reply", "closing"}
ErrorKind == {"none", "length_error", "range_error", "bad_alloc",
              "invalid_argument", "exception"}
Object == [connection_type : Method, error_exception : ErrorKind,
           fetch_post_json : BOOLEAN,
           post_processor : {"uninitialized", "created"},
           post_dynarray : EncodedText \cup {NULL},
           param_authorized : SUBSET STRING]
Call == [hostname : BOOLEAN, header : EncodedText,
         post : EncodedText \cup {NULL}]
Answer == [status : Int, body : {"page", "empty", "default"}]

(* A pointer may be null: NULL is none of the things pointed to.           *)
ASSUME NullAssumption ==
  NULL \notin (Requests \cup Replies \cup Object \cup Answer \cup EncodedText)

CrashCause == {"no", "null json", "post_processor", "bad_alloc", "log"}

-----------------------------------------------------------------------------
(* Texts, sizes and conversion. *)

(* Poco converts a text when every character is complete and representable *)
Converts(s) ==
  \A i \in 1..Len(s) :
    /\ s[i] \notin {"foreign", "mark"}
    /\ s[i] \in {"lead", "mark lead"} => i < Len(s) /\ s[i+1] = "trail"
    /\ s[i] = "trail" => i > 1 /\ s[i-1] \in {"lead", "mark lead"}

input_conversion_fails(s) == HasEncoding /\ ~Converts(s)

(* A converted text: the same characters, one byte each if re-encoded. *)
input_conversion(s) ==
  [text |-> s, enc |-> IF HasEncoding THEN "pick" ELSE "utf8"]

Bytes(t) ==
  IF t.enc = "pick"
  THEN Cardinality({i \in 1..Len(t.text) : t.text[i] # "trail"})
  ELSE Len(t.text)

(* pick_dynarray::length of a form (one field: name, mark, value) or json. *)
post_length(o) ==
  IF o.post_dynarray = NULL THEN 0
  ELSE Bytes(o.post_dynarray) + IF o.fetch_post_json THEN 0 ELSE KeySize + 1

(* Mutant: the size already stored is not counted.                         *)
post_too_bigPerPiece(o, n) == n > post_max_size

(* The test on new_len, n being the bytes the new piece would add.         *)
post_too_big(o, n) == post_length(o) + n > post_max_size

(* The units of s that stand before the first one of the stops.            *)
before(s, stops) ==
  SubSeq(s, 1, Cardinality({n \in 1..Len(s) : \A i \in 1..n : s[i] \notin stops}))

(* What strlen, strcat and a std::string made from a char* see of a buffer. *)
c_string(s) == before(s, {"nul"})

(* Mutant: a later piece replaces what is already there.                   *)
appendReplaces(d, data) == [text |-> c_string(data), enc |-> "utf8"]

(* Mutant: a piece without a text leaves a null content null.              *)
appendNothing(d, data) ==
  IF c_string(data) = <<>> THEN d
  ELSE [text |-> (IF d = NULL THEN <<>> ELSE d.text) \o c_string(data),
        enc |-> "utf8"]

(* Operator +=: realloc makes a content if there is none, strcat adds to it. *)
append(d, data) ==
  IF d = NULL THEN [text |-> c_string(data), enc |-> "utf8"]
  ELSE [d EXCEPT !.text = @ \o c_string(data)]

(* The units that are stored as value or field marks. *)
marks(enc) == IF enc = "pick" THEN {"mark lead"} ELSE {"mark"}

(* A later piece of a form's value: extract returns what stands before the *)
(* first mark in it, and that is replaced with the piece behind it.        *)
extend(d, piece) ==
  LET extracted == before(d.text, marks(d.enc))
  IN  [d EXCEPT !.text = extracted \o piece.text
                           \o SubSeq(@, Len(extracted) + 1, Len(@))]

(* add_key_value for the one field of a form. *)
add_key_value(d, piece) == IF d = NULL THEN piece ELSE extend(d, piece)

-----------------------------------------------------------------------------
(* Errors. *)

(* Mutant: length_error's clause catches first, and everything.            *)
CatchStatusSwapped(kind) == 413

(* The catch clauses of process(), by dynamic type of what is caught.      *)
CatchStatus(kind) ==
  CASE kind = "length_error"     -> 413
    [] kind = "invalid_argument" -> 400
    [] OTHER                     -> 500

(* "throw *error_exception" throws a copy of its static type. *)
Rethrown(kind) == "exception"

AllocOK    == UNCHANGED alloc_failures
AllocFails == /\ alloc_failures < MaxAllocFailures
              /\ alloc_failures' = alloc_failures + 1

(* Mutant: the stored error is not looked at.                              *)
failedUnchecked(o) == FALSE

(* "if (error_exception)" at the start of process().                       *)
failed(o) == o.error_exception # "none"

(* An exception no handler catches unwinds into MHD: std::terminate. *)
Terminate(cause) ==
  /\ crash' = cause
  /\ UNCHANGED <<mhd, objs, qm>>

-----------------------------------------------------------------------------
(* How a handler invocation for connection c and its object at a ends.     *)
(* Each of these sets mhd and objs, except request and received.           *)

Keep(c, a, o, ph) ==
  /\ heap' = [heap EXCEPT ![a] = o]
  /\ con_cls' = [con_cls EXCEPT ![c] = a]
  /\ phase' = [phase EXCEPT ![c] = ph]
  /\ UNCHANGED <<answer, response_refs>>

(* Mutant: the object is deleted but the pointer to it stays.              *)
releaseDangling(c, a) ==
  heap' = [heap EXCEPT ![a] = NULL] /\ UNCHANGED con_cls

(* Mutant: the pointer is cleared but the object is not deleted.           *)
releaseLeaking(c, a) ==
  UNCHANGED heap /\ con_cls' = [con_cls EXCEPT ![c] = NULL]

(* "delete current_pick_connection; *pick_connection_cls = NULL".          *)
release(c, a) ==
  /\ heap' = [heap EXCEPT ![a] = NULL]
  /\ con_cls' = [con_cls EXCEPT ![c] = NULL]

(* result != MHD_YES: the object is deleted and MHD closes the connection. *)
Delete(c, a) ==
  /\ release(c, a)
  /\ phase' = [phase EXCEPT ![c] = "closing"]
  /\ UNCHANGED <<answer, response_refs>>

(* MHD queues one response, before the body or once all of it has arrived, *)
(* and only with a three-digit status.                                     *)
MHD_queue_response(c, status) ==
  /\ phase[c] \in {"headers", "full"}
  /\ answer[c] = NULL
  /\ status \in 100..999

Queue(c, a, o, status, body) ==
  /\ answer' = [answer EXCEPT ![c] = [status |-> status, body |-> body]]
  /\ response_refs' = [response_refs EXCEPT ![c] = 2]
  /\ phase' = [phase EXCEPT ![c] = "reply"]
  /\ heap' = [heap EXCEPT ![a] = o]
  /\ con_cls' = [con_cls EXCEPT ![c] = a]

(* send_response, then the deletion by pick_to_connection if refused. The  *)
(* creator's reference on the response is kept in both cases.              *)
send_response(c, a, o, status, body) ==
  \/ /\ MHD_queue_response(c, status)
     /\ Queue(c, a, o, status, body)
  \/ /\ ~MHD_queue_response(c, status)
     /\ release(c, a)
     /\ phase' = [phase EXCEPT ![c] = "closing"]
     /\ response_refs' = [response_refs EXCEPT ![c] = 1]
     /\ UNCHANGED answer

(* make_default_error_page, whose buffer may not be allocated. *)
send_error_page(c, a, o, status) ==
  \/ AllocOK /\ send_response(c, a, o, status, "default")
  \/ AllocFails /\ Delete(c, a)

-----------------------------------------------------------------------------
(* First call: a new pick_connection, then initialize(). *)

new_pick_connection ==
  [connection_type |-> "GET", error_exception |-> "none",
   fetch_post_json |-> FALSE, post_processor |-> "uninitialized",
   post_dynarray |-> NULL, param_authorized |-> {}]

(* extract_subroutine_name_from_url receives param_authorized by value:    *)
(* the names it collects never reach the object.                           *)
authorized_params(route) == {}

connection_type(method) ==
  IF method \in {"GET", "OPTIONS", "PUT", "PATCH", "DELETE"} THEN method
  ELSE "POST"

(* Mutant: std::find's result is not compared with end().                  *)
method_acceptedAlways(r) == TRUE

(* "Contrôle de la méthode": compared exactly with the configured names.   *)
method_accepted(r) == r.method \in Routes[r.url].methods

(* MHD's next state once n units of the body were handed over. *)
NextPhase(c, n) == IF n = Len(request[c].body) THEN "full" ELSE "body"

(* The object after the routing of r, and after the reading of its method. *)
routed_connection(r) ==
  [new_pick_connection EXCEPT
     !.param_authorized = authorized_params(Routes[r.url])]
typed_connection(r) ==
  [routed_connection(r) EXCEPT !.connection_type = connection_type(r.method)]

initialize(c, a) ==
  LET r         == request[c]
      status    == Routes[r.url].status
      o         == typed_connection(r)
      Proceed(p) == Keep(c, a, p, NextPhase(c, 0))
  IN
  \/ /\ AllocFails                              \* strndup of a folder name
     /\ send_response(c, a, routed_connection(r), 500, "default")
  \/ /\ status # 0
     /\ send_error_page(c, a, routed_connection(r), status)
  \/ /\ status = 0 /\ ~method_accepted(r)
     /\ send_error_page(c, a, routed_connection(r), 405)
  \/ /\ status = 0 /\ method_accepted(r)
     /\ \/ /\ o.connection_type \in {"GET", "OPTIONS"}
           /\ Proceed(o) /\ AllocOK
        \/ /\ o.connection_type \notin {"GET", "OPTIONS"}
           /\ \/ /\ r.content_type = "json"
                 /\ Proceed([o EXCEPT !.fetch_post_json = TRUE]) /\ AllocOK
              \/ /\ r.content_type \in {"urlencoded", "multipart"}
                 /\ \/ /\ Proceed([o EXCEPT !.post_processor = "created"])
                       /\ AllocOK
                    \/ AllocFails /\ Delete(c, a)
              \/ /\ r.content_type = "no boundary"  \* no post processor
                 /\ Delete(c, a) /\ AllocOK
              \/ /\ r.content_type = "other"
                 /\ send_error_page(c, a, o, 415)

(* Mutant: one thread per connection instead of one polling thread.        *)
PollingThreadFreeAlways == crash = "no"

(* MHD_USE_INTERNAL_POLLING_THREAD: one thread runs every callback, and it *)
(* is free unless a routine is running.                                    *)
PollingThreadFree == crash = "no" /\ thread = NULL

HandlerCall(c) ==
  PollingThreadFree /\ phase[c] \in {"headers", "body", "full"}

(* The routing and a missing post processor are logged, the other refusals *)
(* are not.                                                                *)
refusal_logged(r) ==
  \/ Routes[r.url].status # 0
  \/ /\ method_accepted(r)
     /\ connection_type(r.method) \notin {"GET", "OPTIONS"}
     /\ r.content_type = "no boundary"

(* Opening the log throws, out of the callback.                            *)
LogFails == LogMayFail /\ Terminate("log")

FirstCall(c) ==
  /\ HandlerCall(c) /\ con_cls[c] = NULL
  /\ \/ /\ \E a \in {b \in Addr : heap[b] = NULL} : initialize(c, a)
        /\ UNCHANGED <<request, received, qm, crash>>
     \/ AllocFails /\ Terminate("bad_alloc")    \* new pick_connection, texts
     \/ /\ LogFails
        /\ (refusal_logged(request[c]) /\ AllocOK) \/ AllocFails

-----------------------------------------------------------------------------
(* Body data, *upload_data_size # 0, for any connection type but GET. *)

(* "return MHD_NO" before the common exit: the object stays in place until *)
(* MHD reports the request completed.                                      *)
post_json_process(c, a, o, data) ==
  \/ /\ post_too_big(o, Len(data) + 1)
     /\ Keep(c, a, [o EXCEPT !.error_exception = "length_error"], "closing")
     /\ AllocOK
  \/ /\ ~post_too_big(o, Len(data) + 1)
     /\ Keep(c, a, [o EXCEPT !.post_dynarray = append(@, data)],
             NextPhase(c, received[c] + Len(data)))
     /\ AllocOK
  \/ /\ Keep(c, a, [o EXCEPT !.error_exception = "bad_alloc"], "closing")
     /\ AllocFails

(* One call of iterate_post: data's size is not looked at, so data is what *)
(* stands in MHD's buffer up to a NUL. Its MHD_NO stops the processor, but *)
(* pick_to_connection ignores what MHD_post_process returns.               *)
iterate_post(o, buffer) ==
  LET data == c_string(buffer) IN
  IF post_too_big(o, KeySize + Len(data) + 2)
  THEN [o EXCEPT !.error_exception = "length_error"]
  ELSE IF input_conversion_fails(data)
  THEN [o EXCEPT !.error_exception = "range_error"]
  ELSE [o EXCEPT !.post_dynarray = add_key_value(@, input_conversion(data))]

(* The range_error is copied in its catch clause, where nothing catches a  *)
(* bad_alloc.                                                              *)
unconvertible(o, buffer) == iterate_post(o, buffer).error_exception = "range_error"

(* MHD ends a piece of a urlencoded value with a NUL, but not one of a     *)
(* multipart body: more of its buffer may stand behind it.                 *)
buffers(r, data) ==
  IF r.content_type = "multipart" THEN {data \o tail : tail \in Overread}
  ELSE {data}

(* An OPTIONS request has no post processor: MHD is handed whatever the    *)
(* member holds, a null pointer it ignores or one it must not follow.      *)
MHD_post_process(c, a, o, data) ==
  LET Proceed(p) == Keep(c, a, p, NextPhase(c, received[c] + Len(data))) IN
  \/ /\ o.post_processor = "uninitialized" \/ o.error_exception # "none"
     /\ Proceed(o) /\ AllocOK
  \/ /\ o.post_processor = "created" /\ o.error_exception = "none"
     /\ \/ /\ \E buffer \in buffers(request[c], data) :
                Proceed(iterate_post(o, buffer))
           /\ AllocOK
        \/ /\ Proceed([o EXCEPT !.error_exception = "bad_alloc"])
           /\ AllocFails

(* MHD splits the body as the network delivers it: any n units come next. *)
UploadData(c, n) ==
  /\ HandlerCall(c) /\ phase[c] = "body" /\ con_cls[c] # NULL
  /\ LET a    == con_cls[c]
         o    == heap[a]
         data == SubSeq(request[c].body, received[c] + 1, received[c] + n)
     IN
     /\ o.connection_type # "GET"
     /\ \/ /\ \/ o.fetch_post_json /\ post_json_process(c, a, o, data)
              \/ ~o.fetch_post_json /\ MHD_post_process(c, a, o, data)
           /\ received' = [received EXCEPT ![c] = @ + n]
           /\ UNCHANGED <<request, qm, crash>>
        \/ /\ ~o.fetch_post_json /\ o.post_processor = "uninitialized"
           /\ Terminate("post_processor")
           /\ AllocOK
        \/ /\ ~o.fetch_post_json /\ o.post_processor = "created"
           /\ o.error_exception = "none"
           /\ \E buffer \in buffers(request[c], data) : unconvertible(o, buffer)
           /\ Terminate("bad_alloc")
           /\ AllocFails

-----------------------------------------------------------------------------
(* The call that processes the request. *)

(* initialize_request: the headers are stored as received, the host is     *)
(* optional, and each query parameter must be listed, fit and convert.     *)
(* The code stops at the first faulty parameter; here an unlisted name is  *)
(* reported before a size or conversion fault of another parameter.        *)
request_error(o, r) ==
  IF r.header # <<>> /\ Len(r.header) + 2 > headerin_max_size
  THEN "length_error"
  ELSE IF ~(r.query.keys \subseteq o.param_authorized)
  THEN "invalid_argument"
  ELSE IF r.query.keys # {} /\ Len(r.query.text) + 2 > querystring_max_size
  THEN "length_error"
  ELSE IF input_conversion_fails(r.query.text)
  THEN "range_error" ELSE "none"

(* What OpenQM is given; the empty host name stands for a missing one. *)
QMCall_arguments(o, r) ==
  [hostname |-> r.host, header |-> [text |-> r.header, enc |-> "utf8"],
   post |-> o.post_dynarray]

(* Mutant: a connection that fails is taken for an open one.               *)
QMConnectLocalIgnored == UNCHANGED sessions

QMConnectLocal == sessions' = sessions + 1

(* Mutant: the disconnection is forgotten.                                 *)
QMDisconnectForgotten == UNCHANGED sessions

QMDisconnect == sessions' = sessions - 1

(* process() up to QMCall. *)
process(c, a, o) ==
  LET r == request[c]
      e == request_error(o, r)
      o2 == [o EXCEPT !.error_exception = e]
  IN
  \/ /\ failed(o)
     /\ send_error_page(c, a, o, CatchStatus(Rethrown(o.error_exception)))
     /\ UNCHANGED qm
  \/ /\ ~failed(o) /\ AllocFails
     /\ send_response(c, a, o, CatchStatus("bad_alloc"), "default")
     /\ UNCHANGED qm
  \/ /\ ~failed(o) /\ e # "none"
     /\ send_error_page(c, a, o2, CatchStatus(Rethrown(e)))
     /\ UNCHANGED qm
  \/ /\ ~failed(o) /\ e = "none"
     /\ \/ /\ send_error_page(c, a, o, 503)       \* QMConnectLocal
           /\ UNCHANGED qm
        \/ /\ AllocFails                         \* a strdup after connecting
           /\ send_response(c, a, o, CatchStatus("bad_alloc"), "default")
           /\ QMConnectLocal
           /\ UNCHANGED <<thread, calls, replied>>
        \/ /\ QMConnectLocal
           /\ thread' = c
           /\ calls' = [calls EXCEPT ![c] = Append(@, QMCall_arguments(o, r))]
           /\ Keep(c, a, o, phase[c]) /\ AllocOK
           /\ UNCHANGED replied

(* pick_to_connection when there is no data to take, or the method is GET: *)
(* a json body is converted first, with no common exit on its error path.  *)
ProcessRequest(c) ==
  /\ HandlerCall(c) /\ con_cls[c] # NULL
  /\ LET a    == con_cls[c]
         o    == heap[a]
         json == o.fetch_post_json
         post == o.post_dynarray
     IN
     /\ phase[c] = "body" => o.connection_type = "GET"
     /\ \/ /\ json /\ post = NULL
           /\ Terminate("null json") /\ AllocOK
        \/ Terminate("bad_alloc") /\ AllocFails  \* a message, a page, the json
        \/ /\ ~(json /\ post = NULL)             \* an error, or no connection
           /\ LogFails /\ (AllocOK \/ AllocFails)
        \/ /\ json /\ post # NULL /\ input_conversion_fails(post.text)
           /\ \/ /\ MHD_queue_response(c, 400)
                 /\ Queue(c, a, o, 400, "default") /\ AllocOK
              \/ Keep(c, a, o, "closing") /\ AllocFails
           /\ UNCHANGED <<request, received, qm, crash>>
        \/ /\ json /\ post # NULL /\ ~input_conversion_fails(post.text)
           /\ process(c, a, [o EXCEPT !.post_dynarray =
                                        input_conversion(post.text)])
           /\ UNCHANGED <<request, received, crash>>
        \/ /\ ~json
           /\ process(c, a, o)
           /\ UNCHANGED <<request, received, crash>>

-----------------------------------------------------------------------------
(* The routine's answer. *)

(* operator>> into an unsigned int: a leading minus sign wraps around. *)
http_status_code(reply) ==
  IF reply.status = "text" THEN 500
  ELSE IF reply.code = 0 THEN 200 ELSE reply.code % UINT_MODULUS

(* QMCall returns, the session is closed, and the rest of process() runs.  *)
(* A failed allocation hits a message, the response, its headers, or the   *)
(* error page's text, which is built outside of any try block.             *)
RoutineReturns(c, reply) ==
  LET a == con_cls[c]
      o == heap[a]
  IN
  /\ crash = "no" /\ thread = c
  /\ \/ /\ \/ /\ reply.status = "*3"
              /\ send_error_page(c, a, o, 500)
           \/ /\ reply.status # "*3" /\ AllocOK
              /\ send_response(c, a, o, http_status_code(reply), reply.output)
           \/ /\ AllocFails
              /\ \E body \in {"default", reply.output} :
                   /\ reply.status = "*3" => body = "default"
                   /\ send_response(c, a, o, CatchStatus("bad_alloc"), body)
        /\ QMDisconnect
        /\ thread' = NULL
        /\ replied' = [replied EXCEPT ![c] = reply]
        /\ UNCHANGED <<request, received, calls, crash>>
     \/ /\ reply.status = "*3"                 \* the text of the error page
        /\ Terminate("bad_alloc") /\ AllocFails
     \/ /\ LogFails
        /\ (reply.status # "number" /\ AllocOK) \/ AllocFails

-----------------------------------------------------------------------------
(* MHD and the clients. *)

SendRequest(c, r) ==
  /\ crash = "no" /\ phase[c] = "idle"
  /\ phase' = [phase EXCEPT ![c] = "headers"]
  /\ request' = [request EXCEPT ![c] = r]
  /\ response_refs' = [response_refs EXCEPT ![c] = 0]
  /\ UNCHANGED <<received, answer, objs, qm, env>>

(* MHD is done with the request: the reply is sent, the handler refused    *)
(* it, or the client went away. It drops its reference on the response.    *)
request_completed(c) ==
  /\ PollingThreadFree /\ phase[c] # "idle"
  /\ \/ con_cls[c] = NULL /\ UNCHANGED objs
     \/ con_cls[c] # NULL /\ release(c, con_cls[c])
  /\ response_refs' =
       [response_refs EXCEPT ![c] = IF answer[c] = NULL THEN @ ELSE @ - 1]
  /\ phase' = [phase EXCEPT ![c] = "idle"]
  /\ request' = [request EXCEPT ![c] = NULL]
  /\ received' = [received EXCEPT ![c] = 0]
  /\ answer' = [answer EXCEPT ![c] = NULL]
  /\ calls' = [calls EXCEPT ![c] = <<>>]
  /\ replied' = [replied EXCEPT ![c] = NULL]
  /\ UNCHANGED <<thread, sessions, env>>

Init ==
  /\ phase = [c \in Conn |-> "idle"]
  /\ request = [c \in Conn |-> NULL]
  /\ received = [c \in Conn |-> 0]
  /\ answer = [c \in Conn |-> NULL]
  /\ response_refs = [c \in Conn |-> 0]
  /\ con_cls = [c \in Conn |-> NULL]
  /\ heap = [a \in Addr |-> NULL]
  /\ thread = NULL
  /\ sessions = 0
  /\ calls = [c \in Conn |-> <<>>]
  /\ replied = [c \in Conn |-> NULL]
  /\ alloc_failures = 0
  /\ crash = "no"

Next ==
  \E c \in Conn :
    \/ \E r \in Requests : SendRequest(c, r)
    \/ FirstCall(c)
    \/ phase[c] = "body"
       /\ \E n \in 1..(Len(request[c].body) - received[c]) : UploadData(c, n)
    \/ ProcessRequest(c)
    \/ \E reply \in Replies : RoutineReturns(c, reply)
    \/ request_completed(c)

Spec == Init /\ [][Next]_vars

(* MHD's loop visits every ready connection, and routines return. Nothing  *)
(* obliges a client to send the body it announced.                         *)
Fairness ==
  \A c \in Conn :
    /\ SF_vars(FirstCall(c))
    /\ SF_vars(ProcessRequest(c))
    /\ WF_vars(\E reply \in Replies : RoutineReturns(c, reply))

FairSpec == Spec /\ Fairness

-----------------------------------------------------------------------------
(* Properties. *)

(* The values the state takes: MHD's bookkeeping, the handler's objects,   *)
(* and OpenQM's view of the process.                                       *)
TypeOK ==
  /\ phase \in [Conn -> Phase]
  /\ request \in [Conn -> Requests \cup {NULL}]
  /\ \A c \in Conn : (request[c] = NULL) <=> (phase[c] = "idle")
  /\ received \in [Conn -> Nat]
  /\ answer \in [Conn -> Answer \cup {NULL}]
  /\ response_refs \in [Conn -> 0..2]
  /\ con_cls \in [Conn -> Addr \cup {NULL}]
  /\ heap \in [Addr -> Object \cup {NULL}]
  /\ thread \in Conn \cup {NULL}
  /\ sessions \in Nat
  /\ calls \in [Conn -> Seq(Call)]
  /\ replied \in [Conn -> Replies \cup {NULL}]
  /\ alloc_failures \in 0..MaxAllocFailures
  /\ crash \in CrashCause

(* The two places that delete a pick_connection, and the early returns     *)
(* that do not, balance out: no request points at a freed object, no two   *)
(* requests share one, and no object outlives its request.                 *)
HeapOwned ==
  /\ \A c \in Conn : con_cls[c] # NULL => heap[con_cls[c]] # NULL
  /\ \A c, d \in Conn : con_cls[c] # NULL /\ con_cls[c] = con_cls[d] => c = d
  /\ \A a \in Addr :
       heap[a] # NULL => \E c \in Conn : con_cls[c] = a /\ phase[c] # "idle"

(* Across all its callbacks a request runs at most one routine, and only   *)
(* if the URL is configured with its method and nothing had gone wrong.    *)
RoutineAuthorized ==
  \A c \in Conn : calls[c] # <<>> =>
    /\ Len(calls[c]) = 1
    /\ Routes[request[c].url].status = 0
    /\ request[c].method \in Routes[request[c].url].methods
    /\ con_cls[c] # NULL => heap[con_cls[c]].error_exception = "none"

(* A body the C strings it is kept in can hold, cut in any way: no NUL in  *)
(* it; in a form, no character stored as a mark, which would take the next *)
(* piece in front of it; and no multipart buffer to be read past its end.  *)
Whole(r) ==
  /\ r.content_type # "multipart"
  /\ \A i \in 1..Len(r.body) :
       /\ r.body[i] # "nul"
       /\ r.content_type # "json" => r.body[i] \notin {"mark", "mark lead"}

(* The routine of a POST, PUT, PATCH or DELETE gets the whole converted    *)
(* body if there is no NUL or mark in it, however the network cut it and   *)
(* whatever else was being served.                                         *)
CompleteBody ==
  \A c \in Conn :
    /\ calls[c] # <<>> /\ request[c].method \notin {"GET", "OPTIONS"}
    /\ Whole(request[c])
    => \/ request[c].body = <<>> /\ calls[c][1].post = NULL
       \/ calls[c][1].post = input_conversion(request[c].body)

(* post_max_size bounds what is stored, although it is checked against     *)
(* the size of each piece before its conversion.                           *)
BoundedBody ==
  \A a \in Addr : heap[a] # NULL => post_length(heap[a]) <= post_max_size

(* The OpenQM session is process-wide: one request at a time uses it, and  *)
(* only an allocation failure between connect and call leaves one open.    *)
SessionsClosed ==
  /\ thread = NULL => sessions <= alloc_failures
  /\ thread # NULL => sessions <= alloc_failures + 1

(* Between QMCall and the client nothing is lost without a reason: the     *)
(* answer is the routine's own, with its status; or a 500, if it set none  *)
(* or memory ran out; or there is none, because the status is not one of   *)
(* three digits, the body had not been read, or memory ran out. A request  *)
(* that ran no routine is answered by default pages only.                  *)
RepliesPassedOn ==
  \A c \in Conn :
    LET reply == replied[c] IN
    /\ calls[c] = <<>> /\ answer[c] # NULL => answer[c].body = "default"
    /\ calls[c] # <<>> /\ thread # c =>
         \/ /\ reply.status # "*3"
            /\ answer[c] = [status |-> http_status_code(reply),
                            body |-> reply.output]
         \/ /\ answer[c] # NULL /\ answer[c].status = 500
            /\ \/ reply.status = "*3" /\ answer[c].body = "default"
               \/ alloc_failures > 0
         \/ /\ answer[c] = NULL
            /\ \/ /\ reply.status # "*3"
                  /\ http_status_code(reply) \notin 100..999
               \/ received[c] < Len(request[c].body)
               \/ alloc_failures > 0

(* What terminates the process, whatever the callbacks before: a json      *)
(* request without a body, the body of an OPTIONS request, a failing       *)
(* allocation, a log that does not open. No body does that is not empty,   *)
(* although NULs may leave nothing of it, and no other method's.           *)
CrashExplained ==
  /\ crash = "null json" =>
       \E c \in Conn : /\ phase[c] = "full" /\ request[c].body = <<>>
                       /\ request[c].content_type = "json"
  /\ crash = "post_processor" =>
       \E c \in Conn : phase[c] = "body" /\ request[c].method = "OPTIONS"
  /\ crash = "bad_alloc" => alloc_failures > 0
  /\ crash = "log" => LogMayFail

(* An error stored by one callback is never forgotten by a later one: the  *)
(* request it concerns does not reach OpenQM any more.                     *)
StoredErrorBlocksRoutine ==
  [][\A c \in Conn :
       con_cls[c] # NULL /\ heap[con_cls[c]].error_exception # "none"
         => Len(calls'[c]) <= Len(calls[c])]_vars

(* The promise of RequestService, kept by the callbacks: whatever object   *)
(* is deleted or allocation fails, a request is refused or served once.    *)
Stage(c) ==
  CASE thread = c                                         -> "running"
    [] phase[c] = "idle"                                  -> "idle"
    [] thread # c /\ phase[c] \in {"headers", "body", "full"} -> "received"
    [] phase[c] = "reply"                                 -> "answered"
    [] phase[c] = "closing"                               -> "dropped"

Service == INSTANCE RequestService
             WITH stage <- [c \in Conn |-> Stage(c)],
                  served <- {c \in Conn : calls[c] # <<>>}

ServesRequests == Service!Spec

(* A request MHD has received completely is decided: the handler answers   *)
(* or refuses it, even while others keep arriving and run long routines.   *)
(* (A process that stops decides nothing: see NoSilentCrash.)              *)
Decided ==
  \A c \in Conn :
    phase[c] \in {"headers", "full"} ~> phase[c] \notin {"headers", "full"}
=============================================================================
