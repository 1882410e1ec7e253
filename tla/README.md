# Verification of pick_httpd_server

TLA+ models of `pick_httpd_server`, a libmicrohttpd (MHD) daemon that hands HTTP
requests to OpenQM routines, with TLC configurations that check small instances
and TLAPS proofs for all instances. Paths below are relative to the repository;
`connection.cpp`, `url.cpp`, `config.cpp` stand for
`pick_httpd_server_connection.cpp` and so on, `main` for `pick_httpd_server.cpp`.

## The system

| Component | State | Operations | Depends on |
|---|---|---|---|
| Connection handler (`connection.cpp/.h`) | one `pick_connection` per request, reached through MHD's `*pick_connection_cls` | `pick_to_connection` (first call, body data, final call), `iterate_post`, `post_json_process`, `process`, `request_completed` | MHD calls it, it calls the router, the dynamic arrays, Poco and OpenQM |
| URL routing (`url.cpp`) | the position in the URL and in the tree, the routine and lists collected | `extract_subroutine_name_from_url` | tree of `url_config_struct` |
| Configuration reader (`config.cpp/.h`) | `first_url_config` and the tree below it, account, port, encoding | `phs_config_read`, `read_url_config`, `free_url_config`, `phs_config_free` | libconfig, pcre2 |
| Dynamic arrays (`pick_dynarray.cpp/.h`) | one C string with marks | `add_key_value`, `locate`, `extract`, `replace`, `insert`, `+=`, `dcount` | QMClilib |
| Server start and stop (`main`) | the daemon | `MHD_start_daemon`, `getchar`, `MHD_stop_daemon` | all of the above |
| Logging (`logs.cpp/.h`) | Poco's root logger, the log file | `fatal`; the methods for the other levels are never called | Poco |

How the server lives. `main` reads the configuration: the settings, then the
url list, one tree of entries per element, built by a recursive function that
frees what it has built if anything in it is wrong. If the file is refused,
`main` frees the trees linked before the fault and returns 2. Otherwise it starts
MHD's thread, waits for a key, stops MHD, and frees the configuration that the
thread has been routing by.

How a request lives. MHD runs every callback on one internal polling thread
(`main:21`). It calls the handler with the headers: a `pick_connection` is
created and `initialize` routes the URL, checks the method and the content type.
It calls it again for each piece of body, cut wherever the network and MHD's
buffers cut it. Once the body is complete it calls it with no data: `process`
checks stored errors, collects headers and query string, connects to OpenQM,
blocks in `QMCall` while the routine runs, disconnects, and queues a response.
`request_completed` ends the exchange, whatever point it had reached.

What is hard to get right, and to test: the object is deleted in two places and
two early returns skip the first one; errors stored in one callback are used in
a later one; allocations may fail anywhere, inside and outside of `try` blocks;
bodies come in arbitrary pieces, measured and converted one by one; OpenQM's
session belongs to the process; MHD accepts a response only at certain moments;
a faulty entry at any depth leaves a half-built tree to release; `main` frees what
callbacks read; names and values are kept in one text, aligned by rank only.
Nothing is persisted, so there is no recovery to model.

Correctness, per component:

- handler: objects are owned by exactly one live request; a request runs at most
  one routine, only if allowed; the routine gets the whole body, if a C string can
  hold it; limits hold; sessions are closed; what a routine leaves is passed on;
  complete requests are decided; the process ends for known reasons only;
- routing: a URL is routed along entries that match it, with their lists only;
- configuration: a file is accepted exactly if nothing in it is wrong, an
  accepted one is entirely in the tree, in a known order; every node is reachable
  by the code that will free it, is held once, and is freed before `main` returns;
- dynamic arrays: what is read back is what was added, lengths stay within limits
  and ranks within their type;
- start and stop: no callback uses what `main` has freed; once a key is pressed
  the program ends; logging: an error is in the log before it is answered.

## Modules

| Module | Contents |
|---|---|
| `PickConnection` | the connection handler and its environment (MHD, clients, OpenQM, memory), its properties, and the refinement mapping `Service` |
| `RequestService` | abstract specification: each request is received, perhaps served by one routine, answered or dropped |
| `DocumentedBehaviour` | what `README.md`, the instructions and comments say of requests, as properties of `PickConnection` |
| `PickRouter` | `extract_subroutine_name_from_url` on a configured tree |
| `PickConfig` | `config.cpp`: reading and freeing the tree, step by step, with its memory; actions only, no specification of its own |
| `PickServer` | extends `PickConfig` with `main`, the log and MHD's polling thread that routes a request through the nodes; the refinement mapping `Router` |
| `PickDynarray` | a `pick_dynarray` that collects the fields of a request, byte by byte |
| `MCPickConnection`, `MCPickRouter`, `MCPickServer`, `MCPickDynarray` | small instances for TLC |
| `PickConnectionProofs` | theorems about requests |
| `PickRouterProofs` | theorems about routing |
| `PickConfigProofs`, `PickServerProofs` | lemmas about the tree and its memory, theorems about the server |
| `PickReadProofs` | theorems about what was read: faults, and the tree of an accepted file |
| `PickWalkProofs` | the walk over nodes implements `PickRouter`; joins the two chains of proofs above it |
| `PickDynarrayProofs` | texts split at their marks and joined again; theorems about what is collected |

### PickConnection and the code

| Model | Code |
|---|---|
| `con_cls[c]`, `heap[a]` | `*pick_connection_cls` of the request on connection `c`; the `pick_connection` at address `a`, `NULL` once deleted |
| `phase[c]` | what MHD will do next with the request: `idle`, `headers` (first call due), `body`, `full` (final call due), `reply`, `closing` |
| `thread` | the connection whose `QMCall` occupies the polling thread |
| `sessions`, `calls[c]` | OpenQM's view: open sessions, argument lists received |
| `replied[c]` | what the routine has left in its output arguments |
| `answer[c]`, `response_refs[c]` | the queued response and the references held on it |
| `alloc_failures`, `crash` | how many allocations failed, and why the process ended |
| `FirstCall` | `connection.cpp:110-117` and `initialize` |
| `UploadData` | `connection.cpp:121-134`, `post_json_process`, `iterate_post` |
| `ProcessRequest` | `connection.cpp:135-165`, `process` up to `QMCall` |
| `RoutineReturns` | `process` from `QMCall` on, including the deletion if the response is refused |
| `request_completed` | the callback of the same name, and MHD's bookkeeping |
| `SendRequest` | a client |

Callbacks are atomic with respect to each other because one thread runs them
all; `process` is split at `QMCall`, during which clients still send. Actions
end through a few operators (`Keep`, `Delete`, `Queue`, `send_response`,
`send_error_page`) that set the object, the pointer, the phase and the answer.

External code is modelled from how it is used: MHD calls the handler once with
the headers, then per piece of body, then once more; it accepts one response,
before the body or after all of it, with a three-digit status; refusing the
request (`MHD_NO`) closes the connection, after which `request_completed` is
called. `MHD_post_process` ignores a null processor; given an uninitialized one
it may do anything, here nothing or a fault. It ends a piece of a urlencoded value
with a NUL, not one of a multipart body, behind which its buffer may go on
(`Overread`). A multipart request that names no boundary gets no processor
(content type `"no boundary"`, `connection.cpp:276`). Poco converts a text if all
its characters are complete and representable.

Bodies are kept in C strings, and that is modelled. `c_string` is what `strlen`
(`connection.cpp:303`), the conversion's `std::string` and `strcat`
(`pick_dynarray.cpp:111`) see of a buffer: the units before the first NUL.
`iterate_post` does not look at the size it is given; json has one but is added by
`strcat`. In both cases the rest of the piece is dropped without an error. `append`
is `+=`. `extend` is `add_key_value` for a field that has a value already:
`extract` returns what stands before the first mark in it, and that is replaced
with the piece behind it, so what follows a mark moves behind every later piece
(`pick_dynarray.cpp:36`).

Failures. `LogMayFail`: `PHSLogging::fatal` opens the log at its first message and
throws out of the callback if it cannot (`LogFails`, wherever the code logs).
A failing allocation either reaches a clause that answers or drops the request, or
is caught by nobody (`Terminate("bad_alloc")`): the object at `connection.cpp:114`,
the json at 138, the copy of an error at 315, a message, a page's text at 765.

Abstractions. A text is a sequence of units: a one-byte character, NUL, the first or
second byte of a character the Pick encoding has (`"mark lead"` if it has it where
a mark is), a byte of one it lacks, or a byte that is a mark as it comes. A form
has one field. The routing result is a constant per URL (`PickRouter` is the
routing itself). A query with an unlisted name is reported before other query
faults. An allocation failure inside `initialize_request`'s callbacks leads to
the same 500 page as one in `initialize_request` itself. At most one allocation
fails per callback. Reply pages are told apart only as the routine's, empty, or the
default page.

### PickRouter and the code

`uri_index`, `base_url_config`, `subr`, `method_authorized`, `param_authorized`
are the function's variables, a URL being what stands between its slashes. One
iteration of the loop is `MatchFolder`, `NoFolder` (404) or `MemoryFull` (500);
`RootPath` and `Finish` are the returns before and after it. An entry matches a
set of names, which stands for `path` and `pattern` alike; `strcasecmp` makes
names that differ by case one name. `first_url_config` reverses the top level,
as `phs_config_read` does. What the configuration says of a URL is stated without
the walk: a member of `Chains` chooses an entry for each place of the URL where a
folder stands, one that matches it and is listed under the one chosen before.

### PickConfig and PickServer and the code

| Model | Code |
|---|---|
| `file` | what libconfig hands out: `setting[s]` is an entry, `url.elems` and `sub_path.elems` say which entries are where |
| `heap[a]`, `blocks` | the `url_config_struct` at address `a`, `NULL` when free; its pattern and arrays, allocated one by one |
| `frame[a]`, `current` | the local variables of the call of `read_url_config` that builds node `a`; the innermost call |
| `reading`, `urls_read` | how far `phs_config_read` is |
| `ReadSettings`, `ReadUrl`, `ReadAll` | `phs_config_read`: its checks, an iteration, its end; `reading` is `"thrown"` if the account's or the encoding's `std::string` cannot be made (`config.cpp:349`, 359-362) |
| `enter_read_url_config` | `read_url_config` up to its loop over `sub_path` (`config.cpp:105-232`) |
| `ReadSubPath`, `ReturnToSubPath` | an iteration of that loop, up to the recursive call and from it |
| `ReturnToUrl`, `ReturnNull` | the call returns its node to `phs_config_read`, or frees it and returns null |
| `free_first` | an iteration of `phs_config_free` |
| `main`, `exit_code`, `libconfig_storage` | the call `main` is in, its result, whether `config_destroy` was called |
| `thread`, `uri_index`, `base_url_config`, `subr`, ... | the polling thread and the variables of `extract_subroutine_name_from_url` |
| `siblings` | history: the file's entries that `base_url_config` leads to, from the first of its siblings; read by no action |
| `HandleRequest`, `NextFolder`, `TrySibling`, `Routed` | the function's entry, one folder, one sibling, its end with the method test of `initialize` |
| `copies` | the entry that matches has strings that are copied (`url.cpp:97-105`) |
| `routing_failures`, `bad_alloc` | allocations that failed while the request was routed; what one does where nobody catches it: the process ends |
| `fatal`, `log_fatal` | `PHSLogging::fatal` with the `std::string` made for it; what it does once it has that |
| `rootLogger`, `log_writable` | the constructor's choice; the file can be opened |
| `print_first_config` | `config.cpp:394-396`, compiled because `pick_httpd_server.h` defines `PHS_DEBUG` |

Reading is one step per entry and per return, with the allocation that fails
chosen in the step; routing is one step per sibling, because `main` runs beside
it. `free_url_config` is one step: it is recursive, and nothing else runs while
it does. What it frees is `Subtree`, all that hangs from the node's `sub_path`,
written without recursion as the least set closed under `next` and `sub_path`.

Abstractions. The entries' strings are members of a small set; a pattern is the
set of names it matches, or none if it does not compile; `UpperCase` stands for
`strcasecmp`. A match that pcre2 gives up (`url.cpp:20-26`) counts as no match.
`malloc` returns the first free cell: addresses are never compared. What
`PHSLogging`'s static constructor allocates before `main` is left out. The order of
reads and releases inside one `free_first` is not visible: that it reads `next`
before it releases the node is `config.cpp:406` read by eye. `HOME` being
unset is one variable for the configuration's path and the log's. One request is
routed: requests share only the tree, which they read. What the accepted request
does is `PickConnection`'s subject; here it is a routine that returns.

### PickDynarray and the code

`content` is the C string, null at first; `Iterate` is one call of
`iterate_header`, `iterate_querystring` or `iterate_post` (the test of the size,
then `add_key_value`), `headers_out` the loop of `process` over the headers a
routine returns, used here as the reader of what was collected. `locate`, `insert`
and `narrowed` keep the 16-bit rank and its sign (`RankLimit` is 2^15 in the
code). Names may be empty, as a key in a form may. OpenQM's `QMLocate`, `QMIns`,
`QMReplace`, `QMExtract` and `QMDcount` are external and are modelled by what they
do with marks. An allocation may fail before the first of the two insertions
or between them. `added` is history: what was given, per name.

## Runs

| Run | Instance | Shows |
|---|---|---|
| `ConnectionSafety` | 2 connections, 2 cells, 20 requests (refused in every way, served, with NULs, marks, cut characters, too long, empty), 6 replies, 1 failing allocation, a log that may fail, symmetry | all safety properties, `StoredErrorBlocksRoutine`, and that `RequestService` is implemented |
| `ConnectionLiveness` | 2 connections, requests that cannot end the process, no failing allocation | `Decided`, and no deadlock |
| `Router` | every tree of up to 5 entries built from the listed entries, every URL of up to 3 folders, empty ones included | routing follows the configuration |
| `Server` | 40 files: trees of up to 5 entries in 3 levels with path, pattern, arrays and methods of either case, one fault of each kind in turn and at each level, faulty settings, an empty list; 6 requests; 1 failing allocation of the reader and 1 of the routing; log writable or not | the properties of reading, releasing, routing and stopping, and that `PickRouter` is implemented |
| `Dynarray` | 6 names and 5 values, some empty or with marks, 8 bytes, ranks below 8, one failing allocation | what is stored is what is read back, within the limits |
| 7 runs named below | one request or configuration each | a sentence of the documentation the code does not follow |

Bounds. Two connections are enough for every interaction: they meet only in the
polling thread and the session. Bodies of up to nine units are cut in all ways,
so that what is stored meets `post_max_size` (8) exactly, from below and from
above, with one piece and with several, and a form of three units is accepted in
three pieces; a two-byte and an unrepresentable character occur alone and after
others, a NUL first and last, a mark first. Behind a multipart piece stands nothing
or one character. One failing
allocation can hit every place of every callback; a second one would need two
failures in a request that the first had not already ended. `UINT_MODULUS` is
2^16 instead of 2^32, since only the wrapped value's not being a three-digit
status matters. Symmetry is used without liveness properties only. Deadlock is
not checked where the process may have been terminated, or the function has
returned.

`Server` needs five nodes for a list of two at the top, one of two below it and
one below that: a fault can then come after a linked sibling, below a linked parent
and after a complete top-level entry, and a tree can be freed with next and
`sub_path` both in use. One failing allocation meets every allocation of the
settings and of every node, another one every allocation of the routing. Two requests would add nothing, since callbacks are atomic and the tree is
read only. In `Dynarray`, ranks below 8 stand to 8 bytes as the code's ranks,
below 32768, do to the largest of its limits, the 32768 bytes of a form; those of
headers and parameters are half of it. The assumption `MaxSize <= RankLimit`
names that ratio, which the code relies on without a test.

Properties, and what a violation would mean:

- `HeapOwned`: a leak, a double delete or a use after free of a `pick_connection`.
- `RoutineAuthorized`: a routine for a refused URL or method, twice, or in spite
  of an error stored by an earlier callback.
- `CompleteBody`: a routine given part of a body, or another's, although a C string
  could hold it: there is no NUL in it, and, in a form, no mark. It says nothing of
  multipart bodies, whose pieces may be read past their end, and nothing of the
  bodies that the code cuts or reorders (below).
- `BoundedBody`: a body over `post_max_size` stored piece by piece.
- `SessionsClosed`: OpenQM sessions lost. One is lost per failed `strdup`
  between `QMConnectLocal` and `QMCall` (`connection.cpp:434`): the bound
  `alloc_failures` is exact.
- `RepliesPassedOn`: a routine's answer is lost, or answered by something else,
  without one of the reasons there are: no status was set, the status is not one
  of three digits, the body had not been read, memory ran out.
- `CrashExplained` (of `PickConnection`): the process ends in a callback for a reason
  other than a json request without body, an `OPTIONS` body, a failing allocation
  or a log that cannot be opened. A json body that NULs reduce to nothing must not.
- `StoredErrorBlocksRoutine`: a step that gives OpenQM a request with an error.
- `ServesRequests`: any of this seen from outside, as the refinement.
- `Decided`: a complete request is never answered nor dropped.
- `RoutedAsConfigured`, `UnambiguousFound`: methods, parameters or a routine from
  entries that do not match the URL; a configured URL not found although no two
  siblings overlap.

- `PointersAlive`, `HeldOnce`, `NothingLost`: a pointer to a freed node, a double
  free, a node or array nobody will free, at any moment of the reading, of the
  release of a refused file, and of the end.
- `RefusedIfFaulty`, `ReadAsWritten`: a fault that is not noticed because it is
  below others; an entry lost or out of order.
- `RoutingMemoryAlive`: a callback that reads what `main` has freed.
- `ReleasedAtExit`: a path of `main` that returns with memory or a thread left.
- `MethodsExact`: a routine for a method that no entry on the way has, letter for
  letter.
- `ErrorsLogged`: an error answered without a message.
- `CrashExplained` (of `PickServer`): the process ends for another reason than an
  accepted empty list, a log that cannot be opened, or a failing allocation of the
  settings or of the routing, while the request has no answer; or a failure inside
  `read_url_config`, which has a handler for each, ends it.
- `RoutesAsRouter`: the walk over pointers differs from `PickRouter`'s walk over
  the file's lists, whose properties it therefore has.
- `StartsOrRefuses`, `Stops`: the reading, or the stop, never ends (unless the process
  does).
- `ReadsBack`: a value at another name's rank, lost or doubled.
- `BoundedContent`, `RankFits`: more stored than the tests allow; a rank that
  changes sign.

### Fairness

`StartsOrRefuses` and `Stops` need `main` to go on while it can, and a callback
that has begun to go on: weak fairness of `Main` and of the callbacks, which are
two threads of the operating system. Nothing obliges a client to ask or anyone
to press a key, so `getchar` and `HandleRequest` have no fairness. Fairness of the
callbacks includes `RoutineReturns`: it assumes that a routine returns, which the
code does nothing to ensure; if one does not, `MHD_stop_daemon` waits for ever.
One request is served, so `Stops` does not speak of clients that keep arriving:
MHD's thread looks at its stop flag between callbacks, which is not this code.

`Decided` needs MHD's loop to come back to every connection that has a callback
due, although long routines of others disable it meanwhile: strong fairness of
`FirstCall` and `ProcessRequest` per connection. It needs routines to return:
weak fairness of `RoutineReturns`. Nothing obliges clients to send or to finish a
body, and no timeout is configured (`main:21-30`), so nothing is promised of a
request whose body is not complete. `SafeRequests` leaves out the requests
below that end the process.

### Where code and documents disagree

Each of these runs finds a behaviour of the code that a document or a comment
excludes:

| Run | The document | The code |
|---|---|---|
| `ListedParameter` | `README.md:94` `get_param` lists accepted parameters | the list is passed by value (`url.cpp:32`) and lost: all are refused |
| `UnlistedParameter` | `README.md:125` 400 | `throw *error_exception` slices (`connection.cpp:642`): 500 |
| `EmptyJson` | `httpd_server.instructions.md:45` no crash without a message | `std::string` from a null content (`connection.cpp:138`): uncaught `std::logic_error` |
| `ResponseLeak` | comment `connection.cpp:796`: MHD frees the response | the creator's reference is never dropped |
| `SplitCharacter` | `README.md:75` received data is converted; a character that cannot be represented is refused | pieces are converted one by one (`connection.cpp:310`): one that can be is refused if it is cut |
| `GetBody` | `README.md:26` the request is answered | the routine runs during the upload, its answer is refused (`connection.cpp:121`) |
| `EmptyErrorPage` | `README.md:131` an empty response with an error status gets a default page | the routine's output is sent as it is (`connection.cpp:533`) |

The models show others, which have no run of their own because they have the
same cause, are minor, or are told by a property that holds with an exception:

- the causes in `PickServer`'s `CrashExplained` are crashes where
  `httpd_server.instructions.md:45` has none without a message: an accepted file with
  an empty url list (`config.cpp:395`); a log file that cannot be opened, where
  `mkdir`'s result is not looked at (`logs.cpp:31`) and the first message throws
  through MHD's callback; a `bad_alloc` from `url.cpp:98-104`, from the
  `std::string` of a message, or from `config.cpp:349` and 360. While a request is
  routed `README.md:122` has 500 instead;
- a body is cut at a NUL, piece by piece, and a form value with a mark in it is put
  together in another order (`connection.cpp:303`, `pick_dynarray.cpp:36`, 111):
  the routine runs with what is left, where `README.md:75` has the received data.
  `CompleteBody` excepts these bodies, `BoundedBody` does not;
- `"get"` is an accepted method (`config.cpp:185`, `strcasecmp`) that admits no
  request (`connection.cpp:213`): `MethodsExact`;
- 405 and 415 are answered without the message `README.md:133` has for every error
  status: `ErrorsLogged` is about 404 and 500;
- bytes that are marks are stored as they come
  (`httpd_server.instructions.md:61`, "Valider et assainir toutes les entrées"):
  `ReadsBack` is about data without them, `RankFits` and `BoundedContent` about
  all; empty values and marks may cost bytes no test counts, and an empty name
  alone is counted as none;
- a file is closed without `config_destroy` if MHD does not start (`main:31-34`):
  the exception in `ReleasedAtExit`; the message of `check_pick_object_name` is
  not freed (a TODO at `config.cpp:158`);
- headers are not converted (`connection.cpp:554`; `README.md:75`): in
  `PickConnection`, `QMCall_arguments`;
- at the end of its input, `getchar` returns and the server stops: `README.md:26`
  has it wait for a key;
- a header that is too long is answered by 500 and a json body that is too long by
  a closed connection, where the comment at `connection.cpp:518` has 413; an
  OPTIONS body reaches an uninitialized `post_processor` (`connection.cpp:128`);
  allocations outside of `try` (`connection.cpp:114`, 138, 315, 765) end the process
  where `README.md:122` has 500; a missing Host header is accepted
  (`connection.cpp:621-631`) where `README.md:127` has 400; an entry of the
  configuration behind an overlapping sibling is never reached (`url.cpp:63`).

## Proofs

All the safety properties that a run checks are theorems, of every module, and so
are both refinements.

### Requests

For any constants that satisfy `ConstantsAssumption` (the types of the constants,
`UINT_MODULUS > 0`, `NULL` no connection or cell) and `NullAssumption` (a null
pointer is none of the things pointed to):

| Theorem | Statement |
|---|---|
| `TypeCorrect`, `ObjectsOwned` | `Spec => []TypeOK`, `[]HeapOwned` |
| `BodiesBounded` | `Spec => []BoundedBody` |
| `SessionsAreClosed` | `Spec => []SessionsClosed` |
| `RoutinesAuthorized` | `Spec => []RoutineAuthorized` |
| `ErrorsBlockRoutines` | `Spec => StoredErrorBlocksRoutine` |
| `BodiesComplete` | `Spec => []CompleteBody` |
| `RepliesArePassedOn` | `Spec => []RepliesPassedOn` |
| `CrashesExplained` | `Spec => []CrashExplained` |
| `ImplementsService` | `Spec => ServesRequests` |

`HeapOwned` and `TypeOK` are not inductive alone: a response's references stay
within 0..2 only because a queued answer implies phase `reply` and two references
(`AnswerHeld`), and sessions stay natural numbers only because a running routine
implies an open one (`RoutineHolds`). Their conjunction is `IInv`. `ObjInv` is the
part of it that handlers change; each way a handler may end preserves it
(`KeepPreserves`, `ReleasePreserves`, `QueuePreserves`, ...), each handler ends in
one of these ways (`InitializePreserves`, `ProcessPreserves`, ...), each action
calls one handler. `Untouched` says that a callback leaves other connections
alone, so that their part of the invariant carries over.

`BoundedBody` needs to know besides (`Bounded`) that only a server that converts
stores converted bodies: a json body that is converted at the end must not get
longer, which holds because a conversion never makes more bytes (`BytesBound`).
`AppendBytes` and `ExtendBytes` show that a piece adds at most its own length to
what is stored, although a character may be cut between two pieces and a mark may
put the piece in the middle; they compare sets of places by their cardinality
(`KeptConcat`, `KeptInserted`) instead of counting by recursion.

`CallsInv` adds to `IInv` that a request waiting with an object has been accepted
and has not run; from it follow `RoutinesAuthorized` and the refinement, where
every action is matched with one step of `RequestService` or a stutter.

`CompleteBody` says what a routine got; `BodyInv` says what an object holds at any
moment before, for any body and any cut. Unless it has an error, it holds something
as soon as a unit was received, NUL or not, and, if the body is one that
`CompleteBody` speaks of (`Whole`), exactly the units received so far, from the
first, in the encoding of its content type; the phase is `full` exactly when all
were received. It also needs that a request without object has received nothing
(else a first call could come in the middle of a body), and that an object has its
request's method, because only a GET is processed before its body is complete.
TLC checked `BodyInv` on `ConnectionSafety`'s instance before it was proved.

`RepliesPassedOn` is proved connection by connection (`Passed`): a step leaves the
exchanges of other connections alone, or is the return of the routine, where each
end of `send_response` has its reason. It needs `BodyInv`: that a response is
refused although its status has three digits only before the whole body was
received is what the phase says of it. `CrashExplained` needs it too: a json
object without content has received nothing, and what reaches a post processor
that nobody made is the body of an `OPTIONS` request.

### Routing

For any configurations and URLs of the types in `RouterAssumption`, cyclic trees
included:

| Theorem of `PickRouterProofs` | Statement |
|---|---|
| `RouterTypeOK` | `Spec => []TypeOK` |
| `RouterRoutedAsConfigured` | `Spec => []RoutedAsConfigured` |
| `RouterUnambiguousFound` | `Spec => []UnambiguousFound` |

The invariant says that there is a choice `p` of entries for the folders behind
`uri_index` (`Tracks`) that fits each of them, of which the variables hold the
routine and the union of the lists, and that any chain for the whole URL agrees
with `p` so far if no siblings overlap. A chain is a function of the places of the
URL, not a list built by recursion, so one step extends it by one place and no
induction over the URL is needed. `skip_slashes` and `folders_after` are shown to
leave a rest of the URL behind one of its places (`Rest`).

### The server

For any constants that satisfy `ConfigAssumption`, `FileAssumption`,
`ConfigNullAssumption`, `ServerAssumption` and `NamesAssumption`; in particular for
any file, any number of cells and of failing allocations:

| Theorem | Statement |
|---|---|
| of `PickServerProofs`: | |
| `ServerTypes` | `Spec => []TypeOK` |
| `ServerPointersAlive`, `ServerHeldOnce` | `Spec => []PointersAlive`, `[]HeldOnce` |
| `ServerNothingLost`, `ServerReleasedAtExit` | `Spec => []NothingLost`, `[]ReleasedAtExit` |
| `ServerRoutingMemoryAlive` | `Spec => []RoutingMemoryAlive` |
| `ServerErrorsLogged`, `ServerCrashExplained` | `Spec => []ErrorsLogged`, `[]CrashExplained` |
| of `PickReadProofs`: | |
| `ServerRefusedIfFaulty` | `Spec => []RefusedIfFaulty` |
| `ServerReadAsWritten` | `Spec => []ReadAsWritten` |
| of `PickWalkProofs`: | |
| `ServerRoutesAsRouter` | `Spec => RoutesAsRouter` |
| `ServerMethodsExact` | `Spec => []MethodsExact` |

The assumptions. `ConfigAssumption` and `ServerAssumption` give the types of the
constants; `ConfigNullAssumption`, that a null pointer is no cell, node, frame or
array. `FileAssumption` is about libconfig: what is not a group has no members
(the code looks members up in the elements of `url` without asking whether they are
groups), and what is absent has no elements. `NamesAssumption`: `UpperCase` is defined for every
folder's name in a request, and for nothing but strings.

Memory (`PickConfigProofs`). Neither `PointersAlive` nor `HeldOnce` is inductive:
freeing a subtree keeps other pointers alive only if nothing outside leads into
it. `MemInv` says what the memory is at every moment of the reading and of the
release. Its graph part has, besides the two properties: every node is covered,
that is, belongs to every set that contains the list's head and the calls in
progress and is closed under `next` and `sub_path` (`Reachable`, read as a
quantifier over sets, so that no induction is needed); the calls in progress form
a stack from `current` (`CallStack`); and `prev_sub_path_config` of a call has no
next, is no other call's, and is reached from the call's node (`SubPathLoops`).
`BlocksOwned` ties every block to a node that points to it. One lemma per way
memory changes (a node is made, linked to a sibling, linked in front, freed with
its subtree) shows that `MemInv` is kept; the actions are matched with them.
`NothingLost` follows from the covering, and `MemEmpty` says that with no call in
progress and no first entry there is no node and no block: hence `ReleasedAtExit`.

The server (`PickServerProofs`). `MainInv` records what `main` knows at each of its
calls, and `Turn` what a step of the polling thread may do: it stays among the live
nodes and logs before it answers. Their conjunction with `MemInv` is `IInv`.
`FailuresOK`, the bound on the routing's failing allocations, is an invariant of its
own. `CrashInv` adds to `CrashExplained` that an entry that was read is in the tree
or in a call until `main` begins to free it, so that only an empty list leaves
`first_url_config` null and only the settings, before any entry, throw
(`UrlsReadInv`), and that a request that is still being routed has no answer
(`UnansweredInv`).

What was read (`PickReadProofs`). The steps of the reader are first summed up by
what they do to the calls (`Begins`, `Skips`, `Refuses`, `Appends`, `Prepends`,
`Drops`), which both invariants then use. `FaultInv`, for `RefusedIfFaulty`: every
call is on the element its caller is at, the elements before it were fine unless an
error was noted, and errors are noted only where there is one; an entry is `Fine`
if some set of good entries holds it and is closed under `sub_path`, a quantifier
over sets again. `ListInv`, for `ReadAsWritten`: there is a function `kids` that gives
each node, and `url`, the list of nodes under it. The lists are linked as the
pointers say, no two end in the same node, a call's `prev_sub_path_config` is the
end of its node's list, and node by node the entries are those of the file up to
the element the call is at. The witness changes with every step that links a node.
`AcceptedTree` then reads the file's tree off `kids` when no call is left.

The walk (`PickWalkProofs`). `WalkInv` relates `base_url_config` with the history
variable `siblings`: it points to a node of the list for the entries `siblings`, and
no entry before that node matches the folder. A step over a sibling that does not
match is a stutter of `PickRouter`, the one that matches is `MatchFolder`'s least
place. `PickRouterProofs` is instantiated for the file and the request, with
`RouterAssumption` proved for it (`ConfigsTyped`), so that its invariant holds of
the server: a routine runs along a chain of the file, hence `ServerMethodsExact`.

### Collected fields

`PickDynarrayProofs`, for any names, values and limits that satisfy
`DynarrayAssumption` (names and values are texts, null is not one,
`MaxSize <= RankLimit`):

| Theorem | Statement |
|---|---|
| `DynarrayTypeOK` | `Spec => []TypeOK` |
| `DynarrayReadsBack` | `Spec => []ReadsBack` |
| `DynarrayBoundedContent` | `Spec => []BoundedContent` |
| `DynarrayRankFits` | `Spec => []RankFits` |

The properties speak of a text that is split at its marks, changed in one place
and joined again, so the proof has four layers.

1. Texts. `split` and `join` are recursive functions; that they exist and what they
   are at each length (`SplitAppend`, `JoinAppend`) comes first. `SeqInduct` turns
   induction on texts into a statement about the set of texts that have a property,
   which the provers can use where a theorem with an operator parameter cannot be.
   From it: joining undoes splitting (`JoinSplit`), splitting undoes joining parts
   without the mark (`SplitJoin`), how many parts a concatenation has
   (`SplitCount`, `BehindCount`, `PartCount`), and what a part put between others
   does to the text (`Around`, `ReplacedText`, `InsertedText`).
2. Two fields. What `QMIns` and `QMReplace` leave in both fields, how long the
   text is and how many values each field has, for any name or value, with marks
   in it that may cut the field or the content (`NameIn`, `ValueIn`,
   `ValueBehind`), and exactly which parts there are if it has none.
3. Bounds and ranks. `PairIn` and `ValueFor` join these with the size test: the
   length stays within `MaxSize`, but for the marks of ranks that have no value of
   their own, and every count stays below `RankLimit`, even between the two
   insertions. `LocateIs` then shows that no rank is changed by narrowing, so
   `locate` is what the search in `QMLocate` finds.
4. Names and values. `Pairs` says that the names are in order and the value of each
   is at its rank; a name goes to its place (`PlaceOf`, from the order of names
   being strict and total, `PrecedesOrder`) and the pairs behind move together
   (`PairsOpened`), or its value grows (`PairsChanged`).

`DynarrayInv` joins them: `Bounded` always, `Complete` unless memory ran out in
between. `ReadsBack` and `BoundedContent` are not inductive alone. Reading back
says nothing of where the values are as long as all are found; the next insertion
needs `Pairs`. And whether an insertion adds marks for missing values depends on
every earlier rank having a value (`NoGap`), which again is `Pairs`.

### Only model-checked

`Decided`, `StartsOrRefuses` and `Stops` are liveness under fairness, which the
proof system does not treat. The disagreements with the documents are
counterexamples, not theorems.

## Not modelled

The text of pages and messages, so that size markers a routine leaves in its
output (`connection.cpp:713`) are not told from a page; the inside of MHD, OpenQM,
Poco, pcre2 and libconfig; the environment variables and the names of account and
encoding once they are checked; the release of MHD's post processors, created at
`connection.cpp:272` and never destroyed; a query parameter without a value
(`connection.cpp:589`), which is not reached as long as every parameter is refused;
the methods of `PHSLogging` and the overloads of `pick_dynarray` that nothing
calls; a bound on the time of a stalled upload, for which the code has no timeout
(`main:21`).

## Plan

1. `PickConnection`, `RequestService`, `PickRouter`, `PickConfig`, `PickServer`,
   `PickDynarray`, their runs: done.
2. Theorems about requests, routing, the configuration's memory, what is read of
   it, the server and collected fields: done. Every safety property of the runs is
   proved.
