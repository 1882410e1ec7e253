----------------------------- MODULE PickServer -----------------------------
(***************************************************************************)
(* The life of the server (pick_httpd_server.cpp): main reads the          *)
(* configuration, starts MHD, waits for a key, stops MHD and releases what *)
(* it has read, while MHD's polling thread routes a request through the    *)
(* tree of nodes, one sibling at a time (pick_httpd_server_url.cpp), and   *)
(* writes its errors to the log (pick_httpd_server_logs.cpp).              *)
(*                                                                         *)
(* One request is served: requests share nothing but the tree, which they  *)
(* only read. What the request does once it is routed is PickConnection's  *)
(* subject; here it is a routine that runs and returns.                    *)
(***************************************************************************)
EXTENDS PickConfig

CONSTANT Requests   \* [url, method], a URL being what stands between slashes

VARIABLES
  main,               \* the call main is in
  exit_code,          \* what it is going to return, NULL before it knows
  libconfig_storage,  \* the strings of the file: config_destroy not called
  log_writable,       \* the log file can be opened
  thread,             \* the polling thread
  request,
  uri_index, base_url_config,                \* extract_subroutine_name_...
  subr, method_authorized, param_authorized,
  status,             \* what it returns, "walking" before that
  siblings,           \* history: the file's entries for the next folder
  answer,             \* status of the answer, NULL before it
  logged,             \* an error was written to the log for this request
  routing_failures,   \* allocations that failed while it was routed
  crash               \* why the process was terminated, "no" while it runs

walk == <<uri_index, base_url_config, subr, method_authorized,
          param_authorized, status, siblings>>
polling == <<thread, walk, answer, logged>>
process == <<main, exit_code, libconfig_storage>>
vars == <<config_vars, process, polling, routing_failures, request,
          log_writable, crash>>

(* The entries of a file, as the routing sees them. *)
RouterEntry(g) ==
  LET strings(member) == {member.elems[i] : i \in DOMAIN member.elems}
  IN
  [match |-> {n \in DOMAIN UpperCase :
                \/ g.path # NULL /\ UpperCase[n] = UpperCase[g.path]
                \/ g.pattern # NULL /\ Compiled[g.pattern] # NULL
                   /\ n \in Compiled[g.pattern]},
   subr |-> g.subr, method |-> strings(g.method) \ {NULL},
   get_param |-> strings(g.get_param) \ {NULL}, sub_path |-> g.sub_path.elems]

RouterConfig(f) ==
  [url |-> f.url.elems, node |-> [s \in Setting |-> RouterEntry(f.setting[s])]]

Router == INSTANCE PickRouter WITH
  Node <- Setting, Configs <- {RouterConfig(f) : f \in Files},
  Urls <- {r.url : r \in Requests},
  config <- RouterConfig(file), url <- request.url,
  base_url_config <- siblings

ASSUME ServerAssumption ==
  /\ Requests \subseteq [url : Seq(STRING), method : STRING]
  /\ NULL \notin Nat

(* UpperCase is defined for the names that are compared, all of them strings. *)
ASSUME NamesAssumption ==
  /\ DOMAIN UpperCase \subseteq STRING
  /\ \A r \in Requests : ToSet(r.url) \subseteq DOMAIN UpperCase \cup {""}

-----------------------------------------------------------------------------
(* main(). *)

(* Mutant: MHD_stop_daemon does not wait for the callback that is running. *)
MHD_stop_daemonNoWait == main = "MHD_stop_daemon"

(* MHD_stop_daemon joins the polling thread, which ends between callbacks. *)
MHD_stop_daemon == main = "MHD_stop_daemon" /\ thread = "stopped"

(* Mutant: a refused configuration is not released.                        *)
after_refusalDestroy == "config_destroy"

after_refusal == "phs_config_free"

Refused ==
  /\ main = "phs_config_read" /\ reading = "refused"
  /\ main' = after_refusal /\ exit_code' = 2
  /\ UNCHANGED <<config_vars, libconfig_storage, polling, crash>>

(* pick_httpd_server.h defines PHS_DEBUG: the first entry is printed, with *)
(* no test that there is one.                                              *)
print_first_config ==
  /\ main = "phs_config_read" /\ reading = "accepted"
  /\ IF first_url_config = NULL
     THEN crash' = "no first entry" /\ UNCHANGED main
     ELSE main' = "MHD_start_daemon" /\ UNCHANGED crash
  /\ UNCHANGED <<config_vars, exit_code, libconfig_storage, polling>>

StartDaemon ==
  /\ main = "MHD_start_daemon"
  /\ \/ /\ main' = "getchar" /\ thread' = "idle"
        /\ UNCHANGED exit_code
     \/ /\ main' = "phs_config_free" /\ exit_code' = 1
        /\ UNCHANGED thread
  /\ UNCHANGED <<config_vars, libconfig_storage, walk, answer, logged, crash>>

(* A key is pressed, or the input is at its end. *)
getchar ==
  /\ main = "getchar"
  /\ main' = "MHD_stop_daemon"
  /\ UNCHANGED <<config_vars, exit_code, libconfig_storage, polling,
                 routing_failures, crash>>

StopDaemon ==
  /\ MHD_stop_daemon
  /\ main' = "config_destroy" /\ exit_code' = 0
  /\ UNCHANGED <<config_vars, libconfig_storage, polling, crash>>

(* The two releases come in either order, and one path has no destroy.     *)
config_destroy ==
  /\ main = "config_destroy"
  /\ libconfig_storage' = FALSE
  /\ main' = IF exit_code = 2 THEN "exited" ELSE "phs_config_free"
  /\ UNCHANGED <<config_vars, exit_code, polling, crash>>

phs_config_free ==
  /\ main = "phs_config_free"
  /\ \/ /\ free_first
        /\ UNCHANGED main
     \/ /\ first_url_config = NULL
        /\ main' = IF exit_code = 2 THEN "config_destroy" ELSE "exited"
        /\ UNCHANGED tree
  /\ UNCHANGED <<file, home, reader, alloc_failures, exit_code,
                 libconfig_storage, polling, crash>>

(* Nobody catches what phs_config_read throws.                             *)
ReadConfig ==
  /\ main = "phs_config_read" /\ phs_config_read
  /\ crash' = IF reading' = "thrown" THEN "bad_alloc" ELSE crash
  /\ UNCHANGED <<process, polling>>

Main ==
  /\ \/ ReadConfig \/ Refused \/ print_first_config \/ StartDaemon
     \/ StopDaemon \/ config_destroy \/ phs_config_free
  /\ UNCHANGED routing_failures

-----------------------------------------------------------------------------
(* The polling thread. *)

(* PHSLogging's constructor has a logger unless there is no HOME.          *)
rootLogger == home

(* Mutant: the level of the root logger lets nothing below "critical" by.  *)
writtenCritical(level) == rootLogger /\ level = "critical"

(* A message of this level reaches the log file. *)
written(level) ==
  rootLogger /\ level \in {"fatal", "critical", "error", "warning"}

AllocOK == UNCHANGED routing_failures
RoutingAllocFails == /\ routing_failures < MaxAllocFailures
                     /\ routing_failures' = routing_failures + 1

(* A std::string, a vector or the pick_connection cannot be allocated: the *)
(* exception leaves the callback, and nobody catches it.                   *)
bad_alloc ==
  /\ RoutingAllocFails
  /\ crash' = "bad_alloc"
  /\ UNCHANGED polling

(* A message to the logger, then what follows it; the log's file is opened *)
(* by the first message, and nobody catches the exception of a failure.    *)
log_fatal(Then) ==
  IF written("fatal") /\ ~log_writable
  THEN crash' = "log" /\ UNCHANGED polling
  ELSE logged' = written("fatal") /\ Then /\ UNCHANGED crash

(* PHSLogging::fatal, for which a std::string is made of the message.      *)
fatal(Then) ==
  \/ bad_alloc
  \/ AllocOK /\ log_fatal(Then)

(* initialize() answers an error of the routing with a default page.       *)
Return(value, code) ==
  /\ status' = value /\ answer' = code
  /\ thread' = "idle"
  /\ UNCHANGED <<uri_index, base_url_config, subr, method_authorized,
                 param_authorized, siblings>>

(* The handler is called with the request: it makes a pick_connection.     *)
HandleRequest ==
  /\ thread = "idle" /\ status = "walking"
  /\ \/ bad_alloc
     \/ uri_index = <<>> /\ fatal(Return("404", 404))
     \/ /\ uri_index # <<>> /\ AllocOK
        /\ base_url_config' = first_url_config
        /\ thread' = "while"
        /\ UNCHANGED <<uri_index, subr, method_authorized, param_authorized,
                       status, siblings, answer, logged, crash>>

InLoop == base_url_config # NULL /\ uri_index # <<>>

(* strndup of the folder's name. If it fails, so may the message of that.  *)
NextFolder ==
  /\ thread = "while" /\ InLoop
  /\ \/ thread' = "for" /\ AllocOK /\ UNCHANGED <<walk, answer, logged, crash>>
     \/ RoutingAllocFails /\ log_fatal(Return("500", 500))
     \/ bad_alloc

(* Mutant: the case of a configured path must be that of the URL.          *)
matchesExactly(a, name) == heap[a].path = name

(* A match that pcre2 gives up (its limits, no memory) is left out: it is  *)
(* logged and counts as no match.                                          *)
check_folder_pattern(name, pattern_comp) == name \in Compiled[pattern_comp]

(* The node's path, or its pattern, accepts the name. *)
matches(a, name) ==
  \/ heap[a].path # NULL /\ UpperCase[name] = UpperCase[heap[a].path]
  \/ /\ heap[a].pattern_comp # NULL
     /\ check_folder_pattern(name, heap[a].pattern_comp)

strings_of(array) ==
  IF array = NULL THEN {} ELSE {array[i] : i \in DOMAIN array}

(* Mutant: the search never moves to the next sibling.                     *)
next_siblingStays(a) == a

next_sibling(a) == heap[a].next

(* What a node adds to the routing is copied into std::strings. *)
copies(a) ==
  \/ heap[a].subr # NULL
  \/ strings_of(heap[a].method) \cup strings_of(heap[a].get_param) # {}

(* One turn of the loop over the siblings. *)
TrySibling ==
  /\ thread = "for"
  /\ \/ /\ base_url_config = NULL
        /\ fatal(Return("404", 404))
     \/ /\ base_url_config # NULL
        /\ ~matches(base_url_config, Head(uri_index))
        /\ base_url_config' = next_sibling(base_url_config)
        /\ AllocOK
        /\ UNCHANGED <<thread, uri_index, subr, method_authorized,
                       param_authorized, status, siblings, answer, logged,
                       crash>>
     \/ /\ base_url_config # NULL
        /\ matches(base_url_config, Head(uri_index))
        /\ copies(base_url_config) /\ bad_alloc
     \/ /\ base_url_config # NULL
        /\ matches(base_url_config, Head(uri_index))
        /\ AllocOK
        /\ LET found == heap[base_url_config] IN
           /\ uri_index' = Router!folders_after(uri_index)
           /\ base_url_config' = found.sub_path
           /\ siblings' = sub_elems(found.entry)
           /\ subr' = IF found.subr # NULL THEN found.subr ELSE subr
           /\ method_authorized' = method_authorized \cup strings_of(found.method)
           /\ param_authorized' =
                param_authorized \cup strings_of(found.get_param)
        /\ thread' = "while"
        /\ UNCHANGED <<status, answer, logged, crash>>

(* Mutant: strcasecmp here too.                                            *)
method_acceptedAnyCase(m) ==
  \E a \in method_authorized : UpperCase[a] = UpperCase[m]

(* initialize(): an exact comparison. *)
method_accepted(m) == m \in method_authorized

(* The end of the URL or of the tree, then the rest of initialize(). No    *)
(* message is logged for a method that is refused.                         *)
Routed ==
  /\ thread = "while" /\ ~InLoop
  /\ \/ /\ uri_index # <<>> \/ subr = NULL
        /\ fatal(Return("404", 404))
     \/ /\ uri_index = <<>> /\ subr # NULL
        /\ ~method_accepted(request.method)
        /\ Return("0", 405) /\ AllocOK
        /\ UNCHANGED <<logged, crash>>
     \/ /\ uri_index = <<>> /\ subr # NULL
        /\ method_accepted(request.method)
        /\ status' = "0" /\ thread' = "routine" /\ AllocOK
        /\ UNCHANGED <<uri_index, base_url_config, subr, method_authorized,
                       param_authorized, siblings, answer, logged, crash>>

RoutineReturns ==
  /\ thread = "routine"
  /\ thread' = "idle" /\ answer' = 200
  /\ UNCHANGED <<walk, logged, routing_failures, crash>>

(* MHD_stop_daemon has told the thread to end. *)
ThreadEnds ==
  /\ thread = "idle" /\ main = "MHD_stop_daemon"
  /\ thread' = "stopped"
  /\ UNCHANGED <<walk, answer, logged, routing_failures, crash>>

Callback == NextFolder \/ TrySibling \/ Routed \/ RoutineReturns

PollingThread ==
  /\ HandleRequest \/ Callback \/ ThreadEnds
  /\ UNCHANGED <<config_vars, process>>

-----------------------------------------------------------------------------
Init ==
  /\ ConfigInit
  /\ main = "phs_config_read" /\ exit_code = NULL
  /\ libconfig_storage = TRUE
  /\ log_writable \in BOOLEAN
  /\ thread = "none"
  /\ request \in Requests
  /\ uri_index = Router!skip_slashes(request.url)
  /\ base_url_config = NULL /\ siblings = Reverse(file.url.elems)
  /\ subr = NULL /\ method_authorized = {} /\ param_authorized = {}
  /\ status = "walking"
  /\ answer = NULL /\ logged = FALSE /\ routing_failures = 0
  /\ crash = "no"

Step(Action) ==
  crash = "no" /\ UNCHANGED <<request, log_writable>> /\ Action

Next == Step(Main) \/ Step(getchar) \/ Step(PollingThread)

(* main goes on, and so does a callback once it is called; nothing obliges *)
(* a client to ask, or anyone to press a key.                              *)
Fairness ==
  /\ WF_vars(Step(Main))
  /\ WF_vars(Step((Callback \/ ThreadEnds) /\ PollingThread))

Spec == Init /\ [][Next]_vars
FairSpec == Spec /\ Fairness

-----------------------------------------------------------------------------
(* Properties. *)

(* The values of main's and the polling thread's variables, and where each *)
(* may be while the other is at a place.                                   *)
TypeOK ==
  /\ ConfigTypeOK
  /\ main \in {"phs_config_read", "MHD_start_daemon", "getchar",
               "MHD_stop_daemon", "config_destroy", "phs_config_free",
               "exited"}
  /\ exit_code \in {0, 1, 2, NULL}
  /\ libconfig_storage \in BOOLEAN
  /\ thread \in {"none", "idle", "while", "for", "routine", "stopped"}
  /\ thread \notin {"none", "stopped"} =>
       main \in {"getchar", "MHD_stop_daemon"}
  /\ reading \in {"settings", "urls"} => main = "phs_config_read"
  /\ base_url_config \in Addr \cup {NULL}
  /\ answer \in {200, 404, 405, 500, NULL}
  /\ routing_failures \in 0..MaxAllocFailures
  /\ crash \in {"no", "no first entry", "log", "bad_alloc"}

(* While the daemon runs, the tree it routes by is the file's, whatever    *)
(* was freed and linked on the way.                                        *)
ReadAsWritten ==
  main \in {"MHD_start_daemon", "getchar", "MHD_stop_daemon"} => AsWritten

(* A callback never follows a node that main has freed, or reads a string  *)
(* of the file after config_destroy: main stops the thread first.          *)
RoutingMemoryAlive ==
  thread \in {"while", "for"} =>
    /\ libconfig_storage
    /\ base_url_config # NULL => heap[base_url_config] # NULL

(* Whichever way main ends, it has released every node, pattern and array, *)
(* in a refused file those linked before the fault too, and no thread is   *)
(* left; the strings of the file stay only if the daemon did not start.    *)
ReleasedAtExit ==
  main = "exited" =>
    /\ \A a \in Addr : heap[a] = NULL
    /\ blocks = {} /\ first_url_config = NULL
    /\ libconfig_storage <=> exit_code = 1
    /\ thread = (IF exit_code = 0 THEN "stopped" ELSE "none")
    /\ exit_code = 2 <=> reading = "refused"

(* The walk over nodes and pointers is the walk over the file's lists of   *)
(* PickRouter, to whose Configs and Urls the file and the request belong.  *)
RoutesAsRouter == Router!Spec

(* A routine runs only for a method that an entry on the request's way     *)
(* names with the very letters of the request: "get", which the reader     *)
(* accepts, admits no GET.                                                 *)
MethodsExact ==
  thread = "routine" \/ answer = 200 =>
    \E p \in Router!Chains : \E i \in DOMAIN p :
      \E j \in DOMAIN file.setting[p[i]].method.elems :
        file.setting[p[i]].method.elems[j] = request.method

(* The errors of the routing are in the log before they are answered.      *)
ErrorsLogged == answer \in {404, 500} => logged

(* The reading comes to an end, whatever the file: the server starts, main *)
(* returns, or the process is terminated.                                  *)
StartsOrRefuses == <>(main \in {"getchar", "exited"} \/ crash # "no")

(* Once a key is pressed main ends, even if a routine is running then.     *)
Stops == main = "MHD_stop_daemon" ~> main = "exited" \/ crash # "no"

(* What terminates the process here: a file that is accepted with an empty *)
(* list of urls, an error to log while the log cannot be opened, or an     *)
(* allocation that fails while the account or the encoding is read, before *)
(* any entry, or while a request that has no answer yet is routed. No      *)
(* failure in read_url_config does.                                        *)
CrashExplained ==
  /\ crash = "no first entry" =>
       /\ reading = "accepted"
       /\ file.url = [kind |-> "list", elems |-> <<>>]
  /\ crash = "log" => home /\ ~log_writable /\ answer = NULL
  /\ crash = "bad_alloc" =>
       \/ /\ reading = "thrown" /\ alloc_failures > 0
          /\ urls_read = 0 /\ file.account = "name"
       \/ /\ status = "walking" /\ answer = NULL
          /\ routing_failures > 0
=============================================================================
