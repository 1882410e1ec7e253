----------------------------- MODULE PickRouter -----------------------------
(***************************************************************************)
(* extract_subroutine_name_from_url (pick_httpd_server_url.cpp): the walk  *)
(* along the folders of a URL, down the tree that read_url_config built.   *)
(*                                                                         *)
(* A configuration entry is a node; path and pattern are both the set of   *)
(* folder names the entry matches (names that differ only by case are one  *)
(* name). A URL is the sequence of what stands between its slashes, "" for *)
(* two slashes in a row or one at the end.                                 *)
(***************************************************************************)
EXTENDS Naturals, Sequences, SequencesExt, FiniteSets, FiniteSetsExt

CONSTANTS
  Node,      \* the entries of the configuration
  Configs,   \* configuration files the server may be started with
  Urls,      \* URLs clients may ask for
  NULL

Entry == [match : SUBSET STRING, subr : STRING \cup {NULL},
          method : SUBSET STRING, get_param : SUBSET STRING,
          sub_path : Seq(Node)]

ASSUME RouterAssumption ==
  /\ Configs \subseteq [url : Seq(Node), node : [Node -> Entry]]
  /\ Urls \subseteq Seq(STRING)

VARIABLES
  config,             \* the configuration file read at startup
  url,                \* the URL to route
  uri_index,          \* what is left of it, without leading slashes
  base_url_config,    \* the entries that may match the next folder
  subr, method_authorized, param_authorized,
  status              \* the value returned, "walking" before that

vars == <<config, url, uri_index, base_url_config, subr, method_authorized,
          param_authorized, status>>

(* phs_config_read puts each top-level entry in front of the list. *)
first_url_config(cfg) == Reverse(cfg.url)

(* Mutant: only one slash is skipped.                                      *)
skip_one_slash(u) == IF u # <<>> /\ Head(u) = "" THEN Tail(u) ELSE u

(* The loop that moves uri_index past the slashes it points to.            *)
skip_slashes(u) ==
  LET k == Min({i \in 1..Len(u) + 1 : i = Len(u) + 1 \/ u[i] # ""})
  IN  SubSeq(u, k, Len(u))

(* Mutant: an entry without a routine forgets its parent's.                *)
routine_of_entry(entry) == subr' = entry.subr

(* An entry without a routine keeps the one of the folders above it.       *)
routine(entry) == subr' = IF entry.subr # NULL THEN entry.subr ELSE subr

folders_after(u) == skip_slashes(Tail(u))

Init ==
  /\ config \in Configs
  /\ url \in Urls
  /\ uri_index = skip_slashes(url)
  /\ base_url_config = first_url_config(config)
  /\ subr = NULL /\ method_authorized = {} /\ param_authorized = {}
  /\ status = "walking"

Return(value) ==
  /\ status' = value
  /\ UNCHANGED <<config, url, uri_index, base_url_config, subr,
                 method_authorized, param_authorized>>

RootPath == skip_slashes(url) = <<>> /\ Return("404")

Matching(name) ==
  {i \in DOMAIN base_url_config :
     name \in config.node[base_url_config[i]].match}

InLoop == base_url_config # <<>> /\ uri_index # <<>>

(* One folder: the first sibling that matches is taken, for good.          *)
MatchFolder ==
  LET hits  == Matching(Head(uri_index))
      entry == config.node[base_url_config[Min(hits)]]
  IN
  /\ InLoop /\ hits # {}
  /\ uri_index' = folders_after(uri_index)
  /\ base_url_config' = entry.sub_path
  /\ routine(entry)
  /\ method_authorized' = method_authorized \cup entry.method
  /\ param_authorized' = param_authorized \cup entry.get_param
  /\ UNCHANGED <<config, url, status>>

NoFolder == InLoop /\ Matching(Head(uri_index)) = {} /\ Return("404")

(* strndup finds no memory for the folder's name. *)
MemoryFull == InLoop /\ Return("500")

(* Mutant: a URL longer than its entries' chain is accepted.              *)
FinishAnywhere ==
  ~InLoop /\ Return(IF subr = NULL THEN "404" ELSE "0")

Finish ==
  ~InLoop /\ Return(IF uri_index # <<>> \/ subr = NULL THEN "404" ELSE "0")

Next ==
  /\ status = "walking"
  /\ \/ RootPath
     \/ skip_slashes(url) # <<>>
        /\ (MatchFolder \/ NoFolder \/ MemoryFull \/ Finish)

Spec == Init /\ [][Next]_vars

-----------------------------------------------------------------------------
(* What the configuration says of a URL, whatever the order of entries.    *)

(* The places of the URL's folders. *)
Folders == {i \in DOMAIN url : url[i] # ""}

(* The entries the next folder may be, once those of some folders are chosen. *)
Below(p, above) ==
  IF above = {} THEN config.url ELSE config.node[p[Max(above)]].sub_path

(* The entry p chooses for the folder at place i matches it, and is listed *)
(* under the entry p chooses for the folder before.                        *)
Fits(p, i) ==
  /\ url[i] \in config.node[p[i]].match
  /\ p[i] \in ToSet(Below(p, {j \in Folders : j < i}))

(* The chains of entries, one per folder, that match the URL.              *)
Chains ==
  {p \in [Folders -> Node] : Folders # {} /\ \A i \in Folders : Fits(p, i)}

(* The routine of a chain: the last one named along it. *)
RoutineOf(p) ==
  LET named == {i \in DOMAIN p : config.node[p[i]].subr # NULL}
  IN  IF named = {} THEN NULL ELSE config.node[p[Max(named)]].subr

(* No two siblings match the same folder name. *)
Unambiguous ==
  \A siblings \in {config.url} \cup {config.node[n].sub_path : n \in Node} :
    \A i, j \in DOMAIN siblings :
      i # j => config.node[siblings[i]].match
                 \cap config.node[siblings[j]].match = {}

(* The walk's variables have the types of the code's.                      *)
TypeOK ==
  /\ uri_index \in Seq(STRING) /\ base_url_config \in Seq(Node)
  /\ uri_index # <<>> => Head(uri_index) # ""
  /\ subr \in STRING \cup {NULL}
  /\ status \in {"walking", "0", "404", "500"}

(* A URL is routed only along a chain of entries that matches all of its   *)
(* folders, with that chain's routine and exactly that chain's methods     *)
(* and parameters: nothing leaks in from entries tried or passed over.     *)
RoutedAsConfigured ==
  status = "0" =>
    \E p \in Chains :
      /\ subr = RoutineOf(p) /\ subr # NULL
      /\ method_authorized = UNION {config.node[p[i]].method : i \in DOMAIN p}
      /\ param_authorized = UNION {config.node[p[i]].get_param : i \in DOMAIN p}

(* With siblings that do not overlap, the greedy walk loses nothing: a URL *)
(* the configuration has is found, however its slashes are repeated.       *)
UnambiguousFound ==
  Unambiguous /\ status = "404" => \A p \in Chains : RoutineOf(p) = NULL
=============================================================================
