----------------------------- MODULE PickConfig -----------------------------
(***************************************************************************)
(* Reading and releasing the configuration (pick_httpd_server_config.cpp). *)
(*                                                                         *)
(* phs_config_read checks the settings, then reads the entries of url one  *)
(* by one with read_url_config, which calls itself for the entries of      *)
(* sub_path. A fault anywhere makes it free what it has built and return   *)
(* null; what phs_config_read has already linked is left to main, which    *)
(* calls phs_config_free. Allocations may fail: read_url_config tests its  *)
(* mallocs, but the exception of a std::string leaves phs_config_read.     *)
(*                                                                         *)
(* A file is what libconfig hands out: entries are Settings, strings are   *)
(* members of a small set. A node is one cell of memory, its pattern and   *)
(* arrays are blocks of their own. In a node, entry is history: the        *)
(* setting it was read from.                                               *)
(***************************************************************************)
EXTENDS Integers, Sequences, SequencesExt, FiniteSets

CONSTANTS
  Setting,           \* the entries of the file, at all levels
  Addr,              \* cells of memory a url_config_struct may occupy
  Files,             \* files the server may be started with
  UpperCase,         \* string -> the string strcasecmp compares
  Compiled,          \* pattern -> folder names it matches, NULL if faulty
  ObjectNames,       \* strings pattern_object_name matches
  NULL,
  MaxAllocFailures   \* bound on failing allocations

Block == {"pattern_comp", "method", "get_param"}

(* A member of a group: absent, an array, a list, or something else.       *)
Member(elem) ==
  [kind : {"absent", "array", "list", "other"}, elems : Seq(elem)]

OptString == STRING \cup {NULL}

Group == [group : BOOLEAN, path : OptString, pattern : OptString,
          subr : OptString, method : Member(OptString),
          get_param : Member(OptString), sub_path : Member(Setting)]

File == [readable : BOOLEAN, port : {"absent", "number"},
         env : {"absent", "group", "other"},
         account : {"absent", "empty", "name"},
         encoding : {"absent", "known", "unknown"},
         url : Member(Setting), setting : [Setting -> Group]]

ASSUME ConfigAssumption ==
  /\ NULL \notin Addr /\ NULL \notin Setting
  /\ Addr \subseteq Int
  /\ Files \subseteq File
  /\ MaxAllocFailures \in Nat

(* What libconfig finds in a file: a setting that is not a group has no    *)
(* members, and a member that is absent has no elements.                   *)
ASSUME FileAssumption ==
  \A f \in Files : \A s \in Setting :
    LET g == f.setting[s] IN
    /\ ~g.group => g.path = NULL /\ g.pattern = NULL
    /\ \A k \in {"method", "get_param", "sub_path"} :
         g[k].kind = "absent" => g[k].elems = <<>>

VARIABLES
  file,              \* the configuration file
  home,              \* HOME is set, or the user is root
  reading,           \* how far phs_config_read is, or what it ended with
  urls_read,         \* elements of url it has read
  current,           \* node of the running read_url_config, NULL if none
  frame,             \* local variables of each read_url_config in progress
  heap,              \* the nodes
  blocks,            \* their patterns and arrays that are allocated
  first_url_config,
  alloc_failures

tree == <<heap, blocks, first_url_config>>
reader == <<reading, urls_read, current, frame>>
config_vars == <<file, home, reader, tree, alloc_failures>>

Node == [path : OptString, pattern_comp : OptString, subr : OptString,
         method : Seq(OptString) \cup {NULL},
         get_param : Seq(OptString) \cup {NULL},
         sub_path : Addr \cup {NULL}, next : Addr \cup {NULL},
         entry : Setting]

Frame == [caller : Addr \cup {NULL}, sub_path_index : Nat,
          prev_sub_path_config : Addr \cup {NULL}, error_config : BOOLEAN]

ASSUME ConfigNullAssumption ==
  NULL \notin (Node \cup Frame) /\ NULL \notin Seq(OptString)

http_methods == {"GET", "POST", "PUT", "PATCH", "DELETE", "OPTIONS"}

AllocFails == /\ alloc_failures < MaxAllocFailures
              /\ alloc_failures' = alloc_failures + 1

-----------------------------------------------------------------------------
(* free_url_config: the node, its blocks, and all that hangs from its      *)
(* sub_path along next and sub_path; its own next is not followed.         *)

Closed(S) ==
  \A b \in S : heap[b] # NULL =>
    {heap[b].next, heap[b].sub_path} \subseteq S \cup {NULL}

Reachable(roots) ==
  {b \in Addr :
     \A S \in SUBSET Addr : roots \ {NULL} \subseteq S /\ Closed(S) => b \in S}

(* Mutant: the release of a node follows its next too.                     *)
SubtreeAndNext(a) == Reachable({a})

Subtree(a) == {a} \cup Reachable({heap[a].sub_path})

(* Mutant: the release of a node forgets its list of parameters.           *)
blocks_ofForgetful(a) ==
  {<<a, k>> : k \in {j \in Block \ {"get_param"} : heap[a][j] # NULL}}

blocks_of(a) == {<<a, k>> : k \in {j \in Block : heap[a][j] # NULL}}

free_url_config(a) ==
  /\ heap' = [b \in Addr |-> IF b \in Subtree(a) THEN NULL ELSE heap[b]]
  /\ blocks' = blocks \ UNION {blocks_of(b) : b \in Subtree(a)}

-----------------------------------------------------------------------------
(* One entry of the file. *)

(* check_pick_object_name returns a message or null. *)
check_pick_object_name(name) == name \notin ObjectNames

known_method(m) == UpperCase[m] \in http_methods
any_string(s) == TRUE

(* A member that is neither absent nor an array of good strings.           *)
array_error(member, Good(_)) ==
  /\ member.kind # "absent"
  /\ \/ member.kind # "array"
     \/ \E i \in DOMAIN member.elems :
          member.elems[i] = NULL \/ ~Good(member.elems[i])

(* Either path or pattern must be present, not both. *)
path_error(g) == (g.path = NULL) = (g.pattern = NULL)

(* The checks on the members of an entry, up to sub_path's elements. *)
entry_error(g) ==
  \/ path_error(g)
  \/ g.pattern # NULL /\ Compiled[g.pattern] = NULL
  \/ g.subr # NULL /\ check_pick_object_name(g.subr)
  \/ array_error(g.method, known_method)
  \/ array_error(g.get_param, any_string)
  \/ g.sub_path.kind \notin {"absent", "list"}

sub_elems(s) ==
  LET sub == file.setting[s].sub_path
  IN  IF sub.kind = "list" THEN sub.elems ELSE <<>>

(* The blocks an entry needs; an empty array needs none. *)
needed(g) ==
  {k \in Block :
     \/ k = "pattern_comp" /\ g.pattern # NULL /\ Compiled[g.pattern] # NULL
     \/ k = "method" /\ g.method.kind = "array" /\ g.method.elems # <<>>
     \/ k = "get_param" /\ g.get_param.kind = "array"
                        /\ g.get_param.elems # <<>>}

new_url_config(s, got) ==
  LET g == file.setting[s] IN
  [path |-> g.path, subr |-> g.subr,
   pattern_comp |-> IF "pattern_comp" \in got THEN g.pattern ELSE NULL,
   method |-> IF "method" \in got THEN g.method.elems ELSE NULL,
   get_param |-> IF "get_param" \in got THEN g.get_param.elems ELSE NULL,
   sub_path |-> NULL, next |-> NULL, entry |-> s]

(* Which free cell malloc returns makes no difference: the first one.      *)
malloc(a) ==
  heap[a] = NULL /\ \A b \in Addr : heap[b] = NULL => a <= b

(* read_url_config up to the elements of sub_path. An allocation that      *)
(* fails for a member, or while its object name is checked, is an error    *)
(* noted until the end. frames is frame, updated by the caller.            *)
enter_read_url_config(s, caller, frames) ==
  LET g == file.setting[s] IN
  \E a \in Addr :
    /\ malloc(a)
    /\ \E lost \in {{}} \cup {{k} : k \in needed(g)}
                   \cup (IF g.subr # NULL THEN {{"name check"}} ELSE {}) :
         /\ \/ lost = {} /\ UNCHANGED alloc_failures
            \/ lost # {} /\ AllocFails
         /\ heap' = [heap EXCEPT ![a] =
                       new_url_config(s, needed(g) \ lost)]
         /\ blocks' = blocks \cup {<<a, k>> : k \in needed(g) \ lost}
         /\ frame' = [frames EXCEPT ![a] =
                        [caller |-> caller, sub_path_index |-> 0,
                         prev_sub_path_config |-> NULL,
                         error_config |-> entry_error(g) \/ lost # {}]]
    /\ current' = a

(* Mutant: the loop over sub_path reads the same element again.            *)
next_indexStays(i) == i

next_index(i) == i + 1

(* The next element of sub_path: a group is read by a recursive call.      *)
ReadSubPath ==
  /\ current # NULL
  /\ LET f == frame[current]
         elems == sub_elems(heap[current].entry)
         s == elems[f.sub_path_index + 1]
         done == [frame EXCEPT ![current].sub_path_index = next_index(@)]
         faulty == [done EXCEPT ![current].error_config = TRUE]
     IN
     /\ f.sub_path_index < Len(elems)
     /\ \/ /\ ~file.setting[s].group
           /\ frame' = faulty
           /\ UNCHANGED <<current, heap, blocks, alloc_failures>>
        \/ /\ file.setting[s].group
           /\ \/ enter_read_url_config(s, current, done)
              \/ /\ AllocFails
                 /\ frame' = faulty
                 /\ UNCHANGED <<current, heap, blocks>>
  /\ UNCHANGED <<file, home, reading, urls_read, first_url_config>>

AtEnd ==
  /\ current # NULL
  /\ frame[current].sub_path_index = Len(sub_elems(heap[current].entry))

(* Mutant: the list loses its tail, a new element replaces its rest.       *)
link_sub_path_first(caller, a) ==
  heap' = [heap EXCEPT ![caller].sub_path = a]

(* Mutant: no else between the two assignments.                            *)
link_sub_path_twice(caller, a) ==
  LET prev == frame[caller].prev_sub_path_config IN
  heap' = [b \in Addr |->
             IF b = caller THEN [heap[b] EXCEPT !.sub_path = a]
             ELSE IF b = prev THEN [heap[b] EXCEPT !.next = a] ELSE heap[b]]

(* The new element goes to the end of the caller's list. *)
link_sub_path(caller, a) ==
  LET prev == frame[caller].prev_sub_path_config IN
  IF prev = NULL THEN heap' = [heap EXCEPT ![caller].sub_path = a]
  ELSE heap' = [heap EXCEPT ![prev].next = a]

(* read_url_config returns the node to the loop over sub_path.             *)
ReturnToSubPath ==
  LET a == current
      caller == frame[a].caller
  IN
  /\ AtEnd /\ ~frame[a].error_config /\ caller # NULL
  /\ link_sub_path(caller, a)
  /\ frame' = [frame EXCEPT ![a] = NULL, ![caller].prev_sub_path_config = a]
  /\ current' = caller
  /\ UNCHANGED <<file, home, reading, urls_read, blocks, first_url_config,
                 alloc_failures>>

(* read_url_config returns the node to phs_config_read: in front.          *)
ReturnToUrl ==
  LET a == current IN
  /\ AtEnd /\ ~frame[a].error_config /\ frame[a].caller = NULL
  /\ heap' = [heap EXCEPT ![a].next = first_url_config]
  /\ first_url_config' = a
  /\ frame' = [frame EXCEPT ![a] = NULL]
  /\ current' = NULL
  /\ UNCHANGED <<file, home, reading, urls_read, blocks, alloc_failures>>

(* Mutant: a node whose sub_path has a fault is freed, its caller goes on. *)
note_errorForgotten(caller) ==
  /\ reading' = IF caller = NULL THEN "refused" ELSE reading
  /\ frame' = [frame EXCEPT ![current] = NULL]

(* A null result: phs_config_read refuses, a caller notes the error.       *)
note_error(caller) ==
  IF caller = NULL
  THEN /\ reading' = "refused"
       /\ frame' = [frame EXCEPT ![current] = NULL]
  ELSE /\ frame' = [frame EXCEPT ![current] = NULL,
                                 ![caller].error_config = TRUE]
       /\ UNCHANGED reading

(* An entry with a fault: what was read of it is freed.                    *)
ReturnNull ==
  LET a == current
      caller == frame[a].caller
  IN
  /\ AtEnd /\ frame[a].error_config
  /\ free_url_config(a)
  /\ note_error(caller)
  /\ current' = caller
  /\ UNCHANGED <<file, home, urls_read, first_url_config, alloc_failures>>

-----------------------------------------------------------------------------
(* phs_config_read. *)

(* The file's place is known, libconfig reads it, and its settings up to   *)
(* the account's name are as they should be.                               *)
account_read ==
  /\ home /\ file.readable
  /\ file.port = "number"
  /\ file.env # "other"
  /\ file.account = "name"

(* Mutant: url may be anything, only its elements are read.                *)
settings_okAnyUrl == account_read /\ file.encoding # "unknown"

settings_ok ==
  account_read /\ file.encoding # "unknown" /\ file.url.kind = "list"

(* The account's name is copied and the encoding made without a handler    *)
(* for bad_alloc.                                                          *)
ReadSettings ==
  /\ reading = "settings"
  /\ \/ reading' = (IF settings_ok THEN "urls" ELSE "refused")
        /\ UNCHANGED alloc_failures
     \/ account_read /\ AllocFails /\ reading' = "thrown"
  /\ UNCHANGED <<file, home, urls_read, current, frame, tree>>

ReadUrl ==
  /\ reading = "urls" /\ current = NULL
  /\ urls_read < Len(file.url.elems)
  /\ urls_read' = urls_read + 1
  /\ \/ /\ enter_read_url_config(file.url.elems[urls_read + 1], NULL, frame)
        /\ UNCHANGED reading
     \/ /\ AllocFails
        /\ reading' = "refused"
        /\ UNCHANGED <<current, frame, heap, blocks>>
  /\ UNCHANGED <<file, home, first_url_config>>

ReadAll ==
  /\ reading = "urls" /\ current = NULL
  /\ urls_read = Len(file.url.elems)
  /\ reading' = "accepted"
  /\ UNCHANGED <<file, home, urls_read, current, frame, tree, alloc_failures>>

phs_config_read ==
  \/ ReadSettings \/ ReadUrl \/ ReadAll
  \/ ReadSubPath \/ ReturnToSubPath \/ ReturnToUrl \/ ReturnNull

(* One iteration of phs_config_free: next is read before the release.      *)
next_to_free == heap[first_url_config].next

free_first ==
  /\ first_url_config # NULL
  /\ first_url_config' = next_to_free
  /\ free_url_config(first_url_config)

ConfigInit ==
  /\ file \in Files
  /\ home \in BOOLEAN
  /\ reading = "settings" /\ urls_read = 0
  /\ current = NULL /\ frame = [a \in Addr |-> NULL]
  /\ heap = [a \in Addr |-> NULL] /\ blocks = {}
  /\ first_url_config = NULL
  /\ alloc_failures = 0

-----------------------------------------------------------------------------
(* Properties. *)

(* The values the reader's state takes.                                    *)
ConfigTypeOK ==
  /\ file \in Files /\ home \in BOOLEAN
  /\ reading \in {"settings", "urls", "accepted", "refused", "thrown"}
  /\ urls_read \in Nat
  /\ current \in Addr \cup {NULL}
  /\ frame \in [Addr -> Frame \cup {NULL}]
  /\ heap \in [Addr -> Node \cup {NULL}]
  /\ blocks \subseteq Addr \X Block
  /\ first_url_config \in Addr \cup {NULL}
  /\ alloc_failures \in 0..MaxAllocFailures

(* Whatever is freed on the way, no pointer the code may still follow      *)
(* (the list's head, next, sub_path, prev_sub_path_config of a call in     *)
(* progress, the node of a call in progress) leads to a freed node.        *)
PointersAlive ==
  /\ first_url_config # NULL => heap[first_url_config] # NULL
  /\ \A a \in Addr : heap[a] # NULL =>
       \A b \in {heap[a].next, heap[a].sub_path} \ {NULL} : heap[b] # NULL
  /\ \A a \in Addr : frame[a] # NULL =>
       /\ heap[a] # NULL
       /\ \A b \in {frame[a].caller, frame[a].prev_sub_path_config} \ {NULL} :
            heap[b] # NULL
  /\ current # NULL => frame[current] # NULL

(* Every node is held by exactly one place: free_url_config and            *)
(* phs_config_free release each one once.                                  *)
HeldOnce ==
  /\ \A a \in Addr : heap[a] # NULL =>
       /\ heap[a].next # NULL => heap[a].next # heap[a].sub_path
       /\ \A b \in Addr \ {a} : heap[b] # NULL =>
            {heap[a].next, heap[a].sub_path}
              \cap {heap[b].next, heap[b].sub_path} \subseteq {NULL}
       /\ first_url_config # NULL =>
            first_url_config \notin {heap[a].next, heap[a].sub_path}
  /\ \A a \in Addr : frame[a] # NULL =>
       /\ a # first_url_config
       /\ heap[a] # NULL /\ heap[a].next = NULL
       /\ \A b \in Addr : heap[b] # NULL =>
            a \notin {heap[b].next, heap[b].sub_path}

(* Nothing is lost: a node is linked from the list or belongs to a call in *)
(* progress, and a pattern or array belongs to a node, faults and failing  *)
(* allocations included.                                                   *)
NothingLost ==
  /\ \A a \in Addr : heap[a] # NULL =>
       a \in Reachable({first_url_config}
                         \cup {b \in Addr : frame[b] # NULL})
  /\ blocks = UNION {blocks_of(a) : a \in {b \in Addr : heap[b] # NULL}}

(* The list that starts at a holds the nodes of these settings, in order.  *)
IsList(a, settings) ==
  \E p \in [DOMAIN settings -> {b \in Addr : heap[b] # NULL}] :
    /\ a = IF settings = <<>> THEN NULL ELSE p[1]
    /\ \A i \in DOMAIN p :
         /\ heap[p[i]].entry = settings[i]
         /\ heap[p[i]].next = IF i = Len(settings) THEN NULL ELSE p[i + 1]

(* The tree is the file: top-level entries from the last to the first,     *)
(* sub-entries in order, with their patterns and arrays.                   *)
AsWritten ==
  /\ IsList(first_url_config, Reverse(file.url.elems))
  /\ \A a \in Reachable({first_url_config}) :
       LET g == file.setting[heap[a].entry] IN
       /\ IsList(heap[a].sub_path, sub_elems(heap[a].entry))
       /\ heap[a].path = g.path /\ heap[a].pattern_comp = g.pattern
       /\ heap[a].subr = g.subr
       /\ \A k \in {"method", "get_param"} :
            heap[a][k] = IF g[k].elems = <<>> THEN NULL ELSE g[k].elems

(* The settings of the tree of entries below url, at any depth. *)
InFile ==
  {s \in Setting :
     \A S \in SUBSET Setting :
       /\ ToSet(file.url.elems) \subseteq S
       /\ \A t \in S : ToSet(sub_elems(t)) \subseteq S
       => s \in S}

(* Accepted if and only if nothing is wrong: one faulty element, at any    *)
(* depth, is enough to refuse the file, and only a fault or a lack of      *)
(* memory refuses it.                                                      *)
Valid ==
  /\ settings_ok
  /\ \A s \in InFile :
       LET g == file.setting[s] IN
       /\ g.group
       /\ Cardinality({k \in {"path", "pattern"} : g[k] # NULL}) = 1
       /\ ~entry_error(g)

RefusedIfFaulty ==
  /\ reading = "accepted" => Valid /\ alloc_failures = 0
  /\ reading = "refused" => ~Valid \/ alloc_failures > 0
=============================================================================
