--------------------------- MODULE PickWalkProofs ---------------------------
(***************************************************************************)
(* The walk over nodes and pointers implements PickRouter: the tree is the *)
(* file's (PickReadProofs), so the siblings the thread tries are the       *)
(* entries PickRouter chooses from. What PickRouterProofs shows of every   *)
(* walk then holds of the server.                                          *)
(***************************************************************************)
EXTENDS PickReadProofs

(* The theorems about PickRouter, for the file and the request at hand.    *)
RouterProofs == INSTANCE PickRouterProofs WITH
  Node <- Setting, Configs <- {RouterConfig(f) : f \in Files},
  Urls <- {r.url : r \in Requests},
  config <- RouterConfig(file), url <- request.url,
  base_url_config <- siblings

-----------------------------------------------------------------------------
(* The inductive invariant. *)

(* What is left of the URL is made of its folders. *)
RestOK ==
  /\ request \in Requests /\ uri_index \in Seq(STRING)
  /\ ToSet(uri_index) \subseteq ToSet(request.url)
  /\ uri_index # <<>> => Head(uri_index) # ""
  /\ siblings \in Seq(Setting)

(* The thread waits for the request, with nothing done yet.                *)
Waiting ==
  status = "walking" /\ thread \in {"none", "idle"} =>
    /\ uri_index = Router!skip_slashes(request.url)
    /\ siblings = Reverse(file.url.elems)

(* The list to search is the siblings', *)
OnList == IsList(base_url_config, siblings)

(* and the search is at the n-th of their nodes p, past those before it.   *)
OnSibling(p, n) ==
  /\ p \in [DOMAIN siblings -> Live] /\ n \in 1..(Len(siblings) + 1)
  /\ \A i \in DOMAIN siblings :
       /\ heap[p[i]].entry = siblings[i]
       /\ heap[p[i]].next = IF i = Len(siblings) THEN NULL ELSE p[i + 1]
  /\ base_url_config = IF n = Len(siblings) + 1 THEN NULL ELSE p[n]
  /\ \A i \in 1..(n - 1) : ~matches(p[i], Head(uri_index))

Walking ==
  /\ thread \in {"while", "for"} =>
       status = "walking" /\ Router!skip_slashes(request.url) # <<>>
  /\ thread = "while" => OnList
  /\ thread = "for" =>
       siblings # <<>> /\ uri_index # <<>> /\ \E p, n : OnSibling(p, n)

(* A routine runs, or has run, only once the walk has accepted its method. *)
Admitted ==
  /\ thread = "routine" => status = "0" /\ request.method \in method_authorized
  /\ answer = 200 => status = "0" /\ request.method \in method_authorized

WalkInv == RestOK /\ Waiting /\ Walking /\ Admitted

-----------------------------------------------------------------------------
(* The file and the URL. *)

(* The instance satisfies PickRouter's assumption.                         *)
LEMMA ConfigsTyped ==
  /\ {RouterConfig(f) : f \in Files}
       \subseteq [url : Seq(Setting), node : [Setting -> RouterProofs!Entry]]
  /\ {r.url : r \in Requests} \subseteq Seq(STRING)
<1>1. ASSUME NEW f \in Files, NEW s \in Setting
      PROVE  RouterEntry(f.setting[s]) \in RouterProofs!Entry
  <2> DEFINE g == f.setting[s]
             e == RouterEntry(g)
             strings(member) == {member.elems[i] : i \in DOMAIN member.elems}
  <2>1. /\ g.subr \in STRING \cup {NULL} /\ g.sub_path.elems \in Seq(Setting)
        /\ g.method.elems \in Seq(OptString) /\ g.get_param.elems \in Seq(OptString)
    <3>1. g \in Group
      BY ConfigAssumption DEF File
    <3> QED BY <3>1 DEF Group, Member, OptString
  <2>2. /\ strings(g.method) \ {NULL} \subseteq STRING
        /\ strings(g.get_param) \ {NULL} \subseteq STRING
    BY <2>1 DEF OptString
  <2> DEFINE match == {n \in DOMAIN UpperCase :
                \/ g.path # NULL /\ UpperCase[n] = UpperCase[g.path]
                \/ g.pattern # NULL /\ Compiled[g.pattern] # NULL
                   /\ n \in Compiled[g.pattern]}
  <2>3. match \subseteq STRING
    BY NamesAssumption
  <2>4. e = [match |-> match, subr |-> g.subr,
             method |-> strings(g.method) \ {NULL},
             get_param |-> strings(g.get_param) \ {NULL},
             sub_path |-> g.sub_path.elems]
    BY DEF RouterEntry
  <2> HIDE DEF match, strings, e, g
  <2>5. e \in RouterProofs!Entry
    BY <2>1, <2>2, <2>3, <2>4 DEF RouterProofs!Entry
  <2> QED BY <2>5 DEF e, g
<1>2. ASSUME NEW f \in Files
      PROVE  RouterConfig(f) \in
               [url : Seq(Setting), node : [Setting -> RouterProofs!Entry]]
  <2>1. f.url.elems \in Seq(Setting)
    BY ConfigAssumption DEF File, Member
  <2> QED BY <1>1, <2>1 DEF RouterConfig
<1>3. {r.url : r \in Requests} \subseteq Seq(STRING)
  BY ServerAssumption
<1> QED BY <1>2, <1>3

(* PickRouterProofs' operators are PickRouter's. *)
LEMMA SameSkip ==
  \A u : RouterProofs!skip_slashes(u) = Router!skip_slashes(u)
BY DEF RouterProofs!skip_slashes, Router!skip_slashes, RouterProofs!Min,
       Router!Min

(* skip_slashes leaves folders of the URL, the first of them not empty.    *)
LEMMA Skipped ==
  ASSUME NEW u \in Seq(STRING)
  PROVE  /\ Router!skip_slashes(u) \in Seq(STRING)
         /\ ToSet(Router!skip_slashes(u)) \subseteq ToSet(u)
         /\ Router!skip_slashes(u) # <<>> => Head(Router!skip_slashes(u)) # ""
<1> DEFINE r == Router!skip_slashes(u)
<1>1. \E j \in 0..Len(u) :
        /\ RouterProofs!skip_slashes(u) \in Seq(STRING)
        /\ Len(RouterProofs!skip_slashes(u)) = Len(u) - j
        /\ \A i \in 1..Len(u) - j : RouterProofs!skip_slashes(u)[i] = u[i + j]
        /\ \A i \in 1..j : u[i] = ""
        /\ j < Len(u) => u[j + 1] # ""
  BY ConfigsTyped, RouterProofs!SkipSlashes
<1>2. r = RouterProofs!skip_slashes(u)
  BY SameSkip
<1> DEFINE Folder(x) == x # ""
<1> HIDE DEF r, Folder
<1>3. PICK j \in 0..Len(u) :
        /\ r \in Seq(STRING)
        /\ Len(r) = Len(u) - j
        /\ \A i \in 1..Len(u) - j : r[i] = u[i + j]
        /\ j < Len(u) => Folder(u[j + 1])
  BY <1>1, <1>2 DEF Folder
<1>4. ToSet(r) \subseteq ToSet(u)
  <2>1. \A i \in 1..Len(r) : i + j \in 1..Len(u) /\ r[i] = u[i + j]
    BY <1>3
  <2>2. DOMAIN r = 1..Len(r) /\ DOMAIN u = 1..Len(u)
    BY <1>3
  <2> QED BY <2>1, <2>2 DEF ToSet
<1>5. ASSUME r # <<>> PROVE Folder(Head(r))
  <2>1. Len(r) # 0
    BY <1>3, <1>5
  <2>2. j < Len(u) /\ Head(r) = r[1] /\ r[1] = u[1 + j] /\ 1 + j = j + 1
    BY <1>3, <1>5, <2>1
  <2> QED BY <1>3, <2>2
<1>6. r \in Seq(STRING)
  BY <1>3
<1> QED BY <1>4, <1>5, <1>6 DEF r, Folder

(* A node is the router's entry for the setting it was read from. *)
LEMMA EntryOf ==
  ASSUME MemInv, TreeIsFile, NEW a \in Live
  PROVE  LET e == RouterConfig(file).node[heap[a].entry] IN
         /\ \A name \in DOMAIN UpperCase : matches(a, name) <=> name \in e.match
         /\ heap[a].subr = e.subr
         /\ strings_of(heap[a].method) = e.method
         /\ strings_of(heap[a].get_param) = e.get_param
         /\ sub_elems(heap[a].entry) = e.sub_path
<1> DEFINE s == heap[a].entry
           g == file.setting[s]
           e == RouterConfig(file).node[s]
           strings(member) == {member.elems[i] : i \in DOMAIN member.elems}
           match == {n \in DOMAIN UpperCase :
                       \/ g.path # NULL /\ UpperCase[n] = UpperCase[g.path]
                       \/ g.pattern # NULL /\ Compiled[g.pattern] # NULL
                          /\ n \in Compiled[g.pattern]}
<1>1. HeapType /\ file \in Files /\ s \in Setting /\ g \in Group
  <2>1. HeapType /\ file \in Files
    BY TypedHeap DEF MemInv, ConfigTypeOK
  <2>2. s \in Setting
    BY <2>1, NodeFields DEF Node
  <2> QED BY <2>1, <2>2, FileParts
<1>2. Copied(file, heap[a])
  BY DEF TreeIsFile
<1>3. /\ e.match = match
      /\ e.subr = g.subr /\ e.sub_path = g.sub_path.elems
      /\ e.method = strings(g.method) \ {NULL}
      /\ e.get_param = strings(g.get_param) \ {NULL}
  <2>1. e = RouterEntry(g)
    BY <1>1 DEF RouterConfig
  <2>2. e = [match |-> match, subr |-> g.subr,
             method |-> strings(g.method) \ {NULL},
             get_param |-> strings(g.get_param) \ {NULL},
             sub_path |-> g.sub_path.elems]
    BY <2>1 DEF RouterEntry
  <2> HIDE DEF match, strings, e, g
  <2> QED BY <2>2
<1>4. /\ heap[a].path = g.path /\ heap[a].pattern_comp = g.pattern
      /\ heap[a].subr = g.subr /\ ~entry_error(g)
      /\ \A k \in {"method", "get_param"} :
           heap[a][k] = IF g[k].elems = <<>> THEN NULL ELSE g[k].elems
  BY <1>2 DEF Copied
<1>5. /\ g.method.kind = "absent" => g.method.elems = <<>>
      /\ g.get_param.kind = "absent" => g.get_param.elems = <<>>
      /\ g.sub_path.kind = "absent" => g.sub_path.elems = <<>>
  <2>1. \A k \in {"method", "get_param", "sub_path"} :
          g[k].kind = "absent" => g[k].elems = <<>>
    BY <1>1, FileAssumption
  <2> QED BY <2>1
<1>6. sub_elems(s) = e.sub_path
  <2>1. g.sub_path.kind \in {"absent", "list"}
    BY <1>4 DEF entry_error
  <2> QED BY <1>3, <1>5, <2>1 DEF sub_elems
<1>7. ASSUME NEW name \in DOMAIN UpperCase
      PROVE  matches(a, name) <=> name \in e.match
  <2>1. g.pattern # NULL => Compiled[g.pattern] # NULL
    BY <1>4 DEF entry_error
  <2> QED BY <1>3, <1>4, <2>1 DEF matches, check_folder_pattern
<1>8. ASSUME NEW array, NEW member,
             array = IF member.elems = <<>> THEN NULL ELSE member.elems,
             member.elems \in Seq(OptString),
             \A i \in DOMAIN member.elems : member.elems[i] # NULL
      PROVE  strings_of(array) = strings(member) \ {NULL}
  <2>1. member.elems # <<>> => member.elems # NULL
    BY <1>8, ConfigNullAssumption
  <2>2. CASE member.elems = <<>>
    BY <1>8, <2>2 DEF strings_of
  <2>3. CASE member.elems # <<>>
    BY <1>8, <2>1, <2>3 DEF strings_of
  <2> QED BY <2>2, <2>3
<1>9. /\ \A i \in DOMAIN g.method.elems : g.method.elems[i] # NULL
      /\ \A i \in DOMAIN g.get_param.elems : g.get_param.elems[i] # NULL
  <2>1. ~array_error(g.method, known_method) /\ ~array_error(g.get_param, any_string)
    BY <1>4 DEF entry_error
  <2>2. \A i \in DOMAIN <<>> : FALSE
    OBVIOUS
  <2> QED BY <1>5, <2>1, <2>2 DEF array_error
<1>10. g.method.elems \in Seq(OptString) /\ g.get_param.elems \in Seq(OptString)
  BY <1>1 DEF Group, Member
<1>11. /\ heap[a].method = IF g.method.elems = <<>> THEN NULL ELSE g.method.elems
       /\ heap[a].get_param =
            IF g.get_param.elems = <<>> THEN NULL ELSE g.get_param.elems
  BY <1>4
<1>12. /\ strings_of(heap[a].method) = e.method
       /\ strings_of(heap[a].get_param) = e.get_param
  <2> HIDE DEF strings, e, g
  <2>1. strings_of(heap[a].method) = strings(g.method) \ {NULL}
    BY <1>8, <1>9, <1>10, <1>11
  <2>2. strings_of(heap[a].get_param) = strings(g.get_param) \ {NULL}
    BY <1>8, <1>9, <1>10, <1>11
  <2> QED BY <1>3, <2>1, <2>2
<1> QED BY <1>3, <1>4, <1>6, <1>7, <1>12

(* A folder's name is one that UpperCase is defined for.                   *)
LEMMA NameKnown ==
  ASSUME RestOK, uri_index # <<>>
  PROVE  /\ Head(uri_index) \in DOMAIN UpperCase
         /\ Tail(uri_index) \in Seq(STRING)
         /\ ToSet(Tail(uri_index)) \subseteq ToSet(uri_index)
<1>1. uri_index \in Seq(STRING) /\ Len(uri_index) # 0
  <2>1. uri_index \in Seq(STRING)
    BY DEF RestOK
  <2> QED BY <2>1
<1>2. /\ Head(uri_index) = uri_index[1] /\ 1 \in DOMAIN uri_index
      /\ Tail(uri_index) \in Seq(STRING)
      /\ DOMAIN Tail(uri_index) = 1..(Len(uri_index) - 1)
      /\ DOMAIN uri_index = 1..Len(uri_index)
      /\ \A i \in 1..(Len(uri_index) - 1) :
           Tail(uri_index)[i] = uri_index[i + 1] /\ i + 1 \in DOMAIN uri_index
  BY <1>1
<1>3. Head(uri_index) \in ToSet(uri_index)
  BY <1>2 DEF ToSet
<1>4. Head(uri_index) \in DOMAIN UpperCase
  BY <1>3, NamesAssumption DEF RestOK
<1>5. ToSet(Tail(uri_index)) \subseteq ToSet(uri_index)
  BY <1>2 DEF ToSet
<1> QED BY <1>2, <1>4, <1>5

-----------------------------------------------------------------------------
(* Steps. *)

(* A step that the walk over the file's entries does not see. *)
LEMMA RouterStutters ==
  ASSUME UNCHANGED <<file, request, uri_index, siblings, subr,
                     method_authorized, param_authorized, status>>
  PROVE  UNCHANGED Router!vars
BY DEF Router!vars

(* An error is logged and answered, or the process is gone. *)
LEMMA FatalReturns ==
  ASSUME NEW value, NEW code, log_fatal(Return(value, code))
  PROVE  \/ UNCHANGED polling
         \/ /\ status' = value /\ answer' = code /\ thread' = "idle"
            /\ UNCHANGED <<uri_index, base_url_config, subr, method_authorized,
                           param_authorized, siblings>>
BY DEF log_fatal, Return

(* A return from the function.                                             *)
LEMMA ReturnWalk ==
  ASSUME WalkInv, UNCHANGED <<file, request, uri_index, siblings>>,
         thread' = "idle", status' # "walking", answer' # 200
  PROVE  WalkInv'
<1>1. RestOK' /\ Waiting' /\ Walking'
  BY DEF WalkInv, RestOK, Waiting, Walking
<1>2. Admitted'
  BY DEF Admitted
<1> QED BY <1>1, <1>2 DEF WalkInv

(* Steps of main, which do not touch the walk.                             *)
LEMMA SameWalk ==
  ASSUME WalkInv, UNCHANGED <<file, request, polling>>,
         thread \in {"while", "for"} => UNCHANGED heap
  PROVE  WalkInv'
<1>1. UNCHANGED <<thread, uri_index, base_url_config, method_authorized,
                  status, siblings, answer>>
  BY DEF polling, walk
<1>2. RestOK' /\ Waiting'
  BY <1>1 DEF WalkInv, RestOK, Waiting
<1>3. Admitted'
  BY <1>1 DEF WalkInv, Admitted
<1>4. Walking'
  <2>1. CASE thread \in {"while", "for"}
    <3>1. OnList' <=> OnList
      BY <1>1, <2>1 DEF OnList, IsList
    <3>2. \A p, n : OnSibling(p, n)' <=> OnSibling(p, n)
      BY <1>1, <2>1 DEF OnSibling, Live, matches
    <3> QED BY <1>1, <3>1, <3>2 DEF WalkInv, Walking
  <2>2. CASE thread \notin {"while", "for"}
    BY <1>1, <2>2 DEF Walking
  <2> QED BY <2>1, <2>2
<1> QED BY <1>2, <1>3, <1>4 DEF WalkInv

(* The process is terminated.                                              *)
LEMMA StopsWalk ==
  ASSUME WalkInv, UNCHANGED <<file, heap, request, polling>>
  PROVE  WalkInv' /\ [Router!Next]_(Router!vars)
<1>1. WalkInv'
  BY SameWalk
<1>2. UNCHANGED Router!vars
  BY RouterStutters DEF polling, walk
<1> QED BY <1>1, <1>2

(* A return with an error, logged or not.                                  *)
LEMMA LoggedWalk ==
  ASSUME WalkInv, UNCHANGED <<file, heap, request>>,
         NEW value \in {"404", "500"}, NEW code \in {404, 500},
         log_fatal(Return(value, code)), Router!Return(value) => Router!Next
  PROVE  WalkInv' /\ [Router!Next]_(Router!vars)
<1>1. CASE UNCHANGED polling
  BY <1>1, StopsWalk
<1>2. CASE /\ status' = value /\ answer' = code /\ thread' = "idle"
           /\ UNCHANGED <<uri_index, base_url_config, subr, method_authorized,
                          param_authorized, siblings>>
  <2>1. answer' # 200
    BY <1>2
  <2>2. WalkInv'
    BY <1>2, <2>1, ReturnWalk
  <2>3. Router!Return(value)
    BY <1>2 DEF Router!Return
  <2> QED BY <2>2, <2>3
<1> QED BY <1>1, <1>2, FatalReturns

(* An allocation fails, and the process is terminated.                     *)
LEMMA BadAllocWalk ==
  ASSUME WalkInv, bad_alloc, UNCHANGED <<file, heap, request>>
  PROVE  WalkInv' /\ [Router!Next]_(Router!vars)
BY StopsWalk DEF bad_alloc

(* PHSLogging::fatal, whatever becomes of it.                              *)
LEMMA FatalWalk ==
  ASSUME WalkInv, UNCHANGED <<file, heap, request>>,
         NEW value \in {"404", "500"}, NEW code \in {404, 500},
         fatal(Return(value, code)), Router!Return(value) => Router!Next
  PROVE  WalkInv' /\ [Router!Next]_(Router!vars)
BY LoggedWalk, BadAllocWalk DEF fatal

(* The function is entered.                                                *)
LEMMA HandleRequestWalk ==
  ASSUME TreeIsFile, WalkInv, HandleRequest, UNCHANGED <<file, heap, request>>
  PROVE  WalkInv' /\ [Router!Next]_(Router!vars)
<1>1. /\ thread = "idle" /\ status = "walking"
      /\ uri_index = Router!skip_slashes(request.url)
      /\ siblings = Reverse(file.url.elems)
  BY DEF HandleRequest, WalkInv, Waiting
<1>2. CASE uri_index = <<>> /\ fatal(Return("404", 404))
  <2>1. Router!Return("404") => Router!Next
    BY <1>1, <1>2 DEF Router!Next, Router!RootPath
  <2> QED BY <1>2, <2>1, FatalWalk
<1>3. CASE /\ uri_index # <<>>
           /\ base_url_config' = first_url_config /\ thread' = "while"
           /\ UNCHANGED <<uri_index, subr, method_authorized,
                          param_authorized, status, siblings, answer>>
  <2>1. /\ base_url_config' = first_url_config /\ thread' = "while"
        /\ UNCHANGED <<uri_index, subr, method_authorized, param_authorized,
                       status, siblings, answer>>
    BY <1>3
  <2>2. OnList'
    BY <1>1, <2>1 DEF OnList, IsList, TreeIsFile
  <2>3. RestOK' /\ Waiting' /\ Walking'
    BY <1>1, <1>3, <2>1, <2>2 DEF WalkInv, RestOK, Waiting, Walking
  <2>4. Admitted'
    BY <2>1 DEF WalkInv, Admitted
  <2>5. UNCHANGED Router!vars
    BY <2>1, RouterStutters
  <2> QED BY <2>3, <2>4, <2>5 DEF WalkInv
<1> QED BY <1>2, <1>3, BadAllocWalk DEF HandleRequest

(* The thread is at the list that the entries' walk is at. *)
LEMMA SameLoop ==
  ASSUME OnList, siblings \in Seq(Setting)
  PROVE  InLoop <=> Router!InLoop
<1>1. PICK p \in [DOMAIN siblings -> Live] :
        base_url_config = IF siblings = <<>> THEN NULL ELSE p[1]
  BY DEF OnList, IsList, Live
<1>2. siblings # <<>> => p[1] # NULL
  <2>1. siblings # <<>> => 1 \in DOMAIN siblings
    OBVIOUS
  <2> QED BY <2>1, ConfigAssumption DEF Live
<1> QED BY <1>1, <1>2 DEF InLoop, Router!InLoop

(* The loop over folders takes a name, or ends.                            *)
LEMMA NextFolderWalk ==
  ASSUME WalkInv, NextFolder, UNCHANGED <<file, heap, request>>
  PROVE  WalkInv' /\ [Router!Next]_(Router!vars)
<1>1. /\ thread = "while" /\ status = "walking" /\ OnList /\ InLoop
      /\ Router!skip_slashes(request.url) # <<>>
      /\ siblings \in Seq(Setting)
  BY DEF NextFolder, WalkInv, Walking, RestOK
<1>2. Router!InLoop /\ siblings # <<>> /\ uri_index # <<>>
  BY <1>1, SameLoop DEF Router!InLoop
<1>3. CASE log_fatal(Return("500", 500))
  <2>1. Router!Return("500") => Router!Next
    BY <1>1, <1>2 DEF Router!Next, Router!MemoryFull
  <2> QED BY <1>3, <2>1, LoggedWalk
<1>4. CASE thread' = "for" /\ UNCHANGED <<walk, answer, logged, crash>>
  <2>1. UNCHANGED <<uri_index, base_url_config, subr, method_authorized,
                    param_authorized, status, siblings, answer>>
    BY <1>4 DEF walk
  <2>2. PICK p \in [DOMAIN siblings -> Live] :
          /\ base_url_config = IF siblings = <<>> THEN NULL ELSE p[1]
          /\ \A i \in DOMAIN p :
               /\ heap[p[i]].entry = siblings[i]
               /\ heap[p[i]].next = IF i = Len(siblings) THEN NULL ELSE p[i + 1]
    BY <1>1 DEF OnList, IsList, Live
  <2>3. OnSibling(p, 1)
    <3>1. 1 \in 1..(Len(siblings) + 1) /\ 1 # Len(siblings) + 1
          /\ 1..(1 - 1) = {}
      BY <1>1, <1>2
    <3> QED BY <1>2, <2>2, <3>1 DEF OnSibling
  <2>4. OnSibling(p, 1)'
    BY <2>1, <2>3 DEF OnSibling, Live, matches
  <2>5. RestOK' /\ Waiting' /\ Walking'
    BY <1>1, <1>2, <1>4, <2>1, <2>4 DEF WalkInv, RestOK, Waiting, Walking
  <2>6. Admitted'
    BY <1>4, <2>1 DEF WalkInv, Admitted
  <2>7. UNCHANGED Router!vars
    BY <2>1, RouterStutters
  <2> QED BY <2>5, <2>6, <2>7 DEF WalkInv
<1> QED BY <1>3, <1>4, BadAllocWalk DEF NextFolder

(* The siblings whose nodes match the folder. *)
LEMMA HitsAre ==
  ASSUME MemInv, TreeIsFile, RestOK, uri_index # <<>>,
         NEW p, NEW n, OnSibling(p, n)
  PROVE  \A i \in DOMAIN siblings :
           i \in Router!Matching(Head(uri_index)) <=> matches(p[i], Head(uri_index))
<1> SUFFICES ASSUME NEW i \in DOMAIN siblings
             PROVE  i \in Router!Matching(Head(uri_index))
                      <=> matches(p[i], Head(uri_index))
  OBVIOUS
<1>1. p[i] \in Live /\ heap[p[i]].entry = siblings[i]
  BY DEF OnSibling
<1>2. Head(uri_index) \in DOMAIN UpperCase
  BY NameKnown
<1>3. matches(p[i], Head(uri_index))
        <=> Head(uri_index) \in RouterConfig(file).node[siblings[i]].match
  BY <1>1, <1>2, EntryOf
<1> QED BY <1>3 DEF Router!Matching

(* The least number is Min.                                                *)
LEMMA MinIs ==
  ASSUME NEW S \in SUBSET Nat, NEW n \in S, \A y \in S : n <= y
  PROVE  Router!Min(S) = n
<1>1. \A x \in S : (\A y \in S : x <= y) => x = n
  OBVIOUS
<1> QED BY <1>1 DEF Router!Min

(* The search is at a node, or past the last. *)
LEMMA SearchAt ==
  ASSUME NEW p, NEW n, OnSibling(p, n)
  PROVE  base_url_config = NULL <=> n = Len(siblings) + 1
<1>1. n # Len(siblings) + 1 => n \in DOMAIN siblings
  <2>1. n \in 1..(Len(siblings) + 1) /\ p \in [DOMAIN siblings -> Live]
    BY DEF OnSibling
  <2> QED BY <2>1
<1>2. \A i \in DOMAIN siblings : p[i] # NULL
  BY ConfigAssumption DEF OnSibling, Live
<1> QED BY <1>1, <1>2 DEF OnSibling

(* No sibling is left: none matches.                                       *)
LEMMA NoSiblingWalk ==
  ASSUME MemInv, TreeIsFile, WalkInv, thread = "for", base_url_config = NULL,
         fatal(Return("404", 404)), UNCHANGED <<file, heap, request>>
  PROVE  WalkInv' /\ [Router!Next]_(Router!vars)
<1>1. /\ RestOK /\ status = "walking" /\ siblings # <<>> /\ uri_index # <<>>
      /\ Router!skip_slashes(request.url) # <<>>
  BY DEF WalkInv, Walking
<1>2. PICK p, n : OnSibling(p, n)
  BY DEF WalkInv, Walking
<1>3. \A i \in DOMAIN siblings : ~matches(p[i], Head(uri_index))
  <2>1. n = Len(siblings) + 1
    BY <1>2, SearchAt
  <2>2. siblings \in Seq(Setting)
    BY <1>1 DEF RestOK
  <2>3. \A i \in DOMAIN siblings : i \in 1..(n - 1)
    BY <2>1, <2>2
  <2> QED BY <1>2, <2>3 DEF OnSibling
<1>4. Router!Matching(Head(uri_index)) = {}
  <2>1. \A i \in DOMAIN siblings : i \notin Router!Matching(Head(uri_index))
    BY <1>1, <1>2, <1>3, HitsAre
  <2> QED BY <2>1 DEF Router!Matching
<1>5. Router!Return("404") => Router!Next
  BY <1>1, <1>4 DEF Router!Next, Router!NoFolder, Router!InLoop
<1> QED BY <1>5, FatalWalk

(* A sibling that does not match: the next one is tried.                   *)
LEMMA NextSiblingWalk ==
  ASSUME WalkInv, thread = "for", base_url_config # NULL,
         ~matches(base_url_config, Head(uri_index)),
         base_url_config' = next_sibling(base_url_config),
         UNCHANGED <<thread, uri_index, subr, method_authorized,
                     param_authorized, status, siblings, answer>>,
         UNCHANGED <<file, heap, request>>
  PROVE  WalkInv' /\ [Router!Next]_(Router!vars)
<1>1. RestOK /\ siblings \in Seq(Setting)
  BY DEF WalkInv, RestOK
<1>2. PICK p, n : OnSibling(p, n)
  BY DEF WalkInv, Walking
<1>3. /\ n \in 1..Len(siblings) /\ n \in DOMAIN siblings
      /\ base_url_config = p[n]
  <2>1. n # Len(siblings) + 1 /\ n \in 1..(Len(siblings) + 1)
    BY <1>2, SearchAt DEF OnSibling
  <2> QED BY <1>1, <1>2, <2>1 DEF OnSibling
<1>4. /\ n + 1 \in 1..(Len(siblings) + 1)
      /\ n + 1 = Len(siblings) + 1 <=> n = Len(siblings)
      /\ \A i \in 1..(n + 1 - 1) : i \in 1..(n - 1) \/ i = n
  BY <1>1, <1>3
<1>5. base_url_config' = IF n = Len(siblings) THEN NULL ELSE p[n + 1]
  BY <1>2, <1>3 DEF OnSibling, next_sibling
<1>6. \A i \in 1..(n + 1 - 1) : ~matches(p[i], Head(uri_index))
  BY <1>2, <1>3, <1>4 DEF OnSibling
<1>7. OnSibling(p, n + 1)'
  <2>1. \A i \in 1..(n + 1 - 1) : (~matches(p[i], Head(uri_index)))'
    BY <1>6 DEF matches
  <2> QED BY <1>2, <1>4, <1>5, <2>1 DEF OnSibling, Live
<1>8. RestOK' /\ Waiting' /\ Walking'
  BY <1>1, <1>7 DEF WalkInv, RestOK, Waiting, Walking
<1>9. Admitted'
  BY DEF WalkInv, Admitted
<1> QED BY <1>8, <1>9, RouterStutters DEF WalkInv

(* The sibling that matches is the first one that does.                    *)
LEMMA SiblingMatchesWalk ==
  ASSUME MemInv, TreeIsFile, WalkInv, thread = "for", base_url_config # NULL,
         matches(base_url_config, Head(uri_index)),
         uri_index' = Router!folders_after(uri_index),
         base_url_config' = heap[base_url_config].sub_path,
         siblings' = sub_elems(heap[base_url_config].entry),
         subr' = IF heap[base_url_config].subr # NULL
                 THEN heap[base_url_config].subr ELSE subr,
         method_authorized' =
           method_authorized \cup strings_of(heap[base_url_config].method),
         param_authorized' =
           param_authorized \cup strings_of(heap[base_url_config].get_param),
         thread' = "while", UNCHANGED <<status, answer>>,
         UNCHANGED <<file, heap, request>>
  PROVE  WalkInv' /\ [Router!Next]_(Router!vars)
<1>1. /\ RestOK /\ siblings \in Seq(Setting)
      /\ status = "walking" /\ siblings # <<>> /\ uri_index # <<>>
      /\ Router!skip_slashes(request.url) # <<>>
  BY DEF WalkInv, Walking, RestOK
<1>2. PICK p, n : OnSibling(p, n)
  BY DEF WalkInv, Walking
<1> DEFINE a == base_url_config
           hits == Router!Matching(Head(uri_index))
           e == RouterConfig(file).node[siblings[n]]
<1>3. /\ n \in 1..Len(siblings) /\ n \in DOMAIN siblings
      /\ a = p[n] /\ a \in Live /\ heap[a].entry = siblings[n]
  <2>1. n # Len(siblings) + 1 /\ n \in 1..(Len(siblings) + 1)
    BY <1>2, SearchAt DEF OnSibling
  <2>2. n \in 1..Len(siblings) /\ n \in DOMAIN siblings
    BY <1>1, <2>1
  <2> QED BY <1>2, <2>1, <2>2 DEF OnSibling
<1>4. n \in hits /\ hits \in SUBSET Nat /\ \A i \in hits : n <= i
  <2>1. n \in hits
    BY <1>1, <1>2, <1>3, HitsAre
  <2>2. hits \subseteq DOMAIN siblings
    BY DEF Router!Matching
  <2>3. DOMAIN siblings = 1..Len(siblings)
    BY <1>1
  <2>4. \A i \in 1..(n - 1) : i \in DOMAIN siblings => i \notin hits
    BY <1>1, <1>2, HitsAre DEF OnSibling
  <2> HIDE DEF hits
  <2> QED BY <1>3, <2>1, <2>2, <2>3, <2>4
<1>5. Router!Min(hits) = n
  <2> HIDE DEF hits
  <2> QED BY <1>4, MinIs
<1>6. /\ heap[a].subr = e.subr
      /\ strings_of(heap[a].method) = e.method
      /\ strings_of(heap[a].get_param) = e.get_param
      /\ sub_elems(heap[a].entry) = e.sub_path
  BY <1>3, EntryOf
<1>7. Router!MatchFolder
  <2>1. RouterConfig(file).node[siblings[Router!Min(hits)]] = e
    BY <1>5
  <2>2. hits # {} /\ Router!InLoop
    BY <1>1, <1>4 DEF Router!InLoop
  <2>3. /\ siblings' = e.sub_path
        /\ subr' = IF e.subr # NULL THEN e.subr ELSE subr
        /\ method_authorized' = method_authorized \cup e.method
        /\ param_authorized' = param_authorized \cup e.get_param
    BY <1>6
  <2>4. UNCHANGED <<RouterConfig(file), request.url, status>>
    BY DEF RouterConfig
  <2> HIDE DEF e
  <2> QED BY <2>1, <2>2, <2>3, <2>4 DEF Router!MatchFolder, Router!routine
<1>8. Router!Next
  BY <1>1, <1>7 DEF Router!Next
<1>9. RestOK'
  <2>1. Router!folders_after(uri_index) = Router!skip_slashes(Tail(uri_index))
    BY DEF Router!folders_after
  <2>2. Tail(uri_index) \in Seq(STRING) /\ ToSet(Tail(uri_index)) \subseteq ToSet(uri_index)
    BY <1>1, NameKnown
  <2>3. /\ uri_index' \in Seq(STRING)
        /\ ToSet(uri_index') \subseteq ToSet(uri_index)
        /\ uri_index' # <<>> => Head(uri_index') # ""
    BY <2>1, <2>2, Skipped
  <2>4. siblings' \in Seq(Setting)
    <3>1. HeapType /\ file \in Files /\ a \in Live
      BY <1>3, TypedHeap DEF MemInv, ConfigTypeOK
    <3>2. heap[a].entry \in Setting
      BY <1>1, <1>3
    <3> QED BY <3>1, <3>2, FileParts
  <2> QED BY <1>1, <2>3, <2>4 DEF RestOK
<1>10. OnList'
  <2>1. IsList(heap[a].sub_path, sub_elems(heap[a].entry))
    BY <1>3 DEF TreeIsFile
  <2> HIDE DEF a
  <2>2. base_url_config' = heap[a].sub_path /\ siblings' = sub_elems(heap[a].entry)
    BY DEF a
  <2> QED BY <2>1, <2>2 DEF OnList, IsList
<1>11. Waiting' /\ Walking'
  BY <1>1, <1>10 DEF Waiting, Walking
<1>12. Admitted'
  BY <1>1 DEF WalkInv, Admitted
<1> QED BY <1>8, <1>9, <1>11, <1>12 DEF WalkInv

(* One sibling, in each of these cases.                                    *)
LEMMA TrySiblingWalk ==
  ASSUME MemInv, TreeIsFile, WalkInv, TrySibling,
         UNCHANGED <<file, heap, request>>
  PROVE  WalkInv' /\ [Router!Next]_(Router!vars)
<1>1. thread = "for"
  BY DEF TrySibling
<1>2. CASE base_url_config = NULL /\ fatal(Return("404", 404))
  BY <1>1, <1>2, NoSiblingWalk
<1>3. CASE /\ base_url_config # NULL
           /\ ~matches(base_url_config, Head(uri_index))
           /\ base_url_config' = next_sibling(base_url_config)
           /\ UNCHANGED <<thread, uri_index, subr, method_authorized,
                          param_authorized, status, siblings, answer>>
  BY <1>1, <1>3, NextSiblingWalk
<1>4. CASE /\ base_url_config # NULL
           /\ matches(base_url_config, Head(uri_index))
           /\ uri_index' = Router!folders_after(uri_index)
           /\ base_url_config' = heap[base_url_config].sub_path
           /\ siblings' = sub_elems(heap[base_url_config].entry)
           /\ subr' = IF heap[base_url_config].subr # NULL
                      THEN heap[base_url_config].subr ELSE subr
           /\ method_authorized' =
                method_authorized \cup strings_of(heap[base_url_config].method)
           /\ param_authorized' =
                param_authorized \cup strings_of(heap[base_url_config].get_param)
           /\ thread' = "while" /\ UNCHANGED <<status, answer>>
  BY <1>1, <1>4, SiblingMatchesWalk
<1> QED BY <1>2, <1>3, <1>4, BadAllocWalk DEF TrySibling

(* The URL is at its end: the method is tested.                            *)
LEMMA RoutedWalk ==
  ASSUME WalkInv, Routed, UNCHANGED <<file, heap, request>>
  PROVE  WalkInv' /\ [Router!Next]_(Router!vars)
<1>1. /\ RestOK /\ siblings \in Seq(Setting) /\ OnList
      /\ thread = "while" /\ status = "walking" /\ ~InLoop
      /\ Router!skip_slashes(request.url) # <<>>
  BY DEF Routed, WalkInv, Walking, RestOK
<1>2. ~Router!InLoop
  BY <1>1, SameLoop
<1>3. CASE (uri_index # <<>> \/ subr = NULL) /\ fatal(Return("404", 404))
  <2>1. Router!Return("404") => Router!Next
    BY <1>1, <1>2, <1>3 DEF Router!Next, Router!Finish
  <2> QED BY <1>3, <2>1, FatalWalk
<1>4. CASE uri_index = <<>> /\ subr # NULL /\ Return("0", 405)
  <2>1. /\ status' = "0" /\ answer' = 405 /\ thread' = "idle"
        /\ UNCHANGED <<uri_index, subr, method_authorized, param_authorized,
                       siblings>>
    BY <1>4 DEF Return
  <2>2. answer' # 200
    BY <2>1
  <2>3. Router!Return("0")
    BY <2>1 DEF Router!Return
  <2>4. Router!Next
    BY <1>1, <1>2, <1>4, <2>3 DEF Router!Next, Router!Finish
  <2> QED BY <2>1, <2>2, <2>4, ReturnWalk
<1>5. CASE /\ uri_index = <<>> /\ subr # NULL
           /\ method_accepted(request.method)
           /\ status' = "0" /\ thread' = "routine"
           /\ UNCHANGED <<uri_index, subr, method_authorized,
                          param_authorized, siblings, answer>>
  <2>1. Router!Return("0")
    BY <1>5 DEF Router!Return
  <2>2. Router!Next
    BY <1>1, <1>2, <1>5, <2>1 DEF Router!Next, Router!Finish
  <2>3. RestOK' /\ Waiting' /\ Walking'
    BY <1>1, <1>5 DEF RestOK, Waiting, Walking
  <2>4. Admitted'
    BY <1>5 DEF WalkInv, Admitted, method_accepted
  <2> QED BY <2>2, <2>3, <2>4 DEF WalkInv
<1> QED BY <1>1, <1>3, <1>4, <1>5 DEF Routed

(* The routine returns, or the thread ends.                                *)
LEMMA LastTurnsWalk ==
  ASSUME WalkInv, RoutineReturns \/ ThreadEnds,
         UNCHANGED <<file, heap, request>>
  PROVE  WalkInv' /\ [Router!Next]_(Router!vars)
<1>1. UNCHANGED <<uri_index, base_url_config, subr, method_authorized,
                  param_authorized, status, siblings>>
  BY DEF RoutineReturns, ThreadEnds, walk
<1>2. /\ thread = "routine" => status = "0"
      /\ \/ thread = "routine" /\ thread' = "idle"
         \/ thread' = "stopped" /\ answer' = answer
  BY DEF RoutineReturns, ThreadEnds, WalkInv, Admitted
<1>3. RestOK' /\ Waiting' /\ Walking'
  BY <1>1, <1>2 DEF WalkInv, RestOK, Waiting, Walking
<1>4. Admitted'
  BY <1>1, <1>2 DEF WalkInv, Admitted
<1> QED BY <1>1, <1>3, <1>4, RouterStutters DEF WalkInv

(* Each step of the polling thread.                                        *)
LEMMA PollingThreadWalk ==
  ASSUME IInv, CrashInv, ListInv, WalkInv, PollingThread, UNCHANGED request
  PROVE  WalkInv' /\ [Router!Next]_(Router!vars)
<1>1. UNCHANGED <<file, heap, request>>
  BY DEF PollingThread, config_vars, tree
<1>2. main \in {"getchar", "MHD_stop_daemon"}
  BY DEF PollingThread, Callback, HandleRequest, NextFolder, TrySibling, Routed,
         RoutineReturns, ThreadEnds, IInv, PlacesOK
<1>3. exit_code # 2
  <2>1. exit_code = NULL
    BY <1>2 DEF IInv, MainInv
  <2> QED BY <2>1, ServerAssumption
<1>4. reading = "accepted"
  BY <1>2, <1>3 DEF IInv, MainInv
<1>5. MemInv /\ TreeIsFile
  BY <1>2, <1>4, AcceptedTree DEF Serving, IInv
<1> QED BY <1>1, <1>5, HandleRequestWalk, NextFolderWalk, TrySiblingWalk,
           RoutedWalk, LastTurnsWalk DEF PollingThread, Callback

(* Main works on the tree while no callback runs, and not on the walk.     *)
LEMMA MainWalk ==
  ASSUME IInv, WalkInv, Main \/ getchar, UNCHANGED request
  PROVE  WalkInv' /\ [Router!Next]_(Router!vars)
<1>1. UNCHANGED file
  <2>1. phs_config_read => UNCHANGED file
    BY DEF phs_config_read, ReadSettings, ReadUrl, ReadAll, ReadSubPath,
           ReturnToSubPath, ReturnToUrl, ReturnNull
  <2> QED BY <2>1 DEF Main, ReadConfig, Refused, print_first_config, StartDaemon,
                      StopDaemon, config_destroy, phs_config_free, getchar,
                      config_vars
<1>2. CASE StartDaemon
  <2>1. /\ UNCHANGED <<uri_index, base_url_config, subr, method_authorized,
                       param_authorized, status, siblings, answer>>
        /\ thread = "none" /\ thread' \in {"none", "idle"}
    BY <1>2 DEF StartDaemon, walk, IInv, MainInv
  <2>2. RestOK' /\ Waiting' /\ Walking'
    BY <1>1, <2>1 DEF WalkInv, RestOK, Waiting, Walking
  <2>3. Admitted'
    BY <2>1 DEF WalkInv, Admitted
  <2> QED BY <1>1, <2>1, <2>2, <2>3, RouterStutters DEF WalkInv
<1>3. CASE ~StartDaemon
  <2>1. UNCHANGED polling
    BY <1>3 DEF Main, ReadConfig, Refused, print_first_config, StopDaemon,
                config_destroy, phs_config_free, getchar
  <2>2. \/ UNCHANGED heap
        \/ main \in {"phs_config_read", "phs_config_free"}
    BY <1>3 DEF Main, ReadConfig, Refused, print_first_config, StopDaemon,
                config_destroy, phs_config_free, getchar, config_vars, tree
  <2>3. thread \in {"while", "for"} => UNCHANGED heap
    BY <2>2 DEF IInv, PlacesOK
  <2>4. WalkInv'
    BY <1>1, <2>1, <2>3, SameWalk
  <2>5. UNCHANGED Router!vars
    BY <1>1, <2>1, RouterStutters DEF polling, walk
  <2> QED BY <2>4, <2>5
<1> QED BY <1>2, <1>3

(* Each action keeps WalkInv and is a step of PickRouter, or none.         *)
LEMMA WalkNext ==
  ASSUME IInv, CrashInv, ListInv, WalkInv, [Next]_vars
  PROVE  WalkInv' /\ [Router!Next]_(Router!vars)
<1>1. CASE Step(Main) \/ Step(getchar)
  BY <1>1, MainWalk DEF Step
<1>2. CASE Step(PollingThread)
  BY <1>2, PollingThreadWalk DEF Step
<1>3. CASE UNCHANGED vars
  <2>1. UNCHANGED <<file, heap, request, polling>>
    BY <1>3 DEF vars, config_vars, tree
  <2>2. WalkInv'
    BY <2>1, SameWalk
  <2>3. UNCHANGED Router!vars
    BY <2>1, RouterStutters DEF polling, walk
  <2> QED BY <2>2, <2>3
<1> QED BY <1>1, <1>2, <1>3 DEF Next

(* The initial states.                                                     *)
LEMMA WalkInit ==
  ASSUME Init
  PROVE  WalkInv /\ Router!Init
<1>1. /\ file \in Files /\ request \in Requests
      /\ uri_index = Router!skip_slashes(request.url)
      /\ siblings = Reverse(file.url.elems)
      /\ subr = NULL /\ method_authorized = {} /\ param_authorized = {}
      /\ status = "walking" /\ thread = "none" /\ answer = NULL
  BY DEF Init, ConfigInit
<1>2. request.url \in Seq(STRING)
  BY <1>1, ServerAssumption
<1>3. RestOK
  <2>1. /\ uri_index \in Seq(STRING)
        /\ ToSet(uri_index) \subseteq ToSet(request.url)
        /\ uri_index # <<>> => Head(uri_index) # ""
    BY <1>1, <1>2, Skipped
  <2>2. siblings \in Seq(Setting)
    BY <1>1, FileParts, ReversedAre
  <2> QED BY <1>1, <2>1, <2>2 DEF RestOK
<1>4. Waiting /\ Walking
  BY <1>1 DEF Waiting, Walking
<1>5. Admitted
  <2>1. answer # 200
    BY <1>1, ServerAssumption
  <2> QED BY <1>1, <2>1 DEF Admitted
<1>6. Router!Init
  <2>1. siblings = Router!first_url_config(RouterConfig(file))
    BY <1>1 DEF RouterConfig, Router!first_url_config, Router!Reverse, Reverse
  <2> QED BY <1>1, <2>1 DEF Router!Init
<1> QED BY <1>3, <1>4, <1>5, <1>6 DEF WalkInv

-----------------------------------------------------------------------------
(* WalkInv holds in every state. *)
THEOREM WalkInvariance == Spec => []WalkInv
<1>1. Init => WalkInv
  BY WalkInit
<1>2. IInv /\ CrashInv /\ ListInv /\ WalkInv /\ [Next]_vars => WalkInv'
  BY WalkNext
<1> QED BY <1>1, <1>2, Invariance, CrashInvariance, ListInvariance, PTL
        DEF Spec

(* For any file, URL and interleaving, the walk over nodes and pointers is *)
(* a walk of PickRouter over the file's lists.                             *)
THEOREM ServerRoutesAsRouter == Spec => RoutesAsRouter
<1>1. Init => Router!Init
  BY WalkInit
<1>2. IInv /\ CrashInv /\ ListInv /\ WalkInv /\ [Next]_vars
        => [Router!Next]_(Router!vars)
  BY WalkNext
<1> QED BY <1>1, <1>2, Invariance, CrashInvariance, ListInvariance,
           WalkInvariance, PTL DEF Spec, RoutesAsRouter, Router!Spec

-----------------------------------------------------------------------------
(* What PickRouterProofs shows of every walk. *)

(* The two instances have the same steps,                                  *)
LEMMA SameSteps ==
  /\ Router!Init => RouterProofs!Init
  /\ Router!Next => RouterProofs!Next
  /\ UNCHANGED Router!vars => UNCHANGED RouterProofs!vars
<1>1. Router!Init => RouterProofs!Init
  BY SameSkip DEF Router!Init, RouterProofs!Init, Router!first_url_config,
     RouterProofs!first_url_config, Router!Reverse, RouterProofs!Reverse
<1>2. \A v : Router!Return(v) <=> RouterProofs!Return(v)
  BY DEF Router!Return, RouterProofs!Return
<1>3. Router!InLoop <=> RouterProofs!InLoop
  BY DEF Router!InLoop, RouterProofs!InLoop
<1>4. \A name : Router!Matching(name) = RouterProofs!Matching(name)
  BY DEF Router!Matching, RouterProofs!Matching
<1>5. \A S : Router!Min(S) = RouterProofs!Min(S)
  BY DEF Router!Min, RouterProofs!Min
<1>6. \A u : Router!folders_after(u) = RouterProofs!folders_after(u)
  BY SameSkip DEF Router!folders_after, RouterProofs!folders_after
<1>7. \A entry : Router!routine(entry) <=> RouterProofs!routine(entry)
  BY DEF Router!routine, RouterProofs!routine
<1>8. Router!MatchFolder => RouterProofs!MatchFolder
  BY <1>3, <1>4, <1>5, <1>6, <1>7 DEF Router!MatchFolder, RouterProofs!MatchFolder
<1>9. Router!Next => RouterProofs!Next
  BY <1>2, <1>3, <1>4, <1>8, SameSkip
     DEF Router!Next, RouterProofs!Next, Router!RootPath, RouterProofs!RootPath,
         Router!NoFolder, RouterProofs!NoFolder, Router!MemoryFull,
         RouterProofs!MemoryFull, Router!Finish, RouterProofs!Finish
<1>10. UNCHANGED Router!vars => UNCHANGED RouterProofs!vars
  BY DEF RouterProofs!vars, Router!vars
<1> QED BY <1>1, <1>9, <1>10

(* and the same chains.                                                    *)
LEMMA SameChains ==
  RouterProofs!Chains = Router!Chains
<1>1. RouterProofs!Folders = Router!Folders
  BY DEF RouterProofs!Folders, Router!Folders
<1>2. \A S : RouterProofs!Max(S) = Router!Max(S)
  BY DEF Router!Max, RouterProofs!Max
<1>3. \A p, above : RouterProofs!Below(p, above) = Router!Below(p, above)
  BY <1>2 DEF Router!Below, RouterProofs!Below
<1>4. \A s : RouterProofs!ToSet(s) = Router!ToSet(s)
  BY DEF Router!ToSet, RouterProofs!ToSet
<1>5. \A p, i : RouterProofs!Fits(p, i) <=> Router!Fits(p, i)
  BY <1>1, <1>3, <1>4 DEF Router!Fits, RouterProofs!Fits
<1> QED BY <1>1, <1>5 DEF Router!Chains, RouterProofs!Chains

(* A request reaches a routine only along a chain of the file's entries    *)
(* that matches all of its folders, with exactly that chain's methods.     *)
LEMMA RoutedIsAdmitted ==
  ASSUME RouterProofs!RoutedAsConfigured, WalkInv, file \in Files
  PROVE  MethodsExact
<1> SUFFICES ASSUME thread = "routine" \/ answer = 200
             PROVE  \E p \in Router!Chains : \E i \in DOMAIN p :
                      \E j \in DOMAIN file.setting[p[i]].method.elems :
                        file.setting[p[i]].method.elems[j] = request.method
  BY DEF MethodsExact
<1>1. status = "0" /\ request.method \in method_authorized
  BY DEF WalkInv, Admitted
<1>2. PICK p \in RouterProofs!Chains :
        method_authorized =
          UNION {RouterConfig(file).node[p[i]].method : i \in DOMAIN p}
  BY <1>1 DEF RouterProofs!RoutedAsConfigured
<1>3. PICK i \in DOMAIN p : request.method \in RouterConfig(file).node[p[i]].method
  BY <1>1, <1>2
<1>4. p[i] \in Setting
  BY <1>2 DEF RouterProofs!Chains
<1>5. RouterConfig(file).node[p[i]] = RouterEntry(file.setting[p[i]])
  BY <1>4 DEF RouterConfig
<1>6. RouterEntry(file.setting[p[i]]).method =
        {file.setting[p[i]].method.elems[j] :
           j \in DOMAIN file.setting[p[i]].method.elems} \ {NULL}
  BY DEF RouterEntry
<1>7. \E j \in DOMAIN file.setting[p[i]].method.elems :
        file.setting[p[i]].method.elems[j] = request.method
  BY <1>3, <1>5, <1>6
<1> QED BY <1>2, <1>7, SameChains

(* A routine runs only for a method that the file names, letter by letter, *)
(* on the request's way: whatever entries the search tried or passed over, *)
(* and whatever main and the reader did before.                            *)
THEOREM ServerMethodsExact == Spec => []MethodsExact
<1>1. Spec => RouterProofs!Spec
  <2>1. /\ Router!Init => RouterProofs!Init
        /\ [Router!Next]_(Router!vars) => [RouterProofs!Next]_(RouterProofs!vars)
    BY SameSteps
  <2>2. Router!Spec => RouterProofs!Spec
    BY <2>1, PTL DEF Router!Spec, RouterProofs!Spec
  <2> QED BY <2>2, ServerRoutesAsRouter DEF RoutesAsRouter
<1>2. RouterProofs!Spec => []RouterProofs!RoutedAsConfigured
  BY ConfigsTyped, RouterProofs!RouterRoutedAsConfigured
<1>3. IInv => file \in Files
  BY DEF IInv, MemInv, ConfigTypeOK
<1>4. RouterProofs!RoutedAsConfigured /\ WalkInv /\ IInv => MethodsExact
  BY <1>3, RoutedIsAdmitted
<1> QED BY <1>1, <1>2, <1>4, Invariance, WalkInvariance, PTL
=============================================================================
