--------------------------- MODULE PickReadProofs ---------------------------
(***************************************************************************)
(* What the server has read is what the file says: a file is refused       *)
(* exactly if it has a fault or memory is lacking, the tree of nodes of an *)
(* accepted file is the file's tree, and the walk over nodes and pointers  *)
(* implements PickRouter.                                                  *)
(***************************************************************************)
EXTENDS PickServerProofs, FiniteSetTheorems

-----------------------------------------------------------------------------
(* Faults. *)

(* Something refuses the file. *)
Wrong == ~Valid \/ alloc_failures > 0

(* The elements of sub_path, and good entries, of the file f. *)
SubElems(f, s) ==
  LET sub == f.setting[s].sub_path
  IN  IF sub.kind = "list" THEN sub.elems ELSE <<>>

GoodEntry(f, s) == f.setting[s].group /\ ~entry_error(f.setting[s])

(* An entry and all entries under it are good: they are in a set of good   *)
(* entries that holds the sub-entries of its members.                      *)
Fine(f, s) ==
  \E T \in SUBSET Setting :
    /\ s \in T
    /\ \A t \in T : GoodEntry(f, t) /\ ToSet(SubElems(f, t)) \subseteq T

(* How many elements of a list have been read to the end.                  *)
ReadOf(a) == frame[a].sub_path_index - (IF a = current THEN 0 ELSE 1)
UrlsRead == urls_read - (IF current = NULL THEN 0 ELSE 1)

(* Each call but the running one waits for the call on its last element.   *)
CallEntry(a) ==
  LET s == heap[a].entry
      c == frame[a].caller
  IN
  /\ frame[a].sub_path_index <= Len(SubElems(file, s))
  /\ c = NULL => /\ urls_read \in 1..Len(file.url.elems)
                 /\ s = file.url.elems[urls_read]
  /\ c # NULL =>
       /\ frame[c].sub_path_index \in 1..Len(SubElems(file, heap[c].entry))
       /\ s = SubElems(file, heap[c].entry)[frame[c].sub_path_index]

CallEntries == \A a \in Calls : CallEntry(a)

(* A call has an error if and only if there is one to report: a call       *)
(* without an error has a good entry, and so are all it has read.          *)
ErrorsNoted ==
  \A a \in Calls :
    /\ heap[a].entry \in InFile
    /\ frame[a].error_config => Wrong
    /\ ~frame[a].error_config =>
         /\ GoodEntry(file, heap[a].entry)
         /\ \A i \in 1..ReadOf(a) : Fine(file, SubElems(file, heap[a].entry)[i])

(* While nothing has refused the file, what was read of it is good, and a  *)
(* lack of memory is an error of a call in progress.                       *)
UrlsFine ==
  reading \in {"urls", "accepted"} =>
    /\ settings_ok
    /\ \A i \in 1..UrlsRead : Fine(file, file.url.elems[i])
    /\ alloc_failures > 0 => \E a \in Calls : frame[a].error_config

Verdict ==
  /\ reading = "settings" => urls_read = 0 /\ alloc_failures = 0
  /\ reading = "refused" => Wrong

FaultInv == Verdict /\ UrlsFine /\ ErrorsNoted /\ CallEntries

-----------------------------------------------------------------------------
(* Lists of nodes. *)

(* A node, while no fault was found under it, holds what its entry says.   *)
Sound(a) == a \in Calls => ~frame[a].error_config

Copied(f, n) ==
  LET g == f.setting[n.entry] IN
  /\ ~entry_error(g)
  /\ n.path = g.path /\ n.pattern_comp = g.pattern /\ n.subr = g.subr
  /\ \A k \in {"method", "get_param"} :
       n[k] = IF g[k].elems = <<>> THEN NULL ELSE g[k].elems

(* The nodes of a list, from the pointer to its first, in the heap h.      *)
Chained(h, start, list) ==
  /\ start = IF list = <<>> THEN NULL ELSE list[1]
  /\ \A i \in DOMAIN list :
       h[list[i]].next = IF i = Len(list) THEN NULL ELSE list[i + 1]

End(list) == IF list = <<>> THEN NULL ELSE list[Len(list)]

(* The list under a node, or the list of url, is held by its first node.   *)
Holders == Live \cup {NULL}
Start(x) == IF x = NULL THEN first_url_config ELSE heap[x].sub_path

(* A list holds nodes whose calls have returned.                           *)
ListOf(x, list) ==
  /\ \A i \in DOMAIN list : list[i] \in Live \ Calls
  /\ Chained(heap, Start(x), list)

(* kids[x] is the list that x holds. No two lists end in the same node,    *)
(* and a call's prev_sub_path_config is the end of its node's.             *)
Linked(kids) ==
  /\ kids \in [Addr \cup {NULL} -> Seq(Addr)]
  /\ \A x \in Holders : ListOf(x, kids[x])
  /\ \A x, y \in Holders :
       kids[x] # <<>> /\ kids[y] # <<>> /\ x # y => End(kids[x]) # End(kids[y])
  /\ \A a \in Calls : frame[a].prev_sub_path_config = End(kids[a])

(* The list under a node holds what was read of its sub_path, *)
ReadBelow(a) ==
  IF a \in Calls THEN ReadOf(a) ELSE Len(SubElems(file, heap[a].entry))

ReadsSubPath(a, list) ==
  /\ Len(list) = ReadBelow(a)
  /\ \A i \in DOMAIN list :
       heap[list[i]].entry = SubElems(file, heap[a].entry)[i]

(* that of url what was read of url, from the last to the first.           *)
ReadsUrl(list) ==
  /\ Len(list) = UrlsRead
  /\ \A i \in DOMAIN list :
       heap[list[i]].entry = file.url.elems[Len(list) - i + 1]

Matched(kids) ==
  /\ \A a \in Live :
       Sound(a) => Copied(file, heap[a]) /\ ReadsSubPath(a, kids[a])
  /\ ReadsUrl(kids[NULL])

(* From the first entry read to the release of the tree.                   *)
Serving ==
  /\ main \in {"phs_config_read", "MHD_start_daemon", "getchar",
               "MHD_stop_daemon"}
  /\ reading # "refused"

ListInv == Serving => \E kids : Linked(kids) /\ Matched(kids)

-----------------------------------------------------------------------------
(* The file does not change. *)

(* What is said of the file does not change while it does not.             *)
LEMMA SameFile ==
  ASSUME UNCHANGED <<file, home>>
  PROVE  Valid' = Valid /\ InFile' = InFile /\ settings_ok' = settings_ok
<1>1. \A s : sub_elems(s) = SubElems(file, s)
  BY DEF sub_elems, SubElems
<1>2. InFile' = InFile
  BY DEF InFile, sub_elems
<1>3. settings_ok' = settings_ok
  BY DEF settings_ok, account_read
<1> QED BY <1>2, <1>3 DEF Valid

(* sub_elems, for the file that is read.                                   *)
LEMMA SubElemsAre == \A s : sub_elems(s) = SubElems(file, s)
BY DEF sub_elems, SubElems

(* The elements of a sub_path are entries.                                 *)
LEMMA SubElemsSeq ==
  ASSUME file \in Files
  PROVE  \A s \in Setting : SubElems(file, s) \in Seq(Setting)
BY FileParts, SubElemsAre

(* The entries of the file are closed under sub_path. *)
LEMMA InFileClosed ==
  ASSUME file \in Files
  PROVE  /\ ToSet(file.url.elems) \subseteq InFile
         /\ \A s \in InFile : s \in Setting /\ ToSet(SubElems(file, s)) \subseteq InFile
<1>1. /\ ToSet(file.url.elems) \subseteq Setting
      /\ \A s \in Setting : ToSet(SubElems(file, s)) \subseteq Setting
  BY FileParts, SubElemsSeq DEF ToSet
<1> QED BY <1>1, SubElemsAre DEF InFile

(* Only a group can be without errors.                                     *)
LEMMA GoodGroup ==
  ASSUME file \in Files, NEW s \in Setting, ~entry_error(file.setting[s])
  PROVE  GoodEntry(file, s)
<1>1. ~path_error(file.setting[s])
  BY DEF entry_error
<1> QED BY <1>1, FileAssumption DEF path_error, GoodEntry

(* A good entry above entries that are fine is fine.                       *)
LEMMA FineUp ==
  ASSUME file \in Files, NEW s \in Setting, GoodEntry(file, s),
         \A i \in 1..Len(SubElems(file, s)) : Fine(file, SubElems(file, s)[i])
  PROVE  Fine(file, s)
<1> DEFINE F == {t \in Setting : Fine(file, t)}
<1>1. \A t \in F : GoodEntry(file, t) /\ ToSet(SubElems(file, t)) \subseteq F
  BY DEF Fine
<1>2. ToSet(SubElems(file, s)) \subseteq F
  <2>1. SubElems(file, s) \in Seq(Setting)
    BY SubElemsSeq
  <2>2. DOMAIN SubElems(file, s) = 1..Len(SubElems(file, s))
    BY <2>1
  <2>3. \A i \in DOMAIN SubElems(file, s) : SubElems(file, s)[i] \in Setting
    BY <2>1
  <2> QED BY <2>2, <2>3 DEF ToSet
<1> HIDE DEF F
<1>3. s \in F \cup {s} /\ F \cup {s} \in SUBSET Setting
  BY DEF F
<1>4. \A t \in F \cup {s} : GoodEntry(file, t) /\ ToSet(SubElems(file, t)) \subseteq F \cup {s}
  BY <1>1, <1>2
<1> QED BY <1>3, <1>4 DEF Fine

(* If all elements of url are good to the last, so is the file.            *)
LEMMA AllFine ==
  ASSUME file \in Files, settings_ok,
         \A i \in 1..Len(file.url.elems) : Fine(file, file.url.elems[i])
  PROVE  Valid
<1> DEFINE F == {t \in Setting : Fine(file, t)}
<1>1. \A t \in F : GoodEntry(file, t) /\ ToSet(SubElems(file, t)) \subseteq F
  BY DEF Fine
<1>2. ToSet(file.url.elems) \subseteq F
  <2>1. file.url.elems \in Seq(Setting)
    BY FileParts
  <2>2. /\ DOMAIN file.url.elems = 1..Len(file.url.elems)
        /\ \A i \in DOMAIN file.url.elems : file.url.elems[i] \in Setting
    BY <2>1
  <2> QED BY <2>2 DEF ToSet
<1>3. InFile \subseteq F
  BY <1>1, <1>2, SubElemsAre DEF InFile
<1>4. ASSUME NEW s \in InFile
      PROVE  Cardinality({k \in {"path", "pattern"} :
                            file.setting[s][k] # NULL}) = 1
  <2> DEFINE g == file.setting[s]
             K == {k \in {"path", "pattern"} : g[k] # NULL}
  <2>1. ~path_error(g)
    BY <1>1, <1>3 DEF GoodEntry, entry_error
  <2>2. K = {"path"} \/ K = {"pattern"}
    BY <2>1 DEF path_error
  <2>3. Cardinality({"path"}) = 1 /\ Cardinality({"pattern"}) = 1
    BY FS_Singleton
  <2> QED BY <2>2, <2>3
<1> QED BY <1>1, <1>3, <1>4 DEF Valid, GoodEntry
-----------------------------------------------------------------------------
(* What the steps of the reader do, node by node and call by call. *)

(* The step goes on to an element of the running loop: the next of url, or *)
(* the next of the sub_path of the innermost call.                         *)
NextElement(s) ==
  /\ s \in Setting
  /\ current = NULL =>
       /\ urls_read < Len(file.url.elems) /\ urls_read' = urls_read + 1
       /\ s = file.url.elems[urls_read + 1]
  /\ current # NULL =>
       LET f == frame[current]
           g == frame'[current]
           elems == SubElems(file, heap[current].entry)
       IN
       /\ f.sub_path_index < Len(elems) /\ urls_read' = urls_read
       /\ s = elems[f.sub_path_index + 1]
       /\ g # NULL /\ g.caller = f.caller
       /\ g.sub_path_index = f.sub_path_index + 1
       /\ g.prev_sub_path_config = f.prev_sub_path_config

(* What entering a call on s does. *)
Entered(a, s, c) ==
  /\ a \in Addr /\ heap[a] = NULL /\ current' = a
  /\ heap'[a] # NULL /\ heap'[a].entry = s
  /\ heap'[a].next = NULL /\ heap'[a].sub_path = NULL
  /\ \A b \in Addr \ {a} : heap'[b] = heap[b]
  /\ frame'[a] # NULL /\ frame'[a].caller = c
  /\ frame'[a].sub_path_index = 0
  /\ frame'[a].prev_sub_path_config = NULL
  /\ frame'[a].error_config =>
       entry_error(file.setting[s]) \/ alloc_failures' > 0
  /\ ~frame'[a].error_config =>
       /\ ~entry_error(file.setting[s]) /\ Copied(file, heap'[a])
       /\ alloc_failures' = alloc_failures
  /\ alloc_failures' >= alloc_failures

(* An entry without an error, whose blocks are all allocated, is copied.   *)
LEMMA CopiedWhole ==
  ASSUME file \in Files, NEW s \in Setting, ~entry_error(file.setting[s])
  PROVE  Copied(file, new_url_config(s, needed(file.setting[s])))
<1> DEFINE g == file.setting[s]
           n == new_url_config(s, needed(g))
<1>1. g \in Group
  BY FileParts
<1>2. /\ n.path = g.path /\ n.subr = g.subr /\ n.entry = s
      /\ n.pattern_comp = IF "pattern_comp" \in needed(g) THEN g.pattern ELSE NULL
      /\ n.method = IF "method" \in needed(g) THEN g.method.elems ELSE NULL
      /\ n.get_param = IF "get_param" \in needed(g)
                       THEN g.get_param.elems ELSE NULL
  BY DEF new_url_config
<1>3. n.pattern_comp = g.pattern
  <2>1. g.pattern # NULL => Compiled[g.pattern] # NULL
    BY DEF entry_error
  <2> QED BY <1>2, <2>1 DEF needed, Block
<1>4. /\ g.method.kind \in {"absent", "array"}
      /\ g.get_param.kind \in {"absent", "array"}
  BY DEF entry_error, array_error
<1>5. /\ g.method.kind = "absent" => g.method.elems = <<>>
      /\ g.get_param.kind = "absent" => g.get_param.elems = <<>>
  <2>1. \A k \in {"method", "get_param", "sub_path"} :
          g[k].kind = "absent" => g[k].elems = <<>>
    BY FileAssumption
  <2> QED BY <2>1
<1>6. /\ "method" \in needed(g) <=> g.method.elems # <<>>
      /\ "get_param" \in needed(g) <=> g.get_param.elems # <<>>
  BY <1>4, <1>5 DEF needed, Block
<1> HIDE DEF n
<1>7. /\ n.method = IF g.method.elems = <<>> THEN NULL ELSE g.method.elems
      /\ n.get_param = IF g.get_param.elems = <<>>
                       THEN NULL ELSE g.get_param.elems
  BY <1>2, <1>6
<1>8. \A k \in {"method", "get_param"} :
        n[k] = IF g[k].elems = <<>> THEN NULL ELSE g[k].elems
  BY <1>7
<1> QED BY <1>2, <1>3, <1>8 DEF Copied, n

(* read_url_config begins a call on the entry.                             *)
LEMMA EnterReads ==
  ASSUME ConfigTypeOK, NEW s \in Setting, NEW c \in Addr \cup {NULL},
         NEW frames \in [Addr -> Frame \cup {NULL}],
         enter_read_url_config(s, c, frames)
  PROVE  \E a \in Addr :
           /\ Entered(a, s, c)
           /\ \A b \in Addr \ {a} : frame'[b] = frames[b]
<1> DEFINE g == file.setting[s]
<1> DEFINE Enters(a, lost) ==
        /\ malloc(a)
        /\ \/ lost = {} /\ UNCHANGED alloc_failures
           \/ lost # {} /\ AllocFails
        /\ heap' = [heap EXCEPT ![a] = new_url_config(s, needed(g) \ lost)]
        /\ frame' = [frames EXCEPT ![a] =
                       [caller |-> c, sub_path_index |-> 0,
                        prev_sub_path_config |-> NULL,
                        error_config |-> entry_error(g) \/ lost # {}]]
        /\ current' = a
<1>0. PICK a \in Addr : \E lost : Enters(a, lost)
  BY DEF enter_read_url_config
<1>1. PICK lost : Enters(a, lost)
  BY <1>0
<1> DEFINE n == new_url_config(s, needed(g) \ lost)
           e == entry_error(g) \/ lost # {}
           f == [caller |-> c, sub_path_index |-> 0,
                 prev_sub_path_config |-> NULL, error_config |-> e]
<1>2. /\ n \in Node /\ n.next = NULL /\ n.sub_path = NULL /\ n # NULL
      /\ n.entry = s
  <2>1. needed(g) \ lost \in SUBSET needed(file.setting[s]) /\ file \in Files
    BY DEF ConfigTypeOK
  <2>2. n \in Node /\ n.next = NULL /\ n.sub_path = NULL
    BY <2>1, NewNode
  <2>3. n.entry = s
    BY DEF new_url_config
  <2> QED BY <2>2, <2>3, ConfigNullAssumption
<1>3. e \in BOOLEAN
  BY DEF entry_error
<1>4. lost = {} => n = new_url_config(s, needed(g))
  OBVIOUS
<1>5. heap' = [heap EXCEPT ![a] = n] /\ frame' = [frames EXCEPT ![a] = f]
  BY <1>1
<1>6. e <=> entry_error(g) \/ lost # {}
  OBVIOUS
<1> HIDE DEF e, n
<1>7. /\ f.caller = c /\ f.sub_path_index = 0
      /\ f.prev_sub_path_config = NULL /\ f.error_config = e /\ f # NULL
  <2>1. f \in Frame
    BY <1>3 DEF Frame
  <2> QED BY <2>1, ConfigNullAssumption
<1> HIDE DEF f, g
<1>8. /\ heap'[a] = n /\ frame'[a] = f
      /\ \A b \in Addr \ {a} : heap'[b] = heap[b] /\ frame'[b] = frames[b]
  BY <1>5 DEF ConfigTypeOK
<1>9. /\ alloc_failures' >= alloc_failures
      /\ lost # {} => alloc_failures' > 0
      /\ lost = {} => alloc_failures' = alloc_failures
  BY <1>1 DEF AllocFails, ConfigTypeOK
<1>10. /\ e => entry_error(g) \/ alloc_failures' > 0
       /\ ~e => /\ ~entry_error(g) /\ Copied(file, n)
                /\ alloc_failures' = alloc_failures
  <2>1. ~e => ~entry_error(g) /\ lost = {}
    BY <1>6
  <2>2. ~e => Copied(file, n)
    BY <1>4, <2>1, CopiedWhole DEF ConfigTypeOK, g
  <2> QED BY <1>6, <1>9, <2>1, <2>2
<1>11. Entered(a, s, c)
  BY <1>1, <1>2, <1>7, <1>8, <1>9, <1>10 DEF Entered, malloc, g
<1> QED BY <1>8, <1>11

(* read_url_config is called for the next element. *)
Begins(a, s) ==
  /\ NextElement(s) /\ Entered(a, s, current)
  /\ \A b \in Addr \ {a, current} : frame'[b] = frame[b]
  /\ current # NULL => frame'[current].error_config = frame[current].error_config
  /\ reading = "urls"
  /\ UNCHANGED <<file, home, reading, first_url_config>>

(* The next element of a sub_path is not a group, or there is no node for it. *)
Skips(s) ==
  /\ current # NULL /\ NextElement(s) /\ frame'[current].error_config
  /\ ~file.setting[s].group \/ alloc_failures' > 0
  /\ \A b \in Addr \ {current} : frame'[b] = frame[b]
  /\ alloc_failures' >= alloc_failures
  /\ reading = "urls"
  /\ UNCHANGED <<file, home, reading, current, heap, first_url_config>>

(* There is no node for the next element of url. *)
Refuses ==
  /\ current = NULL /\ reading = "urls"
  /\ reading' = "refused" /\ alloc_failures' > 0
  /\ UNCHANGED <<file, home, current, frame, heap, first_url_config>>

(* An iteration of phs_config_read's loop.                                 *)
LEMMA ReadUrlReads ==
  ASSUME MemInv, ReadUrl
  PROVE  Refuses \/ \E a, s : Begins(a, s)
<1> DEFINE s == file.url.elems[urls_read + 1]
<1>1. /\ ConfigTypeOK /\ current = NULL /\ reading = "urls" /\ urls_read \in Nat
      /\ urls_read < Len(file.url.elems) /\ urls_read' = urls_read + 1
      /\ UNCHANGED <<file, home, first_url_config>>
  BY DEF MemInv, ConfigTypeOK, ReadUrl
<1>2. s \in Setting
  <2>1. file.url.elems \in Seq(Setting)
    BY <1>1, FileParts DEF ConfigTypeOK
  <2>2. urls_read + 1 \in 1..Len(file.url.elems)
    BY <1>1, <2>1
  <2> QED BY <2>1, <2>2, ElementOfSeq
<1>3. CASE enter_read_url_config(s, NULL, frame) /\ UNCHANGED reading
  <2>1. NextElement(s)
    BY <1>1, <1>2 DEF NextElement
  <2>2. frame \in [Addr -> Frame \cup {NULL}] /\ NULL \in Addr \cup {NULL}
    BY <1>1 DEF ConfigTypeOK
  <2> HIDE DEF s
  <2>3. PICK a \in Addr : /\ Entered(a, s, NULL)
                          /\ \A b \in Addr \ {a} : frame'[b] = frame[b]
    BY <1>1, <1>2, <1>3, <2>2, EnterReads
  <2>4. Begins(a, s)
    BY <1>1, <1>3, <2>1, <2>3 DEF Begins
  <2> QED BY <2>4
<1>4. CASE AllocFails /\ reading' = "refused"
           /\ UNCHANGED <<current, frame, heap, blocks>>
  <2>1. alloc_failures' > 0
    BY <1>1, <1>4 DEF AllocFails, ConfigTypeOK
  <2> QED BY <1>1, <1>4, <2>1 DEF Refuses
<1> QED BY <1>3, <1>4 DEF ReadUrl

(* An iteration of read_url_config's loop.                                 *)
LEMMA ReadSubPathReads ==
  ASSUME MemInv, ReadSubPath
  PROVE  (\E a, s : Begins(a, s)) \/ (\E s : Skips(s))
<1> DEFINE f == frame[current]
           elems == SubElems(file, heap[current].entry)
           s == elems[f.sub_path_index + 1]
           done == [frame EXCEPT ![current].sub_path_index = next_index(@)]
           faulty == [done EXCEPT ![current].error_config = TRUE]
           g == [f EXCEPT !.sub_path_index = f.sub_path_index + 1]
           h == [g EXCEPT !.error_config = TRUE]
<1>1. /\ ConfigTypeOK /\ current # NULL /\ current \in Addr
      /\ reading = "urls" /\ UNCHANGED <<file, home, reading, urls_read,
                                         first_url_config>>
      /\ f.sub_path_index < Len(elems)
  BY SubElemsAre DEF MemInv, ConfigTypeOK, ReadSubPath, ReadingUrls
<1>2. f \in Frame /\ heap[current] \in Node
  BY <1>1 DEF MemInv, GraphInv, PointersAlive, ConfigTypeOK
<1>3. s \in Setting
  <2>1. elems \in Seq(Setting)
    BY <1>1, <1>2, SubElemsSeq DEF ConfigTypeOK, Node
  <2>2. f.sub_path_index + 1 \in 1..Len(elems)
    BY <1>1, <1>2, <2>1 DEF Frame
  <2> QED BY <2>1, <2>2, ElementOfSeq
<1>4. /\ g \in Frame /\ h \in Frame
      /\ g.caller = f.caller /\ h.caller = f.caller
      /\ g.prev_sub_path_config = f.prev_sub_path_config
      /\ h.prev_sub_path_config = f.prev_sub_path_config
      /\ g.sub_path_index = f.sub_path_index + 1
      /\ h.sub_path_index = f.sub_path_index + 1
      /\ g.error_config = f.error_config /\ h.error_config = TRUE
  <2>1. f \in Frame
    BY <1>2
  <2> HIDE DEF f
  <2>2. /\ g \in Frame /\ g.caller = f.caller
        /\ g.prev_sub_path_config = f.prev_sub_path_config
        /\ g.sub_path_index = f.sub_path_index + 1
        /\ g.error_config = f.error_config
    BY <2>1 DEF Frame
  <2>3. h = [g EXCEPT !.error_config = TRUE]
    OBVIOUS
  <2> HIDE DEF g, h
  <2>4. /\ h \in Frame /\ h.caller = g.caller
        /\ h.prev_sub_path_config = g.prev_sub_path_config
        /\ h.sub_path_index = g.sub_path_index
        /\ h.error_config = TRUE
    BY <2>2, <2>3 DEF Frame
  <2> QED BY <2>2, <2>4
<1>5. g # NULL /\ h # NULL
  BY <1>4, ConfigNullAssumption
<1>6. frame \in [Addr -> Frame \cup {NULL}]
  BY <1>1 DEF ConfigTypeOK
<1>7. /\ done \in [Addr -> Frame \cup {NULL}]
      /\ done[current] = g
      /\ \A b \in Addr \ {current} : done[b] = frame[b]
  <2>1. done = [frame EXCEPT ![current] = g]
    BY DEF next_index
  <2> HIDE DEF done, g, h
  <2> QED BY <1>1, <1>4, <1>6, <2>1
<1>8. /\ faulty[current] = h
      /\ \A b \in Addr \ {current} : faulty[b] = frame[b]
  <2>1. faulty = [done EXCEPT ![current] = h]
    BY <1>7
  <2> HIDE DEF faulty, done, h, g
  <2> QED BY <1>1, <1>7, <2>1
<1>9. \/ /\ enter_read_url_config(s, current, done)
      \/ /\ frame' = faulty /\ UNCHANGED <<current, heap>>
         /\ ~file.setting[s].group /\ UNCHANGED alloc_failures
      \/ /\ frame' = faulty /\ UNCHANGED <<current, heap>>
         /\ AllocFails
  BY SubElemsAre DEF ReadSubPath
<1>10. frame'[current] \in {g, h} => NextElement(s)
  BY <1>1, <1>3, <1>4, <1>5 DEF NextElement
<1> HIDE DEF s, elems, faulty, done, g, h
<1>11. CASE enter_read_url_config(s, current, done)
  <2>1. current \in Addr \cup {NULL}
    BY <1>1
  <2>2. PICK a \in Addr : /\ Entered(a, s, current)
                          /\ \A b \in Addr \ {a} : frame'[b] = done[b]
    BY <1>1, <1>3, <1>7, <1>11, <2>1, EnterReads
  <2>3. a # current
    BY <1>2, <2>2, ConfigNullAssumption DEF Entered
  <2>4. frame'[current] = g
    BY <1>1, <1>7, <2>2, <2>3
  <2>5. \A b \in Addr \ {a, current} : frame'[b] = frame[b]
    BY <1>7, <2>2
  <2>6. Begins(a, s)
    BY <1>1, <1>4, <1>10, <2>2, <2>4, <2>5 DEF Begins, f
  <2> QED BY <2>6
<1>12. CASE /\ frame' = faulty /\ UNCHANGED <<current, heap>>
            /\ \/ ~file.setting[s].group /\ UNCHANGED alloc_failures
               \/ AllocFails
  <2>1. /\ ~file.setting[s].group \/ alloc_failures' > 0
        /\ alloc_failures' >= alloc_failures
    BY <1>1, <1>12 DEF AllocFails, ConfigTypeOK
  <2>2. frame'[current] = h /\ \A b \in Addr \ {current} : frame'[b] = frame[b]
    BY <1>8, <1>12
  <2>3. Skips(s)
    BY <1>1, <1>4, <1>10, <1>12, <2>1, <2>2 DEF Skips
  <2> QED BY <2>3
<1> QED BY <1>9, <1>11, <1>12

(* Everything of a node but its place in the lists. *)
SameContent(m, n) ==
  /\ n.path = m.path /\ n.pattern_comp = m.pattern_comp /\ n.subr = m.subr
  /\ n.method = m.method /\ n.get_param = m.get_param /\ n.entry = m.entry

(* The innermost call, which has read all its elements, returns to c.      *)
Ends(a, c) ==
  /\ a \in Calls /\ a \in Live /\ a # NULL /\ current = a
  /\ c = frame[a].caller /\ current' = c
  /\ c \in (Calls \cap Live) \cup {NULL} /\ c # a
  /\ frame[a].sub_path_index = Len(SubElems(file, heap[a].entry))
  /\ frame'[a] = NULL
  /\ \A b \in Addr \ {a, c} : frame'[b] = frame[b]
  /\ c # NULL => /\ frame'[c] # NULL /\ frame'[c].caller = frame[c].caller
                 /\ frame'[c].sub_path_index = frame[c].sub_path_index
  /\ reading = "urls"
  /\ UNCHANGED <<file, home, urls_read, alloc_failures>>

(* Its node goes to the end of c's list, *)
Appends(a, c) ==
  /\ Ends(a, c) /\ c # NULL /\ ~frame[a].error_config
  /\ frame'[c].error_config = frame[c].error_config
  /\ frame'[c].prev_sub_path_config = a
  /\ LET prev == frame[c].prev_sub_path_config IN
     \A b \in Addr :
       /\ heap'[b] = NULL <=> heap[b] = NULL
       /\ b \in Live =>
            /\ SameContent(heap[b], heap'[b])
            /\ heap'[b].next = IF prev # NULL /\ b = prev
                               THEN a ELSE heap[b].next
            /\ heap'[b].sub_path = IF prev = NULL /\ b = c
                                   THEN a ELSE heap[b].sub_path
  /\ UNCHANGED <<reading, first_url_config>>

(* to the front of url's list, *)
Prepends(a) ==
  /\ Ends(a, NULL) /\ ~frame[a].error_config
  /\ \A b \in Addr :
       /\ heap'[b] = NULL <=> heap[b] = NULL
       /\ b \in Live =>
            /\ SameContent(heap[b], heap'[b])
            /\ heap'[b].next = IF b = a THEN first_url_config ELSE heap[b].next
            /\ heap'[b].sub_path = heap[b].sub_path
  /\ first_url_config' = a
  /\ UNCHANGED reading

(* or is freed, with a fault that c takes over. *)
Drops(a, c) ==
  /\ Ends(a, c) /\ frame[a].error_config
  /\ Release(a)
  /\ c = NULL => reading' = "refused"
  /\ c # NULL => /\ reading' = reading /\ frame'[c].error_config
                 /\ frame'[c].prev_sub_path_config =
                      frame[c].prev_sub_path_config
  /\ UNCHANGED first_url_config

(* What the three ways to return have in common.                           *)
LEMMA EndsReads ==
  ASSUME MemInv, AtEnd,
         NEW f, f # NULL,
         f.caller = frame[frame[current].caller].caller,
         f.sub_path_index = frame[frame[current].caller].sub_path_index,
         frame[current].caller = NULL =>
           frame' = [frame EXCEPT ![current] = NULL],
         frame[current].caller # NULL =>
           frame' = [frame EXCEPT ![current] = NULL, ![frame[current].caller] = f],
         current' = frame[current].caller,
         UNCHANGED <<file, home, urls_read, alloc_failures>>
  PROVE  Ends(current, frame[current].caller)
<1> DEFINE a == current
           c == frame[a].caller
<1>1. /\ ConfigTypeOK /\ HeapType /\ GraphInv /\ a # NULL /\ reading = "urls"
  BY TypedHeap DEF MemInv, AtEnd, ReadingUrls
<1>2. /\ a \in Calls /\ a \in Live /\ c # a
      /\ c \in (Calls \cap Live) \cup {NULL}
  BY <1>1 DEF HeapType, GraphInv, CallStack, PointersAlive, Calls, Live
<1>3. frame \in [Addr -> Frame \cup {NULL}] /\ a \in Addr
  BY <1>1, <1>2 DEF HeapType, Calls
<1>4. CASE c = NULL
  <2>1. frame'[a] = NULL /\ \A b \in Addr \ {a, c} : frame'[b] = frame[b]
    BY <1>3, <1>4
  <2> QED BY <1>1, <1>2, <1>4, <2>1, SubElemsAre DEF Ends, AtEnd
<1>5. CASE c # NULL
  <2>1. c \in Addr
    BY <1>2, <1>5 DEF Calls
  <2> HIDE DEF c
  <2>2. /\ frame'[a] = NULL /\ frame'[c] = f
        /\ \A b \in Addr \ {a, c} : frame'[b] = frame[b]
    BY <1>2, <1>3, <1>5, <2>1 DEF c
  <2> QED BY <1>1, <1>2, <1>5, <2>2, SubElemsAre DEF Ends, AtEnd, c
<1> QED BY <1>4, <1>5

(* Returning to read_url_config.                                           *)
LEMMA ReturnToSubPathReads ==
  ASSUME MemInv, ReturnToSubPath
  PROVE  Appends(current, frame[current].caller)
<1> DEFINE a == current
           caller == frame[a].caller
           prev == frame[caller].prev_sub_path_config
           x == IF prev = NULL THEN caller ELSE prev
           n == IF prev = NULL THEN [heap[caller] EXCEPT !.sub_path = a]
                ELSE [heap[prev] EXCEPT !.next = a]
           e == [frame[caller] EXCEPT !.prev_sub_path_config = a]
<1>1. /\ ConfigTypeOK /\ HeapType /\ GraphInv /\ a # NULL /\ caller # NULL
      /\ ~frame[a].error_config /\ AtEnd
      /\ UNCHANGED <<file, home, reading, urls_read, first_url_config,
                     alloc_failures>>
      /\ current' = caller
  BY TypedHeap DEF MemInv, ReturnToSubPath, AtEnd
<1>2. /\ a \in Calls /\ caller \in Calls /\ caller # a
      /\ a \in Live /\ caller \in Live
  BY <1>1 DEF HeapType, GraphInv, CallStack, PointersAlive, Calls, Live
<1>3. /\ frame[caller] \in Frame /\ prev \in Live \cup {NULL}
  BY <1>1, <1>2, FrameFields DEF GraphInv, PointersAlive, Live, Calls
<1>4. heap' = [heap EXCEPT ![x] = n]
  BY DEF ReturnToSubPath, link_sub_path
<1>5. frame' = [frame EXCEPT ![a] = NULL, ![caller] = e]
  <2>1. frame' = [frame EXCEPT ![a] = NULL, ![caller].prev_sub_path_config = a]
    BY DEF ReturnToSubPath
  <2> QED BY <1>2, <2>1
<1>6. x \in Live /\ heap[x] \in Node
  BY <1>1, <1>2, <1>3, NodeFields
<1>7. /\ n # NULL /\ SameContent(heap[x], n)
      /\ n.next = IF prev # NULL THEN a ELSE heap[x].next
      /\ n.sub_path = IF prev = NULL THEN a ELSE heap[x].sub_path
  <2>1. a \in Addr \cup {NULL}
    BY <1>2 DEF Live
  <2>2. CASE prev = NULL
    <3>1. x = caller /\ n = [heap[x] EXCEPT !.sub_path = a]
      BY <2>2
    <3> HIDE DEF x, n, prev, caller
    <3>2. n # NULL /\ n.sub_path = a /\ n.next = heap[x].next
      BY <1>6, <2>1, <3>1, SubPathUpdated
    <3>3. SameContent(heap[x], n)
      BY <1>6, <3>1 DEF SameContent, Node
    <3> QED BY <2>2, <3>2, <3>3
  <2>3. CASE prev # NULL
    <3>1. x = prev /\ n = [heap[x] EXCEPT !.next = a]
      BY <2>3
    <3> HIDE DEF x, n, prev, caller
    <3>2. n # NULL /\ n.next = a /\ n.sub_path = heap[x].sub_path
      BY <1>6, <2>1, <3>1, NextUpdated
    <3>3. SameContent(heap[x], n)
      BY <1>6, <3>1 DEF SameContent, Node
    <3> QED BY <2>3, <3>2, <3>3
  <2> QED BY <2>2, <2>3
<1>8. /\ e.caller = frame[caller].caller /\ e.prev_sub_path_config = a
      /\ e.sub_path_index = frame[caller].sub_path_index
      /\ e.error_config = frame[caller].error_config /\ e # NULL
  <2>1. a \in Addr
    BY <1>2 DEF Live
  <2>2. /\ e \in Frame /\ e.caller = frame[caller].caller
        /\ e.prev_sub_path_config = a
        /\ e.sub_path_index = frame[caller].sub_path_index
        /\ e.error_config = frame[caller].error_config
    BY <1>3, <2>1 DEF Frame
  <2> QED BY <2>2, ConfigNullAssumption
<1> HIDE DEF n, e
<1>9. \A b \in Addr : heap'[b] = IF b = x THEN n ELSE heap[b]
  <2>1. heap \in [Addr -> Node \cup {NULL}]
    BY <1>1 DEF HeapType
  <2> QED BY <1>4, <2>1
<1>10. Ends(a, caller)
  BY <1>1, <1>5, <1>8, EndsReads
<1>11. frame'[caller] = e
  <2>1. frame \in [Addr -> Frame \cup {NULL}] /\ a \in Addr /\ caller \in Addr
    BY <1>1, <1>2 DEF HeapType, Calls
  <2> HIDE DEF caller
  <2> QED BY <1>2, <1>5, <2>1
<1>12. \A b \in Addr :
         /\ heap'[b] = NULL <=> heap[b] = NULL
         /\ b \in Live =>
              /\ SameContent(heap[b], heap'[b])
              /\ heap'[b].next = IF prev # NULL /\ b = prev
                                 THEN a ELSE heap[b].next
              /\ heap'[b].sub_path = IF prev = NULL /\ b = caller
                                     THEN a ELSE heap[b].sub_path
  BY <1>6, <1>7, <1>9 DEF Live, SameContent
<1> QED BY <1>1, <1>8, <1>10, <1>11, <1>12 DEF Appends

(* Returning to phs_config_read.                                           *)
LEMMA ReturnToUrlReads ==
  ASSUME MemInv, ReturnToUrl
  PROVE  Prepends(current)
<1> DEFINE a == current
           n == [heap[a] EXCEPT !.next = first_url_config]
<1>1. /\ ConfigTypeOK /\ HeapType /\ GraphInv /\ a # NULL /\ AtEnd
      /\ frame[a].caller = NULL /\ ~frame[a].error_config
      /\ UNCHANGED <<file, home, reading, urls_read, blocks, alloc_failures>>
      /\ first_url_config' = a /\ current' = NULL
      /\ frame' = [frame EXCEPT ![a] = NULL]
      /\ heap' = [heap EXCEPT ![a].next = first_url_config]
  BY TypedHeap DEF MemInv, ReturnToUrl, AtEnd
<1>2. a \in Calls /\ a \in Live /\ heap[a] \in Node
  BY <1>1, NodeFields
     DEF HeapType, GraphInv, CallStack, PointersAlive, Calls, Live
<1>3. /\ n # NULL /\ n.next = first_url_config
      /\ n.sub_path = heap[a].sub_path /\ SameContent(heap[a], n)
  <2>1. first_url_config \in Addr \cup {NULL}
    BY <1>1 DEF HeapType
  <2>2. n = [heap[a] EXCEPT !.next = first_url_config]
    OBVIOUS
  <2> HIDE DEF n
  <2>3. n # NULL /\ n.next = first_url_config /\ n.sub_path = heap[a].sub_path
    BY <1>2, <2>1, <2>2, NextUpdated
  <2>4. SameContent(heap[a], n)
    BY <1>2, <2>2 DEF SameContent, Node
  <2> QED BY <2>3, <2>4
<1>4. heap' = [heap EXCEPT ![a] = n]
  BY <1>1
<1> HIDE DEF n
<1>5. \A b \in Addr : heap'[b] = IF b = a THEN n ELSE heap[b]
  BY <1>1, <1>4 DEF HeapType
<1>6. \A b \in Addr :
        /\ heap'[b] = NULL <=> heap[b] = NULL
        /\ b \in Live =>
             /\ SameContent(heap[b], heap'[b])
             /\ heap'[b].next = IF b = a THEN first_url_config ELSE heap[b].next
             /\ heap'[b].sub_path = heap[b].sub_path
  BY <1>2, <1>3, <1>5 DEF Live, SameContent
<1>7. Ends(a, NULL)
  <2>1. /\ a \in Addr /\ reading = "urls"
        /\ frame \in [Addr -> Frame \cup {NULL}]
    BY <1>1, <1>2 DEF Calls, HeapType, MemInv, ReadingUrls
  <2>2. /\ frame'[a] = NULL
        /\ \A b \in Addr \ {a} : frame'[b] = frame[b]
    BY <1>1, <2>1
  <2> QED BY <1>1, <1>2, <2>1, <2>2, SubElemsAre DEF Ends, AtEnd
<1> QED BY <1>1, <1>6, <1>7 DEF Prepends

(* Returning null.                                                         *)
LEMMA ReturnNullReads ==
  ASSUME MemInv, ReturnNull
  PROVE  Drops(current, frame[current].caller)
<1> DEFINE a == current
           caller == frame[a].caller
<1>1. /\ ConfigTypeOK /\ HeapType /\ GraphInv /\ a # NULL /\ AtEnd
      /\ frame[a].error_config
      /\ free_url_config(a) /\ note_error(caller)
      /\ UNCHANGED <<file, home, urls_read, first_url_config, alloc_failures>>
      /\ current' = caller
  BY TypedHeap DEF MemInv, ReturnNull, AtEnd
<1>2. /\ a \in Calls /\ a \in Live
      /\ caller \in Calls \cup {NULL} /\ caller # a
  BY <1>1 DEF HeapType, GraphInv, CallStack, PointersAlive, Calls, Live
<1>3. Release(a)
  BY <1>1 DEF free_url_config, Release
<1>4. frame \in [Addr -> Frame \cup {NULL}] /\ a \in Addr
  BY <1>1, <1>2 DEF HeapType, Calls
<1>5. CASE caller = NULL
  <2>1. reading' = "refused" /\ frame' = [frame EXCEPT ![a] = NULL]
    BY <1>1, <1>5 DEF note_error
  <2>2. frame'[a] = NULL /\ \A b \in Addr \ {a} : frame'[b] = frame[b]
    BY <1>4, <2>1
  <2>3. reading = "urls"
    BY <1>1 DEF MemInv, ReadingUrls
  <2>4. Ends(a, NULL)
    BY <1>1, <1>2, <1>5, <2>2, <2>3, SubElemsAre DEF Ends, AtEnd
  <2> QED BY <1>1, <1>3, <1>5, <2>1, <2>4 DEF Drops
<1>6. CASE caller # NULL
  <2> DEFINE e == [frame[caller] EXCEPT !.error_config = TRUE]
  <2>1. frame[caller] \in Frame /\ caller \in Addr
    BY <1>1, <1>2, <1>6, FrameFields DEF Calls
  <2>2. /\ e \in Frame /\ e.caller = frame[caller].caller
        /\ e.prev_sub_path_config = frame[caller].prev_sub_path_config
        /\ e.sub_path_index = frame[caller].sub_path_index
        /\ e.error_config = TRUE
    BY <2>1 DEF Frame
  <2>3. e # NULL
    BY <2>2, ConfigNullAssumption
  <2>4. frame' = [frame EXCEPT ![a] = NULL, ![caller].error_config = TRUE]
        /\ reading' = reading
    BY <1>1, <1>6 DEF note_error
  <2>5. frame' = [frame EXCEPT ![a] = NULL, ![caller] = e]
    BY <1>2, <2>4
  <2> HIDE DEF e
  <2>6. Ends(a, caller)
    BY <1>1, <1>6, <2>2, <2>3, <2>5, EndsReads
  <2> HIDE DEF caller
  <2>7. frame'[caller] = e
    BY <1>2, <1>4, <2>1, <2>5
  <2> QED BY <1>1, <1>3, <1>6, <2>2, <2>4, <2>6, <2>7 DEF Drops, caller
<1> QED BY <1>5, <1>6

-----------------------------------------------------------------------------
(* A fault is noted exactly while there is one to report. *)

(* What was wrong once stays wrong.                                        *)
LEMMA WrongStays ==
  ASSUME Wrong, ConfigTypeOK, alloc_failures' \in Nat,
         alloc_failures' >= alloc_failures, UNCHANGED <<file, home>>
  PROVE  Wrong'
<1>1. Valid' = Valid
  BY SameFile
<1>2. alloc_failures \in Nat
  BY ConfigAssumption DEF ConfigTypeOK
<1> QED BY <1>1, <1>2 DEF Wrong

(* Numbers of the calls. *)
LEMMA CallNumbers ==
  ASSUME MemInv
  PROVE  /\ alloc_failures \in Nat /\ urls_read \in Nat
         /\ Len(file.url.elems) \in Nat
         /\ \A s \in Setting : Len(SubElems(file, s)) \in Nat
         /\ \A a \in Calls : /\ frame[a].sub_path_index \in Nat
                            /\ a \in Live /\ a # NULL
                            /\ heap[a].entry \in Setting
                            /\ frame[a].caller \in Calls \cup {NULL}
                            /\ frame[a].caller # current
                            /\ frame[a].error_config \in BOOLEAN
<1>1. /\ ConfigTypeOK /\ HeapType /\ GraphInv
  BY TypedHeap DEF MemInv
<1>2. alloc_failures \in Nat /\ urls_read \in Nat /\ file \in Files
  BY <1>1, ConfigAssumption DEF ConfigTypeOK
<1>3. /\ Len(file.url.elems) \in Nat
      /\ \A s \in Setting : Len(SubElems(file, s)) \in Nat
  <2>1. /\ file.url.elems \in Seq(Setting)
        /\ \A s \in Setting : SubElems(file, s) \in Seq(Setting)
    BY <1>2, FileParts, SubElemsSeq
  <2> QED BY <2>1
<1>4. ASSUME NEW a \in Calls
      PROVE  /\ frame[a].sub_path_index \in Nat
             /\ a \in Live /\ a # NULL
             /\ heap[a].entry \in Setting
             /\ frame[a].caller \in Calls \cup {NULL}
             /\ frame[a].caller # current
             /\ frame[a].error_config \in BOOLEAN
  <2>1. a \in Live /\ frame[a].sub_path_index \in Nat /\ frame[a] \in Frame
    BY <1>1, FrameFields DEF GraphInv, PointersAlive, Live, Calls
  <2>2. frame[a].caller \in Calls \cup {NULL} /\ frame[a].caller # current
    BY <1>1 DEF GraphInv, CallStack
  <2>3. heap[a].entry \in Setting
    BY <1>1, <2>1, NodeFields DEF Node
  <2>4. frame[a].error_config \in BOOLEAN
    BY <2>1 DEF Frame
  <2> QED BY <2>1, <2>2, <2>3, <2>4, ConfigAssumption DEF Live
<1> QED BY <1>2, <1>3, <1>4

(* The next element belongs to the file if the running call's entry does.  *)
LEMMA NextInFile ==
  ASSUME MemInv, NEW s, NextElement(s),
         current # NULL => heap[current].entry \in InFile
  PROVE  s \in InFile
<1>1. file \in Files
  BY DEF MemInv, ConfigTypeOK
<1>2. CASE current = NULL
  <2>1. /\ file.url.elems \in Seq(Setting) /\ urls_read \in Nat
        /\ urls_read < Len(file.url.elems)
        /\ s = file.url.elems[urls_read + 1]
    BY <1>1, <1>2, FileParts, CallNumbers DEF NextElement
  <2>2. urls_read + 1 \in DOMAIN file.url.elems
    BY <2>1
  <2>3. s \in ToSet(file.url.elems)
    BY <2>1, <2>2 DEF ToSet
  <2> QED BY <1>1, <2>3, InFileClosed
<1>3. CASE current # NULL
  <2> DEFINE elems == SubElems(file, heap[current].entry)
             i == frame[current].sub_path_index
  <2>1. current \in Calls
    BY <1>3 DEF MemInv, GraphInv, PointersAlive, Calls, ConfigTypeOK
  <2>2. elems \in Seq(Setting) /\ i \in Nat
    BY <1>1, <2>1, SubElemsSeq, CallNumbers
  <2>3. i < Len(elems) /\ s = elems[i + 1]
    BY <1>3 DEF NextElement
  <2>4. i + 1 \in DOMAIN elems
    BY <2>2, <2>3
  <2>5. s \in ToSet(elems)
    BY <2>3, <2>4 DEF ToSet
  <2> QED BY <1>1, <1>3, <2>5, InFileClosed
<1> QED BY <1>2, <1>3

(* An element of the file that is not a group, or has an error. *)
LEMMA FaultIsWrong ==
  ASSUME NEW s \in InFile,
         ~file.setting[s].group \/ entry_error(file.setting[s])
  PROVE  ~Valid
BY DEF Valid

(* A call that has begun: the calls that wait count one element less.      *)
LEMMA BegunCalls ==
  ASSUME MemInv, MemInv', NEW a, NEW s, Begins(a, s)
  PROVE  /\ a \notin Calls /\ a # current
         /\ Calls' = Calls \cup {a}
         /\ UrlsRead' = UrlsRead
         /\ ReadOf(a)' = 0
         /\ \A b \in Calls :
              /\ b # a
              /\ heap'[b].entry = heap[b].entry
              /\ frame'[b].error_config = frame[b].error_config
              /\ frame'[b].caller = frame[b].caller
              /\ frame'[b].sub_path_index =
                   frame[b].sub_path_index + (IF b = current THEN 1 ELSE 0)
              /\ ReadOf(b)' = ReadOf(b)
<1>0. /\ NextElement(s) /\ a \in Addr /\ heap[a] = NULL /\ current' = a
      /\ frame'[a] # NULL /\ frame'[a].sub_path_index = 0
      /\ \A b \in Addr \ {a} : heap'[b] = heap[b]
      /\ \A b \in Addr \ {a, current} : frame'[b] = frame[b]
      /\ current # NULL =>
           frame'[current].error_config = frame[current].error_config
  BY DEF Begins, Entered
<1>1. a # NULL /\ a \notin Live
  BY <1>0, ConfigAssumption DEF Live
<1>2. a \notin Calls
  BY <1>1, CallNumbers
<1>3. current # NULL => current \in Calls
  BY DEF MemInv, GraphInv, PointersAlive, Calls, ConfigTypeOK
<1>4. a # current
  BY <1>1, <1>2, <1>3
<1>5. current # NULL =>
        /\ frame'[current] # NULL
        /\ frame'[current].caller = frame[current].caller
        /\ frame'[current].sub_path_index = frame[current].sub_path_index + 1
        /\ frame'[current].error_config = frame[current].error_config
  BY <1>0 DEF NextElement
<1>6. Calls' = Calls \cup {a}
  <2>1. ASSUME NEW b \in Addr
        PROVE  frame'[b] # NULL <=> b = a \/ frame[b] # NULL
    BY <1>0, <1>3, <1>5, ConfigAssumption DEF Calls
  <2> QED BY <1>0, <2>1 DEF Calls
<1>7. ASSUME NEW b \in Calls
      PROVE  /\ b # a
             /\ heap'[b].entry = heap[b].entry
             /\ frame'[b].error_config = frame[b].error_config
             /\ frame'[b].caller = frame[b].caller
             /\ frame'[b].sub_path_index =
                  frame[b].sub_path_index + (IF b = current THEN 1 ELSE 0)
             /\ ReadOf(b)' = ReadOf(b)
  <2>1. b # a /\ b \in Addr /\ frame[b].sub_path_index \in Nat /\ b # NULL
    BY <1>2, CallNumbers DEF Calls
  <2>2. heap'[b] = heap[b]
    BY <1>0, <2>1
  <2>3. CASE b = current
    BY <1>0, <1>4, <1>5, <2>1, <2>2, <2>3 DEF ReadOf
  <2>4. CASE b # current
    <3>1. frame'[b] = frame[b]
      BY <1>0, <2>1, <2>4
    <3> QED BY <1>0, <2>1, <2>2, <2>4, <3>1 DEF ReadOf
  <2> QED BY <2>3, <2>4
<1>8. UrlsRead' = UrlsRead
  <2>1. urls_read \in Nat
    BY CallNumbers
  <2>2. urls_read' = urls_read + (IF current = NULL THEN 1 ELSE 0)
    BY <1>0, <2>1 DEF NextElement
  <2> QED BY <1>0, <1>1, <2>1, <2>2 DEF UrlsRead
<1>9. ReadOf(a)' = 0
  BY <1>0 DEF ReadOf
<1> QED BY <1>2, <1>4, <1>6, <1>7, <1>8, <1>9

(* The calls that were in progress go on waiting for theirs. *)
LEMMA WaitingEntries ==
  ASSUME MemInv, CallEntries, NEW s, NextElement(s), file' = file,
         \A b \in Calls :
           /\ heap'[b].entry = heap[b].entry
           /\ frame'[b].caller = frame[b].caller
           /\ frame'[b].sub_path_index =
                frame[b].sub_path_index + (IF b = current THEN 1 ELSE 0),
         NEW b \in Calls
  PROVE  CallEntry(b)'
<1> DEFINE c == frame[b].caller
<1>1. /\ frame[b].sub_path_index <= Len(SubElems(file, heap[b].entry))
      /\ c = NULL => /\ urls_read \in 1..Len(file.url.elems)
                     /\ heap[b].entry = file.url.elems[urls_read]
      /\ c # NULL =>
           /\ frame[c].sub_path_index \in 1..Len(SubElems(file, heap[c].entry))
           /\ heap[b].entry =
                SubElems(file, heap[c].entry)[frame[c].sub_path_index]
  BY DEF CallEntries, CallEntry
<1>2. /\ c \in Calls \cup {NULL} /\ c # current
      /\ frame[b].sub_path_index \in Nat
      /\ Len(SubElems(file, heap[b].entry)) \in Nat
  BY CallNumbers
<1>3. frame'[b].caller = c /\ heap'[b].entry = heap[b].entry
  OBVIOUS
<1>4. frame'[b].sub_path_index <= Len(SubElems(file, heap[b].entry))
  <2>1. CASE b = current
    <3>1. frame[b].sub_path_index < Len(SubElems(file, heap[b].entry))
      BY <2>1, CallNumbers DEF NextElement
    <3>2. frame'[b].sub_path_index = frame[b].sub_path_index + 1
      BY <2>1
    <3> QED BY <1>2, <3>1, <3>2
  <2>2. CASE b # current
    BY <1>1, <1>2, <2>2
  <2> QED BY <2>1, <2>2
<1>5. c # NULL => /\ frame'[c].sub_path_index = frame[c].sub_path_index
                  /\ heap'[c].entry = heap[c].entry
  <2>1. c # NULL => c \in Calls /\ frame[c].sub_path_index \in Nat
    BY <1>2, CallNumbers
  <2> HIDE DEF c
  <2> QED BY <1>2, <2>1
<1>6. c = NULL => urls_read' = urls_read
  <2>1. current # NULL
    BY NoCalls DEF MemInv, GraphInv
  <2> QED BY <2>1 DEF NextElement
<1> HIDE DEF c
<1> QED BY <1>1, <1>3, <1>4, <1>5, <1>6 DEF CallEntry

(* A call begins.                                                          *)
LEMMA FaultBegins ==
  ASSUME MemInv, MemInv', FaultInv, NEW a, NEW s, Begins(a, s)
  PROVE  FaultInv'
<1>1. /\ a \notin Calls /\ a # current
      /\ Calls' = Calls \cup {a}
      /\ UrlsRead' = UrlsRead
      /\ ReadOf(a)' = 0
      /\ \A b \in Calls :
           /\ b # a
           /\ heap'[b].entry = heap[b].entry
           /\ frame'[b].error_config = frame[b].error_config
           /\ frame'[b].caller = frame[b].caller
           /\ frame'[b].sub_path_index =
                frame[b].sub_path_index + (IF b = current THEN 1 ELSE 0)
           /\ ReadOf(b)' = ReadOf(b)
  BY BegunCalls
<1>2. /\ NextElement(s) /\ current' = a /\ reading = "urls" /\ reading' = "urls"
      /\ frame'[a].sub_path_index = 0 /\ frame'[a].caller = current
      /\ heap'[a].entry = s
      /\ frame'[a].error_config =>
           entry_error(file.setting[s]) \/ alloc_failures' > 0
      /\ ~frame'[a].error_config => /\ ~entry_error(file.setting[s])
                                    /\ alloc_failures' = alloc_failures
      /\ alloc_failures' >= alloc_failures
      /\ UNCHANGED <<file, home>>
  BY DEF Begins, Entered
<1>3. current \in Calls \cup {NULL}
  BY DEF MemInv, GraphInv, PointersAlive, Calls, ConfigTypeOK
<1>4. s \in InFile /\ s \in Setting /\ file \in Files
  <2>1. current # NULL => heap[current].entry \in InFile
    BY <1>3 DEF FaultInv, ErrorsNoted
  <2> QED BY <1>2, <2>1, NextInFile DEF NextElement, MemInv, ConfigTypeOK
<1>5. /\ Valid' = Valid /\ InFile' = InFile /\ settings_ok' = settings_ok
  BY <1>2, SameFile
<1>6. alloc_failures' \in Nat /\ ConfigTypeOK
  BY ConfigAssumption DEF MemInv, ConfigTypeOK
<1>7. Verdict'
  BY <1>2 DEF Verdict
<1>8. UrlsFine'
  <2>1. /\ settings_ok /\ \A i \in 1..UrlsRead : Fine(file, file.url.elems[i])
        /\ alloc_failures > 0 => \E b \in Calls : frame[b].error_config
    BY <1>2 DEF FaultInv, UrlsFine
  <2>2. settings_ok' /\ \A i \in 1..UrlsRead' : Fine(file', file'.url.elems[i])
    BY <1>1, <1>2, <1>5, <2>1
  <2>3. ASSUME alloc_failures' > 0
        PROVE  \E b \in Calls' : frame'[b].error_config
    <3>1. CASE frame'[a].error_config
      BY <1>1, <3>1
    <3>2. CASE ~frame'[a].error_config
      <4>1. PICK b \in Calls : frame[b].error_config
        BY <1>2, <2>1, <2>3, <3>2
      <4>2. b \in Calls' /\ frame'[b].error_config
        BY <1>1, <4>1
      <4> QED BY <4>2
    <3> QED BY <3>1, <3>2
  <2> QED BY <2>2, <2>3 DEF UrlsFine
<1>9. ErrorsNoted'
  <2>1. ASSUME NEW b \in Calls
        PROVE  /\ heap'[b].entry \in InFile'
               /\ frame'[b].error_config => Wrong'
               /\ ~frame'[b].error_config =>
                    /\ GoodEntry(file', heap'[b].entry)
                    /\ \A i \in 1..ReadOf(b)' : Fine(file', SubElems(file', heap'[b].entry)[i])
    <3>1. /\ heap[b].entry \in InFile
          /\ frame[b].error_config => Wrong
          /\ ~frame[b].error_config =>
               /\ GoodEntry(file, heap[b].entry)
               /\ \A i \in 1..ReadOf(b) : Fine(file, SubElems(file, heap[b].entry)[i])
      BY DEF FaultInv, ErrorsNoted
    <3>2. Wrong => Wrong'
      BY <1>2, <1>6, WrongStays
    <3> QED BY <1>1, <1>2, <1>5, <3>1, <3>2
  <2>2. /\ heap'[a].entry \in InFile'
        /\ frame'[a].error_config => Wrong'
        /\ ~frame'[a].error_config =>
             /\ GoodEntry(file', heap'[a].entry)
             /\ \A i \in 1..ReadOf(a)' : Fine(file', SubElems(file', heap'[a].entry)[i])
    <3>1. frame'[a].error_config => Wrong'
      BY <1>2, <1>4, <1>5, FaultIsWrong DEF Wrong
    <3>2. ~frame'[a].error_config => GoodEntry(file, s)
      BY <1>2, <1>4, GoodGroup
    <3>3. 1..ReadOf(a)' = {}
      BY <1>1
    <3> QED BY <1>2, <1>4, <1>5, <3>1, <3>2, <3>3
  <2> QED BY <1>1, <2>1, <2>2 DEF ErrorsNoted
<1>10. CallEntries'
  <2>1. CallEntry(a)'
    <3>1. Len(SubElems(file, s)) \in Nat
      BY <1>4, CallNumbers
    <3>2. CASE current = NULL
      <4>1. /\ urls_read \in Nat /\ Len(file.url.elems) \in Nat
            /\ urls_read' = urls_read + 1
            /\ urls_read < Len(file.url.elems)
            /\ s = file.url.elems[urls_read + 1]
        BY <1>2, <3>2, CallNumbers DEF NextElement
      <4> QED BY <1>2, <1>5, <3>1, <3>2, <4>1 DEF CallEntry
    <3>3. CASE current # NULL
      <4> DEFINE n == Len(SubElems(file, heap[current].entry))
                 i == frame[current].sub_path_index
      <4>1. current \in Calls /\ n \in Nat /\ i \in Nat
        BY <1>3, <3>3, CallNumbers
      <4>2. i < n /\ s = SubElems(file, heap[current].entry)[i + 1]
        BY <1>2, <3>3 DEF NextElement
      <4>3. /\ frame'[current].sub_path_index = i + 1
            /\ SubElems(file', heap'[current].entry) = SubElems(file, heap[current].entry)
        BY <1>1, <1>2, <1>5, <4>1
      <4>4. i + 1 \in 1..n
        BY <4>1, <4>2
      <4> QED BY <1>2, <1>5, <3>1, <3>3, <4>2, <4>3, <4>4 DEF CallEntry
    <3> QED BY <3>2, <3>3
  <2>2. \A b \in Calls : CallEntry(b)'
    BY <1>1, <1>2, WaitingEntries DEF FaultInv
  <2> QED BY <1>1, <2>1, <2>2 DEF CallEntries
<1> QED BY <1>7, <1>8, <1>9, <1>10 DEF FaultInv

(* An element is passed over, its caller notes the error.                  *)
LEMMA FaultSkips ==
  ASSUME MemInv, MemInv', FaultInv, NEW s, Skips(s)
  PROVE  FaultInv'
<1>1. /\ NextElement(s) /\ current # NULL /\ current' = current
      /\ reading = "urls" /\ reading' = "urls"
      /\ frame'[current].error_config
      /\ ~file.setting[s].group \/ alloc_failures' > 0
      /\ \A b \in Addr \ {current} : frame'[b] = frame[b]
      /\ alloc_failures' >= alloc_failures
      /\ UNCHANGED <<file, home, heap>>
  BY DEF Skips
<1>2. current \in Calls /\ file \in Files
  BY <1>1 DEF MemInv, GraphInv, PointersAlive, Calls, ConfigTypeOK
<1>3. /\ frame'[current] # NULL /\ urls_read' = urls_read
      /\ frame'[current].caller = frame[current].caller
      /\ frame'[current].sub_path_index = frame[current].sub_path_index + 1
  BY <1>1 DEF NextElement
<1>4. Calls' = Calls
  <2>1. \A b \in Addr : frame'[b] # NULL <=> frame[b] # NULL
    BY <1>1, <1>2, <1>3 DEF Calls
  <2> QED BY <2>1 DEF Calls
<1>5. \A b \in Calls :
        /\ heap'[b].entry = heap[b].entry
        /\ frame'[b].caller = frame[b].caller
        /\ frame'[b].sub_path_index =
             frame[b].sub_path_index + (IF b = current THEN 1 ELSE 0)
  <2>1. \A b \in Calls : frame[b].sub_path_index \in Nat /\ b \in Addr
    BY CallNumbers DEF Calls
  <2> QED BY <1>1, <1>3, <2>1
<1>6. /\ Valid' = Valid /\ InFile' = InFile /\ settings_ok' = settings_ok
  BY <1>1, SameFile
<1>7. alloc_failures' \in Nat /\ ConfigTypeOK
  BY ConfigAssumption DEF MemInv, ConfigTypeOK
<1>8. Wrong'
  <2>1. s \in InFile
    BY <1>1, <1>2, NextInFile DEF FaultInv, ErrorsNoted
  <2> QED BY <1>1, <1>6, <2>1, FaultIsWrong DEF Wrong
<1>9. Verdict'
  BY <1>1 DEF Verdict
<1>10. UrlsFine'
  <2>1. /\ settings_ok /\ \A i \in 1..UrlsRead : Fine(file, file.url.elems[i])
    BY <1>1 DEF FaultInv, UrlsFine
  <2>2. UrlsRead' = UrlsRead
    BY <1>1, <1>3 DEF UrlsRead
  <2>3. settings_ok' /\ \A i \in 1..UrlsRead' : Fine(file', file'.url.elems[i])
    BY <1>1, <1>6, <2>1, <2>2
  <2>4. \E b \in Calls' : frame'[b].error_config
    BY <1>1, <1>2, <1>4
  <2> QED BY <2>3, <2>4 DEF UrlsFine
<1>11. ErrorsNoted'
  <2>1. ASSUME NEW b \in Calls
        PROVE  /\ heap'[b].entry \in InFile'
               /\ frame'[b].error_config => Wrong'
               /\ ~frame'[b].error_config =>
                    /\ GoodEntry(file', heap'[b].entry)
                    /\ \A i \in 1..ReadOf(b)' :
                         Fine(file', SubElems(file', heap'[b].entry)[i])
    <3>1. /\ heap[b].entry \in InFile
          /\ ~frame[b].error_config =>
               /\ GoodEntry(file, heap[b].entry)
               /\ \A i \in 1..ReadOf(b) :
                    Fine(file, SubElems(file, heap[b].entry)[i])
      BY DEF FaultInv, ErrorsNoted
    <3>2. CASE b = current
      BY <1>1, <1>6, <1>8, <3>1, <3>2
    <3>3. CASE b # current
      <4>1. frame'[b] = frame[b] /\ ReadOf(b)' = ReadOf(b)
        BY <1>1, <3>3 DEF ReadOf, Calls
      <4> QED BY <1>1, <1>6, <1>8, <3>1, <4>1
    <3> QED BY <3>2, <3>3
  <2> QED BY <1>4, <2>1 DEF ErrorsNoted
<1>12. CallEntries'
  <2>1. \A b \in Calls : CallEntry(b)'
    BY <1>1, <1>5, WaitingEntries DEF FaultInv
  <2> QED BY <1>4, <2>1 DEF CallEntries
<1> QED BY <1>9, <1>10, <1>11, <1>12 DEF FaultInv

(* No call is in progress at the level of phs_config_read. *)
LEMMA FaultOutside ==
  ASSUME MemInv', current' = NULL, Verdict', UrlsFine'
  PROVE  FaultInv'
<1>1. Calls' = {}
  <2>1. \A S \in SUBSET Addr :
          /\ current' \in S \cup {NULL}
          /\ \A b \in S \cap Calls' : frame'[b].caller \in S \cup {NULL}
          => Calls' \subseteq S
    BY DEF MemInv, GraphInv, CallStack
  <2>2. {} \in SUBSET Addr /\ current' \in {} \cup {NULL}
        /\ \A b \in {} \cap Calls' : frame'[b].caller \in {} \cup {NULL}
    OBVIOUS
  <2>3. Calls' \subseteq {}
    BY <2>1, <2>2
  <2> QED BY <2>3
<1> QED BY <1>1 DEF FaultInv, ErrorsNoted, CallEntries

(* The first allocation for an element of url fails.                       *)
LEMMA FaultRefuses ==
  ASSUME MemInv, MemInv', FaultInv, Refuses
  PROVE  FaultInv'
<1>1. Verdict' /\ UrlsFine' /\ current' = NULL
  BY DEF Refuses, Verdict, Wrong, UrlsFine
<1> QED BY <1>1, FaultOutside

(* The settings are checked.                                               *)
LEMMA FaultReadSettings ==
  ASSUME MemInv, MemInv', FaultInv, ReadSettings
  PROVE  FaultInv'
<1>1. /\ reading = "settings"
      /\ UNCHANGED <<file, home, urls_read, current, frame>>
  BY DEF ReadSettings
<1>2. /\ current = NULL /\ urls_read = 0 /\ alloc_failures = 0
  BY <1>1 DEF MemInv, ReadingUrls, FaultInv, Verdict
<1>3. CASE /\ reading' = (IF settings_ok THEN "urls" ELSE "refused")
           /\ UNCHANGED alloc_failures
  <2>1. Valid' = Valid /\ settings_ok' = settings_ok
    BY <1>1, SameFile
  <2>2. Verdict'
    BY <1>3, <2>1 DEF Verdict, Wrong, Valid
  <2>3. UrlsRead' = 0 /\ ~(alloc_failures' > 0)
    BY <1>1, <1>2, <1>3 DEF UrlsRead
  <2>4. 1..UrlsRead' = {}
    BY <2>3
  <2>5. reading' \in {"urls", "accepted"} => settings_ok'
    BY <1>3, <2>1
  <2>6. UrlsFine'
    BY <2>3, <2>4, <2>5 DEF UrlsFine
  <2> QED BY <1>1, <1>2, <2>2, <2>6, FaultOutside
<1>4. CASE reading' = "thrown"
  <2>1. Verdict' /\ UrlsFine'
    BY <1>4 DEF Verdict, UrlsFine
  <2> QED BY <1>1, <1>2, <2>1, FaultOutside
<1> QED BY <1>3, <1>4 DEF ReadSettings

(* All elements of url were read: if no error, none was there.             *)
LEMMA FaultReadAll ==
  ASSUME MemInv, MemInv', FaultInv, ReadAll
  PROVE  FaultInv'
<1>1. /\ reading = "urls" /\ current = NULL /\ reading' = "accepted"
      /\ UNCHANGED <<file, home, urls_read, current, frame, alloc_failures>>
  BY DEF ReadAll
<1>2. settings_ok' = settings_ok
  BY <1>1, SameFile
<1>3. Verdict'
  BY <1>1 DEF Verdict
<1>4. UrlsFine'
  <2>1. /\ settings_ok /\ \A i \in 1..UrlsRead : Fine(file, file.url.elems[i])
        /\ alloc_failures > 0 => \E b \in Calls : frame[b].error_config
    BY <1>1 DEF FaultInv, UrlsFine
  <2>2. UrlsRead' = UrlsRead /\ Calls' = Calls
    BY <1>1 DEF UrlsRead, Calls
  <2> QED BY <1>1, <1>2, <2>1, <2>2 DEF UrlsFine
<1> QED BY <1>1, <1>3, <1>4, FaultOutside

(* A call that has returned: its caller counts one element more.           *)
LEMMA EndedCalls ==
  ASSUME MemInv, MemInv', NEW a, NEW c, Ends(a, c)
  PROVE  /\ Calls' = Calls \ {a}
         /\ c = NULL => Calls' = {}
         /\ UrlsRead' = UrlsRead + (IF c = NULL THEN 1 ELSE 0)
         /\ ReadOf(a) = Len(SubElems(file, heap[a].entry))
         /\ \A b \in Calls' :
              /\ frame'[b].caller = frame[b].caller
              /\ frame'[b].sub_path_index = frame[b].sub_path_index
              /\ b # c => frame'[b] = frame[b]
              /\ ReadOf(b)' = ReadOf(b) + (IF b = c THEN 1 ELSE 0)
<1>1. /\ a \in Calls /\ a # NULL /\ current = a /\ current' = c /\ c # a
      /\ c \in Calls \cup {NULL} /\ urls_read' = urls_read
      /\ frame[a].sub_path_index = Len(SubElems(file, heap[a].entry))
      /\ frame'[a] = NULL
      /\ \A b \in Addr \ {a, c} : frame'[b] = frame[b]
      /\ c # NULL => /\ frame'[c] # NULL /\ frame'[c].caller = frame[c].caller
                     /\ frame'[c].sub_path_index = frame[c].sub_path_index
  BY DEF Ends
<1>2. Calls' = Calls \ {a}
  <2>1. ASSUME NEW b \in Addr
        PROVE  frame'[b] # NULL <=> b # a /\ frame[b] # NULL
    BY <1>1, ConfigAssumption DEF Calls
  <2> QED BY <2>1 DEF Calls
<1>3. c = NULL => Calls' = {}
  <2> SUFFICES ASSUME c = NULL PROVE Calls' = {}
    OBVIOUS
  <2>1. \A S \in SUBSET Addr :
          /\ current' \in S \cup {NULL}
          /\ \A b \in S \cap Calls' : frame'[b].caller \in S \cup {NULL}
          => Calls' \subseteq S
    BY DEF MemInv, GraphInv, CallStack
  <2>2. {} \in SUBSET Addr /\ current' \in {} \cup {NULL}
        /\ \A b \in {} \cap Calls' : frame'[b].caller \in {} \cup {NULL}
    BY <1>1
  <2>3. Calls' \subseteq {}
    BY <2>1, <2>2
  <2> QED BY <2>3
<1>4. urls_read \in Nat /\ UrlsRead' = UrlsRead + (IF c = NULL THEN 1 ELSE 0)
  <2>1. urls_read \in Nat
    BY CallNumbers
  <2> QED BY <1>1, <2>1 DEF UrlsRead
<1>5. ReadOf(a) = Len(SubElems(file, heap[a].entry))
  <2>1. frame[a].sub_path_index \in Nat
    BY <1>1, CallNumbers
  <2> QED BY <1>1, <2>1 DEF ReadOf
<1>6. ASSUME NEW b \in Calls'
      PROVE  /\ frame'[b].caller = frame[b].caller
             /\ frame'[b].sub_path_index = frame[b].sub_path_index
             /\ b # c => frame'[b] = frame[b]
             /\ ReadOf(b)' = ReadOf(b) + (IF b = c THEN 1 ELSE 0)
  <2>1. b \in Calls /\ b # a /\ b \in Addr /\ b # NULL
    BY <1>2, CallNumbers DEF Calls
  <2>2. frame[b].sub_path_index \in Nat
    BY <2>1, CallNumbers
  <2>3. CASE b = c
    <3>1. /\ frame'[b].caller = frame[b].caller
          /\ frame'[b].sub_path_index = frame[b].sub_path_index
      BY <1>1, <2>1, <2>3
    <3>2. ReadOf(b)' = ReadOf(b) + 1
      BY <1>1, <2>1, <2>2, <2>3, <3>1 DEF ReadOf
    <3> QED BY <2>3, <3>1, <3>2
  <2>4. CASE b # c
    <3>1. frame'[b] = frame[b]
      BY <1>1, <2>1, <2>4
    <3>2. ReadOf(b)' = ReadOf(b)
      BY <1>1, <2>1, <2>4, <3>1 DEF ReadOf
    <3>3. ReadOf(b) \in Int
      BY <2>2 DEF ReadOf
    <3> QED BY <2>4, <3>1, <3>2, <3>3
  <2> QED BY <2>3, <2>4
<1> QED BY <1>2, <1>3, <1>4, <1>5, <1>6

(* A call that ends leaves the other calls on their entries.               *)
LEMMA EndedEntries ==
  ASSUME MemInv, MemInv', CallEntries, NEW a, NEW c, Ends(a, c),
         \A b \in Calls \ {a} : heap'[b].entry = heap[b].entry
  PROVE  CallEntries'
<1>1. /\ Calls' = Calls \ {a}
      /\ \A b \in Calls' :
           /\ frame'[b].caller = frame[b].caller
           /\ frame'[b].sub_path_index = frame[b].sub_path_index
  BY EndedCalls
<1>2. current = a /\ file' = file /\ urls_read' = urls_read
  BY DEF Ends
<1> SUFFICES ASSUME NEW b \in Calls'
             PROVE  CallEntry(b)'
  BY DEF CallEntries
<1> DEFINE d == frame[b].caller
<1>3. b \in Calls /\ CallEntry(b)
  BY <1>1 DEF CallEntries
<1>4. d \in Calls' \cup {NULL}
  BY <1>1, <1>2, <1>3, CallNumbers
<1>5. frame'[b].caller = d /\ heap'[b].entry = heap[b].entry
      /\ frame'[b].sub_path_index = frame[b].sub_path_index
  BY <1>1
<1>6. d # NULL => /\ heap'[d].entry = heap[d].entry
                  /\ frame'[d].sub_path_index = frame[d].sub_path_index
  BY <1>1, <1>4
<1>7. /\ frame[b].sub_path_index <= Len(SubElems(file, heap[b].entry))
      /\ d = NULL => /\ urls_read \in 1..Len(file.url.elems)
                     /\ heap[b].entry = file.url.elems[urls_read]
      /\ d # NULL =>
           /\ frame[d].sub_path_index \in 1..Len(SubElems(file, heap[d].entry))
           /\ heap[b].entry =
                SubElems(file, heap[d].entry)[frame[d].sub_path_index]
  BY <1>3 DEF CallEntry
<1> HIDE DEF d
<1> QED BY <1>2, <1>5, <1>6, <1>7 DEF CallEntry

(* A call that ends without an error has read a good entry to its end.     *)
LEMMA EndedFine ==
  ASSUME MemInv, FaultInv, NEW a, NEW c, Ends(a, c), ~frame[a].error_config
  PROVE  Fine(file, heap[a].entry)
<1>1. /\ a \in Calls /\ file \in Files
      /\ current = a /\ frame[a].sub_path_index = Len(SubElems(file, heap[a].entry))
  BY DEF Ends, MemInv, ConfigTypeOK
<1>2. /\ GoodEntry(file, heap[a].entry)
      /\ \A i \in 1..ReadOf(a) : Fine(file, SubElems(file, heap[a].entry)[i])
  BY <1>1 DEF FaultInv, ErrorsNoted
<1>3. frame[a].sub_path_index \in Nat /\ heap[a].entry \in Setting
  BY <1>1, CallNumbers
<1>4. ReadOf(a) = Len(SubElems(file, heap[a].entry))
  BY <1>1, <1>3 DEF ReadOf
<1> QED BY <1>1, <1>2, <1>3, <1>4, FineUp

(* A call ends well under another.                                         *)
LEMMA FaultAppends ==
  ASSUME MemInv, MemInv', FaultInv, NEW a, NEW c, Appends(a, c)
  PROVE  FaultInv'
<1>1. /\ Ends(a, c) /\ c # NULL /\ ~frame[a].error_config
      /\ c = frame[a].caller /\ c \in Calls /\ a \in Calls /\ c # a
      /\ frame'[c].error_config = frame[c].error_config
      /\ reading = "urls" /\ reading' = "urls"
      /\ UNCHANGED <<file, home, alloc_failures>>
  BY DEF Appends, Ends
<1>2. \A b \in Calls : heap'[b].entry = heap[b].entry
  <2>1. \A b \in Calls : b \in Live /\ b \in Addr
    BY CallNumbers DEF Calls
  <2> QED BY <2>1 DEF Appends, SameContent
<1>3. /\ Calls' = Calls \ {a}
      /\ UrlsRead' = UrlsRead + 0
      /\ \A b \in Calls' :
           /\ b # c => frame'[b] = frame[b]
           /\ ReadOf(b)' = ReadOf(b) + (IF b = c THEN 1 ELSE 0)
  BY <1>1, EndedCalls
<1>4. /\ Valid' = Valid /\ InFile' = InFile /\ settings_ok' = settings_ok
  BY <1>1, SameFile
<1>5. Verdict'
  BY <1>1 DEF Verdict
<1>6. UrlsFine'
  <2>1. /\ settings_ok /\ \A i \in 1..UrlsRead : Fine(file, file.url.elems[i])
        /\ alloc_failures > 0 => \E b \in Calls : frame[b].error_config
    BY <1>1 DEF FaultInv, UrlsFine
  <2>2. UrlsRead' = UrlsRead
    <3>1. urls_read \in Nat
      BY CallNumbers
    <3> QED BY <1>3, <3>1 DEF UrlsRead
  <2>3. ASSUME alloc_failures' > 0
        PROVE  \E b \in Calls' : frame'[b].error_config
    <3>1. PICK b \in Calls : frame[b].error_config
      BY <1>1, <2>1, <2>3
    <3>2. b \in Calls' /\ frame'[b].error_config
      BY <1>1, <1>3, <3>1
    <3> QED BY <3>2
  <2>4. settings_ok' /\ \A i \in 1..UrlsRead' : Fine(file', file'.url.elems[i])
    BY <1>1, <1>4, <2>1, <2>2
  <2> QED BY <2>3, <2>4 DEF UrlsFine
<1>7. ErrorsNoted'
  <2>1. ASSUME NEW b \in Calls'
        PROVE  /\ heap'[b].entry \in InFile'
               /\ frame'[b].error_config => Wrong'
               /\ ~frame'[b].error_config =>
                    /\ GoodEntry(file', heap'[b].entry)
                    /\ \A i \in 1..ReadOf(b)' :
                         Fine(file', SubElems(file', heap'[b].entry)[i])
    <3>1. /\ b \in Calls /\ b # a /\ heap'[b].entry = heap[b].entry
          /\ frame'[b].error_config = frame[b].error_config
      BY <1>1, <1>2, <1>3
    <3>2. /\ heap[b].entry \in InFile
          /\ frame[b].error_config => Wrong
          /\ ~frame[b].error_config =>
               /\ GoodEntry(file, heap[b].entry)
               /\ \A i \in 1..ReadOf(b) :
                    Fine(file, SubElems(file, heap[b].entry)[i])
      BY <3>1 DEF FaultInv, ErrorsNoted
    <3>3. Wrong => Wrong'
      BY <1>1, <1>4 DEF Wrong
    <3>4. CASE b # c
      <4>1. ReadOf(b)' = ReadOf(b)
        <5>1. ReadOf(b) \in Int
          BY <3>1, CallNumbers DEF ReadOf
        <5> QED BY <1>3, <3>4, <5>1
      <4> QED BY <1>1, <1>4, <3>1, <3>2, <3>3, <4>1
    <3>5. CASE b = c
      <4> DEFINE n == frame[c].sub_path_index
                 elems == SubElems(file, heap[c].entry)
      <4>1. n \in Nat /\ n >= 1
        BY <1>1, CallNumbers DEF FaultInv, CallEntries, CallEntry
      <4>2. heap[a].entry = elems[n]
        BY <1>1 DEF FaultInv, CallEntries, CallEntry
      <4>3. Fine(file, elems[n])
        BY <1>1, <4>2, EndedFine
      <4>4. ReadOf(c) = n - 1
        BY <1>1, <4>1 DEF ReadOf, Ends
      <4>5. ReadOf(c)' = n
        BY <1>3, <3>5, <4>1, <4>4
      <4> HIDE DEF n
      <4>6. \A i \in 1..n : i = n \/ i \in 1..(n - 1)
        BY <4>1
      <4>7. ~frame[c].error_config => \A i \in 1..n : Fine(file, elems[i])
        BY <3>2, <3>5, <4>3, <4>4, <4>6
      <4> QED BY <1>1, <1>4, <3>1, <3>2, <3>3, <3>5, <4>5, <4>7
    <3> QED BY <3>4, <3>5
  <2> QED BY <2>1 DEF ErrorsNoted
<1>8. CallEntries'
  BY <1>1, <1>2, EndedEntries DEF FaultInv
<1> QED BY <1>5, <1>6, <1>7, <1>8 DEF FaultInv

(* A call ends well under url.                                             *)
LEMMA FaultPrepends ==
  ASSUME MemInv, MemInv', FaultInv, NEW a, Prepends(a)
  PROVE  FaultInv'
<1>1. /\ Ends(a, NULL) /\ ~frame[a].error_config /\ frame[a].caller = NULL
      /\ a \in Calls /\ current' = NULL /\ current = a /\ a # NULL
      /\ reading = "urls" /\ reading' = "urls"
      /\ UNCHANGED <<file, home, urls_read, alloc_failures>>
  BY DEF Prepends, Ends
<1>2. settings_ok' = settings_ok
  BY <1>1, SameFile
<1>3. Verdict'
  BY <1>1 DEF Verdict
<1>4. UrlsFine'
  <2>1. /\ settings_ok /\ \A i \in 1..UrlsRead : Fine(file, file.url.elems[i])
        /\ alloc_failures > 0 => \E b \in Calls : frame[b].error_config
    BY <1>1 DEF FaultInv, UrlsFine
  <2>2. urls_read \in Nat /\ UrlsRead = urls_read - 1 /\ UrlsRead' = urls_read
    BY <1>1, CallNumbers DEF UrlsRead
  <2>3. heap[a].entry = file.url.elems[urls_read]
    BY <1>1 DEF FaultInv, CallEntries, CallEntry
  <2>4. Fine(file, file.url.elems[urls_read])
    BY <1>1, <2>3, EndedFine
  <2>5. \A i \in 1..urls_read : i = urls_read \/ i \in 1..(urls_read - 1)
    BY <2>2
  <2>6. \A i \in 1..urls_read : Fine(file, file.url.elems[i])
    BY <2>1, <2>2, <2>4, <2>5
  <2>7. ~(alloc_failures > 0)
    <3>1. Calls = {a}
      BY <1>1, EndedCalls
    <3> QED BY <1>1, <2>1, <3>1
  <2>8. \A i \in 1..UrlsRead' : Fine(file', file'.url.elems[i])
    BY <1>1, <2>2, <2>6
  <2> QED BY <1>1, <1>2, <2>1, <2>7, <2>8 DEF UrlsFine
<1> QED BY <1>1, <1>3, <1>4, FaultOutside

(* A call ends with an error, which its caller notes.                      *)
LEMMA FaultDrops ==
  ASSUME MemInv, MemInv', FaultInv, NEW a, NEW c, Drops(a, c)
  PROVE  FaultInv'
<1>1. /\ Ends(a, c) /\ frame[a].error_config /\ a \in Calls /\ current' = c
      /\ c \in Calls \cup {NULL} /\ c # a
      /\ c = NULL => reading' = "refused"
      /\ c # NULL => reading' = reading /\ frame'[c].error_config
      /\ reading = "urls"
      /\ UNCHANGED <<file, home, alloc_failures>>
  BY DEF Drops, Ends
<1>2. Valid' = Valid /\ InFile' = InFile /\ settings_ok' = settings_ok
  BY <1>1, SameFile
<1>3. Wrong /\ Wrong'
  BY <1>1, <1>2 DEF FaultInv, ErrorsNoted, Wrong
<1>4. Verdict'
  BY <1>1, <1>3 DEF Verdict
<1>5. CASE c = NULL
  <2>1. UrlsFine'
    BY <1>1, <1>5 DEF UrlsFine
  <2> QED BY <1>1, <1>4, <1>5, <2>1, FaultOutside
<1>6. CASE c # NULL
  <2>1. /\ Calls' = Calls \ {a}
        /\ UrlsRead' = UrlsRead + 0
        /\ \A b \in Calls' :
             /\ b # c => frame'[b] = frame[b]
             /\ ReadOf(b)' = ReadOf(b) + (IF b = c THEN 1 ELSE 0)
    BY <1>1, <1>6, EndedCalls
  <2>2. \A b \in Calls' : heap'[b] = heap[b]
    <3>1. \A b \in Calls' : heap'[b] # NULL /\ b \in Addr
      BY DEF MemInv, GraphInv, PointersAlive, Calls
    <3>2. \A b \in Addr : heap'[b] # NULL => heap'[b] = heap[b]
      BY DEF Drops, Release
    <3> QED BY <3>1, <3>2
  <2>3. UrlsFine'
    <3>1. /\ settings_ok /\ \A i \in 1..UrlsRead : Fine(file, file.url.elems[i])
      BY <1>1 DEF FaultInv, UrlsFine
    <3>2. UrlsRead' = UrlsRead
      <4>1. urls_read \in Nat
        BY CallNumbers
      <4> QED BY <2>1, <4>1 DEF UrlsRead
    <3>3. \E b \in Calls' : frame'[b].error_config
      BY <1>1, <1>6, <2>1
    <3>4. settings_ok' /\ \A i \in 1..UrlsRead' : Fine(file', file'.url.elems[i])
      BY <1>1, <1>2, <3>1, <3>2
    <3> QED BY <3>3, <3>4 DEF UrlsFine
  <2>4. ErrorsNoted'
    <3>1. ASSUME NEW b \in Calls'
          PROVE  /\ heap'[b].entry \in InFile'
                 /\ ~frame'[b].error_config =>
                      /\ GoodEntry(file', heap'[b].entry)
                      /\ \A i \in 1..ReadOf(b)' :
                           Fine(file', SubElems(file', heap'[b].entry)[i])
      <4>1. /\ heap[b].entry \in InFile
            /\ ~frame[b].error_config =>
                 /\ GoodEntry(file, heap[b].entry)
                 /\ \A i \in 1..ReadOf(b) :
                      Fine(file, SubElems(file, heap[b].entry)[i])
        BY <2>1 DEF FaultInv, ErrorsNoted
      <4>2. CASE b = c
        BY <1>1, <1>2, <1>6, <2>2, <4>1, <4>2
      <4>3. CASE b # c
        <5>1. ReadOf(b) \in Int
          BY <2>1, CallNumbers DEF ReadOf
        <5>2. ReadOf(b)' = ReadOf(b) /\ frame'[b] = frame[b]
          BY <2>1, <4>3, <5>1
        <5> QED BY <1>1, <1>2, <2>2, <4>1, <5>2
      <4> QED BY <4>2, <4>3
    <3> QED BY <1>3, <3>1 DEF ErrorsNoted
  <2>5. CallEntries'
    BY <1>1, <2>1, <2>2, EndedEntries DEF FaultInv
  <2> QED BY <1>4, <2>3, <2>4, <2>5 DEF FaultInv
<1> QED BY <1>5, <1>6

(* Each step of the reading preserves the verdict.                         *)
LEMMA FaultReads ==
  ASSUME MemInv, MemInv', FaultInv, phs_config_read
  PROVE  FaultInv'
<1>1. CASE ReadUrl
  BY <1>1, ReadUrlReads, FaultRefuses, FaultBegins
<1>2. CASE ReadSubPath
  BY <1>2, ReadSubPathReads, FaultBegins, FaultSkips
<1>3. CASE ReturnToSubPath
  BY <1>3, ReturnToSubPathReads, FaultAppends
<1>4. CASE ReturnToUrl
  BY <1>4, ReturnToUrlReads, FaultPrepends
<1>5. CASE ReturnNull
  BY <1>5, ReturnNullReads, FaultDrops
<1> QED BY <1>1, <1>2, <1>3, <1>4, <1>5, FaultReadSettings, FaultReadAll
        DEF phs_config_read

(* Steps that leave the reader alone.                                      *)
LEMMA FaultSame ==
  ASSUME FaultInv, UNCHANGED <<file, home, reader, heap, alloc_failures>>
  PROVE  FaultInv'
<1> USE DEF reader
<1>1. /\ Valid' = Valid /\ InFile' = InFile /\ settings_ok' = settings_ok
  BY SameFile
<1>2. /\ Calls' = Calls /\ UrlsRead' = UrlsRead
      /\ \A b \in Calls : ReadOf(b)' = ReadOf(b)
  BY DEF Calls, UrlsRead, ReadOf
<1>3. Wrong' = Wrong
  BY <1>1 DEF Wrong
<1>4. Verdict'
  BY <1>3 DEF FaultInv, Verdict
<1>5. UrlsFine'
  BY <1>1, <1>2 DEF FaultInv, UrlsFine
<1>6. ErrorsNoted'
  BY <1>1, <1>2, <1>3 DEF FaultInv, ErrorsNoted
<1>7. CallEntries'
  BY <1>2 DEF FaultInv, CallEntries, CallEntry
<1> QED BY <1>4, <1>5, <1>6, <1>7 DEF FaultInv

(* Steps after the reading, which may free the tree.                       *)
LEMMA FaultFrees ==
  ASSUME MemInv', FaultInv, current = NULL,
         UNCHANGED <<file, home, reader, alloc_failures>>
  PROVE  FaultInv'
<1> USE DEF reader
<1>1. /\ Valid' = Valid /\ settings_ok' = settings_ok
  BY SameFile
<1>2. Calls' = Calls /\ UrlsRead' = UrlsRead
  BY DEF Calls, UrlsRead
<1>3. Verdict'
  BY <1>1 DEF FaultInv, Verdict, Wrong
<1>4. UrlsFine'
  BY <1>1, <1>2 DEF FaultInv, UrlsFine
<1> QED BY <1>3, <1>4, FaultOutside

(* Each action preserves FaultInv.                                         *)
LEMMA FaultNext ==
  ASSUME IInv, IInv', FaultInv, [Next]_vars
  PROVE  FaultInv'
<1>1. MemInv /\ MemInv'
  BY DEF IInv
<1>2. CASE ReadConfig
  BY <1>1, <1>2, FaultReads DEF ReadConfig
<1>3. CASE phs_config_free
  <2>1. current = NULL
    BY <1>3 DEF phs_config_free, IInv, MainInv
  <2> QED BY <1>1, <1>3, <2>1, FaultFrees DEF phs_config_free
<1>4. CASE UNCHANGED config_vars
  BY <1>4, FaultSame DEF config_vars, tree
<1>5. ReadConfig \/ phs_config_free \/ UNCHANGED config_vars
  BY DEF Next, Step, Main, Refused, print_first_config, StartDaemon, StopDaemon,
         config_destroy, getchar, PollingThread, vars
<1> QED BY <1>2, <1>3, <1>4, <1>5

(* FaultInv holds in every state. *)
THEOREM FaultInvariance == Spec => []FaultInv
<1>1. Init => FaultInv
  <2> SUFFICES ASSUME Init PROVE FaultInv
    OBVIOUS
  <2>1. /\ reading = "settings" /\ urls_read = 0 /\ alloc_failures = 0
        /\ Calls = {}
    BY DEF Init, ConfigInit, Calls
  <2> QED BY <2>1 DEF FaultInv, Verdict, UrlsFine, ErrorsNoted, CallEntries
<1>2. IInv /\ IInv' /\ FaultInv /\ [Next]_vars => FaultInv'
  BY FaultNext
<1> QED BY <1>1, <1>2, Invariance, PTL DEF Spec

(* phs_config_read accepts a file exactly if its settings are as they      *)
(* should be, every entry at every depth is good and every allocation      *)
(* succeeds.                                                               *)
THEOREM ServerRefusedIfFaulty == Spec => []RefusedIfFaulty
<1>1. ASSUME IInv, CrashInv, FaultInv
      PROVE  RefusedIfFaulty
  <2>1. reading = "refused" => ~Valid \/ alloc_failures > 0
    BY <1>1 DEF FaultInv, Verdict, Wrong
  <2>2. ASSUME reading = "accepted"
        PROVE  Valid /\ alloc_failures = 0
    <3>1. current = NULL /\ urls_read = Len(file.url.elems)
      BY <1>1, <2>2 DEF CrashInv, UrlsReadInv
    <3>2. /\ Calls = {} /\ file \in Files /\ alloc_failures \in Nat
      BY <1>1, <3>1, NoCalls, CallNumbers
         DEF IInv, MemInv, GraphInv, ConfigTypeOK
    <3>3. /\ settings_ok /\ \A i \in 1..UrlsRead : Fine(file, file.url.elems[i])
          /\ alloc_failures > 0 => \E b \in Calls : frame[b].error_config
      BY <1>1, <2>2 DEF FaultInv, UrlsFine
    <3>4. UrlsRead = Len(file.url.elems)
      <4>1. urls_read \in Nat
        BY <1>1, CallNumbers DEF IInv
      <4> QED BY <3>1, <4>1 DEF UrlsRead
    <3>5. Valid
      BY <3>2, <3>3, <3>4, AllFine
    <3>6. alloc_failures = 0
      BY <3>2, <3>3
    <3> QED BY <3>5, <3>6
  <2> QED BY <2>1, <2>2 DEF RefusedIfFaulty
<1>2. IInv /\ CrashInv /\ FaultInv => RefusedIfFaulty
  BY <1>1
<1> QED BY <1>2, Invariance, CrashInvariance, FaultInvariance, PTL

-----------------------------------------------------------------------------
(* The lists of nodes hold the entries read so far. *)

(* The list of x is not touched by a step. *)
LEMMA SameList ==
  ASSUME NEW x, NEW list, ListOf(x, list), Start(x)' = Start(x),
         \A i \in DOMAIN list : /\ list[i] \in Live' \ Calls'
                                /\ heap'[list[i]].next = heap[list[i]].next
  PROVE  ListOf(x, list)'
<1>1. Chained(heap, Start(x), list)
  BY DEF ListOf
<1>2. Chained(heap', Start(x)', list)
  BY <1>1 DEF Chained
<1> QED BY <1>2 DEF ListOf

(* The entries of the lists, when no entry of a node changes.              *)
LEMMA SameReads ==
  ASSUME NEW a, NEW list, ReadsSubPath(a, list), file' = file,
         heap'[a].entry = heap[a].entry, ReadBelow(a)' = ReadBelow(a),
         \A i \in DOMAIN list : heap'[list[i]].entry = heap[list[i]].entry
  PROVE  ReadsSubPath(a, list)'
BY DEF ReadsSubPath

(* The list of url keeps what it holds while its nodes keep theirs.        *)
LEMMA SameUrls ==
  ASSUME NEW list, ReadsUrl(list), file' = file, UrlsRead' = UrlsRead,
         \A i \in DOMAIN list : heap'[list[i]].entry = heap[list[i]].entry
  PROVE  ReadsUrl(list)'
BY DEF ReadsUrl

(* The elements of the lists, of which NULL is none. *)
LEMMA InLists ==
  ASSUME MemInv, NEW kids, Linked(kids), NEW x \in Holders
  PROVE  /\ kids[x] \in Seq(Addr) /\ x \in Addr \cup {NULL}
         /\ DOMAIN kids[x] = 1..Len(kids[x]) /\ Len(kids[x]) \in Nat
         /\ \A i \in DOMAIN kids[x] : /\ kids[x][i] \in Live \ Calls
                                     /\ kids[x][i] # NULL
         /\ kids[x] # <<>> => End(kids[x]) \in Live \ Calls
         /\ kids[x] = <<>> <=> End(kids[x]) = NULL
<1>1. x \in Addr \cup {NULL} /\ kids[x] \in Seq(Addr)
  BY DEF Linked, Holders, Live
<1>2. DOMAIN kids[x] = 1..Len(kids[x]) /\ Len(kids[x]) \in Nat
  BY <1>1
<1>3. \A i \in DOMAIN kids[x] : kids[x][i] \in Live \ Calls
  BY DEF Linked, ListOf
<1>4. \A b \in Live : b # NULL
  BY ConfigAssumption DEF Live
<1>5. kids[x] # <<>> => Len(kids[x]) \in DOMAIN kids[x]
  BY <1>1, <1>2
<1> QED BY <1>1, <1>2, <1>3, <1>4, <1>5 DEF End

(* A call begins: its node holds an empty list.                            *)
LEMMA ListsBegin ==
  ASSUME MemInv, MemInv', NEW a, NEW s, Begins(a, s),
         NEW kids, Linked(kids), Matched(kids)
  PROVE  \E k : Linked(k)' /\ Matched(k)'
<1> DEFINE k == [kids EXCEPT ![a] = <<>>]
<1>0. /\ a \in Addr /\ heap[a] = NULL
      /\ heap'[a] # NULL /\ heap'[a].sub_path = NULL
      /\ \A b \in Addr \ {a} : heap'[b] = heap[b]
      /\ frame'[a] # NULL /\ frame'[a].prev_sub_path_config = NULL
      /\ ~frame'[a].error_config => Copied(file, heap'[a])
      /\ \A b \in Addr \ {a, current} : frame'[b] = frame[b]
      /\ current # NULL =>
           frame'[current].prev_sub_path_config =
             frame[current].prev_sub_path_config
      /\ file' = file /\ first_url_config' = first_url_config
  BY DEF Begins, Entered, NextElement
<1>1. /\ a \notin Calls /\ a # current
      /\ Calls' = Calls \cup {a}
      /\ UrlsRead' = UrlsRead
      /\ ReadOf(a)' = 0
      /\ \A b \in Calls :
           /\ frame'[b].error_config = frame[b].error_config
           /\ ReadOf(b)' = ReadOf(b)
  BY BegunCalls
<1>2. /\ a # NULL /\ a \notin Live /\ Live' = Live \cup {a}
      /\ Holders' = Holders \cup {a}
      /\ \A b \in Live : heap'[b] = heap[b]
  BY <1>0, ConfigAssumption DEF Live, Holders
<1>3. /\ k \in [Addr \cup {NULL} -> Seq(Addr)]
      /\ k[a] = <<>> /\ \A x \in Holders : k[x] = kids[x]
  BY <1>0, <1>2 DEF Linked, Holders, Live
<1> HIDE DEF k
<1>4. \A x \in Holders : Start(x)' = Start(x)
  BY <1>0, <1>2 DEF Start, Holders
<1>5. \A x \in Holders : ListOf(x, k[x])'
  <2> SUFFICES ASSUME NEW x \in Holders PROVE ListOf(x, kids[x])'
    BY <1>3
  <2>1. \A i \in DOMAIN kids[x] :
          /\ kids[x][i] \in Live' \ Calls'
          /\ heap'[kids[x][i]].next = heap[kids[x][i]].next
    BY <1>1, <1>2, InLists
  <2> QED BY <1>4, <2>1, SameList DEF Linked
<1>6. ListOf(a, k[a])'
  <2>1. Start(a)' = NULL
    BY <1>0, <1>2 DEF Start
  <2> QED BY <1>3, <2>1 DEF ListOf, Chained
<1>7. ASSUME NEW x \in Holders', NEW y \in Holders',
             k[x] # <<>>, k[y] # <<>>, x # y
      PROVE  End(k[x]) # End(k[y])
  BY <1>2, <1>3, <1>7 DEF Linked
<1>8. ASSUME NEW b \in Calls'
      PROVE  frame'[b].prev_sub_path_config = End(k[b])
  <2>1. CASE b = a
    BY <1>0, <1>3, <2>1 DEF End
  <2>2. CASE b # a
    <3>1. b \in Calls /\ b \in Holders /\ b # NULL /\ b \in Addr
      BY <1>1, <2>2, CallNumbers DEF Holders, Calls
    <3>2. frame'[b].prev_sub_path_config = frame[b].prev_sub_path_config
      BY <1>0, <2>2, <3>1
    <3> QED BY <1>3, <3>1, <3>2 DEF Linked
  <2> QED BY <2>1, <2>2
<1>9. Linked(k)'
  BY <1>2, <1>3, <1>5, <1>6, <1>7, <1>8 DEF Linked
<1>10. ASSUME NEW x \in Live', Sound(x)'
       PROVE  Copied(file, heap[x])' /\ ReadsSubPath(x, k[x])'
  <2>1. CASE x = a
    <3>1. Copied(file, heap[x])'
      BY <1>0, <1>1, <1>10, <2>1 DEF Sound
    <3>2. ReadBelow(a)' = 0
      BY <1>1 DEF ReadBelow
    <3> QED BY <1>3, <2>1, <3>1, <3>2 DEF ReadsSubPath
  <2>2. CASE x # a
    <3>1. x \in Live /\ heap'[x] = heap[x] /\ x \in Holders
      BY <1>2, <2>2 DEF Holders
    <3>2. Sound(x) /\ ReadBelow(x)' = ReadBelow(x)
      BY <1>0, <1>1, <1>10, <2>2, <3>1 DEF Sound, ReadBelow
    <3>3. Copied(file, heap[x]) /\ ReadsSubPath(x, kids[x])
      BY <3>1, <3>2 DEF Matched
    <3>4. \A i \in DOMAIN kids[x] :
            heap'[kids[x][i]].entry = heap[kids[x][i]].entry
      BY <1>2, <3>1, InLists
    <3>5. ReadsSubPath(x, kids[x])'
      BY <1>0, <3>1, <3>2, <3>3, <3>4, SameReads
    <3> QED BY <1>0, <1>3, <3>1, <3>3, <3>5
  <2> QED BY <2>1, <2>2
<1>11. ReadsUrl(k[NULL])'
  <2>1. NULL \in Holders
    BY DEF Holders
  <2>2. \A i \in DOMAIN kids[NULL] :
          heap'[kids[NULL][i]].entry = heap[kids[NULL][i]].entry
    BY <1>2, <2>1, InLists
  <2>3. ReadsUrl(kids[NULL])'
    BY <1>0, <1>1, <2>2, SameUrls DEF Matched
  <2> QED BY <1>3, <2>1, <2>3
<1>12. Matched(k)'
  BY <1>10, <1>11 DEF Matched
<1> QED BY <1>9, <1>12

(* An element is passed over: its caller is no longer sound.               *)
LEMMA ListsSkip ==
  ASSUME MemInv, MemInv', NEW s, Skips(s), NEW kids, Linked(kids), Matched(kids)
  PROVE  Linked(kids)' /\ Matched(kids)'
<1>1. /\ current # NULL /\ frame'[current].error_config
      /\ frame'[current] # NULL
      /\ frame'[current].prev_sub_path_config =
           frame[current].prev_sub_path_config
      /\ \A b \in Addr \ {current} : frame'[b] = frame[b]
      /\ urls_read' = urls_read
      /\ UNCHANGED <<file, current, heap, first_url_config>>
  BY DEF Skips, NextElement
<1>2. current \in Calls
  BY <1>1 DEF MemInv, GraphInv, PointersAlive, Calls, ConfigTypeOK
<1>3. Calls' = Calls /\ Live' = Live /\ Holders' = Holders /\ UrlsRead' = UrlsRead
  <2>1. \A b \in Addr : frame'[b] = NULL <=> frame[b] = NULL
    BY <1>1, <1>2 DEF Calls
  <2> QED BY <1>1, <2>1 DEF Calls, Live, Holders, UrlsRead
<1>4. \A x \in Holders : ListOf(x, kids[x])'
  BY <1>1, <1>3 DEF Linked, ListOf, Start
<1>5. \A b \in Calls : frame'[b].prev_sub_path_config = frame[b].prev_sub_path_config
  BY <1>1 DEF Calls
<1>6. Linked(kids)'
  BY <1>3, <1>4, <1>5 DEF Linked
<1>7. ASSUME NEW x \in Live, Sound(x)'
      PROVE  Copied(file, heap[x])' /\ ReadsSubPath(x, kids[x])'
  <2>1. x # current
    BY <1>1, <1>2, <1>3, <1>7 DEF Sound
  <2>2. Sound(x) /\ ReadBelow(x)' = ReadBelow(x)
    BY <1>1, <1>3, <1>7, <2>1 DEF Sound, ReadBelow, ReadOf, Calls
  <2> QED BY <1>1, <2>2, SameReads DEF Matched
<1>8. Matched(kids)'
  BY <1>1, <1>3, <1>7, SameUrls DEF Matched
<1> QED BY <1>6, <1>8

(* The end of a call's list is only there, and is the end of that list.    *)
LEMMA OnlyPlace ==
  ASSUME MemInv, NEW kids, Linked(kids), NEW c \in Calls,
         NEW x \in Holders, NEW i \in DOMAIN kids[x],
         kids[x][i] = frame[c].prev_sub_path_config
  PROVE  x = c /\ i = Len(kids[x])
<1> DEFINE prev == frame[c].prev_sub_path_config
<1>1. /\ kids[x][i] \in Live /\ kids[x][i] # NULL /\ Len(kids[x]) \in Nat
      /\ DOMAIN kids[x] = 1..Len(kids[x])
  BY InLists
<1>2. heap[prev].next = NULL
  BY <1>1 DEF MemInv, GraphInv, SubPathLoops
<1>3. heap[kids[x][i]].next = IF i = Len(kids[x]) THEN NULL ELSE kids[x][i + 1]
  BY DEF Linked, ListOf, Chained
<1>4. i = Len(kids[x])
  <2> SUFFICES ASSUME i # Len(kids[x]) PROVE FALSE
    OBVIOUS
  <2>1. i + 1 \in DOMAIN kids[x]
    BY <1>1
  <2>2. kids[x][i + 1] # NULL
    BY <2>1, InLists
  <2> QED BY <1>2, <1>3, <2>2
<1>5. /\ kids[x] # <<>> /\ End(kids[x]) = prev
  <2>1. kids[x] # <<>>
    BY <1>1
  <2> QED BY <1>4, <2>1 DEF End
<1>6. c \in Holders /\ prev = End(kids[c]) /\ kids[c] # <<>>
  <2>1. c \in Holders /\ prev = End(kids[c])
    BY CallNumbers DEF Linked, Holders
  <2> QED BY <1>1, <2>1, InLists
<1>7. x = c
  BY <1>5, <1>6 DEF Linked
<1> QED BY <1>4, <1>7

(* A node that keeps its content keeps what it copied.                     *)
LEMMA CopiedSame ==
  ASSUME NEW f, NEW m, NEW n, SameContent(m, n), Copied(f, m)
  PROVE  Copied(f, n)
<1>1. \A k \in {"method", "get_param"} : n[k] = m[k]
  BY DEF SameContent
<1> QED BY <1>1 DEF Copied, SameContent

(* The node of a call that returns, with all that it read. *)
LEMMA EndedReads ==
  ASSUME MemInv, MemInv', NEW a, NEW c, Ends(a, c), ~frame[a].error_config,
         NEW kids, Matched(kids), a \in Live', heap'[a].entry = heap[a].entry,
         SameContent(heap[a], heap'[a]),
         \A i \in DOMAIN kids[a] : heap'[kids[a][i]].entry = heap[kids[a][i]].entry
  PROVE  Copied(file, heap[a])' /\ ReadsSubPath(a, kids[a])'
<1>1. a \in Calls /\ a \in Live /\ file' = file
  BY DEF Ends
<1>2. Copied(file, heap[a]) /\ ReadsSubPath(a, kids[a])
  BY <1>1 DEF Matched, Sound
<1>3. Copied(file, heap[a])'
  <2>1. Copied(file, heap'[a])
    BY <1>2, CopiedSame
  <2> QED BY <1>1, <2>1
<1>4. ReadBelow(a) = Len(SubElems(file, heap[a].entry)) /\ a \notin Calls'
  BY <1>1, EndedCalls DEF ReadBelow
<1>5. ReadBelow(a)' = ReadBelow(a)
  BY <1>1, <1>4 DEF ReadBelow
<1> QED BY <1>1, <1>2, <1>3, <1>5, SameReads

(* a goes to the end of the list of c. *)
LEMMA ListsAppend ==
  ASSUME MemInv, MemInv', FaultInv, NEW a, NEW c, Appends(a, c),
         NEW kids, Linked(kids), Matched(kids)
  PROVE  \E k : Linked(k)' /\ Matched(k)'
<1> DEFINE k == [kids EXCEPT ![c] = Append(kids[c], a)]
           prev == frame[c].prev_sub_path_config
           n == Len(kids[c])
<1>0. /\ Ends(a, c) /\ c # NULL /\ ~frame[a].error_config
      /\ frame'[c].error_config = frame[c].error_config
      /\ frame'[c].prev_sub_path_config = a
      /\ \A b \in Addr :
           /\ heap'[b] = NULL <=> heap[b] = NULL
           /\ b \in Live =>
                /\ SameContent(heap[b], heap'[b])
                /\ heap'[b].next = IF prev # NULL /\ b = prev
                                   THEN a ELSE heap[b].next
                /\ heap'[b].sub_path = IF prev = NULL /\ b = c
                                       THEN a ELSE heap[b].sub_path
      /\ file' = file /\ first_url_config' = first_url_config
  BY DEF Appends, Ends
<1>1. /\ a \in Calls /\ a \in Live /\ a # NULL /\ current = a
      /\ c = frame[a].caller /\ c \in Calls /\ c \in Live /\ c # a
      /\ a \in Addr /\ c \in Addr
  BY <1>0 DEF Ends, Calls
<1>2. /\ Calls' = Calls \ {a} /\ UrlsRead' = UrlsRead
      /\ \A b \in Calls' :
           /\ b # c => frame'[b] = frame[b]
           /\ ReadOf(b)' = ReadOf(b) + (IF b = c THEN 1 ELSE 0)
  <2>1. UrlsRead \in Int
    BY CallNumbers DEF UrlsRead
  <2> QED BY <1>0, <1>1, <2>1, EndedCalls
<1>3. Live' = Live /\ Holders' = Holders /\ c \in Holders
  BY <1>0, <1>1 DEF Live, Holders
<1>4. /\ kids[c] \in Seq(Addr) /\ n \in Nat
      /\ prev = End(kids[c]) /\ (prev = NULL <=> kids[c] = <<>>)
      /\ prev # a /\ heap[a].next = NULL
  <2>0. prev = End(kids[c])
    BY <1>1 DEF Linked
  <2> HIDE DEF prev
  <2>1. kids[c] \in Seq(Addr) /\ n \in Nat
        /\ (kids[c] = <<>> <=> prev = NULL)
        /\ (kids[c] # <<>> => prev \in Live \ Calls)
    BY <1>3, <2>0, InLists
  <2>2. heap[a].next = NULL
    BY <1>1 DEF MemInv, GraphInv, HeldOnce, Calls
  <2> QED BY <1>1, <2>0, <2>1, <2>2
<1>5. /\ Append(kids[c], a) \in Seq(Addr) /\ Len(Append(kids[c], a)) = n + 1
      /\ Append(kids[c], a)[n + 1] = a
      /\ \A i \in 1..n : Append(kids[c], a)[i] = kids[c][i]
      /\ DOMAIN Append(kids[c], a) = 1..(n + 1)
  BY <1>1, <1>4, AppendProperties
<1>6. /\ k \in [Addr \cup {NULL} -> Seq(Addr)]
      /\ k[c] = Append(kids[c], a)
      /\ \A x \in Holders \ {c} : k[x] = kids[x]
  BY <1>1, <1>5 DEF Linked, Holders, Live
<1> HIDE DEF k, n
<1>7. \A x \in Holders : \A i \in DOMAIN kids[x] :
        /\ kids[x][i] \in Live' \ Calls'
        /\ kids[x][i] # a /\ kids[x][i] \in Addr /\ kids[x][i] \in Live
        /\ heap'[kids[x][i]].entry = heap[kids[x][i]].entry
        /\ x # c \/ i # n => heap'[kids[x][i]].next = heap[kids[x][i]].next
  <2> SUFFICES ASSUME NEW x \in Holders, NEW i \in DOMAIN kids[x]
               PROVE  /\ kids[x][i] \in Live' \ Calls'
                      /\ kids[x][i] # a /\ kids[x][i] \in Addr
                      /\ kids[x][i] \in Live
                      /\ heap'[kids[x][i]].entry = heap[kids[x][i]].entry
                      /\ x # c \/ i # n =>
                           heap'[kids[x][i]].next = heap[kids[x][i]].next
    OBVIOUS
  <2>1. kids[x][i] \in Live \ Calls /\ kids[x][i] \in Addr
    BY InLists DEF Live
  <2>2. x # c \/ i # n => kids[x][i] # prev
    BY <1>1, OnlyPlace DEF n
  <2> HIDE DEF prev
  <2> QED BY <1>0, <1>1, <1>2, <1>3, <2>1, <2>2 DEF SameContent
<1>8. \A x \in Holders \ {c} : Start(x)' = Start(x)
  BY <1>0 DEF Start, Holders, Live
<1>9. \A x \in Holders \ {c} : ListOf(x, k[x])'
  <2> SUFFICES ASSUME NEW x \in Holders, x # c PROVE ListOf(x, kids[x])'
    BY <1>6
  <2> QED BY <1>7, <1>8, SameList DEF Linked
<1>10. ListOf(c, k[c])'
  <2> DEFINE list == Append(kids[c], a)
  <2>0. /\ DOMAIN kids[c] = 1..n /\ n = Len(kids[c])
        /\ Chained(heap, Start(c), kids[c])
    BY <1>3, InLists DEF Linked, ListOf, n
  <2> HIDE DEF list
  <2>1. list \in Seq(Addr) /\ Len(list) = n + 1 /\ list[n + 1] = a
        /\ (\A i \in 1..n : list[i] = kids[c][i]) /\ DOMAIN list = 1..(n + 1)
    BY <1>5 DEF list
  <2>2. \A i \in DOMAIN list : list[i] \in Live' \ Calls'
    <3>1. a \in Live' \ Calls'
      BY <1>1, <1>2, <1>3
    <3>2. \A i \in 1..n : list[i] \in Live' \ Calls'
      BY <1>3, <1>7, <2>0, <2>1
    <3> QED BY <1>4, <2>1, <3>1, <3>2
  <2>3. list # <<>>
    BY <1>4, <2>1
  <2>4. Start(c)' = list[1]
    <3>1. CASE kids[c] = <<>>
      <4>1. n = 0 /\ prev = NULL
        BY <1>4, <3>1 DEF n
      <4>2. heap'[c].sub_path = a
        BY <1>0, <1>1, <4>1
      <4> QED BY <1>0, <2>1, <4>1, <4>2 DEF Start
    <3>2. CASE kids[c] # <<>>
      <4>1. prev # NULL /\ 1 \in 1..n
        <5>1. n # 0
          BY <1>4, <3>2 DEF n
        <5> QED BY <1>4, <3>2, <5>1
      <4>2. heap'[c].sub_path = heap[c].sub_path
        BY <1>0, <1>1, <4>1
      <4>3. Start(c) = kids[c][1]
        BY <2>0, <3>2 DEF Chained
      <4> QED BY <1>0, <2>1, <4>1, <4>2, <4>3 DEF Start
    <3> QED BY <3>1, <3>2
  <2>5. ASSUME NEW i \in DOMAIN list
        PROVE  heap'[list[i]].next = IF i = n + 1 THEN NULL ELSE list[i + 1]
    <3>1. CASE i = n + 1
      <4>1. heap'[a].next = NULL
        BY <1>0, <1>1, <1>4
      <4> QED BY <2>1, <3>1, <4>1
    <3>2. CASE i = n /\ i # n + 1
      <4>1. i \in 1..n /\ kids[c] # <<>>
        BY <1>4, <2>0, <2>1, <3>2
      <4>2. list[i] = prev /\ prev # NULL
        BY <1>4, <2>0, <2>1, <3>2, <4>1 DEF End
      <4>3. prev \in Live /\ prev \in Addr
        BY <1>3, <1>7, <2>0, <2>1, <4>1, <4>2
      <4>4. heap'[list[i]].next = a
        <5> HIDE DEF prev
        <5> QED BY <1>0, <4>2, <4>3
      <4> QED BY <2>1, <3>2, <4>4
    <3>3. CASE i # n /\ i # n + 1
      <4>1. i \in 1..n /\ i + 1 \in 1..n
        BY <1>4, <2>1, <3>3
      <4>2. heap'[kids[c][i]].next = heap[kids[c][i]].next
        BY <1>3, <1>7, <2>0, <3>3, <4>1
      <4>3. heap[kids[c][i]].next = kids[c][i + 1]
        BY <2>0, <3>3, <4>1 DEF Chained
      <4> QED BY <2>1, <3>3, <4>1, <4>2, <4>3
    <3> QED BY <3>1, <3>2, <3>3
  <2>6. Chained(heap', Start(c)', list)
    BY <2>1, <2>3, <2>4, <2>5 DEF Chained
  <2>7. ListOf(c, list)'
    BY <2>2, <2>6 DEF ListOf
  <2> QED BY <1>6, <2>7 DEF list
<1>11. End(k[c]) = a
  <2> DEFINE list == Append(kids[c], a)
  <2>1. Len(list) = n + 1 /\ list[n + 1] = a /\ n \in Nat
    BY <1>4, <1>5
  <2> HIDE DEF list
  <2>2. End(list) = a
    BY <2>1 DEF End
  <2> QED BY <1>6, <2>2 DEF list
<1>12. \A x \in Holders \ {c} : k[x] # <<>> => End(k[x]) # a
  <2> SUFFICES ASSUME NEW x \in Holders \ {c}, k[x] # <<>> PROVE End(k[x]) # a
    OBVIOUS
  <2>1. k[x] = kids[x]
    BY <1>6
  <2>2. End(kids[x]) \in Live \ Calls
    BY <2>1, InLists
  <2> QED BY <1>1, <2>1, <2>2
<1>13. ASSUME NEW x \in Holders', NEW y \in Holders',
              k[x] # <<>>, k[y] # <<>>, x # y
       PROVE  End(k[x]) # End(k[y])
  <2>1. CASE x = c \/ y = c
    BY <1>3, <1>11, <1>12, <1>13, <2>1
  <2>2. CASE x # c /\ y # c
    BY <1>3, <1>6, <1>13, <2>2 DEF Linked
  <2> QED BY <2>1, <2>2
<1>14. ASSUME NEW b \in Calls'
       PROVE  frame'[b].prev_sub_path_config = End(k[b])
  <2>1. CASE b = c
    BY <1>0, <1>11, <2>1
  <2>2. CASE b # c
    <3>1. b \in Calls /\ b \in Holders /\ frame'[b] = frame[b]
      BY <1>2, <2>2, CallNumbers DEF Holders
    <3> QED BY <1>6, <2>2, <3>1 DEF Linked
  <2> QED BY <2>1, <2>2
<1>15. Linked(k)'
  BY <1>3, <1>6, <1>9, <1>10, <1>13, <1>14 DEF Linked
<1>16. \A b \in Live : heap'[b].entry = heap[b].entry
  BY <1>0 DEF SameContent, Live
<1>17. ASSUME NEW x \in Live, x # a, Sound(x)'
       PROVE  Copied(file, heap[x])' /\ ReadsSubPath(x, k[x])'
  <2>1. Sound(x)
    BY <1>0, <1>2, <1>17 DEF Sound
  <2>2. Copied(file, heap[x]) /\ ReadsSubPath(x, kids[x])
    BY <2>1 DEF Matched
  <2>3. Copied(file, heap[x])'
    <3>0. SameContent(heap[x], heap'[x])
      BY <1>0 DEF Live
    <3>1. Copied(file, heap'[x])
      BY <2>2, <3>0, CopiedSame
    <3> QED BY <1>0, <3>1
  <2>4. CASE x # c
    <3>1. ReadBelow(x)' = ReadBelow(x)
      <4>1. x \in Calls => ReadOf(x) \in Int
        BY CallNumbers DEF ReadOf
      <4> QED BY <1>0, <1>2, <1>16, <1>17, <2>4, <4>1 DEF ReadBelow
    <3>2. x \in Holders
      BY DEF Holders
    <3>3. \A i \in DOMAIN kids[x] :
            heap'[kids[x][i]].entry = heap[kids[x][i]].entry
      BY <1>7, <3>2
    <3>4. ReadsSubPath(x, kids[x])'
      BY <1>0, <1>16, <2>2, <3>1, <3>3, SameReads
    <3> QED BY <1>6, <2>3, <2>4, <3>2, <3>4
  <2>5. CASE x = c
    <3> DEFINE list == Append(kids[c], a)
               e == heap[c].entry
    <3>1. /\ ReadOf(c)' = ReadOf(c) + 1 /\ ReadOf(c) = n
          /\ ReadOf(c) = frame[c].sub_path_index - 1
      BY <1>1, <1>2, <2>2, <2>5 DEF ReadsSubPath, ReadBelow, ReadOf, n
    <3>2. ReadBelow(c)' = n + 1 /\ frame[c].sub_path_index = n + 1
      <4>1. frame[c].sub_path_index \in Nat /\ c \in Calls'
        BY <1>1, <1>2, CallNumbers
      <4> QED BY <1>4, <3>1, <4>1 DEF ReadBelow
    <3>3. heap[a].entry = SubElems(file, e)[n + 1]
      BY <1>0, <1>1, <3>2 DEF FaultInv, CallEntries, CallEntry
    <3>4. /\ DOMAIN list = 1..(n + 1) /\ list[n + 1] = a /\ Len(list) = n + 1
          /\ \A i \in 1..n : list[i] = kids[c][i]
          /\ DOMAIN kids[c] = 1..n
      BY <1>3, <1>5, InLists DEF n
    <3> HIDE DEF list
    <3>5. heap'[c].entry = e /\ e = heap[c].entry
      BY <1>1, <1>16
    <3> HIDE DEF e
    <3>6. \A i \in DOMAIN list : heap'[list[i]].entry = SubElems(file, e)[i]
      <4>1. \A i \in 1..n : heap'[kids[c][i]].entry = SubElems(file, e)[i]
        <5>1. \A i \in 1..n : heap[kids[c][i]].entry = SubElems(file, e)[i]
          BY <2>2, <2>5, <3>4, <3>5 DEF ReadsSubPath
        <5>2. \A i \in 1..n : heap'[kids[c][i]].entry = heap[kids[c][i]].entry
          BY <1>3, <1>7, <3>4
        <5> QED BY <5>1, <5>2
      <4>2. heap'[a].entry = SubElems(file, e)[n + 1]
        BY <1>1, <1>16, <3>3
      <4>3. \A i \in 1..(n + 1) : i \in 1..n \/ i = n + 1
        BY <1>4
      <4> QED BY <3>4, <4>1, <4>2, <4>3
    <3>7. ReadsSubPath(c, list)'
      BY <1>0, <3>2, <3>4, <3>5, <3>6 DEF ReadsSubPath
    <3> QED BY <1>6, <2>3, <2>5, <3>7 DEF list
  <2> QED BY <2>4, <2>5
<1>18. Copied(file, heap[a])' /\ ReadsSubPath(a, k[a])'
  <2>1. a \in Holders /\ SameContent(heap[a], heap'[a]) /\ a \in Live'
    BY <1>0, <1>1, <1>3 DEF Holders
  <2>2. \A i \in DOMAIN kids[a] : heap'[kids[a][i]].entry = heap[kids[a][i]].entry
    BY <1>7, <2>1
  <2> QED BY <1>0, <1>1, <1>6, <1>16, <2>1, <2>2, EndedReads
<1>19. ReadsUrl(k[NULL])'
  <2>1. NULL \in Holders
    BY DEF Holders
  <2>2. ReadsUrl(kids[NULL])'
    BY <1>0, <1>2, <1>7, <2>1, SameUrls DEF Matched
  <2> QED BY <1>0, <1>6, <2>1, <2>2
<1>20. Matched(k)'
  BY <1>3, <1>17, <1>18, <1>19 DEF Matched
<1> QED BY <1>15, <1>20

(* a goes to the front of the list of url. *)
LEMMA ListsPrepend ==
  ASSUME MemInv, MemInv', FaultInv, NEW a, Prepends(a),
         NEW kids, Linked(kids), Matched(kids)
  PROVE  \E k : Linked(k)' /\ Matched(k)'
<1> DEFINE old == kids[NULL]
           n == Len(old)
           list == <<a>> \o old
           k == [kids EXCEPT ![NULL] = list]
<1>0. /\ Ends(a, NULL) /\ ~frame[a].error_config
      /\ \A b \in Addr :
           /\ heap'[b] = NULL <=> heap[b] = NULL
           /\ b \in Live =>
                /\ SameContent(heap[b], heap'[b])
                /\ heap'[b].next = IF b = a THEN first_url_config
                                   ELSE heap[b].next
                /\ heap'[b].sub_path = heap[b].sub_path
      /\ file' = file /\ first_url_config' = a
  BY DEF Prepends, Ends
<1>1. /\ a \in Calls /\ a \in Live /\ a # NULL /\ current = a
      /\ NULL = frame[a].caller /\ a \in Addr
  BY <1>0 DEF Ends, Calls
<1>2. /\ Calls' = {} /\ UrlsRead' = UrlsRead + 1
  BY <1>0, EndedCalls
<1>3. Live' = Live /\ Holders' = Holders /\ NULL \in Holders
  BY <1>0 DEF Live, Holders
<1>4. /\ old \in Seq(Addr) /\ n \in Nat /\ DOMAIN old = 1..n
      /\ \A i \in 1..n : old[i] \in Live \ Calls
      /\ old # <<>> => End(old) \in Live \ Calls
      /\ Chained(heap, first_url_config, old)
  <2>1. Chained(heap, first_url_config, old)
    BY <1>3 DEF Linked, ListOf, Start
  <2> QED BY <1>3, <2>1, InLists
<1>5. /\ list \in Seq(Addr) /\ Len(list) = n + 1 /\ list[1] = a
      /\ \A i \in 1..n : list[i + 1] = old[i]
      /\ DOMAIN list = 1..(n + 1)
  <2>1. <<a>> \in Seq(Addr) /\ Len(<<a>>) = 1 /\ <<a>>[1] = a
    BY <1>1
  <2>2. /\ list \in Seq(Addr) /\ Len(list) = 1 + n
        /\ \A i \in 1..(1 + n) : list[i] = IF i <= 1 THEN <<a>>[i] ELSE old[i - 1]
    BY <1>4, <2>1, ConcatProperties
  <2> HIDE DEF list, n, old
  <2>3. \A i \in 1..n : list[i + 1] = old[i]
    BY <1>4, <2>2
  <2> QED BY <1>4, <2>1, <2>2, <2>3
<1>6. /\ k \in [Addr \cup {NULL} -> Seq(Addr)]
      /\ k[NULL] = list
      /\ \A x \in Live : k[x] = kids[x]
  BY <1>1, <1>5, ConfigAssumption DEF Linked, Live
<1> HIDE DEF k, n, list
<1>7. \A x \in Holders : \A i \in DOMAIN kids[x] :
        /\ kids[x][i] \in Live' \ Calls' /\ kids[x][i] # a
        /\ heap'[kids[x][i]].entry = heap[kids[x][i]].entry
        /\ heap'[kids[x][i]].next = heap[kids[x][i]].next
  <2> SUFFICES ASSUME NEW x \in Holders, NEW i \in DOMAIN kids[x]
               PROVE  /\ kids[x][i] \in Live' \ Calls' /\ kids[x][i] # a
                      /\ heap'[kids[x][i]].entry = heap[kids[x][i]].entry
                      /\ heap'[kids[x][i]].next = heap[kids[x][i]].next
    OBVIOUS
  <2>1. kids[x][i] \in Live \ Calls /\ kids[x][i] \in Addr
    BY InLists DEF Live
  <2> QED BY <1>0, <1>1, <1>2, <1>3, <2>1 DEF SameContent
<1>8. \A x \in Live : Start(x)' = Start(x)
  BY <1>0, ConfigAssumption DEF Start, Live
<1>9. \A x \in Live : ListOf(x, k[x])'
  <2> SUFFICES ASSUME NEW x \in Live PROVE ListOf(x, kids[x])'
    BY <1>6
  <2>1. x \in Holders
    BY DEF Holders
  <2> QED BY <1>7, <1>8, <2>1, SameList DEF Linked
<1>10. ListOf(NULL, k[NULL])'
  <2>1. \A i \in 1..(n + 1) : i = 1 \/ (i # 1 /\ i - 1 \in 1..n /\ i = (i - 1) + 1)
    BY <1>4
  <2>2. \A i \in DOMAIN list : list[i] \in Live' \ Calls'
    <3>1. a \in Live' \ Calls' /\ \A i \in 1..n : list[i + 1] \in Live' \ Calls'
      BY <1>1, <1>2, <1>3, <1>4, <1>5
    <3> QED BY <1>5, <2>1, <3>1
  <2>3. list # <<>> /\ Start(NULL)' = list[1]
    BY <1>0, <1>4, <1>5 DEF Start
  <2>4. heap'[list[1]].next = IF 1 = n + 1 THEN NULL ELSE list[2]
    <3>1. heap'[a].next = first_url_config
      BY <1>0, <1>1
    <3>2. first_url_config = IF old = <<>> THEN NULL ELSE old[1]
      BY <1>4 DEF Chained
    <3>3. CASE old = <<>>
      <4>1. n = 0
        BY <3>3 DEF n
      <4> QED BY <1>5, <3>1, <3>2, <3>3, <4>1
    <3>4. CASE old # <<>>
      <4>1. n # 0 /\ 1 \in 1..n
        <5>1. n # 0
          BY <1>4, <3>4 DEF n
        <5> QED BY <1>4, <5>1
      <4>2. list[1 + 1] = old[1]
        BY <1>5, <4>1
      <4> HIDE DEF old
      <4> QED BY <1>4, <1>5, <3>1, <3>2, <3>4, <4>1, <4>2
    <3> QED BY <3>3, <3>4
  <2>5. \A i \in 1..n :
          heap'[list[i + 1]].next = IF i + 1 = n + 1 THEN NULL ELSE list[i + 2]
    <3> SUFFICES ASSUME NEW i \in 1..n
                 PROVE  heap'[list[i + 1]].next =
                          IF i + 1 = n + 1 THEN NULL ELSE list[i + 2]
      OBVIOUS
    <3>1. heap'[old[i]].next = heap[old[i]].next /\ list[i + 1] = old[i]
      BY <1>3, <1>4, <1>5, <1>7
    <3>2. heap[old[i]].next = IF i = n THEN NULL ELSE old[i + 1]
      BY <1>4 DEF Chained, n
    <3>3. i # n => i + 1 \in 1..n /\ list[i + 2] = old[i + 1]
      <4>1. i # n => i + 1 \in 1..n /\ i + 2 = (i + 1) + 1
        BY <1>4
      <4> QED BY <1>5, <4>1
    <3>4. i + 1 = n + 1 <=> i = n
      BY <1>4
    <3> QED BY <3>1, <3>2, <3>3, <3>4
  <2>6. \A i \in DOMAIN list :
          heap'[list[i]].next = IF i = Len(list) THEN NULL ELSE list[i + 1]
    <3> SUFFICES ASSUME NEW i \in 1..(n + 1)
                 PROVE  heap'[list[i]].next = IF i = n + 1 THEN NULL ELSE list[i + 1]
      BY <1>5
    <3>1. CASE i = 1
      BY <2>4, <3>1
    <3>2. CASE i # 1
      <4> DEFINE j == i - 1
      <4>1. j \in 1..n /\ i = j + 1 /\ i + 1 = j + 2
        BY <1>4, <3>2
      <4> HIDE DEF j
      <4> QED BY <2>5, <4>1
    <3> QED BY <3>1, <3>2
  <2>7. Chained(heap', Start(NULL)', list)
    BY <2>3, <2>6 DEF Chained
  <2> QED BY <1>6, <2>2, <2>7 DEF ListOf
<1>11. End(list) = IF old = <<>> THEN a ELSE End(old)
  <2>0. list # <<>> /\ End(list) = list[n + 1]
    BY <1>4, <1>5 DEF End
  <2>1. CASE old = <<>>
    <3>1. n = 0
      BY <2>1 DEF n
    <3> QED BY <1>5, <2>0, <2>1, <3>1
  <2>2. CASE old # <<>>
    <3>1. n # 0 /\ n \in 1..n
      <4>1. n # 0
        BY <1>4, <2>2 DEF n
      <4> QED BY <1>4, <4>1
    <3>2. list[n + 1] = old[n] /\ End(old) = old[n]
      BY <1>5, <2>2, <3>1 DEF End, n
    <3> HIDE DEF old
    <3> QED BY <2>0, <2>2, <3>2
  <2> QED BY <2>1, <2>2
<1>12. \A x \in Live : kids[x] # <<>> => End(kids[x]) # End(list)
  <2> SUFFICES ASSUME NEW x \in Live, kids[x] # <<>>
               PROVE  End(kids[x]) # End(list)
    OBVIOUS
  <2>1. x \in Holders /\ x # NULL /\ End(kids[x]) # a
    <3>1. x \in Holders /\ x # NULL
      BY ConfigAssumption DEF Holders, Live
    <3> QED BY <1>1, <3>1, InLists
  <2>2. old # <<>> => End(kids[x]) # End(old)
    BY <1>3, <2>1 DEF Linked
  <2> HIDE DEF old
  <2> QED BY <1>11, <2>1, <2>2
<1>13. ASSUME NEW x \in Holders', NEW y \in Holders',
              k[x] # <<>>, k[y] # <<>>, x # y
       PROVE  End(k[x]) # End(k[y])
  <2>1. x \in Live \cup {NULL} /\ y \in Live \cup {NULL}
    BY <1>3 DEF Holders
  <2>2. CASE x = NULL \/ y = NULL
    BY <1>6, <1>12, <1>13, <2>1, <2>2
  <2>3. CASE x # NULL /\ y # NULL
    BY <1>3, <1>6, <1>13, <2>1, <2>3 DEF Linked
  <2> QED BY <2>2, <2>3
<1>15. Linked(k)'
  BY <1>2, <1>3, <1>6, <1>9, <1>10, <1>13 DEF Linked, Holders
<1>16. \A b \in Live : heap'[b].entry = heap[b].entry
  BY <1>0 DEF SameContent, Live
<1>17. ASSUME NEW x \in Live, x # a
       PROVE  Copied(file, heap[x])' /\ ReadsSubPath(x, k[x])'
  <2>1. x \notin Calls
    <3>1. Calls = {a}
      BY <1>0, <1>1, <1>2, EndedCalls
    <3> QED BY <1>17, <3>1
  <2>2. Copied(file, heap[x]) /\ ReadsSubPath(x, kids[x])
    BY <2>1 DEF Matched, Sound
  <2>3. Copied(file, heap[x])'
    <3>1. SameContent(heap[x], heap'[x])
      BY <1>0 DEF Live
    <3>2. Copied(file, heap'[x])
      BY <2>2, <3>1, CopiedSame
    <3> QED BY <1>0, <3>2
  <2>4. ReadBelow(x)' = ReadBelow(x)
    BY <1>0, <1>2, <1>16, <2>1 DEF ReadBelow
  <2>5. \A i \in DOMAIN kids[x] :
          heap'[kids[x][i]].entry = heap[kids[x][i]].entry
    BY <1>7 DEF Holders
  <2>6. ReadsSubPath(x, kids[x])'
    BY <1>0, <1>16, <2>2, <2>4, <2>5, SameReads
  <2> QED BY <1>6, <2>3, <2>6
<1>18. Copied(file, heap[a])' /\ ReadsSubPath(a, k[a])'
  <2>1. a \in Holders /\ SameContent(heap[a], heap'[a]) /\ a \in Live'
    BY <1>0, <1>1, <1>3 DEF Holders
  <2>2. \A i \in DOMAIN kids[a] : heap'[kids[a][i]].entry = heap[kids[a][i]].entry
    BY <1>7, <2>1
  <2> QED BY <1>0, <1>1, <1>6, <1>16, <2>1, <2>2, EndedReads
<1>19. ReadsUrl(k[NULL])'
  <2>1. Len(old) = UrlsRead /\ \A i \in 1..n :
          heap[old[i]].entry = file.url.elems[n - i + 1]
    BY <1>4 DEF Matched, ReadsUrl, n
  <2>2. UrlsRead = n /\ urls_read = n + 1
    <3>1. urls_read \in Nat /\ UrlsRead = urls_read - 1
      BY <1>1, CallNumbers DEF UrlsRead
    <3> QED BY <2>1, <3>1 DEF n
  <2>3. heap[a].entry = file.url.elems[n + 1]
    BY <1>1, <2>2 DEF FaultInv, CallEntries, CallEntry
  <2>4. heap'[list[1]].entry = file'.url.elems[(n + 1) - 1 + 1]
    <3>1. (n + 1) - 1 + 1 = n + 1
      BY <1>4
    <3> QED BY <1>0, <1>1, <1>5, <1>16, <2>3, <3>1
  <2>5. \A i \in 1..n :
          heap'[list[i + 1]].entry = file'.url.elems[(n + 1) - (i + 1) + 1]
    <3> SUFFICES ASSUME NEW i \in 1..n
                 PROVE  heap'[list[i + 1]].entry =
                          file'.url.elems[(n + 1) - (i + 1) + 1]
      OBVIOUS
    <3>1. (n + 1) - (i + 1) + 1 = n - i + 1
      BY <1>4
    <3>2. list[i + 1] = old[i] /\ heap'[old[i]].entry = heap[old[i]].entry
      BY <1>3, <1>4, <1>5, <1>7
    <3> QED BY <1>0, <2>1, <3>1, <3>2
  <2>6. \A i \in DOMAIN list :
          heap'[list[i]].entry = file'.url.elems[(n + 1) - i + 1]
    <3> SUFFICES ASSUME NEW i \in 1..(n + 1)
                 PROVE  heap'[list[i]].entry = file'.url.elems[(n + 1) - i + 1]
      BY <1>5
    <3>1. CASE i = 1
      BY <2>4, <3>1
    <3>2. CASE i # 1
      <4> DEFINE j == i - 1
      <4>1. j \in 1..n /\ i = j + 1
        BY <1>4, <3>2
      <4> HIDE DEF j
      <4> QED BY <2>5, <4>1
    <3> QED BY <3>1, <3>2
  <2> QED BY <1>2, <1>5, <1>6, <2>2, <2>6 DEF ReadsUrl
<1>20. Matched(k)'
  BY <1>3, <1>17, <1>18, <1>19 DEF Matched
<1> QED BY <1>15, <1>20

(* A set of numbers has a least one.                                       *)
LEMMA LeastIn ==
  ASSUME NEW S \in SUBSET Nat, S # {}
  PROVE  \E x \in S : \A y \in S : x =< y
<1> DEFINE R == {ss \in Nat \X Nat : ss[1] < ss[2]}
<1>1. IsWellFoundedOn(R, Nat)
  BY NatLessThanWellFounded DEF OpToRel
<1> HIDE DEF R
<1>2. PICK x \in S : \A y \in S : ~ (<<y, x>> \in R)
  BY <1>1, WFMin
<1>3. ASSUME NEW y \in S PROVE x =< y
  <2>1. x \in Nat /\ y \in Nat
    OBVIOUS
  <2>2. ~(y < x)
    <3>1. <<y, x>> \in Nat \X Nat /\ <<y, x>>[1] = y /\ <<y, x>>[2] = x
      BY <2>1
    <3> QED BY <1>2, <3>1, Zenon DEF R
  <2> QED BY <2>1, <2>2
<1> QED BY <1>3

(* A list that starts outside D, which only D's nodes point into, stays    *)
(* outside.                                                                *)
LEMMA ListAvoids ==
  ASSUME MemInv, NEW kids, Linked(kids), NEW x \in Holders,
         NEW D, Start(x) \notin D,
         \A y \in Live \ D : heap[y].next \notin D
  PROVE  \A i \in DOMAIN kids[x] : kids[x][i] \notin D
<1> DEFINE list == kids[x]
           Bad == {i \in DOMAIN list : list[i] \in D}
<1> SUFFICES ASSUME Bad # {} PROVE FALSE
  OBVIOUS
<1>1. /\ DOMAIN list = 1..Len(list) /\ Len(list) \in Nat
      /\ \A i \in DOMAIN list : list[i] \in Live
  BY InLists
<1>2. Chained(heap, Start(x), list)
  BY DEF Linked, ListOf
<1>3. PICK m \in Bad : \A i \in Bad : m =< i
  <2>1. Bad \in SUBSET Nat
    BY <1>1
  <2> HIDE DEF Bad
  <2> QED BY <2>1, LeastIn
<1>4. m \in 1..Len(list) /\ list[m] \in D
  BY <1>1, <1>3
<1>5. CASE m = 1
  <2>1. list # <<>>
    BY <1>1, <1>4
  <2>2. Start(x) = list[1]
    BY <1>2, <2>1 DEF Chained
  <2> QED BY <1>4, <1>5, <2>2
<1>6. CASE m # 1
  <2> DEFINE j == m - 1
  <2>1. j \in 1..Len(list) /\ j # Len(list) /\ j + 1 = m /\ ~(m =< j)
    BY <1>1, <1>4, <1>6
  <2> HIDE DEF j
  <2>2. list[j] \notin D /\ list[j] \in Live
    BY <1>1, <1>3, <2>1
  <2>3. heap[list[j]].next = list[m]
    BY <1>1, <1>2, <2>1 DEF Chained
  <2> QED BY <1>4, <2>2, <2>3
<1> QED BY <1>5, <1>6

(* a and what hangs from it is freed, c goes on with an error. *)
LEMMA ListsDrop ==
  ASSUME MemInv, MemInv', NEW a, NEW c, Drops(a, c), c # NULL,
         NEW kids, Linked(kids), Matched(kids)
  PROVE  Linked(kids)' /\ Matched(kids)'
<1> DEFINE D == Subtree(a)
<1>0. /\ Ends(a, c) /\ Release(a) /\ frame'[c].error_config
      /\ frame'[c].prev_sub_path_config = frame[c].prev_sub_path_config
      /\ file' = file /\ first_url_config' = first_url_config
      /\ a \in Calls /\ a \in Live /\ c \in Calls /\ c \in Live
  BY DEF Drops, Ends
<1>1. /\ Calls' = Calls \ {a} /\ UrlsRead' = UrlsRead
      /\ \A b \in Calls' : /\ b # c => frame'[b] = frame[b]
                           /\ b # c => ReadOf(b)' = ReadOf(b)
  <2>1. /\ UrlsRead \in Int
        /\ \A b \in Calls : ReadOf(b) \in Int
    BY CallNumbers DEF UrlsRead, ReadOf
  <2>2. /\ Calls' = Calls \ {a} /\ UrlsRead' = UrlsRead + 0
        /\ \A b \in Calls' : /\ b # c => frame'[b] = frame[b]
                             /\ b # c => ReadOf(b)' = ReadOf(b) + 0
    BY <1>0, EndedCalls
  <2> QED BY <2>1, <2>2
<1>2. Unlinked(a) /\ a # first_url_config /\ HeapType
  BY <1>0, TypedHeap
     DEF MemInv, GraphInv, HeldOnce, Unlinked, Live, Calls
<1>3. /\ a \in D
      /\ \A y \in Live \ D : {heap[y].next, heap[y].sub_path} \cap D = {}
  BY <1>0, <1>2, Freed DEF MemInv, GraphInv
<1>4. /\ Live' = Live \ D
      /\ \A b \in Live' : heap'[b] = heap[b]
      /\ first_url_config \in Live' \cup {NULL}
      /\ \A b \in Calls' : b \in Live'
  BY <1>0, <1>1, <1>2, ReleaseKeeps DEF MemInv
<1>5. NULL \notin D
  BY <1>0, <1>2, Freed, ConfigAssumption DEF MemInv, GraphInv, Live
<1> HIDE DEF D
<1>6. Holders' \subseteq Holders /\ NULL \in Holders' /\ Live' \subseteq Holders'
  BY <1>4 DEF Holders
<1>7. \A x \in Holders' : Start(x)' = Start(x) /\ Start(x) \notin D
  <2> SUFFICES ASSUME NEW x \in Live' \cup {NULL}
               PROVE  Start(x)' = Start(x) /\ Start(x) \notin D
    BY DEF Holders
  <2>1. CASE x = NULL
    BY <1>0, <1>4, <1>5, <2>1 DEF Start
  <2>2. CASE x # NULL
    <3>1. x \in Live \ D /\ heap'[x] = heap[x]
      BY <1>4, <2>2
    <3> QED BY <1>3, <2>2, <3>1 DEF Start
  <2> QED BY <2>1, <2>2
<1>8. \A x \in Holders' : \A i \in DOMAIN kids[x] :
        /\ kids[x][i] \in Live' \ Calls'
        /\ heap'[kids[x][i]] = heap[kids[x][i]]
  <2> SUFFICES ASSUME NEW x \in Holders', NEW i \in DOMAIN kids[x]
               PROVE  /\ kids[x][i] \in Live' \ Calls'
                      /\ heap'[kids[x][i]] = heap[kids[x][i]]
    OBVIOUS
  <2>1. x \in Holders /\ Start(x) \notin D
    BY <1>6, <1>7
  <2>2. kids[x][i] \notin D
    BY <1>3, <2>1, ListAvoids
  <2>3. kids[x][i] \in Live \ Calls
    BY <2>1, InLists
  <2> QED BY <1>1, <1>4, <2>2, <2>3
<1>9. \A x \in Holders' : ListOf(x, kids[x])'
  BY <1>6, <1>7, <1>8, SameList DEF Linked
<1>10. \A b \in Calls' : frame'[b].prev_sub_path_config = End(kids[b])
  <2> SUFFICES ASSUME NEW b \in Calls'
               PROVE  frame'[b].prev_sub_path_config = frame[b].prev_sub_path_config
    BY <1>1 DEF Linked
  <2> QED BY <1>0, <1>1
<1>11. Linked(kids)'
  BY <1>6, <1>9, <1>10 DEF Linked
<1>12. ASSUME NEW x \in Live', Sound(x)'
       PROVE  Copied(file, heap[x])' /\ ReadsSubPath(x, kids[x])'
  <2>1. x # c /\ x # a /\ x \in Live /\ heap'[x] = heap[x] /\ x \in Holders'
    <3>1. c \in Calls'
      BY <1>0, <1>1 DEF Ends
    <3> QED BY <1>0, <1>3, <1>4, <1>6, <1>12, <3>1 DEF Sound
  <2>2. Sound(x)
    BY <1>1, <1>12, <2>1 DEF Sound
  <2>3. ReadBelow(x)' = ReadBelow(x)
    BY <1>0, <1>1, <2>1 DEF ReadBelow
  <2>4. Copied(file, heap[x]) /\ ReadsSubPath(x, kids[x])
    BY <2>1, <2>2 DEF Matched
  <2>5. \A i \in DOMAIN kids[x] :
          heap'[kids[x][i]].entry = heap[kids[x][i]].entry
    BY <1>8, <2>1
  <2>6. ReadsSubPath(x, kids[x])'
    BY <1>0, <2>1, <2>3, <2>4, <2>5, SameReads
  <2> QED BY <1>0, <2>1, <2>4, <2>6
<1>13. ReadsUrl(kids[NULL])'
  BY <1>0, <1>1, <1>6, <1>8, SameUrls DEF Matched
<1>14. Matched(kids)'
  BY <1>12, <1>13 DEF Matched
<1> QED BY <1>11, <1>14

(* Steps that leave the tree and the reader alone.                         *)
LEMMA ListsSame ==
  ASSUME NEW kids, Linked(kids), Matched(kids),
         UNCHANGED <<file, current, frame, heap, urls_read, first_url_config>>
  PROVE  Linked(kids)' /\ Matched(kids)'
<1>1. /\ Calls' = Calls /\ Live' = Live /\ Holders' = Holders
      /\ UrlsRead' = UrlsRead
      /\ \A x : /\ Start(x)' = Start(x) /\ ReadBelow(x)' = ReadBelow(x)
                /\ Sound(x)' <=> Sound(x)
  BY DEF Calls, Live, Holders, UrlsRead, Start, ReadBelow, ReadOf, Sound
<1>2. Linked(kids)'
  BY <1>1 DEF Linked, ListOf
<1>3. Matched(kids)'
  BY <1>1 DEF Matched, ReadsSubPath, ReadsUrl
<1> QED BY <1>2, <1>3

(* Each step of the reading keeps the lists.                               *)
LEMMA ListsRead ==
  ASSUME MemInv, MemInv', FaultInv, phs_config_read, reading' # "refused",
         reading # "refused" => \E kids : Linked(kids) /\ Matched(kids)
  PROVE  \E kids : Linked(kids)' /\ Matched(kids)'
<1>1. CASE ReadSettings \/ ReadAll
  <2>1. /\ reading # "refused"
        /\ UNCHANGED <<file, current, frame, heap, urls_read, first_url_config>>
    BY <1>1 DEF ReadSettings, ReadAll, tree
  <2> QED BY <2>1, ListsSame
<1>2. CASE ReadUrl
  <2>1. PICK a, s : Begins(a, s)
    <3>1. ~Refuses
      BY DEF Refuses
    <3> QED BY <1>2, <3>1, ReadUrlReads
  <2>2. reading # "refused"
    BY <2>1 DEF Begins
  <2> QED BY <2>1, <2>2, ListsBegin
<1>3. CASE ReadSubPath
  <2>1. (\E a, s : Begins(a, s)) \/ (\E s : Skips(s))
    BY <1>3, ReadSubPathReads
  <2>2. reading # "refused"
    BY <2>1 DEF Begins, Skips
  <2> QED BY <2>1, <2>2, ListsBegin, ListsSkip
<1>4. CASE ReturnToSubPath
  <2>1. Appends(current, frame[current].caller)
    BY <1>4, ReturnToSubPathReads
  <2>2. reading # "refused"
    BY <2>1 DEF Appends, Ends
  <2>3. PICK a, c : Appends(a, c)
    BY <2>1
  <2> QED BY <2>2, <2>3, ListsAppend
<1>5. CASE ReturnToUrl
  <2>1. PICK a : Prepends(a)
    BY <1>5, ReturnToUrlReads
  <2>2. reading # "refused"
    BY <2>1 DEF Prepends, Ends
  <2> QED BY <2>1, <2>2, ListsPrepend
<1>6. CASE ReturnNull
  <2>1. PICK a, c : Drops(a, c)
    BY <1>6, ReturnNullReads
  <2>2. reading # "refused" /\ c # NULL
    BY <2>1 DEF Drops, Ends
  <2> QED BY <2>1, <2>2, ListsDrop
<1> QED BY <1>1, <1>2, <1>3, <1>4, <1>5, <1>6 DEF phs_config_read

(* Each action preserves ListInv.                                          *)
LEMMA ListNext ==
  ASSUME IInv, IInv', FaultInv, ListInv, [Next]_vars
  PROVE  ListInv'
<1> SUFFICES ASSUME Serving' PROVE \E kids : Linked(kids)' /\ Matched(kids)'
  BY DEF ListInv
<1>1. MemInv /\ MemInv'
  BY DEF IInv
<1>2. reading' # "refused"
  BY DEF Serving
<1>3. CASE ReadConfig
  <2>1. phs_config_read /\ main = "phs_config_read"
    BY <1>3 DEF ReadConfig
  <2>2. reading # "refused" => \E kids : Linked(kids) /\ Matched(kids)
    BY <2>1 DEF ListInv, Serving
  <2> QED BY <1>1, <1>2, <2>1, <2>2, ListsRead
<1>4. CASE UNCHANGED config_vars /\ Serving
  <2>1. PICK kids : Linked(kids) /\ Matched(kids)
    BY <1>4 DEF ListInv
  <2> QED BY <1>4, <2>1, ListsSame DEF config_vars, reader, tree
<1>5. ReadConfig \/ (UNCHANGED config_vars /\ Serving)
  BY DEF Serving, Next, Step, Main, Refused, print_first_config, StartDaemon,
         StopDaemon, MHD_stop_daemon, config_destroy, getchar, phs_config_free,
         after_refusal, PollingThread, process, vars, config_vars, reader
<1> QED BY <1>3, <1>4, <1>5

(* ListInv holds in every state. *)
THEOREM ListInvariance == Spec => []ListInv
<1>1. Init => ListInv
  <2> SUFFICES ASSUME Init PROVE \E kids : Linked(kids) /\ Matched(kids)
    BY DEF ListInv
  <2> DEFINE kids == [x \in Addr \cup {NULL} |-> <<>>]
  <2>1. /\ Live = {} /\ Calls = {} /\ first_url_config = NULL
        /\ UrlsRead = 0
    BY DEF Init, ConfigInit, Live, Calls, UrlsRead
  <2>2. kids \in [Addr \cup {NULL} -> Seq(Addr)] /\ kids[NULL] = <<>>
    OBVIOUS
  <2> HIDE DEF kids
  <2>3. ListOf(NULL, <<>>)
    BY <2>1 DEF ListOf, Chained, Start
  <2>4. Linked(kids) /\ Matched(kids)
    BY <2>1, <2>2, <2>3 DEF Linked, Matched, Holders, ReadsUrl
  <2> QED BY <2>4
<1>2. IInv /\ IInv' /\ FaultInv /\ ListInv /\ [Next]_vars => ListInv'
  BY ListNext
<1> QED BY <1>1, <1>2, Invariance, FaultInvariance, PTL DEF Spec

-----------------------------------------------------------------------------
(* The tree of an accepted file. *)

(* A list of nodes that is read to its end. *)
LEMMA WholeList ==
  ASSUME MemInv, NEW kids, Linked(kids), NEW x \in Holders,
         NEW settings, settings \in Seq(Setting),
         Len(kids[x]) = Len(settings),
         \A i \in DOMAIN kids[x] : heap[kids[x][i]].entry = settings[i]
  PROVE  IsList(Start(x), settings)
<1> DEFINE p == kids[x]
<1>1. /\ p \in Seq(Addr) /\ DOMAIN p = 1..Len(p) /\ Len(p) \in Nat
      /\ \A i \in DOMAIN p : p[i] \in Live
  BY InLists
<1>2. Chained(heap, Start(x), p)
  BY DEF Linked, ListOf
<1>3. DOMAIN settings = DOMAIN p /\ (settings = <<>> <=> p = <<>>)
  <2>1. DOMAIN settings = 1..Len(settings)
    OBVIOUS
  <2>2. /\ settings = <<>> <=> Len(settings) = 0
        /\ p = <<>> <=> Len(p) = 0
    BY <1>1, EmptySeq
  <2> QED BY <1>1, <2>1, <2>2
<1>4. p \in [DOMAIN settings -> Live]
  BY <1>1, <1>3
<1> HIDE DEF p
<1>5. /\ Start(x) = IF settings = <<>> THEN NULL ELSE p[1]
      /\ \A i \in DOMAIN p :
           /\ heap[p[i]].entry = settings[i]
           /\ heap[p[i]].next = IF i = Len(settings) THEN NULL ELSE p[i + 1]
  BY <1>2, <1>3 DEF Chained, p
<1> QED BY <1>4, <1>5 DEF IsList, Live

(* What the tree is when the file is accepted, until it is released.       *)
TreeIsFile ==
  /\ IsList(first_url_config, Reverse(file.url.elems))
  /\ \A a \in Live : /\ Copied(file, heap[a])
                     /\ IsList(heap[a].sub_path, sub_elems(heap[a].entry))

(* The places of a reversed list.                                          *)
LEMMA ReversedAre ==
  ASSUME NEW X, NEW s \in Seq(X)
  PROVE  /\ Reverse(s) \in Seq(X)
         /\ Len(Reverse(s)) = Len(s)
         /\ \A i \in 1..Len(s) : Reverse(s)[i] = s[Len(s) - i + 1]
BY DEF Reverse

(* When no call is left the lists are the file's.                          *)
LEMMA AcceptedTree ==
  ASSUME IInv, CrashInv, ListInv, Serving, reading = "accepted"
  PROVE  TreeIsFile
<1>1. PICK kids : Linked(kids) /\ Matched(kids)
  BY DEF ListInv
<1>2. /\ MemInv /\ GraphInv /\ file \in Files /\ HeapType
      /\ current = NULL /\ urls_read = Len(file.url.elems)
  BY TypedHeap DEF IInv, MemInv, ConfigTypeOK, CrashInv, UrlsReadInv
<1>3. Calls = {} /\ UrlsRead = Len(file.url.elems)
  <2>1. Calls = {}
    BY <1>2, NoCalls DEF GraphInv
  <2>2. UrlsRead = urls_read
    BY <1>2, CallNumbers DEF UrlsRead
  <2> QED BY <1>2, <2>1, <2>2
<1>4. IsList(first_url_config, Reverse(file.url.elems))
  <2> DEFINE elems == file.url.elems
             list == kids[NULL]
  <2>0. NULL \in Holders /\ Start(NULL) = first_url_config
    BY DEF Holders, Start
  <2>1. elems \in Seq(Setting)
    BY <1>2, FileParts
  <2>2. /\ Len(list) = Len(elems) /\ DOMAIN list = 1..Len(elems)
        /\ \A i \in DOMAIN list : heap[list[i]].entry = elems[Len(elems) - i + 1]
    <3>1. Len(list) = Len(elems)
      BY <1>1, <1>3 DEF Matched, ReadsUrl
    <3>2. DOMAIN list = 1..Len(list)
      BY <1>1, <1>2, <2>0, InLists
    <3>3. \A i \in DOMAIN list : heap[list[i]].entry = elems[Len(list) - i + 1]
      BY <1>1 DEF Matched, ReadsUrl
    <3> QED BY <3>1, <3>2, <3>3
  <2> HIDE DEF elems
  <2>3. /\ Reverse(elems) \in Seq(Setting) /\ Len(Reverse(elems)) = Len(elems)
        /\ \A i \in 1..Len(elems) : Reverse(elems)[i] = elems[Len(elems) - i + 1]
    BY <2>1, ReversedAre
  <2>4. \A i \in DOMAIN list : heap[list[i]].entry = Reverse(elems)[i]
    BY <2>2, <2>3
  <2>5. IsList(Start(NULL), Reverse(elems))
    <3> DEFINE rev == Reverse(elems)
    <3>1. rev \in Seq(Setting) /\ Len(kids[NULL]) = Len(rev)
          /\ \A i \in DOMAIN kids[NULL] : heap[kids[NULL][i]].entry = rev[i]
      BY <2>2, <2>3, <2>4
    <3> HIDE DEF rev
    <3>2. IsList(Start(NULL), rev)
      BY <1>1, <1>2, <2>0, <3>1, WholeList
    <3> QED BY <3>2 DEF rev
  <2> QED BY <2>0, <2>5 DEF elems
<1>5. ASSUME NEW a \in Live
      PROVE  /\ Copied(file, heap[a])
             /\ IsList(heap[a].sub_path, sub_elems(heap[a].entry))
  <2> DEFINE elems == SubElems(file, heap[a].entry)
  <2>0. a \in Holders /\ Start(a) = heap[a].sub_path
    BY ConfigAssumption DEF Holders, Start, Live
  <2>1. Copied(file, heap[a]) /\ ReadsSubPath(a, kids[a])
    BY <1>1, <1>3 DEF Matched, Sound
  <2>2. elems \in Seq(Setting)
    <3>1. heap[a].entry \in Setting
      BY <1>2, NodeFields DEF Node
    <3> QED BY <1>2, <3>1, SubElemsSeq
  <2>3. /\ Len(kids[a]) = Len(elems)
        /\ \A i \in DOMAIN kids[a] : heap[kids[a][i]].entry = elems[i]
    BY <1>3, <2>1 DEF ReadsSubPath, ReadBelow
  <2> HIDE DEF elems
  <2>4. IsList(Start(a), elems)
    BY <1>1, <1>2, <2>0, <2>2, <2>3, WholeList
  <2> QED BY <2>0, <2>1, <2>4, SubElemsAre DEF elems
<1> QED BY <1>4, <1>5 DEF TreeIsFile

(* The tree that main has read and the polling thread routes by is the     *)
(* file's: top-level entries from the last to the first, sub-entries in    *)
(* order, each with its own path or pattern, routine, methods and          *)
(* parameters.                                                             *)
THEOREM ServerReadAsWritten == Spec => []ReadAsWritten
<1>1. ASSUME IInv, CrashInv, ListInv,
             main \in {"MHD_start_daemon", "getchar", "MHD_stop_daemon"}
      PROVE  AsWritten
  <2>1. reading = "accepted" /\ Serving
    <3>1. exit_code # 2
      <4>1. exit_code = NULL
        BY <1>1 DEF IInv, MainInv
      <4> QED BY <4>1, ServerAssumption
    <3>2. reading = "accepted"
      BY <1>1, <3>1 DEF IInv, MainInv
    <3> QED BY <1>1, <3>2 DEF Serving
  <2>2. TreeIsFile
    BY <1>1, <2>1, AcceptedTree
  <2>3. Reachable({first_url_config}) \subseteq Live
    <3>1. Closed(Live) /\ {first_url_config} \ {NULL} \subseteq Live
      BY <1>1, TypedHeap, NodeFields
         DEF IInv, MemInv, GraphInv, PointersAlive, Closed, Live, HeapType
    <3>2. Live \in SUBSET Addr
      BY DEF Live
    <3> QED BY <3>1, <3>2, ReachableLeast
  <2> QED BY <2>2, <2>3 DEF AsWritten, TreeIsFile, Copied
<1>2. IInv /\ CrashInv /\ ListInv => ReadAsWritten
  BY <1>1 DEF ReadAsWritten
<1> QED BY <1>2, Invariance, CrashInvariance, ListInvariance, PTL
=============================================================================
