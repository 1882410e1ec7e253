-------------------------- MODULE PickConfigProofs --------------------------
(***************************************************************************)
(* The memory of the configuration: what the reader allocates, links and   *)
(* frees is a forest held by the list of url and by the calls in progress. *)
(*                                                                         *)
(* Most of the proof is about pointers, not about the reader's actions: a  *)
(* step is first shown to be one of a few changes of the graph (a new      *)
(* call, a call that links its node, a call that frees it, the release of  *)
(* the first entry), and each of these keeps GraphInv.                     *)
(***************************************************************************)
EXTENDS PickConfig, TLAPS, SequenceTheorems

Live == {a \in Addr : heap[a] # NULL}
Calls == {a \in Addr : frame[a] # NULL}

(* The calls in progress form a stack: current is its top, each call but   *)
(* the first was made by the one below, and the stack is all there is.     *)
CallStack ==
  /\ current # NULL => frame[current] # NULL
  /\ \A a \in Calls :
       /\ frame[a].caller # NULL => frame[a].caller \in Calls
       /\ frame[a].caller # current
       /\ \A b \in Calls \ {a} : frame[b].caller # frame[a].caller
  /\ \A S \in SUBSET Addr :
       /\ current \in S \cup {NULL}
       /\ \A b \in S \cap Calls : frame[b].caller \in S \cup {NULL}
       => Calls \subseteq S

(* The induction that a least closed set stands for, as a quantifier over  *)
(* sets: a set with the list's head and the calls that is closed under     *)
(* next and sub_path holds every node.                                     *)
Covered ==
  \A S \in SUBSET Addr :
    /\ first_url_config \in S \cup {NULL}
    /\ Calls \subseteq S
    /\ Closed(S)
    => Live \subseteq S

(* prev_sub_path_config is the end of its node's list, and no other call's. *)
SubPathLoops ==
  \A a \in Calls :
    LET prev == frame[a].prev_sub_path_config IN
    /\ prev = NULL => heap[a].sub_path = NULL
    /\ prev # NULL =>
         /\ prev \notin Calls /\ heap[prev].next = NULL
         /\ \A b \in Calls \ {a} : frame[b].prev_sub_path_config # prev
         /\ \A S \in SUBSET Addr : a \in S /\ Closed(S) => prev \in S

-----------------------------------------------------------------------------
(* The nodes and the pointers, as far as the graph needs them. *)

HeapType ==
  /\ heap \in [Addr -> Node \cup {NULL}]
  /\ frame \in [Addr -> Frame \cup {NULL}]
  /\ current \in Addr \cup {NULL}
  /\ first_url_config \in Addr \cup {NULL}

LEMMA NodeFields ==
  ASSUME HeapType, NEW a \in Live
  PROVE  /\ heap[a] \in Node
         /\ heap[a].next \in Addr \cup {NULL}
         /\ heap[a].sub_path \in Addr \cup {NULL}
BY DEF HeapType, Live, Node

LEMMA FrameFields ==
  ASSUME HeapType, NEW a \in Calls
  PROVE  /\ frame[a] \in Frame
         /\ frame[a].caller \in Addr \cup {NULL}
         /\ frame[a].prev_sub_path_config \in Addr \cup {NULL}
         /\ frame[a].sub_path_index \in Nat
BY DEF HeapType, Calls, Frame

(* Reachable(roots) is the least closed set with the roots. *)
LEMMA ReachableLeast ==
  ASSUME NEW roots, NEW S \in SUBSET Addr, roots \ {NULL} \subseteq S, Closed(S)
  PROVE  Reachable(roots) \subseteq S
BY DEF Reachable

LEMMA ReachableRoots ==
  ASSUME NEW roots, roots \subseteq Addr \cup {NULL}
  PROVE  roots \ {NULL} \subseteq Reachable(roots)
BY DEF Reachable

LEMMA ReachableClosed ==
  ASSUME HeapType, NEW roots
  PROVE  Closed(Reachable(roots))
<1> SUFFICES ASSUME NEW b \in Reachable(roots), heap[b] # NULL,
                    NEW x \in {heap[b].next, heap[b].sub_path}, x # NULL
             PROVE  x \in Reachable(roots)
  BY DEF Closed
<1>1. b \in Live
  BY DEF Reachable, Live
<1>2. x \in Addr
  BY <1>1, NodeFields
<1>3. ASSUME NEW S \in SUBSET Addr, roots \ {NULL} \subseteq S, Closed(S)
      PROVE  x \in S
  <2>1. b \in S
    BY <1>3 DEF Reachable
  <2> QED BY <1>3, <2>1 DEF Closed
<1> QED BY <1>2, <1>3 DEF Reachable

(* A node that nothing points to: what hangs from its sub_path. *)
Unlinked(a) == \A b \in Live : a \notin {heap[b].next, heap[b].sub_path}

LEMMA Hanging ==
  ASSUME HeapType, PointersAlive, NEW a \in Live, Unlinked(a)
  PROVE  LET R == Reachable({heap[a].sub_path}) IN
         /\ R \subseteq Live
         /\ a \notin R
         /\ \A x \in R : \/ x = heap[a].sub_path
                        \/ \E z \in R : x \in {heap[z].next, heap[z].sub_path}
<1> DEFINE R == Reachable({heap[a].sub_path})
           P == {x \in R : /\ x \in Live
                           /\ x # a
                           /\ \/ x = heap[a].sub_path
                              \/ \E z \in R : x \in {heap[z].next, heap[z].sub_path}}
<1>1. R \subseteq Addr
  BY DEF Reachable
<1>2. {heap[a].sub_path} \ {NULL} \subseteq R
  BY ReachableRoots, NodeFields
<1>3. Closed(R)
  BY ReachableClosed
<1>4. heap[a].sub_path # NULL => heap[a].sub_path \in P
  <2>1. heap[a].sub_path # NULL => heap[a].sub_path \in Live
    BY NodeFields DEF PointersAlive, Live
  <2> QED BY <1>2, <2>1 DEF Unlinked
<1>5. Closed(P)
  <2> SUFFICES ASSUME NEW b \in P, NEW x \in {heap[b].next, heap[b].sub_path},
                      x # NULL
               PROVE  x \in P
    BY DEF Closed
  <2>1. b \in R /\ b \in Live
    OBVIOUS
  <2>2. x \in R
    BY <1>3, <2>1 DEF Closed, Live
  <2>3. x \in Live
    BY <2>1, NodeFields DEF PointersAlive, Live
  <2>4. x # a
    BY <2>1 DEF Unlinked
  <2> QED BY <2>1, <2>2, <2>3, <2>4
<1>6. R \subseteq P
  <2>1. P \in SUBSET Addr
    BY <1>1
  <2>2. {heap[a].sub_path} \ {NULL} \subseteq P
    BY <1>4
  <2> HIDE DEF P
  <2> QED BY <1>5, <2>1, <2>2, ReachableLeast
<1> QED BY <1>6

(* A node that nothing points to, but the head of the list perhaps: the    *)
(* cells free_url_config releases hang from one another, nothing else      *)
(* points to them, and they point to nothing else but the node's next.     *)
LEMMA Freed ==
  ASSUME HeapType, PointersAlive, HeldOnce, NEW a \in Live, Unlinked(a)
  PROVE  /\ a \in Subtree(a)
         /\ Subtree(a) \subseteq Live
         /\ \A y \in Live \ Subtree(a) :
              {heap[y].next, heap[y].sub_path} \cap Subtree(a) = {}
         /\ heap[a].next \notin Subtree(a)
         /\ \A x \in Subtree(a) \ {a} :
              \E z \in Live : x \in {heap[z].next, heap[z].sub_path}
         /\ \A b \in Subtree(a) :
              /\ heap[b].sub_path \in Subtree(a) \cup {NULL}
              /\ b # a => heap[b].next \in Subtree(a) \cup {NULL}
<1> DEFINE R == Reachable({heap[a].sub_path})
<1>1. /\ R \subseteq Live
      /\ a \notin R
      /\ \A x \in R : \/ x = heap[a].sub_path
                     \/ \E z \in R : x \in {heap[z].next, heap[z].sub_path}
  BY Hanging
<1>2. Subtree(a) = {a} \cup R
  BY DEF Subtree
<1>3. Closed(R) /\ {heap[a].sub_path} \ {NULL} \subseteq R
  BY ReachableClosed, ReachableRoots, NodeFields
<1> HIDE DEF R
<1>4. \A x, y \in Live : x # y =>
        {heap[x].next, heap[x].sub_path} \cap {heap[y].next, heap[y].sub_path}
          \subseteq {NULL}
  BY DEF HeldOnce, Live
<1>5. NULL \notin Subtree(a)
  BY <1>1, <1>2, ConfigAssumption DEF Live
<1>6. \A x \in R : \E z \in {a} \cup R : x \in {heap[z].next, heap[z].sub_path}
  BY <1>1
<1>7. ASSUME NEW y \in Live \ Subtree(a), NEW x \in {heap[y].next, heap[y].sub_path}
      PROVE  x \notin Subtree(a)
  <2>1. x # a
    BY DEF Unlinked
  <2>2. x \notin R
    <3> SUFFICES ASSUME x \in R PROVE FALSE
      OBVIOUS
    <3>1. PICK z \in {a} \cup R : x \in {heap[z].next, heap[z].sub_path}
      BY <1>6
    <3>2. z \in Live /\ y \in Live /\ z # y
      BY <1>1, <1>2
    <3> QED BY <1>4, <1>5, <1>2, <1>7, <3>1, <3>2
  <2> QED BY <1>2, <2>1, <2>2
<1>8. heap[a].next \notin Subtree(a)
  <2> SUFFICES ASSUME heap[a].next \in R PROVE FALSE
    BY <1>2 DEF Unlinked
  <2>1. heap[a].next # heap[a].sub_path
    BY <1>2, <1>5 DEF HeldOnce, Live
  <2>2. PICK z \in R : heap[a].next \in {heap[z].next, heap[z].sub_path}
    BY <1>1, <2>1
  <2>3. z \in Live /\ z # a /\ heap[a].next # NULL
    BY <1>1, <1>2, <1>5
  <2>4. heap[a].next \in {heap[a].next, heap[a].sub_path}
                          \cap {heap[z].next, heap[z].sub_path}
    BY <2>2
  <2> QED BY <1>4, <2>3, <2>4
<1>9. \A b \in Subtree(a) :
        /\ heap[b].sub_path \in Subtree(a) \cup {NULL}
        /\ b # a => heap[b].next \in Subtree(a) \cup {NULL}
  <2>1. \A b \in R : heap[b].sub_path \in R \cup {NULL}
                    /\ heap[b].next \in R \cup {NULL}
    BY <1>1, <1>3 DEF Closed, Live
  <2> QED BY <1>2, <1>3, <2>1
<1> QED BY <1>1, <1>2, <1>6, <1>7, <1>8, <1>9

-----------------------------------------------------------------------------
(* What each action does to the pointers and to the calls in progress. *)

GraphInv ==
  PointersAlive /\ HeldOnce /\ Covered /\ CallStack /\ SubPathLoops

(* The calls of S go on, with the same caller and the same last element.   *)
SameCalls(S) ==
  \A b \in S :
    /\ frame'[b] = NULL <=> frame[b] = NULL
    /\ frame[b] # NULL =>
         /\ frame'[b].caller = frame[b].caller
         /\ frame'[b].prev_sub_path_config = frame[b].prev_sub_path_config

(* read_url_config is entered with a new node. *)
NewCall(a) ==
  /\ a \in Addr /\ heap[a] = NULL
  /\ heap'[a] # NULL /\ heap'[a].next = NULL /\ heap'[a].sub_path = NULL
  /\ \A b \in Addr \ {a} : heap'[b] = heap[b]
  /\ frame'[a] # NULL /\ frame'[a].caller = current
  /\ frame'[a].prev_sub_path_config = NULL
  /\ SameCalls(Addr \ {a})
  /\ current' = a
  /\ first_url_config' = first_url_config

LEMMA NewCallKeeps ==
  ASSUME HeapType, HeapType', GraphInv, NEW a, NewCall(a)
  PROVE  GraphInv'
<1> USE DEF NewCall
<1>1. a \notin Live /\ a \notin Calls
  BY DEF GraphInv, PointersAlive, Live, Calls
<1>2. Live' = Live \cup {a} /\ Calls' = Calls \cup {a}
  BY DEF Live, Calls, SameCalls
<1>3. \A b \in Live : /\ heap[b].next # a /\ heap[b].sub_path # a
                     /\ heap'[b] = heap[b]
  BY <1>1, ConfigAssumption DEF GraphInv, PointersAlive, Live
<1>4. \A b \in Calls :
        /\ frame[b].caller # a /\ frame[b].prev_sub_path_config # a
        /\ frame'[b].caller = frame[b].caller
        /\ frame'[b].prev_sub_path_config = frame[b].prev_sub_path_config
  BY <1>1, ConfigAssumption
     DEF GraphInv, PointersAlive, Live, Calls, SameCalls
<1>5. a # NULL /\ first_url_config # a /\ current # a
  BY <1>1, ConfigAssumption DEF GraphInv, PointersAlive, Live, Calls
<1>6. ASSUME NEW S \in SUBSET Addr, Closed(S)'
      PROVE  Closed(S)
  BY <1>6 DEF Closed
<1>7. PointersAlive'
  <2>1. \A b \in Live' : {heap'[b].next, heap'[b].sub_path} \subseteq Live' \cup {NULL}
    BY <1>2, <1>3, NodeFields DEF GraphInv, PointersAlive, Live
  <2>2. \A b \in Calls' : /\ b \in Live'
                         /\ frame'[b].caller \in Live' \cup {NULL}
                         /\ frame'[b].prev_sub_path_config \in Live' \cup {NULL}
    BY <1>2, <1>4, FrameFields DEF GraphInv, PointersAlive, Live, Calls, HeapType
  <2>3. first_url_config' \in Live' \cup {NULL}
    BY <1>2 DEF GraphInv, PointersAlive, Live, HeapType
  <2> QED BY <2>1, <2>2, <2>3 DEF PointersAlive, Live, Calls
<1>8. HeldOnce'
  BY <1>1, <1>2, <1>3, <1>4, <1>5 DEF GraphInv, HeldOnce, Live, Calls
<1>9. Covered'
  <2> SUFFICES ASSUME NEW S \in SUBSET Addr, first_url_config' \in S \cup {NULL},
                      Calls' \subseteq S, Closed(S)'
               PROVE  Live' \subseteq S
    BY DEF Covered
  <2>1. Live \subseteq S
    BY <1>2, <1>6 DEF GraphInv, Covered
  <2> QED BY <1>2, <2>1
<1>10. CallStack'
  <2>1. current' # NULL => frame'[current'] # NULL
    OBVIOUS
  <2>2. ASSUME NEW b \in Calls'
        PROVE  /\ frame'[b].caller # NULL => frame'[b].caller \in Calls'
               /\ frame'[b].caller # current'
    BY <1>2, <1>4, <1>5 DEF GraphInv, CallStack, Calls, HeapType
  <2>3. ASSUME NEW b \in Calls', NEW c \in Calls' \ {b}
        PROVE  frame'[c].caller # frame'[b].caller
    BY <1>2, <1>4 DEF GraphInv, CallStack
  <2>4. ASSUME NEW S \in SUBSET Addr, current' \in S \cup {NULL},
               \A b \in S \cap Calls' : frame'[b].caller \in S \cup {NULL}
        PROVE  Calls' \subseteq S
    <3>1. a \in S
      BY <1>5, <2>4
    <3>2. current \in S \cup {NULL}
      BY <1>2, <2>4, <3>1
    <3>3. \A b \in S \cap Calls : frame[b].caller \in S \cup {NULL}
      BY <1>2, <1>4, <2>4
    <3>4. Calls \subseteq S
      BY <3>2, <3>3 DEF GraphInv, CallStack
    <3> QED BY <1>2, <3>1, <3>4
  <2> QED BY <2>1, <2>2, <2>3, <2>4 DEF CallStack
<1>11. SubPathLoops'
  <2> SUFFICES ASSUME NEW b \in Calls'
               PROVE  LET prev == frame'[b].prev_sub_path_config IN
                      /\ prev = NULL => heap'[b].sub_path = NULL
                      /\ prev # NULL =>
                           /\ prev \notin Calls' /\ heap'[prev].next = NULL
                           /\ \A c \in Calls' \ {b} :
                                frame'[c].prev_sub_path_config # prev
                           /\ \A S \in SUBSET Addr :
                                b \in S /\ Closed(S)' => prev \in S
    BY DEF SubPathLoops
  <2>1. CASE b = a
    BY <2>1
  <2>2. CASE b \in Calls
    <3>1. heap'[b] = heap[b]
      BY <1>1, <2>2, <1>3 DEF Calls
    <3>2. frame[b].prev_sub_path_config # NULL =>
            /\ frame[b].prev_sub_path_config \in Addr \ {a}
            /\ heap'[frame[b].prev_sub_path_config]
                 = heap[frame[b].prev_sub_path_config]
      BY <1>4, <2>2, FrameFields
    <3> QED BY <1>2, <1>4, <1>6, <2>2, <3>1, <3>2 DEF GraphInv, SubPathLoops
  <2> QED BY <1>2, <2>1, <2>2
<1> QED BY <1>7, <1>8, <1>9, <1>10, <1>11 DEF GraphInv

-----------------------------------------------------------------------------
(* The cells of free_url_config become free. *)
Release(a) ==
  \A b \in Addr : heap'[b] = IF b \in Subtree(a) THEN NULL ELSE heap[b]

(* A call ends with a fault: its node goes, with what it has read so far.  *)
FailedCall(a) ==
  /\ a \in Calls /\ current = a
  /\ Release(a)
  /\ frame'[a] = NULL /\ SameCalls(Addr \ {a})
  /\ current' = frame[a].caller
  /\ first_url_config' = first_url_config

(* phs_config_free releases the first entry. *)
FreedFirst(a) ==
  /\ a = first_url_config /\ a # NULL /\ current = NULL
  /\ Release(a)
  /\ frame' = frame /\ current' = current
  /\ first_url_config' = heap[a].next

(* What is common to the two: the nodes that stay keep all they point to,  *)
(* calls in progress keep their nodes.                                     *)
LEMMA ReleaseKeeps ==
  ASSUME HeapType, GraphInv, NEW a \in Live, Unlinked(a),
         Release(a)
  PROVE  /\ Live' = Live \ Subtree(a)
         /\ \A b \in Live' :
              /\ heap'[b] = heap[b]
              /\ {heap[b].next, heap[b].sub_path} \subseteq Live' \cup {NULL}
         /\ first_url_config # a => first_url_config \in Live' \cup {NULL}
         /\ heap[a].next \in Live' \cup {NULL}
         /\ \A b \in Calls \ {a} :
              /\ b \in Live'
              /\ frame[b].prev_sub_path_config \in Live' \cup {NULL}
         /\ \A S \in SUBSET Addr :
              /\ Closed(S)' /\ heap[a].next \in S \cup {NULL}
              => Closed(S \cup Subtree(a))
<1> DEFINE D == Subtree(a)
<1>1. /\ a \in D
      /\ D \subseteq Live
      /\ \A y \in Live \ D : {heap[y].next, heap[y].sub_path} \cap D = {}
      /\ heap[a].next \notin D
      /\ \A x \in D \ {a} :
           \E z \in Live : x \in {heap[z].next, heap[z].sub_path}
      /\ \A b \in D : /\ heap[b].sub_path \in D \cup {NULL}
                      /\ b # a => heap[b].next \in D \cup {NULL}
  BY Freed DEF GraphInv
<1>2. Live' = Live \ D /\ \A b \in Live' : heap'[b] = heap[b]
  BY DEF Release, Live
<1> HIDE DEF D
<1>3. \A b \in Live : {heap[b].next, heap[b].sub_path} \subseteq Live \cup {NULL}
  BY NodeFields DEF GraphInv, PointersAlive, Live
<1>4. \A b \in Live' : {heap[b].next, heap[b].sub_path} \subseteq Live' \cup {NULL}
  BY <1>1, <1>2, <1>3
<1>5. first_url_config # a => first_url_config \in Live' \cup {NULL}
  <2>1. first_url_config \in Live \cup {NULL}
    BY DEF GraphInv, PointersAlive, Live, HeapType
  <2>2. first_url_config # NULL => Unlinked(first_url_config)
    BY DEF GraphInv, HeldOnce, Unlinked, Live
  <2> QED BY <1>1, <1>2, <2>1, <2>2 DEF Unlinked
<1>6. heap[a].next \in Live' \cup {NULL}
  BY <1>1, <1>2, <1>3
<1>7. Closed(Addr \ D)
  <2>1. \A b \in Live \ D :
          {heap[b].next, heap[b].sub_path} \subseteq (Addr \ D) \cup {NULL}
    BY <1>1, <1>3 DEF Live
  <2> QED BY <2>1 DEF Closed, Live
<1>8. ASSUME NEW b \in Calls \ {a}
      PROVE  /\ b \in Live'
             /\ frame[b].prev_sub_path_config \in Live' \cup {NULL}
  <2>1. b \in Live /\ Unlinked(b)
    BY DEF GraphInv, PointersAlive, HeldOnce, Live, Calls, Unlinked
  <2>2. b \notin D
    BY <1>1, <2>1 DEF Unlinked
  <2>3. frame[b].prev_sub_path_config \in Live \cup {NULL}
    BY FrameFields DEF GraphInv, PointersAlive, Live, Calls
  <2>4. frame[b].prev_sub_path_config # NULL =>
          frame[b].prev_sub_path_config \in Addr \ D
    <3>1. Addr \ D \in SUBSET Addr /\ b \in Addr \ D
      BY <2>1, <2>2 DEF Live
    <3> QED BY <1>7, <3>1 DEF GraphInv, SubPathLoops
  <2> QED BY <1>2, <2>1, <2>2, <2>3, <2>4
<1>9. ASSUME NEW S \in SUBSET Addr, Closed(S)', heap[a].next \in S \cup {NULL}
      PROVE  Closed(S \cup D)
  <2> SUFFICES ASSUME NEW b \in S \cup D, heap[b] # NULL
               PROVE  {heap[b].next, heap[b].sub_path} \subseteq S \cup D \cup {NULL}
    BY DEF Closed
  <2>1. CASE b \in D
    BY <1>1, <1>9, <2>1
  <2>2. CASE b \notin D
    <3>1. b \in Live' /\ b \in S
      BY <1>2, <2>2 DEF Live
    <3> QED BY <1>2, <1>9, <3>1 DEF Closed, Live
  <2> QED BY <2>1, <2>2
<1> QED BY <1>2, <1>4, <1>5, <1>6, <1>8, <1>9 DEF D

(* The calls in progress when the innermost one returns, however it does.  *)
LEMMA ReturnKeepsStack ==
  ASSUME HeapType, CallStack, NEW a \in Calls, current = a,
         Calls' = Calls \ {a},
         \A b \in Calls' : frame'[b].caller = frame[b].caller,
         current' = frame[a].caller
  PROVE  CallStack'
<1>1. \A b \in Calls : /\ frame[b].caller # a
                      /\ frame[b].caller \in Calls \cup {NULL}
  BY DEF CallStack
<1>2. current' # NULL => frame'[current'] # NULL
  BY <1>1 DEF Calls
<1>3. ASSUME NEW b \in Calls'
      PROVE  /\ frame'[b].caller # NULL => frame'[b].caller \in Calls'
             /\ frame'[b].caller # current'
  BY <1>1 DEF CallStack
<1>4. ASSUME NEW b \in Calls', NEW c \in Calls' \ {b}
      PROVE  frame'[c].caller # frame'[b].caller
  BY DEF CallStack
<1>5. ASSUME NEW S \in SUBSET Addr, current' \in S \cup {NULL},
             \A b \in S \cap Calls' : frame'[b].caller \in S \cup {NULL}
      PROVE  Calls' \subseteq S
  <2>1. S \cup {a} \in SUBSET Addr /\ current \in S \cup {a} \cup {NULL}
    BY DEF Calls
  <2>2. \A b \in (S \cup {a}) \cap Calls :
          frame[b].caller \in S \cup {a} \cup {NULL}
    BY <1>5
  <2>3. Calls \subseteq S \cup {a}
    BY <2>1, <2>2 DEF CallStack
  <2> QED BY <2>3
<1> QED BY <1>2, <1>3, <1>4, <1>5 DEF CallStack

LEMMA FailedCallKeeps ==
  ASSUME HeapType, HeapType', GraphInv, NEW a, FailedCall(a)
  PROVE  GraphInv'
<1> USE DEF FailedCall
<1> DEFINE D == Subtree(a)
<1>1. /\ a \in Live /\ Unlinked(a) /\ heap[a].next = NULL
      /\ a # first_url_config
  BY DEF GraphInv, PointersAlive, HeldOnce, Unlinked, Live, Calls
<1>2. /\ Live' = Live \ D
      /\ \A b \in Live' :
           /\ heap'[b] = heap[b]
           /\ {heap[b].next, heap[b].sub_path} \subseteq Live' \cup {NULL}
      /\ first_url_config \in Live' \cup {NULL}
      /\ \A b \in Calls \ {a} :
           /\ b \in Live'
           /\ frame[b].prev_sub_path_config \in Live' \cup {NULL}
      /\ \A S \in SUBSET Addr : Closed(S)' => Closed(S \cup D)
  BY <1>1, ReleaseKeeps
<1>3. D \subseteq Addr /\ a \in D
  BY DEF Subtree, Reachable, Calls
<1> HIDE DEF D
<1>4. Calls' = Calls \ {a}
  BY DEF Calls, SameCalls
<1>5. \A b \in Calls' :
        /\ frame'[b].caller = frame[b].caller
        /\ frame'[b].prev_sub_path_config = frame[b].prev_sub_path_config
  BY <1>4 DEF SameCalls, Calls
<1>6. \A b \in Calls : /\ frame[b].caller # a
                      /\ frame[b].caller \in Calls \cup {NULL}
  BY DEF GraphInv, CallStack
<1>7. CallStack'
  BY <1>4, <1>5, ReturnKeepsStack DEF GraphInv
<1>8. PointersAlive'
  <2>1. \A b \in Live' : {heap'[b].next, heap'[b].sub_path} \subseteq Live' \cup {NULL}
    BY <1>2
  <2>2. \A b \in Calls' : /\ b \in Live'
                         /\ frame'[b].caller \in Live' \cup {NULL}
                         /\ frame'[b].prev_sub_path_config \in Live' \cup {NULL}
    BY <1>2, <1>4, <1>5, <1>6
  <2> QED BY <1>2, <1>7, <2>1, <2>2
          DEF PointersAlive, Live, Calls, CallStack
<1>9. HeldOnce'
  BY <1>2, <1>4 DEF GraphInv, HeldOnce, Live, Calls
<1>10. Covered'
  <2> SUFFICES ASSUME NEW S \in SUBSET Addr, first_url_config' \in S \cup {NULL},
                      Calls' \subseteq S, Closed(S)'
               PROVE  Live' \subseteq S
    BY DEF Covered
  <2>1. Closed(S \cup D) /\ S \cup D \in SUBSET Addr
    BY <1>2, <1>3
  <2>2. Live \subseteq S \cup D
    BY <1>3, <1>4, <2>1 DEF GraphInv, Covered
  <2> QED BY <1>2, <2>2
<1>11. SubPathLoops'
  <2> SUFFICES ASSUME NEW b \in Calls'
               PROVE  LET prev == frame'[b].prev_sub_path_config IN
                      /\ prev = NULL => heap'[b].sub_path = NULL
                      /\ prev # NULL =>
                           /\ prev \notin Calls' /\ heap'[prev].next = NULL
                           /\ \A c \in Calls' \ {b} :
                                frame'[c].prev_sub_path_config # prev
                           /\ \A S \in SUBSET Addr :
                                b \in S /\ Closed(S)' => prev \in S
    BY DEF SubPathLoops
  <2> DEFINE prev == frame[b].prev_sub_path_config
  <2>1. /\ b \in Calls /\ b \in Live' /\ prev \in Live' \cup {NULL}
        /\ frame'[b].prev_sub_path_config = prev
    BY <1>2, <1>4, <1>5
  <2>2. /\ prev = NULL => heap[b].sub_path = NULL
        /\ prev # NULL =>
             /\ prev \notin Calls /\ heap[prev].next = NULL
             /\ \A c \in Calls \ {b} : frame[c].prev_sub_path_config # prev
             /\ \A S \in SUBSET Addr : b \in S /\ Closed(S) => prev \in S
    BY <2>1 DEF GraphInv, SubPathLoops
  <2> HIDE DEF prev
  <2>3. ASSUME prev # NULL, NEW S \in SUBSET Addr, b \in S, Closed(S)'
        PROVE  prev \in S
    <3>1. Closed(S \cup D) /\ S \cup D \in SUBSET Addr
      BY <1>2, <1>3, <2>3
    <3>2. prev \in S \cup D
      BY <2>2, <2>3, <3>1
    <3> QED BY <1>2, <2>1, <2>3, <3>2
  <2> QED BY <1>2, <1>4, <1>5, <2>1, <2>2, <2>3
<1> QED BY <1>7, <1>8, <1>9, <1>10, <1>11 DEF GraphInv

(* No call in progress outlives the outermost one. *)
LEMMA NoCalls ==
  ASSUME CallStack, current = NULL
  PROVE  Calls = {}
<1>1. {} \in SUBSET Addr /\ current \in {} \cup {NULL}
  OBVIOUS
<1>2. \A b \in {} \cap Calls : frame[b].caller \in {} \cup {NULL}
  OBVIOUS
<1>3. Calls \subseteq {}
  BY <1>1, <1>2 DEF CallStack
<1> QED BY <1>3

LEMMA FreedFirstKeeps ==
  ASSUME HeapType, HeapType', GraphInv, NEW a, FreedFirst(a)
  PROVE  GraphInv'
<1> USE DEF FreedFirst
<1> DEFINE D == Subtree(a)
<1>1. /\ a \in Live /\ Unlinked(a) /\ a \notin Calls
      /\ a \in D /\ D \subseteq Addr
  BY DEF GraphInv, PointersAlive, HeldOnce, Unlinked, Live, Calls, HeapType,
         Subtree, Reachable
<1>2. /\ Live' = Live \ D
      /\ \A b \in Live' :
           /\ heap'[b] = heap[b]
           /\ {heap[b].next, heap[b].sub_path} \subseteq Live' \cup {NULL}
      /\ heap[a].next \in Live' \cup {NULL}
      /\ \A b \in Calls :
           /\ b \in Live'
           /\ frame[b].prev_sub_path_config \in Live' \cup {NULL}
      /\ \A S \in SUBSET Addr :
           /\ Closed(S)' /\ heap[a].next \in S \cup {NULL}
           => Closed(S \cup D)
  BY <1>1, ReleaseKeeps
<1> HIDE DEF D
<1>3. Calls' = Calls
  BY DEF Calls
<1>4. CallStack'
  BY <1>3 DEF GraphInv, CallStack
<1>5. PointersAlive'
  <2>1. \A b \in Live' : {heap'[b].next, heap'[b].sub_path} \subseteq Live' \cup {NULL}
    BY <1>2
  <2>2. \A b \in Calls' : /\ b \in Live'
                         /\ frame'[b].caller \in Live' \cup {NULL}
                         /\ frame'[b].prev_sub_path_config \in Live' \cup {NULL}
    BY <1>2, <1>3 DEF GraphInv, CallStack
  <2> QED BY <1>2, <1>4, <2>1, <2>2
          DEF PointersAlive, Live, Calls, CallStack
<1>6. HeldOnce'
  <2>1. ASSUME heap[a].next # NULL, NEW b \in Live \ {a}
        PROVE  heap[a].next \notin {heap[b].next, heap[b].sub_path}
    <3>1. {heap[a].next, heap[a].sub_path}
            \cap {heap[b].next, heap[b].sub_path} \subseteq {NULL}
      BY <1>1 DEF GraphInv, HeldOnce, Live
    <3> QED BY <2>1, <3>1
  <2>2. a \notin Live' /\ Calls = {}
    BY <1>1, <1>2, NoCalls DEF GraphInv
  <2> QED BY <1>2, <1>3, <2>1, <2>2 DEF GraphInv, HeldOnce, Live, Calls
<1>7. Covered'
  <2> SUFFICES ASSUME NEW S \in SUBSET Addr, first_url_config' \in S \cup {NULL},
                      Calls' \subseteq S, Closed(S)'
               PROVE  Live' \subseteq S
    BY DEF Covered
  <2>1. Closed(S \cup D) /\ S \cup D \in SUBSET Addr
    BY <1>1, <1>2
  <2>2. Live \subseteq S \cup D
    BY <1>1, <1>3, <2>1 DEF GraphInv, Covered
  <2> QED BY <1>2, <2>2
<1>8. SubPathLoops'
  BY <1>3, NoCalls DEF GraphInv, SubPathLoops
<1> QED BY <1>4, <1>5, <1>6, <1>7, <1>8 DEF GraphInv

-----------------------------------------------------------------------------
(* A finished node is put behind prev, or into its caller's sub_path. *)
LinkedCall(a) ==
  LET caller == frame[a].caller
      prev   == frame[caller].prev_sub_path_config
  IN
  /\ a \in Calls /\ current = a /\ caller # NULL
  /\ \A b \in Addr :
       /\ heap'[b] = NULL <=> heap[b] = NULL
       /\ heap[b] # NULL =>
            /\ heap'[b].next = IF prev # NULL /\ b = prev THEN a
                               ELSE heap[b].next
            /\ heap'[b].sub_path = IF prev = NULL /\ b = caller THEN a
                                   ELSE heap[b].sub_path
  /\ frame'[a] = NULL
  /\ frame'[caller] # NULL
  /\ frame'[caller].caller = frame[caller].caller
  /\ frame'[caller].prev_sub_path_config = a
  /\ SameCalls(Addr \ {a, caller})
  /\ current' = caller
  /\ first_url_config' = first_url_config

LEMMA LinkedCallKeeps ==
  ASSUME HeapType, HeapType', GraphInv, NEW a, LinkedCall(a)
  PROVE  GraphInv'
<1> DEFINE caller == frame[a].caller
           prev   == frame[caller].prev_sub_path_config
<1>1. /\ a \in Calls /\ a \in Live /\ current = a
      /\ caller \in Calls /\ caller \in Live /\ caller # a
      /\ a # NULL /\ caller # NULL
  BY ConfigAssumption
     DEF LinkedCall, GraphInv, PointersAlive, CallStack, Live, Calls
<1>2. /\ Live' = Live
      /\ \A b \in Live :
           /\ heap'[b].next = IF prev # NULL /\ b = prev THEN a ELSE heap[b].next
           /\ heap'[b].sub_path = IF prev = NULL /\ b = caller THEN a
                                  ELSE heap[b].sub_path
      /\ first_url_config' = first_url_config
      /\ current' = caller
  BY DEF LinkedCall, Live
<1>3. /\ Calls' = Calls \ {a}
      /\ \A b \in Calls' : frame'[b].caller = frame[b].caller
      /\ \A b \in Calls' : frame'[b].prev_sub_path_config =
                             IF b = caller THEN a
                             ELSE frame[b].prev_sub_path_config
  BY <1>1 DEF LinkedCall, SameCalls, Calls
<1>4. Unlinked(a) /\ heap[a].next = NULL /\ heap[caller].next = NULL
      /\ a # first_url_config
  BY <1>1 DEF GraphInv, HeldOnce, Unlinked, Live, Calls
<1>5. /\ prev = NULL => heap[caller].sub_path = NULL
      /\ prev # NULL =>
           /\ prev \in Live /\ prev \notin Calls /\ heap[prev].next = NULL
           /\ \A b \in Calls \ {caller} : frame[b].prev_sub_path_config # prev
           /\ \A S \in SUBSET Addr : caller \in S /\ Closed(S) => prev \in S
  BY <1>1, FrameFields DEF GraphInv, SubPathLoops, PointersAlive, Live, Calls
<1> HIDE DEF caller, prev
<1>6. \A b \in Live : {heap[b].next, heap[b].sub_path} \subseteq Live \cup {NULL}
  BY NodeFields DEF GraphInv, PointersAlive, Live
<1>7. ASSUME NEW S \in SUBSET Addr, Closed(S)'
      PROVE  Closed(S) /\ (caller \in S => a \in S)
  <2>1. Closed(S)
    <3> SUFFICES ASSUME NEW b \in S, heap[b] # NULL
                 PROVE  {heap[b].next, heap[b].sub_path} \subseteq S \cup {NULL}
      BY DEF Closed
    <3>1. b \in Live /\ {heap'[b].next, heap'[b].sub_path} \subseteq S \cup {NULL}
      BY <1>2, <1>7 DEF Closed, Live
    <3> QED BY <1>2, <1>5, <3>1
  <2>2. ASSUME caller \in S
        PROVE  a \in S
    <3>1. CASE prev = NULL
      BY <1>1, <1>2, <1>7, <2>2, <3>1 DEF Closed, Live
    <3>2. CASE prev # NULL
      BY <1>1, <1>2, <1>5, <1>7, <2>1, <2>2, <3>2 DEF Closed, Live
    <3> QED BY <3>1, <3>2
  <2> QED BY <2>1, <2>2
<1>8. CallStack'
  BY <1>1, <1>2, <1>3, ReturnKeepsStack DEF GraphInv, caller
<1>9. PointersAlive'
  <2>1. \A b \in Live' : {heap'[b].next, heap'[b].sub_path} \subseteq Live' \cup {NULL}
    BY <1>1, <1>2, <1>6
  <2>2. \A b \in Calls : /\ b \in Live
                        /\ frame[b].caller \in Live \cup {NULL}
                        /\ frame[b].prev_sub_path_config \in Live \cup {NULL}
    BY FrameFields DEF GraphInv, PointersAlive, Live, Calls
  <2>3. first_url_config \in Live \cup {NULL}
    BY DEF GraphInv, PointersAlive, Live, HeapType
  <2> QED BY <1>1, <1>2, <1>3, <1>8, <2>1, <2>2, <2>3
          DEF PointersAlive, Live, Calls, CallStack
<1>10. HeldOnce'
  <2>1. ASSUME NEW b \in Live
        PROVE  heap'[b].next # NULL => heap'[b].next # heap'[b].sub_path
    BY <1>1, <1>2, <1>4, <1>5 DEF GraphInv, HeldOnce, Live, Unlinked
  <2>2. ASSUME NEW b \in Live, NEW c \in Live \ {b}
        PROVE  {heap'[b].next, heap'[b].sub_path}
                 \cap {heap'[c].next, heap'[c].sub_path} \subseteq {NULL}
    <3>1. {heap[b].next, heap[b].sub_path}
            \cap {heap[c].next, heap[c].sub_path} \subseteq {NULL}
      BY DEF GraphInv, HeldOnce, Live
    <3> QED BY <1>2, <1>4, <3>1 DEF Unlinked
  <2>3. ASSUME NEW b \in Live, first_url_config # NULL
        PROVE  first_url_config \notin {heap'[b].next, heap'[b].sub_path}
    BY <1>2, <1>4, <2>3 DEF GraphInv, HeldOnce, Live
  <2>4. ASSUME NEW b \in Calls \ {a}
        PROVE  /\ b # first_url_config /\ b \in Live /\ heap'[b].next = NULL
               /\ \A c \in Live : b \notin {heap'[c].next, heap'[c].sub_path}
    BY <1>2, <1>5 DEF GraphInv, HeldOnce, Live, Calls
  <2> QED BY <1>2, <1>3, <2>1, <2>2, <2>3, <2>4 DEF HeldOnce, Live, Calls
<1>11. Covered'
  <2> SUFFICES ASSUME NEW S \in SUBSET Addr, first_url_config' \in S \cup {NULL},
                      Calls' \subseteq S, Closed(S)'
               PROVE  Live' \subseteq S
    BY DEF Covered
  <2>1. Calls \subseteq S
    BY <1>1, <1>3, <1>7
  <2> QED BY <1>2, <1>7, <2>1 DEF GraphInv, Covered
<1>12. SubPathLoops'
  <2> SUFFICES ASSUME NEW b \in Calls'
               PROVE  LET p == frame'[b].prev_sub_path_config IN
                      /\ p = NULL => heap'[b].sub_path = NULL
                      /\ p # NULL =>
                           /\ p \notin Calls' /\ heap'[p].next = NULL
                           /\ \A c \in Calls' \ {b} :
                                frame'[c].prev_sub_path_config # p
                           /\ \A S \in SUBSET Addr :
                                b \in S /\ Closed(S)' => p \in S
    BY DEF SubPathLoops
  <2>1. \A c \in Calls : frame[c].prev_sub_path_config # a
    BY <1>1 DEF GraphInv, SubPathLoops
  <2>2. CASE b = caller
    <3>1. a \notin Calls' /\ heap'[a].next = NULL
      BY <1>1, <1>2, <1>3, <1>4, <1>5
    <3> QED BY <1>1, <1>3, <1>7, <2>1, <2>2, <3>1
  <2>3. CASE b # caller
    <3> DEFINE p == frame[b].prev_sub_path_config
    <3>1. /\ b \in Calls /\ b \in Live /\ p \in Live \cup {NULL}
          /\ frame'[b].prev_sub_path_config = p
      BY <1>3, <2>3, FrameFields DEF GraphInv, PointersAlive, Live, Calls
    <3>2. /\ p = NULL => heap[b].sub_path = NULL
          /\ p # NULL =>
               /\ p \notin Calls /\ heap[p].next = NULL
               /\ \A c \in Calls \ {b} : frame[c].prev_sub_path_config # p
               /\ \A S \in SUBSET Addr : b \in S /\ Closed(S) => p \in S
      BY <3>1 DEF GraphInv, SubPathLoops
    <3>3. p # NULL => p # a /\ p # prev
      BY <1>1, <1>5, <2>1, <2>3, <3>1
    <3> HIDE DEF p
    <3> QED BY <1>2, <1>3, <1>7, <2>3, <3>1, <3>2, <3>3
  <2> QED BY <2>2, <2>3
<1> QED BY <1>8, <1>9, <1>10, <1>11, <1>12 DEF GraphInv

-----------------------------------------------------------------------------
(* A finished node is put in front of the list of url. *)
ListedCall(a) ==
  /\ a \in Calls /\ current = a /\ frame[a].caller = NULL
  /\ \A b \in Addr :
       /\ heap'[b] = NULL <=> heap[b] = NULL
       /\ heap[b] # NULL =>
            /\ heap'[b].next = IF b = a THEN first_url_config ELSE heap[b].next
            /\ heap'[b].sub_path = heap[b].sub_path
  /\ frame'[a] = NULL
  /\ SameCalls(Addr \ {a})
  /\ current' = NULL
  /\ first_url_config' = a

LEMMA ListedCallKeeps ==
  ASSUME HeapType, HeapType', GraphInv, NEW a, ListedCall(a)
  PROVE  GraphInv'
<1>1. /\ a \in Calls /\ a \in Live /\ current = a /\ a # NULL
      /\ Unlinked(a) /\ heap[a].next = NULL /\ a # first_url_config
  BY ConfigAssumption
     DEF ListedCall, GraphInv, PointersAlive, HeldOnce, Unlinked, Live, Calls
<1>2. /\ Live' = Live
      /\ \A b \in Live :
           /\ heap'[b].next = IF b = a THEN first_url_config ELSE heap[b].next
           /\ heap'[b].sub_path = heap[b].sub_path
      /\ first_url_config' = a
  BY DEF ListedCall, Live
<1>3. /\ Calls' = Calls \ {a}
      /\ \A b \in Calls' : frame'[b].caller = frame[b].caller
      /\ current' = frame[a].caller
  BY <1>1 DEF ListedCall, SameCalls, Calls
<1>4. CallStack'
  BY <1>1, <1>3, ReturnKeepsStack DEF GraphInv
<1>5. Calls' = {}
  <2>1. {} \in SUBSET Addr /\ current' \in {} \cup {NULL}
    BY DEF ListedCall
  <2>2. \A b \in {} \cap Calls' : frame'[b].caller \in {} \cup {NULL}
    OBVIOUS
  <2>3. Calls' \subseteq {}
    BY <1>4, <2>1, <2>2 DEF CallStack
  <2> QED BY <2>3
<1>6. \A b \in Live : {heap[b].next, heap[b].sub_path} \subseteq Live \cup {NULL}
  BY NodeFields DEF GraphInv, PointersAlive, Live
<1>7. first_url_config \in Live \cup {NULL}
  BY DEF GraphInv, PointersAlive, Live, HeapType
<1>8. PointersAlive'
  <2>1. \A b \in Live' : {heap'[b].next, heap'[b].sub_path} \subseteq Live' \cup {NULL}
    BY <1>2, <1>6, <1>7
  <2> QED BY <1>1, <1>2, <1>4, <1>5, <2>1
          DEF PointersAlive, Live, Calls, CallStack
<1>9. HeldOnce'
  <2>1. first_url_config # NULL =>
          \A b \in Live : first_url_config \notin {heap[b].next, heap[b].sub_path}
    BY DEF GraphInv, HeldOnce, Live
  <2>2. ASSUME NEW b \in Live
        PROVE  heap'[b].next # NULL => heap'[b].next # heap'[b].sub_path
    BY <1>2, <2>1 DEF GraphInv, HeldOnce, Live
  <2>3. ASSUME NEW b \in Live, NEW c \in Live \ {b}
        PROVE  {heap'[b].next, heap'[b].sub_path}
                 \cap {heap'[c].next, heap'[c].sub_path} \subseteq {NULL}
    <3>1. {heap[b].next, heap[b].sub_path}
            \cap {heap[c].next, heap[c].sub_path} \subseteq {NULL}
      BY DEF GraphInv, HeldOnce, Live
    <3> QED BY <1>2, <2>1, <3>1
  <2>4. ASSUME NEW b \in Live
        PROVE  a \notin {heap'[b].next, heap'[b].sub_path}
    BY <1>1, <1>2 DEF Unlinked
  <2> QED BY <1>2, <1>5, <2>2, <2>3, <2>4 DEF HeldOnce, Live, Calls
<1>10. Covered'
  <2> SUFFICES ASSUME NEW S \in SUBSET Addr, first_url_config' \in S \cup {NULL},
                      Closed(S)'
               PROVE  Live' \subseteq S
    BY DEF Covered
  <2>1. a \in S /\ Calls \subseteq {a}
    BY <1>1, <1>2, <1>3, <1>5
  <2>2. first_url_config \in S \cup {NULL}
    BY <1>1, <1>2, <2>1 DEF Closed, Live
  <2>3. Closed(S)
    <3> SUFFICES ASSUME NEW b \in S, heap[b] # NULL
                 PROVE  {heap[b].next, heap[b].sub_path} \subseteq S \cup {NULL}
      BY DEF Closed
    <3>1. b \in Live /\ {heap'[b].next, heap'[b].sub_path} \subseteq S \cup {NULL}
      BY <1>2 DEF Closed, Live
    <3> QED BY <1>1, <1>2, <3>1
  <2> QED BY <1>2, <2>1, <2>2, <2>3 DEF GraphInv, Covered
<1>11. SubPathLoops'
  BY <1>5 DEF SubPathLoops
<1> QED BY <1>4, <1>8, <1>9, <1>10, <1>11 DEF GraphInv

(* Nothing but the progress of a call. *)
LEMMA SameGraphKeeps ==
  ASSUME HeapType, GraphInv, SameCalls(Addr), heap' = heap,
         current' = current, first_url_config' = first_url_config
  PROVE  GraphInv'
<1>1. Calls' = Calls /\ Live' = Live
  BY DEF SameCalls, Calls, Live
<1>2. \A b \in Calls :
        /\ frame'[b].caller = frame[b].caller
        /\ frame'[b].prev_sub_path_config = frame[b].prev_sub_path_config
  BY DEF SameCalls, Calls
<1>3. \A S \in SUBSET Addr : Closed(S)' <=> Closed(S)
  BY DEF Closed
<1>4. CallStack'
  <2>1. current' # NULL => frame'[current'] # NULL
    BY DEF GraphInv, CallStack, SameCalls, HeapType
  <2>2. \A a \in Calls' :
          /\ frame'[a].caller # NULL => frame'[a].caller \in Calls'
          /\ frame'[a].caller # current'
          /\ \A b \in Calls' \ {a} : frame'[b].caller # frame'[a].caller
    BY <1>1, <1>2 DEF GraphInv, CallStack
  <2>3. ASSUME NEW S \in SUBSET Addr, current' \in S \cup {NULL},
               \A b \in S \cap Calls' : frame'[b].caller \in S \cup {NULL}
        PROVE  Calls' \subseteq S
    BY <1>1, <1>2, <2>3 DEF GraphInv, CallStack
  <2> QED BY <2>1, <2>2, <2>3 DEF CallStack
<1>5. PointersAlive'
  BY <1>1, <1>2, <1>4 DEF GraphInv, PointersAlive, CallStack, Calls, Live
<1>6. HeldOnce'
  BY <1>1 DEF GraphInv, HeldOnce, Calls, Live
<1>7. Covered'
  BY <1>1, <1>3 DEF GraphInv, Covered
<1>8. SubPathLoops'
  BY <1>1, <1>2, <1>3 DEF GraphInv, SubPathLoops
<1> QED BY <1>4, <1>5, <1>6, <1>7, <1>8 DEF GraphInv

-----------------------------------------------------------------------------
(* Types, and the blocks that belong to the nodes. *)

(* A pattern or array is allocated exactly while its node points to it.    *)
BlocksOwned ==
  /\ blocks \subseteq Addr \X Block
  /\ \A a \in Addr, k \in Block :
       <<a, k>> \in blocks <=> heap[a] # NULL /\ heap[a][k] # NULL

(* A call is in progress only while the list of url is read.               *)
ReadingUrls == current # NULL => reading = "urls"

MemInv == ConfigTypeOK /\ GraphInv /\ BlocksOwned /\ ReadingUrls

LEMMA FileParts ==
  ASSUME file \in Files
  PROVE  /\ file.url.elems \in Seq(Setting)
         /\ \A s \in Setting : /\ file.setting[s] \in Group
                              /\ sub_elems(s) \in Seq(Setting)
<1>1. file \in File
  BY ConfigAssumption
<1>2. \A s \in Setting : file.setting[s] \in Group
  BY <1>1 DEF File
<1>3. \A s \in Setting : file.setting[s].sub_path.elems \in Seq(Setting)
  BY <1>2 DEF Group, Member
<1>4. <<>> \in Seq(Setting)
  OBVIOUS
<1>5. file.url.elems \in Seq(Setting)
  BY <1>1 DEF File, Member
<1> QED BY <1>2, <1>3, <1>4, <1>5 DEF sub_elems

LEMMA NewNode ==
  ASSUME file \in Files, NEW s \in Setting,
         NEW got \in SUBSET needed(file.setting[s])
  PROVE  LET n == new_url_config(s, got) IN
         /\ n \in Node /\ n.next = NULL /\ n.sub_path = NULL
         /\ \A k \in Block : n[k] # NULL <=> k \in got
<1> DEFINE n == new_url_config(s, got)
           g == file.setting[s]
<1>1. g \in Group
  BY FileParts
<1>2. /\ g.path \in OptString /\ g.pattern \in OptString
      /\ g.subr \in OptString
      /\ g.method.elems \in Seq(OptString)
      /\ g.get_param.elems \in Seq(OptString)
  BY <1>1 DEF Group, Member
<1>3. /\ g.method.elems # NULL /\ g.get_param.elems # NULL
  BY <1>2, ConfigNullAssumption
<1> HIDE DEF g, n
<1>4. n = [path |-> g.path, subr |-> g.subr,
           pattern_comp |-> IF "pattern_comp" \in got
                            THEN g.pattern ELSE NULL,
           method |-> IF "method" \in got
                      THEN g.method.elems ELSE NULL,
           get_param |-> IF "get_param" \in got
                         THEN g.get_param.elems ELSE NULL,
           sub_path |-> NULL, next |-> NULL, entry |-> s]
  BY DEF new_url_config, n, g
<1>5. "pattern_comp" \in got => g.pattern # NULL
  BY DEF needed, g
<1>6. n \in Node
  <2>1. NULL \in OptString
    BY DEF OptString
  <2> QED BY <1>2, <1>4, <2>1 DEF Node
<1>7. ASSUME NEW k \in Block
      PROVE  n[k] # NULL <=> k \in got
  BY <1>3, <1>4, <1>5 DEF Block
<1> QED BY <1>4, <1>6, <1>7 DEF n

LEMMA CallEntered ==
  ASSUME ConfigTypeOK, NEW s \in Setting, NEW c \in Addr \cup {NULL},
         NEW frames \in [Addr -> Frame \cup {NULL}],
         enter_read_url_config(s, c, frames)
  PROVE  \E a \in Addr :
           /\ heap[a] = NULL /\ current' = a
           /\ heap' \in [Addr -> Node \cup {NULL}]
           /\ heap'[a] # NULL /\ heap'[a].next = NULL /\ heap'[a].sub_path = NULL
           /\ \A b \in Addr \ {a} : heap'[b] = heap[b]
           /\ frame' \in [Addr -> Frame \cup {NULL}]
           /\ frame'[a] # NULL /\ frame'[a].caller = c
           /\ frame'[a].prev_sub_path_config = NULL
           /\ \A b \in Addr \ {a} : frame'[b] = frames[b]
           /\ blocks' = blocks \cup {<<a, k>> : k \in {j \in Block : heap'[a][j] # NULL}}
           /\ alloc_failures' \in 0..MaxAllocFailures
<1> DEFINE g == file.setting[s]
<1> DEFINE Entered(a, lost) ==
        /\ malloc(a)
        /\ UNCHANGED alloc_failures \/ AllocFails
        /\ heap' = [heap EXCEPT ![a] = new_url_config(s, needed(g) \ lost)]
        /\ blocks' = blocks \cup {<<a, k>> : k \in needed(g) \ lost}
        /\ frame' = [frames EXCEPT ![a] =
                       [caller |-> c, sub_path_index |-> 0,
                        prev_sub_path_config |-> NULL,
                        error_config |-> entry_error(g) \/ lost # {}]]
        /\ current' = a
<1>0. PICK a \in Addr : \E lost : Entered(a, lost)
  BY DEF enter_read_url_config
<1>1. PICK lost : Entered(a, lost)
  BY <1>0
<1> DEFINE n == new_url_config(s, needed(g) \ lost)
           e == entry_error(g) \/ lost # {}
           f == [caller |-> c, sub_path_index |-> 0,
                 prev_sub_path_config |-> NULL, error_config |-> e]
<1>2. /\ n \in Node /\ n.next = NULL /\ n.sub_path = NULL
      /\ \A k \in Block : n[k] # NULL <=> k \in needed(g) \ lost
  <2>1. /\ needed(g) \ lost \in SUBSET needed(file.setting[s])
        /\ file \in Files
    BY DEF ConfigTypeOK
  <2> QED BY <2>1, NewNode
<1>3. n # NULL
  BY <1>2, ConfigNullAssumption
<1>4. e \in BOOLEAN
  BY DEF entry_error
<1> HIDE DEF e
<1>5. f \in Frame /\ f.caller = c /\ f.prev_sub_path_config = NULL
  BY <1>4 DEF Frame
<1>6. f # NULL
  BY <1>5, ConfigNullAssumption
<1>7. heap' = [heap EXCEPT ![a] = n] /\ frame' = [frames EXCEPT ![a] = f]
  BY <1>1 DEF e
<1>8. needed(g) \ lost = {j \in Block : n[j] # NULL}
  BY <1>2 DEF needed
<1> HIDE DEF n, f, g
<1>9. heap'[a] = n /\ frame'[a] = f
  BY <1>7 DEF ConfigTypeOK
<1>10. alloc_failures' \in 0..MaxAllocFailures
  BY <1>1, ConfigAssumption DEF AllocFails, ConfigTypeOK
<1>11. blocks' = blocks \cup {<<a, k>> : k \in {j \in Block : heap'[a][j] # NULL}}
  BY <1>1, <1>8, <1>9 DEF n, g
<1>12. /\ heap' \in [Addr -> Node \cup {NULL}]
       /\ frame' \in [Addr -> Frame \cup {NULL}]
       /\ \A b \in Addr \ {a} : heap'[b] = heap[b] /\ frame'[b] = frames[b]
  BY <1>2, <1>5, <1>7 DEF ConfigTypeOK
<1> QED BY <1>1, <1>2, <1>3, <1>5, <1>6, <1>9, <1>10, <1>11, <1>12 DEF malloc

LEMMA TypedHeap ==
  ASSUME ConfigTypeOK PROVE HeapType
BY DEF ConfigTypeOK, HeapType

LEMMA EnteredBlocks ==
  ASSUME BlocksOwned, NEW a \in Addr, heap[a] = NULL, heap'[a] # NULL,
         \A b \in Addr \ {a} : heap'[b] = heap[b],
         blocks' = blocks \cup
                     {<<a, k>> : k \in {j \in Block : heap'[a][j] # NULL}}
  PROVE  BlocksOwned'
<1>1. blocks' \subseteq Addr \X Block
  BY DEF BlocksOwned
<1>2. ASSUME NEW b \in Addr, NEW k \in Block
      PROVE  <<b, k>> \in blocks' <=> heap'[b] # NULL /\ heap'[b][k] # NULL
  <2>1. CASE b = a
    BY <2>1 DEF BlocksOwned
  <2>2. CASE b # a
    <3>1. <<b, k>> \in blocks' <=> <<b, k>> \in blocks
      BY <2>2
    <3> QED BY <2>2, <3>1 DEF BlocksOwned
  <2> QED BY <2>1, <2>2
<1> QED BY <1>1, <1>2 DEF BlocksOwned

LEMMA ReleasedBlocks ==
  ASSUME BlocksOwned, NEW a \in Addr, free_url_config(a)
  PROVE  BlocksOwned' /\ Release(a)
<1>1. Release(a)
  BY DEF free_url_config, Release
<1>2. blocks' = blocks \ UNION {blocks_of(b) : b \in Subtree(a)}
  BY DEF free_url_config
<1>3. ASSUME NEW b \in Addr, NEW k \in Block
      PROVE  <<b, k>> \in UNION {blocks_of(c) : c \in Subtree(a)}
               <=> b \in Subtree(a) /\ heap[b][k] # NULL
  BY DEF blocks_of
<1>4. ASSUME NEW b \in Addr, NEW k \in Block
      PROVE  <<b, k>> \in blocks' <=> heap'[b] # NULL /\ heap'[b][k] # NULL
  BY <1>1, <1>2, <1>3 DEF BlocksOwned, Release
<1>5. blocks' \subseteq Addr \X Block
  BY <1>2 DEF BlocksOwned
<1> QED BY <1>1, <1>4, <1>5 DEF BlocksOwned

(* A node that keeps its pattern and arrays keeps its blocks. *)
LEMMA RelinkedBlocks ==
  ASSUME BlocksOwned, blocks' = blocks,
         \A b \in Addr : /\ heap'[b] = NULL <=> heap[b] = NULL
                         /\ heap[b] # NULL =>
                              \A k \in Block : heap'[b][k] = heap[b][k]
  PROVE  BlocksOwned'
BY DEF BlocksOwned

LEMMA NextUpdated ==
  ASSUME NEW n \in Node, NEW a \in Addr \cup {NULL},
         NEW m, m = [n EXCEPT !.next = a]
  PROVE  /\ m \in Node /\ m # NULL
         /\ m.next = a /\ m.sub_path = n.sub_path
         /\ \A k \in Block : m[k] = n[k]
<1>1. m \in Node /\ m.next = a /\ m.sub_path = n.sub_path
  BY DEF Node
<1>2. \A k \in Block : m[k] = n[k]
  BY DEF Node, Block
<1> QED BY <1>1, <1>2, ConfigNullAssumption

LEMMA SubPathUpdated ==
  ASSUME NEW n \in Node, NEW a \in Addr \cup {NULL},
         NEW m, m = [n EXCEPT !.sub_path = a]
  PROVE  /\ m \in Node /\ m # NULL
         /\ m.sub_path = a /\ m.next = n.next
         /\ \A k \in Block : m[k] = n[k]
<1>1. m \in Node /\ m.sub_path = a /\ m.next = n.next
  BY DEF Node
<1>2. \A k \in Block : m[k] = n[k]
  BY DEF Node, Block
<1> QED BY <1>1, <1>2, ConfigNullAssumption

-----------------------------------------------------------------------------
(* The actions. *)

LEMMA MemInit == ConfigInit => MemInv
<1> SUFFICES ASSUME ConfigInit PROVE MemInv
  OBVIOUS
<1>1. Live = {} /\ Calls = {} /\ current = NULL /\ first_url_config = NULL
  BY DEF ConfigInit, Live, Calls
<1>2. ConfigTypeOK
  BY ConfigAssumption DEF ConfigInit, ConfigTypeOK
<1>3. PointersAlive /\ HeldOnce
  BY <1>1 DEF PointersAlive, HeldOnce, Live, Calls
<1>4. Covered /\ CallStack /\ SubPathLoops
  BY <1>1 DEF Covered, CallStack, SubPathLoops
<1>5. BlocksOwned
  BY DEF ConfigInit, BlocksOwned
<1>6. ReadingUrls
  BY <1>1 DEF ReadingUrls
<1> QED BY <1>2, <1>3, <1>4, <1>5, <1>6 DEF MemInv, GraphInv

(* A step that leaves the nodes alone. *)
LEMMA SameMemory ==
  ASSUME MemInv, ConfigTypeOK', ReadingUrls', SameCalls(Addr),
         heap' = heap, blocks' = blocks, current' = current,
         first_url_config' = first_url_config
  PROVE  MemInv'
<1>1. HeapType
  BY TypedHeap DEF MemInv
<1>2. GraphInv'
  BY <1>1, SameGraphKeeps DEF MemInv
<1>3. BlocksOwned'
  BY RelinkedBlocks DEF MemInv
<1> QED BY <1>2, <1>3 DEF MemInv

LEMMA CallKeepsMem ==
  ASSUME MemInv, NEW s \in Setting,
         NEW frames \in [Addr -> Frame \cup {NULL}],
         \A b \in Addr :
           /\ frames[b] = NULL <=> frame[b] = NULL
           /\ frame[b] # NULL =>
                /\ frames[b].caller = frame[b].caller
                /\ frames[b].prev_sub_path_config = frame[b].prev_sub_path_config,
         enter_read_url_config(s, current, frames),
         reading = "urls", urls_read' \in Nat,
         UNCHANGED <<file, home, reading, first_url_config>>
  PROVE  MemInv'
<1>1. ConfigTypeOK /\ current \in Addr \cup {NULL}
  BY DEF MemInv, ConfigTypeOK
<1>2. PICK a \in Addr :
        /\ heap[a] = NULL /\ current' = a
        /\ heap' \in [Addr -> Node \cup {NULL}]
        /\ heap'[a] # NULL /\ heap'[a].next = NULL /\ heap'[a].sub_path = NULL
        /\ \A b \in Addr \ {a} : heap'[b] = heap[b]
        /\ frame' \in [Addr -> Frame \cup {NULL}]
        /\ frame'[a] # NULL /\ frame'[a].caller = current
        /\ frame'[a].prev_sub_path_config = NULL
        /\ \A b \in Addr \ {a} : frame'[b] = frames[b]
        /\ blocks' = blocks \cup
                       {<<a, k>> : k \in {j \in Block : heap'[a][j] # NULL}}
        /\ alloc_failures' \in 0..MaxAllocFailures
  BY <1>1, CallEntered
<1>3. NewCall(a)
  BY <1>2 DEF NewCall, SameCalls
<1>4. BlocksOwned'
  BY <1>2, EnteredBlocks DEF MemInv
<1>5. ConfigTypeOK'
  <2>1. blocks' \subseteq Addr \X Block
    BY <1>4 DEF BlocksOwned
  <2> QED BY <1>1, <1>2, <2>1 DEF ConfigTypeOK
<1>6. HeapType /\ HeapType'
  BY <1>1, <1>5 DEF ConfigTypeOK, HeapType
<1>7. GraphInv'
  BY <1>3, <1>6, NewCallKeeps DEF MemInv
<1> QED BY <1>4, <1>5, <1>7 DEF MemInv, ReadingUrls

LEMMA ReadSettingsKeepsMem ==
  ASSUME MemInv, ReadSettings
  PROVE  MemInv'
<1>1. ConfigTypeOK'
  <2>1. ConfigTypeOK /\ alloc_failures \in 0..MaxAllocFailures
    BY DEF MemInv, ConfigTypeOK
  <2>2. alloc_failures' \in 0..MaxAllocFailures
    BY <2>1, ConfigAssumption DEF ReadSettings, AllocFails
  <2> QED BY <2>1, <2>2 DEF ReadSettings, ConfigTypeOK, tree
<1>2. ReadingUrls'
  BY DEF MemInv, ReadSettings, ReadingUrls
<1>3. SameCalls(Addr)
  BY DEF ReadSettings, SameCalls
<1> QED BY <1>1, <1>2, <1>3, SameMemory DEF ReadSettings, tree

LEMMA ReadAllKeepsMem ==
  ASSUME MemInv, ReadAll
  PROVE  MemInv'
<1>1. ConfigTypeOK'
  BY DEF MemInv, ReadAll, ConfigTypeOK, tree
<1>2. ReadingUrls'
  BY DEF MemInv, ReadAll, ReadingUrls
<1>3. SameCalls(Addr)
  BY DEF ReadAll, SameCalls
<1> QED BY <1>1, <1>2, <1>3, SameMemory DEF ReadAll, tree

LEMMA ReadUrlKeepsMem ==
  ASSUME MemInv, ReadUrl
  PROVE  MemInv'
<1> DEFINE s == file.url.elems[urls_read + 1]
<1>1. ConfigTypeOK /\ current = NULL /\ reading = "urls" /\ urls_read \in Nat
      /\ urls_read' = urls_read + 1
      /\ UNCHANGED <<file, home, first_url_config>>
  BY DEF MemInv, ConfigTypeOK, ReadUrl
<1>2. CASE enter_read_url_config(s, NULL, frame) /\ UNCHANGED reading
  <2>1. s \in Setting
    <3>1. file.url.elems \in Seq(Setting)
      BY <1>1, FileParts DEF ConfigTypeOK
    <3>2. urls_read + 1 \in 1..Len(file.url.elems)
      BY <1>1, <3>1 DEF ReadUrl
    <3> QED BY <3>1, <3>2, ElementOfSeq
  <2>2. frame \in [Addr -> Frame \cup {NULL}] /\ urls_read' \in Nat
    BY <1>1 DEF ConfigTypeOK
  <2> HIDE DEF s
  <2> QED BY <1>1, <1>2, <2>1, <2>2, CallKeepsMem
<1>3. CASE AllocFails /\ reading' = "refused"
           /\ UNCHANGED <<current, frame, heap, blocks>>
  <2>1. ConfigTypeOK'
    BY <1>1, <1>3, ConfigAssumption DEF ConfigTypeOK, AllocFails
  <2>2. ReadingUrls' /\ SameCalls(Addr)
    BY <1>1, <1>3 DEF ReadingUrls, SameCalls
  <2> QED BY <1>1, <1>3, <2>1, <2>2, SameMemory
<1> QED BY <1>2, <1>3 DEF ReadUrl

LEMMA ReadSubPathKeepsMem ==
  ASSUME MemInv, ReadSubPath
  PROVE  MemInv'
<1> DEFINE f == frame[current]
           elems == sub_elems(heap[current].entry)
           s == elems[f.sub_path_index + 1]
           done == [frame EXCEPT ![current].sub_path_index = next_index(@)]
           faulty == [done EXCEPT ![current].error_config = TRUE]
<1>1. /\ ConfigTypeOK /\ current # NULL /\ current \in Addr
      /\ reading = "urls" /\ UNCHANGED <<file, home, reading, urls_read,
                                         first_url_config>>
  BY DEF MemInv, ConfigTypeOK, ReadSubPath, ReadingUrls
<1>2. f \in Frame /\ heap[current] \in Node
  BY <1>1 DEF MemInv, GraphInv, PointersAlive, ConfigTypeOK
<1>3. s \in Setting
  <2>1. elems \in Seq(Setting)
    BY <1>1, <1>2, FileParts DEF ConfigTypeOK, Node
  <2>2. f.sub_path_index + 1 \in 1..Len(elems)
    BY <1>2, <2>1 DEF ReadSubPath, Frame
  <2> QED BY <2>1, <2>2, ElementOfSeq
<1>4. /\ done = [frame EXCEPT ![current] =
                   [f EXCEPT !.sub_path_index = f.sub_path_index + 1]]
      /\ faulty = [done EXCEPT ![current] =
                     [done[current] EXCEPT !.error_config = TRUE]]
  BY DEF next_index
<1>5. \/ frame' = faulty /\ UNCHANGED <<current, heap, blocks>>
           /\ (UNCHANGED alloc_failures \/ AllocFails)
      \/ enter_read_url_config(s, current, done)
  BY DEF ReadSubPath
<1> HIDE DEF s, elems, faulty
<1>6. /\ done \in [Addr -> Frame \cup {NULL}]
      /\ \A b \in Addr :
           /\ done[b] = NULL <=> frame[b] = NULL
           /\ frame[b] # NULL =>
                /\ done[b].caller = frame[b].caller
                /\ done[b].prev_sub_path_config = frame[b].prev_sub_path_config
      /\ done[current] \in Frame
  <2> DEFINE g == [f EXCEPT !.sub_path_index = f.sub_path_index + 1]
  <2>1. g \in Frame /\ g.caller = f.caller
        /\ g.prev_sub_path_config = f.prev_sub_path_config
    BY <1>2 DEF Frame
  <2>2. g # NULL /\ f # NULL
    BY <1>2, <2>1, ConfigNullAssumption
  <2> HIDE DEF g, f
  <2>3. done = [frame EXCEPT ![current] = g]
    BY <1>4 DEF g, f
  <2>4. frame \in [Addr -> Frame \cup {NULL}] /\ frame[current] = f
    BY <1>1 DEF ConfigTypeOK, f
  <2> HIDE DEF done
  <2> QED BY <1>1, <2>1, <2>2, <2>3, <2>4
<1> HIDE DEF done
<1>7. CASE enter_read_url_config(s, current, done)
  <2>1. urls_read' \in Nat
    BY <1>1 DEF ConfigTypeOK
  <2> QED BY <1>1, <1>3, <1>6, <1>7, <2>1, CallKeepsMem
<1>8. CASE frame' = faulty /\ UNCHANGED <<current, heap, blocks>>
           /\ (UNCHANGED alloc_failures \/ AllocFails)
  <2> DEFINE g == [done[current] EXCEPT !.error_config = TRUE]
  <2>1. g \in Frame /\ g.caller = done[current].caller
        /\ g.prev_sub_path_config = done[current].prev_sub_path_config
    BY <1>6 DEF Frame
  <2>2. g # NULL /\ done[current] # NULL
    BY <1>6, <2>1, ConfigNullAssumption
  <2> HIDE DEF g
  <2>3. frame' = [done EXCEPT ![current] = g]
    BY <1>4, <1>8 DEF g
  <2>4. frame' \in [Addr -> Frame \cup {NULL}] /\ SameCalls(Addr)
    BY <1>1, <1>6, <2>1, <2>2, <2>3 DEF SameCalls
  <2>5. alloc_failures' \in 0..MaxAllocFailures
    BY <1>1, <1>8, ConfigAssumption DEF ConfigTypeOK, AllocFails
  <2>6. ConfigTypeOK'
    BY <1>1, <1>8, <2>4, <2>5 DEF ConfigTypeOK
  <2>7. ReadingUrls'
    BY <1>1 DEF ReadingUrls
  <2> QED BY <1>1, <1>8, <2>4, <2>6, <2>7, SameMemory
<1> QED BY <1>5, <1>7, <1>8

LEMMA ReturnToSubPathKeepsMem ==
  ASSUME MemInv, ReturnToSubPath
  PROVE  MemInv'
<1> DEFINE a == current
           caller == frame[a].caller
           prev == frame[caller].prev_sub_path_config
<1>1. /\ ConfigTypeOK /\ HeapType /\ GraphInv /\ a # NULL /\ caller # NULL
      /\ reading = "urls"
      /\ UNCHANGED <<file, home, reading, urls_read, blocks,
                     first_url_config, alloc_failures>>
      /\ current' = caller
  BY TypedHeap DEF MemInv, ReturnToSubPath, AtEnd, ReadingUrls
<1>2. /\ a \in Calls /\ caller \in Calls /\ caller # a
      /\ a \in Live /\ caller \in Live
  BY <1>1 DEF HeapType, GraphInv, CallStack, PointersAlive, Calls, Live
<1>3. /\ frame[caller] \in Frame
      /\ prev \in Live \cup {NULL} /\ prev # a
  <2>1. frame[caller] \in Frame /\ prev \in Addr \cup {NULL}
    BY <1>1, <1>2, FrameFields
  <2>2. prev \in Live \cup {NULL}
    BY <1>1, <1>2, <2>1 DEF GraphInv, PointersAlive, Live, Calls
  <2>3. prev # a
    BY <1>1, <1>2 DEF GraphInv, SubPathLoops
  <2> QED BY <2>1, <2>2, <2>3
<1> DEFINE x == IF prev = NULL THEN caller ELSE prev
           n == IF prev = NULL THEN [heap[caller] EXCEPT !.sub_path = a]
                ELSE [heap[prev] EXCEPT !.next = a]
           e == [frame[caller] EXCEPT !.prev_sub_path_config = a]
<1>4. heap' = [heap EXCEPT ![x] = n]
  BY DEF ReturnToSubPath, link_sub_path
<1>5. frame' = [frame EXCEPT ![a] = NULL, ![caller] = e]
  <2>1. frame' = [frame EXCEPT ![a] = NULL, ![caller].prev_sub_path_config = a]
    BY DEF ReturnToSubPath
  <2> QED BY <1>2, <2>1
<1>6. x \in Live /\ heap[x] \in Node
  BY <1>1, <1>2, <1>3, NodeFields
<1>7. /\ n \in Node /\ n # NULL
      /\ n.next = IF prev # NULL THEN a ELSE heap[x].next
      /\ n.sub_path = IF prev = NULL THEN a ELSE heap[x].sub_path
      /\ \A k \in Block : n[k] = heap[x][k]
  <2>1. a \in Addr \cup {NULL}
    BY <1>2 DEF Live
  <2>2. CASE prev = NULL
    <3>1. x = caller /\ n = [heap[x] EXCEPT !.sub_path = a]
      BY <2>2
    <3> HIDE DEF x, n, prev, caller
    <3> QED BY <1>6, <2>1, <2>2, <3>1, SubPathUpdated
  <2>3. CASE prev # NULL
    <3>1. x = prev /\ n = [heap[x] EXCEPT !.next = a]
      BY <2>3
    <3> HIDE DEF x, n, prev, caller
    <3> QED BY <1>6, <2>1, <2>3, <3>1, NextUpdated
  <2> QED BY <2>2, <2>3
<1>8. e \in Frame /\ e # NULL /\ e.caller = frame[caller].caller
      /\ e.prev_sub_path_config = a
  <2>1. a \in Addr
    BY <1>2 DEF Live
  <2>2. /\ e \in Frame /\ e.caller = frame[caller].caller
        /\ e.prev_sub_path_config = a
    BY <1>3, <2>1 DEF Frame
  <2> QED BY <2>2, ConfigNullAssumption
<1> HIDE DEF n, e
<1>9. /\ heap' \in [Addr -> Node \cup {NULL}]
      /\ \A b \in Addr : heap'[b] = IF b = x THEN n ELSE heap[b]
  <2>1. heap \in [Addr -> Node \cup {NULL}]
    BY <1>1 DEF HeapType
  <2> QED BY <1>4, <1>7, <2>1
<1>10. /\ frame' \in [Addr -> Frame \cup {NULL}]
       /\ frame'[a] = NULL /\ frame'[caller] = e
       /\ \A b \in Addr \ {a, caller} : frame'[b] = frame[b]
  <2>1. frame \in [Addr -> Frame \cup {NULL}] /\ a \in Addr /\ caller \in Addr
    BY <1>1, <1>2 DEF HeapType, Calls
  <2> HIDE DEF caller
  <2> QED BY <1>2, <1>5, <1>8, <2>1
<1>11. ConfigTypeOK'
  BY <1>1, <1>2, <1>9, <1>10 DEF ConfigTypeOK, Calls
<1>12. LinkedCall(a)
  <2>1. \A b \in Addr :
          /\ heap'[b] = NULL <=> heap[b] = NULL
          /\ heap[b] # NULL =>
               /\ heap'[b].next = IF prev # NULL /\ b = prev THEN a
                                  ELSE heap[b].next
               /\ heap'[b].sub_path = IF prev = NULL /\ b = caller THEN a
                                      ELSE heap[b].sub_path
    BY <1>6, <1>7, <1>9 DEF Live
  <2>2. SameCalls(Addr \ {a, caller})
    BY <1>10 DEF SameCalls
  <2> QED BY <1>1, <1>2, <1>8, <1>10, <2>1, <2>2 DEF LinkedCall
<1>13. HeapType'
  BY <1>11 DEF ConfigTypeOK, HeapType
<1>14. GraphInv'
  BY <1>1, <1>12, <1>13, LinkedCallKeeps
<1>15. BlocksOwned'
  <2>1. \A b \in Addr : /\ heap'[b] = NULL <=> heap[b] = NULL
                        /\ heap[b] # NULL =>
                             \A k \in Block : heap'[b][k] = heap[b][k]
    BY <1>6, <1>7, <1>9 DEF Live
  <2> QED BY <1>1, <2>1, RelinkedBlocks DEF MemInv
<1>16. ReadingUrls'
  BY <1>1 DEF ReadingUrls
<1> QED BY <1>11, <1>14, <1>15, <1>16 DEF MemInv

LEMMA ReturnToUrlKeepsMem ==
  ASSUME MemInv, ReturnToUrl
  PROVE  MemInv'
<1> DEFINE a == current
           n == [heap[a] EXCEPT !.next = first_url_config]
<1>1. /\ ConfigTypeOK /\ HeapType /\ GraphInv /\ a # NULL
      /\ frame[a].caller = NULL
      /\ UNCHANGED <<file, home, reading, urls_read, blocks, alloc_failures>>
      /\ first_url_config' = a /\ current' = NULL
      /\ frame' = [frame EXCEPT ![a] = NULL]
      /\ heap' = [heap EXCEPT ![a].next = first_url_config]
  BY TypedHeap DEF MemInv, ReturnToUrl, AtEnd
<1>2. a \in Calls /\ a \in Live /\ heap[a] \in Node
  BY <1>1, NodeFields
     DEF HeapType, GraphInv, CallStack, PointersAlive, Calls, Live
<1>3. /\ n \in Node /\ n # NULL /\ n.next = first_url_config
      /\ n.sub_path = heap[a].sub_path
      /\ \A k \in Block : n[k] = heap[a][k]
  <2>1. first_url_config \in Addr \cup {NULL}
    BY <1>1 DEF HeapType
  <2>2. n = [heap[a] EXCEPT !.next = first_url_config]
    OBVIOUS
  <2> HIDE DEF n
  <2> QED BY <1>2, <2>1, <2>2, NextUpdated
<1>4. heap' = [heap EXCEPT ![a] = n]
  BY <1>1
<1> HIDE DEF n
<1>5. /\ heap' \in [Addr -> Node \cup {NULL}]
      /\ \A b \in Addr : heap'[b] = IF b = a THEN n ELSE heap[b]
  <2>1. heap \in [Addr -> Node \cup {NULL}]
    BY <1>1 DEF HeapType
  <2> QED BY <1>3, <1>4, <2>1
<1>6. /\ frame' \in [Addr -> Frame \cup {NULL}] /\ frame'[a] = NULL
      /\ \A b \in Addr \ {a} : frame'[b] = frame[b]
  BY <1>1, <1>2 DEF HeapType, Calls
<1>7. ConfigTypeOK'
  BY <1>1, <1>2, <1>5, <1>6 DEF ConfigTypeOK, Calls
<1>8. ListedCall(a)
  <2>1. \A b \in Addr :
          /\ heap'[b] = NULL <=> heap[b] = NULL
          /\ heap[b] # NULL =>
               /\ heap'[b].next = IF b = a THEN first_url_config
                                  ELSE heap[b].next
               /\ heap'[b].sub_path = heap[b].sub_path
    BY <1>2, <1>3, <1>5 DEF Live
  <2> QED BY <1>1, <1>2, <1>6, <2>1 DEF ListedCall, SameCalls
<1>9. GraphInv'
  <2>1. HeapType'
    BY <1>7 DEF ConfigTypeOK, HeapType
  <2> QED BY <1>1, <1>8, <2>1, ListedCallKeeps
<1>10. BlocksOwned'
  <2>1. \A b \in Addr : /\ heap'[b] = NULL <=> heap[b] = NULL
                        /\ heap[b] # NULL =>
                             \A k \in Block : heap'[b][k] = heap[b][k]
    BY <1>2, <1>3, <1>5 DEF Live
  <2> QED BY <1>1, <2>1, RelinkedBlocks DEF MemInv
<1>11. ReadingUrls'
  BY <1>1 DEF ReadingUrls
<1> QED BY <1>7, <1>9, <1>10, <1>11 DEF MemInv

LEMMA ReturnNullKeepsMem ==
  ASSUME MemInv, ReturnNull
  PROVE  MemInv'
<1> DEFINE a == current
           caller == frame[a].caller
<1>1. /\ ConfigTypeOK /\ HeapType /\ GraphInv /\ a # NULL
      /\ reading = "urls"
      /\ free_url_config(a) /\ note_error(caller)
      /\ UNCHANGED <<file, home, urls_read, first_url_config, alloc_failures>>
      /\ current' = caller
  BY TypedHeap DEF MemInv, ReturnNull, AtEnd, ReadingUrls
<1>2. /\ a \in Calls /\ a \in Live
      /\ caller \in Calls \cup {NULL} /\ caller # a
  BY <1>1 DEF HeapType, GraphInv, CallStack, PointersAlive, Calls, Live
<1>3. BlocksOwned' /\ Release(a)
  BY <1>1, <1>2, ReleasedBlocks DEF MemInv, Live
<1>4. heap' \in [Addr -> Node \cup {NULL}]
  BY <1>1 DEF free_url_config, HeapType
<1>5. /\ frame' \in [Addr -> Frame \cup {NULL}] /\ frame'[a] = NULL
      /\ SameCalls(Addr \ {a})
      /\ caller # NULL => reading' = "urls"
      /\ reading' \in {"urls", "refused"}
  <2>1. frame \in [Addr -> Frame \cup {NULL}] /\ a \in Addr
    BY <1>1, <1>2 DEF HeapType, Calls
  <2>2. CASE caller = NULL
    <3>1. reading' = "refused" /\ frame' = [frame EXCEPT ![a] = NULL]
      BY <1>1, <2>2 DEF note_error
    <3> QED BY <2>1, <2>2, <3>1 DEF SameCalls
  <2>3. CASE caller # NULL
    <3> DEFINE e == [frame[caller] EXCEPT !.error_config = TRUE]
    <3>1. frame[caller] \in Frame /\ caller \in Addr
      BY <1>1, <1>2, <2>3, FrameFields DEF Calls
    <3>2. /\ e \in Frame /\ e.caller = frame[caller].caller
          /\ e.prev_sub_path_config = frame[caller].prev_sub_path_config
      BY <3>1 DEF Frame
    <3>3. e # NULL /\ frame[caller] # NULL
      BY <3>1, <3>2, ConfigNullAssumption
    <3>4. frame' = [frame EXCEPT ![a] = NULL, ![caller].error_config = TRUE]
          /\ reading' = reading
      BY <1>1, <2>3 DEF note_error
    <3>5. frame' = [frame EXCEPT ![a] = NULL, ![caller] = e]
      BY <1>2, <3>4
    <3> HIDE DEF e, caller
    <3>6. /\ frame' \in [Addr -> Frame \cup {NULL}] /\ frame'[a] = NULL
          /\ frame'[caller] = e
          /\ \A b \in Addr \ {a, caller} : frame'[b] = frame[b]
      BY <1>2, <2>1, <3>1, <3>2, <3>5
    <3> QED BY <1>1, <3>2, <3>3, <3>4, <3>6 DEF SameCalls
  <2> QED BY <2>2, <2>3
<1>6. ConfigTypeOK'
  <2>1. blocks' \subseteq Addr \X Block
    BY <1>3 DEF BlocksOwned
  <2> QED BY <1>1, <1>2, <1>4, <1>5, <2>1 DEF ConfigTypeOK, Calls
<1>7. FailedCall(a)
  BY <1>1, <1>2, <1>3, <1>5 DEF FailedCall
<1>8. GraphInv'
  <2>1. HeapType'
    BY <1>6 DEF ConfigTypeOK, HeapType
  <2> QED BY <1>1, <1>7, <2>1, FailedCallKeeps
<1>9. ReadingUrls'
  BY <1>1, <1>5 DEF ReadingUrls
<1> QED BY <1>3, <1>6, <1>8, <1>9 DEF MemInv

LEMMA FreeFirstKeepsMem ==
  ASSUME MemInv, free_first, current = NULL,
         UNCHANGED <<file, home, reader, alloc_failures>>
  PROVE  MemInv'
<1> DEFINE a == first_url_config
<1>1. /\ ConfigTypeOK /\ HeapType /\ GraphInv /\ a # NULL
      /\ free_url_config(a) /\ first_url_config' = heap[a].next
      /\ UNCHANGED <<file, home, reading, urls_read, current, frame,
                     alloc_failures>>
  BY TypedHeap DEF MemInv, free_first, next_to_free, reader
<1>2. a \in Live
  BY <1>1 DEF HeapType, GraphInv, PointersAlive, Live
<1>3. BlocksOwned' /\ Release(a)
  BY <1>1, <1>2, ReleasedBlocks DEF MemInv, Live
<1>4. FreedFirst(a)
  BY <1>1, <1>3 DEF FreedFirst
<1>5. ConfigTypeOK'
  <2>1. heap' \in [Addr -> Node \cup {NULL}]
    BY <1>1 DEF free_url_config, HeapType
  <2>2. first_url_config' \in Addr \cup {NULL}
    BY <1>1, <1>2, NodeFields
  <2>3. blocks' \subseteq Addr \X Block
    BY <1>3 DEF BlocksOwned
  <2> QED BY <1>1, <2>1, <2>2, <2>3 DEF ConfigTypeOK
<1>6. GraphInv'
  <2>1. HeapType'
    BY <1>5 DEF ConfigTypeOK, HeapType
  <2> QED BY <1>1, <1>4, <2>1, FreedFirstKeeps
<1>7. ReadingUrls'
  BY <1>1 DEF ReadingUrls, MemInv
<1> QED BY <1>3, <1>5, <1>6, <1>7 DEF MemInv

(* Every step of the reader keeps the memory in order. *)
LEMMA ReadKeepsMem ==
  ASSUME MemInv, phs_config_read
  PROVE  MemInv'
BY ReadSettingsKeepsMem, ReadUrlKeepsMem, ReadAllKeepsMem, ReadSubPathKeepsMem,
   ReturnToSubPathKeepsMem, ReturnToUrlKeepsMem, ReturnNullKeepsMem
   DEF phs_config_read

LEMMA UnchangedKeepsMem ==
  ASSUME MemInv, UNCHANGED config_vars
  PROVE  MemInv'
<1> USE DEF config_vars, reader, tree
<1>1. ConfigTypeOK' /\ ReadingUrls' /\ SameCalls(Addr)
  BY DEF MemInv, ConfigTypeOK, ReadingUrls, SameCalls
<1> QED BY <1>1, SameMemory

(* What the least closed sets say of the memory that is left. *)
LEMMA MemNothingLost ==
  ASSUME MemInv
  PROVE  NothingLost
<1>1. ASSUME NEW a \in Live,
             NEW S \in SUBSET Addr, Closed(S),
             ({first_url_config} \cup {b \in Addr : frame[b] # NULL}) \ {NULL}
               \subseteq S
      PROVE  a \in S
  <2>1. first_url_config \in S \cup {NULL}
    BY <1>1
  <2>2. Calls \subseteq S
    BY <1>1, ConfigAssumption DEF Calls
  <2> QED BY <1>1, <2>1, <2>2 DEF MemInv, GraphInv, Covered
<1>2. ASSUME NEW p \in Addr \X Block
      PROVE  p \in blocks <=>
               p \in UNION {blocks_of(a) : a \in {b \in Addr : heap[b] # NULL}}
  <2>1. PICK a \in Addr, k \in Block : p = <<a, k>>
    OBVIOUS
  <2> QED BY <2>1 DEF MemInv, BlocksOwned, blocks_of
<1>3. UNION {blocks_of(a) : a \in {b \in Addr : heap[b] # NULL}}
        \subseteq Addr \X Block
  BY DEF blocks_of
<1>4. blocks \subseteq Addr \X Block
  BY DEF MemInv, BlocksOwned
<1>5. \A a \in Addr : heap[a] # NULL =>
         a \in Reachable({first_url_config} \cup {b \in Addr : frame[b] # NULL})
  BY <1>1 DEF Reachable, Live
<1> QED BY <1>2, <1>3, <1>4, <1>5 DEF NothingLost

(* Once no call is in progress and the list is empty, nothing is left. *)
LEMMA MemEmpty ==
  ASSUME MemInv, current = NULL, first_url_config = NULL
  PROVE  (\A a \in Addr : heap[a] = NULL) /\ blocks = {}
<1>1. Calls = {}
  BY NoCalls DEF MemInv, GraphInv
<1>2. {} \in SUBSET Addr /\ first_url_config \in {} \cup {NULL}
      /\ Calls \subseteq {} /\ Closed({})
  BY <1>1 DEF Closed
<1>3. Live \subseteq {}
  BY <1>2 DEF MemInv, GraphInv, Covered
<1>4. \A a \in Addr : heap[a] = NULL
  BY <1>3 DEF Live
<1> QED BY <1>4 DEF MemInv, BlocksOwned

=============================================================================
