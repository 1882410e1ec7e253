-------------------------- MODULE PickRouterProofs --------------------------
(***************************************************************************)
(* Proofs about PickRouter: whatever the configuration and the URL, the    *)
(* walk keeps what it should of the chain of entries it has gone down.     *)
(***************************************************************************)
EXTENDS PickRouter, TLAPS, FiniteSetTheorems, WellFoundedInduction

-----------------------------------------------------------------------------
(* The inductive invariant. *)

(* How much of the URL is behind uri_index, and the folders in it. *)
Walked == Len(url) - Len(uri_index)
Seen == {i \in Folders : i <= Walked}

RestOfUrl ==
  /\ Len(uri_index) <= Len(url)
  /\ \A i \in 1..Len(uri_index) : uri_index[i] = url[Walked + i]

BaseOf(p) == IF Seen = {} THEN Reverse(config.url) ELSE Below(p, Seen)

(* p is the entry taken at each folder so far. The last conjunct is what   *)
(* UnambiguousFound needs: no chain could have gone another way.           *)
Tracks(p) ==
  /\ \A i \in Seen : Fits(p, i)
  /\ base_url_config = BaseOf(p)
  /\ subr = RoutineOf(p)
  /\ method_authorized = UNION {config.node[p[i]].method : i \in DOMAIN p}
  /\ param_authorized = UNION {config.node[p[i]].get_param : i \in DOMAIN p}
  /\ Unambiguous => \A q \in Chains : \A i \in Seen : q[i] = p[i]

IInv ==
  /\ config \in Configs /\ url \in Urls
  /\ TypeOK
  /\ RestOfUrl
  /\ \E p \in [Seen -> Node] : Tracks(p)
  /\ status = "0" => uri_index = <<>> /\ subr # NULL
  /\ status = "404" =>
       IF uri_index = <<>> THEN subr = NULL
       ELSE Matching(Head(uri_index)) = {}

-----------------------------------------------------------------------------
(* Minima, maxima and lists. *)

(* A set of numbers has a least one.                                       *)
LEMMA MinIn ==
  ASSUME NEW S \in SUBSET Nat, S # {}
  PROVE  Min(S) \in S /\ \A y \in S : Min(S) =< y
<1> DEFINE R == {ss \in Nat \X Nat : ss[1] < ss[2]}
<1>1. IsWellFoundedOn(R, Nat)
  BY NatLessThanWellFounded DEF OpToRel
<1> HIDE DEF R
<1>2. PICK x \in S : \A y \in S : ~ (<<y, x>> \in R)
  BY <1>1, WFMin
<1>3. ASSUME NEW y \in S PROVE x =< y
  <2>1. x \in Nat /\ y \in Nat
    OBVIOUS
  <2>2. ~(y < x)
    <3>1. <<y, x>> \in Nat \X Nat /\ <<y, x>>[1] = y /\ <<y, x>>[2] = x
      BY <2>1
    <3> QED
      BY <1>2, <3>1, Zenon DEF R
  <2> QED
    BY <2>1, <2>2
<1> QED
  BY <1>3 DEF Min

(* A bounded set of numbers has a greatest one.                            *)
LEMMA MaxIn ==
  ASSUME NEW S \in SUBSET Nat, S # {}, NEW b \in Nat, \A y \in S : y =< b
  PROVE  Max(S) \in S /\ \A y \in S : Max(S) >= y
<1> DEFINE Below_b == {b - y : y \in S}
<1>1. Below_b \in SUBSET Nat /\ Below_b # {}
  OBVIOUS
<1>2. PICK x \in S : b - x = Min(Below_b)
  BY <1>1, MinIn
<1>3. \A y \in S : Min(Below_b) =< b - y
  BY <1>1, MinIn
<1>4. \A y \in S : x >= y
  BY <1>2, <1>3
<1> QED
  BY <1>4 DEF Max

(* The greatest number is Max.                                             *)
LEMMA MaxIs ==
  ASSUME NEW S \in SUBSET Nat, NEW x \in S, \A y \in S : y =< x
  PROVE  Max(S) = x
<1>1. x \in Nat /\ \A y \in S : y \in Nat /\ x >= y
  OBVIOUS
<1>2. Max(S) \in S /\ Max(S) >= x
  BY <1>1 DEF Max
<1>3. Max(S) \in Nat /\ x >= Max(S)
  BY <1>1, <1>2
<1> QED
  BY <1>1, <1>2, <1>3

(* A list and its reverse have the same entries.                           *)
LEMMA ReverseSame ==
  ASSUME NEW X, NEW s \in Seq(X)
  PROVE  /\ Reverse(s) \in Seq(X)
         /\ Len(Reverse(s)) = Len(s)
         /\ \A i \in 1..Len(s) : Reverse(s)[i] = s[Len(s) - i + 1]
         /\ ToSet(Reverse(s)) = ToSet(s)
<1>1. /\ Reverse(s) \in Seq(X)
      /\ Len(Reverse(s)) = Len(s)
      /\ \A i \in 1..Len(s) : Reverse(s)[i] = s[Len(s) - i + 1]
  BY DEF Reverse
<1>2. ASSUME NEW x \in ToSet(s)
      PROVE  x \in ToSet(Reverse(s))
  <2>1. PICK i \in 1..Len(s) : s[i] = x
    BY DEF ToSet
  <2>2. Reverse(s)[Len(s) - i + 1] = x /\ Len(s) - i + 1 \in 1..Len(s)
    BY <1>1, <2>1
  <2> QED
    BY <1>1, <2>2 DEF ToSet
<1>3. ASSUME NEW x \in ToSet(Reverse(s))
      PROVE  x \in ToSet(s)
  <2>1. PICK i \in 1..Len(s) : Reverse(s)[i] = x
    BY <1>1 DEF ToSet
  <2>2. s[Len(s) - i + 1] = x /\ Len(s) - i + 1 \in 1..Len(s)
    BY <1>1, <2>1
  <2> QED
    BY <2>2 DEF ToSet
<1> QED
  BY <1>1, <1>2, <1>3

-----------------------------------------------------------------------------
(* What skip_slashes leaves: the rest of u from its first folder on.       *)
LEMMA SkipSlashes ==
  ASSUME NEW u \in Seq(STRING)
  PROVE  \E j \in 0..Len(u) :
           /\ skip_slashes(u) \in Seq(STRING)
           /\ Len(skip_slashes(u)) = Len(u) - j
           /\ \A i \in 1..Len(u) - j : skip_slashes(u)[i] = u[i + j]
           /\ \A i \in 1..j : u[i] = ""
           /\ j < Len(u) => u[j + 1] # ""
<1> DEFINE Folder(i) == u[i] # ""
           S == {i \in 1..Len(u) + 1 : i = Len(u) + 1 \/ Folder(i)}
           k == Min(S)
<1>1. skip_slashes(u) = SubSeq(u, k, Len(u))
  BY DEF skip_slashes
<1> HIDE DEF Folder
<1>2. S \in SUBSET Nat /\ S # {}
  <2>1. Len(u) \in Nat
    OBVIOUS
  <2>2. Len(u) + 1 \in S
    BY <2>1
  <2> QED
    BY <2>1, <2>2
<1> HIDE DEF k
<1>3. k \in S /\ \A y \in S : k =< y
  BY <1>2, MinIn DEF k
<1>4. PICK j \in 0..Len(u) : k = j + 1
  BY <1>3
<1>5. \A i \in 1..j : ~Folder(i)
  BY <1>3, <1>4
<1>6. j < Len(u) => Folder(j + 1)
  BY <1>3, <1>4
<1>7. /\ skip_slashes(u) \in Seq(STRING)
      /\ Len(skip_slashes(u)) = Len(u) - j
      /\ \A i \in 1..Len(u) - j : skip_slashes(u)[i] = u[i + j]
  BY <1>1, <1>4
<1> QED
  BY <1>5, <1>6, <1>7 DEF Folder

-----------------------------------------------------------------------------
(* The configuration and the URL, and what is said of them alone.          *)

(* What the invariant says of the constants' types.                        *)
LEMMA ConfigType ==
  ASSUME IInv
  PROVE  /\ url \in Seq(STRING) /\ config.url \in Seq(Node)
         /\ \A n \in Node : /\ config.node[n].subr \in STRING \cup {NULL}
                            /\ config.node[n].sub_path \in Seq(Node)
<1>1. /\ config \in [url : Seq(Node), node : [Node -> Entry]]
      /\ url \in Seq(STRING)
  BY RouterAssumption DEF IInv
<1>2. \A n \in Node : config.node[n] \in Entry
  BY <1>1
<1> QED
  BY <1>1, <1>2 DEF Entry

(* What is said of the file and the URL does not change while they do not. *)
LEMMA Unmoved ==
  ASSUME UNCHANGED <<config, url>>
  PROVE  /\ Folders' = Folders /\ Chains' = Chains
         /\ Unambiguous' = Unambiguous
         /\ \A p : /\ \A i : Fits(p, i)' = Fits(p, i)
                   /\ \A a : Below(p, a)' = Below(p, a)
                   /\ RoutineOf(p)' = RoutineOf(p)
<1>1. \A p, a : Below(p, a)' = Below(p, a)
  BY DEF Below
<1>2. Folders' = Folders
  BY DEF Folders
<1>3. \A p, i : Fits(p, i)' = Fits(p, i)
  BY <1>1, <1>2 DEF Fits
<1>4. Chains' = Chains
  BY <1>2, <1>3 DEF Chains
<1>5. Unambiguous' = Unambiguous
  BY DEF Unambiguous
<1>6. \A p : RoutineOf(p)' = RoutineOf(p)
  BY DEF RoutineOf
<1> QED
  BY <1>1, <1>2, <1>3, <1>4, <1>5, <1>6

(* The folders before i, for any chain that goes at least that far. *)
LEMMA BelowSame ==
  ASSUME NEW k \in Nat, NEW S \in SUBSET (0..k), NEW T \in SUBSET S,
         NEW p, NEW q, \A i \in T : p[i] = q[i]
  PROVE  Below(p, T) = Below(q, T)
<1>1. CASE T = {}
  BY <1>1 DEF Below
<1>2. CASE T # {}
  <2>1. Max(T) \in T
    <3>1. T \in SUBSET Nat /\ \A y \in T : y =< k
      OBVIOUS
    <3> QED
      BY <1>2, <3>1, MaxIn
  <2> QED
    BY <1>2, <2>1 DEF Below
<1> QED
  BY <1>1, <1>2

(* Below any entries of the file there is a list of entries.               *)
LEMMA BelowType ==
  ASSUME IInv, NEW k \in Nat, NEW S \in SUBSET (0..k), NEW p \in [S -> Node]
  PROVE  Below(p, S) \in Seq(Node)
<1>1. CASE S = {}
  BY <1>1, ConfigType DEF Below
<1>2. CASE S # {}
  <2>1. Max(S) \in S
    <3>1. S \in SUBSET Nat /\ \A y \in S : y =< k
      OBVIOUS
    <3> QED
      BY <1>2, <3>1, MaxIn
  <2>2. p[Max(S)] \in Node
    BY <2>1
  <2> QED
    BY <1>2, <2>2, ConfigType DEF Below
<1> QED
  BY <1>1, <1>2

(* The routine of a chain that goes on by one folder. *)
LEMMA RoutineExtends ==
  ASSUME NEW k \in Nat, NEW S \in SUBSET (0..k), NEW p \in [S -> Node],
         NEW m \in Node, NEW q \in [S \cup {k + 1} -> Node],
         q[k + 1] = m, \A i \in S : q[i] = p[i]
  PROVE  RoutineOf(q) = IF config.node[m].subr # NULL
                        THEN config.node[m].subr ELSE RoutineOf(p)
<1> DEFINE Names(r, i) == config.node[r[i]].subr # NULL
           named(r) == {i \in DOMAIN r : Names(r, i)}
<1>0. /\ DOMAIN q = S \cup {k + 1} /\ DOMAIN p = S /\ k + 1 \notin S
      /\ \A y \in S : y \in Nat /\ y =< k /\ y =< k + 1
      /\ k + 1 \in Nat /\ k + 1 =< k + 1
  OBVIOUS
<1>1. CASE config.node[m].subr # NULL
  <2>1. k + 1 \in named(q)
    BY <1>0, <1>1
  <2>2. named(q) \in SUBSET Nat /\ \A y \in named(q) : y =< k + 1
    BY <1>0, Zenon
  <2>3. Max(named(q)) = k + 1
    <3> HIDE DEF named
    <3> QED
      BY <2>1, <2>2, MaxIs
  <2> QED
    BY <1>1, <2>1, <2>3 DEF RoutineOf
<1>2. CASE config.node[m].subr = NULL
  <2>1. named(q) = named(p)
    BY <1>0, <1>2
  <2>2. ASSUME named(p) # {} PROVE q[Max(named(p))] = p[Max(named(p))]
    <3>1. named(p) \in SUBSET Nat /\ \A y \in named(p) : y =< k
      BY <1>0, Zenon
    <3>2. Max(named(p)) \in named(p)
      <4> HIDE DEF named
      <4> QED
        BY <2>2, <3>1, MaxIn
    <3> QED
      BY <1>0, <3>2
  <2> QED
    BY <1>2, <2>1, <2>2 DEF RoutineOf
<1> QED
  BY <1>1, <1>2

-----------------------------------------------------------------------------
(* Places are numbers, names are strings: the two are kept apart.          *)
LEMMA FoldersAre ==
  ASSUME url \in Seq(STRING)
  PROVE  /\ Folders \in SUBSET (1..Len(url))
         /\ \A i \in 1..Len(url) : i \in Folders <=> url[i] # ""
<1>1. DOMAIN url = 1..Len(url)
  OBVIOUS
<1> QED
  BY <1>1, Zenon DEF Folders

(* u is the URL from the place after k on. *)
Rest(u, k) ==
  /\ u \in Seq(STRING) /\ Len(u) = Len(url) - k
  /\ \A i \in 1..Len(u) : u[i] = url[k + i]

(* skip_slashes moves to the next folder, past none.                       *)
LEMMA SkipInUrl ==
  ASSUME url \in Seq(STRING), NEW k \in 0..Len(url), NEW u, Rest(u, k)
  PROVE  \E j \in k..Len(url) :
           /\ Rest(skip_slashes(u), j)
           /\ \A i \in k + 1..j : i \notin Folders
           /\ j < Len(url) => j + 1 \in Folders
<1>1. u \in Seq(STRING) /\ Len(u) = Len(url) - k
  BY DEF Rest
<1> DEFINE v == skip_slashes(u)
           Slash(s, i) == s[i] = ""
<1>2. PICK n \in 0..Len(u) :
        /\ v \in Seq(STRING)
        /\ Len(v) = Len(u) - n
        /\ \A i \in 1..Len(u) - n : v[i] = u[i + n]
        /\ \A i \in 1..n : Slash(u, i)
        /\ n < Len(u) => ~Slash(u, n + 1)
  BY <1>1, SkipSlashes
<1>3. \A i \in 1..Len(u) : u[i] = url[k + i] /\ Slash(u, i) = Slash(url, k + i)
  BY DEF Rest
<1>4. \A i \in 1..Len(url) : i \in Folders <=> ~Slash(url, i)
  BY FoldersAre
<1> HIDE DEF Slash, v
<1>5. Len(url) \in Nat /\ Len(u) \in Nat
  BY <1>1
<1> DEFINE j == k + n
<1>6. j \in k..Len(url) /\ Len(v) = Len(url) - j
  BY <1>1, <1>2, <1>5
<1>7. \A i \in 1..Len(v) : v[i] = url[j + i]
  <2> SUFFICES ASSUME NEW i \in 1..Len(v) PROVE v[i] = url[j + i]
    OBVIOUS
  <2>1. i \in 1..Len(u) - n /\ i + n \in 1..Len(u) /\ k + (i + n) = j + i
    BY <1>2, <1>5
  <2>2. v[i] = u[i + n]
    BY <1>2, <2>1
  <2>3. u[i + n] = url[k + (i + n)]
    BY <1>3, <2>1
  <2> QED
    BY <2>1, <2>2, <2>3
<1>8. ASSUME NEW i \in k + 1..j PROVE i \notin Folders
  <2>1. /\ i - k \in 1..n /\ i - k \in 1..Len(u)
        /\ i \in 1..Len(url) /\ k + (i - k) = i
    BY <1>1, <1>2, <1>5
  <2>2. Slash(u, i - k)
    BY <1>2, <2>1
  <2>3. Slash(url, k + (i - k))
    BY <1>3, <2>1, <2>2
  <2> QED
    BY <1>4, <2>1, <2>3
<1>9. ASSUME j < Len(url) PROVE j + 1 \in Folders
  <2>1. /\ n < Len(u) /\ n + 1 \in 1..Len(u)
        /\ j + 1 \in 1..Len(url) /\ k + (n + 1) = j + 1
    BY <1>1, <1>2, <1>5, <1>9
  <2>2. ~Slash(u, n + 1)
    BY <1>2, <2>1
  <2>3. ~Slash(url, k + (n + 1))
    BY <1>3, <2>1, <2>2
  <2> QED
    BY <1>4, <2>1, <2>3
<1>10. Rest(v, j)
  BY <1>2, <1>6, <1>7 DEF Rest
<1> QED
  BY <1>6, <1>8, <1>9, <1>10 DEF v

(* The folders seen when j places are behind.                              *)
SeenAt(j) == {i \in Folders : i =< j}

(* What the rest of the URL tells of how far the walk is.                  *)
LEMMA RestIs ==
  ASSUME NEW j \in Nat, url \in Seq(STRING), Rest(uri_index, j),
         j =< Len(url)
  PROVE  Walked = j /\ RestOfUrl /\ Seen = SeenAt(j)
<1>1. Walked = j
  <2>1. Len(uri_index) = Len(url) - j
    BY DEF Rest
  <2>2. Len(url) \in Nat
    OBVIOUS
  <2> HIDE DEF Rest
  <2> QED
    BY <2>1, <2>2 DEF Walked
<1>2. Len(uri_index) =< Len(url)
  <2>1. Len(uri_index) = Len(url) - j
    BY DEF Rest
  <2>2. Len(url) \in Nat
    OBVIOUS
  <2> QED
    BY <2>1, <2>2
<1>3. RestOfUrl
  BY <1>1, <1>2 DEF RestOfUrl, Rest
<1> QED
  BY <1>1, <1>3 DEF Seen, SeenAt

(* uri_index starts with a folder, or is at the end.                       *)
LEMMA HeadIsFolder ==
  ASSUME NEW j \in Nat, url \in Seq(STRING), Rest(uri_index, j),
         j =< Len(url), uri_index # <<>>
  PROVE  /\ j < Len(url) /\ j + 1 \in 1..Len(url)
         /\ Head(uri_index) = url[j + 1]
<1>1. uri_index \in Seq(STRING) /\ Len(uri_index) = Len(url) - j
  BY DEF Rest
<1>2. Len(uri_index) \in Nat /\ Len(uri_index) # 0
  BY <1>1
<1>3. Len(url) \in Nat
  OBVIOUS
<1>4. j < Len(url) /\ j + 1 \in 1..Len(url) /\ 1 \in 1..Len(uri_index)
  BY <1>1, <1>2, <1>3
<1>5. Head(uri_index) = uri_index[1]
  BY <1>1, <1>2
<1>6. uri_index[1] = url[j + 1]
  BY <1>4 DEF Rest
<1> QED
  BY <1>4, <1>5, <1>6

(* Its methods and parameters. *)
LEMMA PermissionsExtend ==
  ASSUME NEW S, NEW e, NEW p, NEW q, \A i \in S : q[i] = p[i]
  PROVE  /\ UNION {config.node[q[i]].method : i \in S \cup {e}} =
              (UNION {config.node[p[i]].method : i \in S})
                \cup config.node[q[e]].method
         /\ UNION {config.node[q[i]].get_param : i \in S \cup {e}} =
              (UNION {config.node[p[i]].get_param : i \in S})
                \cup config.node[q[e]].get_param
<1>1. UNION {config.node[q[i]].method : i \in S \cup {e}} =
        (UNION {config.node[p[i]].method : i \in S})
          \cup config.node[q[e]].method
  OBVIOUS
<1>2. UNION {config.node[q[i]].get_param : i \in S \cup {e}} =
        (UNION {config.node[p[i]].get_param : i \in S})
          \cup config.node[q[e]].get_param
  OBVIOUS
<1> QED
  BY <1>1, <1>2

-----------------------------------------------------------------------------
(* The walk begins before the first folder, with the empty chain.          *)
LEMMA InitInv == Init => IInv
<1> SUFFICES ASSUME Init PROVE IInv
  OBVIOUS
<1>1. /\ config \in [url : Seq(Node), node : [Node -> Entry]]
      /\ url \in Seq(STRING)
  BY RouterAssumption DEF Init
<1>2. Rest(url, 0)
  BY <1>1 DEF Rest
<1>3. PICK j \in 0..Len(url) :
        /\ Rest(uri_index, j)
        /\ \A i \in 0 + 1..j : i \notin Folders
        /\ j < Len(url) => j + 1 \in Folders
  BY <1>1, <1>2, SkipInUrl DEF Init
<1>4. RestOfUrl /\ Seen = SeenAt(j)
  BY <1>1, <1>3, RestIs
<1>5. Seen = {}
  <2>1. Folders \in SUBSET (1..Len(url))
    BY <1>1, FoldersAre
  <2>2. \A i \in 0 + 1..j : i \notin Folders
    BY <1>3
  <2>3. ASSUME NEW i \in SeenAt(j) PROVE FALSE
    <3>1. i \in 1..Len(url) /\ i =< j /\ i \in Folders
      BY <2>1 DEF SeenAt
    <3>2. i \in 0 + 1..j
      BY <1>1, <3>1
    <3> QED
      BY <2>2, <3>1, <3>2
  <2> QED
    BY <1>4, <2>3
<1>6. TypeOK
  <2>1. base_url_config \in Seq(Node)
    BY <1>1, ReverseSame DEF Init, first_url_config
  <2>2. uri_index # <<>> => Head(uri_index) # ""
    <3> SUFFICES ASSUME uri_index # <<>> PROVE Head(uri_index) # ""
      OBVIOUS
    <3>1. j < Len(url) /\ Head(uri_index) = url[j + 1]
      BY <1>1, <1>3, HeadIsFolder
    <3>2. j + 1 \in Folders
      BY <1>3, <3>1
    <3> QED
      BY <3>1, <3>2 DEF Folders
  <2>3. uri_index \in Seq(STRING)
    BY <1>3 DEF Rest
  <2> QED
    BY <2>1, <2>2, <2>3 DEF TypeOK, Init
<1>7. PICK p \in [{} -> Node] : TRUE
  <2>1. [i \in {} |-> config] \in [{} -> Node]
    OBVIOUS
  <2> QED
    BY <2>1
<1>8. Tracks(p)
  BY <1>5, <1>7 DEF Tracks, BaseOf, RoutineOf, Init, first_url_config
<1> QED
  BY <1>4, <1>5, <1>6, <1>8 DEF IInv, Init

-----------------------------------------------------------------------------
(* One folder. *)

(* In every state the rest of the URL is what follows some place.          *)
LEMMA IInvRest ==
  ASSUME IInv
  PROVE  \E k \in 0..Len(url) :
           Rest(uri_index, k) /\ Walked = k /\ Seen = SeenAt(k)
<1>1. url \in Seq(STRING) /\ uri_index \in Seq(STRING)
  BY ConfigType DEF IInv, TypeOK
<1>2. /\ Len(uri_index) =< Len(url)
      /\ \A i \in 1..Len(uri_index) : uri_index[i] = url[Walked + i]
  BY DEF IInv, RestOfUrl
<1>3. Len(url) \in Nat /\ Len(uri_index) \in Nat
  BY <1>1
<1>4. Walked \in 0..Len(url) /\ Len(uri_index) = Len(url) - Walked
  BY <1>2, <1>3 DEF Walked
<1>5. Rest(uri_index, Walked)
  BY <1>1, <1>2, <1>4 DEF Rest
<1>6. Seen = SeenAt(Walked)
  BY DEF Seen, SeenAt
<1> QED
  BY <1>4, <1>5, <1>6

(* A list of entries, and the list they were written in.                   *)
LEMMA BaseSame ==
  ASSUME IInv, NEW p \in [Seen -> Node], Tracks(p)
  PROVE  /\ ToSet(base_url_config) = ToSet(Below(p, Seen))
         /\ base_url_config \in Seq(Node)
<1>1. base_url_config = BaseOf(p) /\ base_url_config \in Seq(Node)
  BY DEF Tracks, IInv, TypeOK
<1>2. CASE Seen = {}
  <2>1. Below(p, Seen) = config.url
    BY <1>2 DEF Below
  <2> QED
    BY <1>1, <1>2, <2>1, ConfigType, ReverseSame DEF BaseOf
<1>3. CASE Seen # {}
  BY <1>1, <1>3 DEF BaseOf
<1> QED
  BY <1>2, <1>3

(* Of siblings that do not overlap, one at most matches a name.            *)
LEMMA OneMatches ==
  ASSUME IInv, NEW p \in [Seen -> Node], Unambiguous,
         NEW m \in ToSet(Below(p, Seen)), NEW n \in ToSet(Below(p, Seen)),
         NEW name, name \in config.node[m].match, name \in config.node[n].match,
         Seen # {} => p[Max(Seen)] \in Node
  PROVE  m = n
<1> DEFINE L == Below(p, Seen)
<1>1. L \in {config.url} \cup {config.node[x].sub_path : x \in Node}
  BY DEF Below
<1>2. PICK i \in DOMAIN L : L[i] = m
  BY DEF ToSet
<1>3. PICK j \in DOMAIN L : L[j] = n
  BY DEF ToSet
<1>4. CASE i # j
  <2>1. config.node[L[i]].match \cap config.node[L[j]].match = {}
    BY <1>1, <1>4 DEF Unambiguous
  <2> QED
    BY <1>2, <1>3, <2>1
<1> QED
  BY <1>2, <1>3, <1>4

(* The entry that MatchFolder takes. *)
LEMMA Taken ==
  ASSUME IInv, NEW p \in [Seen -> Node], Tracks(p), NEW name,
         Matching(name) # {}
  PROVE  LET m == base_url_config[Min(Matching(name))] IN
         m \in Node /\ m \in ToSet(Below(p, Seen)) /\ name \in config.node[m].match
<1>1. /\ ToSet(base_url_config) = ToSet(Below(p, Seen))
      /\ base_url_config \in Seq(Node)
  BY BaseSame
<1>2. Matching(name) \in SUBSET Nat
  <2>1. DOMAIN base_url_config \in SUBSET Nat
    BY <1>1
  <2> QED
    BY <2>1, Zenon DEF Matching
<1>3. Min(Matching(name)) \in Matching(name)
  BY <1>2, MinIn
<1>4. /\ Min(Matching(name)) \in DOMAIN base_url_config
      /\ name \in config.node[base_url_config[Min(Matching(name))]].match
  BY <1>3, Zenon DEF Matching
<1>5. base_url_config[Min(Matching(name))] \in Node
  BY <1>1, <1>4
<1> QED
  BY <1>1, <1>4, <1>5, Zenon DEF ToSet

(* One folder down: the chain so far gets one entry more.                  *)
LEMMA MatchFolderInv ==
  ASSUME IInv, status = "walking", MatchFolder
  PROVE  IInv'
<1> DEFINE name == Head(uri_index)
           m == base_url_config[Min(Matching(name))]
           entry == config.node[m]
<1>1. /\ InLoop /\ Matching(name) # {}
      /\ uri_index' = folders_after(uri_index)
      /\ base_url_config' = entry.sub_path
      /\ subr' = IF entry.subr # NULL THEN entry.subr ELSE subr
      /\ method_authorized' = method_authorized \cup entry.method
      /\ param_authorized' = param_authorized \cup entry.get_param
      /\ UNCHANGED <<config, url>>
      /\ status' = status
  BY DEF MatchFolder, routine
<1>2. url \in Seq(STRING) /\ Len(url) \in Nat
  BY ConfigType
<1>3. PICK k \in 0..Len(url) :
        Rest(uri_index, k) /\ Walked = k /\ Seen = SeenAt(k)
  BY IInvRest
<1>4. PICK p \in [Seen -> Node] : Tracks(p)
  BY DEF IInv
<1>5. m \in Node /\ m \in ToSet(Below(p, Seen)) /\ name \in entry.match
  BY <1>1, <1>4, Taken
<1> HIDE DEF m
(* The URL. *)
<1>6. /\ k + 1 \in 1..Len(url) /\ name = url[k + 1] /\ k + 1 \in Folders
  <2>1. /\ k < Len(url) /\ k + 1 \in 1..Len(url) /\ name = url[k + 1]
    BY <1>1, <1>2, <1>3, HeadIsFolder DEF InLoop
  <2>2. name # ""
    BY <1>1 DEF IInv, TypeOK, InLoop
  <2> QED
    BY <1>2, <2>1, <2>2, FoldersAre
<1>7. Rest(Tail(uri_index), k + 1)
  <2>1. /\ uri_index \in Seq(STRING) /\ uri_index # <<>>
        /\ Len(uri_index) = Len(url) - k
    BY <1>1, <1>3 DEF Rest, InLoop
  <2>2. /\ Tail(uri_index) \in Seq(STRING)
        /\ Len(Tail(uri_index)) = Len(url) - (k + 1)
        /\ \A i \in 1..Len(Tail(uri_index)) :
             /\ Tail(uri_index)[i] = uri_index[i + 1]
             /\ i + 1 \in 1..Len(uri_index) /\ k + (i + 1) = k + 1 + i
    BY <1>2, <2>1
  <2>3. \A i \in 1..Len(uri_index) : uri_index[i] = url[k + i]
    BY <1>3 DEF Rest
  <2>4. \A i \in 1..Len(Tail(uri_index)) : Tail(uri_index)[i] = url[k + 1 + i]
    BY <2>2, <2>3
  <2> QED
    BY <2>2, <2>4 DEF Rest
<1>8. PICK j \in k + 1..Len(url) :
        /\ Rest(skip_slashes(Tail(uri_index)), j)
        /\ \A i \in k + 1 + 1..j : i \notin Folders
        /\ j < Len(url) => j + 1 \in Folders
  <2>1. k + 1 \in 0..Len(url)
    BY <1>6
  <2> QED
    BY <1>2, <1>7, <2>1, SkipInUrl
<1>9. Rest(uri_index, j)'
  BY <1>1, <1>8 DEF Rest, folders_after
<1>10. j \in Nat /\ j =< Len(url)
  BY <1>2, <1>6, <1>8
<1>11. Walked' = j /\ RestOfUrl' /\ Seen' = SeenAt(j)'
  <2> DEFINE u == skip_slashes(Tail(uri_index))
  <2>1. uri_index' = u /\ url' = url
    BY <1>1 DEF folders_after
  <2>2. Len(u) = Len(url) - j /\ \A i \in 1..Len(u) : u[i] = url[j + i]
    BY <1>8 DEF Rest
  <2> HIDE DEF u
  <2>3. Len(url) - Len(u) = j /\ Len(u) =< Len(url)
    BY <1>2, <1>10, <2>2
  <2>4. Walked' = j
    BY <2>1, <2>3 DEF Walked
  <2>5. RestOfUrl'
    BY <2>1, <2>2, <2>3, <2>4 DEF RestOfUrl
  <2>6. Seen' = SeenAt(j)'
    BY <2>4 DEF Seen, SeenAt
  <2> QED
    BY <2>4, <2>5, <2>6
(* The chain so far, with m for the new folder. *)
<1>12. /\ Folders' = Folders /\ Chains' = Chains /\ Unambiguous' = Unambiguous
       /\ \A r : /\ \A i : Fits(r, i)' = Fits(r, i)
                 /\ \A a : Below(r, a)' = Below(r, a)
                 /\ RoutineOf(r)' = RoutineOf(r)
  BY <1>1, Unmoved
<1>13. Folders \in SUBSET (1..Len(url))
  BY <1>2, FoldersAre
<1>14. /\ Seen' = Seen \cup {k + 1} /\ k + 1 \notin Seen
       /\ Seen \in SUBSET (0..k)
       /\ {i \in Folders : i < k + 1} = Seen
       /\ \A i \in Seen : {h \in Folders : h < i} \in SUBSET Seen
  <2>1. \A i \in Folders : i \in Nat /\ i =< Len(url)
    BY <1>2, <1>13
  <2>2. \A i \in Folders : i =< j => i =< k \/ i = k + 1
    <3> SUFFICES ASSUME NEW i \in Folders, i =< j, ~(i =< k), i # k + 1
                 PROVE  FALSE
      OBVIOUS
    <3>1. i \in k + 1 + 1..j
      BY <1>2, <1>10, <2>1
    <3> QED
      BY <1>8, <3>1
  <2>3. \A i \in Folders : (i < k + 1 <=> i =< k) /\ (i =< k => i =< j)
    BY <1>2, <1>10, <2>1
  <2>4. k + 1 =< j /\ ~(k + 1 =< k) /\ k + 1 \in Folders
    BY <1>2, <1>6, <1>10
  <2>5. \A i \in Folders : i =< k => i \in 0..k
    BY <1>2, <2>1
  <2>6. Seen = {i \in Folders : i =< k} /\ Seen' = {i \in Folders : i =< j}
    BY <1>3, <1>11, <1>12 DEF SeenAt
  <2>7. \A i \in Folders, h \in Folders : i =< k /\ h < i => h =< k
    BY <1>2, <2>1
  <2> QED
    BY <2>2, <2>3, <2>4, <2>5, <2>6, <2>7, Zenon
<1>15. PICK q \in [Seen \cup {k + 1} -> Node] :
         q[k + 1] = m /\ \A i \in Seen : q[i] = p[i]
  <2> DEFINE r == [i \in Seen \cup {k + 1} |-> IF i = k + 1 THEN m ELSE p[i]]
  <2>1. r \in [Seen \cup {k + 1} -> Node]
    BY <1>4, <1>5, <1>14
  <2>2. r[k + 1] = m /\ \A i \in Seen : r[i] = p[i]
    BY <1>14
  <2> QED
    BY <2>1, <2>2
<1>16. ASSUME NEW T \in SUBSET Seen PROVE Below(q, T) = Below(p, T)
  <2>1. k \in Nat /\ \A i \in T : q[i] = p[i]
    BY <1>2, <1>15
  <2> QED
    BY <1>14, <2>1, BelowSame
<1>17. \A i \in Seen' : Fits(q, i)'
  <2>1. ASSUME NEW i \in Seen PROVE Fits(q, i)
    <3>1. Fits(p, i)
      BY <1>4 DEF Tracks
    <3>2. Below(q, {h \in Folders : h < i}) = Below(p, {h \in Folders : h < i})
      BY <1>14, <1>16
    <3> QED
      BY <1>15, <3>1, <3>2 DEF Fits
  <2>2. Fits(q, k + 1)
    BY <1>5, <1>6, <1>14, <1>15, <1>16 DEF Fits
  <2> QED
    BY <1>12, <1>14, <2>1, <2>2
<1>18. (base_url_config = BaseOf(q))'
  <2>1. Max(Seen \cup {k + 1}) = k + 1
    <3>1. /\ Seen \cup {k + 1} \in SUBSET Nat
          /\ \A y \in Seen \cup {k + 1} : y =< k + 1
      BY <1>2, <1>14
    <3> QED
      BY <3>1, MaxIs
  <2>2. Below(q, Seen \cup {k + 1}) = entry.sub_path
    BY <1>15, <2>1 DEF Below
  <2> QED
    BY <1>1, <1>12, <1>14, <2>2 DEF BaseOf
<1>19. (subr = RoutineOf(q))'
  <2>1. subr = RoutineOf(p)
    BY <1>4 DEF Tracks
  <2>2. RoutineOf(q) = IF entry.subr # NULL THEN entry.subr ELSE RoutineOf(p)
    <3>1. k \in Nat /\ Seen \in SUBSET (0..k)
      BY <1>2, <1>14
    <3>2. m \in Node
      BY <1>5
    <3>3. q[k + 1] = m /\ \A i \in Seen : q[i] = p[i]
      BY <1>15
    <3> QED
      BY <3>1, <3>2, <3>3, RoutineExtends
  <2> QED
    BY <1>1, <1>12, <2>1, <2>2
<1>20. /\ method_authorized' = UNION {config.node[q[i]].method : i \in DOMAIN q}
       /\ param_authorized' = UNION {config.node[q[i]].get_param : i \in DOMAIN q}
  <2>1. DOMAIN p = Seen /\ DOMAIN q = Seen \cup {k + 1}
    BY <1>4, <1>15
  <2>2. /\ method_authorized = UNION {config.node[p[i]].method : i \in Seen}
        /\ param_authorized = UNION {config.node[p[i]].get_param : i \in Seen}
    BY <1>4, <2>1 DEF Tracks
  <2> QED
    BY <1>1, <1>15, <2>1, <2>2, PermissionsExtend
<1>21. (Unambiguous => \A r \in Chains : \A i \in Seen : r[i] = q[i])'
  <2> SUFFICES ASSUME Unambiguous, NEW r \in Chains, NEW i \in Seen \cup {k + 1}
               PROVE  r[i] = q[i]
    BY <1>12, <1>14
  <2>1. \A h \in Seen : r[h] = p[h]
    BY <1>4 DEF Tracks
  <2>2. CASE i \in Seen
    BY <1>15, <2>1, <2>2
  <2>3. CASE i = k + 1
    <3>1. Fits(r, k + 1)
      BY <1>6 DEF Chains
    <3>2. Below(r, Seen) = Below(p, Seen)
      <4>1. Seen \in SUBSET Seen /\ k \in Nat
        BY <1>2
      <4> QED
        BY <1>14, <2>1, <4>1, BelowSame
    <3>3. r[k + 1] \in ToSet(Below(p, Seen)) /\ name \in config.node[r[k + 1]].match
      BY <1>6, <1>14, <3>1, <3>2 DEF Fits
    <3>4. Seen # {} => p[Max(Seen)] \in Node
      <4>1. k \in Nat /\ Seen \in SUBSET Nat /\ \A y \in Seen : y =< k
        BY <1>2, <1>14
      <4>2. Seen # {} => Max(Seen) \in Seen
        BY <4>1, MaxIn
      <4> QED
        BY <1>4, <4>2
    <3>5. r[k + 1] = m
      BY <1>4, <1>5, <3>3, <3>4, OneMatches
    <3> QED
      BY <1>15, <2>3, <3>5
  <2> QED
    BY <2>2, <2>3
<1>22. Tracks(q)'
  BY <1>1, <1>17, <1>18, <1>19, <1>20, <1>21 DEF Tracks
<1>23. TypeOK'
  <2>1. uri_index' \in Seq(STRING)
    BY <1>9 DEF Rest
  <2>2. base_url_config' \in Seq(Node) /\ subr' \in STRING \cup {NULL}
    <3>1. entry.sub_path \in Seq(Node) /\ entry.subr \in STRING \cup {NULL}
      BY <1>5, ConfigType
    <3>2. subr \in STRING \cup {NULL}
      BY DEF IInv, TypeOK
    <3> QED
      BY <1>1, <3>1, <3>2
  <2>3. uri_index' # <<>> => Head(uri_index') # ""
    <3> DEFINE u == skip_slashes(Tail(uri_index))
    <3> SUFFICES ASSUME u # <<>> PROVE Head(u) # ""
      BY <1>1 DEF folders_after
    <3>1. /\ u \in Seq(STRING) /\ Len(u) = Len(url) - j
          /\ \A i \in 1..Len(u) : u[i] = url[j + i]
      BY <1>8 DEF Rest
    <3> HIDE DEF u
    <3>2. Head(u) = u[1] /\ 1 \in 1..Len(u) /\ j < Len(url)
      BY <1>2, <1>10, <3>1
    <3>3. j + 1 \in Folders /\ u[1] = url[j + 1]
      BY <1>8, <3>1, <3>2
    <3> QED
      BY <3>2, <3>3 DEF Folders
  <2> QED
    BY <1>1, <2>1, <2>2, <2>3 DEF TypeOK, IInv
<1> QED
  <2>1. \E r \in [Seen -> Node]' : Tracks(r)'
    BY <1>14, <1>22
  <2> QED
    BY <1>1, <1>11, <1>23, <2>1 DEF IInv

-----------------------------------------------------------------------------
(* The other steps only return. *)

NotFound ==
  IF uri_index = <<>> THEN subr = NULL ELSE Matching(Head(uri_index)) = {}

(* The other steps return a status and move nothing.                       *)
LEMMA StayInv ==
  ASSUME IInv,
         UNCHANGED <<config, url, uri_index, base_url_config, subr,
                     method_authorized, param_authorized>>,
         status' \in {"walking", "0", "404", "500"},
         status' = "0" => uri_index = <<>> /\ subr # NULL,
         status' = "404" => NotFound
  PROVE  IInv'
<1>1. /\ Folders' = Folders /\ Chains' = Chains /\ Unambiguous' = Unambiguous
      /\ \A r : /\ \A i : Fits(r, i)' = Fits(r, i)
                /\ \A a : Below(r, a)' = Below(r, a)
                /\ RoutineOf(r)' = RoutineOf(r)
  BY Unmoved
<1>2. Walked' = Walked
  BY DEF Walked
<1>3. Seen' = Seen /\ RestOfUrl'
  BY <1>1, <1>2 DEF Seen, IInv, RestOfUrl
<1>4. TypeOK'
  BY DEF IInv, TypeOK
<1>5. PICK p \in [Seen -> Node] : Tracks(p)
  BY DEF IInv
<1>6. Tracks(p)'
  BY <1>1, <1>3, <1>5 DEF Tracks, BaseOf
<1>7. NotFound' = NotFound
  BY DEF NotFound, Matching
<1>8. status' = "404" => NotFound'
  BY <1>7
<1> QED
  <2>1. \E r \in [Seen -> Node]' : Tracks(r)'
    BY <1>3, <1>5, <1>6
  <2> QED
    BY <1>3, <1>4, <1>8, <2>1 DEF IInv, NotFound

(* No folder: the chain is empty, and so is what is left of the URL.       *)
LEMMA RootNotFound ==
  ASSUME IInv, skip_slashes(url) = <<>>
  PROVE  NotFound
<1>1. url \in Seq(STRING) /\ Len(url) \in Nat
  BY ConfigType
<1>2. Rest(url, 0)
  BY <1>1 DEF Rest
<1>3. PICK j \in 0..Len(url) :
        /\ Rest(skip_slashes(url), j)
        /\ \A i \in 0 + 1..j : i \notin Folders
  BY <1>1, <1>2, SkipInUrl
<1>4. j = Len(url)
  <2>1. Len(skip_slashes(url)) = Len(url) - j
    BY <1>3 DEF Rest
  <2>2. Len(skip_slashes(url)) = 0
    OBVIOUS
  <2> QED
    BY <1>1, <2>1, <2>2
<1>5. Folders = {}
  <2>1. Folders \in SUBSET (1..Len(url))
    BY <1>1, FoldersAre
  <2> QED
    BY <1>3, <1>4, <2>1
<1>6. PICK p \in [Seen -> Node] : Tracks(p)
  BY DEF IInv
<1>7. subr = NULL
  <2>1. DOMAIN p = {}
    BY <1>5, <1>6 DEF Seen
  <2> QED
    BY <1>6, <2>1 DEF Tracks, RoutineOf
<1>8. uri_index = <<>>
  <2> SUFFICES ASSUME uri_index # <<>> PROVE FALSE
    OBVIOUS
  <2>1. PICK k \in 0..Len(url) : Rest(uri_index, k)
    BY IInvRest
  <2>2. k + 1 \in 1..Len(url) /\ Head(uri_index) = url[k + 1]
    BY <1>1, <2>1, HeadIsFolder
  <2>3. Head(uri_index) # ""
    BY DEF IInv, TypeOK
  <2> QED
    BY <1>1, <1>5, <2>2, <2>3, FoldersAre
<1> QED
  BY <1>7, <1>8 DEF NotFound

(* Each action preserves the invariant.                                    *)
LEMMA NextInv == IInv /\ [Next]_vars => IInv'
<1> SUFFICES ASSUME IInv, [Next]_vars PROVE IInv'
  OBVIOUS
<1>1. CASE UNCHANGED vars
  <2>1. NotFound \/ status # "404"
    BY DEF IInv, NotFound
  <2>2. /\ status \in {"walking", "0", "404", "500"}
        /\ status = "0" => uri_index = <<>> /\ subr # NULL
    BY DEF IInv, TypeOK
  <2> QED
    BY <1>1, <2>1, <2>2, StayInv DEF vars
<1>2. CASE status = "walking" /\ RootPath
  BY <1>2, RootNotFound, StayInv DEF RootPath, Return
<1>3. CASE status = "walking" /\ MatchFolder
  BY <1>3, MatchFolderInv
<1>4. CASE status = "walking" /\ NoFolder
  <2>1. NotFound
    BY <1>4 DEF NoFolder, NotFound, InLoop
  <2> QED
    BY <1>4, <2>1, StayInv DEF NoFolder, Return
<1>5. CASE status = "walking" /\ MemoryFull
  BY <1>5, StayInv DEF MemoryFull, Return
<1>6. CASE status = "walking" /\ Finish
  <2>1. CASE uri_index # <<>> \/ subr = NULL
    <3>1. uri_index # <<>> => Matching(Head(uri_index)) = {}
      BY <1>6 DEF Finish, InLoop, Matching
    <3>2. NotFound
      BY <2>1, <3>1 DEF NotFound
    <3> QED
      BY <1>6, <2>1, <3>2, StayInv DEF Finish, Return
  <2>2. CASE uri_index = <<>> /\ subr # NULL
    BY <1>6, <2>2, StayInv DEF Finish, Return
  <2> QED
    BY <2>1, <2>2
<1> QED
  BY <1>1, <1>2, <1>3, <1>4, <1>5, <1>6 DEF Next

(* IInv holds in every state.                                              *)
THEOREM Invariance == Spec => []IInv
<1>1. Init => IInv
  BY InitInv
<1>2. IInv /\ [Next]_vars => IInv'
  BY NextInv
<1> QED
  BY <1>1, <1>2, PTL DEF Spec

-----------------------------------------------------------------------------
(* The chain followed, once the URL is at its end, is a whole chain.       *)
LEMMA SeenAll ==
  ASSUME IInv, uri_index = <<>>
  PROVE  Seen = Folders
<1>1. url \in Seq(STRING) /\ Len(url) \in Nat
  BY ConfigType
<1>2. Walked = Len(url)
  BY <1>1 DEF Walked
<1>3. Folders \in SUBSET (1..Len(url))
  BY <1>1, FoldersAre
<1>4. \A i \in Folders : i =< Walked
  BY <1>1, <1>2, <1>3
<1> QED
  BY <1>4 DEF Seen

(* At the end of the URL the chain so far is a chain for all of it.        *)
LEMMA RoutedHolds ==
  ASSUME IInv PROVE RoutedAsConfigured
<1> SUFFICES ASSUME status = "0"
             PROVE  \E p \in Chains :
                      /\ subr = RoutineOf(p) /\ subr # NULL
                      /\ method_authorized =
                           UNION {config.node[p[i]].method : i \in DOMAIN p}
                      /\ param_authorized =
                           UNION {config.node[p[i]].get_param : i \in DOMAIN p}
  BY DEF RoutedAsConfigured
<1>1. uri_index = <<>> /\ subr # NULL
  BY DEF IInv
<1>2. Seen = Folders
  BY <1>1, SeenAll
<1>3. PICK p \in [Folders -> Node] : Tracks(p)
  BY <1>2 DEF IInv
<1>4. Folders # {}
  <2> SUFFICES ASSUME Folders = {} PROVE FALSE
    OBVIOUS
  <2>1. DOMAIN p = {}
    BY <1>3
  <2> QED
    BY <1>1, <1>3, <2>1 DEF Tracks, RoutineOf
<1>5. p \in Chains
  BY <1>2, <1>3, <1>4 DEF Tracks, Chains
<1> QED
  BY <1>1, <1>3, <1>5 DEF Tracks

(* A URL not found although a chain has a routine: the walk has come to    *)
(* the end of the chain, or the chain's next entry would have matched.     *)
LEMMA FoundHolds ==
  ASSUME IInv PROVE UnambiguousFound
<1> SUFFICES ASSUME Unambiguous, status = "404", NEW q \in Chains
             PROVE  RoutineOf(q) = NULL
  BY DEF UnambiguousFound
<1>1. url \in Seq(STRING) /\ Len(url) \in Nat
  BY ConfigType
<1>2. PICK p \in [Seen -> Node] : Tracks(p)
  BY DEF IInv
<1>3. \A i \in Seen : q[i] = p[i]
  BY <1>2 DEF Tracks
<1>4. CASE uri_index = <<>>
  <2>1. Seen = Folders
    BY <1>4, SeenAll
  <2>2. q = p
    BY <1>2, <1>3, <2>1 DEF Chains
  <2>3. subr = NULL
    BY <1>4 DEF IInv
  <2> QED
    BY <1>2, <2>2, <2>3 DEF Tracks
<1>5. CASE uri_index # <<>>
  <2>1. PICK k \in 0..Len(url) :
          Rest(uri_index, k) /\ Walked = k /\ Seen = SeenAt(k)
    BY IInvRest
  <2>2. k + 1 \in 1..Len(url) /\ Head(uri_index) = url[k + 1] /\ k \in Nat
    BY <1>1, <1>5, <2>1, HeadIsFolder
  <2>3. k + 1 \in Folders
    BY <1>1, <1>5, <2>2, FoldersAre DEF IInv, TypeOK
  <2>4. {h \in Folders : h < k + 1} = Seen /\ Seen \in SUBSET (0..k)
    <3>1. \A i \in Folders : i \in Nat
      <4>1. Folders \in SUBSET (1..Len(url))
        BY <1>1, FoldersAre
      <4> QED
        BY <1>1, <4>1
    <3>2. \A i \in Folders : (i < k + 1 <=> i =< k) /\ (i =< k => i \in 0..k)
      BY <2>2, <3>1
    <3> QED
      BY <2>1, <3>2, Zenon DEF SeenAt
  <2>5. Below(q, Seen) = Below(p, Seen)
    <3>1. Seen \in SUBSET Seen
      OBVIOUS
    <3> QED
      BY <1>3, <2>2, <2>4, <3>1, BelowSame
  <2>6. Fits(q, k + 1)
    BY <2>3 DEF Chains
  <2>7. q[k + 1] \in ToSet(base_url_config)
    BY <1>2, <2>4, <2>5, <2>6, BaseSame DEF Fits
  <2>8. PICK i \in DOMAIN base_url_config : base_url_config[i] = q[k + 1]
    BY <2>7 DEF ToSet
  <2>9. i \in Matching(Head(uri_index))
    BY <2>2, <2>6, <2>8 DEF Matching, Fits
  <2> QED
    BY <1>5, <2>9 DEF IInv
<1> QED
  BY <1>4, <1>5

-----------------------------------------------------------------------------
(* The walk's variables keep the code's types; in particular uri_index     *)
(* never points to a slash when a folder's name is taken from it.          *)
THEOREM RouterTypeOK == Spec => []TypeOK
<1>1. IInv => TypeOK
  BY DEF IInv
<1> QED
  BY <1>1, Invariance, PTL

(* For any configuration and URL: a routine is found only along a chain of *)
(* entries that matches every folder, with that chain's routine, methods   *)
(* and parameters.                                                         *)
THEOREM RouterRoutedAsConfigured == Spec => []RoutedAsConfigured
<1>1. IInv => RoutedAsConfigured
  BY RoutedHolds
<1> QED
  BY <1>1, Invariance, PTL

(* For any configuration and URL: if no two siblings match the same name,  *)
(* the greedy walk gives up no URL that the configuration routes.          *)
THEOREM RouterUnambiguousFound == Spec => []UnambiguousFound
<1>1. IInv => UnambiguousFound
  BY FoundHolds
<1> QED
  BY <1>1, Invariance, PTL
=============================================================================
