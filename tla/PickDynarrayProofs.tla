------------------------- MODULE PickDynarrayProofs -------------------------
(***************************************************************************)
(* Proofs about PickDynarray: the four invariants hold for any names,      *)
(* values, limit on the size and range of ranks.                           *)
(*                                                                         *)
(* The text is really parsed, so most of this is about split and join:     *)
(* what the parts of a text are, that joining them is the inverse, how     *)
(* many parts and bytes there are after a part is put in, with marks in it *)
(* or without. From there: what QMIns and QMReplace do to the two fields,  *)
(* the order of names, then names and values at the same ranks (Pairs),    *)
(* the bounds on the length and the ranks, and the invariant DynarrayInv.  *)
(*                                                                         *)
(* Properties of all texts are shown by induction on sequences, with the   *)
(* set of the texts that have the property in the place of a predicate.    *)
(***************************************************************************)
EXTENDS PickDynarray, TLAPS, SequenceTheorems, FiniteSetTheorems,
        NaturalsInduction, WellFoundedInduction

(* A number in the range of rang_num_t keeps its value.                    *)
LEMMA NarrowedSame ==
  ASSUME NEW n \in Int, -RankLimit <= n, n < RankLimit, RankLimit \in Nat
  PROVE  narrowed(n) = n
<1>1. 2 * RankLimit \in Nat /\ 2 * RankLimit > 0
  OBVIOUS
<1>2. n + RankLimit \in 0 .. (2 * RankLimit - 1)
  OBVIOUS
<1>3. \A k, m \in Nat : k < m => k % m = k
  OBVIOUS
<1> QED
  BY <1>1, <1>2, <1>3 DEF narrowed

(* Induction: a set with 0 and the successor of each of its members.       *)
LEMMA NatInduct ==
  ASSUME NEW S \in SUBSET Nat, 0 \in S, \A n \in S : n + 1 \in S
  PROVE  S = Nat
<1> SUFFICES ASSUME Nat \ S # {} PROVE FALSE
  OBVIOUS
<1> DEFINE R == {ss \in Nat \X Nat : ss[1] < ss[2]}
<1>1. IsWellFoundedOn(R, Nat)
  BY NatLessThanWellFounded DEF OpToRel
<1> HIDE DEF R
<1>2. PICK x \in Nat \ S : \A y \in Nat \ S : ~ (<<y, x>> \in R)
  BY <1>1, WFMin
<1>3. x - 1 \in Nat /\ x - 1 < x
  OBVIOUS
<1>4. x - 1 \in S
  <2>1. <<x - 1, x>> \in Nat \X Nat /\ <<x - 1, x>>[1] = x - 1
        /\ <<x - 1, x>>[2] = x
    BY <1>3
  <2> QED
    BY <1>2, <1>3, <2>1, Zenon DEF R
<1> QED
  BY <1>4

(* The same for sequences, one element longer each time.                   *)
LEMMA SeqInduct ==
  ASSUME NEW X, NEW S \in SUBSET Seq(X), <<>> \in S,
         \A s \in S, e \in X : Append(s, e) \in S
  PROVE  S = Seq(X)
<1> DEFINE L == {n \in Nat : \A s \in Seq(X) : Len(s) = n => s \in S}
<1>1. 0 \in L
  <2>1. \A s \in Seq(X) : Len(s) = 0 => s = <<>>
    BY EmptySeq
  <2> QED
    BY <2>1
<1>2. ASSUME NEW n \in L PROVE n + 1 \in L
  <2>1. ASSUME NEW s \in Seq(X), Len(s) = n + 1 PROVE s \in S
    <3>1. n \in Nat /\ \A t \in Seq(X) : Len(t) = n => t \in S
      OBVIOUS
    <3>2. s # <<>>
      BY <2>1, <3>1, EmptySeq
    <3>3. PICK t \in Seq(X), e \in X : s = Append(t, e)
      BY <3>2, SequenceEmptyOrAppend
    <3>4. Len(s) = Len(t) + 1 /\ Len(t) \in Nat
      BY <3>3, AppendProperties
    <3>5. Len(t) = n
      BY <2>1, <3>1, <3>4
    <3> QED
      BY <3>1, <3>3, <3>5
  <2> QED
    BY <2>1
<1> HIDE DEF L
<1>3. L = Nat
  BY <1>1, <1>2, NatInduct DEF L
<1>4. ASSUME NEW s \in Seq(X) PROVE s \in S
  BY <1>3, LenProperties DEF L
<1> QED
  BY <1>4

-----------------------------------------------------------------------------
(* The parts between marks. *)

(* The parts after one more byte.                                          *)
more(before, e, mark) ==
  IF e = mark THEN Append(before, <<>>)
  ELSE [before EXCEPT ![Len(before)] = Append(@, e)]

(* f is the recursive function of split.                                   *)
Splits(f, s, mark) ==
  f = [n \in 0..Len(s) |-> IF n = 0 THEN << <<>> >>
                           ELSE more(f[n - 1], s[n], mark)]

(* What split stands for.                                                  *)
LEMMA SplitIs ==
  ASSUME NEW s, NEW mark
  PROVE  split(s, mark) = (CHOOSE f : Splits(f, s, mark))[Len(s)]
BY DEF split, Splits, more

(* What the recursive function is at a place.                              *)
LEMMA SplitsAt ==
  ASSUME NEW f, NEW s, NEW mark, Splits(f, s, mark), NEW n \in 0..Len(s)
  PROVE  f[n] = IF n = 0 THEN << <<>> >> ELSE more(f[n - 1], s[n], mark)
<1> DEFINE h == [k \in 0..Len(s) |-> IF k = 0 THEN << <<>> >>
                                     ELSE more(f[k - 1], s[k], mark)]
<1>1. f = h
  BY DEF Splits
<1>2. h[n] = IF n = 0 THEN << <<>> >> ELSE more(f[n - 1], s[n], mark)
  OBVIOUS
<1> HIDE DEF h
<1>3. f[n] = h[n]
  BY <1>1
<1> QED
  BY <1>2, <1>3

(* The same, place by place from the first.                                *)
LEMMA SplitsEach ==
  ASSUME NEW f, NEW s, NEW mark, Splits(f, s, mark), Len(s) \in Nat
  PROVE  /\ f[0] = << <<>> >>
         /\ \A n \in 1..Len(s) : f[n] = more(f[n - 1], s[n], mark)
<1>1. f[0] = << <<>> >>
  <2>1. 0 \in 0..Len(s)
    OBVIOUS
  <2> QED
    BY <2>1, SplitsAt
<1>2. ASSUME NEW n \in 1..Len(s) PROVE f[n] = more(f[n - 1], s[n], mark)
  <2>1. n \in 0..Len(s) /\ n # 0
    OBVIOUS
  <2> DEFINE first == << <<>> >>
             next == more(f[n - 1], s[n], mark)
  <2>2. f[n] = IF n = 0 THEN first ELSE next
    BY <2>1, SplitsAt
  <2> HIDE DEF first, next
  <2>3. f[n] = next
    BY <2>1, <2>2
  <2> QED
    BY <2>3 DEF next
<1> QED
  BY <1>1, <1>2

(* The recursive function exists.                                          *)
LEMMA SplitsExists ==
  ASSUME NEW X, NEW mark
  PROVE  \A s \in Seq(X) : \E f : Splits(f, s, mark)
<1> DEFINE S == {s \in Seq(X) : \E f : Splits(f, s, mark)}
<1>1. <<>> \in S
  <2> DEFINE f == [n \in 0..0 |-> << <<>> >>]
  <2>1. Splits(f, <<>>, mark)
    BY DEF Splits
  <2> QED
    BY <2>1
<1>2. ASSUME NEW s \in S, NEW e \in X PROVE Append(s, e) \in S
  <2>1. PICK f : Splits(f, s, mark)
    OBVIOUS
  <2> DEFINE t == Append(s, e)
             g == [n \in 0..Len(t) |-> IF n = Len(t)
                                       THEN more(f[Len(s)], e, mark) ELSE f[n]]
  <2>2. /\ t \in Seq(X) /\ Len(t) = Len(s) + 1 /\ Len(s) \in Nat
        /\ t[Len(t)] = e /\ \A n \in 1..Len(s) : t[n] = s[n]
    BY AppendProperties
  <2> HIDE DEF t
  <2>3. f[0] = << <<>> >> /\ \A n \in 1..Len(s) : f[n] = more(f[n - 1], s[n], mark)
    BY <2>1, <2>2, SplitsAt
  <2>4. ASSUME NEW n \in 0..Len(t)
        PROVE  g[n] = IF n = 0 THEN << <<>> >> ELSE more(g[n - 1], t[n], mark)
    <3>1. CASE n = 0
      BY <2>2, <2>3, <3>1
    <3>2. CASE n = Len(t)
      <4>1. g[n - 1] = f[Len(s)] /\ n # 0
        BY <2>2, <3>2
      <4> QED
        BY <2>2, <3>2, <4>1
    <3>3. CASE n # 0 /\ n # Len(t)
      <4>1. n \in 1..Len(s) /\ g[n] = f[n] /\ g[n - 1] = f[n - 1]
        BY <2>2, <3>3
      <4> QED
        BY <2>2, <2>3, <4>1
    <3> QED
      BY <3>1, <3>2, <3>3
  <2>5. g = [n \in 0..Len(t) |-> g[n]]
    OBVIOUS
  <2> HIDE DEF g
  <2>6. Splits(g, t, mark)
    BY <2>4, <2>5 DEF Splits
  <2> QED
    BY <2>2, <2>6 DEF t
<1> HIDE DEF S
<1>3. S = Seq(X)
  <2>1. S \in SUBSET Seq(X)
    BY DEF S
  <2> QED
    BY <1>1, <1>2, <2>1, SeqInduct
<1> QED
  BY <1>3 DEF S

(* One more byte changes the last part or adds an empty one.               *)
LEMMA SplitAppend ==
  ASSUME NEW X, NEW s \in Seq(X), NEW e \in X, NEW mark
  PROVE  split(Append(s, e), mark) = more(split(s, mark), e, mark)
<1> DEFINE t == Append(s, e)
           f == CHOOSE f : Splits(f, s, mark)
           g == CHOOSE g : Splits(g, t, mark)
<1>1. /\ t \in Seq(X) /\ Len(t) = Len(s) + 1 /\ Len(s) \in Nat
      /\ t[Len(t)] = e /\ \A n \in 1..Len(s) : t[n] = s[n]
  BY AppendProperties
<1>2. split(s, mark) = f[Len(s)] /\ split(t, mark) = g[Len(t)]
  BY SplitIs
<1> HIDE DEF t
<1>3. Splits(f, s, mark) /\ Splits(g, t, mark)
  BY <1>1, SplitsExists
<1> HIDE DEF f, g
<1>4. f[0] = << <<>> >> /\ \A n \in 1..Len(s) : f[n] = more(f[n - 1], s[n], mark)
  <2>1. Len(s) \in Nat
    BY <1>1
  <2> QED
    BY <1>3, <2>1, SplitsEach, Zenon
<1>5. g[0] = << <<>> >> /\ \A n \in 1..Len(t) : g[n] = more(g[n - 1], t[n], mark)
  <2>1. Len(t) \in Nat
    BY <1>1
  <2> QED
    BY <1>3, <2>1, SplitsEach, Zenon
<1> DEFINE S == {n \in Nat : n <= Len(s) => f[n] = g[n]}
<1>6. 0 \in S
  BY <1>4, <1>5
<1>7. ASSUME NEW n \in S PROVE n + 1 \in S
  <2> SUFFICES ASSUME n + 1 <= Len(s) PROVE f[n + 1] = g[n + 1]
    OBVIOUS
  <2>1. n + 1 \in 1..Len(s) /\ n + 1 \in 1..Len(t) /\ n + 1 - 1 = n /\ f[n] = g[n]
    BY <1>1
  <2> QED
    BY <1>1, <1>4, <1>5, <2>1
<1> HIDE DEF S
<1>8. S = Nat
  <2>1. S \in SUBSET Nat
    BY DEF S
  <2> QED
    BY <1>6, <1>7, <2>1, NatInduct
<1>9. f[Len(s)] = g[Len(s)]
  BY <1>1, <1>8 DEF S
<1>10. g[Len(t)] = more(g[Len(s)], e, mark)
  BY <1>1, <1>5
<1> QED
  BY <1>2, <1>9, <1>10 DEF t

(* An empty text is one empty part.                                        *)
LEMMA SplitEmpty ==
  ASSUME NEW mark
  PROVE  split(<<>>, mark) = << <<>> >>
<1> DEFINE f == CHOOSE f : Splits(f, <<>>, mark)
<1>1. Splits(f, <<>>, mark)
  <2>1. <<>> \in Seq({})
    OBVIOUS
  <2> QED
    BY <2>1, SplitsExists
<1>2. split(<<>>, mark) = f[0]
  BY SplitIs
<1> HIDE DEF f
<1>3. f[0] = << <<>> >>
  BY <1>1, SplitsAt
<1> QED
  BY <1>2, <1>3

-----------------------------------------------------------------------------
(* A text from its parts. *)

(* A part behind a mark.                                                   *)
behind(before, mark, e) == before \o <<mark>> \o e

(* f is the recursive function of join.                                    *)
Joins(f, parts, mark) ==
  f = [n \in DOMAIN parts |-> IF n = 1 THEN parts[1]
                              ELSE behind(f[n - 1], mark, parts[n])]

(* What join stands for.                                                   *)
LEMMA JoinIs ==
  ASSUME NEW parts, NEW mark
  PROVE  join(parts, mark) = (CHOOSE f : Joins(f, parts, mark))[Len(parts)]
BY DEF join, Joins, behind

(* What the recursive function is at a place.                              *)
LEMMA JoinsAt ==
  ASSUME NEW f, NEW parts, NEW mark, Joins(f, parts, mark),
         NEW n \in DOMAIN parts
  PROVE  f[n] = IF n = 1 THEN parts[1] ELSE behind(f[n - 1], mark, parts[n])
<1> DEFINE h == [k \in DOMAIN parts |->
                   IF k = 1 THEN parts[1]
                   ELSE behind(f[k - 1], mark, parts[k])]
<1>1. f = h
  BY DEF Joins
<1>2. h[n] = IF n = 1 THEN parts[1] ELSE behind(f[n - 1], mark, parts[n])
  OBVIOUS
<1> HIDE DEF h
<1>3. f[n] = h[n]
  BY <1>1
<1> QED
  BY <1>2, <1>3

(* The recursive function exists.                                          *)
LEMMA JoinsExists ==
  ASSUME NEW X, NEW mark
  PROVE  \A parts \in Seq(X) : \E f : Joins(f, parts, mark)
<1> DEFINE S == {parts \in Seq(X) : \E f : Joins(f, parts, mark)}
<1>1. <<>> \in S
  <2> DEFINE f == [n \in DOMAIN <<>> |->
                     IF n = 1 THEN <<>>[1]
                     ELSE behind(<<>>, mark, <<>>[n])]
  <2>1. DOMAIN <<>> = {}
    OBVIOUS
  <2>2. Joins(f, <<>>, mark)
    BY <2>1 DEF Joins
  <2> QED
    BY <2>2
<1>2. ASSUME NEW s \in S, NEW e \in X PROVE Append(s, e) \in S
  <2>1. PICK f : Joins(f, s, mark)
    OBVIOUS
  <2> DEFINE t == Append(s, e)
             g == [n \in 1..Len(t) |->
                     IF n = Len(t)
                     THEN IF n = 1 THEN e ELSE behind(f[Len(s)], mark, e)
                     ELSE f[n]]
  <2>2. /\ t \in Seq(X) /\ Len(t) = Len(s) + 1 /\ Len(s) \in Nat
        /\ t[Len(t)] = e /\ \A n \in 1..Len(s) : t[n] = s[n]
        /\ DOMAIN s = 1..Len(s) /\ DOMAIN t = 1..Len(t)
    BY AppendProperties
  <2> HIDE DEF t
  <2>3. \A n \in 1..Len(s) : f[n] = IF n = 1 THEN s[1]
                                    ELSE behind(f[n - 1], mark, s[n])
    BY <2>1, <2>2, JoinsAt
  <2>4. ASSUME NEW n \in 1..Len(t)
        PROVE  g[n] = IF n = 1 THEN t[1] ELSE behind(g[n - 1], mark, t[n])
    <3>1. CASE n = Len(t)
      <4>1. CASE n = 1
        BY <2>2, <3>1, <4>1
      <4>2. CASE n # 1
        <5>0. Len(t) = Len(s) + 1 /\ Len(s) \in Nat
          BY <2>2
        <5>1. n - 1 = Len(s) /\ n - 1 \in 1..Len(t) /\ n - 1 # Len(t)
          BY <3>1, <4>2, <5>0
        <5>3. t[n] = e
          BY <2>2, <3>1
        <5>2. g[n - 1] = f[Len(s)]
          BY <5>1
        <5> QED
          BY <3>1, <4>2, <5>1, <5>2, <5>3
      <4> QED
        BY <4>1, <4>2
    <3>2. CASE n # Len(t)
      <4>1. n \in 1..Len(s) /\ g[n] = f[n] /\ t[n] = s[n]
        BY <2>2, <3>2
      <4>2. n # 1 => g[n - 1] = f[n - 1]
        BY <2>2, <3>2
      <4>3. t[1] = s[1]
        BY <2>2, <4>1
      <4> HIDE DEF g
      <4> QED
        BY <2>3, <4>1, <4>2, <4>3
    <3> QED
      BY <3>1, <3>2
  <2>5. g = [n \in 1..Len(t) |-> g[n]]
    OBVIOUS
  <2> HIDE DEF g
  <2>6. Joins(g, t, mark)
    BY <2>2, <2>4, <2>5 DEF Joins
  <2> QED
    BY <2>2, <2>6 DEF t
<1> HIDE DEF S
<1>3. S = Seq(X)
  <2>1. S \in SUBSET Seq(X)
    BY DEF S
  <2> QED
    BY <1>1, <1>2, <2>1, SeqInduct
<1> QED
  BY <1>3 DEF S

(* One more part goes behind a mark.                                       *)
LEMMA JoinAppend ==
  ASSUME NEW X, NEW s \in Seq(X), s # <<>>, NEW e \in X, NEW mark
  PROVE  join(Append(s, e), mark) = behind(join(s, mark), mark, e)
<1> DEFINE t == Append(s, e)
           f == CHOOSE f : Joins(f, s, mark)
           g == CHOOSE g : Joins(g, t, mark)
<1>1. /\ t \in Seq(X) /\ Len(t) = Len(s) + 1 /\ Len(s) \in Nat
      /\ t[Len(t)] = e /\ \A n \in 1..Len(s) : t[n] = s[n]
      /\ DOMAIN s = 1..Len(s) /\ DOMAIN t = 1..Len(t) /\ Len(s) # 0
  BY AppendProperties, EmptySeq
<1>2. join(s, mark) = f[Len(s)] /\ join(t, mark) = g[Len(t)]
  BY JoinIs
<1> HIDE DEF t
<1>3. Joins(f, s, mark) /\ Joins(g, t, mark)
  BY <1>1, JoinsExists
<1> HIDE DEF f, g
<1>4. \A n \in 1..Len(s) : f[n] = IF n = 1 THEN s[1]
                                  ELSE behind(f[n - 1], mark, s[n])
  <2> TAKE n \in 1..Len(s)
  <2>1. n \in DOMAIN s
    BY <1>1
  <2> QED
    BY <1>3, <2>1, JoinsAt
<1>5. \A n \in 1..Len(t) : g[n] = IF n = 1 THEN t[1]
                                  ELSE behind(g[n - 1], mark, t[n])
  <2> TAKE n \in 1..Len(t)
  <2>1. n \in DOMAIN t
    BY <1>1
  <2> QED
    BY <1>3, <2>1, JoinsAt
<1> DEFINE S == {n \in Nat : n \in 1..Len(s) => f[n] = g[n]}
<1>6. 0 \in S
  OBVIOUS
<1>7. ASSUME NEW n \in S PROVE n + 1 \in S
  <2> SUFFICES ASSUME n + 1 \in 1..Len(s) PROVE f[n + 1] = g[n + 1]
    OBVIOUS
  <2>1. /\ n + 1 \in 1..Len(t) /\ n + 1 - 1 = n /\ t[n + 1] = s[n + 1]
        /\ t[1] = s[1] /\ n \in Nat
    BY <1>1
  <2>2. CASE n = 0
    BY <1>4, <1>5, <2>1, <2>2
  <2>3. CASE n # 0
    <3>1. f[n] = g[n] /\ n + 1 # 1
      BY <2>1, <2>3
    <3> QED
      BY <1>4, <1>5, <2>1, <3>1
  <2> QED
    BY <2>2, <2>3
<1> HIDE DEF S
<1>8. S = Nat
  <2>1. S \in SUBSET Nat
    BY DEF S
  <2> QED
    BY <1>6, <1>7, <2>1, NatInduct
<1>9. f[Len(s)] = g[Len(s)]
  BY <1>1, <1>8 DEF S
<1>10. g[Len(t)] = behind(g[Len(s)], mark, e)
  <2>1. /\ Len(t) \in 1..Len(t) /\ Len(t) - 1 = Len(s) /\ Len(t) # 1
    BY <1>1
  <2> QED
    BY <1>1, <1>5, <2>1
<1> QED
  BY <1>2, <1>9, <1>10 DEF t

(* One part alone is the text.                                             *)
LEMMA JoinOne ==
  ASSUME NEW e, NEW mark
  PROVE  join(<<e>>, mark) = e
<1> DEFINE f == CHOOSE f : Joins(f, <<e>>, mark)
<1>1. <<e>> \in Seq({e}) /\ DOMAIN <<e>> = {1} /\ Len(<<e>>) = 1 /\ <<e>>[1] = e
  OBVIOUS
<1>2. Joins(f, <<e>>, mark)
  BY <1>1, JoinsExists
<1>3. join(<<e>>, mark) = f[1]
  BY <1>1, JoinIs
<1> HIDE DEF f
<1>4. f[1] = <<e>>[1]
  BY <1>1, <1>2, JoinsAt
<1> QED
  BY <1>1, <1>3, <1>4

-----------------------------------------------------------------------------
(* Texts and their parts. *)

Byte == 1..255
Parts == Seq(Text) \ {<<>>}

free(s, mark) == \A i \in DOMAIN s : s[i] # mark

(* The length of a text.                                                   *)
LEMMA TextLength == ASSUME NEW s \in Text PROVE Len(s) \in Nat
BY DEF Text

(* The length of a sequence of parts, which has one at least.              *)
LEMMA PartsLength == ASSUME NEW p \in Parts PROVE Len(p) \in Nat \ {0}
BY EmptySeq DEF Parts

(* One more byte, where it goes.                                           *)
LEMMA MoreAt ==
  ASSUME NEW p \in Parts, NEW e \in Byte, NEW mark
  PROVE  /\ more(p, e, mark) \in Parts
         /\ e = mark => more(p, e, mark) = Append(p, <<>>)
         /\ e # mark => /\ Len(more(p, e, mark)) = Len(p)
                        /\ \A i \in 1..Len(p) : i # Len(p) =>
                             more(p, e, mark)[i] = p[i]
                        /\ more(p, e, mark)[Len(p)] = Append(p[Len(p)], e)
<1>1. p \in Seq(Text) /\ p # <<>> /\ Len(p) \in Nat /\ Len(p) # 0
  BY EmptySeq DEF Parts
<1>2. <<>> \in Text /\ p[Len(p)] \in Text
  <2>1. Len(p) \in 1..Len(p)
    BY <1>1
  <2> QED
    BY <1>1, <2>1, ElementOfSeq DEF Text
<1>3. CASE e = mark
  <2>1. Append(p, <<>>) \in Seq(Text) /\ Append(p, <<>>) # <<>>
    BY <1>1, <1>2, AppendProperties
  <2> QED
    BY <1>3, <2>1 DEF more, Parts
<1>4. CASE e # mark
  <2> DEFINE last == Append(p[Len(p)], e)
  <2>1. last \in Text
    BY <1>2, AppendProperties DEF Text, Byte
  <2>2. more(p, e, mark) = [p EXCEPT ![Len(p)] = last]
    BY <1>4 DEF more
  <2> HIDE DEF last
  <2>3. /\ [p EXCEPT ![Len(p)] = last] \in Seq(Text)
        /\ Len([p EXCEPT ![Len(p)] = last]) = Len(p)
        /\ \A j \in 1..Len(p) : [p EXCEPT ![Len(p)] = last][j] =
             IF j = Len(p) THEN last ELSE p[j]
    BY <1>1, <2>1, ExceptSeq
  <2>4. [p EXCEPT ![Len(p)] = last] # <<>>
    BY <1>1, <2>3, EmptySeq
  <2>5. Len(p) \in 1..Len(p)
    BY <1>1
  <2> QED
    BY <1>4, <2>2, <2>3, <2>4, <2>5 DEF Parts, last
<1> QED
  BY <1>3, <1>4

(* A mark begins a part, the other bytes lengthen the last one.            *)
LEMMA MoreCases ==
  ASSUME NEW q \in Seq(Text), NEW y \in Text, NEW e \in Byte, NEW mark,
         e # mark
  PROVE  more(Append(q, y), e, mark) = Append(q, Append(y, e))
<1> DEFINE p == Append(q, y)
           r == Append(q, Append(y, e))
<1>1. Append(y, e) \in Text
  BY AppendProperties DEF Text, Byte
<1>2. /\ p \in Seq(Text) /\ p # <<>> /\ Len(p) = Len(q) + 1 /\ p[Len(p)] = y
      /\ \A i \in 1..Len(q) : p[i] = q[i]
  BY AppendProperties
<1>3. /\ r \in Seq(Text) /\ Len(r) = Len(q) + 1
      /\ r[Len(q) + 1] = Append(y, e)
      /\ \A i \in 1..Len(q) : r[i] = q[i]
  BY <1>1, AppendProperties
<1>4. Len(q) \in Nat
  OBVIOUS
<1> HIDE DEF p, r
<1>5. /\ more(p, e, mark) \in Seq(Text)
      /\ Len(more(p, e, mark)) = Len(p)
      /\ \A i \in 1..Len(p) : i # Len(p) => more(p, e, mark)[i] = p[i]
      /\ more(p, e, mark)[Len(p)] = Append(p[Len(p)], e)
  BY <1>2, MoreAt DEF Parts
<1>6. \A i \in 1..Len(r) : more(p, e, mark)[i] = r[i]
  <2> TAKE i \in 1..Len(r)
  <2>1. CASE i = Len(q) + 1
    BY <1>2, <1>3, <1>5, <2>1
  <2>2. CASE i # Len(q) + 1
    <3>1. i \in 1..Len(q) /\ i \in 1..Len(p) /\ i # Len(p)
      BY <1>2, <1>3, <1>4, <2>2
    <3> QED
      BY <1>2, <1>3, <1>5, <3>1
  <2> QED
    BY <2>1, <2>2
<1>7. more(p, e, mark) = r
  BY <1>2, <1>3, <1>5, <1>6, SeqEqual
<1> QED
  BY <1>7 DEF p, r

(* A text has at least one part, at most one more than bytes.              *)
LEMMA SplitType ==
  ASSUME NEW s \in Text, NEW mark
  PROVE  /\ split(s, mark) \in Parts
         /\ Len(split(s, mark)) <= Len(s) + 1
<1> DEFINE Q(t) == split(t, mark) \in Parts /\ Len(split(t, mark)) <= Len(t) + 1
           S == {t \in Seq(Byte) : Q(t)}
<1>1. <<>> \in S
  <2>1. << <<>> >> \in Parts /\ Len(<< <<>> >>) = 1 /\ <<>> \in Seq(Byte)
        /\ Len(<<>>) = 0
    BY DEF Parts, Text
  <2>2. split(<<>>, mark) = << <<>> >>
    BY SplitEmpty
  <2>3. split(<<>>, mark) \in Parts
    BY <2>1, <2>2, Zenon
  <2>4. Len(split(<<>>, mark)) = 1
    BY <2>1, <2>2, Zenon
  <2>5. Len(split(<<>>, mark)) <= Len(<<>>) + 1
    <3>1. 1 <= 0 + 1
      OBVIOUS
    <3> QED
      BY <2>1, <2>4, <3>1, Zenon
  <2> QED
    BY <2>1, <2>3, <2>5
<1>2. ASSUME NEW t \in S, NEW e \in Byte PROVE Append(t, e) \in S
  <2>1. /\ Append(t, e) \in Seq(Byte) /\ Len(Append(t, e)) = Len(t) + 1
        /\ split(Append(t, e), mark) = more(split(t, mark), e, mark)
        /\ t \in Seq(Byte) /\ Q(t)
    BY AppendProperties, SplitAppend
  <2> DEFINE p == split(t, mark)
  <2>2. p \in Parts /\ Len(p) <= Len(t) + 1 /\ Len(p) \in Nat /\ Len(t) \in Nat
    BY <2>1 DEF Parts
  <2> HIDE DEF p
  <2>3. more(p, e, mark) \in Parts /\ Len(more(p, e, mark)) <= Len(p) + 1
    <3>1. CASE e = mark
      <4>1. Len(Append(p, <<>>)) = Len(p) + 1
        BY <2>2 DEF Parts
      <4> QED
        BY <2>2, <3>1, <4>1, MoreAt
    <3>2. CASE e # mark
      BY <2>2, <3>2, MoreAt
    <3> QED
      BY <3>1, <3>2
  <2>4. Len(more(p, e, mark)) \in Nat
    BY <2>3 DEF Parts
  <2> QED
    BY <2>1, <2>2, <2>3, <2>4 DEF p
<1> HIDE DEF S
<1>3. S = Seq(Byte)
  <2>1. S \in SUBSET Seq(Byte)
    BY DEF S
  <2> QED
    BY <1>1, <1>2, <2>1, SeqInduct
<1>4. s \in S
  BY <1>3 DEF Text, Byte
<1> QED
  BY <1>4 DEF S

(* A text without the mark is one part.                                    *)
LEMMA SplitFree ==
  ASSUME NEW s \in Text, NEW mark, free(s, mark)
  PROVE  split(s, mark) = <<s>>
<1> DEFINE S == {t \in Seq(Byte) : free(t, mark) => split(t, mark) = <<t>>}
<1>1. <<>> \in S
  BY SplitEmpty
<1>2. ASSUME NEW t \in S, NEW e \in Byte PROVE Append(t, e) \in S
  <2> DEFINE u == Append(t, e)
  <2>1. /\ t \in Text /\ u \in Seq(Byte) /\ Len(u) = Len(t) + 1
        /\ Len(t) \in Nat /\ u[Len(u)] = e
        /\ \A i \in 1..Len(t) : u[i] = t[i]
        /\ DOMAIN t = 1..Len(t) /\ DOMAIN u = 1..Len(u)
    BY AppendProperties DEF Text, Byte
  <2>2. split(u, mark) = more(split(t, mark), e, mark)
    BY <2>1, SplitAppend
  <2> HIDE DEF u
  <2>3. ASSUME free(u, mark) PROVE split(u, mark) = <<u>>
    <3>1. e # mark /\ free(t, mark)
      <4>1. Len(u) \in DOMAIN u
        BY <2>1
      <4>2. e # mark
        BY <2>1, <2>3, <4>1 DEF free
      <4>3. ASSUME NEW i \in DOMAIN t PROVE t[i] # mark
        <5>1. i \in DOMAIN u /\ u[i] = t[i]
          BY <2>1
        <5> QED
          BY <2>3, <5>1 DEF free
      <4> QED
        BY <4>2, <4>3 DEF free
    <3>2. split(t, mark) = <<t>> /\ <<t>> = Append(<<>>, t) /\ <<u>> = Append(<<>>, u)
      BY <3>1
    <3>3. <<>> \in Seq(Text)
      OBVIOUS
    <3>4. more(Append(<<>>, t), e, mark) = Append(<<>>, u)
      BY <2>1, <3>1, <3>3, MoreCases DEF u
    <3> QED
      BY <2>2, <3>2, <3>4, Zenon
  <2> QED
    BY <2>1, <2>3 DEF u
<1> HIDE DEF S
<1>3. S = Seq(Byte)
  <2>1. S \in SUBSET Seq(Byte)
    BY DEF S
  <2> QED
    BY <1>1, <1>2, <2>1, SeqInduct
<1>4. s \in S
  BY <1>3 DEF Text, Byte
<1> QED
  BY <1>4 DEF S

(* The parts are without the mark.                                         *)
LEMMA SplitParts ==
  ASSUME NEW s \in Text, NEW mark, NEW i \in 1..Len(split(s, mark))
  PROVE  split(s, mark)[i] \in Text /\ free(split(s, mark)[i], mark)
<1> DEFINE Q(t) == \A j \in 1..Len(split(t, mark)) : free(split(t, mark)[j], mark)
           S == {t \in Seq(Byte) : Q(t)}
<1>1. <<>> \in S
  <2>1. \A j \in 1..Len(<< <<>> >>) : free(<< <<>> >>[j], mark)
    BY DEF free
  <2>2. split(<<>>, mark) = << <<>> >> /\ <<>> \in Seq(Byte)
    BY SplitEmpty
  <2> QED
    BY <2>1, <2>2
<1>2. ASSUME NEW t \in S, NEW e \in Byte PROVE Append(t, e) \in S
  <2> DEFINE p == split(t, mark)
             q == split(Append(t, e), mark)
  <2>1. /\ t \in Text /\ Append(t, e) \in Seq(Byte) /\ Q(t)
    BY AppendProperties DEF Text, Byte
  <2>2. q = more(p, e, mark) /\ p \in Parts
    BY <2>1, SplitAppend, SplitType
  <2>3. \A j \in 1..Len(p) : free(p[j], mark)
    BY <2>1
  <2> HIDE DEF p, q
  <2>4. p \in Seq(Text) /\ Len(p) \in Nat \ {0} /\ Len(p) \in 1..Len(p)
    BY <2>2, EmptySeq DEF Parts
  <2>5. ASSUME NEW j \in 1..Len(q) PROVE free(q[j], mark)
    <3>1. CASE e = mark
      <4>1. q = Append(p, <<>>)
        BY <2>2, <3>1, MoreAt
      <4>2. /\ Len(q) = Len(p) + 1 /\ q[Len(p) + 1] = <<>>
            /\ \A k \in 1..Len(p) : q[k] = p[k]
        BY <2>4, <4>1
      <4>3. CASE j = Len(p) + 1
        BY <4>2, <4>3 DEF free
      <4>4. CASE j # Len(p) + 1
        <5>1. j \in 1..Len(p)
          BY <2>4, <4>2, <4>4
        <5> QED
          BY <2>3, <4>2, <5>1
      <4> QED
        BY <4>3, <4>4
    <3>2. CASE e # mark
      <4>1. /\ Len(q) = Len(p) /\ q[Len(p)] = Append(p[Len(p)], e)
            /\ \A k \in 1..Len(p) : k # Len(p) => q[k] = p[k]
        BY <2>2, <3>2, MoreAt
      <4>2. CASE j = Len(p)
        <5> DEFINE y == p[Len(p)]
                   u == Append(y, e)
        <5>1. y \in Seq(Byte) /\ free(y, mark)
          BY <2>3, <2>4 DEF Text, Byte
        <5> HIDE DEF y
        <5>2. /\ Len(u) = Len(y) + 1 /\ Len(y) \in Nat /\ u[Len(y) + 1] = e
              /\ \A k \in 1..Len(y) : u[k] = y[k]
              /\ DOMAIN u = 1..Len(u) /\ DOMAIN y = 1..Len(y)
          BY <5>1, AppendProperties
        <5> HIDE DEF u
        <5>3. ASSUME NEW k \in DOMAIN u PROVE u[k] # mark
          <6>1. CASE k = Len(y) + 1
            BY <3>2, <5>2, <6>1
          <6>2. CASE k # Len(y) + 1
            <7>1. k \in 1..Len(y)
              BY <5>2, <6>2
            <7> QED
              BY <5>1, <5>2, <7>1 DEF free
          <6> QED
            BY <6>1, <6>2
        <5> QED
          BY <4>1, <4>2, <5>3 DEF free, u, y
      <4>3. CASE j # Len(p)
        BY <2>3, <4>1, <4>3
      <4> QED
        BY <4>2, <4>3
    <3> QED
      BY <3>1, <3>2
  <2> QED
    BY <2>1, <2>5 DEF q
<1> HIDE DEF S
<1>3. S = Seq(Byte)
  <2>1. S \in SUBSET Seq(Byte)
    BY DEF S
  <2> QED
    BY <1>1, <1>2, <2>1, SeqInduct
<1>4. s \in S
  BY <1>3 DEF Text, Byte
<1>5. split(s, mark) \in Seq(Text)
  BY SplitType DEF Parts
<1> QED
  BY <1>4, <1>5 DEF S

(* A part behind a mark.                                                   *)
LEMMA BehindType ==
  ASSUME NEW a \in Text, NEW b \in Text, NEW mark \in Byte
  PROVE  behind(a, mark, b) \in Text /\ Len(behind(a, mark, b)) = Len(a) + Len(b) + 1
<1>1. <<mark>> \in Seq(Byte) /\ Len(<<mark>>) = 1
  OBVIOUS
<1>2. a \o <<mark>> \in Seq(Byte) /\ Len(a \o <<mark>>) = Len(a) + 1
  BY <1>1, ConcatProperties DEF Text, Byte
<1>3. /\ (a \o <<mark>>) \o b \in Seq(Byte)
      /\ Len((a \o <<mark>>) \o b) = Len(a \o <<mark>>) + Len(b)
  BY <1>2, ConcatProperties DEF Text, Byte
<1>4. Len(a) \in Nat /\ Len(b) \in Nat
  BY DEF Text
<1> QED
  BY <1>2, <1>3, <1>4 DEF behind, Text, Byte

(* Joined parts are a text, the last part its end.                         *)
LEMMA JoinType ==
  ASSUME NEW p \in Parts, NEW mark \in Byte
  PROVE  join(p, mark) \in Text
<1> DEFINE S == {q \in Seq(Text) : q # <<>> => join(q, mark) \in Text}
<1>1. <<>> \in S
  OBVIOUS
<1>2. ASSUME NEW q \in S, NEW e \in Text PROVE Append(q, e) \in S
  <2>1. q \in Seq(Text) /\ Append(q, e) \in Seq(Text)
    BY AppendProperties
  <2>2. CASE q = <<>>
    <3>1. Append(q, e) = <<e>>
      BY <2>2
    <3> QED
      BY <2>1, <3>1, JoinOne
  <2>3. CASE q # <<>>
    <3>1. join(Append(q, e), mark) = behind(join(q, mark), mark, e)
      BY <2>1, <2>3, JoinAppend
    <3>2. join(q, mark) \in Text
      BY <2>3
    <3>3. behind(join(q, mark), mark, e) \in Text
      BY <3>2, BehindType
    <3> QED
      BY <2>1, <3>1, <3>3
  <2> QED
    BY <2>2, <2>3
<1> HIDE DEF S
<1>3. S = Seq(Text)
  <2>1. S \in SUBSET Seq(Text)
    BY DEF S
  <2> QED
    BY <1>1, <1>2, <2>1, SeqInduct
<1> QED
  BY <1>3 DEF S, Parts

(* Another byte at the end of the last part.                               *)
LEMMA JoinLonger ==
  ASSUME NEW p \in Parts, NEW e \in Byte, NEW mark \in Byte, e # mark
  PROVE  join(more(p, e, mark), mark) = Append(join(p, mark), e)
<1>1. PICK q \in Seq(Text), y \in Text : p = Append(q, y)
  BY SequenceEmptyOrAppend DEF Parts
<1> DEFINE z == Append(y, e)
<1>2. more(p, e, mark) = Append(q, z)
  BY <1>1, MoreCases
<1>3. z \in Text
  BY AppendProperties DEF Text, Byte
<1> HIDE DEF z
<1>4. CASE q = <<>>
  <2>1. p = <<y>> /\ Append(q, z) = <<z>>
    BY <1>1, <1>4
  <2>2. join(<<y>>, mark) = y /\ join(<<z>>, mark) = z
    BY JoinOne
  <2> QED
    BY <1>2, <2>1, <2>2, Zenon DEF z
<1>5. CASE q # <<>>
  <2> DEFINE j == join(q, mark)
  <2>1. j \in Text
    BY <1>5, JoinType DEF Parts
  <2>2. join(p, mark) = behind(j, mark, y)
    BY <1>1, <1>5, JoinAppend
  <2>3. join(Append(q, z), mark) = behind(j, mark, z)
    BY <1>3, <1>5, JoinAppend
  <2> HIDE DEF j
  <2>4. j \o <<mark>> \in Seq(Byte) /\ y \in Seq(Byte) /\ <<e>> \in Seq(Byte)
    BY <2>1, ConcatProperties DEF Text, Byte
  <2>5. behind(j, mark, y) \in Seq(Byte)
    BY <2>1, BehindType DEF Text, Byte
  <2>6. Append(behind(j, mark, y), e) = behind(j, mark, y) \o <<e>>
    BY <2>5, AppendIsConcat
  <2>7. z = y \o <<e>>
    BY <2>4, AppendIsConcat DEF z
  <2>8. ((j \o <<mark>>) \o y) \o <<e>> = (j \o <<mark>>) \o (y \o <<e>>)
    BY <2>4, ConcatAssociative
  <2> QED
    BY <1>2, <2>2, <2>3, <2>6, <2>7, <2>8, Zenon DEF behind
<1> QED
  BY <1>4, <1>5

(* The parts of a text, joined, are the text.                              *)
LEMMA JoinSplit ==
  ASSUME NEW s \in Text, NEW mark \in Byte
  PROVE  join(split(s, mark), mark) = s
<1> DEFINE S == {t \in Seq(Byte) : join(split(t, mark), mark) = t}
<1>1. <<>> \in S
  BY SplitEmpty, JoinOne
<1>2. ASSUME NEW t \in S, NEW e \in Byte PROVE Append(t, e) \in S
  <2> DEFINE p == split(t, mark)
  <2>1. /\ t \in Seq(Byte) /\ t \in Text /\ join(p, mark) = t
        /\ Append(t, e) \in Seq(Byte)
    BY AppendProperties DEF Text, Byte
  <2>2. split(Append(t, e), mark) = more(p, e, mark) /\ p \in Parts
    BY <2>1, SplitAppend, SplitType
  <2> HIDE DEF p
  <2>3. CASE e = mark
    <3>1. more(p, e, mark) = Append(p, <<>>)
      BY <2>2, <2>3, MoreAt
    <3>2. p \in Seq(Text) /\ p # <<>> /\ <<>> \in Text
      BY <2>2 DEF Parts, Text
    <3>3. join(Append(p, <<>>), mark) = behind(t, mark, <<>>)
      BY <2>1, <3>2, JoinAppend
    <3>4. behind(t, mark, <<>>) = t \o <<mark>>
      BY <2>1 DEF behind
    <3>5. Append(t, e) = t \o <<mark>>
      BY <2>1, <2>3, AppendIsConcat
    <3> QED
      BY <2>1, <2>2, <3>1, <3>3, <3>4, <3>5, Zenon
  <2>4. CASE e # mark
    <3>1. join(more(p, e, mark), mark) = Append(t, e)
      BY <2>1, <2>2, <2>4, JoinLonger
    <3> QED
      BY <2>1, <2>2, <3>1, Zenon
  <2> QED
    BY <2>3, <2>4
<1> HIDE DEF S
<1>3. S = Seq(Byte)
  <2>1. S \in SUBSET Seq(Byte)
    BY DEF S
  <2> QED
    BY <1>1, <1>2, <2>1, SeqInduct
<1>4. s \in S
  BY <1>3 DEF Text, Byte
<1> QED
  BY <1>4 DEF S

-----------------------------------------------------------------------------
(* Texts put together. *)

(* Only the last of several parts changes with one more byte.              *)
LEMMA MoreConcat ==
  ASSUME NEW p \in Seq(Text), NEW q \in Parts, NEW e \in Byte, NEW mark
  PROVE  more(p \o q, e, mark) = p \o more(q, e, mark)
<1>1. /\ q \in Seq(Text) /\ p \o q \in Seq(Text) /\ p \o q # <<>>
  BY ConcatProperties, ConcatEqualIffEmpty DEF Parts
<1>2. CASE e = mark
  <2>1. <<>> \in Text /\ << <<>> >> \in Seq(Text)
    BY DEF Text
  <2>2. more(p \o q, e, mark) = Append(p \o q, <<>>)
        /\ more(q, e, mark) = Append(q, <<>>)
    <3> DEFINE pq == p \o q
    <3>1. pq \in Parts
      BY <1>1 DEF Parts
    <3>2. more(q, e, mark) = Append(q, <<>>)
      BY <1>2, MoreAt
    <3> HIDE DEF pq
    <3>3. more(pq, e, mark) = Append(pq, <<>>)
      BY <1>2, <3>1, MoreAt
    <3> QED
      BY <3>2, <3>3 DEF pq
  <2>3. Append(p \o q, <<>>) = (p \o q) \o << <<>> >>
        /\ Append(q, <<>>) = q \o << <<>> >>
    BY <1>1, <2>1, AppendIsConcat
  <2>4. (p \o q) \o << <<>> >> = p \o (q \o << <<>> >>)
    BY <1>1, <2>1, ConcatAssociative
  <2> QED
    BY <2>2, <2>3, <2>4, Zenon
<1>3. CASE e # mark
  <2>1. PICK r \in Seq(Text), y \in Text : q = Append(r, y)
    BY <1>1, SequenceEmptyOrAppend DEF Parts
  <2> DEFINE z == Append(y, e)
  <2>2. z \in Text
    BY AppendProperties DEF Text, Byte
  <2>3. more(q, e, mark) = Append(r, z)
    BY <1>3, <2>1, MoreCases
  <2>4. p \o r \in Seq(Text)
    BY ConcatProperties
  <2>5. more(Append(p \o r, y), e, mark) = Append(p \o r, z)
    BY <1>3, <2>4, MoreCases
  <2> HIDE DEF z
  <2>6. \A x \in Text : Append(p \o r, x) = p \o Append(r, x)
    <3> TAKE x \in Text
    <3>1. <<x>> \in Seq(Text)
      OBVIOUS
    <3>2. Append(p \o r, x) = (p \o r) \o <<x>> /\ Append(r, x) = r \o <<x>>
      BY <2>4, AppendIsConcat
    <3>3. (p \o r) \o <<x>> = p \o (r \o <<x>>)
      BY <3>1, ConcatAssociative
    <3> QED
      BY <3>2, <3>3, Zenon
  <2> QED
    BY <2>1, <2>2, <2>3, <2>5, <2>6, Zenon
<1> QED
  BY <1>2, <1>3

(* At a mark the parts of one text follow those of the other.              *)
LEMMA SplitBehind ==
  ASSUME NEW a \in Text, NEW b \in Text, NEW mark \in Byte
  PROVE  split(behind(a, mark, b), mark) = split(a, mark) \o split(b, mark)
<1> DEFINE S == {t \in Seq(Byte) : split(behind(a, mark, t), mark) =
                                     split(a, mark) \o split(t, mark)}
<1>0. a \in Seq(Byte) /\ <<mark>> \in Seq(Byte) /\ a \o <<mark>> \in Seq(Byte)
  BY ConcatProperties DEF Text, Byte
<1>1. <<>> \in S
  <2>1. behind(a, mark, <<>>) = Append(a, mark)
    BY <1>0, ConcatEmptySeq, AppendIsConcat DEF behind
  <2>2. split(a, mark) \in Parts
    BY SplitType
  <2>3. split(Append(a, mark), mark) = Append(split(a, mark), <<>>)
    BY <1>0, <2>2, SplitAppend, MoreAt
  <2>4. split(a, mark) \in Seq(Text) /\ <<>> \in Text /\ <<>> \in Seq(Byte)
    BY <2>2 DEF Parts, Text
  <2>5. Append(split(a, mark), <<>>) = split(a, mark) \o << <<>> >>
    BY <2>4, AppendIsConcat
  <2>6. split(<<>>, mark) = << <<>> >>
    BY SplitEmpty
  <2>7. split(behind(a, mark, <<>>), mark) = split(a, mark) \o split(<<>>, mark)
    BY <2>1, <2>3, <2>5, <2>6, Zenon
  <2> QED
    BY <2>4, <2>7
<1>2. ASSUME NEW t \in S, NEW e \in Byte PROVE Append(t, e) \in S
  <2>1. /\ t \in Seq(Byte) /\ t \in Text /\ Append(t, e) \in Seq(Byte)
        /\ <<e>> \in Seq(Byte)
    BY AppendProperties DEF Text, Byte
  <2>2. behind(a, mark, Append(t, e)) = Append(behind(a, mark, t), e)
    <3>1. behind(a, mark, t) \in Seq(Byte)
      BY <2>1, BehindType DEF Text, Byte
    <3>2. Append(behind(a, mark, t), e) = behind(a, mark, t) \o <<e>>
      BY <3>1, AppendIsConcat
    <3>3. Append(t, e) = t \o <<e>>
      BY <2>1, AppendIsConcat
    <3>4. ((a \o <<mark>>) \o t) \o <<e>> = (a \o <<mark>>) \o (t \o <<e>>)
      BY <1>0, <2>1, ConcatAssociative
    <3> QED
      BY <3>2, <3>3, <3>4, Zenon DEF behind
  <2>3. behind(a, mark, t) \in Seq(Byte)
    BY <2>1, BehindType DEF Text, Byte
  <2>4. /\ split(Append(behind(a, mark, t), e), mark) =
             more(split(behind(a, mark, t), mark), e, mark)
        /\ split(Append(t, e), mark) = more(split(t, mark), e, mark)
    BY <2>1, <2>3, SplitAppend
  <2>5. split(behind(a, mark, t), mark) = split(a, mark) \o split(t, mark)
    OBVIOUS
  <2>6. split(a, mark) \in Seq(Text) /\ split(t, mark) \in Parts
    BY <2>1, SplitType DEF Parts
  <2>7. more(split(a, mark) \o split(t, mark), e, mark) =
          split(a, mark) \o more(split(t, mark), e, mark)
    BY <2>6, MoreConcat
  <2>8. split(behind(a, mark, Append(t, e)), mark) =
          split(a, mark) \o split(Append(t, e), mark)
    BY <2>2, <2>4, <2>5, <2>7, Zenon
  <2> QED
    BY <2>1, <2>8
<1> HIDE DEF S
<1>3. S = Seq(Byte)
  <2>1. S \in SUBSET Seq(Byte)
    BY DEF S
  <2> QED
    BY <1>1, <1>2, <2>1, SeqInduct
<1>4. b \in S
  BY <1>3 DEF Text, Byte
<1> QED
  BY <1>4 DEF S

(* Parts without the mark are found again in their text.                   *)
LEMMA SplitJoin ==
  ASSUME NEW p \in Parts, NEW mark \in Byte,
         \A i \in 1..Len(p) : free(p[i], mark)
  PROVE  split(join(p, mark), mark) = p
<1> DEFINE S == {q \in Seq(Text) :
                   q # <<>> /\ (\A i \in 1..Len(q) : free(q[i], mark)) =>
                     split(join(q, mark), mark) = q}
<1>1. <<>> \in S
  OBVIOUS
<1>2. ASSUME NEW q \in S, NEW e \in Text PROVE Append(q, e) \in S
  <2> DEFINE r == Append(q, e)
  <2>1. /\ q \in Seq(Text) /\ r \in Seq(Text) /\ Len(r) = Len(q) + 1
        /\ Len(q) \in Nat /\ r[Len(r)] = e
        /\ \A i \in 1..Len(q) : r[i] = q[i]
    BY AppendProperties
  <2> SUFFICES ASSUME \A i \in 1..Len(r) : free(r[i], mark)
               PROVE  split(join(r, mark), mark) = r
    BY <2>1
  <2> HIDE DEF r
  <2>2. free(e, mark)
    <3>1. Len(r) \in 1..Len(r)
      BY <2>1
    <3> QED
      BY <2>1, <3>1
  <2>3. \A i \in 1..Len(q) : free(q[i], mark)
    <3> TAKE i \in 1..Len(q)
    <3>1. i \in 1..Len(r) /\ r[i] = q[i]
      BY <2>1
    <3> QED
      BY <3>1, Zenon
  <2>4. split(e, mark) = <<e>>
    BY <2>2, SplitFree
  <2>5. CASE q = <<>>
    <3>1. r = <<e>>
      BY <2>5 DEF r
    <3>2. join(<<e>>, mark) = e
      BY JoinOne
    <3> QED
      BY <2>4, <3>1, <3>2, Zenon
  <2>6. CASE q # <<>>
    <3>1. join(r, mark) = behind(join(q, mark), mark, e)
      BY <2>1, <2>6, JoinAppend DEF r
    <3>2. join(q, mark) \in Text
      BY <2>1, <2>6, JoinType DEF Parts
    <3>3. split(behind(join(q, mark), mark, e), mark) =
            split(join(q, mark), mark) \o split(e, mark)
      BY <3>2, SplitBehind
    <3>4. split(join(q, mark), mark) = q
      BY <2>3, <2>6
    <3>5. r = q \o <<e>>
      BY <2>1, AppendIsConcat DEF r
    <3> QED
      BY <2>4, <3>1, <3>3, <3>4, <3>5, Zenon
  <2> QED
    BY <2>5, <2>6
<1> HIDE DEF S
<1>3. S = Seq(Text)
  <2>1. S \in SUBSET Seq(Text)
    BY DEF S
  <2> QED
    BY <1>1, <1>2, <2>1, SeqInduct
<1> QED
  BY <1>3 DEF S, Parts

(* The parts of two texts one after the other: the last of one and the     *)
(* first of the other are one.                                             *)
LEMMA SplitCount ==
  ASSUME NEW a \in Text, NEW b \in Text, NEW mark
  PROVE  Len(split(a \o b, mark)) =
           Len(split(a, mark)) + Len(split(b, mark)) - 1
<1> DEFINE L(t) == Len(split(t, mark))
           S == {t \in Seq(Byte) : L(a \o t) = L(a) + L(t) - 1}
<1>0. \A t \in Seq(Byte) : L(t) \in Nat \ {0}
  <2> TAKE t \in Seq(Byte)
  <2>1. split(t, mark) \in Parts
    BY SplitType DEF Text, Byte
  <2> QED
    BY <2>1, EmptySeq DEF Parts
<1>1. <<>> \in S
  <2>1. L(<<>>) = 1 /\ a \o <<>> = a /\ a \in Seq(Byte) /\ <<>> \in Seq(Byte)
    BY SplitEmpty DEF Text, Byte
  <2>2. L(a \o <<>>) = L(a) + L(<<>>) - 1
    <3>1. L(a \o <<>>) = L(a)
      BY <2>1, Zenon
    <3>2. L(a) \in Nat
      BY <1>0, <2>1
    <3> HIDE DEF L
    <3> QED
      BY <2>1, <3>1, <3>2
  <2> QED
    BY <2>1, <2>2
<1>2. ASSUME NEW t \in S, NEW e \in Byte PROVE Append(t, e) \in S
  <2>1. /\ t \in Seq(Byte) /\ Append(t, e) \in Seq(Byte)
        /\ a \o t \in Seq(Byte) /\ a \in Seq(Byte) /\ <<e>> \in Seq(Byte)
    BY AppendProperties, ConcatProperties DEF Text, Byte
  <2>2. a \o Append(t, e) = Append(a \o t, e)
    <3>1. Append(t, e) = t \o <<e>> /\ Append(a \o t, e) = (a \o t) \o <<e>>
      BY <2>1, AppendIsConcat
    <3>2. (a \o t) \o <<e>> = a \o (t \o <<e>>)
      BY <2>1, ConcatAssociative
    <3> QED
      BY <3>1, <3>2, Zenon
  <2>3. ASSUME NEW u \in Seq(Byte)
        PROVE  L(Append(u, e)) = IF e = mark THEN L(u) + 1 ELSE L(u)
    <3>1. split(Append(u, e), mark) = more(split(u, mark), e, mark)
          /\ split(u, mark) \in Parts
      <4>1. u \in Text
        BY DEF Text, Byte
      <4>2. split(u, mark) \in Parts
        BY <4>1, SplitType, Zenon
      <4>3. split(Append(u, e), mark) = more(split(u, mark), e, mark)
        BY SplitAppend
      <4> QED
        BY <4>2, <4>3
    <3> DEFINE p == split(u, mark)
    <3> HIDE DEF p
    <3>2. p \in Parts /\ p \in Seq(Text)
      BY <3>1 DEF p, Parts
    <3>3. CASE e = mark
      <4>1. more(p, e, mark) = Append(p, <<>>)
        BY <3>2, <3>3, MoreAt
      <4>2. Len(Append(p, <<>>)) = Len(p) + 1
        BY <3>2
      <4> QED
        BY <3>1, <3>3, <4>1, <4>2 DEF p
    <3>4. CASE e # mark
      <4>1. Len(more(p, e, mark)) = Len(p)
        BY <3>2, <3>4, MoreAt
      <4> QED
        BY <3>1, <3>4, <4>1 DEF p
    <3> QED
      BY <3>3, <3>4
  <2>4. L(a \o t) = L(a) + L(t) - 1
    OBVIOUS
  <2>5. L(a) \in Nat /\ L(t) \in Nat /\ L(a \o t) \in Nat
    BY <1>0, <2>1
  <2>6. L(Append(a \o t, e)) = L(a) + L(Append(t, e)) - 1
    <3>1. L(Append(a \o t, e)) = IF e = mark THEN L(a \o t) + 1 ELSE L(a \o t)
      BY <2>1, <2>3
    <3>2. L(Append(t, e)) = IF e = mark THEN L(t) + 1 ELSE L(t)
      BY <2>1, <2>3
    <3> HIDE DEF L
    <3> QED
      BY <2>4, <2>5, <3>1, <3>2
  <2>7. L(a \o Append(t, e)) = L(a) + L(Append(t, e)) - 1
    BY <2>2, <2>6, Zenon
  <2> QED
    BY <2>1, <2>7
<1> HIDE DEF S
<1>3. S = Seq(Byte)
  <2>1. S \in SUBSET Seq(Byte)
    BY DEF S
  <2> QED
    BY <1>1, <1>2, <2>1, SeqInduct
<1>4. b \in S
  BY <1>3 DEF Text, Byte
<1> QED
  BY <1>4 DEF S

(* A mark alone has two empty parts, another byte is one part.             *)
LEMMA BehindCount ==
  ASSUME NEW a \in Text, NEW b \in Text, NEW k \in Byte, NEW mark
  PROVE  Len(split(behind(a, k, b), mark)) =
           Len(split(a, mark)) + Len(split(b, mark))
             + IF k = mark THEN 0 ELSE -1
<1> DEFINE L(t) == Len(split(t, mark))
<1>1. <<k>> \in Text /\ <<>> \in Seq(Byte) /\ <<k>> = Append(<<>>, k)
  BY DEF Text, Byte
<1>2. a \o <<k>> \in Text
  BY <1>1, ConcatProperties DEF Text
<1>3. L(a \o <<k>>) = L(a) + L(<<k>>) - 1
  BY <1>1, SplitCount
<1>4. L((a \o <<k>>) \o b) = L(a \o <<k>>) + L(b) - 1
  BY <1>2, SplitCount
<1>5. split(<<k>>, mark) = more(<< <<>> >>, k, mark)
  <2>1. split(Append(<<>>, k), mark) = more(split(<<>>, mark), k, mark)
    BY <1>1, SplitAppend
  <2>2. split(<<>>, mark) = << <<>> >>
    BY SplitEmpty
  <2> QED
    BY <1>1, <2>1, <2>2, Zenon
<1>6. << <<>> >> \in Parts /\ Len(<< <<>> >>) = 1
  BY DEF Parts, Text
<1>7. L(<<k>>) = IF k = mark THEN 2 ELSE 1
  <2> DEFINE w == << <<>> >>
  <2>1. w \in Parts /\ Len(w) = 1 /\ L(<<k>>) = Len(more(w, k, mark))
    BY <1>5, <1>6
  <2> HIDE DEF w, L
  <2>2. CASE k = mark
    <3>1. more(w, k, mark) = Append(w, <<>>)
      BY <1>1, <2>1, <2>2, MoreAt
    <3>2. w \in Seq(Text) /\ <<>> \in Text
      BY <2>1 DEF Parts, Text
    <3>3. Len(Append(w, <<>>)) = Len(w) + 1
      BY <3>2, AppendProperties
    <3> QED
      BY <2>1, <2>2, <3>1, <3>3
  <2>3. CASE k # mark
    <3>1. Len(more(w, k, mark)) = 1
      BY <1>1, <2>1, <2>3, MoreAt
    <3> QED
      BY <2>1, <2>3, <3>1
  <2> QED
    BY <2>2, <2>3
<1>8. L(a) \in Nat /\ L(b) \in Nat
  BY SplitType DEF Parts
<1> HIDE DEF L
<1>9. L((a \o <<k>>) \o b) = L(a) + L(b) + IF k = mark THEN 0 ELSE -1
  BY <1>3, <1>4, <1>7, <1>8
<1> QED
  BY <1>9 DEF L, behind

(* A part of a text has no more parts at another mark than the text.       *)
LEMMA PartCount ==
  ASSUME NEW p \in Parts, NEW k \in Byte, NEW mark, NEW i \in 1..Len(p)
  PROVE  Len(split(p[i], mark)) <= Len(split(join(p, k), mark))
<1> DEFINE L(t) == Len(split(t, mark))
           S == {q \in Seq(Text) : \A j \in 1..Len(q) : L(q[j]) <= L(join(q, k))}
<1>0. \A t \in Text : L(t) \in Nat \ {0}
  <2> TAKE t \in Text
  <2>1. split(t, mark) \in Parts
    BY SplitType
  <2> QED
    BY <2>1, EmptySeq DEF Parts
<1>1. <<>> \in S
  OBVIOUS
<1>2. ASSUME NEW q \in S, NEW e \in Text PROVE Append(q, e) \in S
  <2> DEFINE r == Append(q, e)
  <2>1. /\ q \in Seq(Text) /\ r \in Seq(Text) /\ Len(r) = Len(q) + 1
        /\ Len(q) \in Nat /\ r[Len(r)] = e
        /\ \A j \in 1..Len(q) : r[j] = q[j] /\ q[j] \in Text
    BY AppendProperties
  <2>2. \A j \in 1..Len(q) : L(q[j]) <= L(join(q, k))
    OBVIOUS
  <2>3. L(e) \in Nat \ {0}
    BY <1>0
  <2>4. CASE q = <<>>
    <3>1. r = <<e>> /\ join(<<e>>, k) = e
      BY <2>4, JoinOne
    <3> HIDE DEF L
    <3> QED
      BY <2>1, <2>3, <3>1
  <2>5. CASE q # <<>>
    <3> DEFINE j0 == join(q, k)
    <3>1. join(r, k) = behind(j0, k, e)
      BY <2>1, <2>5, JoinAppend
    <3>2. j0 \in Text
      BY <2>1, <2>5, JoinType DEF Parts
    <3> HIDE DEF r, j0
    <3>3. L(behind(j0, k, e)) = L(j0) + L(e) + IF k = mark THEN 0 ELSE -1
      BY <3>2, BehindCount
    <3>4. L(j0) \in Nat \ {0}
      BY <1>0, <3>2
    <3>5. L(join(r, k)) = L(j0) + L(e) + IF k = mark THEN 0 ELSE -1
      BY <3>1, <3>3, Zenon
    <3>6. ASSUME NEW j \in 1..Len(r) PROVE L(r[j]) <= L(join(r, k))
      <4>1. CASE j = Len(r)
        <5>1. L(r[j]) = L(e)
          BY <2>1, <4>1, Zenon
        <5> HIDE DEF L
        <5> QED
          BY <2>3, <3>4, <3>5, <5>1
      <4>2. CASE j # Len(r)
        <5>1. j \in 1..Len(q)
          BY <2>1, <4>2
        <5>2. L(r[j]) = L(q[j])
          BY <2>1, <5>1, Zenon
        <5>3. L(q[j]) <= L(j0) /\ L(q[j]) \in Nat
          BY <1>0, <2>1, <2>2, <5>1 DEF j0
        <5> HIDE DEF L
        <5> QED
          BY <2>3, <3>4, <3>5, <5>2, <5>3
      <4> QED
        BY <4>1, <4>2
    <3> QED
      BY <2>1, <3>6 DEF r
  <2> QED
    BY <2>4, <2>5
<1> HIDE DEF S
<1>3. S = Seq(Text)
  <2>1. S \in SUBSET Seq(Text)
    BY DEF S
  <2> QED
    BY <1>1, <1>2, <2>1, SeqInduct
<1> QED
  BY <1>3 DEF S, Parts

(* A text is without a mark exactly when it is one part.                   *)
LEMMA FreeIff ==
  ASSUME NEW s \in Text, NEW mark \in Byte
  PROVE  free(s, mark) <=> Len(split(s, mark)) = 1
<1>1. ASSUME free(s, mark) PROVE Len(split(s, mark)) = 1
  <2>1. split(s, mark) = <<s>> /\ Len(<<s>>) = 1
    BY <1>1, SplitFree
  <2> QED
    BY <2>1, Zenon
<1>2. ASSUME Len(split(s, mark)) = 1 PROVE free(s, mark)
  <2> DEFINE p == split(s, mark)
  <2>1. p \in Seq(Text) /\ Len(p) = 1
    BY <1>2, SplitType DEF Parts
  <2>2. free(p[1], mark)
    <3>1. 1 \in 1..Len(p)
      BY <2>1
    <3> QED
      BY <3>1, SplitParts, Zenon
  <2>3. join(p, mark) = s
    BY JoinSplit
  <2> HIDE DEF p
  <2>4. p = <<p[1]>>
    BY <2>1
  <2>5. join(<<p[1]>>, mark) = p[1]
    BY JoinOne
  <2> QED
    BY <2>2, <2>3, <2>4, <2>5, Zenon
<1> QED
  BY <1>1, <1>2

(* Texts without a mark, put together.                                     *)
LEMMA FreeTogether ==
  ASSUME NEW a \in Text, NEW b \in Text, NEW mark \in Byte
  PROVE  /\ a \o b \in Text
         /\ free(a \o b, mark) <=> free(a, mark) /\ free(b, mark)
         /\ \A k \in Byte : k # mark /\ free(a, mark) /\ free(b, mark) =>
              free(behind(a, k, b), mark)
<1> DEFINE L(t) == Len(split(t, mark))
<1>1. a \o b \in Text
  BY ConcatProperties DEF Text
<1>2. L(a) \in Nat \ {0} /\ L(b) \in Nat \ {0}
  <2>1. split(a, mark) \in Parts /\ split(b, mark) \in Parts
    BY SplitType
  <2> QED
    BY <2>1, EmptySeq DEF Parts
<1>3. L(a \o b) = L(a) + L(b) - 1
  BY SplitCount
<1>4. \A k \in Byte : L(behind(a, k, b)) = L(a) + L(b) + IF k = mark THEN 0 ELSE -1
  BY BehindCount
<1>5. /\ free(a, mark) <=> L(a) = 1
      /\ free(b, mark) <=> L(b) = 1
  BY FreeIff
<1>6. free(a \o b, mark) <=> L(a \o b) = 1
  BY <1>1, FreeIff
<1>7. \A k \in Byte : free(behind(a, k, b), mark) <=> L(behind(a, k, b)) = 1
  BY BehindType, FreeIff
<1> HIDE DEF L
<1>8. L(a \o b) = 1 <=> L(a) = 1 /\ L(b) = 1
  BY <1>2, <1>3
<1>9. \A k \in Byte : k # mark /\ L(a) = 1 /\ L(b) = 1 => L(behind(a, k, b)) = 1
  BY <1>2, <1>4
<1> QED
  BY <1>1, <1>5, <1>6, <1>7, <1>8, <1>9

(* What is in no text is in none of its parts, and in no text of parts     *)
(* that are without it.                                                    *)
LEMMA FreeOfParts ==
  ASSUME NEW p \in Parts, NEW k \in Byte, NEW mark \in Byte
  PROVE  /\ free(join(p, k), mark) => \A i \in 1..Len(p) : free(p[i], mark)
         /\ k # mark /\ (\A i \in 1..Len(p) : free(p[i], mark)) =>
              free(join(p, k), mark)
<1>1. ASSUME free(join(p, k), mark), NEW i \in 1..Len(p)
      PROVE  free(p[i], mark)
  <2>1. join(p, k) \in Text /\ p[i] \in Text
    BY JoinType DEF Parts
  <2>2. Len(split(join(p, k), mark)) = 1
    BY <1>1, <2>1, FreeIff
  <2>3. Len(split(p[i], mark)) <= Len(split(join(p, k), mark))
    BY PartCount
  <2>4. split(p[i], mark) \in Parts
    BY <2>1, SplitType
  <2>5. Len(split(p[i], mark)) \in Nat \ {0}
    BY <2>4, EmptySeq DEF Parts
  <2> DEFINE c == Len(split(p[i], mark))
             d == Len(split(join(p, k), mark))
  <2>6. c = 1
    <3>1. d = 1 /\ c <= d /\ c \in Nat \ {0}
      BY <2>2, <2>3, <2>5
    <3> HIDE DEF c, d
    <3> QED
      BY <3>1
  <2> QED
    BY <2>1, <2>6, FreeIff
<1>2. ASSUME k # mark, \A i \in 1..Len(p) : free(p[i], mark)
      PROVE  free(join(p, k), mark)
  <2> DEFINE S == {q \in Seq(Text) :
                     q # <<>> /\ (\A i \in 1..Len(q) : free(q[i], mark)) =>
                       free(join(q, k), mark)}
  <2>1. <<>> \in S
    OBVIOUS
  <2>2. ASSUME NEW q \in S, NEW e \in Text PROVE Append(q, e) \in S
    <3> DEFINE r == Append(q, e)
    <3>1. /\ q \in Seq(Text) /\ r \in Seq(Text) /\ Len(r) = Len(q) + 1
          /\ Len(q) \in Nat /\ r[Len(r)] = e
          /\ \A i \in 1..Len(q) : r[i] = q[i]
      BY AppendProperties
    <3> SUFFICES ASSUME \A i \in 1..Len(r) : free(r[i], mark)
                 PROVE  free(join(r, k), mark)
      BY <3>1
    <3> HIDE DEF r
    <3>2. free(e, mark)
      <4>1. Len(r) \in 1..Len(r)
        BY <3>1
      <4> QED
        BY <3>1, <4>1
    <3>3. \A i \in 1..Len(q) : free(q[i], mark)
      <4> TAKE i \in 1..Len(q)
      <4>1. i \in 1..Len(r) /\ r[i] = q[i]
        BY <3>1
      <4> QED
        BY <4>1, Zenon
    <3>4. CASE q = <<>>
      <4>1. r = <<e>> /\ join(<<e>>, k) = e
        BY <3>4, JoinOne DEF r
      <4> QED
        BY <3>2, <4>1, Zenon
    <3>5. CASE q # <<>>
      <4>1. join(r, k) = behind(join(q, k), k, e)
        BY <3>1, <3>5, JoinAppend DEF r
      <4>2. join(q, k) \in Text /\ free(join(q, k), mark)
        BY <3>1, <3>3, <3>5, JoinType DEF Parts
      <4>3. free(behind(join(q, k), k, e), mark)
        BY <1>2, <3>2, <4>2, FreeTogether
      <4> QED
        BY <4>1, <4>3, Zenon
    <3> QED
      BY <3>4, <3>5
  <2> HIDE DEF S
  <2>3. S = Seq(Text)
    <3>1. S \in SUBSET Seq(Text)
      BY DEF S
    <3> QED
      BY <2>1, <2>2, <3>1, SeqInduct
  <2>4. p \in S /\ p # <<>>
    BY <2>3 DEF Parts
  <2> QED
    BY <1>2, <2>4 DEF S
<1> QED
  BY <1>1, <1>2

(* The text of some parts and more is their texts with a mark between.     *)
LEMMA JoinConcat ==
  ASSUME NEW p \in Parts, NEW q \in Parts, NEW k \in Byte
  PROVE  join(p \o q, k) = behind(join(p, k), k, join(q, k))
<1> DEFINE S == {r \in Seq(Text) :
                   r # <<>> => join(p \o r, k) = behind(join(p, k), k, join(r, k))}
<1>0. p \in Seq(Text) /\ p # <<>> /\ join(p, k) \in Text /\ <<k>> \in Text
  <2>1. join(p, k) \in Text
    BY JoinType
  <2>2. <<k>> \in Text
    BY DEF Text, Byte
  <2> QED
    BY <2>1, <2>2 DEF Parts
<1>1. <<>> \in S
  OBVIOUS
<1>2. ASSUME NEW r \in S, NEW e \in Text PROVE Append(r, e) \in S
  <2>1. r \in Seq(Text) /\ Append(r, e) \in Seq(Text) /\ <<e>> \in Seq(Text)
    BY AppendProperties
  <2>2. CASE r = <<>>
    <3>1. Append(r, e) = <<e>> /\ p \o <<e>> = Append(p, e)
      BY <1>0, <2>2, AppendIsConcat
    <3>2. join(<<e>>, k) = e
      BY JoinOne
    <3>3. join(Append(p, e), k) = behind(join(p, k), k, e)
      BY <1>0, JoinAppend
    <3>4. join(p \o Append(r, e), k) = behind(join(p, k), k, join(Append(r, e), k))
      BY <3>1, <3>2, <3>3, Zenon
    <3> QED
      BY <2>1, <3>4
  <2>3. CASE r # <<>>
    <3> DEFINE a == join(p, k)
               b == join(r, k)
    <3>1. p \o r \in Seq(Text) /\ p \o r # <<>>
      BY <1>0, <2>1, ConcatProperties, ConcatEqualIffEmpty
    <3>2. p \o Append(r, e) = Append(p \o r, e)
      <4>1. Append(r, e) = r \o <<e>> /\ Append(p \o r, e) = (p \o r) \o <<e>>
        BY <2>1, <3>1, AppendIsConcat
      <4>2. (p \o r) \o <<e>> = p \o (r \o <<e>>)
        BY <1>0, <2>1, ConcatAssociative
      <4> QED
        BY <4>1, <4>2, Zenon
    <3>3. join(Append(p \o r, e), k) = behind(join(p \o r, k), k, e)
      BY <3>1, JoinAppend
    <3>4. join(p \o r, k) = behind(a, k, b)
      BY <2>3
    <3>5. join(Append(r, e), k) = behind(b, k, e)
      BY <2>1, <2>3, JoinAppend
    <3>6. a \in Text /\ b \in Text
      BY <1>0, <2>1, <2>3, JoinType DEF Parts
    <3> HIDE DEF a, b
    <3>7. behind(behind(a, k, b), k, e) = behind(a, k, behind(b, k, e))
      <4> DEFINE ak == a \o <<k>>
                 bk == b \o <<k>>
      <4>1. ak \in Text /\ bk \in Text
        BY <1>0, <3>6, ConcatProperties DEF Text
      <4> HIDE DEF ak, bk
      <4>2. (ak \o b) \o <<k>> = ak \o (b \o <<k>>)
        <5>1. /\ ak \in Seq(1..255) /\ b \in Seq(1..255)
              /\ <<k>> \in Seq(1..255)
          BY <1>0, <3>6, <4>1 DEF Text
        <5> QED
          BY <5>1, ConcatAssociative
      <4>3. (ak \o bk) \o e = ak \o (bk \o e)
        BY <4>1, ConcatAssociative DEF Text
      <4> QED
        BY <4>2, <4>3, Zenon DEF behind, ak, bk
    <3>8. join(p \o Append(r, e), k) = behind(a, k, join(Append(r, e), k))
      BY <3>2, <3>3, <3>4, <3>5, <3>7, Zenon
    <3> QED
      BY <2>1, <3>8 DEF a
  <2> QED
    BY <2>2, <2>3
<1> HIDE DEF S
<1>3. S = Seq(Text)
  <2>1. S \in SUBSET Seq(Text)
    BY DEF S
  <2> QED
    BY <1>1, <1>2, <2>1, SeqInduct
<1> QED
  BY <1>3 DEF S, Parts

(* A byte is appended to the second of two texts, or to both together.     *)
LEMMA AppendBehind ==
  ASSUME NEW x \in Seq(Byte), NEW y \in Seq(Byte), NEW e \in Byte
  PROVE  Append(x \o y, e) = x \o Append(y, e)
<1>1. x \o y \in Seq(Byte) /\ <<e>> \in Seq(Byte)
  BY ConcatProperties
<1>2. Append(x \o y, e) = (x \o y) \o <<e>>
  BY <1>1, AppendIsConcat
<1>3. Append(y, e) = y \o <<e>>
  BY AppendIsConcat
<1>4. (x \o y) \o <<e>> = x \o (y \o <<e>>)
  BY <1>1, ConcatAssociative
<1> QED
  BY <1>2, <1>3, <1>4, Zenon

(* What stands before a text's first mark stays in front of it.            *)
LEMMA FirstPart ==
  ASSUME NEW a \in Text, NEW b \in Text, NEW mark \in Byte, free(a, mark)
  PROVE  /\ split(a \o b, mark)[1] = a \o split(b, mark)[1]
         /\ Len(split(a \o b, mark)) = Len(split(b, mark))
<1> DEFINE P(t) == split(t, mark)
           Q(t) == P(a \o t)[1] = a \o P(t)[1] /\ Len(P(a \o t)) = Len(P(t))
           S == {t \in Seq(Byte) : Q(t)}
<1>0. a \in Seq(Byte)
  BY DEF Text, Byte
<1>1. <<>> \in S
  <2>1. P(a) = <<a>> /\ P(<<>>) = << <<>> >> /\ a \o <<>> = a
    BY <1>0, SplitFree, SplitEmpty, ConcatEmptySeq
  <2>2. /\ <<a>>[1] = a /\ Len(<<a>>) = 1 /\ << <<>> >>[1] = <<>>
        /\ Len(<< <<>> >>) = 1 /\ <<>> \in Seq(Byte)
    OBVIOUS
  <2>3. Q(<<>>)
    BY <2>1, <2>2, Zenon
  <2> QED
    BY <2>2, <2>3
<1>2. ASSUME NEW t \in S, NEW e \in Byte PROVE Append(t, e) \in S
  <2>1. /\ t \in Seq(Byte) /\ Append(t, e) \in Seq(Byte)
        /\ a \o t \in Seq(Byte) /\ <<e>> \in Seq(Byte)
    BY <1>0, AppendProperties, ConcatProperties
  <2>2. a \o Append(t, e) = Append(a \o t, e)
    BY <1>0, <2>1, AppendBehind, Zenon
  <2> DEFINE p == P(t)
             q == P(a \o t)
  <2>3. p \in Parts /\ q \in Parts
    BY <2>1, SplitType DEF Text, Byte
  <2>4. P(Append(t, e)) = more(p, e, mark) /\ P(a \o Append(t, e)) = more(q, e, mark)
    <3>1. P(Append(a \o t, e)) = more(q, e, mark)
      BY <2>1, SplitAppend
    <3>2. P(Append(t, e)) = more(p, e, mark)
      BY <2>1, SplitAppend
    <3> QED
      BY <2>2, <3>1, <3>2, Zenon
  <2>5. q[1] = a \o p[1] /\ Len(q) = Len(p)
    OBVIOUS
  <2> HIDE DEF p, q, P
  <2>6. /\ p \in Seq(Text) /\ q \in Seq(Text) /\ Len(p) \in Nat \ {0} /\ p[1] \in Text
    BY <2>3, EmptySeq DEF Parts
  <2>7. more(q, e, mark)[1] = a \o more(p, e, mark)[1]
        /\ Len(more(q, e, mark)) = Len(more(p, e, mark))
    <3>1. CASE e = mark
      <4>1. more(p, e, mark) = Append(p, <<>>)
        BY <2>3, <3>1, MoreAt
      <4>2. more(q, e, mark) = Append(q, <<>>)
        BY <2>3, <3>1, MoreAt
      <4>3. Append(p, <<>>)[1] = p[1] /\ Len(Append(p, <<>>)) = Len(p) + 1
        BY <2>6
      <4>4. Append(q, <<>>)[1] = q[1] /\ Len(Append(q, <<>>)) = Len(q) + 1
        BY <2>5, <2>6
      <4> QED
        BY <2>5, <4>1, <4>2, <4>3, <4>4, Zenon
    <3>2. CASE e # mark
      <4>1. /\ Len(more(p, e, mark)) = Len(p)
            /\ \A i \in 1..Len(p) : i # Len(p) => more(p, e, mark)[i] = p[i]
            /\ more(p, e, mark)[Len(p)] = Append(p[Len(p)], e)
        BY <2>3, <3>2, MoreAt
      <4>2. /\ Len(more(q, e, mark)) = Len(q)
            /\ \A i \in 1..Len(q) : i # Len(q) => more(q, e, mark)[i] = q[i]
            /\ more(q, e, mark)[Len(q)] = Append(q[Len(q)], e)
        BY <2>3, <3>2, MoreAt
      <4>3. CASE Len(p) = 1
        <5>1. /\ more(p, e, mark)[1] = Append(p[1], e)
              /\ more(q, e, mark)[1] = Append(q[1], e)
          BY <2>5, <4>1, <4>2, <4>3, Zenon
        <5>2. p[1] \in Seq(Byte) /\ a \o p[1] \in Seq(Byte)
          BY <1>0, <2>6, ConcatProperties DEF Text, Byte
        <5>3. Append(a \o p[1], e) = a \o Append(p[1], e)
          BY <1>0, <5>2, AppendBehind, Zenon
        <5>5. Append(q[1], e) = a \o Append(p[1], e)
          BY <2>5, <5>3, Zenon
        <5>6. Len(more(q, e, mark)) = Len(more(p, e, mark))
          BY <2>5, <4>1, <4>2, Zenon
        <5> QED
          BY <5>1, <5>5, <5>6, Zenon
      <4>4. CASE Len(p) # 1
        <5>1. 1 \in 1..Len(p) /\ 1 # Len(p)
          BY <2>6, <4>4
        <5>2. more(p, e, mark)[1] = p[1] /\ more(q, e, mark)[1] = q[1]
          BY <2>5, <4>1, <4>2, <5>1
        <5> QED
          BY <2>5, <4>1, <4>2, <5>2
      <4> QED
        BY <4>3, <4>4
    <3> QED
      BY <3>1, <3>2
  <2>8. Q(Append(t, e))
    BY <2>4, <2>7, Zenon
  <2> QED
    BY <2>1, <2>8
<1> HIDE DEF S
<1>3. S = Seq(Byte)
  <2>1. S \in SUBSET Seq(Byte)
    BY DEF S
  <2> QED
    BY <1>1, <1>2, <2>1, SeqInduct
<1>4. b \in S
  BY <1>3 DEF Text, Byte
<1> QED
  BY <1>4 DEF S

-----------------------------------------------------------------------------
(* A part between others. *)

(* The bytes that some parts and the mark next to them take.               *)
room(p, mark) == IF p = <<>> THEN 0 ELSE Len(join(p, mark)) + 1

(* A part that is put between others takes its length, and is split alone. *)
LEMMA Around ==
  ASSUME NEW A \in Seq(Text), NEW B \in Seq(Text), NEW x \in Text,
         NEW mark \in Byte
  PROVE  /\ A \o <<x>> \o B \in Parts
         /\ Len(join(A \o <<x>> \o B, mark)) =
              room(A, mark) + Len(x) + room(B, mark)
         /\ (\A i \in 1..Len(A) : free(A[i], mark))
            /\ (\A i \in 1..Len(B) : free(B[i], mark)) =>
              split(join(A \o <<x>> \o B, mark), mark) = A \o split(x, mark) \o B
<1> DEFINE f == A \o <<x>>
<1>1. f \in Seq(Text) /\ Len(f) = Len(A) + 1 /\ <<x>> \in Seq(Text)
  BY ConcatProperties
<1>2. f \in Parts
  BY <1>1, EmptySeq DEF Parts
<1>3. split(x, mark) \in Seq(Text) /\ Len(x) \in Nat
  BY SplitType DEF Parts, Text
<1>4. /\ join(f, mark) \in Text /\ Len(join(f, mark)) = room(A, mark) + Len(x)
      /\ (\A i \in 1..Len(A) : free(A[i], mark)) =>
           split(join(f, mark), mark) = A \o split(x, mark)
  <2>1. CASE A = <<>>
    <3>1. f = <<x>> /\ A \o split(x, mark) = split(x, mark)
      BY <1>3, <2>1, ConcatEmptySeq
    <3>2. join(<<x>>, mark) = x
      BY JoinOne
    <3>3. room(A, mark) = 0
      BY <2>1 DEF room
    <3>4. join(f, mark) = x
      BY <3>1, <3>2, Zenon
    <3> HIDE DEF f
    <3> QED
      BY <1>3, <3>1, <3>3, <3>4
  <2>2. CASE A # <<>>
    <3> DEFINE j == join(A, mark)
    <3>1. A \in Parts /\ j \in Text
      BY <2>2, JoinType DEF Parts
    <3>2. f = Append(A, x)
      BY AppendIsConcat
    <3>3. join(f, mark) = behind(j, mark, x)
      BY <2>2, <3>2, JoinAppend
    <3>4. room(A, mark) = Len(j) + 1 /\ Len(j) \in Nat
      BY <2>2, <3>1 DEF room, Text
    <3>5. (\A i \in 1..Len(A) : free(A[i], mark)) => split(j, mark) = A
      BY <3>1, SplitJoin
    <3> HIDE DEF j, f
    <3>6. split(behind(j, mark, x), mark) = split(j, mark) \o split(x, mark)
      BY <3>1, SplitBehind
    <3>7. behind(j, mark, x) \in Text /\ Len(behind(j, mark, x)) = Len(j) + Len(x) + 1
      BY <3>1, BehindType
    <3>8. Len(join(f, mark)) = room(A, mark) + Len(x)
      BY <1>3, <3>3, <3>4, <3>7
    <3> QED
      BY <3>3, <3>5, <3>6, <3>7, <3>8
  <2> QED
    BY <2>1, <2>2
<1> HIDE DEF f
<1>5. /\ f \o B \in Parts
      /\ Len(join(f \o B, mark)) = Len(join(f, mark)) + room(B, mark)
      /\ (\A i \in 1..Len(B) : free(B[i], mark)) =>
           split(join(f \o B, mark), mark) = split(join(f, mark), mark) \o B
  <2>1. CASE B = <<>>
    <3>1. f \o B = f
      BY <1>1, <2>1, ConcatEmptySeq
    <3>2. split(join(f, mark), mark) \in Seq(Text)
      BY <1>4, SplitType DEF Parts
    <3>3. split(join(f, mark), mark) \o B = split(join(f, mark), mark)
      BY <2>1, <3>2, ConcatEmptySeq
    <3>4. room(B, mark) = 0
      BY <2>1 DEF room
    <3>5. Len(join(f, mark)) \in Nat
      BY <1>4 DEF Text
    <3> QED
      BY <1>2, <3>1, <3>3, <3>4, <3>5
  <2>2. CASE B # <<>>
    <3> DEFINE j == join(B, mark)
               h == join(f, mark)
    <3>1. B \in Parts
      BY <2>2 DEF Parts
    <3>2. j \in Text
      BY <3>1, JoinType
    <3>3. join(f \o B, mark) = behind(h, mark, j)
      BY <1>2, <3>1, JoinConcat
    <3>4. f \o B \in Parts
      BY <1>1, <1>2, <3>1, ConcatProperties, ConcatEqualIffEmpty DEF Parts
    <3>5. room(B, mark) = Len(j) + 1
      BY <2>2 DEF room
    <3>6. (\A i \in 1..Len(B) : free(B[i], mark)) => split(j, mark) = B
      BY <3>1, SplitJoin
    <3>7. h \in Text
      BY <1>4
    <3> HIDE DEF j, h
    <3>8. split(behind(h, mark, j), mark) = split(h, mark) \o split(j, mark)
      BY <3>2, <3>7, SplitBehind
    <3>9. Len(behind(h, mark, j)) = Len(h) + Len(j) + 1
      BY <3>2, <3>7, BehindType
    <3>10. Len(join(f \o B, mark)) = Len(h) + room(B, mark)
      <4>1. Len(h) \in Nat /\ Len(j) \in Nat
        BY <3>2, <3>7 DEF Text
      <4> QED
        BY <3>3, <3>5, <3>9, <4>1
    <3> QED
      BY <3>3, <3>4, <3>6, <3>8, <3>10 DEF h
  <2> QED
    BY <2>1, <2>2
<1> QED
  BY <1>4, <1>5 DEF f

(* The greater of two numbers.                                             *)
LEMMA MaxOfTwo ==
  ASSUME NEW n \in Nat, NEW k \in Nat
  PROVE  Max({n, k}) = IF n <= k THEN k ELSE n
<1> DEFINE top == IF n <= k THEN k ELSE n
<1>1. top \in {n, k} /\ top \in Nat /\ \A y \in {n, k} : top >= y
  OBVIOUS
<1>2. \A y \in {n, k} : (\A z \in {n, k} : y >= z) => y = top
  OBVIOUS
<1> HIDE DEF top
<1>3. Max({n, k}) = top
  BY <1>1, <1>2 DEF Max
<1> QED
  BY <1>3 DEF top

(* No number lies between 1 and 2.                                         *)
LEMMA OneOrMore ==
  ASSUME NEW n \in Nat \ {0}
  PROVE  n = 1 \/ n >= 2
OBVIOUS

(* A part that is not there is empty.                                      *)
LEMMA PartType ==
  ASSUME NEW p \in Seq(Text), NEW i
  PROVE  /\ part(p, i) \in Text
         /\ i \in 1..Len(p) => part(p, i) = p[i]
         /\ i \notin 1..Len(p) => part(p, i) = <<>>
<1>1. DOMAIN p = 1..Len(p) /\ <<>> \in Text
  BY DEF Text
<1>2. i \in 1..Len(p) => p[i] \in Text
  OBVIOUS
<1> QED
  BY <1>1, <1>2 DEF part

(* Missing parts are added at the end.                                     *)
LEMMA PaddedType ==
  ASSUME NEW p \in Parts, NEW n \in Nat
  PROVE  /\ padded(p, n) \in Parts
         /\ Len(padded(p, n)) = IF n <= Len(p) THEN Len(p) ELSE n
         /\ \A i \in 1..Len(padded(p, n)) : padded(p, n)[i] = part(p, i)
         /\ n <= Len(p) => padded(p, n) = p
<1>1. p \in Seq(Text) /\ Len(p) \in Nat \ {0}
  BY EmptySeq DEF Parts
<1> DEFINE l == IF n <= Len(p) THEN Len(p) ELSE n
           q == [i \in 1..l |-> part(p, i)]
<1>2. l \in Nat \ {0}
  BY <1>1
<1>3. padded(p, n) = q
  BY <1>1, MaxOfTwo DEF padded
<1>4. \A i \in 1..l : part(p, i) \in Text
  BY <1>1, PartType
<1> HIDE DEF l
<1>5. q \in Seq(Text) /\ Len(q) = l /\ \A i \in 1..l : q[i] = part(p, i)
  BY <1>2, <1>4
<1> HIDE DEF q
<1>6. q \in Parts
  BY <1>2, <1>5, EmptySeq DEF Parts
<1>7. ASSUME n <= Len(p) PROVE q = p
  <2>1. Len(q) = Len(p)
    BY <1>5, <1>7 DEF l
  <2>2. \A i \in 1..Len(q) : q[i] = p[i]
    BY <1>1, <1>5, <2>1, PartType
  <2> QED
    BY <1>1, <1>5, <2>1, <2>2, SeqEqual
<1> QED
  BY <1>3, <1>5, <1>6, <1>7 DEF l

(* Each of them takes one mark.                                            *)
LEMMA PaddedLength ==
  ASSUME NEW p \in Parts, NEW n \in Nat, NEW mark \in Byte
  PROVE  Len(join(padded(p, n), mark)) =
           Len(join(p, mark)) + Len(padded(p, n)) - Len(p)
<1> DEFINE J(m) == Len(join(padded(p, m), mark))
           R(m) == J(m) = Len(join(p, mark)) + Len(padded(p, m)) - Len(p)
           S == {m \in Nat : R(m)}
<1>0. p \in Seq(Text) /\ Len(p) \in Nat \ {0} /\ Len(join(p, mark)) \in Nat
  <2>1. join(p, mark) \in Text
    BY JoinType
  <2> QED
    BY <2>1, EmptySeq DEF Parts, Text
<1>1. \A m \in Nat : m <= Len(p) => R(m)
  <2> SUFFICES ASSUME NEW m \in Nat, m <= Len(p) PROVE R(m)
    OBVIOUS
  <2>1. padded(p, m) = p
    BY PaddedType
  <2>2. J(m) = Len(join(p, mark)) /\ Len(padded(p, m)) = Len(p)
    BY <2>1
  <2> HIDE DEF J
  <2> QED
    BY <1>0, <2>2
<1>2. 0 \in S
  BY <1>0, <1>1
<1>3. ASSUME NEW m \in S PROVE m + 1 \in S
  <2>1. CASE m + 1 <= Len(p)
    BY <1>1, <2>1
  <2>2. CASE ~(m + 1 <= Len(p))
    <3> DEFINE q == padded(p, m)
               r == padded(p, m + 1)
    <3>1. m \in Nat /\ R(m) /\ m + 1 \in Nat
      OBVIOUS
    <3>2. /\ q \in Parts /\ Len(q) = IF m <= Len(p) THEN Len(p) ELSE m
          /\ \A i \in 1..Len(q) : q[i] = part(p, i)
      BY <3>1, PaddedType
    <3>3. /\ r \in Parts /\ Len(r) = IF m + 1 <= Len(p) THEN Len(p) ELSE m + 1
          /\ \A i \in 1..Len(r) : r[i] = part(p, i)
      BY <3>1, PaddedType
    <3>4. Len(join(q, mark)) = Len(join(p, mark)) + Len(q) - Len(p)
      BY <3>1
    <3> HIDE DEF q, r
    <3>5. Len(q) = m /\ Len(r) = m + 1
      BY <1>0, <2>2, <3>1, <3>2, <3>3
    <3>6. q \in Seq(Text) /\ q # <<>> /\ r \in Seq(Text) /\ <<>> \in Text
      BY <3>2, <3>3 DEF Parts, Text
    <3>7. r = Append(q, <<>>)
      <4>1. /\ Append(q, <<>>) \in Seq(Text) /\ Len(Append(q, <<>>)) = m + 1
            /\ Append(q, <<>>)[m + 1] = <<>>
            /\ \A i \in 1..m : Append(q, <<>>)[i] = q[i]
        BY <3>5, <3>6, AppendProperties
      <4>2. \A i \in 1..Len(r) : r[i] = Append(q, <<>>)[i]
        <5> TAKE i \in 1..Len(r)
        <5>1. CASE i = m + 1
          <6>1. part(p, i) = <<>>
            BY <1>0, <2>2, <5>1, PartType
          <6> QED
            BY <3>3, <4>1, <5>1, <6>1
        <5>2. CASE i # m + 1
          <6>1. i \in 1..m
            BY <3>1, <3>5, <5>2
          <6> QED
            BY <3>2, <3>3, <3>5, <4>1, <6>1
        <5> QED
          BY <5>1, <5>2
      <4> QED
        BY <3>5, <3>6, <4>1, <4>2, SeqEqual
    <3>8. join(r, mark) = behind(join(q, mark), mark, <<>>)
      BY <3>6, <3>7, JoinAppend
    <3>9. join(q, mark) \in Text
      BY <3>2, JoinType
    <3>10. Len(behind(join(q, mark), mark, <<>>)) = Len(join(q, mark)) + Len(<<>>) + 1
      BY <3>6, <3>9, BehindType
    <3>11. Len(<<>>) = 0 /\ Len(join(q, mark)) \in Nat
      BY <3>9 DEF Text
    <3>12. Len(join(r, mark)) = Len(join(q, mark)) + 1
      BY <3>8, <3>10, <3>11
    <3>13. Len(join(r, mark)) = Len(join(p, mark)) + Len(r) - Len(p)
      BY <1>0, <3>1, <3>4, <3>5, <3>11, <3>12
    <3> QED
      BY <3>1, <3>13 DEF r
  <2> QED
    BY <2>1, <2>2
<1> HIDE DEF S
<1>4. S = Nat
  <2>1. S \in SUBSET Nat
    BY DEF S
  <2> QED
    BY <1>2, <1>3, <2>1, NatInduct
<1> QED
  BY <1>4 DEF S

(* A sequence is its parts before and from a place on.                     *)
LEMMA CutAt ==
  ASSUME NEW p \in Seq(Text), NEW r \in 1..Len(p) + 1
  PROVE  /\ SubSeq(p, 1, r - 1) \in Seq(Text)
         /\ Len(SubSeq(p, 1, r - 1)) = r - 1
         /\ \A i \in 1..r - 1 : SubSeq(p, 1, r - 1)[i] = p[i]
         /\ SubSeq(p, r, Len(p)) \in Seq(Text)
         /\ Len(SubSeq(p, r, Len(p))) = Len(p) - r + 1
         /\ \A i \in 1..Len(p) - r + 1 : SubSeq(p, r, Len(p))[i] = p[r + i - 1]
         /\ p = SubSeq(p, 1, r - 1) \o SubSeq(p, r, Len(p))
<1>1. Len(p) \in Nat /\ r \in Nat /\ 1 <= r /\ r <= Len(p) + 1
  OBVIOUS
<1>2. \A i \in 1..Len(p) : p[i] \in Text
  OBVIOUS
<1> DEFINE A == SubSeq(p, 1, r - 1)
           B == SubSeq(p, r, Len(p))
<1>3. /\ A \in Seq(Text) /\ Len(A) = IF 1 <= r - 1 THEN r - 1 - 1 + 1 ELSE 0
      /\ \A i \in 1..r - 1 - 1 + 1 : A[i] = p[1 + i - 1]
  <2>1. \A i \in 1..r - 1 : p[i] \in Text
    BY <1>1, <1>2
  <2>2. 1 \in Int /\ r - 1 \in Int
    BY <1>1
  <2> QED
    BY <2>1, <2>2, SubSeqProperties
<1>4. /\ B \in Seq(Text) /\ Len(B) = IF r <= Len(p) THEN Len(p) - r + 1 ELSE 0
      /\ \A i \in 1..Len(p) - r + 1 : B[i] = p[r + i - 1]
  <2>1. \A i \in r..Len(p) : p[i] \in Text
    BY <1>1, <1>2
  <2>2. r \in Int /\ Len(p) \in Int
    BY <1>1
  <2> QED
    BY <2>1, <2>2, SubSeqProperties
<1> HIDE DEF A, B
<1>5. Len(A) = r - 1 /\ Len(B) = Len(p) - r + 1
  BY <1>1, <1>3, <1>4
<1>6. \A i \in 1..r - 1 : A[i] = p[i]
  <2> TAKE i \in 1..r - 1
  <2>1. i \in 1..r - 1 - 1 + 1 /\ 1 + i - 1 = i
    BY <1>1
  <2> QED
    BY <1>3, <2>1
<1>7. /\ A \o B \in Seq(Text) /\ Len(A \o B) = Len(A) + Len(B)
      /\ \A i \in 1..Len(A) + Len(B) :
           (A \o B)[i] = IF i <= Len(A) THEN A[i] ELSE B[i - Len(A)]
  BY <1>3, <1>4, ConcatProperties
<1>8. Len(A \o B) = Len(p)
  BY <1>1, <1>5, <1>7
<1>9. \A i \in 1..Len(A \o B) : (A \o B)[i] = p[i]
  <2> TAKE i \in 1..Len(A \o B)
  <2>1. i \in 1..Len(p)
    BY <1>8
  <2>2. CASE i <= r - 1
    BY <1>1, <1>5, <1>6, <1>7, <2>1, <2>2
  <2>3. CASE ~(i <= r - 1)
    <3> DEFINE j == i - (r - 1)
    <3>1. j \in 1..Len(p) - r + 1 /\ r + j - 1 = i
      BY <1>1, <2>1, <2>3
    <3>2. B[j] = p[r + j - 1]
      BY <1>4, <3>1
    <3>3. (A \o B)[i] = B[j]
      BY <1>1, <1>5, <1>7, <2>1, <2>3
    <3> QED
      BY <3>1, <3>2, <3>3
  <2> QED
    BY <2>2, <2>3
<1>10. A \o B = p
  BY <1>7, <1>8, <1>9, SeqEqual
<1> QED
  BY <1>3, <1>4, <1>5, <1>6, <1>10 DEF A, B

(* s is A, then x, then B.                                                 *)
InPlace(s, A, x, B) ==
  /\ s \in Seq(Text) /\ Len(s) = Len(A) + Len(B) + 1
  /\ \A i \in 1..Len(A) + Len(B) + 1 :
       s[i] = IF i <= Len(A) THEN A[i]
              ELSE IF i = Len(A) + 1 THEN x ELSE B[i - Len(A) - 1]

(* A place that is taken from a sequence.                                  *)
LEMMA AtPlace ==
  ASSUME NEW A \in Seq(Text), NEW B \in Seq(Text), NEW x \in Text
  PROVE  InPlace(A \o <<x>> \o B, A, x, B)
<1> DEFINE f == A \o <<x>>
<1>1. /\ <<x>> \in Seq(Text) /\ Len(<<x>>) = 1 /\ <<x>>[1] = x
      /\ Len(A) \in Nat /\ Len(B) \in Nat
  OBVIOUS
<1>2. /\ f \in Seq(Text) /\ Len(f) = Len(A) + Len(<<x>>)
      /\ \A i \in 1..Len(A) + Len(<<x>>) :
           f[i] = IF i <= Len(A) THEN A[i] ELSE <<x>>[i - Len(A)]
  BY <1>1, ConcatProperties
<1> HIDE DEF f
<1>3. /\ f \o B \in Seq(Text) /\ Len(f \o B) = Len(f) + Len(B)
      /\ \A i \in 1..Len(f) + Len(B) :
           (f \o B)[i] = IF i <= Len(f) THEN f[i] ELSE B[i - Len(f)]
  <2>1. f \in Seq(Text)
    BY <1>2
  <2> QED
    BY <2>1, ConcatProperties
<1>4. Len(f) = Len(A) + 1
  BY <1>1, <1>2
<1>5. ASSUME NEW i \in 1..Len(A) + Len(B) + 1
      PROVE  (f \o B)[i] = IF i <= Len(A) THEN A[i]
                           ELSE IF i = Len(A) + 1 THEN x
                           ELSE B[i - Len(A) - 1]
  <2>1. i \in 1..Len(f) + Len(B)
    BY <1>1, <1>4
  <2>2. CASE i <= Len(A)
    <3>1. i \in 1..Len(A) + Len(<<x>>) /\ i <= Len(f)
      BY <1>1, <1>4, <2>2
    <3> QED
      BY <1>2, <1>3, <2>1, <2>2, <3>1
  <2>3. CASE i = Len(A) + 1
    <3>1. /\ i \in 1..Len(A) + Len(<<x>>) /\ i <= Len(f) /\ ~(i <= Len(A))
          /\ i - Len(A) = 1
      BY <1>1, <1>4, <2>3
    <3>2. f[i] = x
      BY <1>1, <1>2, <3>1
    <3> QED
      BY <1>3, <2>1, <2>3, <3>1, <3>2
  <2>4. CASE ~(i <= Len(A)) /\ i # Len(A) + 1
    <3>1. ~(i <= Len(f)) /\ i - Len(f) = i - Len(A) - 1
      BY <1>1, <1>4, <2>4
    <3> QED
      BY <1>3, <2>1, <2>4, <3>1
  <2> QED
    BY <2>2, <2>3, <2>4
<1>6. Len(f \o B) = Len(A) + Len(B) + 1
  BY <1>1, <1>3, <1>4
<1>7. InPlace(f \o B, A, x, B)
  BY <1>3, <1>5, <1>6 DEF InPlace
<1> QED
  BY <1>7 DEF f

(* A part is put in the place of another.                                  *)
LEMMA ReplaceIs ==
  ASSUME NEW p \in Seq(Text), NEW r \in 1..Len(p), NEW x \in Text
  PROVE  [p EXCEPT ![r] = x] =
           SubSeq(p, 1, r - 1) \o <<x>> \o SubSeq(p, r + 1, Len(p))
<1> DEFINE A == SubSeq(p, 1, r - 1)
           B == SubSeq(p, r + 1, Len(p))
           q == [p EXCEPT ![r] = x]
<1>1. Len(p) \in Nat /\ r \in 1..Len(p) + 1 /\ r + 1 \in 1..Len(p) + 1 /\ r \in Nat
  OBVIOUS
<1>2. /\ A \in Seq(Text) /\ Len(A) = r - 1
      /\ \A i \in 1..r - 1 : A[i] = p[i]
  BY <1>1, CutAt
<1>3. /\ B \in Seq(Text) /\ Len(B) = Len(p) - (r + 1) + 1
      /\ \A i \in 1..Len(p) - (r + 1) + 1 : B[i] = p[r + 1 + i - 1]
  BY <1>1, CutAt
<1>4. /\ q \in Seq(Text) /\ Len(q) = Len(p)
      /\ \A i \in 1..Len(p) : q[i] = IF i = r THEN x ELSE p[i]
  BY ExceptSeq
<1> HIDE DEF A, B, q
<1> DEFINE s == A \o <<x>> \o B
<1>5. /\ s \in Seq(Text) /\ Len(s) = Len(A) + Len(B) + 1
      /\ \A i \in 1..Len(A) + Len(B) + 1 :
           s[i] = IF i <= Len(A) THEN A[i]
                  ELSE IF i = Len(A) + 1 THEN x ELSE B[i - Len(A) - 1]
  <2>1. InPlace(s, A, x, B)
    BY <1>2, <1>3, AtPlace
  <2> HIDE DEF s
  <2> QED
    BY <2>1, Zenon DEF InPlace
<1> HIDE DEF s
<1>6. Len(A) + Len(B) + 1 = Len(p)
  BY <1>1, <1>2, <1>3
<1>7. ASSUME NEW i \in 1..Len(q) PROVE q[i] = s[i]
  <2>1. i \in 1..Len(p) /\ i \in 1..Len(A) + Len(B) + 1
    BY <1>4, <1>6
  <2>2. CASE i < r
    <3>1. i \in 1..r - 1 /\ i <= Len(A) /\ i # r
      BY <1>1, <1>2, <2>1, <2>2
    <3> QED
      BY <1>2, <1>4, <1>5, <2>1, <3>1
  <2>3. CASE i = r
    <3>1. ~(i <= Len(A)) /\ i = Len(A) + 1
      BY <1>1, <1>2, <2>3
    <3> QED
      BY <1>4, <1>5, <2>1, <2>3, <3>1
  <2>4. CASE i > r
    <3> DEFINE j == i - Len(A) - 1
    <3>1. /\ ~(i <= Len(A)) /\ i # Len(A) + 1 /\ i # r
          /\ j \in 1..Len(p) - (r + 1) + 1 /\ r + 1 + j - 1 = i
      BY <1>1, <1>2, <2>1, <2>4
    <3>2. B[j] = p[i]
      BY <1>3, <3>1
    <3>3. s[i] = B[j]
      BY <1>5, <2>1, <3>1
    <3> QED
      BY <1>4, <2>1, <3>1, <3>2, <3>3
  <2> QED
    BY <1>1, <2>1, <2>2, <2>3, <2>4
<1>8. Len(q) = Len(s)
  BY <1>4, <1>5, <1>6
<1>9. q = s
  BY <1>4, <1>5, <1>7, <1>8, SeqEqual
<1> QED
  BY <1>9 DEF A, B, q, s

(* One part in the place of another; parts q in the place of n of them.    *)
put(p, r, x) == [p EXCEPT ![r] = x]
spliced(p, r, q, n) == SubSeq(p, 1, r - 1) \o q \o SubSeq(p, r + n, Len(p))

(* Around, for a part that is put in the place of another.                 *)
LEMMA ReplacedText ==
  ASSUME NEW p \in Parts, NEW r \in 1..Len(p), NEW x \in Text,
         NEW mark \in Byte
  PROVE  /\ put(p, r, x) \in Parts
         /\ Len(put(p, r, x)) = Len(p)
         /\ \A i \in 1..Len(p) : put(p, r, x)[i] = IF i = r THEN x ELSE p[i]
         /\ Len(join(put(p, r, x), mark)) = Len(join(p, mark)) + Len(x) - Len(p[r])
         /\ (\A i \in 1..Len(p) : free(p[i], mark)) =>
              split(join(put(p, r, x), mark), mark) =
                spliced(p, r, split(x, mark), 1)
<1> DEFINE A == SubSeq(p, 1, r - 1)
           B == SubSeq(p, r + 1, Len(p))
           q == [p EXCEPT ![r] = x]
<1>1. /\ p \in Seq(Text) /\ p[r] \in Text /\ Len(p) \in Nat
      /\ r \in 1..Len(p) + 1 /\ r + 1 \in 1..Len(p) + 1 /\ r \in Nat
  BY DEF Parts
<1>2. /\ A \in Seq(Text) /\ Len(A) = r - 1
      /\ \A i \in 1..r - 1 : A[i] = p[i]
  BY <1>1, CutAt
<1>3. /\ B \in Seq(Text) /\ Len(B) = Len(p) - (r + 1) + 1
      /\ \A i \in 1..Len(p) - (r + 1) + 1 : B[i] = p[r + 1 + i - 1]
  BY <1>1, CutAt
<1>4. q = A \o <<x>> \o B
  BY <1>1, ReplaceIs
<1>5. [p EXCEPT ![r] = p[r]] = A \o <<p[r]>> \o B
  BY <1>1, ReplaceIs
<1>6. [p EXCEPT ![r] = p[r]] = p
  <2>1. /\ [p EXCEPT ![r] = p[r]] \in Seq(Text)
        /\ Len([p EXCEPT ![r] = p[r]]) = Len(p)
        /\ \A i \in 1..Len(p) : [p EXCEPT ![r] = p[r]][i] =
             IF i = r THEN p[r] ELSE p[i]
    BY <1>1, ExceptSeq
  <2>2. \A i \in 1..Len(p) : [p EXCEPT ![r] = p[r]][i] = p[i]
    BY <2>1
  <2> QED
    BY <1>1, <2>1, <2>2, SeqEqual
<1>7. /\ q \in Seq(Text) /\ Len(q) = Len(p)
      /\ \A i \in 1..Len(p) : q[i] = IF i = r THEN x ELSE p[i]
  BY <1>1, ExceptSeq
<1> HIDE DEF A, B, q
<1> DEFINE y == p[r]
<1>8. y \in Text /\ p = A \o <<y>> \o B
  BY <1>1, <1>5, <1>6
<1> HIDE DEF y
<1>9. /\ A \o <<x>> \o B \in Parts
      /\ Len(join(A \o <<x>> \o B, mark)) = room(A, mark) + Len(x) + room(B, mark)
  BY <1>2, <1>3, Around
<1>10. Len(join(A \o <<y>> \o B, mark)) = room(A, mark) + Len(y) + room(B, mark)
  BY <1>2, <1>3, <1>8, Around
<1>11. room(A, mark) \in Nat /\ room(B, mark) \in Nat /\ Len(x) \in Nat /\ Len(y) \in Nat
  <2>1. ASSUME NEW C \in Seq(Text) PROVE room(C, mark) \in Nat
    <3>1. C # <<>> => join(C, mark) \in Text
      BY JoinType DEF Parts
    <3> QED
      BY <3>1 DEF room, Text
  <2> QED
    BY <1>2, <1>3, <1>8, <2>1 DEF Text
<1>12. Len(join(q, mark)) = Len(join(p, mark)) + Len(x) - Len(y)
  <2>1. Len(join(q, mark)) = room(A, mark) + Len(x) + room(B, mark)
    BY <1>4, <1>9, Zenon
  <2>2. Len(join(p, mark)) = room(A, mark) + Len(y) + room(B, mark)
    BY <1>8, <1>10, Zenon
  <2> QED
    BY <1>11, <2>1, <2>2
<1>13. ASSUME \A i \in 1..Len(p) : free(p[i], mark)
       PROVE  split(join(q, mark), mark) = A \o split(x, mark) \o B
  <2>1. \A i \in 1..Len(A) : free(A[i], mark)
    <3> TAKE i \in 1..Len(A)
    <3>1. i \in 1..r - 1 /\ i \in 1..Len(p)
      BY <1>1, <1>2
    <3> QED
      BY <1>2, <1>13, <3>1
  <2>2. \A i \in 1..Len(B) : free(B[i], mark)
    <3> TAKE i \in 1..Len(B)
    <3>1. i \in 1..Len(p) - (r + 1) + 1 /\ r + 1 + i - 1 \in 1..Len(p)
      BY <1>1, <1>3
    <3> QED
      BY <1>3, <1>13, <3>1
  <2>3. split(join(A \o <<x>> \o B, mark), mark) = A \o split(x, mark) \o B
    BY <1>2, <1>3, <2>1, <2>2, Around
  <2> QED
    BY <1>4, <2>3, Zenon
<1>14. q \in Parts
  BY <1>4, <1>9, Zenon
<1> QED
  BY <1>7, <1>12, <1>13, <1>14 DEF A, B, q, y, put, spliced

(* Around, for a part that moves the ones behind.                          *)
LEMMA InsertedText ==
  ASSUME NEW p \in Parts, NEW r \in 1..Len(p) + 1, NEW x \in Text,
         NEW mark \in Byte
  PROVE  /\ InsertAt(p, r, x) \in Parts
         /\ Len(InsertAt(p, r, x)) = Len(p) + 1
         /\ \A i \in 1..Len(p) + 1 :
              InsertAt(p, r, x)[i] = IF i < r THEN p[i]
                                     ELSE IF i = r THEN x ELSE p[i - 1]
         /\ Len(join(InsertAt(p, r, x), mark)) =
              Len(join(p, mark)) + Len(x) + 1
         /\ (\A i \in 1..Len(p) : free(p[i], mark)) =>
              split(join(InsertAt(p, r, x), mark), mark) =
                spliced(p, r, split(x, mark), 0)
<1> DEFINE A == SubSeq(p, 1, r - 1)
           B == SubSeq(p, r, Len(p))
           q == InsertAt(p, r, x)
<1>1. p \in Seq(Text) /\ Len(p) \in Nat \ {0} /\ r \in Nat /\ Len(x) \in Nat
  BY EmptySeq DEF Parts, Text
<1>2. /\ A \in Seq(Text) /\ Len(A) = r - 1
      /\ \A i \in 1..r - 1 : A[i] = p[i]
      /\ B \in Seq(Text) /\ Len(B) = Len(p) - r + 1
      /\ \A i \in 1..Len(p) - r + 1 : B[i] = p[r + i - 1]
      /\ p = A \o B
  BY <1>1, CutAt
<1>3. q = A \o <<x>> \o B
  BY DEF InsertAt
<1> HIDE DEF A, B, q, spliced
<1>4. /\ A \o <<x>> \o B \in Parts
      /\ Len(join(A \o <<x>> \o B, mark)) = room(A, mark) + Len(x) + room(B, mark)
  BY <1>2, Around
<1>5. room(A, mark) + room(B, mark) = Len(join(p, mark)) + 1
      /\ room(A, mark) \in Nat /\ room(B, mark) \in Nat
  <2>1. join(p, mark) \in Text
    BY JoinType
  <2>2. Len(join(p, mark)) \in Nat
    BY <2>1 DEF Text
  <2>3. CASE A = <<>>
    <3>1. B = p /\ B # <<>>
      BY <1>1, <1>2, <2>3, ConcatEmptySeq
    <3>2. room(A, mark) = 0 /\ room(B, mark) = Len(join(p, mark)) + 1
      BY <2>3, <3>1 DEF room
    <3> QED
      BY <2>2, <3>2
  <2>4. CASE B = <<>>
    <3>1. A = p /\ A # <<>>
      BY <1>1, <1>2, <2>4, ConcatEmptySeq
    <3>2. room(B, mark) = 0 /\ room(A, mark) = Len(join(p, mark)) + 1
      BY <2>4, <3>1 DEF room
    <3> QED
      BY <2>2, <3>2
  <2>5. CASE A # <<>> /\ B # <<>>
    <3> DEFINE a == join(A, mark)
               b == join(B, mark)
    <3>1. A \in Parts /\ B \in Parts
      BY <1>2, <2>5 DEF Parts
    <3>2. a \in Text /\ b \in Text
      BY <3>1, JoinType
    <3>3. join(p, mark) = behind(a, mark, b)
      BY <1>2, <3>1, JoinConcat
    <3>4. room(A, mark) = Len(a) + 1 /\ room(B, mark) = Len(b) + 1
      BY <2>5 DEF room
    <3> HIDE DEF a, b
    <3>5. Len(behind(a, mark, b)) = Len(a) + Len(b) + 1
      BY <3>2, BehindType
    <3>6. Len(a) \in Nat /\ Len(b) \in Nat
      BY <3>2 DEF Text
    <3> QED
      BY <3>3, <3>4, <3>5, <3>6
  <2> QED
    BY <2>3, <2>4, <2>5
<1>6. Len(join(q, mark)) = Len(join(p, mark)) + Len(x) + 1
  <2>1. Len(join(q, mark)) = room(A, mark) + Len(x) + room(B, mark)
    BY <1>3, <1>4, Zenon
  <2>2. join(p, mark) \in Text
    BY JoinType
  <2>3. Len(join(p, mark)) \in Nat
    BY <2>2 DEF Text
  <2> QED
    BY <1>1, <1>5, <2>1, <2>3
<1>7. /\ A \o <<x>> \o B \in Seq(Text)
      /\ Len(A \o <<x>> \o B) = Len(A) + Len(B) + 1
      /\ \A i \in 1..Len(A) + Len(B) + 1 :
           (A \o <<x>> \o B)[i] = IF i <= Len(A) THEN A[i]
                                  ELSE IF i = Len(A) + 1 THEN x
                                  ELSE B[i - Len(A) - 1]
  <2>1. InPlace(A \o <<x>> \o B, A, x, B)
    BY <1>2, AtPlace
  <2> QED
    BY <2>1, Zenon DEF InPlace
<1>8. Len(A) + Len(B) + 1 = Len(p) + 1
  BY <1>1, <1>2
<1>9. Len(q) = Len(p) + 1
  BY <1>3, <1>7, <1>8
<1>10. ASSUME NEW i \in 1..Len(p) + 1
       PROVE  q[i] = IF i < r THEN p[i] ELSE IF i = r THEN x ELSE p[i - 1]
  <2>1. i \in 1..Len(A) + Len(B) + 1 /\ i \in Nat
    BY <1>8
  <2>2. CASE i < r
    <3>1. i \in 1..r - 1 /\ i <= Len(A)
      BY <1>1, <1>2, <2>1, <2>2
    <3> QED
      BY <1>2, <1>3, <1>7, <2>1, <2>2, <3>1
  <2>3. CASE i = r
    <3>1. ~(i <= Len(A)) /\ i = Len(A) + 1 /\ ~(i < r)
      BY <1>1, <1>2, <2>3
    <3> QED
      BY <1>3, <1>7, <2>1, <2>3, <3>1
  <2>4. CASE ~(i < r) /\ i # r
    <3> DEFINE j == i - Len(A) - 1
    <3>1. /\ ~(i <= Len(A)) /\ i # Len(A) + 1
          /\ j \in 1..Len(p) - r + 1 /\ r + j - 1 = i - 1
      BY <1>1, <1>2, <2>1, <2>4
    <3>2. B[j] = p[i - 1]
      BY <1>2, <3>1
    <3>3. q[i] = B[j]
      BY <1>3, <1>7, <2>1, <3>1
    <3> QED
      BY <2>4, <3>2, <3>3
  <2> QED
    BY <2>2, <2>3, <2>4
<1>11. ASSUME \A i \in 1..Len(p) : free(p[i], mark)
       PROVE  split(join(q, mark), mark) = A \o split(x, mark) \o B
  <2>1. \A i \in 1..Len(A) : free(A[i], mark)
    <3> TAKE i \in 1..Len(A)
    <3>1. i \in 1..r - 1 /\ i \in 1..Len(p)
      BY <1>1, <1>2
    <3> QED
      BY <1>2, <1>11, <3>1
  <2>2. \A i \in 1..Len(B) : free(B[i], mark)
    <3> TAKE i \in 1..Len(B)
    <3>1. i \in 1..Len(p) - r + 1 /\ r + i - 1 \in 1..Len(p)
      BY <1>1, <1>2
    <3> QED
      BY <1>2, <1>11, <3>1
  <2>3. split(join(A \o <<x>> \o B, mark), mark) = A \o split(x, mark) \o B
    BY <1>2, <2>1, <2>2, Around
  <2> QED
    BY <1>3, <2>3, Zenon
<1>12. q \in Parts
  BY <1>3, <1>4, Zenon
<1> QED
  <2>1. r + 0 = r
    BY <1>1
  <2> QED
    BY <1>6, <1>9, <1>10, <1>11, <1>12, <2>1, Zenon DEF A, B, q, spliced

-----------------------------------------------------------------------------
(* The two fields of a content. *)

(* The marks are three bytes.                                              *)
LEMMA MarksDiffer ==
  /\ subvalue_mark \in Byte /\ value_mark \in Byte /\ field_mark \in Byte
  /\ subvalue_mark # value_mark /\ value_mark # field_mark
  /\ subvalue_mark # field_mark
BY DEF subvalue_mark, value_mark, field_mark, Byte

fields_of(s) == split(s, field_mark)

(* The values of a field are the parts of it, and hold no mark.            *)
LEMMA ValuesType ==
  ASSUME NEW s \in Text, NEW field
  PROVE  /\ fields_of(s) \in Parts
         /\ part(fields_of(s), field) \in Text
         /\ free(part(fields_of(s), field), field_mark)
         /\ values_of(s, field) = split(part(fields_of(s), field), value_mark)
         /\ values_of(s, field) \in Parts
         /\ join(values_of(s, field), value_mark) = part(fields_of(s), field)
         /\ \A i \in 1..Len(values_of(s, field)) :
              /\ free(values_of(s, field)[i], value_mark)
              /\ free(values_of(s, field)[i], field_mark)
<1> DEFINE F == fields_of(s)
           y == part(F, field)
           v == split(y, value_mark)
<1>1. F \in Parts /\ F \in Seq(Text)
  BY SplitType DEF Parts, fields_of
<1>2. y \in Text
  BY <1>1, PartType
<1>3. free(y, field_mark)
  <2>1. CASE field \in 1..Len(F)
    <3>1. y = F[field]
      BY <1>1, <2>1, PartType
    <3>2. free(F[field], field_mark)
      BY <2>1, SplitParts DEF fields_of
    <3> QED
      BY <3>1, <3>2, Zenon
  <2>2. CASE field \notin 1..Len(F)
    <3>1. y = <<>>
      BY <1>1, <2>2, PartType
    <3>2. free(<<>>, field_mark)
      BY DEF free
    <3> QED
      BY <3>1, <3>2, Zenon
  <2> QED
    BY <2>1, <2>2
<1>4. values_of(s, field) = v
  BY DEF values_of, fields_of
<1> HIDE DEF y
<1>5. v \in Parts
  BY <1>2, SplitType
<1>6. join(v, value_mark) = y
  BY <1>2, MarksDiffer, JoinSplit
<1>7. \A i \in 1..Len(v) : free(v[i], value_mark)
  BY <1>2, SplitParts
<1> HIDE DEF v
<1>8. free(join(v, value_mark), field_mark)
  BY <1>3, <1>6, Zenon
<1>9. \A i \in 1..Len(v) : free(v[i], field_mark)
  BY <1>5, <1>8, MarksDiffer, FreeOfParts
<1> QED
  BY <1>1, <1>2, <1>3, <1>4, <1>5, <1>6, <1>7, <1>9, Zenon DEF v, y

(* What with_values does to a content.                                     *)
LEMMA WithValues ==
  ASSUME NEW s \in Text, NEW field \in 1..2, NEW parts \in Parts
  PROVE  /\ join(parts, value_mark) \in Text
         /\ padded(fields_of(s), field) \in Parts
         /\ with_values(s, field, parts) \in Text
         /\ Len(with_values(s, field, parts)) =
              Len(s)
                + (Len(padded(fields_of(s), field)) - Len(fields_of(s)))
                + Len(join(parts, value_mark)) - Len(part(fields_of(s), field))
         /\ fields_of(with_values(s, field, parts)) =
              spliced(padded(fields_of(s), field), field,
                      fields_of(join(parts, value_mark)), 1)
<1> DEFINE F == fields_of(s)
           R == with_values(s, field, parts)
           J == join(parts, value_mark)
           P == padded(F, field)
<1>1. F \in Parts /\ field \in Nat
  BY ValuesType
<1>2. /\ P \in Parts /\ Len(P) = IF field <= Len(F) THEN Len(F) ELSE field
      /\ \A i \in 1..Len(P) : P[i] = part(F, i)
  BY <1>1, PaddedType
<1>3. J \in Text
  BY MarksDiffer, JoinType
<1>4. field \in 1..Len(P)
  <2>1. Len(F) \in Nat
    BY <1>1 DEF Parts
  <2> QED
    BY <1>1, <1>2, <2>1
<1>5. R = join(put(P, field, J), field_mark)
  BY DEF with_values, fields_of, put
<1> HIDE DEF J, P
<1>6. \A i \in 1..Len(P) : free(P[i], field_mark)
  <2> TAKE i \in 1..Len(P)
  <2>1. free(part(F, i), field_mark)
    BY ValuesType
  <2> QED
    BY <1>2, <2>1
<1>7. /\ put(P, field, J) \in Parts
      /\ Len(join(put(P, field, J), field_mark)) =
           Len(join(P, field_mark)) + Len(J) - Len(P[field])
      /\ split(join(put(P, field, J), field_mark), field_mark) =
           spliced(P, field, split(J, field_mark), 1)
  <2>1. field_mark \in Byte /\ P \in Parts
    BY <1>2, MarksDiffer
  <2> QED
    BY <1>3, <1>4, <1>6, <2>1, ReplacedText
<1>8. R \in Text
  BY <1>5, <1>7, MarksDiffer, JoinType
<1>9. Len(join(P, field_mark)) = Len(join(F, field_mark)) + Len(P) - Len(F)
  BY <1>1, MarksDiffer, PaddedLength DEF P
<1>10. join(F, field_mark) = s
  BY MarksDiffer, JoinSplit DEF fields_of
<1>11. Len(R) = Len(s) + (Len(P) - Len(F)) + Len(J) - Len(part(F, field))
  <2>1. /\ Len(P) \in Nat /\ Len(F) \in Nat /\ Len(J) \in Nat /\ Len(s) \in Nat
        /\ part(F, field) \in Text
    BY <1>1, <1>2, <1>3, ValuesType DEF Parts, Text
  <2>2. Len(part(F, field)) \in Nat
    BY <2>1 DEF Text
  <2>3. P[field] = part(F, field)
    BY <1>2, <1>4
  <2>4. Len(R) = Len(join(P, field_mark)) + Len(J) - Len(part(F, field))
    BY <1>5, <1>7, <2>3, Zenon
  <2>5. Len(join(P, field_mark)) = Len(s) + Len(P) - Len(F)
    BY <1>9, <1>10, Zenon
  <2> HIDE DEF F, R
  <2> QED
    BY <2>1, <2>2, <2>4, <2>5
<1> QED
  BY <1>2, <1>3, <1>4, <1>5, <1>7, <1>8, <1>11, Zenon DEF fields_of, J, P

(* R is s with a text J put in field 1: a field mark in it cuts it.        *)
PutInNames(s, J, R) ==
  /\ J \in Text /\ R \in Text
  /\ Len(R) = Len(s) + Len(J) - Len(part(fields_of(s), 1))
  /\ Len(fields_of(R)) = Len(fields_of(J)) + Len(fields_of(s)) - 1
  /\ values_of(R, 1) = split(fields_of(J)[1], value_mark)
  /\ ~(Len(fields_of(J)) >= 2) => values_of(R, 2) = values_of(s, 2)
  /\ Len(fields_of(J)) >= 2 =>
       values_of(R, 2) = split(fields_of(J)[2], value_mark)

(* What with_values does in field 1, when the new text may hold marks.     *)
LEMMA NamesPut ==
  ASSUME NEW s \in Text, NEW parts \in Parts,
         NEW J, J = join(parts, value_mark),
         NEW R, R = with_values(s, 1, parts)
  PROVE  PutInNames(s, J, R)
<1> DEFINE F == fields_of(s)
           G == fields_of(J)
           H == fields_of(R)
           P == padded(F, 1)
           B == SubSeq(P, 1 + 1, Len(P))
<1>1. F \in Parts /\ Len(F) \in Nat \ {0}
  <2>1. F \in Parts
    BY ValuesType
  <2> QED
    BY <2>1, EmptySeq DEF Parts
<1>2. P = F
  BY <1>1, PaddedType
<1>3. /\ J \in Text /\ R \in Text
      /\ Len(R) = Len(s) + (Len(P) - Len(F)) + Len(J) - Len(part(F, 1))
      /\ H = spliced(P, 1, G, 1)
  <2>1. 1 \in 1..2
    OBVIOUS
  <2>2. P = padded(fields_of(s), 1) /\ J = join(parts, value_mark)
    OBVIOUS
  <2> HIDE DEF P, F, G, H
  <2>3. /\ J \in Text /\ with_values(s, 1, parts) \in Text
        /\ Len(with_values(s, 1, parts)) =
             Len(s) + (Len(P) - Len(fields_of(s))) + Len(J) - Len(part(fields_of(s), 1))
        /\ fields_of(with_values(s, 1, parts)) = spliced(P, 1, fields_of(J), 1)
    BY <2>1, <2>2, WithValues, Zenon
  <2> QED
    BY <2>3, Zenon DEF F, G, H
<1>4. G \in Parts /\ H \in Parts /\ part(F, 1) \in Text
  BY <1>3, ValuesType
<1>5. G \in Seq(Text) /\ Len(G) \in Nat \ {0} /\ F \in Seq(Text) /\ H \in Seq(Text)
  BY <1>1, <1>4, EmptySeq DEF Parts
<1> HIDE DEF G, H, F
<1>6. /\ B \in Seq(Text) /\ Len(B) = Len(F) - (1 + 1) + 1
      /\ \A i \in 1..Len(F) - (1 + 1) + 1 : B[i] = F[1 + 1 + i - 1]
  <2>1. 1 + 1 \in 1..Len(F) + 1
    BY <1>1
  <2> DEFINE C == SubSeq(F, 1 + 1, Len(F))
  <2>2. /\ C \in Seq(Text) /\ Len(C) = Len(F) - (1 + 1) + 1
        /\ \A i \in 1..Len(F) - (1 + 1) + 1 : C[i] = F[1 + 1 + i - 1]
    BY <1>1, <1>5, <2>1, CutAt
  <2>3. B = C
    BY <1>2, Zenon
  <2> QED
    BY <2>2, <2>3, Zenon
<1>7. SubSeq(P, 1, 1 - 1) = <<>>
  <2>1. 1 - 1 \in Int /\ 1 - 1 < 1
    OBVIOUS
  <2> QED
    BY <2>1, SubSeqEmpty
<1> HIDE DEF P, B
<1>8. H = G \o B
  <2>1. <<>> \o G = G
    BY <1>5, ConcatEmptySeq
  <2>2. H = SubSeq(P, 1, 1 - 1) \o G \o B
    BY <1>3, Zenon DEF spliced, B
  <2> QED
    BY <1>7, <2>1, <2>2, Zenon
<1>9. /\ Len(H) = Len(G) + Len(B)
      /\ \A i \in 1..Len(G) + Len(B) :
           H[i] = IF i <= Len(G) THEN G[i] ELSE B[i - Len(G)]
  BY <1>5, <1>6, <1>8, ConcatProperties
<1>10. Len(H) = Len(G) + Len(F) - 1
  BY <1>1, <1>5, <1>6, <1>9
<1>11. Len(R) = Len(s) + Len(J) - Len(part(F, 1))
  <2>1. Len(P) = Len(F)
    BY <1>2
  <2>2. Len(s) \in Nat /\ Len(J) \in Nat /\ Len(part(F, 1)) \in Nat
    BY <1>3, <1>4 DEF Text
  <2> QED
    BY <1>1, <1>3, <2>1, <2>2
<1>12. part(H, 1) = G[1]
  <2>1. 1 \in 1..Len(H) /\ 1 \in 1..Len(G) + Len(B) /\ 1 <= Len(G)
    BY <1>1, <1>5, <1>6, <1>9, <1>10
  <2> QED
    BY <1>5, <1>9, <2>1, PartType
<1>13. ASSUME Len(G) = 1 PROVE part(H, 2) = part(F, 2)
  <2>1. Len(H) = Len(F) /\ Len(G) + Len(B) = Len(F)
    BY <1>1, <1>10, <1>13, <1>9
  <2>2. CASE Len(F) = 1
    <3>1. 2 \notin 1..Len(H) /\ 2 \notin 1..Len(F)
      BY <2>1, <2>2
    <3> QED
      BY <1>5, <3>1, PartType
  <2>3. CASE Len(F) # 1
    <3>1. /\ 2 \in 1..Len(H) /\ 2 \in 1..Len(F) /\ 2 \in 1..Len(G) + Len(B)
          /\ ~(2 <= Len(G)) /\ 2 - Len(G) = 1
          /\ 1 \in 1..Len(F) - (1 + 1) + 1 /\ 1 + 1 + 1 - 1 = 2
      BY <1>1, <1>13, <2>1, <2>3
    <3>2. H[2] = B[1]
      BY <1>9, <3>1
    <3>3. B[1] = F[2]
      BY <1>6, <3>1
    <3>4. part(H, 2) = H[2] /\ part(F, 2) = F[2]
      BY <1>5, <3>1, PartType
    <3> QED
      BY <3>2, <3>3, <3>4
  <2> QED
    BY <2>2, <2>3
<1>14. ASSUME Len(G) >= 2 PROVE part(H, 2) = G[2]
  <2>1. 2 \in 1..Len(H) /\ 2 \in 1..Len(G) + Len(B) /\ 2 <= Len(G)
    BY <1>1, <1>5, <1>6, <1>9, <1>14
  <2> QED
    BY <1>5, <1>9, <2>1, PartType
<1>15. /\ values_of(R, 1) = split(part(H, 1), value_mark)
       /\ values_of(R, 2) = split(part(H, 2), value_mark)
       /\ values_of(s, 2) = split(part(F, 2), value_mark)
  BY <1>3, ValuesType DEF F, H
<1>16. values_of(R, 1) = split(G[1], value_mark)
  BY <1>12, <1>15
<1>17. ~(Len(G) >= 2) => values_of(R, 2) = values_of(s, 2)
  <2>1. Len(G) = 1 => values_of(R, 2) = values_of(s, 2)
    BY <1>13, <1>15
  <2> QED
    BY <1>5, <2>1, OneOrMore, Zenon
<1>18. Len(G) >= 2 => values_of(R, 2) = split(G[2], value_mark)
  BY <1>14, <1>15
<1> QED
  BY <1>3, <1>10, <1>11, <1>16, <1>17, <1>18, Zenon DEF G, H, F, PutInNames

(* R is s with a text J put in field 2, which is added if it is not there. *)
PutInValues(s, J, R) ==
  /\ J \in Text /\ R \in Text
  /\ Len(R) = Len(s) + (IF Len(fields_of(s)) >= 2 THEN 0 ELSE 1)
                + Len(J) - Len(part(fields_of(s), 2))
  /\ Len(fields_of(R)) = Len(fields_of(J)) - 1
       + IF Len(fields_of(s)) >= 2 THEN Len(fields_of(s)) ELSE 2
  /\ values_of(R, 1) = values_of(s, 1)
  /\ values_of(R, 2) = split(fields_of(J)[1], value_mark)

(* What with_values does in field 2, when the new text may hold marks.     *)
LEMMA ValuesPut ==
  ASSUME NEW s \in Text, NEW parts \in Parts,
         NEW J, J = join(parts, value_mark),
         NEW R, R = with_values(s, 2, parts)
  PROVE  PutInValues(s, J, R)
<1> DEFINE F == fields_of(s)
           G == fields_of(J)
           H == fields_of(R)
           P == padded(F, 2)
           A == SubSeq(P, 1, 2 - 1)
           B == SubSeq(P, 2 + 1, Len(P))
<1>1. F \in Parts /\ Len(F) \in Nat \ {0}
  <2>1. F \in Parts
    BY ValuesType
  <2> QED
    BY <2>1, EmptySeq DEF Parts
<1>2. /\ P \in Parts /\ Len(P) = IF 2 <= Len(F) THEN Len(F) ELSE 2
      /\ \A i \in 1..Len(P) : P[i] = part(F, i)
  BY <1>1, PaddedType
<1>3. /\ J \in Text /\ R \in Text
      /\ Len(R) = Len(s) + (Len(P) - Len(F)) + Len(J) - Len(part(F, 2))
      /\ H = spliced(P, 2, G, 1)
  <2>1. 2 \in 1..2
    OBVIOUS
  <2>2. P = padded(fields_of(s), 2) /\ J = join(parts, value_mark)
    OBVIOUS
  <2> HIDE DEF P, F, G, H
  <2>3. /\ J \in Text /\ with_values(s, 2, parts) \in Text
        /\ Len(with_values(s, 2, parts)) =
             Len(s) + (Len(P) - Len(fields_of(s))) + Len(J) - Len(part(fields_of(s), 2))
        /\ fields_of(with_values(s, 2, parts)) = spliced(P, 2, fields_of(J), 1)
    BY <2>1, <2>2, WithValues, Zenon
  <2> QED
    BY <2>3, Zenon DEF F, G, H
<1>4. G \in Parts /\ H \in Parts /\ part(F, 2) \in Text
  BY <1>3, ValuesType
<1>5. /\ G \in Seq(Text) /\ Len(G) \in Nat \ {0} /\ F \in Seq(Text)
      /\ H \in Seq(Text) /\ P \in Seq(Text)
  BY <1>1, <1>2, <1>4, EmptySeq DEF Parts
<1> HIDE DEF G, H, F, P
<1>6. Len(P) \in Nat /\ Len(P) >= 2 /\ 2 \in 1..Len(P) + 1 /\ 2 + 1 \in 1..Len(P) + 1
  BY <1>1, <1>2
<1>7. /\ A \in Seq(Text) /\ Len(A) = 2 - 1 /\ \A i \in 1..2 - 1 : A[i] = P[i]
  BY <1>5, <1>6, CutAt
<1>8. B \in Seq(Text) /\ Len(B) = Len(P) - (2 + 1) + 1
  BY <1>5, <1>6, CutAt
<1> HIDE DEF A, B
<1> DEFINE C == A \o G
<1>9. /\ C \in Seq(Text) /\ Len(C) = Len(A) + Len(G)
      /\ \A i \in 1..Len(A) + Len(G) :
           C[i] = IF i <= Len(A) THEN A[i] ELSE G[i - Len(A)]
  BY <1>5, <1>7, ConcatProperties
<1> HIDE DEF C
<1>10. C \in Seq(Text) /\ H = C \o B
  BY <1>3, <1>9, Zenon DEF A, B, C, spliced
<1>11. /\ Len(H) = Len(C) + Len(B)
       /\ \A i \in 1..Len(C) + Len(B) :
            H[i] = IF i <= Len(C) THEN C[i] ELSE B[i - Len(C)]
  BY <1>8, <1>10, ConcatProperties
<1>12. Len(A) = 1 /\ A[1] = P[1]
  <2>1. 1 \in 1..2 - 1
    OBVIOUS
  <2> QED
    BY <1>7, <2>1
<1>13. Len(H) = Len(G) - 1 + Len(P) /\ Len(C) = 1 + Len(G)
  BY <1>5, <1>6, <1>8, <1>9, <1>11, <1>12
<1>14. part(H, 1) = part(F, 1)
  <2>1. /\ 1 \in 1..Len(H) /\ 1 \in 1..Len(C) + Len(B) /\ 1 <= Len(C)
        /\ 1 \in 1..Len(A) + Len(G) /\ 1 <= Len(A) /\ 1 \in 1..Len(P)
    BY <1>5, <1>6, <1>8, <1>11, <1>12, <1>13
  <2>2. H[1] = C[1]
    BY <1>11, <2>1
  <2>3. C[1] = A[1]
    BY <1>9, <2>1
  <2>4. P[1] = part(F, 1)
    BY <1>2, <2>1
  <2>5. part(H, 1) = H[1]
    BY <1>5, <2>1, PartType
  <2> QED
    BY <1>12, <2>2, <2>3, <2>4, <2>5
<1>15. part(H, 2) = G[1]
  <2>1. /\ 2 \in 1..Len(H) /\ 2 \in 1..Len(C) + Len(B) /\ 2 <= Len(C)
        /\ 2 \in 1..Len(A) + Len(G) /\ ~(2 <= Len(A)) /\ 2 - Len(A) = 1
    BY <1>5, <1>6, <1>8, <1>11, <1>12, <1>13
  <2>2. H[2] = C[2]
    BY <1>11, <2>1
  <2>3. C[2] = G[1]
    BY <1>9, <2>1
  <2>4. part(H, 2) = H[2]
    BY <1>5, <2>1, PartType
  <2> QED
    BY <2>2, <2>3, <2>4
<1>16. Len(R) = Len(s) + (IF Len(F) >= 2 THEN 0 ELSE 1) + Len(J) - Len(part(F, 2))
  <2>1. Len(s) \in Nat /\ Len(J) \in Nat /\ Len(part(F, 2)) \in Nat
    BY <1>3, <1>4 DEF Text
  <2>2. Len(P) - Len(F) = IF Len(F) >= 2 THEN 0 ELSE 1
    BY <1>1, <1>2
  <2> QED
    BY <1>1, <1>3, <1>6, <2>1, <2>2
<1>17. Len(H) = Len(G) - 1 + IF Len(F) >= 2 THEN Len(F) ELSE 2
  BY <1>1, <1>2, <1>5, <1>13
<1>18. /\ values_of(R, 1) = split(part(H, 1), value_mark)
       /\ values_of(R, 2) = split(part(H, 2), value_mark)
       /\ values_of(s, 1) = split(part(F, 1), value_mark)
  BY <1>3, ValuesType DEF F, H
<1>19. values_of(R, 1) = values_of(s, 1)
  BY <1>14, <1>18
<1>20. values_of(R, 2) = split(G[1], value_mark)
  BY <1>15, <1>18
<1> QED
  BY <1>3, <1>16, <1>17, <1>19, <1>20, Zenon DEF G, H, F, PutInValues

-----------------------------------------------------------------------------
(* The order of names. *)

(* A set of numbers has a least one.                                       *)
LEMMA LeastNumber ==
  ASSUME NEW S \in SUBSET Nat, S # {}
  PROVE  Min(S) \in S /\ \A y \in S : Min(S) <= y
<1> DEFINE R == {ss \in Nat \X Nat : ss[1] < ss[2]}
<1>1. IsWellFoundedOn(R, Nat)
  BY NatLessThanWellFounded DEF OpToRel
<1> HIDE DEF R
<1>2. PICK x \in S : \A y \in S : ~ (<<y, x>> \in R)
  BY <1>1, WFMin
<1>3. ASSUME NEW y \in S PROVE x <= y
  <2>1. x \in Nat /\ y \in Nat
    OBVIOUS
  <2>2. ~(y < x)
    <3>1. <<y, x>> \in Nat \X Nat /\ <<y, x>>[1] = y /\ <<y, x>>[2] = x
      BY <2>1
    <3> QED
      BY <1>2, <3>1, Zenon DEF R
  <2> QED
    BY <2>1, <2>2
<1> QED
  BY <1>3 DEF Min

(* precedes byte by byte.                                                  *)
LEMMA PrecedesAt ==
  ASSUME NEW a \in Text, NEW b \in Text
  PROVE  precedes(a, b) <=>
           \E n \in 0..Len(a) :
             /\ n < Len(b) /\ \A i \in 1..n : a[i] = b[i]
             /\ n = Len(a) \/ a[n + 1] < b[n + 1]
<1>1. a \in Seq(Byte) /\ b \in Seq(Byte) /\ Len(a) \in Nat /\ Len(b) \in Nat
  BY DEF Text, Byte
<1>2. ASSUME NEW n \in 0..Len(a), n < Len(b)
      PROVE  SubSeq(a, 1, n) = SubSeq(b, 1, n) <=> \A i \in 1..n : a[i] = b[i]
  <2>1. /\ SubSeq(a, 1, n) = [i \in 1..n |-> a[i]]
        /\ SubSeq(b, 1, n) = [i \in 1..n |-> b[i]]
    BY <1>1, <1>2
  <2> QED
    BY <2>1
<1> QED
  BY <1>2 DEF precedes

(* Bytes are numbers.                                                      *)
LEMMA ByteOfText ==
  ASSUME NEW a \in Text
  PROVE  Len(a) \in Nat /\ \A i \in 1..Len(a) : a[i] \in Nat
<1>1. a \in Seq(Byte)
  BY DEF Text, Byte
<1>2. Len(a) \in Nat /\ \A i \in 1..Len(a) : a[i] \in Byte
  BY <1>1
<1>3. Byte \subseteq Nat
  BY DEF Byte
<1> QED
  BY <1>2, <1>3

(* The order is strict and total.                                          *)
LEMMA PrecedesOrder ==
  ASSUME NEW a \in Text, NEW b \in Text
  PROVE  /\ ~precedes(a, a)
         /\ precedes(a, b) \/ precedes(b, a) \/ a = b
         /\ \A c \in Text : precedes(a, b) /\ precedes(b, c) => precedes(a, c)
<1>1. a \in Seq(Byte) /\ b \in Seq(Byte) /\ Len(a) \in Nat /\ Len(b) \in Nat
  BY DEF Text, Byte
<1>2. /\ \A i \in 1..Len(a) : a[i] \in Nat
      /\ \A i \in 1..Len(b) : b[i] \in Nat
  BY ByteOfText
<1>3. ~precedes(a, a)
  BY <1>1, <1>2, PrecedesAt
<1>4. ASSUME a # b, ~precedes(b, a) PROVE precedes(a, b)
  <2> DEFINE D == {i \in Nat \ {0} : i > Len(a) \/ i > Len(b) \/ a[i] # b[i]}
  <2>1. D \in SUBSET Nat /\ Len(a) + 1 \in D
    BY <1>1
  <2>2. PICK m \in D : \A i \in D : m <= i
    <3>1. D # {}
      BY <2>1
    <3> HIDE DEF D
    <3>2. Min(D) \in D /\ \A i \in D : Min(D) <= i
      BY <2>1, <3>1, LeastNumber, Zenon
    <3> QED
      BY <3>2, Zenon
  <2> DEFINE n == m - 1
  <2>3. /\ m \in Nat \ {0} /\ m <= Len(a) + 1 /\ n \in Nat
        /\ m > Len(a) \/ m > Len(b) \/ a[m] # b[m]
    BY <2>1, <2>2
  <2>4. ASSUME NEW i \in 1..n PROVE i <= Len(a) /\ i <= Len(b) /\ a[i] = b[i]
    <3>1. i \in Nat \ {0} /\ ~(m <= i)
      BY <2>3
    <3>2. i \notin D
      BY <2>2, <3>1
    <3> QED
      BY <1>1, <3>1, <3>2
  <2> HIDE DEF D
  <2>5. n <= Len(a) /\ n <= Len(b)
    <3>1. CASE n = 0
      BY <1>1, <3>1
    <3>2. CASE n # 0
      <4>1. n \in 1..n
        BY <2>3, <3>2
      <4> QED
        BY <2>4, <4>1
    <3> QED
      BY <3>1, <3>2
  <2>6. \A i \in 1..n : a[i] = b[i] /\ b[i] = a[i]
    BY <2>4
  <2>7. m = n + 1
    BY <2>3
  <2> HIDE DEF n
  <2>8. ASSUME n = Len(a), n = Len(b) PROVE FALSE
    BY <1>1, <1>4, <2>6, <2>8, SeqEqual
  <2>9. CASE n = Len(a)
    <3>1. n \in 0..Len(a) /\ n < Len(b)
      BY <1>1, <2>5, <2>8, <2>9
    <3> QED
      BY <2>6, <2>9, <3>1, PrecedesAt
  <2>10. CASE n = Len(b) /\ n # Len(a)
    <3>1. n \in 0..Len(b) /\ n < Len(a)
      BY <1>1, <2>5, <2>10
    <3> QED
      BY <1>4, <2>6, <2>10, <3>1, PrecedesAt
  <2>11. CASE n # Len(a) /\ n # Len(b)
    <3>1. /\ n \in 0..Len(a) /\ n \in 0..Len(b) /\ n < Len(a) /\ n < Len(b)
          /\ n + 1 \in 1..Len(a) /\ n + 1 \in 1..Len(b)
      BY <1>1, <2>3, <2>5, <2>7, <2>11
    <3>2. a[n + 1] # b[n + 1]
      BY <1>1, <2>3, <2>7, <3>1
    <3>3. a[n + 1] < b[n + 1] \/ b[n + 1] < a[n + 1]
      BY <1>2, <3>1, <3>2
    <3> QED
      BY <1>4, <2>6, <3>1, <3>3, PrecedesAt
  <2> QED
    BY <2>9, <2>10, <2>11
<1>5. ASSUME NEW c \in Text, precedes(a, b), precedes(b, c)
      PROVE  precedes(a, c)
  <2>1. Len(c) \in Nat /\ \A i \in 1..Len(c) : c[i] \in Nat
    BY ByteOfText
  <2>2. PICK n \in 0..Len(a) :
          /\ n < Len(b) /\ \A i \in 1..n : a[i] = b[i]
          /\ n = Len(a) \/ a[n + 1] < b[n + 1]
    BY <1>5, PrecedesAt
  <2>3. PICK k \in 0..Len(b) :
          /\ k < Len(c) /\ \A i \in 1..k : b[i] = c[i]
          /\ k = Len(b) \/ b[k + 1] < c[k + 1]
    BY <1>5, PrecedesAt
  <2>4. CASE n <= k
    <3>1. n < Len(c)
      BY <1>1, <2>1, <2>3, <2>4
    <3>2. \A i \in 1..n : a[i] = c[i]
      <4> TAKE i \in 1..n
      <4>1. i \in 1..k
        BY <1>1, <2>4
      <4> QED
        BY <2>2, <2>3, <4>1
    <3>3. n = Len(a) \/ a[n + 1] < c[n + 1]
      <4> SUFFICES ASSUME n # Len(a) PROVE a[n + 1] < c[n + 1]
        OBVIOUS
      <4>1. /\ n + 1 \in 1..Len(a) /\ n + 1 \in 1..Len(b) /\ n + 1 \in 1..Len(c)
            /\ a[n + 1] < b[n + 1]
        BY <1>1, <2>1, <2>2, <3>1
      <4>2. CASE n = k
        <5>1. b[n + 1] < c[n + 1]
          BY <1>1, <2>2, <2>3, <4>2
        <5> QED
          BY <1>2, <2>1, <4>1, <5>1
      <4>3. CASE n # k
        <5>1. n + 1 \in 1..k
          BY <1>1, <2>4, <4>3
        <5>2. b[n + 1] = c[n + 1]
          BY <2>3, <5>1
        <5> QED
          BY <4>1, <5>2
      <4> QED
        BY <4>2, <4>3
    <3> QED
      BY <3>1, <3>2, <3>3, PrecedesAt
  <2>5. CASE ~(n <= k)
    <3>1. /\ k \in 0..Len(a) /\ k + 1 \in 1..n /\ k # Len(b)
      BY <1>1, <2>2, <2>5
    <3>2. \A i \in 1..k : a[i] = c[i]
      <4> TAKE i \in 1..k
      <4>1. i \in 1..n
        BY <1>1, <2>5
      <4> QED
        BY <2>2, <2>3, <4>1
    <3>3. a[k + 1] < c[k + 1]
      BY <2>2, <2>3, <3>1
    <3> QED
      BY <2>3, <3>1, <3>2, <3>3, PrecedesAt
  <2> QED
    BY <2>4, <2>5
<1> QED
  BY <1>3, <1>4, <1>5

(* The empty text precedes all others, and none precedes it.              *)
LEMMA EmptyFirst ==
  ASSUME NEW b \in Text
  PROVE  b # <<>> => precedes(<<>>, b) /\ ~precedes(b, <<>>)
<1> SUFFICES ASSUME b # <<>>
             PROVE  precedes(<<>>, b) /\ ~precedes(b, <<>>)
  OBVIOUS
<1>1. Len(b) \in Nat /\ Len(b) > 0 /\ <<>> \in Text
  BY EmptySeq DEF Text
<1>2. precedes(<<>>, b)
  <2>1. /\ 0 \in 0..Len(<<>>) /\ 0 < Len(b) /\ 0 = Len(<<>>)
        /\ \A i \in 1..0 : <<>>[i] = b[i]
    BY <1>1
  <2> QED
    BY <1>1, <2>1, PrecedesAt
<1>3. ~precedes(b, <<>>)
  <2>1. ~\E n \in 0..Len(b) : n < Len(<<>>)
    BY <1>1
  <2> QED
    BY <1>1, <2>1, PrecedesAt
<1> QED
  BY <1>2, <1>3

(* Where the first name that does not precede it is, or behind the last.   *)
LEMMA Located ==
  ASSUME NEW K \in Parts, NEW name \in Text
  PROVE  LET r == Min({i \in DOMAIN K : ~precedes(K[i], name)}
                        \cup {Len(K) + 1}) IN
         /\ r \in 1..Len(K) + 1
         /\ \A i \in 1..r - 1 : precedes(K[i], name)
         /\ r <= Len(K) => ~precedes(K[r], name)
<1> DEFINE S == {i \in DOMAIN K : ~precedes(K[i], name)} \cup {Len(K) + 1}
           r == Min(S)
<1>1. DOMAIN K = 1..Len(K) /\ Len(K) \in Nat
  BY DEF Parts
<1>2. S \in SUBSET Nat /\ Len(K) + 1 \in S
  BY <1>1
<1>3. r \in S /\ \A i \in S : r <= i
  BY <1>2, LeastNumber
<1> HIDE DEF r
<1>4. r \in 1..Len(K) + 1 /\ (r <= Len(K) => ~precedes(K[r], name))
  BY <1>1, <1>3
<1>5. ASSUME NEW i \in 1..r - 1 PROVE precedes(K[i], name)
  BY <1>1, <1>3, <1>4
<1> QED
  BY <1>4, <1>5 DEF r

-----------------------------------------------------------------------------
(* QMIns and QMReplace. *)

(* What QMIns puts in the field, and QMReplace.                            *)
opened(s, field, r, new) ==
  IF part(fields_of(s), field) = <<>> /\ r = 1 THEN <<new>>
  ELSE InsertAt(padded(values_of(s, field), r - 1), r, new)

changed(s, field, r, new) == put(padded(values_of(s, field), r), r, new)

(* The two functions of the library put these parts in the field.          *)
LEMMA Library ==
  ASSUME NEW s, NEW field, NEW r, NEW new
  PROVE  /\ QMIns(s, field, r, new) = with_values(s, field, opened(s, field, r, new))
         /\ QMReplace(s, field, r, new) =
              with_values(s, field, changed(s, field, r, new))
BY DEF QMIns, QMReplace, opened, changed, fields_of, put

(* How many parts there are when part n is there.                          *)
reach(V, n) == IF n <= Len(V) THEN Len(V) ELSE n

(* Missing values, put where a value is to be put behind them, hold no     *)
(* mark.                                                                   *)
LEMMA PaddedValues ==
  ASSUME NEW s \in Text, NEW field, NEW n \in Nat
  PROVE  LET V == values_of(s, field)
             W == padded(V, n)
         IN  /\ V \in Parts /\ W \in Parts /\ Len(V) \in Nat \ {0}
             /\ Len(W) = IF n <= Len(V) THEN Len(V) ELSE n
             /\ \A i \in 1..Len(W) : /\ W[i] = part(V, i)
                                     /\ free(W[i], value_mark)
                                     /\ free(W[i], field_mark)
             /\ Len(join(W, value_mark)) =
                  Len(part(fields_of(s), field)) + Len(W) - Len(V)
<1> DEFINE V == values_of(s, field)
           W == padded(V, n)
<1>1. /\ V \in Parts /\ join(V, value_mark) = part(fields_of(s), field)
      /\ \A i \in 1..Len(V) : free(V[i], value_mark) /\ free(V[i], field_mark)
  BY ValuesType
<1> HIDE DEF V
<1>2. Len(V) \in Nat \ {0} /\ V \in Seq(Text)
  BY <1>1, EmptySeq DEF Parts
<1>3. /\ W \in Parts /\ Len(W) = IF n <= Len(V) THEN Len(V) ELSE n
      /\ \A i \in 1..Len(W) : W[i] = part(V, i)
  BY <1>1, PaddedType
<1>4. Len(join(W, value_mark)) = Len(join(V, value_mark)) + Len(W) - Len(V)
  BY <1>1, MarksDiffer, PaddedLength
<1>5. Len(join(W, value_mark)) =
        Len(part(fields_of(s), field)) + Len(W) - Len(V)
  BY <1>1, <1>4, Zenon
<1> HIDE DEF W
<1>6. ASSUME NEW i \in 1..Len(W)
      PROVE  free(W[i], value_mark) /\ free(W[i], field_mark)
  <2>1. W[i] = part(V, i)
    BY <1>3
  <2>2. CASE i \in 1..Len(V)
    BY <1>1, <1>2, <2>1, <2>2, PartType
  <2>3. CASE i \notin 1..Len(V)
    <3>1. W[i] = <<>>
      BY <1>2, <2>1, <2>3, PartType
    <3>2. free(<<>>, value_mark) /\ free(<<>>, field_mark)
      BY DEF free
    <3> QED
      BY <3>1, <3>2, Zenon
  <2> QED
    BY <2>2, <2>3
<1> QED
  BY <1>1, <1>2, <1>3, <1>5, <1>6, Zenon DEF V, W

(* A text without field marks is one field.                                *)
LEMMA OneField ==
  ASSUME NEW q \in Parts, \A i \in 1..Len(q) : free(q[i], field_mark)
  PROVE  fields_of(join(q, value_mark)) = <<join(q, value_mark)>>
<1>1. join(q, value_mark) \in Text /\ free(join(q, value_mark), field_mark)
  BY MarksDiffer, JoinType, FreeOfParts
<1> QED
  BY <1>1, SplitFree DEF fields_of

(* q is V, the values in y, with new at rank r: the ones from there on     *)
(* move, or are what was missing before. J is the text of q.               *)
Opens(q, V, y, r, new, J) ==
  /\ q \in Parts /\ r \in 1..Len(q)
  /\ y = <<>> /\ r = 1 => Len(q) = 1 /\ Len(J) = Len(new)
  /\ ~(y = <<>> /\ r = 1) =>
       /\ Len(q) = reach(V, r - 1) + 1
       /\ Len(J) = Len(y) + Len(q) - Len(V) + Len(new)
  /\ \A i \in 1..Len(q) : part(q, i) = IF i < r THEN part(V, i)
                                       ELSE IF i = r THEN new
                                       ELSE part(V, i - 1)
  /\ Len(split(J, value_mark)) <= reach(V, r - 1) + Len(new) + 1
  /\ \A i \in 1..Len(q) : i # r => /\ free(q[i], value_mark)
                                   /\ free(q[i], field_mark)

(* The parts that QMIns puts in a field, and the length of their text.     *)
LEMMA OpenedParts ==
  ASSUME NEW s \in Text, NEW field, NEW r \in Nat \ {0}, NEW new \in Text
  PROVE  Opens(opened(s, field, r, new), values_of(s, field),
               part(fields_of(s), field), r, new,
               join(opened(s, field, r, new), value_mark))
<1> DEFINE V == values_of(s, field)
           y == part(fields_of(s), field)
           q == opened(s, field, r, new)
           m == reach(V, r - 1)
           J == join(q, value_mark)
           W == padded(V, r - 1)
<1>1. /\ V \in Parts /\ W \in Parts /\ Len(V) \in Nat \ {0}
      /\ Len(W) = IF r - 1 <= Len(V) THEN Len(V) ELSE r - 1
      /\ \A i \in 1..Len(W) : /\ W[i] = part(V, i)
                              /\ free(W[i], value_mark)
                              /\ free(W[i], field_mark)
      /\ Len(join(W, value_mark)) = Len(y) + Len(W) - Len(V)
  <2>1. r - 1 \in Nat
    OBVIOUS
  <2> QED
    BY <2>1, PaddedValues, Zenon
<1>2. y \in Text /\ Len(y) \in Nat /\ Len(new) \in Nat
  BY ValuesType DEF Text
<1> HIDE DEF V, y, W
<1>3. Len(W) = m /\ m \in Nat /\ r \in 1..m + 1 /\ V \in Seq(Text) /\ W \in Seq(Text)
  BY <1>1 DEF Parts, reach
<1> HIDE DEF m
<1>4. Len(split(new, value_mark)) \in Nat /\ Len(split(new, value_mark)) <= Len(new) + 1
      /\ split(new, value_mark) \in Seq(Text)
  BY SplitType DEF Parts
<1>5. CASE y = <<>> /\ r = 1
  <2>1. q = <<new>>
    BY <1>5 DEF opened, y
  <2> HIDE DEF q
  <2>2. q \in Parts /\ Len(q) = 1 /\ q[1] = new
    BY <2>1 DEF Parts
  <2>3. J = new
    BY <2>1, JoinOne
  <2>4. part(q, 1) = new
    BY <2>2, PartType DEF Parts
  <2>5. Len(split(J, value_mark)) <= m + Len(new) + 1
    BY <1>2, <1>3, <1>4, <2>3
  <2>6. \A i \in 1..Len(q) : i = r
    BY <1>5, <2>2
  <2>7. r \in 1..Len(q)
    BY <1>5, <2>2
  <2>8. Len(J) = Len(new)
    BY <2>3
  <2>9. \A i \in 1..Len(q) : part(q, i) = IF i < r THEN part(V, i)
                                          ELSE IF i = r THEN new
                                          ELSE part(V, i - 1)
    BY <1>5, <2>4, <2>6
  <2> QED
    BY <1>5, <2>2, <2>5, <2>6, <2>7, <2>8, <2>9 DEF V, y, m, q, Opens
<1>6. CASE ~(y = <<>> /\ r = 1)
  <2>1. q = InsertAt(W, r, new)
    BY <1>6 DEF opened, y, W, V
  <2> HIDE DEF q
  <2>2. r \in 1..Len(W) + 1
    BY <1>3
  <2>3. /\ q \in Parts /\ Len(q) = m + 1
        /\ \A i \in 1..Len(W) + 1 : q[i] = IF i < r THEN W[i]
                                           ELSE IF i = r THEN new ELSE W[i - 1]
        /\ Len(J) = Len(join(W, value_mark)) + Len(new) + 1
        /\ (\A i \in 1..Len(W) : free(W[i], value_mark)) =>
             split(J, value_mark) = spliced(W, r, split(new, value_mark), 0)
    <3> DEFINE I == InsertAt(W, r, new)
    <3>0. W \in Parts /\ value_mark \in Byte
      BY <1>1, MarksDiffer
    <3>1. /\ I \in Parts /\ Len(I) = Len(W) + 1
          /\ \A i \in 1..Len(W) + 1 : I[i] = IF i < r THEN W[i]
                                           ELSE IF i = r THEN new ELSE W[i - 1]
          /\ Len(join(I, value_mark)) = Len(join(W, value_mark)) + Len(new) + 1
          /\ (\A i \in 1..Len(W) : free(W[i], value_mark)) =>
               split(join(I, value_mark), value_mark) =
                 spliced(W, r, split(new, value_mark), 0)
      BY <2>2, <3>0, InsertedText
    <3>2. q = I
      BY <2>1
    <3> HIDE DEF I
    <3> QED
      BY <1>3, <3>1, <3>2, Zenon
  <2>4. split(J, value_mark) = spliced(W, r, split(new, value_mark), 0)
    BY <1>1, <2>3
  <2> HIDE DEF J
  <2>5. Len(spliced(W, r, split(new, value_mark), 0)) =
          Len(W) + Len(split(new, value_mark))
    <3> DEFINE A == SubSeq(W, 1, r - 1)
               B == SubSeq(W, r, Len(W))
               N == split(new, value_mark)
    <3>1. A \in Seq(Text) /\ Len(A) = r - 1 /\ B \in Seq(Text) /\ Len(B) = Len(W) - r + 1
      BY <1>3, <2>2, CutAt
    <3>2. r + 0 = r
      OBVIOUS
    <3>3. spliced(W, r, N, 0) = A \o N \o B
      BY <3>2, Zenon DEF spliced
    <3>4. N \in Seq(Text) /\ Len(N) \in Nat
      BY <1>4
    <3> HIDE DEF A, B, N
    <3>5. A \o N \in Seq(Text) /\ Len(A \o N) = Len(A) + Len(N)
      BY <3>1, <3>4, ConcatProperties
    <3>6. Len(A \o N \o B) = Len(A \o N) + Len(B)
      BY <3>1, <3>5, ConcatProperties
    <3>7. Len(A \o N \o B) = Len(W) + Len(N)
      BY <1>3, <3>1, <3>4, <3>5, <3>6
    <3> QED
      BY <3>3, <3>7, Zenon DEF N
  <2>6. Len(split(J, value_mark)) <= m + Len(new) + 1
    BY <1>2, <1>3, <1>4, <2>4, <2>5
  <2>7. Len(J) = Len(y) + Len(q) - Len(V) + Len(new)
    BY <1>1, <1>2, <1>3, <2>3
  <2>8. ASSUME NEW i \in 1..Len(q)
        PROVE  /\ part(q, i) = IF i < r THEN part(V, i)
                               ELSE IF i = r THEN new ELSE part(V, i - 1)
               /\ i # r => free(q[i], value_mark) /\ free(q[i], field_mark)
    <3>1. part(q, i) = q[i] /\ i \in 1..Len(W) + 1
      BY <1>3, <2>3, PartType DEF Parts
    <3>2. CASE i < r
      <4>1. i \in 1..Len(W)
        BY <2>2, <3>1, <3>2
      <4>2. q[i] = W[i]
        BY <2>3, <3>1, <3>2
      <4> QED
        BY <1>1, <3>1, <3>2, <4>1, <4>2
    <3>3. CASE i = r
      BY <2>3, <3>1, <3>3
    <3>4. CASE i > r
      <4>1. i - 1 \in 1..Len(W) /\ ~(i < r) /\ i # r
        BY <1>3, <2>2, <3>1, <3>4
      <4>2. q[i] = W[i - 1]
        BY <2>3, <3>1, <4>1
      <4> QED
        BY <1>1, <3>1, <4>1, <4>2
    <3> QED
      BY <3>2, <3>3, <3>4
  <2>9. r \in 1..Len(q)
    BY <1>3, <2>3
  <2> QED
    BY <1>6, <2>3, <2>6, <2>7, <2>8, <2>9 DEF V, y, m, q, J, Opens
<1> QED
  BY <1>5, <1>6

(* Parts without the mark leave room for it in their text.                 *)
LEMMA PartShorter ==
  ASSUME NEW p \in Parts, NEW mark \in Byte, NEW i \in 1..Len(p),
         \A k \in 1..Len(p) : free(p[k], mark)
  PROVE  /\ join(p, mark) \in Text /\ Len(p[i]) \in Nat
         /\ Len(p[i]) + Len(p) - 1 <= Len(join(p, mark))
<1> DEFINE q == put(p, i, <<>>)
<1>1. <<>> \in Text /\ Len(<<>>) = 0 /\ free(<<>>, mark)
  BY DEF Text, free
<1>2. /\ q \in Parts /\ Len(q) = Len(p)
      /\ \A k \in 1..Len(p) : q[k] = IF k = i THEN <<>> ELSE p[k]
      /\ Len(join(q, mark)) = Len(join(p, mark)) + Len(<<>>) - Len(p[i])
  BY <1>1, ReplacedText
<1> HIDE DEF q
<1>3. \A k \in 1..Len(q) : free(q[k], mark)
  BY <1>1, <1>2
<1>4. split(join(q, mark), mark) = q
  BY <1>2, <1>3, SplitJoin
<1>5. join(q, mark) \in Text /\ join(p, mark) \in Text
  BY <1>2, JoinType
<1>6. Len(split(join(q, mark), mark)) <= Len(join(q, mark)) + 1
  BY <1>5, SplitType
<1>7. Len(q) <= Len(join(q, mark)) + 1
  BY <1>4, <1>6, Zenon
<1>8. /\ Len(p[i]) \in Nat /\ Len(p) \in Nat /\ Len(join(p, mark)) \in Nat
      /\ Len(join(q, mark)) \in Nat
  <2>1. p[i] \in Text /\ p \in Seq(Text)
    BY DEF Parts
  <2> QED
    BY <1>5, <2>1 DEF Text
<1> QED
  BY <1>1, <1>2, <1>5, <1>7, <1>8

(* A field is shorter than the content, by a mark for each other field.    *)
LEMMA FieldShorter ==
  ASSUME NEW s \in Text, NEW i \in 1..Len(fields_of(s))
  PROVE  /\ Len(part(fields_of(s), i)) + Len(fields_of(s)) - 1 <= Len(s)
         /\ fields_of(s)[i] \in Text
         /\ Len(fields_of(s)[i]) + Len(fields_of(s)) - 1 <= Len(s)
<1> DEFINE F == fields_of(s)
<1>1. F \in Parts
  BY ValuesType
<1>2. \A k \in 1..Len(F) : free(F[k], field_mark)
  BY SplitParts DEF fields_of
<1>3. join(F, field_mark) = s
  BY MarksDiffer, JoinSplit DEF fields_of
<1>4. part(F, i) = F[i] /\ F[i] \in Text
  BY <1>1, PartType DEF Parts
<1> HIDE DEF F
<1>5. i \in 1..Len(F)
  BY DEF F
<1>6. Len(F[i]) + Len(F) - 1 <= Len(join(F, field_mark))
  BY <1>1, <1>2, <1>5, MarksDiffer, PartShorter
<1> QED
  BY <1>3, <1>4, <1>6, Zenon DEF F

(* At least r parts are left of the names, however a name put at rank r is *)
(* cut by a field mark.                                                    *)
LEMMA OpenedFirst ==
  ASSUME NEW s \in Text, NEW field, NEW r \in Nat \ {0}, NEW new \in Text
  PROVE  LET J == join(opened(s, field, r, new), value_mark) IN
         /\ J \in Text /\ fields_of(J)[1] \in Text
         /\ Len(split(fields_of(J)[1], value_mark)) \in Nat
         /\ Len(split(fields_of(J)[1], value_mark)) >= r
<1> DEFINE q == opened(s, field, r, new)
           J == join(q, value_mark)
<1>1. /\ q \in Parts /\ r \in 1..Len(q)
      /\ \A i \in 1..Len(q) : i # r => /\ free(q[i], value_mark)
                                       /\ free(q[i], field_mark)
  BY OpenedParts, Zenon DEF Opens
<1> HIDE DEF q
<1>2. J \in Text
  BY <1>1, MarksDiffer, JoinType
<1>3. 1 \in 1..Len(fields_of(J))
  <2>1. fields_of(J) \in Parts
    BY <1>2, ValuesType
  <2> QED
    BY <2>1, EmptySeq DEF Parts
<1>4. fields_of(J)[1] \in Text
  BY <1>2, <1>3, FieldShorter
<1>5. /\ Len(split(fields_of(J)[1], value_mark)) \in Nat
      /\ Len(split(fields_of(J)[1], value_mark)) >= 1
  <2>1. split(fields_of(J)[1], value_mark) \in Parts
    BY <1>4, SplitType
  <2> QED
    BY <2>1, EmptySeq DEF Parts
<1>6. ASSUME r # 1 PROVE Len(split(fields_of(J)[1], value_mark)) >= r
  <2> DEFINE A == SubSeq(q, 1, r - 1)
             B == SubSeq(q, r, Len(q))
             a == join(A, value_mark)
             b == join(B, value_mark)
  <2>1. /\ A \in Seq(Text) /\ Len(A) = r - 1 /\ \A i \in 1..r - 1 : A[i] = q[i]
        /\ B \in Seq(Text) /\ Len(B) = Len(q) - r + 1
        /\ q = A \o B
    <3>1. q \in Seq(Text) /\ r \in 1..Len(q) + 1
      BY <1>1 DEF Parts
    <3> QED
      BY <3>1, CutAt
  <2> HIDE DEF A, B
  <2>2. A \in Parts /\ B \in Parts
    <3>1. Len(A) # 0 /\ Len(B) # 0
      BY <1>1, <1>6, <2>1
    <3> QED
      BY <2>1, <3>1 DEF Parts
  <2>3. \A i \in 1..Len(A) : free(A[i], value_mark) /\ free(A[i], field_mark)
    <3> TAKE i \in 1..Len(A)
    <3>1. i \in 1..r - 1 /\ i \in 1..Len(q) /\ i # r
      BY <1>1, <2>1
    <3> QED
      BY <1>1, <2>1, <3>1
  <2>4. J = behind(a, value_mark, b)
    BY <2>1, <2>2, MarksDiffer, JoinConcat
  <2>5. /\ a \in Text /\ b \in Text /\ free(a, field_mark)
        /\ split(a, value_mark) = A
    BY <2>2, <2>3, MarksDiffer, JoinType, FreeOfParts, SplitJoin
  <2> HIDE DEF a, b, J
  <2> DEFINE c == a \o <<value_mark>>
             z == split(b, field_mark)[1]
  <2>6. c \in Text /\ free(c, field_mark)
    <3>1. <<value_mark>> \in Text
      BY MarksDiffer DEF Text, Byte
    <3>2. free(<<value_mark>>, field_mark)
      BY MarksDiffer DEF free
    <3> QED
      BY <2>5, <3>1, <3>2, MarksDiffer, FreeTogether
  <2>7. z \in Text
    <3>1. 1 \in 1..Len(split(b, field_mark))
      <4>1. split(b, field_mark) \in Parts
        BY <2>5, SplitType
      <4> QED
        BY <4>1, EmptySeq DEF Parts
    <3> QED
      BY <2>5, <3>1, SplitParts
  <2>8. J = c \o b
    BY <2>4, Zenon DEF behind
  <2> HIDE DEF c, z
  <2>9. split(c \o b, field_mark)[1] = c \o z
    BY <2>5, <2>6, MarksDiffer, FirstPart DEF z
  <2>10. c \o z = behind(a, value_mark, z)
    BY Zenon DEF c, behind
  <2>11. fields_of(J)[1] = behind(a, value_mark, z)
    BY <2>8, <2>9, <2>10, Zenon DEF fields_of
  <2>12. Len(split(behind(a, value_mark, z), value_mark)) =
           Len(split(a, value_mark)) + Len(split(z, value_mark))
    <3>1. /\ split(a, value_mark) \in Parts /\ split(z, value_mark) \in Parts
      BY <2>5, <2>7, SplitType
    <3>2. /\ split(a, value_mark) \in Seq(Text)
          /\ split(z, value_mark) \in Seq(Text)
      BY <3>1 DEF Parts
    <3>3. Len(split(a, value_mark) \o split(z, value_mark)) =
            Len(split(a, value_mark)) + Len(split(z, value_mark))
      BY <3>2, ConcatProperties
    <3>4. split(behind(a, value_mark, z), value_mark) =
            split(a, value_mark) \o split(z, value_mark)
      BY <2>5, <2>7, MarksDiffer, SplitBehind
    <3> QED
      BY <3>3, <3>4, Zenon
  <2>13. Len(split(z, value_mark)) \in Nat \ {0}
    <3>1. split(z, value_mark) \in Parts
      BY <2>7, SplitType
    <3> QED
      BY <3>1, EmptySeq DEF Parts
  <2>14. Len(split(a, value_mark)) = r - 1
    BY <2>1, <2>5
  <2>15. Len(split(behind(a, value_mark, z), value_mark)) >= r
    BY <2>12, <2>13, <2>14
  <2> QED
    BY <2>11, <2>15, Zenon
<1>7. Len(split(fields_of(J)[1], value_mark)) >= r
  BY <1>5, <1>6
<1> QED
  BY <1>2, <1>4, <1>5, <1>7, Zenon DEF q

(* R is s with a name at rank r of field 1, which a field mark in the name *)
(* cuts.                                                                   *)
NameAdded(s, r, new, R) ==
  /\ R \in Text /\ Len(fields_of(R)) >= Len(fields_of(s))
  /\ Len(R) = Len(s) + Len(new)
                + IF part(fields_of(s), 1) = <<>> /\ r = 1 THEN 0 ELSE 1
  /\ Len(values_of(R, 1)) >= r
  /\ Len(values_of(R, 1)) <= Len(s) + Len(new) + 1
  /\ s # <<>> \/ new # <<>> => Len(values_of(R, 2)) <= Len(s) + Len(new)
  /\ free(new, value_mark) /\ free(new, field_mark) =>
       /\ values_of(R, 1) = opened(s, 1, r, new)
       /\ values_of(R, 2) = values_of(s, 2)
       /\ Len(fields_of(R)) = Len(fields_of(s))

(* What the first insertion of add_key_value does, with any name.          *)
LEMMA NameIn ==
  ASSUME NEW s \in Text, NEW r \in Nat \ {0}, NEW new \in Text,
         r - 1 <= Len(values_of(s, 1)),
         Len(fields_of(s)) >= 2 \/ (s = <<>> /\ r = 1)
  PROVE  NameAdded(s, r, new, QMIns(s, 1, r, new))
<1> DEFINE F == fields_of(s)
           V == values_of(s, 1)
           y == part(F, 1)
           q == opened(s, 1, r, new)
           J == join(q, value_mark)
           G == fields_of(J)
           R == QMIns(s, 1, r, new)
           H == fields_of(R)
<1>1. Opens(q, V, y, r, new, J)
  BY OpenedParts, Zenon
<1>2. V \in Parts /\ F \in Parts /\ y \in Text
  BY ValuesType
<1>3. /\ Len(V) \in Nat \ {0} /\ Len(F) \in Nat \ {0} /\ Len(y) \in Nat
      /\ Len(s) \in Nat /\ Len(new) \in Nat
      /\ new # <<>> => Len(new) > 0
      /\ V \in Seq(Text) /\ F \in Seq(Text)
  <2>1. /\ Len(V) \in Nat \ {0} /\ Len(F) \in Nat \ {0} /\ Len(y) \in Nat
        /\ Len(s) \in Nat /\ V \in Seq(Text) /\ F \in Seq(Text)
    BY <1>2, EmptySeq DEF Parts, Text
  <2>2. Len(new) \in Nat /\ (new # <<>> => Len(new) \in Nat \ {0})
    BY EmptySeq DEF Text
  <2> HIDE DEF V, F, y
  <2>3. new # <<>> => Len(new) > 0
    BY <2>2
  <2> QED
    BY <2>1, <2>2, <2>3
<1>4. /\ J \in Text /\ G[1] \in Text
      /\ Len(split(G[1], value_mark)) \in Nat
      /\ Len(split(G[1], value_mark)) >= r
  BY OpenedFirst, Zenon
<1>5. R = with_values(s, 1, q) /\ J = join(q, value_mark)
  <2>1. QMIns(s, 1, r, new) = with_values(s, 1, opened(s, 1, r, new))
    BY Library
  <2> QED
    BY <2>1, Zenon
<1> HIDE DEF q, R, J, V, y
<1>101. q \in Parts /\ r \in 1..Len(q)
  BY <1>1 DEF Opens
<1>103. PutInNames(s, J, R)
  BY <1>101, <1>5, NamesPut, Zenon
<1>6. /\ R \in Text
      /\ Len(R) = Len(s) + Len(J) - Len(y)
      /\ Len(H) = Len(G) + Len(F) - 1
      /\ values_of(R, 1) = split(G[1], value_mark)
      /\ ~(Len(G) >= 2) => values_of(R, 2) = values_of(s, 2)
      /\ Len(G) >= 2 => values_of(R, 2) = split(G[2], value_mark)
  BY <1>103, Zenon DEF PutInNames, y
<1>7. s = <<>> => F = << <<>> >>
  BY SplitEmpty DEF fields_of
<1> HIDE DEF H, F
<1>8. G \in Parts /\ Len(G) \in Nat \ {0} /\ Len(J) \in Nat
  <2>1. G \in Parts
    BY <1>4, ValuesType
  <2> QED
    BY <1>4, <2>1, EmptySeq DEF Parts, Text
<1> HIDE DEF G
<1>9. /\ Len(y) + Len(F) - 1 <= Len(s)
      /\ Len(F) = 1 => s = <<>> /\ r = 1 /\ y = <<>>
  <2>1. 1 \in 1..Len(F)
    BY <1>3
  <2>2. Len(y) + Len(F) - 1 <= Len(s)
    BY <2>1, FieldShorter DEF y, F
  <2>3. ASSUME Len(F) = 1 PROVE s = <<>> /\ r = 1 /\ y = <<>>
    <3>1. s = <<>> /\ r = 1
      BY <2>3 DEF F
    <3>2. Len(s) = 0
      BY <3>1
    <3>3. Len(y) = 0
      BY <1>3, <2>2, <2>3, <3>2
    <3> QED
      BY <1>2, <3>1, <3>3, EmptySeq DEF Text
  <2> QED
    BY <2>2, <2>3
<1>10. Len(F) >= 2 \/ (Len(F) = 1 /\ s = <<>> /\ r = 1 /\ y = <<>>)
  <2>1. Len(F) >= 2 \/ Len(F) = 1
    BY <1>3, OneOrMore, Zenon
  <2> QED
    BY <1>9, <2>1
<1>11. Len(J) = IF y = <<>> /\ r = 1 THEN Len(new) ELSE Len(y) + Len(new) + 1
  <2>1. r - 1 <= Len(V)
    BY DEF V
  <2>2. reach(V, r - 1) = Len(V)
    BY <2>1 DEF reach
  <2>3. /\ y = <<>> /\ r = 1 => Len(J) = Len(new)
        /\ ~(y = <<>> /\ r = 1) => /\ Len(q) = reach(V, r - 1) + 1
                                   /\ Len(J) = Len(y) + Len(q) - Len(V) + Len(new)
    BY <1>1, Zenon DEF Opens
  <2>4. Len(q) = Len(V) + 1 /\ Len(J) = Len(y) + Len(q) - Len(V) + Len(new) =>
          Len(J) = Len(y) + Len(new) + 1
    BY <1>3
  <2> QED
    BY <2>2, <2>3, <2>4, Zenon
<1>12. y = <<>> => Len(y) = 0
  OBVIOUS
<1>13. Len(R) = Len(s) + Len(new) + IF y = <<>> /\ r = 1 THEN 0 ELSE 1
  <2>1. Len(R) = Len(s) + Len(J) - Len(y)
    BY <1>6
  <2>2. CASE y = <<>> /\ r = 1
    BY <1>3, <1>8, <1>11, <1>12, <2>1, <2>2
  <2>3. CASE ~(y = <<>> /\ r = 1)
    BY <1>3, <1>8, <1>11, <2>1, <2>3
  <2> QED
    BY <2>2, <2>3
<1>14. Len(J) <= Len(s) + Len(new)
  BY <1>3, <1>8, <1>9, <1>10, <1>11, <1>12
<1>15. Len(values_of(R, 1)) <= Len(s) + Len(new) + 1
  <2>1. 1 \in 1..Len(G)
    BY <1>8
  <2>2. Len(G[1]) + Len(G) - 1 <= Len(J)
    BY <1>4, <2>1, FieldShorter DEF G
  <2>3. Len(split(G[1], value_mark)) <= Len(G[1]) + 1
    BY <1>4, SplitType
  <2>4. Len(G[1]) \in Nat
    BY <1>4 DEF Text
  <2>5. Len(split(G[1], value_mark)) <= Len(s) + Len(new) + 1
    <3> DEFINE k == Len(split(G[1], value_mark))
               g == Len(G[1])
               n == Len(G)
               j == Len(J)
               m == Len(s)
               l == Len(new)
    <3>1. k \in Nat /\ g \in Nat /\ j \in Nat /\ m \in Nat /\ l \in Nat
      BY <1>3, <1>4, <1>8, <2>4, Zenon
    <3>2. n \in Nat \ {0}
      BY <1>8, Zenon
    <3>3. g + n - 1 <= j /\ k <= g + 1 /\ j <= m + l
      BY <1>14, <2>2, <2>3, Zenon
    <3> HIDE DEF k, g, n, j, m, l
    <3>4. k <= m + l + 1
      BY <3>1, <3>2, <3>3
    <3> QED
      BY <3>4 DEF k, m, l
  <2> QED
    BY <1>6, <2>5, Zenon
<1>16. ASSUME s # <<>> \/ new # <<>>
       PROVE  Len(values_of(R, 2)) <= Len(s) + Len(new)
  <2>1. CASE ~(Len(G) >= 2)
    <3> DEFINE z == part(F, 2)
    <3>1. /\ z \in Text /\ Len(split(z, value_mark)) <= Len(z) + 1
          /\ values_of(s, 2) = split(z, value_mark)
      BY ValuesType, SplitType DEF F
    <3>2. Len(z) \in Nat /\ Len(split(z, value_mark)) \in Nat
      BY <3>1, SplitType DEF Text, Parts
    <3>3. Len(z) + 1 <= Len(s) + Len(new)
      <4>1. CASE Len(F) >= 2
        <5>1. 2 \in 1..Len(F)
          BY <1>3, <4>1
        <5>2. Len(z) + Len(F) - 1 <= Len(s)
          BY <5>1, FieldShorter DEF F
        <5> QED
          BY <1>3, <3>2, <4>1, <5>2
      <4>2. CASE Len(F) = 1
        <5>1. 2 \notin 1..Len(F)
          BY <4>2
        <5>2. z = <<>>
          BY <1>3, <5>1, PartType
        <5>3. Len(z) = 0
          BY <5>2
        <5>4. new # <<>>
          BY <1>10, <1>16, <4>2
        <5> QED
          BY <1>3, <5>3, <5>4
      <4> QED
        BY <1>10, <4>1, <4>2
    <3> HIDE DEF z
    <3>4. Len(split(z, value_mark)) <= Len(s) + Len(new)
      BY <1>3, <3>1, <3>2, <3>3
    <3> QED
      BY <1>6, <2>1, <3>1, <3>4, Zenon
  <2>2. CASE Len(G) >= 2
    <3>1. Len(G) >= 2
      BY <2>2
    <3>11. 2 \in 1..Len(G)
      BY <1>8, <3>1
    <3>2. G[2] \in Text /\ Len(G[2]) + Len(G) - 1 <= Len(J)
      BY <1>4, <3>11, FieldShorter DEF G
    <3>3. Len(split(G[2], value_mark)) <= Len(G[2]) + 1
      BY <3>2, SplitType
    <3>4. Len(G[2]) \in Nat /\ Len(split(G[2], value_mark)) \in Nat
      BY <3>2, SplitType DEF Text, Parts
    <3>5. Len(split(G[2], value_mark)) <= Len(s) + Len(new)
      <4> DEFINE k == Len(split(G[2], value_mark))
                 g == Len(G[2])
                 n == Len(G)
                 j == Len(J)
                 m == Len(s)
                 l == Len(new)
      <4>1. k \in Nat /\ g \in Nat /\ j \in Nat /\ m \in Nat /\ l \in Nat
        BY <1>3, <1>8, <3>4, Zenon
      <4>2. n \in Nat \ {0} /\ n >= 2
        BY <1>8, <3>1, Zenon
      <4>3. g + n - 1 <= j /\ k <= g + 1 /\ j <= m + l
        BY <1>14, <3>2, <3>3, Zenon
      <4> HIDE DEF k, g, n, j, m, l
      <4>4. k <= m + l
        BY <4>1, <4>2, <4>3
      <4> QED
        BY <4>4 DEF k, m, l
    <3> QED
      BY <1>6, <3>1, <3>5, Zenon
  <2> QED
    BY <2>1, <2>2
<1>17. ASSUME free(new, value_mark), free(new, field_mark)
       PROVE  /\ values_of(R, 1) = q /\ values_of(R, 2) = values_of(s, 2)
              /\ Len(H) = Len(F)
  <2>1. \A i \in 1..Len(q) : free(q[i], value_mark) /\ free(q[i], field_mark)
    <3>1. q[r] = new
      <4>1. part(q, r) = new
        BY <1>1, <1>101 DEF Opens
      <4> QED
        BY <1>101, <4>1, PartType DEF Parts
    <3>2. \A i \in 1..Len(q) : i # r => /\ free(q[i], value_mark)
                                       /\ free(q[i], field_mark)
      BY <1>1, Zenon DEF Opens
    <3> QED
      BY <1>17, <3>1, <3>2
  <2>2. G = <<J>>
    BY <1>101, <2>1, OneField DEF G, J
  <2>3. Len(G) = 1 /\ G[1] = J /\ ~(Len(G) >= 2)
    BY <2>2
  <2>4. split(J, value_mark) = q
    BY <1>101, <2>1, MarksDiffer, SplitJoin DEF J
  <2>5. Len(H) = Len(F)
    BY <1>3, <1>6, <2>3
  <2> QED
    BY <1>6, <2>3, <2>4, <2>5, Zenon
<1>18. Len(H) >= Len(F)
  BY <1>3, <1>6, <1>8
<1>19. Len(values_of(R, 1)) >= r
  BY <1>4, <1>6, Zenon
<1> QED
  BY <1>6, <1>13, <1>15, <1>16, <1>17, <1>18, <1>19, Zenon
     DEF y, R, H, q, F, NameAdded

(* R is s with a value at rank r of field 2. Ranks before it without a     *)
(* value cost a mark each.                                                 *)
ValueAdded(s, r, new, R) ==
  /\ R \in Text /\ Len(fields_of(R)) >= 2
  /\ Len(R) <= Len(s) + (reach(values_of(s, 2), r - 1) - Len(values_of(s, 2)))
                 + Len(new) + 1
  /\ values_of(R, 1) = values_of(s, 1)
  /\ Len(values_of(R, 2)) <= reach(values_of(s, 2), r - 1) + Len(new) + 1
  /\ free(new, value_mark) /\ free(new, field_mark) =>
       /\ values_of(R, 2) = opened(s, 2, r, new)
       /\ Len(fields_of(s)) <= 2 => Len(fields_of(R)) = 2

(* How many parts there are is a number, no less than either.              *)
LEMMA ReachType ==
  ASSUME NEW s \in Text, NEW field, NEW n \in Nat
  PROVE  /\ Len(values_of(s, field)) \in Nat \ {0}
         /\ reach(values_of(s, field), n) \in Nat
         /\ Len(values_of(s, field)) <= reach(values_of(s, field), n)
         /\ n <= reach(values_of(s, field), n)
<1>1. values_of(s, field) \in Parts
  BY ValuesType
<1>2. Len(values_of(s, field)) \in Nat \ {0}
  BY <1>1, EmptySeq DEF Parts
<1> QED
  BY <1>2 DEF reach

(* What the second insertion of add_key_value does, with any value.        *)
LEMMA ValueIn ==
  ASSUME NEW s \in Text, NEW r \in Nat \ {0}, NEW new \in Text,
         Len(fields_of(s)) >= 2 \/ r = 1
  PROVE  ValueAdded(s, r, new, QMIns(s, 2, r, new))
<1> DEFINE F == fields_of(s)
           V == values_of(s, 2)
           y == part(F, 2)
           q == opened(s, 2, r, new)
           J == join(q, value_mark)
           G == fields_of(J)
           R == QMIns(s, 2, r, new)
           H == fields_of(R)
           m == reach(V, r - 1)
<1>1. Opens(q, V, y, r, new, J)
  BY OpenedParts, Zenon
<1>2. F \in Parts /\ y \in Text
  BY ValuesType
<1>3. /\ Len(F) \in Nat \ {0} /\ Len(y) \in Nat /\ Len(s) \in Nat
      /\ Len(new) \in Nat /\ F \in Seq(Text)
  BY <1>2, EmptySeq DEF Parts, Text
<1>4. Len(V) \in Nat /\ m \in Nat /\ Len(V) <= m /\ r - 1 <= m
  <2>1. r - 1 \in Nat
    OBVIOUS
  <2> QED
    BY <2>1, ReachType
<1>5. R = with_values(s, 2, q) /\ J = join(q, value_mark)
  BY Library, Zenon
<1> HIDE DEF q, R, J, V, y, m
<1>6. q \in Parts /\ r \in 1..Len(q)
  BY <1>1 DEF Opens
<1>7. PutInValues(s, J, R)
  BY <1>6, <1>5, ValuesPut, Zenon
<1>8. J \in Text /\ R \in Text
  BY <1>7 DEF PutInValues
<1>9. G \in Parts /\ Len(G) \in Nat \ {0} /\ Len(J) \in Nat
  <2>1. G \in Parts
    BY <1>8, ValuesType
  <2> QED
    BY <1>8, <2>1, EmptySeq DEF Parts, Text
<1> HIDE DEF F, H
<1>10. /\ Len(R) = Len(s) + (IF Len(F) >= 2 THEN 0 ELSE 1) + Len(J) - Len(y)
       /\ Len(H) = Len(G) - 1 + IF Len(F) >= 2 THEN Len(F) ELSE 2
       /\ values_of(R, 1) = values_of(s, 1)
       /\ values_of(R, 2) = split(G[1], value_mark)
  BY <1>7, Zenon DEF PutInValues, F, H, y
<1>11. /\ y = <<>> /\ r = 1 => Len(J) = Len(new)
       /\ ~(y = <<>> /\ r = 1) => /\ Len(q) = m + 1
                                  /\ Len(J) = Len(y) + Len(q) - Len(V) + Len(new)
       /\ Len(split(J, value_mark)) <= m + Len(new) + 1
  BY <1>1, Zenon DEF Opens, m
<1>12. Len(F) >= 2 \/ (r = 1 /\ y = <<>>)
  <2>1. Len(F) >= 2 \/ Len(F) = 1
    BY <1>3, OneOrMore, Zenon
  <2>2. Len(F) = 1 => y = <<>>
    <3>1. Len(F) = 1 => 2 \notin 1..Len(F)
      OBVIOUS
    <3> QED
      BY <1>3, <3>1, PartType DEF y
  <2>3. Len(F) >= 2 \/ r = 1
    BY DEF F
  <2> QED
    BY <2>1, <2>2, <2>3, Zenon
<1>13. y = <<>> => Len(y) = 0
  OBVIOUS
<1> DEFINE fm == IF Len(F) >= 2 THEN 0 ELSE 1
<1>14. fm \in {0, 1} /\ (Len(F) >= 2 => fm = 0)
  OBVIOUS
<1>15. Len(R) = Len(s) + fm + Len(J) - Len(y)
  BY <1>10
<1> HIDE DEF fm
<1>16. Len(R) <= Len(s) + (m - Len(V)) + Len(new) + 1
  <2>1. CASE y = <<>> /\ r = 1
    <3>1. Len(J) = Len(new) /\ Len(y) = 0
      BY <1>11, <1>13, <2>1
    <3> HIDE <2>1
    <3> QED
      BY <1>3, <1>4, <1>14, <1>15, <3>1
  <2>2. CASE ~(y = <<>> /\ r = 1)
    <3>1. fm = 0
      BY <1>12, <1>14, <2>2
    <3>2. Len(q) = m + 1 /\ Len(J) = Len(y) + Len(q) - Len(V) + Len(new)
      BY <1>11, <2>2
    <3>3. Len(q) \in Nat
      BY <1>6 DEF Parts
    <3> HIDE <2>2
    <3> QED
      BY <1>3, <1>4, <1>9, <1>15, <3>1, <3>2, <3>3
  <2> QED
    BY <2>1, <2>2
<1>17. Len(values_of(R, 2)) <= m + Len(new) + 1
  <2>1. 1 \in 1..Len(G)
    BY <1>9
  <2>2. join(G, field_mark) = J
    BY <1>8, MarksDiffer, JoinSplit DEF fields_of
  <2> HIDE DEF G
  <2>3. Len(split(G[1], value_mark)) <= Len(split(join(G, field_mark), value_mark))
    BY <1>9, <2>1, MarksDiffer, PartCount
  <2>4. Len(split(G[1], value_mark)) <= Len(split(J, value_mark))
    BY <2>2, <2>3, Zenon
  <2>5. Len(split(G[1], value_mark)) \in Nat /\ Len(split(J, value_mark)) \in Nat
    <3>1. G[1] \in Text
      BY <1>9, <2>1 DEF Parts
    <3> QED
      BY <1>8, <3>1, SplitType DEF Parts
  <2>6. Len(split(G[1], value_mark)) <= m + Len(new) + 1
    BY <1>3, <1>4, <1>11, <2>4, <2>5
  <2> QED
    BY <1>10, <2>6, Zenon
<1>18. ASSUME free(new, value_mark), free(new, field_mark)
       PROVE  /\ values_of(R, 2) = q
              /\ Len(F) <= 2 => Len(H) = 2
  <2>1. \A i \in 1..Len(q) : free(q[i], value_mark) /\ free(q[i], field_mark)
    <3>1. q[r] = new
      <4>1. part(q, r) = new
        BY <1>1, <1>6 DEF Opens
      <4> QED
        BY <1>6, <4>1, PartType DEF Parts
    <3>2. \A i \in 1..Len(q) : i # r => /\ free(q[i], value_mark)
                                       /\ free(q[i], field_mark)
      BY <1>1, Zenon DEF Opens
    <3> QED
      BY <1>18, <3>1, <3>2
  <2>2. G = <<J>>
    BY <1>6, <2>1, OneField DEF G, J
  <2>3. Len(G) = 1 /\ G[1] = J
    BY <2>2
  <2>4. split(J, value_mark) = q
    BY <1>6, <2>1, MarksDiffer, SplitJoin DEF J
  <2>5. Len(F) <= 2 => Len(H) = 2
    <3>1. \A f \in Nat : f <= 2 => (IF f >= 2 THEN f ELSE 2) = 2
      OBVIOUS
    <3>2. Len(F) <= 2 => (IF Len(F) >= 2 THEN Len(F) ELSE 2) = 2
      BY <1>3, <3>1
    <3>3. Len(H) = 1 - 1 + IF Len(F) >= 2 THEN Len(F) ELSE 2
      BY <1>10, <2>3, Zenon
    <3>4. 1 - 1 + 2 = 2
      OBVIOUS
    <3> QED
      BY <3>2, <3>3, <3>4, Zenon
  <2> QED
    BY <1>10, <2>3, <2>4, <2>5, Zenon
<1>19. Len(H) >= 2
  BY <1>3, <1>9, <1>10
<1> QED
  BY <1>8, <1>10, <1>16, <1>17, <1>18, <1>19, Zenon
     DEF R, H, q, F, V, m, ValueAdded

(* The same, as one statement to cite.                                     *)
Replaced(p, r, x, mark) ==
  /\ put(p, r, x) \in Parts
  /\ Len(put(p, r, x)) = Len(p)
  /\ \A i \in 1..Len(p) : put(p, r, x)[i] = IF i = r THEN x ELSE p[i]
  /\ Len(join(put(p, r, x), mark)) = Len(join(p, mark)) + Len(x) - Len(p[r])
  /\ (\A i \in 1..Len(p) : free(p[i], mark)) =>
       split(join(put(p, r, x), mark), mark) =
         spliced(p, r, split(x, mark), 1)

(* ReplacedText, for steps that use only part of it.                       *)
LEMMA ReplacedParts ==
  ASSUME NEW p \in Parts, NEW r \in 1..Len(p), NEW x \in Text,
         NEW mark \in Byte
  PROVE  Replaced(p, r, x, mark)
BY ReplacedText DEF Replaced

(* q is V, the values in y, with new in the place of the one at rank r. J  *)
(* is the text of q.                                                       *)
Changes(q, V, y, r, new, J) ==
  /\ q \in Parts /\ r \in 1..Len(q)
  /\ Len(q) = reach(V, r)
  /\ Len(J) = Len(y) + Len(q) - Len(V) + Len(new) - Len(part(V, r))
  /\ \A i \in 1..Len(q) : part(q, i) = IF i = r THEN new ELSE part(V, i)
  /\ Len(split(J, value_mark)) <= reach(V, r) - 1 + Len(split(new, value_mark))
  /\ \A i \in 1..Len(q) : i # r => /\ free(q[i], value_mark)
                                   /\ free(q[i], field_mark)

(* The parts that QMReplace puts in a field, and the length of their text. *)
LEMMA ChangedParts ==
  ASSUME NEW s \in Text, NEW field, NEW r \in Nat \ {0}, NEW new \in Text
  PROVE  Changes(changed(s, field, r, new), values_of(s, field),
                 part(fields_of(s), field), r, new,
                 join(changed(s, field, r, new), value_mark))
<1> DEFINE V == values_of(s, field)
           y == part(fields_of(s), field)
           q == changed(s, field, r, new)
           m == reach(V, r)
           J == join(q, value_mark)
           W == padded(V, r)
<1>1. /\ V \in Parts /\ W \in Parts /\ Len(V) \in Nat \ {0}
      /\ Len(W) = IF r <= Len(V) THEN Len(V) ELSE r
      /\ \A i \in 1..Len(W) : /\ W[i] = part(V, i)
                              /\ free(W[i], value_mark)
                              /\ free(W[i], field_mark)
      /\ Len(join(W, value_mark)) = Len(y) + Len(W) - Len(V)
  <2>1. r \in Nat
    OBVIOUS
  <2> QED
    BY <2>1, PaddedValues, Zenon
<1>2. y \in Text /\ Len(y) \in Nat /\ Len(new) \in Nat
  BY ValuesType DEF Text
<1>3. q = put(W, r, new)
  BY DEF changed
<1> HIDE DEF V, y, W, q
<1>4. Len(W) = m /\ m \in Nat /\ r \in 1..Len(W) /\ V \in Seq(Text) /\ W \in Seq(Text)
  BY <1>1 DEF Parts, reach
<1> HIDE DEF m
<1>5. Len(split(new, value_mark)) \in Nat /\ split(new, value_mark) \in Seq(Text)
  BY SplitType DEF Parts
<1>6. /\ put(W, r, new) \in Parts /\ Len(put(W, r, new)) = Len(W)
      /\ \A i \in 1..Len(W) : put(W, r, new)[i] = IF i = r THEN new ELSE W[i]
      /\ Len(join(put(W, r, new), value_mark)) =
           Len(join(W, value_mark)) + Len(new) - Len(W[r])
      /\ (\A i \in 1..Len(W) : free(W[i], value_mark)) =>
           split(join(put(W, r, new), value_mark), value_mark) =
             spliced(W, r, split(new, value_mark), 1)
  <2>1. W \in Parts /\ value_mark \in Byte /\ r \in 1..Len(W)
    BY <1>1, <1>4, MarksDiffer
  <2>2. Replaced(W, r, new, value_mark)
    BY <2>1, ReplacedParts, Zenon
  <2> QED
    BY <2>2, Zenon DEF Replaced
<1>7. /\ q \in Parts /\ Len(q) = Len(W)
      /\ \A i \in 1..Len(W) : q[i] = IF i = r THEN new ELSE W[i]
      /\ Len(J) = Len(join(W, value_mark)) + Len(new) - Len(W[r])
      /\ split(J, value_mark) = spliced(W, r, split(new, value_mark), 1)
  <2>1. \A i \in 1..Len(W) : free(W[i], value_mark)
    BY <1>1
  <2> QED
    BY <1>3, <1>6, <2>1, Zenon
<1> HIDE DEF J
<1>8. Len(spliced(W, r, split(new, value_mark), 1)) =
        Len(W) - 1 + Len(split(new, value_mark))
  <2> DEFINE A == SubSeq(W, 1, r - 1)
             B == SubSeq(W, r + 1, Len(W))
             N == split(new, value_mark)
  <2>1. A \in Seq(Text) /\ Len(A) = r - 1
    <3>1. r \in 1..Len(W) + 1
      BY <1>4
    <3> QED
      BY <1>4, <3>1, CutAt
  <2>2. B \in Seq(Text) /\ Len(B) = Len(W) - (r + 1) + 1
    <3>1. r + 1 \in 1..Len(W) + 1
      BY <1>4
    <3> QED
      BY <1>4, <3>1, CutAt
  <2>3. spliced(W, r, N, 1) = A \o N \o B
    BY Zenon DEF spliced
  <2>4. N \in Seq(Text) /\ Len(N) \in Nat
    BY <1>5
  <2> HIDE DEF A, B, N
  <2>5. A \o N \in Seq(Text) /\ Len(A \o N) = Len(A) + Len(N)
    BY <2>1, <2>4, ConcatProperties
  <2>6. Len(A \o N \o B) = Len(A \o N) + Len(B)
    BY <2>2, <2>5, ConcatProperties
  <2>7. Len(A \o N \o B) = Len(W) - 1 + Len(N)
    BY <1>4, <2>1, <2>2, <2>4, <2>5, <2>6
  <2> QED
    BY <2>3, <2>7, Zenon DEF N
<1>9. Len(split(J, value_mark)) <= m - 1 + Len(split(new, value_mark))
  <2>1. Len(split(J, value_mark)) = Len(W) - 1 + Len(split(new, value_mark))
    BY <1>7, <1>8, Zenon
  <2> QED
    BY <1>4, <1>5, <2>1
<1>10. Len(J) = Len(y) + Len(q) - Len(V) + Len(new) - Len(part(V, r))
  <2>1. W[r] = part(V, r)
    BY <1>1, <1>4
  <2>2. part(V, r) \in Text
    BY <1>4, PartType
  <2>3. Len(part(V, r)) \in Nat
    BY <2>2 DEF Text
  <2>4. Len(J) = Len(join(W, value_mark)) + Len(new) - Len(part(V, r))
    BY <1>7, <2>1, Zenon
  <2>5. Len(join(W, value_mark)) = Len(y) + Len(W) - Len(V)
    BY <1>1
  <2>6. Len(q) = Len(W)
    BY <1>7
  <2> QED
    BY <1>1, <1>2, <1>4, <2>3, <2>4, <2>5, <2>6
<1>11. ASSUME NEW i \in 1..Len(q)
       PROVE  /\ part(q, i) = IF i = r THEN new ELSE part(V, i)
              /\ i # r => free(q[i], value_mark) /\ free(q[i], field_mark)
  <2>1. part(q, i) = q[i] /\ i \in 1..Len(W)
    BY <1>7, PartType DEF Parts
  <2> QED
    BY <1>1, <1>7, <2>1
<1>12. Len(q) = m /\ r \in 1..Len(q)
  BY <1>4, <1>7
<1> QED
  BY <1>7, <1>9, <1>10, <1>11, <1>12, Zenon DEF V, y, m, q, J, Changes

(* R is s with a value behind the one at rank r of field 2.                *)
ValueReplaced(s, r, value, R) ==
  /\ R \in Text /\ Len(fields_of(R)) >= 2
  /\ Len(R) <= Len(s) + (reach(values_of(s, 2), r) - Len(values_of(s, 2)))
                 + Len(value)
  /\ values_of(R, 1) = values_of(s, 1)
  /\ Len(values_of(R, 2)) <= reach(values_of(s, 2), r) + Len(value)
  /\ free(value, value_mark) /\ free(value, field_mark) =>
       /\ values_of(R, 2) =
            changed(s, 2, r, part(values_of(s, 2), r) \o value)
       /\ Len(fields_of(s)) <= 2 => Len(fields_of(R)) = 2

(* What the replacement of add_key_value does, with any value.             *)
LEMMA ValueBehind ==
  ASSUME NEW s \in Text, NEW r \in Nat \ {0}, NEW value \in Text,
         Len(fields_of(s)) >= 2
  PROVE  ValueReplaced(s, r, value,
                       QMReplace(s, 2, r, part(values_of(s, 2), r) \o value))
<1> DEFINE F == fields_of(s)
           V == values_of(s, 2)
           y == part(F, 2)
           old == part(V, r)
           new == old \o value
           q == changed(s, 2, r, new)
           J == join(q, value_mark)
           G == fields_of(J)
           R == QMReplace(s, 2, r, new)
           H == fields_of(R)
           m == reach(V, r)
<1>1. /\ F \in Parts /\ y \in Text /\ V \in Parts
      /\ \A i \in 1..Len(V) : free(V[i], value_mark) /\ free(V[i], field_mark)
  BY ValuesType
<1>2. /\ Len(F) \in Nat \ {0} /\ Len(y) \in Nat /\ Len(s) \in Nat
      /\ Len(value) \in Nat /\ F \in Seq(Text) /\ V \in Seq(Text)
  BY <1>1, EmptySeq DEF Parts, Text
<1>3. Len(V) \in Nat /\ m \in Nat /\ Len(V) <= m /\ r <= m
  <2>1. r \in Nat
    OBVIOUS
  <2> QED
    BY <2>1, ReachType
<1> HIDE DEF V
<1>4. old \in Text /\ free(old, value_mark) /\ free(old, field_mark)
  <2>1. CASE r \in 1..Len(V)
    BY <1>1, <1>2, <2>1, PartType
  <2>2. CASE r \notin 1..Len(V)
    <3>1. old = <<>> /\ old \in Text
      BY <1>2, <2>2, PartType
    <3>2. free(<<>>, value_mark) /\ free(<<>>, field_mark)
      BY DEF free
    <3> QED
      BY <3>1, <3>2, Zenon
  <2> QED
    BY <2>1, <2>2
<1> HIDE DEF old
<1>5. new \in Text /\ Len(new) = Len(old) + Len(value) /\ Len(old) \in Nat
  <2>1. old \in Seq(1..255) /\ value \in Seq(1..255)
    BY <1>4 DEF Text
  <2>2. old \o value \in Seq(1..255) /\ Len(old \o value) = Len(old) + Len(value)
    BY <2>1, ConcatProperties
  <2> QED
    BY <2>1, <2>2 DEF Text
<1>6. Len(split(new, value_mark)) <= Len(value) + 1
  <2>1. split(old, value_mark) = <<old>>
    BY <1>4, SplitFree
  <2>2. Len(split(old, value_mark)) = 1
    BY <2>1
  <2>3. Len(split(new, value_mark)) =
          Len(split(old, value_mark)) + Len(split(value, value_mark)) - 1
    BY <1>4, SplitCount
  <2>4. Len(split(value, value_mark)) \in Nat
        /\ Len(split(value, value_mark)) <= Len(value) + 1
    BY SplitType DEF Parts
  <2>5. Len(split(new, value_mark)) = 1 + Len(split(value, value_mark)) - 1
    BY <2>2, <2>3, Zenon
  <2> QED
    BY <1>2, <2>4, <2>5
<1>7. Len(split(new, value_mark)) \in Nat
  BY <1>5, SplitType DEF Parts
<1> HIDE DEF new
<1>8. Changes(q, V, y, r, new, J)
  BY <1>5, ChangedParts, Zenon DEF V
<1>9. R = with_values(s, 2, q) /\ J = join(q, value_mark)
  BY Library, Zenon
<1> HIDE DEF q, R, J, y, m
<1>10. q \in Parts /\ r \in 1..Len(q)
  BY <1>8 DEF Changes
<1>11. PutInValues(s, J, R)
  BY <1>9, <1>10, ValuesPut, Zenon
<1>12. J \in Text /\ R \in Text
  BY <1>11 DEF PutInValues
<1>13. G \in Parts /\ Len(G) \in Nat \ {0} /\ Len(J) \in Nat
  <2>1. G \in Parts
    BY <1>12, ValuesType
  <2> QED
    BY <1>12, <2>1, EmptySeq DEF Parts, Text
<1>14. Len(F) >= 2
  OBVIOUS
<1> HIDE DEF F, H
<1>15. /\ Len(R) = Len(s) + (IF Len(F) >= 2 THEN 0 ELSE 1) + Len(J) - Len(y)
       /\ Len(H) = Len(G) - 1 + IF Len(F) >= 2 THEN Len(F) ELSE 2
       /\ values_of(R, 1) = values_of(s, 1)
       /\ values_of(R, 2) = split(G[1], value_mark)
  BY <1>11, Zenon DEF PutInValues, F, H, y
<1>16. Len(R) = Len(s) + 0 + Len(J) - Len(y) /\ Len(H) = Len(G) - 1 + Len(F)
  BY <1>14, <1>15, Zenon
<1>17. /\ Len(q) = m
       /\ Len(J) = Len(y) + Len(q) - Len(V) + Len(new) - Len(old)
       /\ Len(split(J, value_mark)) <= m - 1 + Len(split(new, value_mark))
  BY <1>8, Zenon DEF Changes, m, old
<1>18. Len(R) <= Len(s) + (m - Len(V)) + Len(value)
  BY <1>2, <1>3, <1>5, <1>13, <1>16, <1>17
<1>19. Len(values_of(R, 2)) <= m + Len(value)
  <2>1. 1 \in 1..Len(G)
    BY <1>13
  <2>2. join(G, field_mark) = J
    BY <1>12, MarksDiffer, JoinSplit DEF fields_of
  <2> HIDE DEF G
  <2>3. Len(split(G[1], value_mark)) <= Len(split(join(G, field_mark), value_mark))
    BY <1>13, <2>1, MarksDiffer, PartCount
  <2>4. Len(split(G[1], value_mark)) <= Len(split(J, value_mark))
    BY <2>2, <2>3, Zenon
  <2>5. Len(split(G[1], value_mark)) \in Nat /\ Len(split(J, value_mark)) \in Nat
    <3>1. G[1] \in Text
      BY <1>13, <2>1 DEF Parts
    <3> QED
      BY <1>12, <3>1, SplitType DEF Parts
  <2>6. Len(split(G[1], value_mark)) <= m + Len(value)
    BY <1>2, <1>3, <1>6, <1>7, <1>17, <2>4, <2>5
  <2> QED
    BY <1>15, <2>6, Zenon
<1>20. ASSUME free(value, value_mark), free(value, field_mark)
       PROVE  /\ values_of(R, 2) = q
              /\ Len(F) <= 2 => Len(H) = 2
  <2>1. \A i \in 1..Len(q) : free(q[i], value_mark) /\ free(q[i], field_mark)
    <3>1. q[r] = new
      <4>1. part(q, r) = new
        BY <1>8, <1>10 DEF Changes
      <4> QED
        BY <1>10, <4>1, PartType DEF Parts
    <3>2. \A i \in 1..Len(q) : i # r => /\ free(q[i], value_mark)
                                       /\ free(q[i], field_mark)
      BY <1>8, Zenon DEF Changes
    <3>3. free(new, value_mark) /\ free(new, field_mark)
      BY <1>4, <1>20, MarksDiffer, FreeTogether DEF new
    <3> QED
      BY <3>1, <3>2, <3>3
  <2>2. G = <<J>>
    BY <1>10, <2>1, OneField DEF G, J
  <2>3. Len(G) = 1 /\ G[1] = J
    BY <2>2
  <2>4. split(J, value_mark) = q
    BY <1>10, <2>1, MarksDiffer, SplitJoin DEF J
  <2>5. Len(F) <= 2 => Len(H) = 2
    <3>1. \A f \in Nat : f <= 2 /\ f >= 2 => 1 - 1 + f = 2
      OBVIOUS
    <3>2. Len(H) = 1 - 1 + Len(F)
      BY <1>16, <2>3, Zenon
    <3>3. Len(F) \in Nat
      BY <1>2
    <3> QED
      BY <1>14, <3>1, <3>2, <3>3, Zenon
  <2> QED
    BY <1>15, <2>3, <2>4, <2>5, Zenon
<1>21. Len(H) >= 2
  BY <1>2, <1>13, <1>14, <1>16
<1> QED
  BY <1>12, <1>15, <1>18, <1>19, <1>20, <1>21, Zenon
     DEF R, H, q, F, V, m, new, old, ValueReplaced
-----------------------------------------------------------------------------
(* A name and its value. *)

Fits(s) == \A field \in 1..2 : Len(values_of(s, field)) < RankLimit

(* Where a name goes that is not there.                                    *)
PlaceFor(s, r) ==
  /\ r - 1 <= Len(values_of(s, 1))
  /\ Len(fields_of(s)) >= 2 \/ (s = <<>> /\ r = 1)

Room(s, name, value) ==
  Len(s) + Len(name) + Len(value) + 2 <= MaxSize

(* An empty content is one empty field of one empty value.                 *)
LEMMA EmptyText ==
  /\ <<>> \in Text /\ fields_of(<<>>) = << <<>> >>
  /\ \A field \in 1..2 : values_of(<<>>, field) = << <<>> >>
<1>1. fields_of(<<>>) = << <<>> >>
  BY SplitEmpty DEF fields_of
<1>2. ASSUME NEW field \in 1..2
      PROVE  values_of(<<>>, field) = << <<>> >>
  <2>1. part(fields_of(<<>>), field) = <<>>
    BY <1>1 DEF part
  <2> QED
    BY <2>1, SplitEmpty DEF values_of, fields_of
<1> QED
  BY <1>1, <1>2 DEF Text

(* The values of a field, of a content of two, are no more than its bytes. *)
LEMMA ValuesFit ==
  ASSUME NEW s \in Text, Len(fields_of(s)) >= 2, NEW field \in 1..2
  PROVE  Len(values_of(s, field)) <= Len(s)
<1>1. /\ fields_of(s) \in Parts /\ part(fields_of(s), field) \in Text
      /\ values_of(s, field) = split(part(fields_of(s), field), value_mark)
  BY ValuesType
<1>2. Len(fields_of(s)) \in Nat /\ field \in 1..Len(fields_of(s))
  BY <1>1 DEF Parts
<1>3. Len(part(fields_of(s), field)) + Len(fields_of(s)) - 1 <= Len(s)
  BY <1>2, FieldShorter
<1>4. /\ Len(values_of(s, field)) <= Len(part(fields_of(s), field)) + 1
      /\ Len(values_of(s, field)) \in Nat
  <2>1. /\ split(part(fields_of(s), field), value_mark) \in Parts
        /\ Len(split(part(fields_of(s), field), value_mark)) <=
             Len(part(fields_of(s), field)) + 1
    BY <1>1, SplitType
  <2> QED
    BY <1>1, <2>1 DEF Parts
<1>5. Len(s) \in Nat /\ Len(part(fields_of(s), field)) \in Nat
  BY <1>1 DEF Text
<1> QED
  BY <1>2, <1>3, <1>4, <1>5

(* R1 is s with the name at rank r, R is R1 with the value there.          *)
PairAdded(s, r, name, value, R1, R) ==
  /\ R1 \in Text /\ Fits(R1) /\ Len(R1) <= MaxSize
  /\ R \in Text /\ Fits(R) /\ Len(fields_of(R)) >= 2
  /\ Len(R) <= MaxSize + Len(values_of(R, 1))
  /\ r - 1 <= Len(values_of(R1, 2)) => Len(R) <= MaxSize
  /\ values_of(R, 1) = values_of(R1, 1)
  /\ free(name, value_mark) /\ free(name, field_mark) =>
       /\ values_of(R1, 1) = opened(s, 1, r, name)
       /\ values_of(R1, 2) = values_of(s, 2)
       /\ Len(fields_of(R1)) = Len(fields_of(s))
  /\ free(value, value_mark) /\ free(value, field_mark) =>
       /\ values_of(R, 2) = opened(R1, 2, r, value)
       /\ Len(fields_of(R1)) <= 2 => Len(fields_of(R)) = 2

(* Both insertions keep the content within what the size test allows, but  *)
(* for the marks of ranks without a value; and the ranks below RankLimit.  *)
LEMMA PairIn ==
  ASSUME NEW s \in Text, NEW r \in Nat \ {0}, NEW name \in Text,
         NEW value \in Text, PlaceFor(s, r), Room(s, name, value)
  PROVE  PairAdded(s, r, name, value, QMIns(s, 1, r, name),
                   QMIns(QMIns(s, 1, r, name), 2, r, value))
<1> DEFINE R1 == QMIns(s, 1, r, name)
           R == QMIns(R1, 2, r, value)
<1>1. NameAdded(s, r, name, R1)
  BY NameIn DEF PlaceFor
<1> HIDE DEF R1
<1>2. R1 \in Text /\ Len(fields_of(R1)) >= Len(fields_of(s))
  BY <1>1, Zenon DEF NameAdded
<1>3. Len(fields_of(s)) \in Nat /\ Len(fields_of(R1)) \in Nat
  BY <1>2, ValuesType DEF Parts
<1>4. Len(fields_of(R1)) >= 2 \/ r = 1
  BY <1>2, <1>3 DEF PlaceFor
<1>5. ValueAdded(R1, r, value, R)
  BY <1>2, <1>4, ValueIn
<1> HIDE DEF R
<1>6. R \in Text /\ Len(fields_of(R)) >= 2 /\ values_of(R, 1) = values_of(R1, 1)
  BY <1>5, Zenon DEF ValueAdded
<1> DEFINE T == Len(s)
           n == Len(name)
           v == Len(value)
           K1 == Len(values_of(R1, 1))
           V1 == Len(values_of(R1, 2))
           V2 == Len(values_of(R, 2))
           e == reach(values_of(R1, 2), r - 1)
           c == IF part(fields_of(s), 1) = <<>> /\ r = 1 THEN 0 ELSE 1
<1>7. /\ T \in Nat /\ n \in Nat /\ v \in Nat /\ Len(R1) \in Nat /\ Len(R) \in Nat
      /\ K1 \in Nat /\ V1 \in Nat \ {0} /\ V2 \in Nat
  <2>1. r - 1 \in Nat
    OBVIOUS
  <2>2. /\ values_of(R1, 1) \in Parts /\ values_of(R1, 2) \in Parts
        /\ values_of(R, 2) \in Parts
    BY <1>2, <1>6, ValuesType
  <2> QED
    BY <1>2, <1>6, <2>2, TextLength, PartsLength
<1>8. T + n + v + 2 <= MaxSize /\ MaxSize <= RankLimit /\ MaxSize \in Nat
      /\ RankLimit \in Nat
  BY DynarrayAssumption DEF Room
<1>9. e \in Nat /\ (e = V1 \/ e = r - 1) /\ (r - 1 <= V1 => e = V1)
  BY <1>7 DEF reach
<1>10. /\ c \in {0, 1} /\ Len(R1) = T + n + c /\ K1 >= r /\ K1 <= T + n + 1
       /\ s # <<>> \/ name # <<>> => V1 <= T + n
  BY <1>1, Zenon DEF NameAdded
<1>11. Len(R) <= Len(R1) + (e - V1) + v + 1 /\ V2 <= e + v + 1
  BY <1>5, Zenon DEF ValueAdded
<1>12. r - 1 <= T
  <2>1. CASE s = <<>> /\ r = 1
    BY <1>7, <2>1
  <2>2. CASE Len(fields_of(s)) >= 2
    <3>1. Len(values_of(s, 1)) <= T /\ Len(values_of(s, 1)) \in Nat
      BY <2>2, ValuesFit, ValuesType DEF Parts
    <3> QED
      BY <1>7, <3>1 DEF PlaceFor
  <2> QED
    BY <2>1, <2>2 DEF PlaceFor
<1>20. ASSUME s = <<>>, name = <<>>
       PROVE  Len(R1) = 0 /\ V1 = 1 /\ r - 1 = 0
  <2>1. T = 0 /\ n = 0 /\ r = 1
    BY <1>7, <1>12, <1>20
  <2>2. part(fields_of(s), 1) = <<>>
    BY <1>20, EmptyText DEF part
  <2>3. c = 0
    BY <2>1, <2>2
  <2>4. Len(R1) = 0
    BY <1>10, <2>1, <2>3
  <2>5. R1 = <<>>
    BY <1>2, <2>4, EmptySeq DEF Text
  <2>6. V1 = 1
    BY <2>5, EmptyText
  <2> QED
    BY <2>1, <2>4, <2>6
<1>21. V2 <= Len(R)
  BY <1>6, ValuesFit
<1>13. Fits(R1)
  <2>1. K1 < RankLimit /\ V1 < RankLimit
    <3>1. s = <<>> /\ name = <<>> => V1 = 1
      BY <1>20
    <3>2. 1 < RankLimit
      BY DynarrayAssumption
    <3> HIDE DEF T, n, v, K1, V1, V2, e, c
    <3> QED
      BY <1>7, <1>8, <1>10, <3>1, <3>2
  <2> QED
    BY <2>1 DEF Fits
<1>14. Fits(R)
  <2>1. K1 < RankLimit /\ V2 < RankLimit
    <3> DEFINE l == Len(R)
               l1 == Len(R1)
    <3>1. s = <<>> /\ name = <<>> => l1 = 0 /\ V1 = 1 /\ r - 1 = 0
      BY <1>20
    <3>2. /\ l \in Nat /\ l1 \in Nat /\ V2 <= l
          /\ l <= l1 + (e - V1) + v + 1
      BY <1>7, <1>11, <1>21
    <3> HIDE DEF T, n, v, K1, V1, V2, e, c, l, l1
    <3>3. CASE s = <<>> /\ name = <<>>
      BY <1>7, <1>8, <1>9, <1>10, <3>1, <3>2, <3>3
    <3>4. CASE ~(s = <<>> /\ name = <<>>)
      BY <1>7, <1>8, <1>9, <1>10, <1>11, <1>12, <3>4
    <3> QED
      BY <3>3, <3>4
  <2> QED
    BY <1>6, <2>1 DEF Fits
<1>15. /\ Len(R1) <= MaxSize /\ Len(R) <= MaxSize + K1
       /\ r - 1 <= V1 => Len(R) <= MaxSize
  <2> DEFINE l == Len(R)
             l1 == Len(R1)
  <2>1. /\ l \in Nat /\ l1 \in Nat /\ l1 = T + n + c
        /\ l <= l1 + (e - V1) + v + 1
    BY <1>7, <1>10, <1>11
  <2> HIDE DEF T, n, v, K1, V1, V2, e, c, l, l1
  <2>2. /\ l1 <= MaxSize /\ l <= MaxSize + K1
        /\ r - 1 <= V1 => l <= MaxSize
    BY <1>7, <1>8, <1>9, <1>10, <2>1
  <2> QED
    BY <2>2 DEF l, l1
<1>16. Len(R) <= MaxSize + Len(values_of(R, 1))
  BY <1>6, <1>15
<1>17. free(name, value_mark) /\ free(name, field_mark) =>
         /\ values_of(R1, 1) = opened(s, 1, r, name)
         /\ values_of(R1, 2) = values_of(s, 2)
         /\ Len(fields_of(R1)) = Len(fields_of(s))
  BY <1>1, Zenon DEF NameAdded
<1>18. free(value, value_mark) /\ free(value, field_mark) =>
         /\ values_of(R, 2) = opened(R1, 2, r, value)
         /\ Len(fields_of(R1)) <= 2 => Len(fields_of(R)) = 2
  BY <1>5, Zenon DEF ValueAdded
<1> QED
  BY <1>2, <1>6, <1>13, <1>14, <1>15, <1>16, <1>17, <1>18, Zenon
     DEF PairAdded, R, R1
(* R is s with the value behind the others of the name at rank r.          *)
ValueKept(s, r, value, R) ==
  /\ R \in Text /\ Fits(R) /\ Len(fields_of(R)) >= 2
  /\ Len(R) <= MaxSize + Len(values_of(R, 1))
  /\ r - 1 <= Len(values_of(s, 2)) => Len(R) <= MaxSize
  /\ values_of(R, 1) = values_of(s, 1)
  /\ free(value, value_mark) /\ free(value, field_mark) =>
       /\ values_of(R, 2) =
            changed(s, 2, r, part(values_of(s, 2), r) \o value)
       /\ Len(fields_of(s)) <= 2 => Len(fields_of(R)) = 2

(* Such a replacement keeps the same limits.                               *)
LEMMA ValueFor ==
  ASSUME NEW s \in Text, NEW r \in Nat \ {0}, NEW name \in Text,
         NEW value \in Text, r <= Len(values_of(s, 1)),
         Len(fields_of(s)) >= 2, Room(s, name, value)
  PROVE  ValueKept(s, r, value,
                   QMReplace(s, 2, r, part(values_of(s, 2), r) \o value))
<1> DEFINE R == QMReplace(s, 2, r, part(values_of(s, 2), r) \o value)
<1>1. ValueReplaced(s, r, value, R)
  BY ValueBehind
<1> HIDE DEF R
<1>2. R \in Text /\ Len(fields_of(R)) >= 2 /\ values_of(R, 1) = values_of(s, 1)
  BY <1>1, Zenon DEF ValueReplaced
<1> DEFINE T == Len(s)
           n == Len(name)
           v == Len(value)
           K == Len(values_of(s, 1))
           V == Len(values_of(s, 2))
           V2 == Len(values_of(R, 2))
           e == reach(values_of(s, 2), r)
           l == Len(R)
<1>3. /\ T \in Nat /\ n \in Nat /\ v \in Nat /\ l \in Nat
      /\ K \in Nat /\ V \in Nat \ {0} /\ V2 \in Nat
  <2>1. /\ values_of(s, 1) \in Parts /\ values_of(s, 2) \in Parts
        /\ values_of(R, 2) \in Parts
    BY <1>2, ValuesType
  <2> QED
    BY <1>2, <2>1, TextLength, PartsLength, Zenon
<1>4. T + n + v + 2 <= MaxSize /\ MaxSize <= RankLimit /\ MaxSize \in Nat
      /\ RankLimit \in Nat
  BY DynarrayAssumption DEF Room
<1>5. e \in Nat /\ (e = V \/ e = r) /\ (r <= V => e = V)
  BY <1>3 DEF reach
<1>6. l <= T + (e - V) + v /\ V2 <= e + v
  BY <1>1, Zenon DEF ValueReplaced
<1>7. K <= T /\ V <= T /\ r <= K
  BY ValuesFit
<1>8. /\ K < RankLimit /\ V2 < RankLimit
      /\ l <= MaxSize + K
      /\ r - 1 <= V => l <= MaxSize
  <2> HIDE DEF T, n, v, K, V, V2, e, l
  <2> QED
    BY <1>3, <1>4, <1>5, <1>6, <1>7
<1>9. Fits(R)
  BY <1>2, <1>8 DEF Fits
<1>10. free(value, value_mark) /\ free(value, field_mark) =>
         /\ values_of(R, 2) =
              changed(s, 2, r, part(values_of(s, 2), r) \o value)
         /\ Len(fields_of(s)) <= 2 => Len(fields_of(R)) = 2
  BY <1>1, Zenon DEF ValueReplaced
<1>11. /\ Len(R) <= MaxSize + Len(values_of(R, 1))
       /\ r - 1 <= Len(values_of(s, 2)) => Len(R) <= MaxSize
  BY <1>2, <1>8
<1> QED
  BY <1>2, <1>9, <1>10, <1>11, Zenon DEF ValueKept, R

-----------------------------------------------------------------------------
(* Names and their values at the same ranks. *)

(* The names in order, the value of each at its rank in V.                 *)
Pairs(K, V, A) ==
  /\ {K[i] : i \in 1..Len(K)} = {n \in Names : A[n] # NULL}
  /\ \A i, j \in 1..Len(K) : i < j => precedes(K[i], K[j])
  /\ Len(V) <= Len(K)
  /\ \A i \in 1..Len(K) : part(V, i) = A[K[i]]

Given == [Names -> Text \cup {NULL}]

(* What opened leaves at each rank.                                        *)
LEMMA OpenedAt ==
  ASSUME NEW s \in Text, NEW field, NEW r \in Nat \ {0}, NEW new \in Text
  PROVE  LET q == opened(s, field, r, new)
             V == values_of(s, field)
         IN  /\ q \in Parts /\ Len(q) <= reach(V, r - 1) + 1
             /\ part(fields_of(s), field) # <<>> \/ r > 1 =>
                  Len(q) = reach(V, r - 1) + 1
             /\ \A i \in Nat \ {0} : part(q, i) = IF i < r THEN part(V, i)
                                                 ELSE IF i = r THEN new
                                                 ELSE part(V, i - 1)
<1> DEFINE q == opened(s, field, r, new)
           V == values_of(s, field)
           y == part(fields_of(s), field)
           J == join(q, value_mark)
           at(i) == IF i < r THEN part(V, i)
                    ELSE IF i = r THEN new ELSE part(V, i - 1)
<1>1. Opens(q, V, y, r, new, J)
  BY OpenedParts
<1>2. V \in Parts /\ (y = <<>> => V = << <<>> >>)
  <2>1. V \in Parts /\ V = split(y, value_mark)
    BY ValuesType
  <2> QED
    BY <2>1, SplitEmpty
<1> HIDE DEF q, V, y, J
<1>3. q \in Parts /\ r \in 1..Len(q)
      /\ \A i \in 1..Len(q) : part(q, i) = at(i)
  BY <1>1, Zenon DEF Opens
<1>4. q \in Seq(Text) /\ V \in Seq(Text) /\ Len(q) \in Nat /\ Len(V) \in Nat \ {0}
  BY <1>2, <1>3 DEF Parts
<1>5. CASE y = <<>> /\ r = 1
  <2>1. Len(q) = 1
    BY <1>1, <1>5, Zenon DEF Opens
  <2>2. V = << <<>> >>
    BY <1>2, <1>5
  <2>3. reach(V, r - 1) = 1
    BY <1>5, <2>2 DEF reach
  <2>4. ASSUME NEW i \in Nat \ {0}, i > 1
        PROVE  part(q, i) = at(i)
    <3>1. part(q, i) = <<>>
      BY <1>4, <2>1, <2>4, PartType
    <3>2. part(V, i - 1) = <<>>
      <4>1. CASE i - 1 \in 1..Len(V)
        BY <2>2, <4>1 DEF part
      <4>2. CASE i - 1 \notin 1..Len(V)
        BY <1>4, <4>2, PartType
      <4> QED
        BY <4>1, <4>2
    <3> QED
      BY <1>5, <2>4, <3>1, <3>2
  <2>5. \A i \in Nat \ {0} : part(q, i) = at(i)
    <3> TAKE i \in Nat \ {0}
    <3>1. i = 1 => i \in 1..Len(q)
      BY <2>1
    <3> QED
      BY <1>3, <2>4, <3>1
  <2>6. /\ Len(q) <= reach(V, r - 1) + 1
        /\ y # <<>> \/ r > 1 => Len(q) = reach(V, r - 1) + 1
    BY <1>5, <2>1, <2>3
  <2> QED
    BY <1>3, <2>5, <2>6, Zenon DEF q, V, y
<1>6. CASE ~(y = <<>> /\ r = 1)
  <2>1. Len(q) = reach(V, r - 1) + 1
    BY <1>1, <1>6, Zenon DEF Opens
  <2>2. Len(V) <= reach(V, r - 1) /\ reach(V, r - 1) \in Nat
    BY <1>4 DEF reach
  <2>3. ASSUME NEW i \in Nat \ {0}, i > Len(q)
        PROVE  part(q, i) = at(i)
    <3>1. part(q, i) = <<>> /\ i > r /\ i - 1 \notin 1..Len(V)
      BY <1>3, <1>4, <2>1, <2>2, <2>3, PartType
    <3>2. part(V, i - 1) = <<>>
      BY <1>4, <3>1, PartType
    <3> QED
      BY <3>1, <3>2
  <2>4. \A i \in Nat \ {0} : part(q, i) = at(i)
    <3> TAKE i \in Nat \ {0}
    <3>1. i \in 1..Len(q) \/ i > Len(q)
      BY <1>4
    <3> QED
      BY <1>3, <2>3, <3>1
  <2> QED
    BY <1>3, <2>1, <2>2, <2>4 DEF q, V, y
<1> QED
  BY <1>5, <1>6

(* q is p with new at rank r.                                              *)
OneMore(q, p, r, new) ==
  \A i \in Nat \ {0} : part(q, i) = IF i < r THEN part(p, i)
                                    ELSE IF i = r THEN new ELSE part(p, i - 1)

(* OpenedAt, for steps that use only the ranks.                            *)
LEMMA OpenedOneMore ==
  ASSUME NEW s \in Text, NEW field, NEW r \in Nat \ {0}, NEW new \in Text
  PROVE  OneMore(opened(s, field, r, new), values_of(s, field), r, new)
BY OpenedAt DEF OneMore

(* q is p with new at rank r.                                              *)
OneChanged(q, p, r, new) ==
  /\ q \in Parts /\ Len(q) = reach(p, r)
  /\ \A i \in Nat \ {0} : part(q, i) = IF i = r THEN new ELSE part(p, i)

(* What changed leaves at each rank.                                       *)
LEMMA ChangedAt ==
  ASSUME NEW s \in Text, NEW field, NEW r \in Nat \ {0}, NEW new \in Text
  PROVE  OneChanged(changed(s, field, r, new), values_of(s, field), r, new)
<1> DEFINE q == changed(s, field, r, new)
           V == values_of(s, field)
           y == part(fields_of(s), field)
           J == join(q, value_mark)
<1>1. Changes(q, V, y, r, new, J)
  BY ChangedParts
<1>2. V \in Parts
  BY ValuesType
<1> HIDE DEF q, V, y, J
<1>3. q \in Parts /\ r \in 1..Len(q) /\ Len(q) = reach(V, r)
      /\ \A i \in 1..Len(q) : part(q, i) = IF i = r THEN new ELSE part(V, i)
  BY <1>1, Zenon DEF Changes
<1>4. q \in Seq(Text) /\ V \in Seq(Text) /\ Len(q) \in Nat /\ Len(V) \in Nat
  BY <1>2, <1>3 DEF Parts
<1>5. Len(V) <= Len(q)
  BY <1>3, <1>4 DEF reach
<1>6. ASSUME NEW i \in Nat \ {0}, i > Len(q)
      PROVE  part(q, i) = IF i = r THEN new ELSE part(V, i)
  <2>1. i # r /\ i \notin 1..Len(q) /\ i \notin 1..Len(V)
    BY <1>3, <1>4, <1>5, <1>6
  <2>2. part(q, i) = <<>> /\ part(V, i) = <<>>
    BY <1>4, <2>1, PartType
  <2> QED
    BY <2>1, <2>2
<1>7. \A i \in Nat \ {0} : part(q, i) = IF i = r THEN new ELSE part(V, i)
  <2> TAKE i \in Nat \ {0}
  <2>1. i \in 1..Len(q) \/ i > Len(q)
    BY <1>4
  <2> QED
    BY <1>3, <1>6, <2>1
<1>8. OneChanged(q, V, r, new)
  BY <1>3, <1>7, Zenon DEF OneChanged
<1> QED
  BY <1>8 DEF q, V
(* Names are texts; what was given is theirs.                              *)
LEMMA PairsType ==
  ASSUME NEW K \in Parts, NEW V, NEW A \in Given, Pairs(K, V, A),
         NEW i \in 1..Len(K)
  PROVE  /\ K[i] \in Names /\ K[i] \in Text
         /\ A[K[i]] # NULL /\ A[K[i]] \in Text
<1>1. K[i] \in Names /\ A[K[i]] # NULL
  BY DEF Pairs
<1> QED
  BY <1>1, DynarrayAssumption DEF Given

(* Every name is there once.                                               *)
LEMMA PairsOnce ==
  ASSUME NEW K \in Parts, NEW V, NEW A \in Given, Pairs(K, V, A)
  PROVE  \A i, j \in 1..Len(K) : K[i] = K[j] => i = j
<1>1. Len(K) \in Nat
  BY DEF Parts
<1>2. ASSUME NEW i \in 1..Len(K), NEW j \in 1..Len(K), i < j, K[i] = K[j]
      PROVE  FALSE
  <2>1. precedes(K[i], K[j]) /\ K[i] \in Text
    BY <1>2, PairsType DEF Pairs
  <2>2. precedes(K[i], K[i])
    BY <1>2, <2>1
  <2> QED
    BY <2>1, <2>2, PrecedesOrder
<1> QED
  BY <1>1, <1>2

(* The first name of all.                                                  *)
LEMMA PairsFirst ==
  ASSUME NEW A \in Given, {n \in Names : A[n] # NULL} = {},
         NEW name \in Names, NEW value \in Text
  PROVE  Pairs(<<name>>, <<value>>, [A EXCEPT ![name] = value])
<1> DEFINE A2 == [A EXCEPT ![name] = value]
           K == <<name>>
           V == <<value>>
<1>1. /\ A2[name] = value /\ \A n \in Names : n # name => A2[n] = A[n]
      /\ value # NULL
  BY DynarrayAssumption DEF Given
<1>2. \A n \in Names : A2[n] # NULL <=> n = name
  BY <1>1
<1>3. /\ Len(K) = 1 /\ K[1] = name /\ Len(V) = 1 /\ part(V, 1) = value
  BY DEF part
<1> HIDE DEF A2, K, V
<1>4. {K[i] : i \in 1..Len(K)} = {n \in Names : A2[n] # NULL}
  BY <1>2, <1>3
<1>5. /\ \A i, j \in 1..Len(K) : i < j => precedes(K[i], K[j])
      /\ Len(V) <= Len(K)
      /\ \A i \in 1..Len(K) : part(V, i) = A2[K[i]]
  BY <1>1, <1>3
<1> QED
  BY <1>4, <1>5 DEF Pairs, K, V, A2

(* A name goes where the ones before it precede it and the next does not:  *)
(* the search finds that place.                                            *)
Place(K, name, r) ==
  /\ r \in 1..Len(K) + 1
  /\ \A i \in 1..r - 1 : precedes(K[i], name)
  /\ r <= Len(K) => ~precedes(K[r], name)

(* A name that is not at its place is not there, and precedes all those    *)
(* from its place on.                                                      *)
LEMMA PlaceOf ==
  ASSUME NEW K \in Parts, NEW V, NEW A \in Given, Pairs(K, V, A),
         NEW name \in Names, NEW r, Place(K, name, r), part(K, r) # name
  PROVE  /\ A[name] = NULL
         /\ \A i \in r..Len(K) : precedes(name, K[i])
         /\ \A i \in 1..Len(K) : K[i] # name
<1>1. /\ name \in Text /\ Len(K) \in Nat /\ r \in 1..Len(K) + 1
      /\ K \in Seq(Text)
  BY DynarrayAssumption DEF Parts, Place
<1>2. ASSUME NEW i \in 1..Len(K), i < r
      PROVE  K[i] # name
  <2>1. precedes(K[i], name)
    BY <1>1, <1>2 DEF Place
  <2> QED
    BY <1>1, <2>1, PrecedesOrder
<1>3. ASSUME NEW i \in r..Len(K)
      PROVE  precedes(name, K[i])
  <2>1. r \in 1..Len(K) /\ i \in 1..Len(K)
    BY <1>1
  <2>2. K[r] \in Text /\ K[i] \in Text
    BY <2>1, PairsType
  <2>3. K[r] # name /\ ~precedes(K[r], name)
    BY <1>1, <2>1, PartType DEF Place
  <2>4. precedes(name, K[r])
    BY <1>1, <2>2, <2>3, PrecedesOrder
  <2>5. CASE i = r
    BY <2>4, <2>5
  <2>6. CASE i # r
    <3>1. precedes(K[r], K[i])
      BY <2>1, <2>6, <1>1 DEF Pairs
    <3>2. \A c \in Text : precedes(name, K[r]) /\ precedes(K[r], c) =>
                            precedes(name, c)
      BY <1>1, <2>2, PrecedesOrder
    <3> QED
      BY <2>2, <2>4, <3>1, <3>2
  <2> QED
    BY <2>5, <2>6
<1>4. \A i \in 1..Len(K) : K[i] # name
  <2> TAKE i \in 1..Len(K)
  <2>1. CASE i < r
    BY <1>2, <2>1
  <2>2. CASE ~(i < r)
    <3>1. i \in r..Len(K)
      BY <1>1, <2>2
    <3>2. precedes(name, K[i])
      BY <1>3, <3>1
    <3> QED
      BY <1>1, <3>2, PrecedesOrder
  <2> QED
    BY <2>1, <2>2
<1>5. A[name] = NULL
  BY <1>4 DEF Pairs
<1> QED
  BY <1>3, <1>4, <1>5

(* A name with its value at the place of both.                             *)
LEMMA PairsOpened ==
  ASSUME NEW K \in Parts, NEW V \in Parts, NEW A \in Given, Pairs(K, V, A),
         NEW name \in Names, NEW value \in Text,
         NEW r, Place(K, name, r), part(K, r) # name,
         NEW K2 \in Parts, Len(K2) = Len(K) + 1, OneMore(K2, K, r, name),
         NEW V2 \in Parts, Len(V2) <= reach(V, r - 1) + 1,
         OneMore(V2, V, r, value)
  PROVE  Pairs(K2, V2, [A EXCEPT ![name] = value])
<1> DEFINE A2 == [A EXCEPT ![name] = value]
<1>1. /\ A2[name] = value /\ \A n \in Names : n # name => A2[n] = A[n]
      /\ value # NULL
  BY DynarrayAssumption DEF Given
<1> HIDE DEF A2
<1>2. /\ Len(K) \in Nat /\ Len(V) \in Nat /\ Len(V2) \in Nat
      /\ K \in Seq(Text) /\ K2 \in Seq(Text) /\ r \in 1..Len(K) + 1
  BY DEF Parts, Place
<1>3. \A i \in 1..Len(K) : K[i] # name
  BY PlaceOf
<1>4. \A i \in r..Len(K) : precedes(name, K[i])
  BY PlaceOf
<1>5. \A i \in 1..r - 1 : precedes(K[i], name)
  BY DEF Place
<1>6. ASSUME NEW i \in 1..Len(K2)
      PROVE  /\ i < r => i \in 1..Len(K) /\ K2[i] = K[i]
             /\ i = r => K2[i] = name
             /\ i > r => i - 1 \in r..Len(K) /\ i - 1 \in 1..Len(K)
                         /\ K2[i] = K[i - 1]
  <2>1. i \in Nat \ {0}
    BY <1>2
  <2>2. part(K2, i) = IF i < r THEN part(K, i)
                      ELSE IF i = r THEN name ELSE part(K, i - 1)
    BY <2>1 DEF OneMore
  <2>3. part(K2, i) = K2[i]
    BY <1>2, PartType
  <2>4. CASE i < r
    <3>1. i \in 1..Len(K)
      BY <1>2, <2>4
    <3> QED
      BY <1>2, <2>2, <2>3, <2>4, <3>1, PartType
  <2>5. CASE i = r
    BY <2>2, <2>3, <2>5
  <2>6. CASE i > r
    <3>1. i - 1 \in 1..Len(K) /\ i - 1 \in r..Len(K)
      BY <1>2, <2>6
    <3>2. part(K, i - 1) = K[i - 1]
      BY <1>2, <3>1, PartType
    <3> QED
      BY <1>2, <2>2, <2>3, <2>6, <3>1, <3>2
  <2> QED
    BY <1>2, <2>4, <2>5, <2>6
<1>7. {K2[i] : i \in 1..Len(K2)} = {n \in Names : A2[n] # NULL}
  <2>1. ASSUME NEW i \in 1..Len(K2)
        PROVE  K2[i] \in {n \in Names : A2[n] # NULL}
    <3>1. \A j \in 1..Len(K) : K[j] \in Names /\ A[K[j]] # NULL
      BY PairsType
    <3>2. K2[i] = name \/ \E j \in 1..Len(K) : K2[i] = K[j]
      <4>1. i < r \/ i = r \/ i > r
        BY <1>2
      <4> QED
        BY <1>6, <4>1
    <3> QED
      BY <1>1, <1>3, <3>1, <3>2
  <2>2. ASSUME NEW n \in Names, A2[n] # NULL
        PROVE  \E i \in 1..Len(K2) : K2[i] = n
    <3>1. CASE n = name
      <4>1. r \in 1..Len(K2)
        BY <1>2
      <4> QED
        BY <1>6, <3>1, <4>1
    <3>2. CASE n # name
      <4>1. PICK j \in 1..Len(K) : K[j] = n
        BY <1>1, <2>2, <3>2 DEF Pairs
      <4>2. CASE j < r
        <5>1. j \in 1..Len(K2)
          BY <1>2
        <5> QED
          BY <1>6, <4>1, <4>2, <5>1
      <4>3. CASE ~(j < r)
        <5>1. j + 1 \in 1..Len(K2) /\ j + 1 > r /\ j + 1 - 1 = j
          BY <1>2, <4>3
        <5> QED
          BY <1>6, <4>1, <5>1
      <4> QED
        BY <4>2, <4>3
    <3> QED
      BY <3>1, <3>2
  <2> QED
    BY <2>1, <2>2
<1>8. ASSUME NEW i \in 1..Len(K2), NEW j \in 1..Len(K2), i < j
      PROVE  precedes(K2[i], K2[j])
  <2>1. CASE j < r
    <3>1. i < r
      BY <1>2, <1>8, <2>1
    <3> QED
      BY <1>6, <1>8, <2>1, <3>1 DEF Pairs
  <2>2. CASE j = r
    <3>1. i < r /\ i \in 1..r - 1
      BY <1>2, <1>8, <2>2
    <3> QED
      BY <1>5, <1>6, <2>2, <3>1
  <2>3. CASE j > r /\ i < r
    <3>1. i < j - 1
      BY <1>2, <2>3
    <3> QED
      BY <1>6, <2>3, <3>1 DEF Pairs
  <2>4. CASE j > r /\ i = r
    BY <1>4, <1>6, <2>4
  <2>5. CASE j > r /\ i > r
    <3>1. i - 1 < j - 1
      BY <1>8
    <3> QED
      BY <1>6, <2>5, <3>1 DEF Pairs
  <2> QED
    BY <1>2, <2>1, <2>2, <2>3, <2>4, <2>5
<1>9. Len(V2) <= Len(K2)
  <2>1. Len(V) <= Len(K)
    BY DEF Pairs
  <2> QED
    BY <1>2, <2>1 DEF reach
<1>10. ASSUME NEW i \in 1..Len(K2)
       PROVE  part(V2, i) = A2[K2[i]]
  <2>1. i \in Nat \ {0}
    BY <1>2
  <2>2. part(V2, i) = IF i < r THEN part(V, i)
                      ELSE IF i = r THEN value ELSE part(V, i - 1)
    BY <2>1 DEF OneMore
  <2>3. \A j \in 1..Len(K) : /\ part(V, j) = A[K[j]]
                             /\ K[j] \in Names /\ K[j] # name
    BY <1>3, PairsType DEF Pairs
  <2>4. CASE i < r
    BY <1>1, <1>6, <2>2, <2>3, <2>4
  <2>5. CASE i = r
    BY <1>1, <1>6, <2>2, <2>5
  <2>6. CASE i > r
    <3>1. part(V2, i) = part(V, i - 1)
      BY <1>2, <2>2, <2>6
    <3>2. i - 1 \in 1..Len(K) /\ K2[i] = K[i - 1]
      BY <1>6, <2>6
    <3> QED
      BY <1>1, <2>3, <3>1, <3>2
  <2> QED
    BY <1>2, <2>4, <2>5, <2>6
<1> QED
  BY <1>7, <1>8, <1>9, <1>10 DEF Pairs, A2

(* More of the value of a name that is there.                              *)
LEMMA PairsChanged ==
  ASSUME NEW K \in Parts, NEW V \in Parts, NEW A \in Given, Pairs(K, V, A),
         NEW r \in 1..Len(K), NEW new \in Text,
         NEW V2 \in Parts, Len(V2) = reach(V, r),
         \A i \in Nat \ {0} : part(V2, i) = IF i = r THEN new ELSE part(V, i)
  PROVE  Pairs(K, V2, [A EXCEPT ![K[r]] = new])
<1> DEFINE name == K[r]
           A2 == [A EXCEPT ![name] = new]
<1>1. /\ A2[name] = new /\ \A n \in Names : n # name => A2[n] = A[n]
      /\ new # NULL /\ name \in Names /\ A[name] # NULL
  BY DynarrayAssumption, PairsType DEF Given
<1>2. Len(K) \in Nat /\ Len(V) \in Nat
  BY DEF Parts
<1>3. \A i \in 1..Len(K) : K[i] = name => i = r
  BY PairsOnce
<1> HIDE DEF A2, name
<1>4. {K[i] : i \in 1..Len(K)} = {n \in Names : A2[n] # NULL}
  <2>1. \A n \in Names : A2[n] # NULL <=> A[n] # NULL
    BY <1>1
  <2> QED
    BY <2>1 DEF Pairs
<1>5. Len(V2) <= Len(K)
  <2>1. Len(V) <= Len(K)
    BY DEF Pairs
  <2> QED
    BY <1>2, <2>1 DEF reach
<1>6. ASSUME NEW i \in 1..Len(K)
      PROVE  part(V2, i) = A2[K[i]]
  <2>1. i \in Nat \ {0}
    BY <1>2
  <2>2. part(V2, i) = IF i = r THEN new ELSE part(V, i)
    BY <2>1
  <2>3. CASE i = r
    BY <1>1, <2>2, <2>3 DEF name
  <2>4. CASE i # r
    <3>1. K[i] # name /\ K[i] \in Names /\ part(V, i) = A[K[i]]
      BY <1>3, <2>4, PairsType DEF Pairs
    <3> QED
      BY <1>1, <2>2, <2>4, <3>1
  <2> QED
    BY <2>3, <2>4
<1>7. \A i, j \in 1..Len(K) : i < j => precedes(K[i], K[j])
  BY DEF Pairs
<1> QED
  BY <1>4, <1>5, <1>6, <1>7 DEF Pairs, A2, name

OthersFull(A, name) ==
  \A n \in Names : n # name /\ A[n] # NULL => A[n] # <<>>

NotBefore(K, name, r) ==
  r \in 1..Len(K) + 1 /\ \A i \in 1..r - 1 : K[i] # name

(* If no name has an empty value, each name has a value of its own.        *)
LEMMA NoGap ==
  ASSUME NEW K \in Parts, NEW V \in Parts, NEW A \in Given, Pairs(K, V, A),
         NEW name, OthersFull(A, name), NEW r, NotBefore(K, name, r)
  PROVE  r - 1 <= Len(V)
<1>1. /\ Len(K) \in Nat /\ Len(V) \in Nat \ {0} /\ V \in Seq(Text)
      /\ r \in 1..Len(K) + 1
  BY DEF Parts, NotBefore
<1>2. SUFFICES ASSUME ~(r - 1 <= Len(V))
               PROVE  FALSE
  OBVIOUS
<1>3. r - 1 \in 1..Len(K) /\ r - 1 \in 1..r - 1 /\ r - 1 \notin 1..Len(V)
  BY <1>1, <1>2
<1>4. part(V, r - 1) = <<>>
  BY <1>1, <1>3, PartType
<1>5. /\ part(V, r - 1) = A[K[r - 1]] /\ K[r - 1] \in Names
      /\ A[K[r - 1]] # NULL /\ K[r - 1] # name
  BY <1>3, PairsType DEF Pairs, NotBefore
<1> QED
  BY <1>4, <1>5 DEF OthersFull
-----------------------------------------------------------------------------
(* The invariant, as a relation between the content and what was given. *)

NamesGiven(A) == {n \in Names : A[n] # NULL}

(* A after a name is received.                                             *)
and_given(A, name, value) ==
  [A EXCEPT ![name] = IF @ = NULL THEN value ELSE @ \o value]

Clean(A) == \A n \in NamesGiven(A) : ~has_mark(n) /\ ~has_mark(A[n])

Full(A) == Clean(A) /\ \A n \in NamesGiven(A) : A[n] # <<>>

text_of(c) == IF c = NULL THEN <<>> ELSE c

Bounded(c, A) ==
  /\ Fits(text_of(c))
  /\ Len(text_of(c)) <=
       MaxSize + IF Full(A) THEN 0 ELSE Len(values_of(text_of(c), 1))

Complete(c, A) ==
  /\ c # NULL => Len(fields_of(c)) >= 2
  /\ Clean(A) => IF c = NULL THEN NamesGiven(A) = {}
                 ELSE /\ Len(fields_of(c)) <= 2
                      /\ Pairs(values_of(c, 1), values_of(c, 2), A)

(* A text without marks is free of each of the three.                      *)
LEMMA NoMark ==
  ASSUME NEW s
  PROVE  ~has_mark(s) <=> /\ free(s, subvalue_mark) /\ free(s, value_mark)
                          /\ free(s, field_mark)
BY DEF has_mark, free

(* If there is no mark in what is given afterwards, there was none before, *)
(* nor in the name and the value.                                          *)
LEMMA CleanBefore ==
  ASSUME NEW A \in Given, NEW name \in Names, NEW value \in Values
  PROVE  /\ and_given(A, name, value) \in Given
         /\ Clean(and_given(A, name, value)) =>
              Clean(A) /\ ~has_mark(name) /\ ~has_mark(value)
         /\ Full(and_given(A, name, value)) => OthersFull(A, name)
<1> DEFINE A2 == and_given(A, name, value)
<1>1. value \in Text /\ value # NULL /\ NULL \notin Text
  BY DynarrayAssumption
<1>2. /\ A[name] \in Text \cup {NULL}
      /\ \A n \in Names : n # name => A2[n] = A[n]
      /\ A2[name] = IF A[name] = NULL THEN value ELSE A[name] \o value
  BY DEF Given, and_given
<1>3. ASSUME A[name] # NULL
      PROVE  /\ A2[name] = A[name] \o value /\ A2[name] \in Text
             /\ ~has_mark(A2[name]) => ~has_mark(A[name]) /\ ~has_mark(value)
  <2>1. A2[name] = A[name] \o value /\ A[name] \in Text
    BY <1>2, <1>3
  <2>2. \A mark \in Byte : free(A2[name], mark) =>
          free(A[name], mark) /\ free(value, mark)
    BY <1>1, <2>1, FreeTogether
  <2>3. A2[name] \in Text
    BY <1>1, <2>1 DEF Text
  <2> QED
    BY <2>1, <2>2, <2>3, NoMark, MarksDiffer
<1>4. A2[name] \in Text
  BY <1>1, <1>2, <1>3
<1>5. A2 \in Given
  BY <1>2, <1>4 DEF Given, and_given
<1> HIDE DEF A2
<1>6. ASSUME Clean(A2)
      PROVE  Clean(A) /\ ~has_mark(name) /\ ~has_mark(value)
  <2>1. name \in NamesGiven(A2)
    BY <1>1, <1>4 DEF NamesGiven
  <2>2. ~has_mark(name) /\ ~has_mark(A2[name])
    BY <1>6, <2>1 DEF Clean
  <2>3. ~has_mark(value)
    BY <1>2, <1>3, <2>2
  <2>4. ASSUME NEW n \in NamesGiven(A)
        PROVE  ~has_mark(n) /\ ~has_mark(A[n])
    <3>1. CASE n = name
      BY <1>3, <2>2, <3>1 DEF NamesGiven
    <3>2. CASE n # name
      <4>1. n \in NamesGiven(A2) /\ A2[n] = A[n]
        BY <1>2, <3>2 DEF NamesGiven
      <4> QED
        BY <1>6, <4>1 DEF Clean
    <3> QED
      BY <3>1, <3>2
  <2> QED
    BY <2>2, <2>3, <2>4 DEF Clean
<1>7. ASSUME Full(A2)
      PROVE  OthersFull(A, name)
  BY <1>2, <1>7 DEF Full, NamesGiven, OthersFull
<1> QED
  BY <1>5, <1>6, <1>7 DEF A2

(* Where a name that is not there goes.                                    *)
NewPlace(c, name, r) ==
  IF c = NULL THEN r = 1
  ELSE Place(values_of(c, 1), name, r) /\ part(values_of(c, 1), r) # name

(* Both insertions keep the invariant; the first alone keeps the bounds.   *)
LEMMA OpenedStep ==
  ASSUME NEW c \in Text \cup {NULL}, NEW A \in Given,
         Bounded(c, A), Complete(c, A),
         NEW name \in Names, NEW value \in Values,
         Room(text_of(c), name, value),
         NEW r \in Nat \ {0}, NewPlace(c, name, r)
  PROVE  LET R1 == QMIns(text_of(c), 1, r, name)
             R == QMIns(R1, 2, r, value)
             A2 == and_given(A, name, value)
         IN  /\ R1 \in Text /\ Bounded(R1, A)
             /\ R \in Text /\ Bounded(R, A2) /\ Complete(R, A2)
<1> DEFINE s == text_of(c)
           R1 == QMIns(s, 1, r, name)
           R == QMIns(R1, 2, r, value)
           A2 == and_given(A, name, value)
           K == values_of(s, 1)
           V == values_of(s, 2)
<1>1. /\ name \in Text /\ value \in Text /\ value # NULL
      /\ NULL \notin Text /\ MaxSize \in Nat
  BY DynarrayAssumption
<1>2. s \in Text /\ (c = NULL => s = <<>>) /\ (c # NULL => s = c)
  BY DEF text_of, Text
<1>3. /\ A2 \in Given
      /\ Clean(A2) => Clean(A) /\ ~has_mark(name) /\ ~has_mark(value)
      /\ Full(A2) => OthersFull(A, name)
  BY CleanBefore
<1> HIDE DEF s
<1>4. K \in Parts /\ V \in Parts
  BY <1>2, ValuesType
<1>5. c # NULL => /\ Place(K, name, r) /\ part(K, r) # name
                  /\ Len(fields_of(s)) >= 2
  BY <1>2 DEF NewPlace, Complete
<1>6. PlaceFor(s, r)
  <2>1. CASE c = NULL
    <3>1. r = 1 /\ s = <<>>
      BY <1>2, <2>1 DEF NewPlace
    <3>2. Len(K) \in Nat
      BY <1>4 DEF Parts
    <3> QED
      BY <3>1, <3>2 DEF PlaceFor
  <2>2. CASE c # NULL
    <3>1. r \in 1..Len(K) + 1 /\ Len(K) \in Nat
      BY <1>4, <1>5, <2>2 DEF Parts, Place
    <3> QED
      BY <1>5, <2>2, <3>1 DEF PlaceFor
  <2> QED
    BY <2>1, <2>2
<1>7. Room(s, name, value)
  BY DEF s
<1>8. PairAdded(s, r, name, value, R1, R)
  BY <1>1, <1>2, <1>6, <1>7, PairIn
<1> HIDE DEF R1, R, A2
<1>9. /\ R1 \in Text /\ Fits(R1) /\ Len(R1) <= MaxSize
      /\ R \in Text /\ Fits(R) /\ Len(fields_of(R)) >= 2
      /\ Len(R) <= MaxSize + Len(values_of(R, 1))
      /\ r - 1 <= Len(values_of(R1, 2)) => Len(R) <= MaxSize
      /\ values_of(R, 1) = values_of(R1, 1)
      /\ free(name, value_mark) /\ free(name, field_mark) =>
           /\ values_of(R1, 1) = opened(s, 1, r, name)
           /\ values_of(R1, 2) = V
           /\ Len(fields_of(R1)) = Len(fields_of(s))
      /\ free(value, value_mark) /\ free(value, field_mark) =>
           /\ values_of(R, 2) = opened(R1, 2, r, value)
           /\ Len(fields_of(R1)) <= 2 => Len(fields_of(R)) = 2
  BY <1>8, Zenon DEF PairAdded
<1>10. text_of(R1) = R1 /\ text_of(R) = R /\ R # NULL /\ R1 # NULL
  BY <1>1, <1>9 DEF text_of
<1>11. /\ Len(R1) \in Nat /\ Len(R) \in Nat
       /\ Len(values_of(R1, 1)) \in Nat /\ Len(values_of(R, 1)) \in Nat
       /\ Len(values_of(R1, 2)) \in Nat
  <2>1. /\ values_of(R1, 1) \in Parts /\ values_of(R, 1) \in Parts
        /\ values_of(R1, 2) \in Parts
    BY <1>9, ValuesType
  <2> QED
    BY <1>9, <2>1 DEF Text, Parts
<1>12. Bounded(R1, A)
  BY <1>1, <1>9, <1>10, <1>11 DEF Bounded
<1>13. ASSUME Clean(A2)
       PROVE  /\ c = NULL => NamesGiven(A) = {}
              /\ c # NULL => Len(fields_of(s)) <= 2 /\ Pairs(K, V, A)
              /\ values_of(R1, 1) = opened(s, 1, r, name)
              /\ values_of(R1, 2) = V
              /\ Len(fields_of(R1)) = Len(fields_of(s))
              /\ values_of(R, 2) = opened(R1, 2, r, value)
              /\ Len(fields_of(R1)) <= 2 => Len(fields_of(R)) = 2
  <2>1. Clean(A)
    BY <1>3, <1>13
  <2>2. /\ c = NULL => NamesGiven(A) = {}
        /\ c # NULL => Len(fields_of(s)) <= 2 /\ Pairs(K, V, A)
    BY <1>2, <2>1 DEF Complete
  <2>3. /\ free(name, value_mark) /\ free(name, field_mark)
        /\ free(value, value_mark) /\ free(value, field_mark)
    BY <1>3, <1>13, NoMark
  <2> QED
    BY <1>9, <2>2, <2>3, Zenon
<1> HIDE DEF K, V
<1>14. Full(A2) => r - 1 <= Len(values_of(R1, 2))
  <2> SUFFICES ASSUME Full(A2)
               PROVE  r - 1 <= Len(values_of(R1, 2))
    OBVIOUS
  <2>1. Clean(A2)
    BY DEF Full
  <2>2. CASE c = NULL
    <3>1. r = 1
      BY <2>2 DEF NewPlace
    <3> QED
      BY <1>11, <3>1
  <2>3. CASE c # NULL
    <3>1. Pairs(K, V, A) /\ values_of(R1, 2) = V
      BY <1>13, <2>1, <2>3
    <3>2. \A i \in 1..Len(K) : K[i] # name
      BY <1>4, <1>5, <2>3, <3>1, PlaceOf
    <3>3. r \in 1..Len(K) + 1 /\ Len(K) \in Nat
      BY <1>4, <1>5, <2>3 DEF Parts, Place
    <3>4. NotBefore(K, name, r)
      BY <3>2, <3>3 DEF NotBefore
    <3>5. OthersFull(A, name)
      BY <1>3
    <3>6. r - 1 <= Len(V)
      BY <1>4, <3>1, <3>4, <3>5, NoGap
    <3> QED
      BY <3>1, <3>6
  <2> QED
    BY <2>2, <2>3
<1>15. Bounded(R, A2)
  BY <1>1, <1>9, <1>10, <1>11, <1>14 DEF Bounded
<1>16. ASSUME Clean(A2)
       PROVE  /\ Len(fields_of(R)) <= 2
              /\ Pairs(values_of(R, 1), values_of(R, 2), A2)
  <2>1. CASE c = NULL
    <3>1. r = 1 /\ s = <<>> /\ NamesGiven(A) = {}
      BY <1>2, <1>13, <1>16, <2>1 DEF NewPlace
    <3>2. fields_of(s) = << <<>> >>
      BY <3>1, SplitEmpty DEF fields_of
    <3>3. part(fields_of(s), 1) = <<>>
      BY <3>2 DEF part
    <3>4. values_of(R, 1) = <<name>>
      <4>1. opened(s, 1, r, name) = <<name>>
        BY <3>1, <3>3 DEF opened
      <4> QED
        BY <1>9, <1>13, <1>16, <4>1, Zenon
    <3>5. Len(fields_of(R1)) = 1
      <4>1. Len(fields_of(s)) = 1
        BY <3>2
      <4> QED
        BY <1>13, <1>16, <4>1, Zenon
    <3>6. part(fields_of(R1), 2) = <<>>
      <4>1. fields_of(R1) \in Seq(Text)
        BY <1>9, ValuesType DEF Parts
      <4>2. 2 \notin 1..Len(fields_of(R1))
        BY <3>5
      <4> QED
        BY <4>1, <4>2, PartType
    <3>7. values_of(R, 2) = <<value>>
      <4>1. opened(R1, 2, r, value) = <<value>>
        BY <3>1, <3>6 DEF opened
      <4> QED
        BY <1>13, <1>16, <4>1, Zenon
    <3>8. A2 = [A EXCEPT ![name] = value]
      BY <3>1 DEF A2, and_given, NamesGiven, Given
    <3>9. Pairs(<<name>>, <<value>>, [A EXCEPT ![name] = value])
      <4>1. {n \in Names : A[n] # NULL} = {}
        BY <3>1 DEF NamesGiven
      <4> QED
        BY <1>1, <4>1, PairsFirst
    <3>10. Len(fields_of(R)) = 2
      <4>1. Len(fields_of(R1)) <= 2
        BY <3>5
      <4> QED
        BY <1>13, <1>16, <4>1, Zenon
    <3> QED
      BY <3>4, <3>7, <3>8, <3>9, <3>10
  <2>2. CASE c # NULL
    <3>1. Pairs(K, V, A) /\ Place(K, name, r) /\ part(K, r) # name
      BY <1>5, <1>13, <1>16, <2>2
    <3> DEFINE K2 == opened(s, 1, r, name)
               V2 == opened(R1, 2, r, value)
    <3>2. values_of(R, 1) = K2 /\ values_of(R, 2) = V2 /\ values_of(R1, 2) = V
      BY <1>9, <1>13, <1>16, Zenon
    <3>3. K2 \in Parts /\ Len(K2) = Len(K) + 1 /\ OneMore(K2, K, r, name)
      <4>1. /\ K2 \in Parts
            /\ part(fields_of(s), 1) # <<>> \/ r > 1 =>
                 Len(K2) = reach(K, r - 1) + 1
            /\ OneMore(K2, K, r, name)
        BY <1>1, <1>2, OpenedAt DEF OneMore, K
      <4>2. part(fields_of(s), 1) # <<>> \/ r > 1
        <5>1. SUFFICES ASSUME part(fields_of(s), 1) = <<>>, r = 1
                       PROVE  FALSE
          OBVIOUS
        <5>2. K = << <<>> >>
          BY <1>2, <5>1, ValuesType, SplitEmpty DEF K
        <5>3. 1 \in 1..Len(K) /\ K[1] = <<>> /\ part(K, 1) = <<>>
          BY <5>2 DEF part
        <5>4. name # <<>> /\ ~precedes(<<>>, name)
          BY <3>1, <5>1, <5>3 DEF Place
        <5> QED
          BY <1>1, <5>4, EmptyFirst
      <4>3. reach(K, r - 1) = Len(K)
        <5>1. r \in 1..Len(K) + 1 /\ Len(K) \in Nat
          BY <1>4, <3>1 DEF Parts, Place
        <5> QED
          BY <5>1 DEF reach
      <4> QED
        BY <4>1, <4>2, <4>3, Zenon
    <3>4. /\ V2 \in Parts /\ Len(V2) <= reach(V, r - 1) + 1
          /\ OneMore(V2, V, r, value)
      <4>1. /\ V2 \in Parts /\ Len(V2) <= reach(values_of(R1, 2), r - 1) + 1
            /\ OneMore(V2, values_of(R1, 2), r, value)
        <5>1. R1 \in Text
          BY <1>9
        <5>2. OneMore(V2, values_of(R1, 2), r, value)
          BY <1>1, <5>1, OpenedOneMore, Zenon
        <5>3. V2 \in Parts /\ Len(V2) <= reach(values_of(R1, 2), r - 1) + 1
          BY <1>1, <5>1, OpenedAt
        <5> QED
          BY <5>2, <5>3
      <4> QED
        BY <3>2, <4>1, Zenon
    <3> HIDE DEF K2, V2
    <3>5. Pairs(K2, V2, [A EXCEPT ![name] = value])
      BY <1>1, <1>4, <3>1, <3>3, <3>4, PairsOpened
    <3>6. A2 = [A EXCEPT ![name] = value]
      <4>1. A[name] = NULL
        BY <1>4, <3>1, PlaceOf
      <4> QED
        BY <4>1 DEF A2, and_given, Given
    <3>7. Len(fields_of(R)) = 2
      <4>1. Len(fields_of(R1)) <= 2
        <5>1. Len(fields_of(s)) <= 2 /\ Len(fields_of(R1)) = Len(fields_of(s))
          BY <1>13, <1>16, <2>2
        <5> QED
          BY <5>1, Zenon
      <4> QED
        BY <1>13, <1>16, <4>1, Zenon
    <3> QED
      BY <3>2, <3>5, <3>6, <3>7
  <2> QED
    BY <2>1, <2>2
<1>17. Complete(R, A2)
  BY <1>9, <1>10, <1>16 DEF Complete
<1> QED
  BY <1>9, <1>12, <1>15, <1>17 DEF R, R1, A2, s

(* More of the value of a name that is there keeps the invariant.          *)
LEMMA ChangedStep ==
  ASSUME NEW c \in Text, NEW A \in Given, Bounded(c, A), Complete(c, A),
         NEW name \in Names, NEW value \in Values, Room(c, name, value),
         NEW r \in 1..Len(values_of(c, 1)), values_of(c, 1)[r] = name
  PROVE  LET R == QMReplace(c, 2, r, part(values_of(c, 2), r) \o value)
             A2 == and_given(A, name, value)
         IN  R \in Text /\ Bounded(R, A2) /\ Complete(R, A2)
<1> DEFINE K == values_of(c, 1)
           V == values_of(c, 2)
           new == part(V, r) \o value
           R == QMReplace(c, 2, r, new)
           A2 == and_given(A, name, value)
<1>1. /\ name \in Text /\ value \in Text /\ NULL \notin Text
      /\ MaxSize \in Nat /\ c # NULL
  BY DynarrayAssumption
<1>2. /\ A2 \in Given
      /\ Clean(A2) => Clean(A) /\ ~has_mark(name) /\ ~has_mark(value)
      /\ Full(A2) => OthersFull(A, name)
  BY CleanBefore
<1>3. /\ K \in Parts /\ V \in Parts /\ V \in Seq(Text) /\ Len(K) \in Nat
      /\ r \in Nat \ {0} /\ r \in 1..Len(K) /\ r <= Len(K) /\ K[r] = name
  <2>1. K \in Parts /\ V \in Parts
    BY ValuesType
  <2> QED
    BY <2>1 DEF Parts
<1>4. new \in Text
  BY <1>1, <1>3, PartType DEF Text
<1>5. Len(fields_of(c)) >= 2
  BY <1>1 DEF Complete
<1>6. ValueKept(c, r, value, R)
  BY <1>1, <1>3, <1>5, ValueFor
<1> HIDE DEF R, A2, K, V
<1>7. /\ R \in Text /\ Fits(R) /\ Len(fields_of(R)) >= 2
      /\ Len(R) <= MaxSize + Len(values_of(R, 1))
      /\ r - 1 <= Len(V) => Len(R) <= MaxSize
      /\ values_of(R, 1) = K
      /\ free(value, value_mark) /\ free(value, field_mark) =>
           /\ values_of(R, 2) = changed(c, 2, r, new)
           /\ Len(fields_of(c)) <= 2 => Len(fields_of(R)) = 2
  BY <1>6, Zenon DEF ValueKept, K, V
<1> HIDE DEF new
<1>8. text_of(R) = R /\ R # NULL
  BY <1>1, <1>7 DEF text_of
<1>9. Len(R) \in Nat /\ Len(values_of(R, 1)) \in Nat
  BY <1>3, <1>7 DEF Text
<1>10. ASSUME Clean(A2)
       PROVE  /\ Len(fields_of(c)) <= 2 /\ Pairs(K, V, A)
              /\ values_of(R, 2) = changed(c, 2, r, new)
              /\ Len(fields_of(R)) = 2
  <2>1. Len(fields_of(c)) <= 2 /\ Pairs(K, V, A)
    BY <1>1, <1>2, <1>10 DEF Complete, K, V
  <2>2. free(value, value_mark) /\ free(value, field_mark)
    BY <1>2, <1>10, NoMark
  <2> QED
    BY <1>7, <2>1, <2>2, Zenon
<1>11. Full(A2) => r - 1 <= Len(V)
  <2> SUFFICES ASSUME Full(A2)
               PROVE  r - 1 <= Len(V)
    OBVIOUS
  <2>1. Pairs(K, V, A)
    BY <1>10 DEF Full
  <2>2. \A i, j \in 1..Len(K) : K[i] = K[j] => i = j
    BY <1>3, <2>1, PairsOnce
  <2>3. NotBefore(K, name, r)
    BY <1>3, <2>2 DEF NotBefore
  <2>4. OthersFull(A, name)
    BY <1>2
  <2> QED
    BY <1>3, <2>1, <2>3, <2>4, NoGap
<1>12. Bounded(R, A2)
  BY <1>1, <1>7, <1>8, <1>9, <1>11 DEF Bounded
<1>13. ASSUME Clean(A2)
       PROVE  Pairs(values_of(R, 1), values_of(R, 2), A2)
  <2> DEFINE V2 == changed(c, 2, r, new)
  <2>1. Pairs(K, V, A) /\ values_of(R, 2) = V2
    BY <1>10, <1>13
  <2>2. /\ V2 \in Parts /\ Len(V2) = reach(V, r)
        /\ \A i \in Nat \ {0} : part(V2, i) = IF i = r THEN new ELSE part(V, i)
    <3>1. OneChanged(V2, V, r, new)
      BY <1>3, <1>4, ChangedAt DEF V
    <3> HIDE DEF V2
    <3> QED
      BY <3>1, Zenon DEF OneChanged
  <2> HIDE DEF V2
  <2>3. Pairs(K, V2, [A EXCEPT ![K[r]] = new])
    BY <1>3, <1>4, <2>1, <2>2, PairsChanged
  <2>4. A2 = [A EXCEPT ![K[r]] = new]
    <3>1. part(V, r) = A[name] /\ A[name] # NULL
      BY <1>3, <2>1, PairsType DEF Pairs
    <3> QED
      BY <1>3, <3>1 DEF A2, and_given, Given, new
  <2> QED
    BY <1>7, <2>1, <2>3, <2>4
<1>14. Complete(R, A2)
  BY <1>7, <1>8, <1>10, <1>13 DEF Complete
<1> QED
  BY <1>7, <1>12, <1>14 DEF R, A2, new, K, V

-----------------------------------------------------------------------------
(* The handler. *)

(* The search finds the place of a name.                                   *)
LEMMA RankOf ==
  ASSUME NEW s \in Text, NEW name \in Text
  PROVE  /\ Place(values_of(s, 1), name, QMLocate_rank(s, 1, name))
         /\ QMExtract(s, 1, QMLocate_rank(s, 1, name)) =
              part(values_of(s, 1), QMLocate_rank(s, 1, name))
<1>1. values_of(s, 1) \in Parts
  BY ValuesType
<1> QED
  BY <1>1, Located DEF Place, QMLocate_rank, QMExtract

(* No rank is narrowed to another, with room for the name.                 *)
LEMMA LocateIs ==
  ASSUME content \in Text \cup {NULL}, content # NULL => Len(fields_of(content)) >= 2,
         NEW name \in Names, NEW value \in Values, Room(text, name, value)
  PROVE  \E r \in Nat \ {0} :
           /\ narrowed(r) = r
           /\ \/ /\ locate(name) = r
                 /\ content \in Text /\ r \in 1..Len(values_of(content, 1))
                 /\ values_of(content, 1)[r] = name
              \/ /\ locate(name) = -r
                 /\ NewPlace(content, name, r)
<1>1. /\ name \in Text /\ value \in Text /\ NULL \notin Text
      /\ RankLimit \in Nat /\ MaxSize \in Nat /\ MaxSize <= RankLimit
      /\ 1 < RankLimit
  BY DynarrayAssumption
<1>2. CASE content = NULL
  <2>1. locate(name) = -1
    BY <1>2 DEF locate
  <2>2. narrowed(1) = 1
    BY <1>1, NarrowedSame
  <2> QED
    BY <1>2, <2>1, <2>2 DEF NewPlace
<1>3. CASE content # NULL
  <2> DEFINE r == QMLocate_rank(content, 1, name)
             K == values_of(content, 1)
  <2>1. content \in Text /\ text = content
    BY <1>3 DEF text
  <2>2. Place(K, name, r) /\ QMExtract(content, 1, r) = part(K, r)
    BY <1>1, <2>1, RankOf
  <2>3. K \in Seq(Text) /\ Len(K) \in Nat
    BY <2>1, ValuesType DEF Parts
  <2>4. locate(name) = IF part(K, r) = name THEN narrowed(r) ELSE narrowed(-r)
    BY <1>3, <2>1, <2>2 DEF locate
  <2> HIDE DEF r, K
  <2>5. r \in 1..Len(K) + 1 /\ r \in Nat \ {0}
    BY <2>2, <2>3 DEF Place
  <2>6. Len(K) <= Len(content)
    BY <1>3, <2>1, ValuesFit DEF K
  <2>7. -RankLimit <= r /\ r < RankLimit /\ -RankLimit <= -r /\ -r < RankLimit
    <3>1. Len(content) \in Nat /\ Len(name) \in Nat /\ Len(value) \in Nat
      BY <1>1, <2>1 DEF Text
    <3>2. Len(content) + Len(name) + Len(value) + 2 <= MaxSize
      BY <2>1 DEF Room
    <3> QED
      BY <1>1, <2>3, <2>5, <2>6, <3>1, <3>2
  <2>8. narrowed(r) = r /\ narrowed(-r) = -r
    BY <1>1, <2>5, <2>7, NarrowedSame
  <2>9. CASE part(K, r) = name
    <3>1. r \in 1..Len(K)
      <4>1. CASE name # <<>>
        BY <2>3, <2>9, <4>1, PartType
      <4>2. CASE name = <<>>
        <5>1. r = 1
          <6> SUFFICES ASSUME r # 1
                       PROVE  FALSE
            OBVIOUS
          <6>1. 1 \in 1..r - 1 /\ 1 \in 1..Len(K)
            BY <2>3, <2>5
          <6>2. precedes(K[1], <<>>) /\ K[1] \in Text
            BY <2>2, <2>3, <4>2, <6>1 DEF Place
          <6>3. ~precedes(<<>>, <<>>)
            BY <1>1, <4>2, PrecedesOrder
          <6> QED
            BY <6>2, <6>3, EmptyFirst
        <5>2. Len(K) # 0
          BY <2>1, ValuesType, EmptySeq DEF K, Parts
        <5> QED
          BY <2>3, <5>1, <5>2
      <4> QED
        BY <4>1, <4>2
    <3>3. K[r] = name
      BY <2>3, <2>9, <3>1, PartType
    <3>2. locate(name) = r
      BY <2>4, <2>8, <2>9
    <3> QED
      BY <2>1, <2>5, <2>8, <3>1, <3>2, <3>3 DEF K
  <2>10. CASE part(K, r) # name
    <3>1. NewPlace(content, name, r)
      BY <1>3, <2>2, <2>10 DEF NewPlace, K
    <3>2. locate(name) = -r
      BY <2>4, <2>8, <2>10
    <3> QED
      BY <2>5, <2>8, <3>1, <3>2
  <2> QED
    BY <2>9, <2>10
<1> QED
  BY <1>2, <1>3
(* What one name and value, received with room for both, leave.            *)
LEMMA AddedStep ==
  ASSUME content \in Text \cup {NULL}, added \in Given,
         Bounded(content, added), Complete(content, added),
         NEW name \in Names, NEW value \in Values, Room(text, name, value)
  PROVE  /\ add_key_value(name, value) =>
              /\ content' \in Text
              /\ Bounded(content', and_given(added, name, value))
              /\ Complete(content', and_given(added, name, value))
         /\ add_key_value_fails(name) =>
              content' = content \/ (content' \in Text /\ Bounded(content', added))
<1>1. content # NULL => Len(fields_of(content)) >= 2
  BY DEF Complete
<1>2. PICK r \in Nat \ {0} :
        /\ narrowed(r) = r
        /\ \/ /\ locate(name) = r
              /\ content \in Text /\ r \in 1..Len(values_of(content, 1))
              /\ values_of(content, 1)[r] = name
           \/ /\ locate(name) = -r
              /\ NewPlace(content, name, r)
  BY <1>1, LocateIs, Zenon
<1>3. text = text_of(content)
  BY DEF text, text_of
<1>4. CASE /\ locate(name) = r
           /\ content \in Text /\ r \in 1..Len(values_of(content, 1))
           /\ values_of(content, 1)[r] = name
  <2> DEFINE V == values_of(content, 2)
             R == QMReplace(content, 2, r, part(V, r) \o value)
  <2>1. text = content
    BY <1>4, DynarrayAssumption DEF text
  <2>2. /\ R \in Text /\ Bounded(R, and_given(added, name, value))
        /\ Complete(R, and_given(added, name, value))
    <3>1. Room(content, name, value)
      BY <2>1
    <3> QED
      BY <1>4, <3>1, ChangedStep
  <2>3. value_for(r, value) = part(V, r) \o value
    BY <2>1 DEF value_for, QMExtract
  <2>4. add_key_value(name, value) => content' = R
    <3> HIDE DEF V, R
    <3>1. r > 0
      OBVIOUS
    <3>2. QMReplace(text, 2, r, value_for(r, value)) = R
      BY <2>1, <2>3, Zenon DEF R
    <3> QED
      BY <1>4, <3>1, <3>2, Zenon DEF add_key_value
  <2>5. ~(locate(name) < 0)
    BY <1>4
  <2> HIDE DEF R
  <2> QED
    BY <2>2, <2>4, <2>5 DEF add_key_value_fails
<1>5. CASE locate(name) = -r /\ NewPlace(content, name, r)
  <2> DEFINE R1 == QMIns(text, 1, r, name)
             R == QMIns(R1, 2, r, value)
  <2>1. /\ R1 \in Text /\ Bounded(R1, added)
        /\ R \in Text /\ Bounded(R, and_given(added, name, value))
        /\ Complete(R, and_given(added, name, value))
    <3>1. Room(text_of(content), name, value) /\ NewPlace(content, name, r)
      BY <1>3, <1>5
    <3> QED
      BY <1>3, <3>1, OpenedStep
  <2>2. -(-r) = r /\ ~(-r > 0)
    OBVIOUS
  <2>3. insert(text, 1, -locate(name), name) = R1
    BY <1>2, <1>5, <2>2, Zenon DEF insert
  <2>4. inserted(name, value, -r) = R
    BY <1>2, <2>2, Zenon DEF inserted, insert
  <2>5. add_key_value(name, value) => content' = R
    <3> HIDE DEF R, R1
    <3> QED
      BY <1>5, <2>2, <2>4, Zenon DEF add_key_value
  <2>6. add_key_value_fails(name) => content' = content \/ content' = R1
    <3> HIDE DEF R, R1
    <3> QED
      BY <2>3, Zenon DEF add_key_value_fails
  <2> HIDE DEF R, R1
  <2> QED
    BY <2>1, <2>5, <2>6
<1> QED
  BY <1>2, <1>4, <1>5

(* What holds at every step: what is kept after an error lacks, at most,   *)
(* the value of the last name.                                             *)
DynarrayInv ==
  /\ content \in Text \cup {NULL}
  /\ error \in {"none", "length_error", "bad_alloc"}
  /\ added \in Given
  /\ Bounded(content, added)
  /\ error # "bad_alloc" => Complete(content, added)

(* The invariant holds before anything is received.                        *)
LEMMA DynarrayInit == Init => DynarrayInv
<1> SUFFICES ASSUME Init
             PROVE  DynarrayInv
  OBVIOUS
<1>1. content = NULL /\ error = "none" /\ added = [n \in Names |-> NULL]
  BY DEF Init
<1>2. text_of(content) = <<>> /\ Len(<<>>) = 0
  BY <1>1 DEF text_of
<1>3. Fits(<<>>)
  <2>1. Len(<< <<>> >>) = 1
    OBVIOUS
  <2> QED
    BY <2>1, EmptyText, DynarrayAssumption DEF Fits
<1>4. Len(values_of(<<>>, 1)) = 1
  BY EmptyText
<1>5. Bounded(content, added)
  BY <1>2, <1>3, <1>4, DynarrayAssumption DEF Bounded
<1>6. added \in Given /\ NamesGiven(added) = {}
  BY <1>1 DEF Given, NamesGiven
<1>7. Complete(content, added)
  BY <1>1, <1>6 DEF Complete
<1> QED
  BY <1>1, <1>5, <1>6, <1>7 DEF DynarrayInv

(* Every field received, whether it is kept, refused or fails, keeps it.   *)
LEMMA DynarrayNext == DynarrayInv /\ [Next]_vars => DynarrayInv'
<1> SUFFICES ASSUME DynarrayInv, [Next]_vars
             PROVE  DynarrayInv'
  OBVIOUS
<1>1. /\ content \in Text \cup {NULL} /\ added \in Given
      /\ Bounded(content, added)
      /\ error # "bad_alloc" => Complete(content, added)
  BY DEF DynarrayInv
<1>2. CASE UNCHANGED vars
  BY <1>2 DEF DynarrayInv, vars
<1>3. ASSUME NEW name \in Names, NEW value \in Values, Iterate(name, value)
      PROVE  DynarrayInv'
  <2>1. error = "none" /\ Complete(content, added)
    BY <1>1, <1>3 DEF Iterate
  <2>2. CASE /\ too_big(name, value) /\ error' = "length_error"
             /\ UNCHANGED <<content, added>>
    BY <2>1, <2>2 DEF DynarrayInv
  <2>3. ASSUME ~too_big(name, value)
        PROVE  Room(text, name, value)
    <3>1. /\ text \in Text /\ name \in Text /\ value \in Text
          /\ MaxSize \in Nat
      BY <1>1, DynarrayAssumption DEF text, Text
    <3>2. Len(text) \in Nat /\ Len(name) \in Nat /\ Len(value) \in Nat
      BY <3>1 DEF Text
    <3> QED
      BY <2>3, <3>1, <3>2 DEF too_big, Room
  <2>4. CASE /\ ~too_big(name, value) /\ add_key_value(name, value)
             /\ added' = [added EXCEPT ![name] =
                            IF @ = NULL THEN value ELSE @ \o value]
             /\ UNCHANGED error
    <3>1. /\ content' \in Text
          /\ Bounded(content', and_given(added, name, value))
          /\ Complete(content', and_given(added, name, value))
      <4>1. Room(text, name, value)
        BY <2>3, <2>4
      <4> QED
        BY <1>1, <2>1, <2>4, <4>1, AddedStep
    <3>2. added' = and_given(added, name, value)
      BY <2>4 DEF and_given
    <3>3. and_given(added, name, value) \in Given
      BY <1>1, CleanBefore
    <3>4. error' = "none"
      BY <2>1, <2>4
    <3> QED
      BY <3>1, <3>2, <3>3, <3>4 DEF DynarrayInv
  <2>5. CASE /\ ~too_big(name, value) /\ add_key_value_fails(name)
             /\ error' = "bad_alloc" /\ UNCHANGED added
    <3>1. content' = content \/ (content' \in Text /\ Bounded(content', added))
      <4>1. Room(text, name, value)
        BY <2>3, <2>5
      <4> QED
        BY <1>1, <2>1, <2>5, <4>1, AddedStep
    <3> QED
      BY <1>1, <2>5, <3>1 DEF DynarrayInv
  <2> QED
    BY <1>3, <2>2, <2>4, <2>5 DEF Iterate
<1> QED
  BY <1>2, <1>3 DEF Next

(* The invariant holds in every state.                                     *)
LEMMA DynarrayAlways == Spec => []DynarrayInv
<1> QED
  BY DynarrayInit, DynarrayNext, PTL DEF Spec

-----------------------------------------------------------------------------
(* What it gives. *)

(* Without marks in the data the content has at most two fields and no     *)
(* more values than names, for any names and values.                       *)
THEOREM DynarrayTypeOK == Spec => []TypeOK
<1>1. DynarrayInv => TypeOK
  <2> SUFFICES ASSUME DynarrayInv
               PROVE  TypeOK
    OBVIOUS
  <2>1. /\ content \in Text \cup {NULL}
        /\ error \in {"none", "length_error", "bad_alloc"}
        /\ added \in [Names -> Text \cup {NULL}]
    BY DEF DynarrayInv, Given
  <2>2. ASSUME NoMarks, error # "bad_alloc"
        PROVE  /\ Len(fields_of(text)) <= 2
               /\ Len(values_of(text, 2)) <= Len(values_of(text, 1))
    <3>1. Clean(added)
      BY <2>2 DEF NoMarks, Clean, received, NamesGiven
    <3>2. CASE content = NULL
      <4>1. text = <<>>
        BY <3>2 DEF text
      <4> QED
        BY <4>1, EmptyText
    <3>3. CASE content # NULL
      BY <2>2, <3>1, <3>3 DEF DynarrayInv, Complete, Pairs, text
    <3> QED
      BY <3>2, <3>3
  <2> QED
    BY <2>1, <2>2 DEF TypeOK, fields_of
<1> QED
  BY <1>1, DynarrayAlways, PTL

(* No rank and no number of values leaves the range of rang_num_t, however *)
(* many marks the names and the values hold.                               *)
THEOREM DynarrayRankFits == Spec => []RankFits
<1>1. DynarrayInv => RankFits
  BY DEF DynarrayInv, Bounded, Fits, RankFits, text, text_of
<1> QED
  BY <1>1, DynarrayAlways, PTL

(* What is stored never exceeds the limit of the size test, but for the    *)
(* marks of ranks without a value of their own.                            *)
THEOREM DynarrayBoundedContent == Spec => []BoundedContent
<1>1. DynarrayInv => BoundedContent
  BY DEF DynarrayInv, Bounded, BoundedContent, Full, Clean, NoMarks, received,
         NamesGiven, text, text_of
<1> QED
  BY <1>1, DynarrayAlways, PTL
(* A field that is copied into an array of its own is its first field.     *)
LEMMA FieldAlone ==
  ASSUME NEW s \in Text, NEW field
  PROVE  values_of(part(fields_of(s), field), 1) = values_of(s, field)
<1> DEFINE y == part(fields_of(s), field)
<1>1. y \in Text /\ free(y, field_mark) /\ values_of(s, field) = split(y, value_mark)
  BY ValuesType
<1> HIDE DEF y
<1>2. split(y, field_mark) = <<y>>
  BY <1>1, SplitFree
<1>3. part(<<y>>, 1) = y
  BY DEF part
<1>4. values_of(y, 1) = split(y, value_mark)
  BY <1>2, <1>3 DEF values_of
<1> QED
  BY <1>1, <1>4 DEF y

(* A value without subvalue marks is its first subvalue.                   *)
LEMMA FirstSubvalue ==
  ASSUME NEW x \in Text, free(x, subvalue_mark)
  PROVE  part(split(x, subvalue_mark), 1) = x
<1>1. split(x, subvalue_mark) = <<x>>
  BY SplitFree
<1> QED
  BY <1>1 DEF part

(* What is read of the content is the names and what was given for each.   *)
LEMMA HeadersOut ==
  ASSUME NEW s \in Text, NEW A \in Given, Clean(A), Fits(s),
         NamesGiven(A) # {<<>>},
         Pairs(values_of(s, 1), values_of(s, 2), A)
  PROVE  LET K == values_of(s, 1) IN
         headers_out(s) = [n \in 1..Len(K) |-> <<K[n], A[K[n]]>>]
<1> DEFINE K == values_of(s, 1)
           V == values_of(s, 2)
           names == part(fields_of(s), 1)
           values == part(fields_of(s), 2)
           sub(array, n) ==
             part(split(QMExtract(array, 1, n), subvalue_mark), 1)
<1>1. /\ values_of(names, 1) = K /\ values_of(values, 1) = V
      /\ K = split(names, value_mark) /\ K \in Parts
  BY FieldAlone, ValuesType
<1>2. headers_out(s) =
        [n \in 1..narrowed(QMDcount(names, value_mark)) |->
           <<sub(names, n), sub(values, n)>>]
  BY Zenon DEF headers_out, header_rank, fields_of
<1> HIDE DEF names, values
<1>3. \A n : /\ QMExtract(names, 1, n) = part(K, n)
             /\ QMExtract(values, 1, n) = part(V, n)
  BY <1>1, Zenon DEF QMExtract
<1> HIDE DEF K, V
<1>4. Pairs(K, V, A)
  BY DEF K, V
<1>5. K \in Seq(Text) /\ Len(K) \in Nat /\ K # <<>>
  BY <1>1 DEF Parts
<1>6. names # <<>>
  <2>1. SUFFICES ASSUME names = <<>>
                 PROVE  FALSE
    OBVIOUS
  <2>2. K = << <<>> >>
    BY <1>1, <2>1, SplitEmpty
  <2>3. {K[i] : i \in 1..Len(K)} = {<<>>}
    BY <2>2
  <2> QED
    BY <1>4, <2>3 DEF Pairs, NamesGiven
<1>7. QMDcount(names, value_mark) = Len(K)
  BY <1>1, <1>6 DEF QMDcount
<1>8. narrowed(Len(K)) = Len(K)
  <2>1. Len(K) < RankLimit
    BY DEF Fits, K
  <2>2. RankLimit \in Nat
    BY DynarrayAssumption
  <2> QED
    BY <1>5, <2>1, <2>2, NarrowedSame
<1>9. ASSUME NEW n \in 1..Len(K)
      PROVE  sub(names, n) = K[n] /\ sub(values, n) = A[K[n]]
  <2>1. /\ part(K, n) = K[n] /\ part(V, n) = A[K[n]]
        /\ K[n] \in Text /\ A[K[n]] \in Text
        /\ K[n] \in NamesGiven(A)
    <3>1. /\ {K[i] : i \in 1..Len(K)} = NamesGiven(A)
          /\ \A i \in 1..Len(K) : part(V, i) = A[K[i]]
      BY <1>4 DEF Pairs, NamesGiven
    <3>2. K[n] \in Text /\ A[K[n]] \in Text
      BY <1>1, <1>4, PairsType, Zenon
    <3>3. part(K, n) = K[n]
      BY <1>5, PartType, Zenon
    <3> QED
      BY <3>1, <3>2, <3>3
  <2>2. free(K[n], subvalue_mark) /\ free(A[K[n]], subvalue_mark)
    BY <2>1, NoMark DEF Clean
  <2>3. /\ part(split(K[n], subvalue_mark), 1) = K[n]
        /\ part(split(A[K[n]], subvalue_mark), 1) = A[K[n]]
    BY <2>1, <2>2, FirstSubvalue
  <2> QED
    BY <1>3, <2>1, <2>3, Zenon
<1> HIDE DEF sub
<1>10. [n \in 1..Len(K) |-> <<sub(names, n), sub(values, n)>>] =
         [n \in 1..Len(K) |-> <<K[n], A[K[n]]>>]
  BY <1>9
<1>11. headers_out(s) = [n \in 1..Len(K) |-> <<K[n], A[K[n]]>>]
  BY <1>2, <1>7, <1>8, <1>10, Zenon
<1> QED
  BY <1>11 DEF K

(* What is read back is what was received: each name once, in order, next  *)
(* to all of its values and no other's, for any names and values without   *)
(* marks in any order of arrival and repetition.                           *)
THEOREM DynarrayReadsBack == Spec => []ReadsBack
<1>1. DynarrayInv => ReadsBack
  <2> SUFFICES ASSUME DynarrayInv, NoMarks, error # "bad_alloc",
                      received # {<<>>}
               PROVE  LET out == headers_out(text) IN
                      /\ ToSet(out) = {<<n, added[n]>> : n \in received}
                      /\ \A i, j \in DOMAIN out :
                           i < j => precedes(out[i][1], out[j][1])
    BY DEF ReadsBack
  <2> DEFINE out == headers_out(text)
  <2>1. Clean(added) /\ NamesGiven(added) # {<<>>}
    BY DEF NoMarks, Clean, received, NamesGiven
  <2>2. /\ content \in Text \cup {NULL} /\ added \in Given
        /\ Fits(text) /\ Complete(content, added)
    BY DEF DynarrayInv, Bounded, text, text_of
  <2>3. CASE content = NULL
    <3>1. text = <<>> /\ received = {}
      BY <2>1, <2>2, <2>3 DEF Complete, text, received, NamesGiven
    <3> DEFINE names == part(split(<<>>, field_mark), 1)
               pair(n) == <<part(split(QMExtract(names, 1, n), subvalue_mark), 1),
                            part(split(QMExtract(part(split(<<>>, field_mark), 2),
                                                 1, n), subvalue_mark), 1)>>
    <3>2. names = <<>>
      BY EmptyText DEF part, fields_of
    <3>3. headers_out(<<>>) =
            [n \in 1..narrowed(QMDcount(names, value_mark)) |-> pair(n)]
      BY Zenon DEF headers_out, header_rank
    <3> HIDE DEF names, pair
    <3>4. QMDcount(names, value_mark) = 0
      BY <3>2 DEF QMDcount
    <3>5. narrowed(0) = 0
      BY NarrowedSame, DynarrayAssumption
    <3>6. out = [n \in 1..0 |-> pair(n)]
      BY <3>1, <3>3, <3>4, <3>5, Zenon
    <3> HIDE DEF out
    <3>7. DOMAIN out = {}
      BY <3>6
    <3>8. ToSet(out) = {}
      BY <3>7 DEF ToSet
    <3> QED
      BY <3>1, <3>7, <3>8 DEF out
  <2>4. CASE content # NULL
    <3> DEFINE K == values_of(text, 1)
    <3>1. text \in Text /\ text = content
      BY <2>2, <2>4 DEF text
    <3>2. Pairs(K, values_of(text, 2), added)
      BY <2>1, <2>2, <2>4, <3>1 DEF Complete
    <3>3. out = [n \in 1..Len(K) |-> <<K[n], added[K[n]]>>]
      BY <2>1, <2>2, <3>1, <3>2, HeadersOut
    <3>4. {K[i] : i \in 1..Len(K)} = received
      BY <3>2 DEF Pairs, received
    <3>5. \A i, j \in 1..Len(K) : i < j => precedes(K[i], K[j])
      BY <3>2 DEF Pairs
    <3> HIDE DEF out, K
    <3>6. /\ DOMAIN out = 1..Len(K)
          /\ \A i \in 1..Len(K) : /\ out[i] = <<K[i], added[K[i]]>>
                                  /\ out[i][1] = K[i]
      BY <3>3
    <3>7. ToSet(out) = {<<n, added[n]>> : n \in received}
      <4> DEFINE pairs == {<<n, added[n]>> : n \in received}
      <4>1. \A i \in 1..Len(K) : K[i] \in received
        BY <3>4
      <4>2. \A n \in received : \E i \in 1..Len(K) : n = K[i]
        BY <3>4
      <4>3. ASSUME NEW i \in DOMAIN out
            PROVE  out[i] \in pairs
        <5>1. i \in 1..Len(K)
          BY <3>6
        <5> QED
          BY <3>6, <4>1, <5>1, Zenon
      <4>4. ASSUME NEW n \in received
            PROVE  \E i \in DOMAIN out : out[i] = <<n, added[n]>>
        <5>1. PICK i \in 1..Len(K) : n = K[i]
          BY <4>2
        <5>2. out[i] = <<n, added[n]>> /\ i \in DOMAIN out
          BY <3>6, <5>1
        <5> QED
          BY <5>2
      <4>5. ToSet(out) = {out[i] : i \in DOMAIN out}
        BY DEF ToSet
      <4> QED
        BY <4>3, <4>4, <4>5, Zenon
    <3>8. \A i, j \in DOMAIN out : i < j => precedes(out[i][1], out[j][1])
      BY <3>5, <3>6
    <3> QED
      BY <3>7, <3>8 DEF out
  <2> QED
    BY <2>3, <2>4
<1> QED
  BY <1>1, DynarrayAlways, PTL
=====
