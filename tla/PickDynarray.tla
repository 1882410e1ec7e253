---------------------------- MODULE PickDynarray ----------------------------
(***************************************************************************)
(* A dynamic array (pick_dynarray.cpp) that collects the headers, the      *)
(* parameters or the form of a request: names in field 1, values in field  *)
(* 2, at the same ranks, the names in ascending order.                     *)
(*                                                                         *)
(* The text is a sequence of bytes, because everything that can go wrong   *)
(* here is in it: fields, values and subvalues are what stands between     *)
(* marks, nothing keeps a mark out of a name or a value, and the only      *)
(* limit, on the length, is also what keeps ranks within int16_t. Bytes    *)
(* are those stored: headers, and without pick.encoding everything, are    *)
(* stored as received.                                                     *)
(***************************************************************************)
EXTENDS Integers, Sequences, FiniteSets, FiniteSetsExt, SequencesExt

CONSTANTS
  Names, Values,      \* what may be received
  MaxSize,            \* headerin_max_size, querystring_max_size, post_max_size
  RankLimit,          \* one more than the greatest rang_num_t
  NULL

subvalue_mark == 252
value_mark    == 253
field_mark    == 254
Text == Seq(1..255)

ASSUME DynarrayAssumption ==
  /\ Names \subseteq Text /\ Values \subseteq Text
  /\ MaxSize \in Nat /\ RankLimit \in Nat
  /\ 1 < RankLimit /\ MaxSize <= RankLimit
  /\ NULL \notin Text

VARIABLES
  content,
  error,     \* error_exception, "none" for null: the request is refused
  added      \* history: name -> the values it was given, one text

vars == <<content, error, added>>

-----------------------------------------------------------------------------
(* OpenQM's functions, as far as the code uses them. *)

(* The parts between marks; an empty text is one empty part. *)
split(s, mark) ==
  LET upto[n \in 0..Len(s)] ==
        IF n = 0 THEN << <<>> >>
        ELSE LET before == upto[n - 1] IN
             IF s[n] = mark THEN Append(before, <<>>)
             ELSE [before EXCEPT ![Len(before)] = Append(@, s[n])]
  IN  upto[Len(s)]

join(parts, mark) ==
  LET upto[n \in DOMAIN parts] ==
        IF n = 1 THEN parts[1] ELSE upto[n - 1] \o <<mark>> \o parts[n]
  IN  upto[Len(parts)]

part(parts, n) == IF n \in DOMAIN parts THEN parts[n] ELSE <<>>

padded(parts, n) ==
  [i \in 1..Max({n, Len(parts)}) |-> part(parts, i)]

(* What a null content is for the functions of the library. *)
text == IF content = NULL THEN <<>> ELSE content

values_of(s, field) == split(part(split(s, field_mark), field), value_mark)

QMDcount(s, mark) == IF s = <<>> THEN 0 ELSE Len(split(s, mark))

QMExtract(s, field, value) == part(values_of(s, field), value)

with_values(s, field, parts) ==
  join([padded(split(s, field_mark), field) EXCEPT ![field] =
          join(parts, value_mark)], field_mark)

QMReplace(s, field, value, new) ==
  with_values(s, field,
              [padded(values_of(s, field), value) EXCEPT ![value] = new])

QMIns(s, field, value, new) ==
  LET before == padded(values_of(s, field), value - 1) IN
  with_values(s, field,
              IF part(split(s, field_mark), field) = <<>> /\ value = 1
              THEN <<new>> ELSE InsertAt(before, value, new))

precedes(a, b) ==
  \E n \in 0..Len(a) :
    /\ n < Len(b) /\ SubSeq(a, 1, n) = SubSeq(b, 1, n)
    /\ n = Len(a) \/ a[n + 1] < b[n + 1]

(* The rank of a name in ascending order "AL", or where it would go.       *)
QMLocate_rank(s, field, name) ==
  LET parts == values_of(s, field)
  IN  Min({i \in DOMAIN parts : ~precedes(parts[i], name)}
            \cup {Len(parts) + 1})

-----------------------------------------------------------------------------
(* pick_dynarray. *)

(* int to rang_num_t. *)
narrowed(n) == ((n + RankLimit) % (2 * RankLimit)) - RankLimit

(* Positive where the name is, negative where it would go. *)
locate(name) ==
  LET rank == QMLocate_rank(text, 1, name) IN
  IF content = NULL THEN -1
  ELSE IF QMExtract(text, 1, rank) = name THEN narrowed(rank)
  ELSE narrowed(-rank)

insert(s, field, rank, new) == QMIns(s, field, narrowed(rank), new)

(* Mutant: the value of a name that is there already is put in its place.  *)
value_for_replaced(rank, value) == value

(* A name received again gets its values one after the other. *)
value_for(rank, value) == QMExtract(text, 2, rank) \o value

(* Mutant: the value goes one rank further than its name.                  *)
inserted_offByOne(name, value, rank) ==
  insert(insert(text, 1, -rank, name), 2, -rank + 1, value)

(* Two insertions; the rank locate returned is negative. *)
inserted(name, value, rank) ==
  insert(insert(text, 1, -rank, name), 2, -rank, value)

add_key_value(name, value) ==
  LET rank == locate(name) IN
  content' = IF rank > 0
             THEN QMReplace(text, 2, rank, value_for(rank, value))
             ELSE inserted(name, value, rank)

(* Memory for the copy of a string is missing: before the first library    *)
(* call, or between the two insertions, which leaves a name without value. *)
add_key_value_fails(name) ==
  \/ UNCHANGED content
  \/ /\ locate(name) < 0
     /\ content' = insert(text, 1, -locate(name), name)

-----------------------------------------------------------------------------
(* iterate_header, iterate_querystring and iterate_post. *)

(* Mutant: the two marks are not counted.                                  *)
too_bigWithoutMarks(name, value) ==
  Len(text) + Len(name) + Len(value) > MaxSize

(* Mutant: the value is not counted.                                       *)
too_bigWithoutValue(name, value) == Len(text) + Len(name) + 2 > MaxSize

too_big(name, value) == Len(text) + Len(name) + Len(value) + 2 > MaxSize

(* One field: kept, too long, or without memory. An error makes MHD stop   *)
(* the iteration.                                                          *)
Iterate(name, value) ==
  /\ error = "none"
  /\ \/ /\ too_big(name, value)
        /\ error' = "length_error"
        /\ UNCHANGED <<content, added>>
     \/ /\ ~too_big(name, value)
        /\ add_key_value(name, value)
        /\ added' = [added EXCEPT ![name] =
                       IF @ = NULL THEN value ELSE @ \o value]
        /\ UNCHANGED error
     \/ /\ ~too_big(name, value)
        /\ add_key_value_fails(name)
        /\ error' = "bad_alloc"
        /\ UNCHANGED added

Init ==
  /\ content = NULL /\ error = "none"
  /\ added = [n \in Names |-> NULL]

Next == \E name \in Names, value \in Values : Iterate(name, value)

Spec == Init /\ [][Next]_vars

-----------------------------------------------------------------------------
(* The loop of process() over the headers a routine returns. *)

header_rank(n) == n

(* The first subvalue of each name and of the value at its rank; fields 1  *)
(* and 2 are first copied into arrays of their own.                        *)
headers_out(s) ==
  LET fields == part(split(s, field_mark), 1)
      values == part(split(s, field_mark), 2)
      first_subvalue(array, rank) ==
        part(split(QMExtract(array, 1, rank), subvalue_mark), 1)
  IN  [n \in 1..narrowed(QMDcount(fields, value_mark)) |->
         <<first_subvalue(fields, header_rank(n)),
           first_subvalue(values, header_rank(n))>>]

-----------------------------------------------------------------------------
(* Properties. *)

has_mark(s) ==
  \E i \in DOMAIN s : s[i] \in {subvalue_mark, value_mark, field_mark}

received == {n \in Names : added[n] # NULL}

NoMarks == \A n \in received : ~has_mark(n) /\ ~has_mark(added[n])

(* The content is a C string or null: of two fields if no mark came in,    *)
(* with no more values than names.                                         *)
TypeOK ==
  /\ content \in Text \cup {NULL}
  /\ error \in {"none", "length_error", "bad_alloc"}
  /\ added \in [Names -> Text \cup {NULL}]
  /\ NoMarks /\ error # "bad_alloc" =>
       /\ Len(split(text, field_mark)) <= 2
       /\ Len(values_of(text, 2)) <= Len(values_of(text, 1))

(* What is read back is what was received, field by field: every name      *)
(* once, in order, next to all of its values and no other's, whatever the  *)
(* order of arrival. Without marks in the data: nothing removes them; and  *)
(* an empty name alone, which a form may hold, is counted as none.         *)
ReadsBack ==
  NoMarks /\ error # "bad_alloc" /\ received # {<<>>} =>
    LET out == headers_out(text) IN
    /\ ToSet(out) = {<<n, added[n]>> : n \in received}
    /\ \A i, j \in DOMAIN out : i < j => precedes(out[i][1], out[j][1])

(* The size tests, made before anything is added, bound what is stored.    *)
(* A rank without a value of its own (the value is empty, or a mark cuts   *)
(* the name) may cost its mark later, untested.                            *)
BoundedContent ==
  Len(text) <= MaxSize +
    IF NoMarks /\ \A n \in received : added[n] # <<>> THEN 0
    ELSE Len(values_of(text, 1))

(* No rank overflows int16_t, because of the limit on the size only: the   *)
(* code tests no rank, and a name may hold marks and so count for many.    *)
RankFits ==
  \A field \in 1..2 : Len(values_of(text, field)) < RankLimit
=============================================================================
