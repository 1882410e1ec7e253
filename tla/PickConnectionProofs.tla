------------------------ MODULE PickConnectionProofs ------------------------
(***************************************************************************)
(* Type correctness, object ownership, routine exclusion and the limit on  *)
(* stored bodies in PickConnection, for any connections, requests, routes, *)
(* replies, limits and number of failing allocations.                      *)
(*                                                                         *)
(* Every handler ends in one of a few ways (Keep, Delete, Queue, a refused *)
(* send_response). The first lemmas show that each way preserves ObjInv,   *)
(* the part of the invariant about phases, answers and objects; the next   *)
(* ones that each handler ends in such a way; the last ones put the        *)
(* actions together. Then the size of stored bodies is followed.           *)
(*                                                                         *)
(* The second half is about routines: their sessions are closed, they run  *)
(* only for accepted requests without a stored error, the callbacks        *)
(* implement RequestService, a routine is given the whole body unless it   *)
(* holds a NUL or a mark, what it leaves is passed on to the client, and   *)
(* whatever terminates the process has one of four reasons.                *)
(***************************************************************************)
EXTENDS PickConnection, TLAPS, SequenceTheorems, FiniteSetTheorems

USE ConstantsAssumption, NullAssumption DEF Phase

(* A queued answer is in the hands of MHD, which holds one of the two      *)
(* references on it.                                                       *)
AnswerHeld ==
  \A c \in Conn :
    answer[c] # NULL => phase[c] = "reply" /\ response_refs[c] = 2

ObjInv ==
  /\ phase \in [Conn -> Phase]
  /\ answer \in [Conn -> Answer \cup {NULL}]
  /\ response_refs \in [Conn -> 0..2]
  /\ con_cls \in [Conn -> Addr \cup {NULL}]
  /\ heap \in [Addr -> Object \cup {NULL}]
  /\ HeapOwned
  /\ AnswerHeld

(* The connection whose routine runs holds the object the routine writes   *)
(* to, its request is not over, and its session is open.                   *)
RoutineHolds ==
  thread # NULL => /\ con_cls[thread] # NULL
                   /\ phase[thread] \in {"headers", "body", "full"}
                   /\ sessions > 0

IInv == TypeOK /\ HeapOwned /\ AnswerHeld /\ RoutineHolds

(* A handler may use the object at a for connection c: it is c's, or c has *)
(* none yet and the cell is free.                                          *)
Usable(c, a) ==
  /\ c \in Conn /\ a \in Addr /\ phase[c] # "idle"
  /\ con_cls[c] = a \/ (con_cls[c] = NULL /\ heap[a] = NULL)

(* A callback for c leaves the requests and objects of the others alone.   *)
Untouched(c) ==
  \A d \in Conn : d # c =>
    /\ phase'[d] = phase[d] /\ con_cls'[d] = con_cls[d]
    /\ con_cls[d] # NULL => heap'[con_cls[d]] = heap[con_cls[d]]

-----------------------------------------------------------------------------
(* How handlers end. *)

(* Storing an object in a usable cell keeps the ownership of all objects.  *)
LEMMA KeepPreserves ==
  ASSUME ObjInv, NEW c, NEW a, Usable(c, a), answer[c] = NULL,
         NEW o \in Object,
         NEW ph \in Phase \ {"idle"}, Keep(c, a, o, ph)
  PROVE  ObjInv' /\ phase'[c] # "idle" /\ Untouched(c)
BY DEF ObjInv, Usable, Keep, HeapOwned, AnswerHeld, Untouched

(* Deleting an object and clearing the pointer leaves no dangling pointer. *)
LEMMA ReleasePreserves ==
  ASSUME ObjInv, NEW c, NEW a, Usable(c, a), answer[c] = NULL, release(c, a),
         phase' = [phase EXCEPT ![c] = "closing"],
         answer' = answer,
         \/ response_refs' = response_refs
         \/ response_refs' = [response_refs EXCEPT ![c] = 1]
  PROVE  ObjInv' /\ phase'[c] # "idle" /\ Untouched(c)
BY DEF ObjInv, Usable, release, HeapOwned, AnswerHeld, Untouched

(* A queued response sets both references.                                 *)
LEMMA QueuePreserves ==
  ASSUME ObjInv, NEW c, NEW a, Usable(c, a), NEW o \in Object,
         NEW status \in Int, NEW body \in {"page", "empty", "default"},
         Queue(c, a, o, status, body)
  PROVE  ObjInv' /\ phase'[c] # "idle" /\ Untouched(c)
BY DEF ObjInv, Usable, Queue, HeapOwned, AnswerHeld, Untouched, Answer

(* Whatever MHD_queue_response decides, ObjInv is preserved.               *)
LEMMA SendPreserves ==
  ASSUME ObjInv, NEW c, NEW a, Usable(c, a), answer[c] = NULL,
         NEW o \in Object, NEW status \in Int,
         NEW body \in {"page", "empty", "default"},
         send_response(c, a, o, status, body)
  PROVE  ObjInv' /\ phase'[c] # "idle" /\ Untouched(c)
BY QueuePreserves, ReleasePreserves DEF send_response

(* The connection is closed by a handler that deletes its object.          *)
LEMMA DeletePreserves ==
  ASSUME ObjInv, NEW c, NEW a, Usable(c, a), answer[c] = NULL, Delete(c, a)
  PROVE  ObjInv' /\ phase'[c] # "idle" /\ Untouched(c)
BY ReleasePreserves DEF Delete

(* The default page is sent, or cannot be built.                           *)
LEMMA ErrorPagePreserves ==
  ASSUME ObjInv, NEW c, NEW a, Usable(c, a), answer[c] = NULL,
         NEW o \in Object, NEW status \in Int, send_error_page(c, a, o, status)
  PROVE  ObjInv' /\ phase'[c] # "idle" /\ Untouched(c)
BY SendPreserves, DeletePreserves DEF send_error_page

-----------------------------------------------------------------------------
(* The data handlers store. *)

(* A new object, routed and then typed, is a pick_connection.              *)
LEMMA NewObjectType ==
  ASSUME NEW r \in Requests
  PROVE  routed_connection(r) \in Object /\ typed_connection(r) \in Object
<1>1. routed_connection(r) \in Object
  BY DEF routed_connection, new_pick_connection, authorized_params, Object,
         Method, ErrorKind
<1>2. connection_type(r.method) \in Method
  BY DEF connection_type, Method
<1> QED
  BY <1>1, <1>2 DEF typed_connection, Object

(* Converting a text gives a converted text.                               *)
LEMMA ConversionType ==
  ASSUME NEW s \in Text
  PROVE  input_conversion(s) \in EncodedText
BY DEF input_conversion, EncodedText

(* An interval of n numbers has n numbers.                                 *)
LEMMA CountUp ==
  ASSUME NEW m \in Nat, NEW n \in Nat
  PROVE  IsFiniteSet((m + 1)..(m + n)) /\ Cardinality((m + 1)..(m + n)) = n
<1>1. m + 1 \in Int /\ m + n \in Int
  OBVIOUS
<1>2. Cardinality((m + 1)..(m + n)) =
        IF m + 1 > m + n THEN 0 ELSE (m + n) - (m + 1) + 1
  BY <1>1, FS_Interval
<1>3. IsFiniteSet((m + 1)..(m + n))
  BY <1>1, FS_Interval
<1> QED
  BY <1>2, <1>3

(* A start of a text is as long as it was asked to be.                     *)
LEMMA BeforeType ==
  ASSUME NEW s \in Text, NEW stops
  PROVE  /\ before(s, stops) \in Text
         /\ \E k \in 0..Len(s) : before(s, stops) = SubSeq(s, 1, k)
<1> DEFINE free == {n \in 1..Len(s) : \A i \in 1..n : s[i] \notin stops}
           k == Cardinality(free)
<1>1. Len(s) \in Nat
  BY DEF Text
<1>2. IsFiniteSet(1..Len(s)) /\ Cardinality(1..Len(s)) = Len(s)
  <2>1. 1..Len(s) = (0 + 1)..(0 + Len(s))
    OBVIOUS
  <2> QED
    BY <1>1, <2>1, CountUp
<1>3. k \in Nat /\ k <= Len(s)
  <2>1. free \subseteq 1..Len(s)
    OBVIOUS
  <2> HIDE DEF free
  <2>2. IsFiniteSet(free)
    BY <1>2, <2>1, FS_Subset, Zenon
  <2>3. Cardinality(free) \in Nat
    BY <2>2, FS_CardinalityType, Zenon
  <2>4. Cardinality(free) <= Cardinality(1..Len(s))
    BY <1>2, <2>1, FS_Subset, Zenon
  <2> QED
    BY <1>2, <2>3, <2>4
<1>4. before(s, stops) = SubSeq(s, 1, k)
  BY DEF before
<1> HIDE DEF k
<1>5. SubSeq(s, 1, k) \in Text
  BY <1>1, <1>3, SubSeqProperties DEF Text
<1> QED
  BY <1>1, <1>3, <1>4, <1>5

(* What a C string holds is a text.                                        *)
LEMMA CStringType ==
  ASSUME NEW s \in Text
  PROVE  c_string(s) \in Text
BY BeforeType DEF c_string

(* A text whose text changes is a text.                                    *)
LEMMA TextChanged ==
  ASSUME NEW d \in EncodedText, NEW t \in Text
  PROVE  /\ [d EXCEPT !.text = t] \in EncodedText
         /\ [d EXCEPT !.text = t].text = t
         /\ [d EXCEPT !.text = t].enc = d.enc
BY DEF EncodedText

(* A json body grows by the C string it is given.                          *)
LEMMA AppendIs ==
  ASSUME NEW d \in EncodedText, NEW data \in Text
  PROVE  append(d, data) = [d EXCEPT !.text = d.text \o c_string(data)]
BY DEF append

(* The value of a form grows by the piece, at the first mark in it.        *)
LEMMA ExtendIs ==
  ASSUME NEW d \in EncodedText, NEW piece
  PROVE  \E k \in 0..Len(d.text) :
           /\ before(d.text, marks(d.enc)) = SubSeq(d.text, 1, k)
           /\ extend(d, piece) =
                [d EXCEPT !.text = SubSeq(d.text, 1, k) \o piece.text
                                     \o SubSeq(d.text, k + 1, Len(d.text))]
<1>1. d.text \in Text
  BY DEF EncodedText
<1>2. PICK k \in 0..Len(d.text) :
        before(d.text, marks(d.enc)) = SubSeq(d.text, 1, k)
  BY <1>1, BeforeType
<1>3. Len(SubSeq(d.text, 1, k)) = k
  BY <1>1, SubSeqProperties DEF Text
<1> QED
  BY <1>2, <1>3 DEF extend

(* A json body that has got a piece is a text.                             *)
LEMMA AppendType ==
  ASSUME NEW d \in EncodedText \cup {NULL}, NEW data \in Text
  PROVE  append(d, data) \in EncodedText
<1>1. c_string(data) \in Text
  BY CStringType
<1>2. CASE d = NULL
  BY <1>1, <1>2 DEF append, EncodedText
<1>3. CASE d \in EncodedText
  <2> DEFINE t == d.text \o c_string(data)
  <2>1. t \in Text
    BY <1>1, <1>3 DEF EncodedText, Text
  <2>2. append(d, data) = [d EXCEPT !.text = t]
    BY <1>3, AppendIs
  <2> HIDE DEF t
  <2> QED
    BY <1>3, <2>1, <2>2, TextChanged
<1> QED
  BY <1>2, <1>3

(* A form that has got a piece is a text.                                  *)
LEMMA AddKeyValueType ==
  ASSUME NEW d \in EncodedText \cup {NULL}, NEW piece \in EncodedText
  PROVE  add_key_value(d, piece) \in EncodedText
<1>1. CASE d = NULL
  BY <1>1 DEF add_key_value
<1>2. CASE d # NULL
  <2>1. d \in EncodedText
    BY <1>2
  <2>2. PICK k \in 0..Len(d.text) :
          extend(d, piece) =
            [d EXCEPT !.text = SubSeq(d.text, 1, k) \o piece.text
                                 \o SubSeq(d.text, k + 1, Len(d.text))]
    BY <2>1, ExtendIs
  <2>3. d.text \in Text /\ piece.text \in Text
    BY <2>1 DEF EncodedText
  <2>4. SubSeq(d.text, 1, k) \in Text /\ SubSeq(d.text, k + 1, Len(d.text)) \in Text
    BY <2>3, SubSeqProperties DEF Text
  <2>5. SubSeq(d.text, 1, k) \o piece.text
          \o SubSeq(d.text, k + 1, Len(d.text)) \in Text
    BY <2>3, <2>4 DEF Text
  <2>6. extend(d, piece) \in EncodedText
    BY <2>1, <2>2, <2>5, TextChanged
  <2> QED
    BY <1>2, <2>6 DEF add_key_value
<1> QED
  BY <1>1, <1>2

(* What MHD hands over is a piece of the body, a text.                     *)
LEMMA PieceType ==
  ASSUME NEW s \in Text, NEW i \in Nat, NEW n \in Nat \ {0}, i + n <= Len(s)
  PROVE  SubSeq(s, i + 1, i + n) \in Text
<1>1. s \in Seq(Unit) /\ Len(s) \in Nat /\ i + 1 \in Int /\ i + n \in Int
  BY DEF Text
<1>2. ASSUME NEW j \in (i + 1)..(i + n) PROVE s[j] \in Unit
  <2>1. j \in 1..Len(s)
    BY <1>1
  <2> QED
    BY <1>1, <2>1, ElementOfSeq
<1> QED
  BY <1>1, <1>2, SubSeqProperties, Zenon DEF Text

(* Each call of iterate_post leaves a pick_connection.                     *)
LEMMA IteratePostType ==
  ASSUME NEW o \in Object, NEW buffer \in Text
  PROVE  iterate_post(o, buffer) \in Object
<1> DEFINE data == c_string(buffer)
<1>1. data \in Text
  BY CStringType
<1>2. add_key_value(o.post_dynarray, input_conversion(data)) \in EncodedText
  <2> HIDE DEF data
  <2> QED
    BY <1>1, AddKeyValueType, ConversionType DEF Object
<1> QED
  BY <1>2 DEF iterate_post, Object, ErrorKind

(* What is behind the piece that iterate_post is called with is a text.    *)
LEMMA BuffersType ==
  ASSUME NEW r, NEW data \in Text, NEW buffer \in buffers(r, data)
  PROVE  buffer \in Text
<1>1. CASE buffer = data
  BY <1>1
<1>2. ASSUME NEW tail \in Overread, buffer = data \o tail
      PROVE  buffer \in Text
  <2>1. tail \in Text
    OBVIOUS
  <2> QED
    BY <1>2, <2>1 DEF Text
<1>3. buffer = data \/ \E tail \in Overread : buffer = data \o tail
  BY DEF buffers
<1> QED
  BY <1>1, <1>2, <1>3

(* initialize_request stores errors of the kinds it throws.                *)
LEMMA RequestErrorType ==
  ASSUME NEW o, NEW r
  PROVE  request_error(o, r) \in ErrorKind
BY DEF request_error, ErrorKind

(* QMCall is given an argument list.                                       *)
LEMMA CallType ==
  ASSUME NEW o \in Object, NEW r \in Request
  PROVE  QMCall_arguments(o, r) \in Call
BY DEF QMCall_arguments, Call, Object, Request, EncodedText

-----------------------------------------------------------------------------
(* How each handler ends. *)

(* initialize() keeps its new object, deletes it or answers with it.       *)
LEMMA InitializePreserves ==
  ASSUME ObjInv, NEW c, NEW a, Usable(c, a), answer[c] = NULL,
         request[c] \in Requests, initialize(c, a)
  PROVE  ObjInv' /\ phase'[c] # "idle" /\ Untouched(c)
<1> DEFINE o == typed_connection(request[c])
<1>1. routed_connection(request[c]) \in Object /\ o \in Object
  BY NewObjectType
<1>2. /\ [o EXCEPT !.fetch_post_json = TRUE] \in Object
      /\ [o EXCEPT !.post_processor = "created"] \in Object
  <2> HIDE DEF o
  <2> QED
    BY <1>1 DEF Object
<1>3. NextPhase(c, 0) \in Phase \ {"idle"}
  BY DEF NextPhase
<1>4. Routes[request[c].url].status \in Int
  BY DEF Request, Route
<1>5. \/ \E p \in Object, status \in Int : send_error_page(c, a, p, status)
      \/ \E p \in Object : send_response(c, a, p, 500, "default")
      \/ \E p \in Object : Keep(c, a, p, NextPhase(c, 0))
      \/ Delete(c, a)
  <2> DEFINE r == routed_connection(request[c])
             json == [o EXCEPT !.fetch_post_json = TRUE]
             form == [o EXCEPT !.post_processor = "created"]
  <2>1. \/ \E status \in {Routes[request[c].url].status, 405} :
             send_error_page(c, a, r, status)
        \/ send_error_page(c, a, o, 415)
        \/ send_response(c, a, r, 500, "default")
        \/ \E p \in {o, json, form} : Keep(c, a, p, NextPhase(c, 0))
        \/ Delete(c, a)
    BY DEF initialize
  <2> HIDE DEF o, r, json, form
  <2> QED
    BY <1>1, <1>2, <1>4, <2>1 DEF o, r, json, form
<1> QED
  BY <1>3, <1>5, SendPreserves, ErrorPagePreserves, KeepPreserves,
     DeletePreserves

(* post_json_process stores the piece or an error.                         *)
LEMMA PostJsonPreserves ==
  ASSUME ObjInv, NEW c, NEW a, Usable(c, a), answer[c] = NULL,
         NEW o \in Object, NEW data \in Text, post_json_process(c, a, o, data)
  PROVE  ObjInv' /\ phase'[c] # "idle" /\ Untouched(c)
<1> DEFINE o2 == [o EXCEPT !.post_dynarray = append(@, data)]
           ph == NextPhase(c, received[c] + Len(data))
<1>1. o2 \in Object
  <2>1. append(o.post_dynarray, data) \in EncodedText
    BY AppendType DEF Object
  <2> QED
    BY <2>1 DEF Object
<1>2. \A e \in ErrorKind : [o EXCEPT !.error_exception = e] \in Object
  BY DEF Object
<1>3. ph \in Phase \ {"idle"}
  BY DEF NextPhase
<1>4. \/ \E e \in ErrorKind :
           Keep(c, a, [o EXCEPT !.error_exception = e], "closing")
      \/ Keep(c, a, o2, ph)
  BY DEF post_json_process, ErrorKind
<1> HIDE DEF o2, ph
<1> QED
  BY <1>1, <1>2, <1>3, <1>4, KeepPreserves

(* The post processor stores the piece or an error.                        *)
LEMMA PostProcessPreserves ==
  ASSUME ObjInv, NEW c, NEW a, Usable(c, a), answer[c] = NULL,
         NEW o \in Object, NEW data \in Text, MHD_post_process(c, a, o, data)
  PROVE  ObjInv' /\ phase'[c] # "idle" /\ Untouched(c)
<1> DEFINE ph == NextPhase(c, received[c] + Len(data))
<1>1. [o EXCEPT !.error_exception = "bad_alloc"] \in Object
  BY DEF Object, ErrorKind
<1>2. \A buffer \in buffers(request[c], data) : iterate_post(o, buffer) \in Object
  BY IteratePostType, BuffersType
<1>3. ph \in Phase \ {"idle"}
  BY DEF NextPhase
<1>4. \E p \in Object : Keep(c, a, p, ph)
  BY <1>1, <1>2 DEF MHD_post_process
<1> HIDE DEF ph
<1> QED
  BY <1>3, <1>4, KeepPreserves

(* process() answers, drops the request, or starts the routine: then, and  *)
(* only then, it takes the polling thread and opens a session.             *)
LEMMA ProcessPreserves ==
  ASSUME ObjInv, NEW c, NEW a, Usable(c, a), answer[c] = NULL,
         phase[c] # "idle", NEW o \in Object, process(c, a, o)
  PROVE  ObjInv' /\ phase'[c] # "idle" /\ Untouched(c)
<1>1. \A e \in ErrorKind : [o EXCEPT !.error_exception = e] \in Object
  BY DEF Object
<1>2. request_error(o, request[c]) \in ErrorKind
  BY RequestErrorType
<1>3. \A kind : CatchStatus(kind) \in Int
  BY DEF CatchStatus
<1>4. phase[c] \in Phase \ {"idle"}
  BY DEF ObjInv, Usable
<1>5. \/ \E p \in Object, status \in Int : send_error_page(c, a, p, status)
      \/ \E status \in Int : send_response(c, a, o, status, "default")
      \/ Keep(c, a, o, phase[c])
  BY <1>1, <1>2, <1>3 DEF process
<1> QED
  BY <1>4, <1>5, SendPreserves, ErrorPagePreserves, KeepPreserves

(* At most one allocation fails in a callback.                             *)
LEMMA AllocBounded ==
  ASSUME alloc_failures \in 0..MaxAllocFailures, AllocOK \/ AllocFails
  PROVE  alloc_failures' \in 0..MaxAllocFailures
BY DEF AllocOK, AllocFails

(* A handler counts the allocation that fails, if one does.                *)
LEMMA HandlersAllocate ==
  ASSUME NEW c, NEW a, NEW o, NEW data,
         \/ initialize(c, a)
         \/ post_json_process(c, a, o, data)
         \/ MHD_post_process(c, a, o, data)
         \/ process(c, a, o)
  PROVE  AllocOK \/ AllocFails
BY DEF initialize, post_json_process, MHD_post_process, process, send_error_page

(* How process() changes what OpenQM sees.                                 *)
LEMMA ProcessEffects ==
  ASSUME NEW c, NEW a, NEW o, process(c, a, o)
  PROVE  \/ UNCHANGED qm
         \/ QMConnectLocal /\ UNCHANGED <<thread, calls, replied>> /\ AllocFails
         \/ /\ QMConnectLocal /\ thread' = c
            /\ calls' = [calls EXCEPT
                            ![c] = Append(@, QMCall_arguments(o, request[c]))]
            /\ Keep(c, a, o, phase[c])
            /\ ~failed(o)
            /\ replied' = replied
BY DEF process

-----------------------------------------------------------------------------
(* The invariant. *)

(* The part of the invariant the handlers rely on.                         *)
LEMMA IInvObj == IInv => ObjInv
BY DEF IInv, TypeOK, ObjInv

(* The server starts with no request and no object.                        *)
LEMMA InitIInv == Init => IInv
BY DEF Init, IInv, TypeOK, HeapOwned, AnswerHeld, RoutineHolds, CrashCause, Call

(* A step of one connection's handler preserves the invariant if it treats *)
(* the objects well and leaves OpenQM alone.                               *)
LEMMA HandlerPreserves ==
  ASSUME IInv, NEW c \in Conn, phase[c] # "idle", thread = NULL,
         ObjInv', phase'[c] # "idle", Untouched(c),
         request' = request, received' \in [Conn -> Nat],
         UNCHANGED qm \/ (QMConnectLocal /\ UNCHANGED <<thread, calls, replied>>),
         AllocOK \/ AllocFails, crash' = crash
  PROVE  IInv'
<1>1. alloc_failures' \in 0..MaxAllocFailures
  BY AllocBounded DEF IInv, TypeOK
<1>2. sessions' \in Nat /\ UNCHANGED <<thread, calls, replied>>
  BY DEF IInv, TypeOK, qm, QMConnectLocal
<1>3. \A d \in Conn : (request'[d] = NULL) <=> (phase'[d] = "idle")
  BY DEF IInv, TypeOK, Untouched
<1>4. TypeOK'
  BY <1>1, <1>2, <1>3 DEF IInv, TypeOK, ObjInv
<1> QED
  BY <1>2, <1>4 DEF IInv, ObjInv, RoutineHolds

(* The end of the process changes nothing else.                            *)
LEMMA TerminatePreserves ==
  ASSUME IInv, NEW cause \in CrashCause, Terminate(cause),
         AllocOK \/ AllocFails
  PROVE  IInv'
<1>1. alloc_failures' \in 0..MaxAllocFailures
  BY AllocBounded DEF IInv, TypeOK
<1>2. UNCHANGED <<phase, request, received, answer, response_refs, con_cls,
                  heap, thread, sessions, calls, replied>>
  BY DEF Terminate, mhd, objs, qm
<1>3. TypeOK'
  BY <1>1, <1>2 DEF IInv, TypeOK, Terminate
<1> QED
  BY <1>2, <1>3 DEF IInv, HeapOwned, AnswerHeld, RoutineHolds

(* The first call for a request creates its object, or ends the process.   *)
LEMMA FirstCallPreserves ==
  ASSUME IInv, NEW c \in Conn, FirstCall(c)
  PROVE  IInv'
<1>1. CASE AllocFails /\ Terminate("bad_alloc")
  BY <1>1, TerminatePreserves DEF CrashCause
<1>3. CASE LogFails /\ (AllocOK \/ AllocFails)
  BY <1>3, TerminatePreserves DEF CrashCause, LogFails
<1>2. ASSUME NEW a \in Addr, heap[a] = NULL, initialize(c, a),
             UNCHANGED <<request, received, qm, crash>>
      PROVE  IInv'
  <2>1. ObjInv /\ answer[c] = NULL /\ Usable(c, a) /\ request[c] \in Requests
        /\ thread = NULL
    BY <1>2, IInvObj DEF FirstCall, HandlerCall, PollingThreadFree, IInv,
       TypeOK, AnswerHeld, Usable
  <2>2. ObjInv' /\ phase'[c] # "idle" /\ Untouched(c)
    BY <1>2, <2>1, InitializePreserves
  <2>3. AllocOK \/ AllocFails
    BY <1>2, HandlersAllocate
  <2>4. phase[c] # "idle" /\ received' \in [Conn -> Nat]
    BY <1>2 DEF IInv, TypeOK, FirstCall, HandlerCall
  <2> QED
    BY <1>2, <2>1, <2>2, <2>3, <2>4, HandlerPreserves
<1> QED
  BY <1>1, <1>2, <1>3 DEF FirstCall

(* A piece of body is stored, or refused, by the object of its request.    *)
LEMMA UploadUntouched ==
  ASSUME IInv, NEW c \in Conn, crash' = crash,
         NEW n \in 1..(Len(request[c].body) - received[c]), UploadData(c, n)
  PROVE  /\ ObjInv' /\ phase'[c] # "idle" /\ Untouched(c)
         /\ received' \in [Conn -> Nat]
         /\ UNCHANGED <<request, qm>> /\ (AllocOK \/ AllocFails)
<1> DEFINE a == con_cls[c]
           o == heap[a]
           data == SubSeq(request[c].body, received[c] + 1, received[c] + n)
<1>1. /\ phase[c] = "body" /\ a \in Addr /\ o \in Object
      /\ Usable(c, a) /\ answer[c] = NULL /\ ObjInv
  <2>1. phase[c] = "body" /\ con_cls[c] # NULL
    BY DEF UploadData
  <2>2. a \in Addr /\ o \in Object
    BY <2>1 DEF IInv, TypeOK, HeapOwned
  <2>3. answer[c] = NULL
    BY <2>1 DEF IInv, AnswerHeld
  <2> QED
    BY <2>1, <2>2, <2>3, IInvObj DEF Usable
<1>2. data \in Text
  <2>1. request[c] \in Requests
    BY <1>1 DEF IInv, TypeOK
  <2>2. request[c].body \in Text /\ received[c] \in Nat
    BY <2>1 DEF Request, IInv, TypeOK
  <2>3. received[c] + n <= Len(request[c].body) /\ n \in Nat \ {0}
    <3> DEFINE l == Len(request[c].body)
               i == received[c]
    <3>1. l \in Nat /\ i \in Nat /\ n \in 1..(l - i)
      BY <2>2 DEF Text
    <3> HIDE DEF l, i
    <3>2. i + n <= l /\ n \in Nat \ {0}
      BY <3>1
    <3> QED
      BY <3>2 DEF l, i
  <2> QED
    BY <2>2, <2>3, PieceType
<1>3. /\ \/ post_json_process(c, a, o, data)
         \/ MHD_post_process(c, a, o, data)
      /\ UNCHANGED <<request, qm>>
      /\ received' = [received EXCEPT ![c] = @ + n]
  BY DEF UploadData, Terminate, HandlerCall, PollingThreadFree
<1> HIDE DEF a, o, data
<1>4. ObjInv' /\ phase'[c] # "idle" /\ Untouched(c)
  BY <1>1, <1>2, <1>3, PostJsonPreserves, PostProcessPreserves
<1>5. received' \in [Conn -> Nat]
  BY <1>3 DEF IInv, TypeOK
<1> QED
  BY <1>3, <1>4, <1>5, HandlersAllocate

(* MHD hands the handler a piece of the body.                              *)
LEMMA UploadDataPreserves ==
  ASSUME IInv, NEW c \in Conn,
         NEW n \in 1..(Len(request[c].body) - received[c]), UploadData(c, n)
  PROVE  IInv'
<1>1. ASSUME NEW cause \in {"post_processor", "bad_alloc"}, Terminate(cause),
             AllocOK \/ AllocFails
      PROVE  IInv'
  BY <1>1, TerminatePreserves DEF CrashCause
<1>2. CASE crash' = crash
  <2>1. thread = NULL /\ phase[c] # "idle"
    BY DEF UploadData, HandlerCall, PollingThreadFree
  <2> QED
    BY <1>2, <2>1, UploadUntouched, HandlerPreserves
<1> QED
  BY <1>1, <1>2 DEF UploadData

(* process() for the object at con_cls[c], as it is or converted.          *)
LEMMA ProcessStep ==
  ASSUME IInv, NEW c \in Conn, HandlerCall(c), con_cls[c] # NULL,
         NEW o \in Object, process(c, con_cls[c], o),
         UNCHANGED <<request, received, crash>>
  PROVE  IInv'
<1> DEFINE a == con_cls[c]
<1>1. /\ a \in Addr /\ thread = NULL /\ Usable(c, a) /\ answer[c] = NULL
      /\ ObjInv /\ request[c] \in Requests /\ received' \in [Conn -> Nat]
      /\ phase[c] # "idle"
  BY IInvObj DEF HandlerCall, PollingThreadFree, IInv, TypeOK, AnswerHeld,
     Usable
<1>2. ObjInv' /\ phase'[c] # "idle" /\ Untouched(c)
  BY <1>1, ProcessPreserves
<1>3. AllocOK \/ AllocFails
  BY HandlersAllocate
<1>4. CASE UNCHANGED qm \/ (QMConnectLocal /\ UNCHANGED <<thread, calls, replied>>)
  BY <1>1, <1>2, <1>3, <1>4, HandlerPreserves
<1>5. CASE /\ QMConnectLocal /\ thread' = c
           /\ calls' = [calls EXCEPT
                           ![c] = Append(@, QMCall_arguments(o, request[c]))]
           /\ replied' = replied
           /\ Keep(c, a, o, phase[c])
  <2>1. alloc_failures' \in 0..MaxAllocFailures
    BY <1>3, AllocBounded DEF IInv, TypeOK
  <2>2. calls' \in [Conn -> Seq(Call)]
    <3>1. QMCall_arguments(o, request[c]) \in Call
      BY <1>1, CallType
    <3> QED
      BY <1>5, <3>1 DEF IInv, TypeOK
  <2>3. sessions' \in Nat /\ sessions' > 0 /\ thread' \in Conn
    BY <1>5 DEF QMConnectLocal, IInv, TypeOK
  <2>4. \A d \in Conn : (request'[d] = NULL) <=> (phase'[d] = "idle")
    BY <1>1, <1>2 DEF IInv, TypeOK, Untouched
  <2>5. TypeOK'
    BY <1>1, <1>2, <1>5, <2>1, <2>2, <2>3, <2>4 DEF IInv, TypeOK, ObjInv
  <2>6. RoutineHolds'
    BY <1>1, <1>5, <2>3 DEF RoutineHolds, Keep, IInv, TypeOK, HandlerCall
  <2> QED
    BY <1>2, <2>5, <2>6 DEF IInv, ObjInv
<1> QED
  BY <1>4, <1>5, ProcessEffects

(* The final call processes the request, or refuses its json.              *)
LEMMA ProcessRequestPreserves ==
  ASSUME IInv, NEW c \in Conn, ProcessRequest(c)
  PROVE  IInv'
<1> DEFINE a == con_cls[c]
           o == heap[a]
           post == o.post_dynarray
           converted == [o EXCEPT !.post_dynarray = input_conversion(post.text)]
<1>1. /\ a \in Addr /\ o \in Object /\ thread = NULL /\ HandlerCall(c)
      /\ Usable(c, a) /\ answer[c] = NULL /\ ObjInv /\ con_cls[c] # NULL
      /\ received \in [Conn -> Nat] /\ phase[c] # "idle"
  <2>1. HandlerCall(c) /\ con_cls[c] # NULL
    BY DEF ProcessRequest
  <2>2. a \in Addr /\ o \in Object
    BY <2>1 DEF IInv, TypeOK, HeapOwned
  <2> HIDE DEF o
  <2> QED
    BY <2>1, <2>2, IInvObj DEF HandlerCall, PollingThreadFree, IInv, TypeOK,
       AnswerHeld, Usable
<1>2. post \in EncodedText \cup {NULL}
  BY <1>1 DEF Object
<1>3. CASE AllocOK /\ Terminate("null json")
  BY <1>3, TerminatePreserves DEF CrashCause
<1>4. CASE AllocFails /\ Terminate("bad_alloc")
  BY <1>4, TerminatePreserves DEF CrashCause
<1>5. CASE /\ \/ Queue(c, a, o, 400, "default") /\ AllocOK
              \/ Keep(c, a, o, "closing") /\ AllocFails
           /\ UNCHANGED <<request, received, qm, crash>>
  <2> HIDE DEF o
  <2>1. ObjInv' /\ phase'[c] # "idle" /\ Untouched(c)
    BY <1>1, <1>5, QueuePreserves, KeepPreserves
  <2> QED
    BY <1>1, <1>5, <2>1, HandlerPreserves DEF HandlerCall
<1>6. CASE post # NULL /\ process(c, a, converted)
           /\ UNCHANGED <<request, received, crash>>
  <2>1. input_conversion(post.text) \in EncodedText
    BY <1>2, <1>6, ConversionType DEF EncodedText
  <2>2. converted \in Object
    <3> HIDE DEF post
    <3> QED
      BY <1>1, <2>1 DEF Object
  <2> HIDE DEF converted
  <2> QED
    BY <1>1, <1>6, <2>2, ProcessStep
<1>7. CASE process(c, a, o) /\ UNCHANGED <<request, received, crash>>
  BY <1>1, <1>7, ProcessStep
<1>8. CASE LogFails /\ (AllocOK \/ AllocFails)
  BY <1>8, TerminatePreserves DEF CrashCause, LogFails
<1> HIDE DEF post, o, a, converted
<1> QED
  BY <1>3, <1>4, <1>5, <1>6, <1>7, <1>8 DEF ProcessRequest, a, o, post, converted

(* The routine returns: its session and the polling thread are free again. *)
LEMMA RoutineReturnsPreserves ==
  ASSUME IInv, NEW c \in Conn, NEW reply \in Replies, RoutineReturns(c, reply)
  PROVE  IInv'
<1> DEFINE a == con_cls[c]
           o == heap[a]
<1>1. /\ a \in Addr /\ o \in Object /\ Usable(c, a) /\ answer[c] = NULL
      /\ ObjInv /\ sessions > 0 /\ phase[c] # "idle"
  BY IInvObj DEF RoutineReturns, IInv, TypeOK, HeapOwned, AnswerHeld, Usable,
     RoutineHolds
<1>2. http_status_code(reply) \in Int /\ CatchStatus("bad_alloc") \in Int
      /\ reply.output \in {"page", "empty", "default"}
  BY DEF http_status_code, CatchStatus, Reply
<1>3. CASE AllocFails /\ Terminate("bad_alloc")
  BY <1>3, TerminatePreserves DEF CrashCause
<1>5. CASE LogFails /\ (AllocOK \/ AllocFails)
  BY <1>5, TerminatePreserves DEF CrashCause, LogFails
<1>4. CASE crash' = crash
  <2>1. /\ \/ \E status \in Int : send_error_page(c, a, o, status)
           \/ \E status \in Int, body \in {"page", "empty", "default"} :
                send_response(c, a, o, status, body)
        /\ QMDisconnect /\ thread' = NULL
        /\ replied' = [replied EXCEPT ![c] = reply]
        /\ UNCHANGED <<request, received, calls, crash>>
        /\ AllocOK \/ AllocFails
    BY <1>2, <1>4 DEF RoutineReturns, send_error_page, Terminate, LogFails
  <2>2. ObjInv' /\ phase'[c] # "idle" /\ Untouched(c)
    <3> HIDE DEF a, o
    <3> QED
      BY <1>1, <2>1, SendPreserves, ErrorPagePreserves DEF Usable
  <2>3. alloc_failures' \in 0..MaxAllocFailures
    BY <2>1, AllocBounded DEF IInv, TypeOK
  <2>4. sessions' \in Nat
    BY <1>1, <2>1 DEF QMDisconnect, IInv, TypeOK
  <2>5. \A d \in Conn : (request'[d] = NULL) <=> (phase'[d] = "idle")
    BY <1>1, <2>1, <2>2 DEF IInv, TypeOK, Untouched
  <2>6. TypeOK'
    BY <2>1, <2>2, <2>3, <2>4, <2>5 DEF IInv, TypeOK, ObjInv
  <2> QED
    BY <2>1, <2>2, <2>6 DEF IInv, ObjInv, RoutineHolds
<1> QED
  BY <1>3, <1>4, <1>5 DEF RoutineReturns

(* A client sends a request on an idle connection.                         *)
LEMMA SendRequestPreserves ==
  ASSUME IInv, NEW c \in Conn, NEW r \in Requests, SendRequest(c, r)
  PROVE  IInv'
<1>1. UNCHANGED <<received, answer, con_cls, heap, thread, sessions, calls,
                  replied, alloc_failures, crash>>
  BY DEF SendRequest, objs, qm, env
<1>2. TypeOK'
  BY <1>1 DEF SendRequest, IInv, TypeOK
<1>3. HeapOwned'
  BY <1>1 DEF SendRequest, IInv, TypeOK, HeapOwned
<1>4. AnswerHeld' /\ RoutineHolds'
  BY <1>1 DEF SendRequest, IInv, TypeOK, AnswerHeld, RoutineHolds
<1> QED
  BY <1>2, <1>3, <1>4 DEF IInv

(* request_completed deletes the object that is left, if any.              *)
LEMMA CompletedPreserves ==
  ASSUME IInv, NEW c \in Conn, request_completed(c)
  PROVE  IInv'
<1>1. UNCHANGED <<thread, sessions, alloc_failures, crash>> /\ thread = NULL
  BY DEF request_completed, PollingThreadFree, env
<1>2. con_cls' \in [Conn -> Addr \cup {NULL}] /\ con_cls'[c] = NULL
      /\ heap' \in [Addr -> Object \cup {NULL}]
  BY DEF request_completed, release, objs, IInv, TypeOK
<1>3. HeapOwned'
  <2>1. phase' = [phase EXCEPT ![c] = "idle"]
    BY DEF request_completed
  <2>2. CASE con_cls[c] = NULL /\ con_cls' = con_cls /\ heap' = heap
    BY <2>1, <2>2 DEF IInv, TypeOK, HeapOwned
  <2>3. CASE con_cls[c] # NULL /\ release(c, con_cls[c])
    BY <2>1, <2>3 DEF release, IInv, TypeOK, HeapOwned
  <2> QED
    BY <2>2, <2>3 DEF request_completed, objs
<1>4. AnswerHeld' /\ RoutineHolds'
  BY <1>1 DEF request_completed, IInv, TypeOK, AnswerHeld, RoutineHolds
<1>5. response_refs' \in [Conn -> 0..2]
  BY DEF request_completed, IInv, TypeOK, AnswerHeld
<1>6. TypeOK'
  BY <1>1, <1>2, <1>5 DEF request_completed, IInv, TypeOK
<1> QED
  BY <1>3, <1>4, <1>6 DEF IInv

(* Each action preserves the invariant. *)
LEMMA NextIInv == IInv /\ [Next]_vars => IInv'
<1> SUFFICES ASSUME IInv, [Next]_vars PROVE IInv'
  OBVIOUS
<1>1. CASE UNCHANGED vars
  <2>1. UNCHANGED <<phase, request, received, answer, response_refs, con_cls,
                    heap, thread, sessions, calls, replied, alloc_failures,
                    crash>>
    BY <1>1 DEF vars, mhd, objs, qm, env
  <2> QED
    BY <2>1 DEF IInv, TypeOK, HeapOwned, AnswerHeld, RoutineHolds
<1>2. ASSUME NEW c \in Conn, NEW r \in Requests, SendRequest(c, r) PROVE IInv'
  BY <1>2, SendRequestPreserves
<1>3. ASSUME NEW c \in Conn, FirstCall(c) PROVE IInv'
  BY <1>3, FirstCallPreserves
<1>4. ASSUME NEW c \in Conn,
             NEW n \in 1..(Len(request[c].body) - received[c]), UploadData(c, n)
      PROVE  IInv'
  BY <1>4, UploadDataPreserves
<1>5. ASSUME NEW c \in Conn, ProcessRequest(c) PROVE IInv'
  BY <1>5, ProcessRequestPreserves
<1>6. ASSUME NEW c \in Conn, NEW reply \in Replies, RoutineReturns(c, reply)
      PROVE  IInv'
  BY <1>6, RoutineReturnsPreserves
<1>7. ASSUME NEW c \in Conn, request_completed(c) PROVE IInv'
  BY <1>7, CompletedPreserves
<1> QED
  BY <1>1, <1>2, <1>3, <1>4, <1>5, <1>6, <1>7 DEF Next

(* IInv holds in every reachable state. *)
THEOREM Invariant == Spec => []IInv
  BY InitIInv, NextIInv, PTL DEF Spec

(* The state stays well typed for every value of the constants: an answer  *)
(* is never sent twice, a session is never closed that was not opened.     *)
THEOREM TypeCorrect == Spec => []TypeOK
<1>1. IInv => TypeOK
  BY DEF IInv
<1> QED
  BY <1>1, Invariant, PTL

(* pick_to_connection and request_completed neither leak an object past    *)
(* its request, nor free one twice, nor use one that is freed, whatever    *)
(* allocations fail and however requests interleave.                       *)
THEOREM ObjectsOwned == Spec => []HeapOwned
<1>1. IInv => HeapOwned
  BY DEF IInv
<1> QED
  BY <1>1, Invariant, PTL


-----------------------------------------------------------------------------
(* The bodies that are stored. *)

(* The units of a text that its conversion leaves: one for each character. *)
Kept(s) == {i \in 1..Len(s) : s[i] # "trail"}

(* A text has finitely many characters, and no more than units.            *)
LEMMA KeptCount ==
  ASSUME NEW s \in Text
  PROVE  /\ Len(s) \in Nat /\ IsFiniteSet(Kept(s))
         /\ Cardinality(Kept(s)) \in Nat /\ Cardinality(Kept(s)) <= Len(s)
<1>1. Len(s) \in Nat
  BY DEF Text
<1>2. IsFiniteSet(1..Len(s)) /\ Cardinality(1..Len(s)) = Len(s)
  <2>1. 1..Len(s) = (0 + 1)..(0 + Len(s))
    OBVIOUS
  <2> QED
    BY <1>1, <2>1, CountUp
<1>3. Kept(s) \in SUBSET (1..Len(s))
  BY DEF Kept
<1>4. /\ IsFiniteSet(Kept(s))
      /\ Cardinality(Kept(s)) <= Cardinality(1..Len(s))
  BY <1>2, <1>3, FS_Subset, Zenon
<1>5. Cardinality(Kept(s)) \in Nat
  BY <1>4, FS_CardinalityType, Zenon
<1> QED
  BY <1>1, <1>2, <1>4, <1>5

(* The characters of two texts, one behind the other, add up.              *)
LEMMA KeptConcat ==
  ASSUME NEW s \in Text, NEW t \in Text
  PROVE  /\ s \o t \in Text /\ Len(s \o t) = Len(s) + Len(t)
         /\ Cardinality(Kept(s \o t)) = Cardinality(Kept(s)) + Cardinality(Kept(t))
<1> DEFINE u == s \o t
           m == Len(s)
           n == Len(t)
           moved == {i \in (m + 1)..(m + n) : t[i - m] # "trail"}
           back == [i \in moved |-> i - m]
<1>1. s \in Seq(Unit) /\ t \in Seq(Unit) /\ m \in Nat /\ n \in Nat
  BY DEF Text
<1>2. /\ u \in Seq(Unit) /\ Len(u) = m + n
      /\ \A i \in 1..(m + n) : u[i] = IF i <= m THEN s[i] ELSE t[i - m]
  BY <1>1, ConcatProperties
<1> HIDE DEF u
<1>3. Kept(u) = Kept(s) \cup moved /\ Kept(s) \cap moved = {}
  <2> HIDE DEF m, n
  <2>1. Kept(u) = {i \in 1..(m + n) : u[i] # "trail"}
    BY <1>2 DEF Kept
  <2>2. Kept(s) = {i \in 1..m : s[i] # "trail"}
    BY DEF Kept, m
  <2>3. ASSUME NEW i \in 1..m
        PROVE  i \in 1..(m + n) /\ i \notin (m + 1)..(m + n) /\ u[i] = s[i]
    <3>1. i \in 1..(m + n) /\ i <= m /\ i \notin (m + 1)..(m + n)
      BY <1>1
    <3> QED
      BY <1>2, <3>1
  <2>4. ASSUME NEW i \in (m + 1)..(m + n)
        PROVE  i \in 1..(m + n) /\ i \notin 1..m /\ u[i] = t[i - m]
    <3>1. i \in 1..(m + n) /\ ~(i <= m) /\ i \notin 1..m
      BY <1>1
    <3> QED
      BY <1>2, <3>1
  <2>5. \A i \in 1..(m + n) : i \in 1..m \/ i \in (m + 1)..(m + n)
    BY <1>1
  <2> HIDE DEF u
  <2> QED
    BY <2>1, <2>2, <2>3, <2>4, <2>5
<1>4. IsFiniteSet(moved) /\ Cardinality(moved) = Cardinality(Kept(t))
  <2>1. back \in Injection(moved, Kept(t))
    <3>1. back \in [moved -> Kept(t)]
      <4>1. Kept(t) = {i \in 1..n : t[i] # "trail"}
        BY DEF Kept
      <4> HIDE DEF m, n
      <4> QED
        BY <1>1, <4>1
    <3>2. \A i, j \in moved : back[i] = back[j] => i = j
      <4>1. \A i \in moved : back[i] = i - m /\ i \in Int
        BY <1>1
      <4> HIDE DEF m, n, back, moved
      <4> QED
        BY <1>1, <4>1
    <3> HIDE DEF back, moved
    <3> QED
      BY <3>1, <3>2 DEF Injection, IsInjective
  <2>2. back \in Surjection(moved, Kept(t))
    <3>1. \A i \in Kept(t) : i + m \in moved /\ back[i + m] = i
      <4>1. Kept(t) = {i \in 1..n : t[i] # "trail"}
        BY DEF Kept
      <4> HIDE DEF m, n
      <4>2. ASSUME NEW i \in Kept(t) PROVE i + m \in moved /\ (i + m) - m = i
        <5>1. /\ i \in 1..n /\ t[i] # "trail"
              /\ i + m \in (m + 1)..(m + n) /\ (i + m) - m = i
          BY <1>1, <4>1
        <5> QED
          BY <5>1
      <4> HIDE DEF moved
      <4> QED
        BY <4>2
    <3> HIDE DEF back, moved
    <3> QED
      BY <2>1, <3>1 DEF Injection, Surjection
  <2>3. IsFiniteSet(Kept(t))
    BY KeptCount
  <2> HIDE DEF back, moved
  <2> QED
    BY <2>1, <2>2, <2>3, FS_Injection
<1>5. /\ IsFiniteSet(Kept(s)) /\ Cardinality(Kept(s)) \in Nat
      /\ Cardinality(Kept(t)) \in Nat
  BY KeptCount
<1>6. Cardinality(Kept(u)) = Cardinality(Kept(s)) + Cardinality(Kept(t))
  <2> HIDE DEF moved
  <2>1. Cardinality(Kept(s) \cup moved) =
          Cardinality(Kept(s)) + Cardinality(moved)
                               - Cardinality(Kept(s) \cap moved)
    BY <1>4, <1>5, FS_Union, Zenon
  <2>2. Cardinality(Kept(s) \cap moved) = 0
    BY <1>3, FS_EmptySet
  <2> QED
    BY <1>3, <1>4, <1>5, <2>1, <2>2
<1> QED
  BY <1>2, <1>6 DEF u, Text

(* A text that takes another one in anywhere has the characters of both.   *)
LEMMA KeptInserted ==
  ASSUME NEW s \in Text, NEW t \in Text, NEW k \in 0..Len(s)
  PROVE  LET u == SubSeq(s, 1, k) \o t \o SubSeq(s, k + 1, Len(s)) IN
         /\ u \in Text /\ Len(u) = Len(s) + Len(t)
         /\ Cardinality(Kept(u)) = Cardinality(Kept(s)) + Cardinality(Kept(t))
<1> DEFINE head == SubSeq(s, 1, k)
           tail == SubSeq(s, k + 1, Len(s))
<1>1. s \in Seq(Unit) /\ Len(s) \in Nat
  BY DEF Text
<1>2. head \in Text /\ tail \in Text
  BY <1>1, SubSeqProperties DEF Text
<1>3. s = head \o tail
  <2>1. /\ 1 \in 1..(Len(s) + 1) /\ k \in (1 - 1)..Len(s)
        /\ Len(s) \in k..Len(s)
    BY <1>1
  <2>2. SubSeq(s, 1, k) \o SubSeq(s, k + 1, Len(s)) = SubSeq(s, 1, Len(s))
    BY <1>1, <2>1, ConcatAdjacentSubSeq
  <2>3. SubSeq(s, 1, Len(s)) = s
    BY <1>1, SubSeqFull
  <2> QED
    BY <2>2, <2>3
<1> HIDE DEF head, tail
<1>4. /\ Len(s) = Len(head) + Len(tail)
      /\ Cardinality(Kept(s)) = Cardinality(Kept(head)) + Cardinality(Kept(tail))
  BY <1>2, <1>3, KeptConcat
<1>5. /\ head \o t \in Text /\ Len(head \o t) = Len(head) + Len(t)
      /\ Cardinality(Kept(head \o t)) =
           Cardinality(Kept(head)) + Cardinality(Kept(t))
  BY <1>2, KeptConcat
<1>6. /\ (head \o t) \o tail \in Text
      /\ Len((head \o t) \o tail) = Len(head \o t) + Len(tail)
      /\ Cardinality(Kept((head \o t) \o tail)) =
           Cardinality(Kept(head \o t)) + Cardinality(Kept(tail))
  BY <1>2, <1>5, KeptConcat
<1>7. /\ Len(head) \in Nat /\ Len(tail) \in Nat /\ Len(t) \in Nat
      /\ Cardinality(Kept(head)) \in Nat /\ Cardinality(Kept(tail)) \in Nat
      /\ Cardinality(Kept(t)) \in Nat
  BY <1>2, KeptCount
<1> DEFINE ch == Cardinality(Kept(head))
           ct == Cardinality(Kept(tail))
           cm == Cardinality(Kept(t))
           u == (head \o t) \o tail
<1>8. Len(u) = Len(s) + Len(t)
  <2> DEFINE lh == Len(head)
             lt == Len(tail)
             lm == Len(t)
  <2>1. Len(u) = (lh + lm) + lt /\ Len(s) = lh + lt
    BY <1>4, <1>5, <1>6
  <2>2. lh \in Nat /\ lt \in Nat /\ lm \in Nat
    BY <1>7
  <2> HIDE DEF u, lh, lt, lm
  <2>3. (lh + lm) + lt = (lh + lt) + lm
    BY <2>2
  <2> QED
    BY <2>1, <2>3, Zenon DEF lm
<1>9. Cardinality(Kept(u)) = Cardinality(Kept(s)) + Cardinality(Kept(t))
  <2>1. Cardinality(Kept(u)) = (ch + cm) + ct /\ Cardinality(Kept(s)) = ch + ct
    BY <1>4, <1>5, <1>6
  <2>2. ch \in Nat /\ ct \in Nat /\ cm \in Nat
    BY <1>7
  <2> HIDE DEF u, ch, ct, cm
  <2>3. (ch + cm) + ct = (ch + ct) + cm
    BY <2>2
  <2> QED
    BY <2>1, <2>3, Zenon DEF cm
<1> QED
  BY <1>6, <1>8, <1>9, Zenon DEF head, tail

(* The bytes of a converted text, by its characters.                       *)
LEMMA BytesAre ==
  ASSUME NEW t \in EncodedText
  PROVE  Bytes(t) = IF t.enc = "pick" THEN Cardinality(Kept(t.text))
                    ELSE Len(t.text)
BY DEF Bytes, Kept

(* A converted text has no more bytes than the text.                       *)
LEMMA BytesBound ==
  ASSUME NEW t \in EncodedText
  PROVE  Bytes(t) \in Nat /\ Bytes(t) <= Len(t.text)
<1>1. t.text \in Text
  BY DEF EncodedText
<1>2. /\ Len(t.text) \in Nat /\ Cardinality(Kept(t.text)) \in Nat
      /\ Cardinality(Kept(t.text)) <= Len(t.text)
  BY <1>1, KeptCount
<1> QED
  BY <1>2, BytesAre

(* A text that grows by a piece grows by no more bytes than it has units.  *)
LEMMA BytesGrown ==
  ASSUME NEW d \in EncodedText, NEW t \in Text, NEW piece \in Text,
         Len(t) = Len(d.text) + Len(piece),
         Cardinality(Kept(t)) = Cardinality(Kept(d.text)) + Cardinality(Kept(piece))
  PROVE  Bytes([d EXCEPT !.text = t]) <= Bytes(d) + Len(piece)
<1> DEFINE e == [d EXCEPT !.text = t]
           ck == Cardinality(Kept(d.text))
           cp == Cardinality(Kept(piece))
<1>1. e \in EncodedText /\ e.text = t /\ e.enc = d.enc
  BY TextChanged
<1>2. d.text \in Text
  BY DEF EncodedText
<1>3. /\ Len(d.text) \in Nat /\ Len(piece) \in Nat
      /\ ck \in Nat /\ cp \in Nat /\ cp <= Len(piece)
  BY <1>2, KeptCount
<1> HIDE DEF e
<1>4. Bytes(e) = IF d.enc = "pick" THEN ck + cp ELSE Len(d.text) + Len(piece)
  BY <1>1, BytesAre
<1>5. Bytes(d) = IF d.enc = "pick" THEN ck ELSE Len(d.text)
  BY BytesAre
<1> HIDE DEF ck, cp
<1>6. CASE d.enc = "pick"
  <2>1. Bytes(e) = ck + cp /\ Bytes(d) = ck
    BY <1>4, <1>5, <1>6
  <2> QED
    BY <1>3, <2>1 DEF e
<1>7. CASE d.enc # "pick"
  <2>1. Bytes(e) = Len(d.text) + Len(piece) /\ Bytes(d) = Len(d.text)
    BY <1>4, <1>5, <1>7
  <2> QED
    BY <1>3, <2>1 DEF e
<1> QED
  BY <1>6, <1>7

(* What a C string holds is no longer than the buffer it stands in.        *)
LEMMA CStringLength ==
  ASSUME NEW s \in Text
  PROVE  Len(s) \in Nat /\ Len(c_string(s)) \in Nat /\ Len(c_string(s)) <= Len(s)
<1>1. PICK k \in 0..Len(s) : c_string(s) = SubSeq(s, 1, k)
  BY BeforeType DEF c_string
<1>2. s \in Seq(Unit) /\ Len(s) \in Nat /\ k \in Nat /\ k <= Len(s)
  BY DEF Text
<1>3. Len(SubSeq(s, 1, k)) = IF 1 <= k THEN k - 1 + 1 ELSE 0
  BY <1>2, SubSeqProperties
<1>4. Len(SubSeq(s, 1, k)) = k
  BY <1>2, <1>3
<1> QED
  BY <1>1, <1>2, <1>4

(* A piece of json adds at most its own length.                            *)
LEMMA AppendBytes ==
  ASSUME NEW d \in EncodedText, NEW data \in Text
  PROVE  /\ Bytes(append(d, data)) <= Bytes(d) + Len(data)
         /\ append(d, data).enc = d.enc
<1> DEFINE piece == c_string(data)
           t == d.text \o piece
<1>1. piece \in Text /\ d.text \in Text
  BY CStringType DEF EncodedText
<1>2. Len(data) \in Nat /\ Len(piece) \in Nat /\ Len(piece) <= Len(data)
  BY CStringLength
<1>3. append(d, data) = [d EXCEPT !.text = t]
  BY AppendIs
<1> HIDE DEF piece
<1>4. /\ t \in Text /\ Len(t) = Len(d.text) + Len(piece)
      /\ Cardinality(Kept(t)) =
           Cardinality(Kept(d.text)) + Cardinality(Kept(piece))
  BY <1>1, KeptConcat
<1> HIDE DEF t
<1>5. Bytes([d EXCEPT !.text = t]) <= Bytes(d) + Len(piece)
  BY <1>1, <1>4, BytesGrown, Zenon
<1>6. [d EXCEPT !.text = t].enc = d.enc /\ [d EXCEPT !.text = t] \in EncodedText
  BY <1>4, TextChanged
<1>7. Bytes([d EXCEPT !.text = t]) \in Nat /\ Bytes(d) \in Nat
  BY <1>6, BytesBound
<1>8. Bytes([d EXCEPT !.text = t]) <= Bytes(d) + Len(data)
  BY <1>2, <1>5, <1>7
<1> QED
  BY <1>3, <1>6, <1>8

(* A piece of a form's value adds at most its own length.                  *)
LEMMA ExtendBytes ==
  ASSUME NEW d \in EncodedText, NEW piece \in EncodedText
  PROVE  /\ Bytes(extend(d, piece)) <= Bytes(d) + Len(piece.text)
         /\ extend(d, piece).enc = d.enc
<1>1. PICK k \in 0..Len(d.text) :
        extend(d, piece) =
          [d EXCEPT !.text = SubSeq(d.text, 1, k) \o piece.text
                               \o SubSeq(d.text, k + 1, Len(d.text))]
  BY ExtendIs
<1> DEFINE t == SubSeq(d.text, 1, k) \o piece.text
                  \o SubSeq(d.text, k + 1, Len(d.text))
<1>2. piece.text \in Text /\ d.text \in Text
  BY DEF EncodedText
<1>3. /\ t \in Text /\ Len(t) = Len(d.text) + Len(piece.text)
      /\ Cardinality(Kept(t)) =
           Cardinality(Kept(d.text)) + Cardinality(Kept(piece.text))
  BY <1>2, KeptInserted
<1> HIDE DEF t
<1>4. Bytes([d EXCEPT !.text = t]) <= Bytes(d) + Len(piece.text)
  BY <1>2, <1>3, BytesGrown, Zenon
<1>5. [d EXCEPT !.text = t].enc = d.enc
  BY <1>3, TextChanged
<1>6. extend(d, piece) = [d EXCEPT !.text = t]
  BY <1>1 DEF t
<1> QED
  BY <1>4, <1>5, <1>6

(* The object's body is within the limit, and converted only if the server *)
(* converts: else its conversion could lengthen it.                        *)
Bounded(o) ==
  /\ post_length(o) <= post_max_size
  /\ o.post_dynarray # NULL /\ o.post_dynarray.enc = "pick" => HasEncoding

(* The length of an object's body, by what it holds.                       *)
LEMMA PostLength ==
  ASSUME NEW o \in Object
  PROVE  post_length(o) =
           IF o.post_dynarray = NULL THEN 0
           ELSE Bytes(o.post_dynarray)
                  + (IF o.fetch_post_json THEN 0 ELSE KeySize + 1)
BY DEF post_length

(* A body that has grown by no more than was tested is within the limit.   *)
LEMMA GrownBounded ==
  ASSUME NEW o \in Object, Bounded(o), NEW new \in EncodedText, NEW n \in Nat,
         o.post_dynarray = NULL => /\ Bytes(new) <= n
                                   /\ new.enc = "pick" => HasEncoding,
         o.post_dynarray # NULL => /\ Bytes(new) <= Bytes(o.post_dynarray) + n
                                   /\ new.enc = o.post_dynarray.enc,
         ~post_too_big(o, n + (IF o.fetch_post_json THEN 1 ELSE KeySize + 2))
  PROVE  Bounded([o EXCEPT !.post_dynarray = new])
<1> DEFINE d == o.post_dynarray
           p == [o EXCEPT !.post_dynarray = new]
           k == IF o.fetch_post_json THEN 0 ELSE KeySize + 1
<1>1. d \in EncodedText \cup {NULL} /\ k \in Nat /\ new # NULL
  BY DEF Object
<1>2. p.fetch_post_json = o.fetch_post_json /\ p.post_dynarray = new /\ p \in Object
  BY DEF Object
<1>3. Bytes(new) \in Nat
  BY BytesBound
<1>4. post_length(p) = Bytes(new) + k
  <2> HIDE DEF p
  <2> QED
    BY <1>1, <1>2, <1>3, PostLength
<1>5. post_length(o) \in Nat /\ post_length(o) + n + k + 1 <= post_max_size
  <2>1. k + 1 = IF o.fetch_post_json THEN 1 ELSE KeySize + 2
    OBVIOUS
  <2>2. post_length(o) \in Nat
    BY <1>1, BytesBound DEF post_length
  <2> HIDE DEF k
  <2>3. ~(post_length(o) + (n + (k + 1)) > post_max_size)
    BY <2>1 DEF post_too_big
  <2> QED
    BY <1>1, <2>2, <2>3
<1>6. CASE d = NULL
  <2>1. post_length(o) = 0
    BY <1>6 DEF post_length
  <2> HIDE DEF k, p
  <2>2. post_length(p) <= post_max_size
    BY <1>1, <1>3, <1>4, <1>5, <1>6, <2>1
  <2>3. Bounded(p)
    BY <1>2, <1>6, <2>2 DEF Bounded
  <2> QED
    BY <2>3 DEF p
<1>7. CASE d # NULL
  <2>1. d \in EncodedText
    BY <1>1, <1>7
  <2>2. post_length(o) = Bytes(d) + k
    BY <1>7 DEF post_length
  <2>3. Bytes(new) <= Bytes(d) + n /\ Bytes(d) \in Nat
    BY <1>7, <2>1, BytesBound
  <2>4. new.enc = "pick" => HasEncoding
    BY <1>7 DEF Bounded
  <2> HIDE DEF d, k, p
  <2>5. post_length(p) <= post_max_size
    BY <1>1, <1>3, <1>4, <1>5, <2>2, <2>3
  <2>6. Bounded(p)
    BY <1>2, <2>4, <2>5 DEF Bounded
  <2> QED
    BY <2>6 DEF p
<1> QED
  BY <1>6, <1>7

(* What a piece of json that fits makes of the object's body.              *)
LEMMA AppendBounded ==
  ASSUME NEW o \in Object, Bounded(o), NEW data \in Text,
         o.fetch_post_json, ~post_too_big(o, Len(data) + 1)
  PROVE  Bounded([o EXCEPT !.post_dynarray = append(@, data)])
<1> DEFINE d == o.post_dynarray
           new == append(d, data)
<1>1. d \in EncodedText \cup {NULL} /\ new \in EncodedText /\ Len(data) \in Nat
  BY AppendType, CStringLength DEF Object
<1>2. CASE d = NULL
  <2>1. new = [text |-> c_string(data), enc |-> "utf8"]
    BY <1>2 DEF append
  <2>2. new.text = c_string(data) /\ new.enc = "utf8"
    BY <2>1
  <2> HIDE DEF new
  <2>3. Bytes(new) \in Nat /\ Bytes(new) <= Len(c_string(data))
    BY <1>1, <2>2, BytesBound
  <2>4. Bytes(new) <= Len(data)
    BY <2>3, CStringLength
  <2> QED
    BY <1>1, <1>2, <2>2, <2>4, GrownBounded DEF new
<1>3. CASE d # NULL
  <2>1. Bytes(new) <= Bytes(d) + Len(data) /\ new.enc = d.enc
    BY <1>1, <1>3, AppendBytes
  <2> HIDE DEF new
  <2> QED
    BY <1>1, <1>3, <2>1, GrownBounded DEF new
<1> QED
  BY <1>2, <1>3

(* What a piece of a form that fits makes of the object's body.            *)
LEMMA AddKeyValueBounded ==
  ASSUME NEW o \in Object, Bounded(o), NEW data \in Text,
         ~o.fetch_post_json, ~post_too_big(o, KeySize + Len(data) + 2)
  PROVE  Bounded([o EXCEPT !.post_dynarray =
                             add_key_value(@, input_conversion(data))])
<1> DEFINE d == o.post_dynarray
           piece == input_conversion(data)
           new == add_key_value(d, piece)
<1>1. /\ piece \in EncodedText /\ piece.text = data
      /\ piece.enc = "pick" => HasEncoding
      /\ Len(data) \in Nat /\ Bytes(piece) \in Nat /\ Bytes(piece) <= Len(data)
  <2>1. piece \in EncodedText /\ piece.text = data
        /\ (piece.enc = "pick" => HasEncoding)
    BY ConversionType DEF input_conversion
  <2>2. Len(data) \in Nat
    BY CStringLength
  <2> HIDE DEF piece
  <2> QED
    BY <2>1, <2>2, BytesBound
<1> HIDE DEF piece
<1>2. d \in EncodedText \cup {NULL} /\ new \in EncodedText
  BY <1>1, AddKeyValueType DEF Object
<1>3. ~post_too_big(o, Len(data)
                         + (IF o.fetch_post_json THEN 1 ELSE KeySize + 2))
  <2>1. KeySize + Len(data) + 2 = Len(data) + (KeySize + 2)
    BY <1>1
  <2> QED
    BY <2>1
<1>4. d = NULL => /\ Bytes(new) <= Len(data)
                  /\ new.enc = "pick" => HasEncoding
  <2> SUFFICES ASSUME d = NULL
               PROVE  /\ Bytes(new) <= Len(data)
                      /\ new.enc = "pick" => HasEncoding
    OBVIOUS
  <2>1. new = piece
    BY DEF add_key_value
  <2> QED
    BY <1>1, <2>1
<1>5. d # NULL => Bytes(new) <= Bytes(d) + Len(data) /\ new.enc = d.enc
  <2> SUFFICES ASSUME d # NULL
               PROVE  Bytes(new) <= Bytes(d) + Len(data) /\ new.enc = d.enc
    OBVIOUS
  <2>1. new = extend(d, piece)
    BY DEF add_key_value
  <2> QED
    BY <1>1, <1>2, <2>1, ExtendBytes
<1> HIDE DEF new
<1>6. Bounded([o EXCEPT !.post_dynarray = new])
  BY <1>1, <1>2, <1>3, <1>4, <1>5, GrownBounded
<1> QED
  BY <1>6 DEF new, piece

(* An error that is stored leaves the body as it is.                       *)
LEMMA ErrorBounded ==
  ASSUME NEW o \in Object, Bounded(o), NEW e
  PROVE  Bounded([o EXCEPT !.error_exception = e])
<1> DEFINE p == [o EXCEPT !.error_exception = e]
<1>1. /\ p.post_dynarray = o.post_dynarray
      /\ p.fetch_post_json = o.fetch_post_json
  BY DEF Object
<1> HIDE DEF p
<1>2. Bounded(p)
  BY <1>1 DEF Bounded, post_length
<1> QED
  BY <1>2 DEF p

(* The conversion of a json body, before the routine, does not lengthen    *)
(* it.                                                                     *)
LEMMA ConvertedBounded ==
  ASSUME NEW o \in Object, o.fetch_post_json, o.post_dynarray # NULL, Bounded(o)
  PROVE  Bounded([o EXCEPT !.post_dynarray =
                              input_conversion(o.post_dynarray.text)])
<1> DEFINE d == o.post_dynarray
           new == input_conversion(d.text)
           p == [o EXCEPT !.post_dynarray = new]
<1>1. /\ d \in EncodedText /\ d.text \in Text
      /\ new \in EncodedText /\ new # NULL
      /\ new.text = d.text
      /\ new.enc = IF HasEncoding THEN "pick" ELSE "utf8"
  BY ConversionType DEF Object, EncodedText, input_conversion
<1>2. p.fetch_post_json /\ p.post_dynarray = new
  <2> HIDE DEF new
  <2> QED
    BY DEF Object
<1>3. Bytes(new) \in Nat /\ Bytes(d) \in Nat
  <2> HIDE DEF new, d
  <2> QED
    BY <1>1, BytesBound
<1>4. Bytes(new) <= Bytes(d)
  <2>1. d.enc = "pick" => HasEncoding
    BY DEF Bounded
  <2>2. d.enc \in {"pick", "utf8"}
    BY <1>1 DEF EncodedText
  <2>3. CASE new.enc = d.enc
    <3> HIDE DEF new, d
    <3>1. Bytes(new) = Bytes(d)
      BY <1>1, <2>3 DEF Bytes
    <3> QED
      BY <1>3, <3>1
  <2>4. CASE d.enc = "utf8"
    <3>1. Bytes(d) = Len(new.text)
      BY <1>1, <2>4 DEF Bytes
    <3> HIDE DEF new, d
    <3> QED
      BY <1>1, <3>1, BytesBound
  <2> HIDE DEF new, d
  <2> QED
    BY <1>1, <2>1, <2>2, <2>3, <2>4
<1>5. post_length(o) = Bytes(d)
  BY <1>3 DEF post_length
<1>6. post_length(p) = Bytes(new)
  <2> HIDE DEF p, new
  <2> QED
    BY <1>1, <1>2, <1>3 DEF post_length
<1>7. post_length(p) <= post_max_size
  <2>1. Bytes(d) <= post_max_size
    BY <1>5 DEF Bounded
  <2> HIDE DEF p, new, d
  <2> QED
    BY <1>3, <1>4, <1>6, <2>1
<1>8. new.enc = "pick" => HasEncoding
  BY <1>1
<1> HIDE DEF p, new
<1>9. Bounded(p)
  BY <1>2, <1>7, <1>8 DEF Bounded
<1> QED
  BY <1>9 DEF p, new

BoundedInv == \A a \in Addr : heap[a] # NULL => Bounded(heap[a])

(* The handler leaves this object in its cell, or none.                    *)
Leaves(a, o) ==
  heap' = [heap EXCEPT ![a] = o] \/ heap' = [heap EXCEPT ![a] = NULL]

(* Each way a handler ends leaves the object it was given, or none.        *)
LEMMA HandlersLeave ==
  ASSUME NEW c, NEW a, NEW o
  PROVE  /\ \A ph : Keep(c, a, o, ph) => Leaves(a, o)
         /\ Delete(c, a) => Leaves(a, o)
         /\ \A s, b : send_response(c, a, o, s, b) => Leaves(a, o)
         /\ \A s : send_error_page(c, a, o, s) => Leaves(a, o)
BY DEF Keep, Delete, release, Queue, send_response, send_error_page, Leaves

(* A bounded object in its place keeps all of them bounded.                *)
LEMMA LeavesBounded ==
  ASSUME IInv, BoundedInv, NEW a, NEW o, Bounded(o), Leaves(a, o)
  PROVE  BoundedInv'
<1>1. heap \in [Addr -> Object \cup {NULL}]
  BY DEF IInv, TypeOK
<1>2. \A b \in Addr : heap'[b] \in {heap[b], o, NULL}
  BY <1>1 DEF Leaves
<1> QED
  BY <1>2 DEF BoundedInv

(* A new object holds nothing.                                             *)
LEMMA InitializeBounded ==
  ASSUME IInv, BoundedInv, NEW c, NEW a, request[c] \in Requests,
         initialize(c, a)
  PROVE  BoundedInv'
<1> DEFINE r == routed_connection(request[c])
           o == typed_connection(request[c])
<1>1. r \in Object /\ r.post_dynarray = NULL
  BY NewObjectType DEF routed_connection, new_pick_connection
<1>2. o \in Object /\ o.post_dynarray = NULL
  BY <1>1, NewObjectType DEF typed_connection, Object
<1>3. /\ [o EXCEPT !.fetch_post_json = TRUE].post_dynarray = NULL
      /\ [o EXCEPT !.post_processor = "created"].post_dynarray = NULL
  <2> HIDE DEF o
  <2> QED
    BY <1>2 DEF Object
<1>4. \A p : p.post_dynarray = NULL => Bounded(p)
  BY DEF Bounded, post_length
<1>5. \E p : p.post_dynarray = NULL /\ Leaves(a, p)
  <2> DEFINE json == [o EXCEPT !.fetch_post_json = TRUE]
             form == [o EXCEPT !.post_processor = "created"]
  <2>1. \/ \E status : send_error_page(c, a, r, status)
        \/ \E status : send_error_page(c, a, o, status)
        \/ send_response(c, a, r, 500, "default")
        \/ Delete(c, a)
        \/ \E p \in {o, json, form} : \E ph : Keep(c, a, p, ph)
    BY DEF initialize
  <2>2. Leaves(a, r) \/ Leaves(a, o) \/ Leaves(a, json) \/ Leaves(a, form)
    <3> HIDE DEF o, r, json, form
    <3> QED
      BY <2>1, HandlersLeave
  <2> HIDE DEF o, r
  <2> QED
    BY <1>1, <1>2, <1>3, <2>2
<1> QED
  BY <1>4, <1>5, LeavesBounded

(* A piece that would not fit is not stored.                               *)
LEMMA UploadBounded ==
  ASSUME IInv, BoundedInv, NEW c, NEW a, NEW o \in Object, Bounded(o),
         NEW data \in Text,
         \/ o.fetch_post_json /\ post_json_process(c, a, o, data)
         \/ ~o.fetch_post_json /\ MHD_post_process(c, a, o, data)
  PROVE  BoundedInv'
<1>1. CASE o.fetch_post_json /\ post_json_process(c, a, o, data)
  <2>1. \/ Leaves(a, [o EXCEPT !.error_exception = "length_error"])
        \/ Leaves(a, [o EXCEPT !.error_exception = "bad_alloc"])
        \/ /\ ~post_too_big(o, Len(data) + 1)
           /\ Leaves(a, [o EXCEPT !.post_dynarray = append(@, data)])
    BY <1>1, HandlersLeave DEF post_json_process
  <2>2. ~post_too_big(o, Len(data) + 1) =>
          Bounded([o EXCEPT !.post_dynarray = append(@, data)])
    BY <1>1, AppendBounded
  <2> QED
    BY <2>1, <2>2, ErrorBounded, LeavesBounded
<1>2. CASE ~o.fetch_post_json /\ MHD_post_process(c, a, o, data)
  <2>1. \/ Leaves(a, o)
        \/ Leaves(a, [o EXCEPT !.error_exception = "bad_alloc"])
        \/ \E buffer \in buffers(request[c], data) :
             Leaves(a, iterate_post(o, buffer))
    BY <1>2, HandlersLeave DEF MHD_post_process
  <2>2. ASSUME NEW buffer \in buffers(request[c], data)
        PROVE  Bounded(iterate_post(o, buffer))
    <3> DEFINE text == c_string(buffer)
    <3>1. text \in Text
      BY BuffersType, CStringType
    <3>2. \/ \E e : iterate_post(o, buffer) = [o EXCEPT !.error_exception = e]
          \/ /\ ~post_too_big(o, KeySize + Len(text) + 2)
             /\ iterate_post(o, buffer) =
                  [o EXCEPT !.post_dynarray =
                     add_key_value(@, input_conversion(text))]
      BY DEF iterate_post
    <3> HIDE DEF text
    <3>3. ~post_too_big(o, KeySize + Len(text) + 2) =>
            Bounded([o EXCEPT !.post_dynarray =
                       add_key_value(@, input_conversion(text))])
      BY <1>2, <3>1, AddKeyValueBounded
    <3> QED
      BY <3>2, <3>3, ErrorBounded
  <2> QED
    BY <2>1, <2>2, ErrorBounded, LeavesBounded
<1> QED
  BY <1>1, <1>2

(* process() stores no more than an error.                                 *)
LEMMA ProcessBounded ==
  ASSUME IInv, BoundedInv, NEW c, NEW a, NEW o \in Object, Bounded(o),
         process(c, a, o)
  PROVE  BoundedInv'
<1>1. \/ Leaves(a, o)
      \/ \E e : Leaves(a, [o EXCEPT !.error_exception = e])
  BY HandlersLeave DEF process
<1> QED
  BY <1>1, ErrorBounded, LeavesBounded

(* Each action keeps the stored bodies bounded.                            *)
LEMMA NextBounded ==
  ASSUME IInv, BoundedInv, [Next]_vars
  PROVE  BoundedInv'
<1>1. CASE heap' = heap
  BY <1>1 DEF BoundedInv
<1>2. ASSUME NEW c \in Conn, FirstCall(c) PROVE BoundedInv'
  <2>1. request[c] \in Requests
    BY <1>2 DEF FirstCall, HandlerCall, IInv, TypeOK
  <2> QED
    BY <1>1, <1>2, <2>1, InitializeBounded DEF FirstCall, LogFails, Terminate,
       objs
<1>3. ASSUME NEW c \in Conn,
             NEW n \in 1..(Len(request[c].body) - received[c]), UploadData(c, n)
      PROVE  BoundedInv'
  <2> DEFINE a == con_cls[c]
             o == heap[a]
             data == SubSeq(request[c].body, received[c] + 1, received[c] + n)
  <2>1. a \in Addr /\ o \in Object /\ o # NULL /\ Bounded(o)
    BY <1>3 DEF UploadData, IInv, TypeOK, HeapOwned, BoundedInv
  <2>2. data \in Text
    <3>1. request[c] \in Requests
      BY <1>3 DEF UploadData, IInv, TypeOK
    <3>2. request[c].body \in Text /\ received[c] \in Nat
      BY <3>1 DEF Request, IInv, TypeOK
    <3>3. received[c] + n <= Len(request[c].body) /\ n \in Nat \ {0}
      BY <3>2 DEF Text
    <3> QED
      BY <3>2, <3>3, PieceType
  <2>3. \/ heap' = heap
        \/ o.fetch_post_json /\ post_json_process(c, a, o, data)
        \/ ~o.fetch_post_json /\ MHD_post_process(c, a, o, data)
    BY <1>3 DEF UploadData, Terminate, objs
  <2> HIDE DEF a, o, data
  <2> QED
    BY <1>1, <2>1, <2>2, <2>3, UploadBounded
<1>4. ASSUME NEW c \in Conn, ProcessRequest(c) PROVE BoundedInv'
  <2> DEFINE a == con_cls[c]
             o == heap[a]
             post == o.post_dynarray
             converted == [o EXCEPT !.post_dynarray = input_conversion(post.text)]
  <2>1. a \in Addr /\ o \in Object /\ o # NULL /\ Bounded(o)
    <3>1. a # NULL
      BY <1>4 DEF ProcessRequest
    <3>2. a \in Addr /\ o \in Object /\ o # NULL
      BY <3>1 DEF IInv, TypeOK, HeapOwned
    <3> QED
      BY <3>2 DEF BoundedInv
  <2>2. \/ heap' = heap
        \/ Leaves(a, o)
        \/ o.fetch_post_json /\ post # NULL /\ process(c, a, converted)
        \/ process(c, a, o)
    BY <1>4 DEF ProcessRequest, LogFails, Terminate, objs, Queue, Keep, Leaves
  <2>3. o.fetch_post_json /\ post # NULL =>
          converted \in Object /\ Bounded(converted)
    <3> HIDE DEF o
    <3> SUFFICES ASSUME o.fetch_post_json, post # NULL
                 PROVE  converted \in Object /\ Bounded(converted)
      OBVIOUS
    <3>1. input_conversion(post.text) \in EncodedText
      BY <2>1, ConversionType DEF Object, EncodedText
    <3>2. converted \in Object
      BY <2>1, <3>1 DEF Object
    <3> QED
      BY <2>1, <3>2, ConvertedBounded
  <2> HIDE DEF a, o, post, converted
  <2> QED
    BY <1>1, <2>1, <2>2, <2>3, LeavesBounded, ProcessBounded
<1>5. ASSUME NEW c \in Conn, NEW reply \in Replies, RoutineReturns(c, reply)
      PROVE  BoundedInv'
  <2> DEFINE a == con_cls[c]
             o == heap[a]
  <2>1. o # NULL /\ a \in Addr
    BY <1>5 DEF RoutineReturns, IInv, TypeOK, HeapOwned, RoutineHolds
  <2>2. Bounded(o)
    BY <2>1 DEF BoundedInv
  <2>3. heap' = heap \/ Leaves(a, o)
    BY <1>5, HandlersLeave DEF RoutineReturns, LogFails, Terminate, objs
  <2> HIDE DEF a, o
  <2> QED
    BY <1>1, <2>2, <2>3, LeavesBounded
<1>6. ASSUME NEW c \in Conn, request_completed(c) PROVE BoundedInv'
  <2>1. heap' = heap \/ heap' = [heap EXCEPT ![con_cls[c]] = NULL]
    BY <1>6 DEF request_completed, release, objs
  <2> QED
    BY <2>1 DEF BoundedInv, IInv, TypeOK
<1>7. \/ heap' = heap
      \/ \E c \in Conn :
           \/ FirstCall(c) \/ ProcessRequest(c) \/ request_completed(c)
           \/ \E n \in 1..(Len(request[c].body) - received[c]) : UploadData(c, n)
           \/ \E reply \in Replies : RoutineReturns(c, reply)
  BY DEF Next, vars, objs, SendRequest
<1> QED
  BY <1>1, <1>2, <1>3, <1>4, <1>5, <1>6, <1>7

(* However a body is cut, what is stored of it never exceeds               *)
(* post_max_size, before and after its conversion.                         *)
THEOREM BodiesBounded == Spec => []BoundedBody
<1>1. Init => BoundedInv
  BY DEF Init, BoundedInv
<1>2. IInv /\ BoundedInv /\ [Next]_vars => BoundedInv'
  BY NextBounded
<1>3. BoundedInv => BoundedBody
  BY DEF BoundedInv, Bounded, BoundedBody
<1> QED
  BY <1>1, <1>2, <1>3, Invariant, PTL DEF Spec

-----------------------------------------------------------------------------
(* What follows cites the assumptions where it needs them. *)

HIDE ConstantsAssumption

HIDE NullAssumption

HIDE DEF Phase

-----------------------------------------------------------------------------
(* Sessions. *)

(* The bound, from the values the variables take in the next state.        *)
LEMMA SessionsBound ==
  ASSUME NEW s \in Nat, NEW f \in Nat, sessions' = s, alloc_failures' = f,
         s <= f \/ (thread' # NULL /\ s <= f + 1)
  PROVE  SessionsClosed'
BY DEF SessionsClosed

(* A handler's allocation succeeds, or fails and is counted.               *)
LEMMA FailuresAfter ==
  ASSUME IInv, AllocOK \/ AllocFails
  PROVE  \E f \in Nat : alloc_failures' = f /\ f >= alloc_failures
<1>1. alloc_failures \in Nat
  BY DEF IInv, TypeOK
<1>2. CASE AllocOK
  BY <1>1, <1>2 DEF AllocOK
<1>3. CASE AllocFails
  <2>1. alloc_failures' = alloc_failures + 1
    BY <1>3 DEF AllocFails
  <2> QED
    BY <1>1, <2>1
<1> QED
  BY <1>2, <1>3

(* process() opens a session for the routine it starts, or leaves one open *)
(* with an allocation that failed.                                         *)
LEMMA SessionsStep ==
  ASSUME IInv, SessionsClosed, NEW c \in Conn, thread = NULL,
         NEW a, NEW o, process(c, a, o)
  PROVE  SessionsClosed'
<1>1. alloc_failures \in Nat /\ sessions \in Nat /\ sessions <= alloc_failures
  BY DEF IInv, TypeOK, SessionsClosed
<1>2. PICK f \in Nat : alloc_failures' = f /\ f >= alloc_failures
  BY FailuresAfter, HandlersAllocate
<1>3. CASE UNCHANGED qm
  <2>1. sessions' = sessions
    BY <1>3 DEF qm
  <2> QED
    BY <1>1, <1>2, <2>1, SessionsBound
<1>4. CASE QMConnectLocal /\ UNCHANGED <<thread, calls, replied>> /\ AllocFails
  <2>1. sessions' = sessions + 1 /\ alloc_failures' = alloc_failures + 1
    BY <1>4 DEF QMConnectLocal, AllocFails
  <2> QED
    BY <1>1, <2>1, SessionsBound
<1>5. CASE QMConnectLocal /\ thread' = c
  <2>1. sessions' = sessions + 1 /\ thread' # NULL
    BY <1>5, ConstantsAssumption DEF QMConnectLocal
  <2> QED
    BY <1>1, <1>2, <2>1, SessionsBound
<1> QED
  BY <1>3, <1>4, <1>5, ProcessEffects

(* The end of a routine closes its session.                                *)
LEMMA SessionsReturn ==
  ASSUME IInv, SessionsClosed, thread # NULL, QMDisconnect,
         AllocOK \/ AllocFails
  PROVE  SessionsClosed'
<1>1. /\ alloc_failures \in Nat /\ sessions \in Nat
      /\ sessions > 0 /\ sessions <= alloc_failures + 1
  BY DEF IInv, TypeOK, RoutineHolds, SessionsClosed
<1>2. PICK f \in Nat : alloc_failures' = f /\ f >= alloc_failures
  BY FailuresAfter
<1>3. sessions' = sessions - 1
  BY DEF QMDisconnect
<1> QED
  BY <1>1, <1>2, <1>3, SessionsBound

(* No other step touches the sessions or the polling thread.               *)
LEMMA SessionsKept ==
  ASSUME IInv, SessionsClosed, UNCHANGED qm, AllocOK \/ AllocFails
  PROVE  SessionsClosed'
<1>1. PICK f \in Nat : alloc_failures' = f /\ f >= alloc_failures
  BY FailuresAfter
<1>2. sessions' = sessions /\ thread' = thread
  BY DEF qm
<1>3. sessions \in Nat /\ alloc_failures \in Nat
  BY DEF IInv, TypeOK
<1> QED
  BY <1>1, <1>2, <1>3, SessionsBound DEF SessionsClosed

(* Each action preserves the bound on sessions.                            *)
LEMMA NextSessionsClosed ==
  IInv /\ SessionsClosed /\ [Next]_vars => SessionsClosed'
<1> SUFFICES ASSUME IInv, SessionsClosed, [Next]_vars PROVE SessionsClosed'
  OBVIOUS
<1>1. CASE UNCHANGED vars
  BY <1>1, SessionsKept DEF vars, env, AllocOK
<1>2. ASSUME NEW c \in Conn, NEW r \in Requests, SendRequest(c, r)
      PROVE  SessionsClosed'
  BY <1>2, SessionsKept DEF SendRequest, env, AllocOK
<1>3. ASSUME NEW c \in Conn, FirstCall(c) PROVE SessionsClosed'
  BY <1>3, SessionsKept, HandlersAllocate DEF FirstCall, LogFails, Terminate
<1>4. ASSUME NEW c \in Conn, NEW n, UploadData(c, n) PROVE SessionsClosed'
  BY <1>4, SessionsKept, HandlersAllocate DEF UploadData, Terminate
<1>5. ASSUME NEW c \in Conn, ProcessRequest(c) PROVE SessionsClosed'
  <2>1. thread = NULL
    BY <1>5 DEF ProcessRequest, HandlerCall, PollingThreadFree
  <2>2. \/ UNCHANGED qm /\ (AllocOK \/ AllocFails)
        \/ \E o : process(c, con_cls[c], o)
    BY <1>5 DEF ProcessRequest, LogFails, Terminate
  <2> QED
    BY <2>1, <2>2, SessionsStep, SessionsKept
<1>6. ASSUME NEW c \in Conn, NEW reply \in Replies, RoutineReturns(c, reply)
      PROVE  SessionsClosed'
  <2>1. thread # NULL
    BY <1>6, ConstantsAssumption DEF RoutineReturns
  <2>2. \/ UNCHANGED qm /\ (AllocOK \/ AllocFails)
        \/ QMDisconnect /\ (AllocOK \/ AllocFails)
    BY <1>6 DEF RoutineReturns, LogFails, Terminate, send_error_page
  <2> QED
    BY <2>1, <2>2, SessionsReturn, SessionsKept
<1>7. ASSUME NEW c \in Conn, request_completed(c) PROVE SessionsClosed'
  BY <1>7 DEF request_completed, env, SessionsClosed
<1> QED
  BY <1>1, <1>2, <1>3, <1>4, <1>5, <1>6, <1>7 DEF Next

(* Every QMConnectLocal is followed by its QMDisconnect, but for failed    *)
(* copies of the routine's arguments.                                      *)
THEOREM SessionsAreClosed == Spec => []SessionsClosed
<1>1. Init => SessionsClosed
  BY DEF Init, SessionsClosed
<1> QED
  BY <1>1, NextSessionsClosed, Invariant, PTL DEF Spec

-----------------------------------------------------------------------------
(* Routines. *)

Waiting == {"headers", "body", "full"}

(* The request is one the configuration lets through.                      *)
Accepted(c) ==
  Routes[request[c].url].status = 0 /\ method_accepted(request[c])

(* A request whose object waits for data or for its turn was accepted and  *)
(* has not run; one that ran or runs did so once, without a stored error.  *)
CallsOK(c) ==
  /\ phase[c] \in Waiting /\ con_cls[c] # NULL => Accepted(c)
  /\ phase[c] \in Waiting \cup {"idle"} /\ thread # c => calls[c] = <<>>
  /\ thread = c => calls[c] # <<>>
  /\ calls[c] # <<>> =>
       /\ Len(calls[c]) = 1 /\ Accepted(c)
       /\ con_cls[c] # NULL => heap[con_cls[c]].error_exception = "none"

CallsInv == \A c \in Conn : CallsOK(c)

(* A connection a step does not concern keeps its part of the invariant.   *)
LEMMA CallsOthers ==
  ASSUME NEW d \in Conn, CallsOK(d),
         phase'[d] = phase[d], con_cls'[d] = con_cls[d],
         con_cls[d] # NULL => heap'[con_cls[d]] = heap[con_cls[d]],
         request'[d] = request[d], calls'[d] = calls[d],
         (thread' = d) <=> (thread = d)
  PROVE  CallsOK(d)'
BY DEF CallsOK, Accepted, method_accepted

(* Once it is answered or refused, a request is no longer waiting, and its *)
(* object, if it still has one, is the one the handler had.                *)
LEMMA SendEnds ==
  ASSUME ObjInv, NEW c, NEW a, Usable(c, a), NEW o, NEW status, NEW body,
         send_response(c, a, o, status, body)
  PROVE  /\ phase'[c] \in {"reply", "closing"}
         /\ con_cls'[c] # NULL => heap'[con_cls'[c]] = o
BY DEF ObjInv, Usable, send_response, Queue, release

(* A deleted object is not pointed to any more.                            *)
LEMMA DeleteEnds ==
  ASSUME ObjInv, NEW c, NEW a, Usable(c, a), Delete(c, a)
  PROVE  phase'[c] = "closing" /\ con_cls'[c] = NULL
BY DEF ObjInv, Usable, Delete, release

(* The default page is sent, or the object is deleted.                     *)
LEMMA ErrorPageEnds ==
  ASSUME ObjInv, NEW c, NEW a, Usable(c, a), NEW o, NEW status,
         send_error_page(c, a, o, status)
  PROVE  /\ phase'[c] \in {"reply", "closing"}
         /\ con_cls'[c] # NULL => heap'[con_cls'[c]] = o
BY SendEnds, DeleteEnds DEF send_error_page

(* initialize() leaves a request waiting only if it is accepted.           *)
LEMMA InitializeAccepts ==
  ASSUME ObjInv, NEW c, NEW a, Usable(c, a), initialize(c, a)
  PROVE  phase'[c] \in {"reply", "closing"} \/ Accepted(c)
<1>1. \/ \E o, status : send_error_page(c, a, o, status)
      \/ \E o : send_response(c, a, o, 500, "default")
      \/ Delete(c, a)
      \/ Accepted(c)
  BY DEF initialize, Accepted
<1> QED
  BY <1>1, SendEnds, DeleteEnds, ErrorPageEnds

(* process() ends the request, or starts a routine for an object without   *)
(* an error.                                                               *)
LEMMA ProcessEnds ==
  ASSUME ObjInv, NEW c, NEW a, Usable(c, a), phase[c] \in Waiting, NEW o,
         process(c, a, o)
  PROVE  \/ phase'[c] \in {"reply", "closing"} /\ UNCHANGED <<thread, calls>>
         \/ /\ thread' = c
            /\ calls' = [calls EXCEPT
                            ![c] = Append(@, QMCall_arguments(o, request[c]))]
            /\ con_cls'[c] # NULL => heap'[con_cls'[c]] = o
            /\ phase'[c] = phase[c] /\ ~failed(o)
<1>1. CASE /\ \/ \E p, status : send_error_page(c, a, p, status)
              \/ \E status : send_response(c, a, o, status, "default")
           /\ UNCHANGED <<thread, calls>>
  BY <1>1, SendEnds, ErrorPageEnds
<1>2. CASE /\ thread' = c /\ Keep(c, a, o, phase[c]) /\ ~failed(o)
           /\ calls' = [calls EXCEPT
                           ![c] = Append(@, QMCall_arguments(o, request[c]))]
  BY <1>2 DEF Keep, ObjInv, Usable
<1> QED
  BY <1>1, <1>2 DEF process, qm

(* What every handler finds: the polling thread is free, and its request   *)
(* waits and has not run.                                                  *)
LEMMA HandlerFinds ==
  ASSUME IInv, CallsInv, NEW c \in Conn, HandlerCall(c)
  PROVE  /\ thread = NULL /\ phase[c] \in Waiting /\ calls[c] = <<>>
         /\ thread # c /\ request[c] \in Requests /\ answer[c] = NULL
         /\ ObjInv
BY IInvObj, ConstantsAssumption
   DEF HandlerCall, PollingThreadFree, Waiting, CallsInv, CallsOK, IInv, TypeOK,
       AnswerHeld

(* The object of a waiting request is the handler's to use.                *)
LEMMA HandlerObject ==
  ASSUME IInv, NEW c \in Conn, HandlerCall(c), con_cls[c] # NULL
  PROVE  Usable(c, con_cls[c]) /\ heap[con_cls[c]] \in Object
BY DEF HandlerCall, Usable, IInv, TypeOK, HeapOwned

(* The first call leaves a request waiting only if it is accepted.         *)
LEMMA FirstCallCalls ==
  ASSUME IInv, CallsInv, NEW c \in Conn, FirstCall(c)
  PROVE  CallsInv'
<1>1. CASE \E cause : Terminate(cause)
  BY <1>1 DEF Terminate, mhd, objs, qm, CallsInv, CallsOK, Accepted,
     method_accepted
<1>2. ASSUME NEW a \in Addr, heap[a] = NULL, initialize(c, a),
             UNCHANGED <<request, received, qm, crash>>
      PROVE  CallsInv'
  <2>1. HandlerCall(c) /\ con_cls[c] = NULL
    BY DEF FirstCall
  <2>2. Usable(c, a)
    BY <1>2, <2>1 DEF HandlerCall, Usable
  <2>3. Untouched(c)
    BY <1>2, <2>1, <2>2, HandlerFinds, InitializePreserves
  <2>4. phase'[c] \in {"reply", "closing"} \/ Accepted(c)
    BY <1>2, <2>1, <2>2, HandlerFinds, InitializeAccepts
  <2>5. thread' = thread /\ calls' = calls /\ request' = request
    BY <1>2 DEF qm
  <2>6. CallsOK(c)'
    BY <2>1, <2>4, <2>5, HandlerFinds
       DEF CallsOK, Accepted, method_accepted, Waiting
  <2>7. \A d \in Conn : d # c => CallsOK(d)'
    BY <2>3, <2>5, CallsOthers DEF CallsInv, Untouched
  <2> QED
    BY <2>6, <2>7 DEF CallsInv
<1> QED
  BY <1>1, <1>2 DEF FirstCall, LogFails

(* Body data runs no routine.                                              *)
LEMMA UploadDataCalls ==
  ASSUME IInv, CallsInv, NEW c \in Conn,
         NEW n \in 1..(Len(request[c].body) - received[c]), UploadData(c, n)
  PROVE  CallsInv'
<1>1. HandlerCall(c) /\ con_cls[c] # NULL
  BY DEF UploadData
<1>2. ASSUME NEW cause, Terminate(cause) PROVE CallsInv'
  BY <1>2 DEF Terminate, mhd, objs, qm, CallsInv, CallsOK, Accepted,
     method_accepted
<1>3. CASE crash' = crash
  <2>1. Untouched(c)
    BY <1>1, <1>3, UploadUntouched DEF UploadData
  <2>2. thread' = thread /\ calls' = calls /\ request' = request
    BY <1>1, <1>3 DEF UploadData, Terminate, qm, HandlerCall, PollingThreadFree
  <2>3. CallsOK(c)'
    <3>1. Accepted(c) /\ calls[c] = <<>>
      BY <1>1, HandlerFinds DEF CallsInv, CallsOK
    <3> QED
      BY <2>2, <3>1, <1>1, HandlerFinds DEF CallsOK, Accepted, method_accepted
  <2>4. \A d \in Conn : d # c => CallsOK(d)'
    BY <2>1, <2>2, CallsOthers DEF CallsInv, Untouched
  <2> QED
    BY <2>3, <2>4 DEF CallsInv
<1> QED
  BY <1>2, <1>3 DEF UploadData

(* A request that ends without OpenQM has nothing left to satisfy.         *)
LEMMA CallsEnded ==
  ASSUME NEW c \in Conn, phase'[c] \in {"reply", "closing"},
         calls'[c] = <<>>, thread' # c
  PROVE  CallsOK(c)'
BY DEF CallsOK, Waiting

(* process() runs the routine of an accepted request, once.                *)
LEMMA ProcessCalls ==
  ASSUME IInv, CallsInv, NEW c \in Conn, HandlerCall(c), con_cls[c] # NULL,
         NEW o \in Object, process(c, con_cls[c], o),
         UNCHANGED <<request, received, crash>>
  PROVE  CallsInv'
<1> DEFINE a == con_cls[c]
<1>1. /\ Usable(c, a) /\ ObjInv /\ thread = NULL /\ phase[c] \in Waiting
      /\ answer[c] = NULL /\ calls[c] = <<>> /\ request[c] \in Requests
  BY HandlerFinds, HandlerObject
<1>2. Untouched(c)
  BY <1>1, ProcessPreserves DEF Usable
<1>3. Accepted(c)
  BY <1>1 DEF CallsInv, CallsOK
<1>4. CASE phase'[c] \in {"reply", "closing"} /\ UNCHANGED <<thread, calls>>
  <2>1. CallsOK(c)'
    BY <1>1, <1>4, CallsEnded, ConstantsAssumption
  <2>2. \A d \in Conn : d # c => CallsOK(d)'
    BY <1>2, <1>4, CallsOthers DEF CallsInv, Untouched
  <2> QED
    BY <2>1, <2>2 DEF CallsInv
<1>5. CASE /\ thread' = c
           /\ calls' = [calls EXCEPT
                           ![c] = Append(@, QMCall_arguments(o, request[c]))]
           /\ con_cls'[c] # NULL => heap'[con_cls'[c]] = o
           /\ phase'[c] = phase[c] /\ ~failed(o)
  <2>1. calls'[c] = <<QMCall_arguments(o, request[c])>>
    BY <1>1, <1>5 DEF IInv, TypeOK
  <2>2. CallsOK(c)'
    <3>1. Len(calls'[c]) = 1 /\ calls'[c] # <<>>
      BY <2>1
    <3>2. Accepted(c)'
      BY <1>3 DEF Accepted, method_accepted
    <3>3. con_cls'[c] # NULL => heap'[con_cls'[c]].error_exception = "none"
      BY <1>5 DEF failed
    <3> QED
      BY <1>1, <1>5, <3>1, <3>2, <3>3 DEF CallsOK
  <2>3. \A d \in Conn : d # c => CallsOK(d)'
    <3> TAKE d \in Conn
    <3> HAVE d # c
    <3>1. calls'[d] = calls[d] /\ ((thread' = d) <=> (thread = d))
      BY <1>1, <1>5, ConstantsAssumption DEF IInv, TypeOK
    <3> QED
      BY <1>2, <3>1, CallsOthers DEF CallsInv, Untouched
  <2> QED
    BY <2>2, <2>3 DEF CallsInv
<1> QED
  BY <1>1, <1>4, <1>5, ProcessEnds

(* The final call: a faulty json body ends the request, another one goes   *)
(* to process().                                                           *)
LEMMA ProcessRequestCalls ==
  ASSUME IInv, CallsInv, NEW c \in Conn, ProcessRequest(c)
  PROVE  CallsInv'
<1> DEFINE a == con_cls[c]
           o == heap[a]
           post == o.post_dynarray
           converted == [o EXCEPT !.post_dynarray = input_conversion(post.text)]
<1>1. HandlerCall(c) /\ a # NULL
  BY DEF ProcessRequest
<1>2. Usable(c, a) /\ o \in Object
  BY <1>1, HandlerObject
<1>3. CASE \E cause : Terminate(cause)
  BY <1>3 DEF Terminate, mhd, objs, qm, CallsInv, CallsOK, Accepted,
     method_accepted
<1>4. CASE /\ \/ Queue(c, a, o, 400, "default")
              \/ Keep(c, a, o, "closing")
           /\ UNCHANGED <<request, received, qm, crash>>
  <2> HIDE DEF o
  <2>1. Untouched(c) /\ phase'[c] \in {"reply", "closing"}
    BY <1>1, <1>2, <1>4, HandlerFinds DEF Queue, Keep, Untouched, ObjInv,
       Usable, HeapOwned
  <2>2. thread' = thread /\ calls' = calls /\ request' = request
    BY <1>4 DEF qm
  <2>3. CallsOK(c)'
    BY <1>1, <2>1, <2>2, HandlerFinds, CallsEnded
  <2>4. \A d \in Conn : d # c => CallsOK(d)'
    BY <2>1, <2>2, CallsOthers DEF CallsInv, Untouched
  <2> QED
    BY <2>3, <2>4 DEF CallsInv
<1>5. CASE post # NULL /\ process(c, a, converted)
           /\ UNCHANGED <<request, received, crash>>
  <2>1. post.text \in Text
    BY <1>2, <1>5 DEF Object, EncodedText
  <2>2. input_conversion(post.text) \in EncodedText
    BY <2>1, ConversionType
  <2>3. converted \in Object
    <3> HIDE DEF post
    <3> QED
      BY <1>2, <2>2 DEF Object
  <2> HIDE DEF converted
  <2> QED
    BY <1>1, <1>5, <2>3, ProcessCalls
<1>6. CASE process(c, a, o) /\ UNCHANGED <<request, received, crash>>
  BY <1>1, <1>2, <1>6, ProcessCalls
<1> HIDE DEF post, o, a, converted
<1> QED
  BY <1>3, <1>4, <1>5, <1>6
     DEF ProcessRequest, LogFails, a, o, post, converted

(* The end of a routine answers or drops the request it served.            *)
LEMMA ReturnEnds ==
  ASSUME IInv, NEW c \in Conn, NEW reply \in Replies, RoutineReturns(c, reply),
         crash' = crash
  PROVE  /\ phase'[c] \in {"reply", "closing"} /\ Untouched(c)
         /\ con_cls'[c] # NULL => heap'[con_cls'[c]] = heap[con_cls[c]]
         /\ thread' = NULL /\ UNCHANGED <<request, calls>>
<1> DEFINE a == con_cls[c]
           o == heap[a]
<1>1. /\ a \in Addr /\ o \in Object /\ Usable(c, a) /\ answer[c] = NULL
      /\ ObjInv
  BY IInvObj, ConstantsAssumption
     DEF RoutineReturns, IInv, TypeOK, HeapOwned, AnswerHeld, Usable,
         RoutineHolds
<1>2. http_status_code(reply) \in Int /\ CatchStatus("bad_alloc") \in Int
      /\ reply.output \in {"page", "empty", "default"}
  BY ConstantsAssumption DEF http_status_code, CatchStatus, Reply
<1>3. /\ \/ \E status \in Int : send_error_page(c, a, o, status)
         \/ \E status \in Int, body \in {"page", "empty", "default"} :
              send_response(c, a, o, status, body)
      /\ thread' = NULL /\ UNCHANGED <<request, calls>>
  BY <1>2 DEF RoutineReturns, LogFails, Terminate
<1> HIDE DEF a, o
<1>4. Untouched(c)
  BY <1>1, <1>3, SendPreserves, ErrorPagePreserves
<1> QED
  BY <1>1, <1>3, <1>4, SendEnds, ErrorPageEnds DEF a, o

(* Its object, if it stays, is the one without error it had.               *)
LEMMA RoutineReturnsCalls ==
  ASSUME IInv, CallsInv, NEW c \in Conn, NEW reply \in Replies,
         RoutineReturns(c, reply)
  PROVE  CallsInv'
<1>1. thread = c /\ con_cls[c] # NULL
  BY ConstantsAssumption DEF RoutineReturns, IInv, RoutineHolds
<1>2. CASE \E cause : Terminate(cause)
  BY <1>2 DEF Terminate, mhd, objs, qm, CallsInv, CallsOK, Accepted,
     method_accepted
<1>3. CASE crash' = crash
  <2>1. /\ phase'[c] \in {"reply", "closing"} /\ Untouched(c)
        /\ con_cls'[c] # NULL => heap'[con_cls'[c]] = heap[con_cls[c]]
        /\ thread' = NULL /\ request' = request /\ calls' = calls
    BY <1>3, ReturnEnds
  <2>2. CallsOK(c)'
    <3>1. CallsOK(c)
      BY DEF CallsInv
    <3> QED
      BY <1>1, <2>1, <3>1, ConstantsAssumption
         DEF CallsOK, Accepted, method_accepted, Waiting
  <2>3. \A d \in Conn : d # c => CallsOK(d)'
    BY <1>1, <2>1, CallsOthers, ConstantsAssumption DEF CallsInv, Untouched
  <2> QED
    BY <2>2, <2>3 DEF CallsInv
<1> QED
  BY <1>2, <1>3 DEF RoutineReturns, LogFails

(* A new request has no object yet, and an ended one no calls.             *)
LEMMA SendRequestCalls ==
  ASSUME IInv, CallsInv, NEW c \in Conn, NEW r \in Requests, SendRequest(c, r)
  PROVE  CallsInv'
<1>1. UNCHANGED <<con_cls, heap, thread, calls>> /\ phase[c] = "idle"
  BY DEF SendRequest, objs, qm
<1>2. con_cls[c] = NULL /\ thread # c
  BY <1>1, ConstantsAssumption DEF IInv, TypeOK, HeapOwned, RoutineHolds
<1>3. calls[c] = <<>>
  BY <1>1, <1>2 DEF CallsInv, CallsOK
<1>4. CallsOK(c)'
  BY <1>1, <1>2, <1>3 DEF CallsOK
<1>5. \A d \in Conn : d # c => phase'[d] = phase[d] /\ request'[d] = request[d]
  BY DEF SendRequest, IInv, TypeOK
<1>6. \A d \in Conn : d # c => CallsOK(d)'
  BY <1>1, <1>5, CallsOthers DEF CallsInv
<1> QED
  BY <1>4, <1>6 DEF CallsInv

(* A request that is over has no calls.                                    *)
LEMMA CompletedCalls ==
  ASSUME IInv, CallsInv, NEW c \in Conn, request_completed(c)
  PROVE  CallsInv'
<1>1. /\ thread = NULL /\ thread' = thread
      /\ calls' = [calls EXCEPT ![c] = <<>>]
      /\ phase' = [phase EXCEPT ![c] = "idle"]
      /\ request' = [request EXCEPT ![c] = NULL]
  BY DEF request_completed, PollingThreadFree
<1>2. CallsOK(c)'
  BY <1>1, ConstantsAssumption DEF CallsOK, Waiting, IInv, TypeOK
<1>3. ASSUME NEW d \in Conn, d # c PROVE CallsOK(d)'
  <2>1. con_cls'[d] = con_cls[d]
        /\ (con_cls[d] # NULL => heap'[con_cls[d]] = heap[con_cls[d]])
    BY <1>3 DEF request_completed, objs, release, IInv, TypeOK, HeapOwned
  <2>2. calls'[d] = calls[d] /\ phase'[d] = phase[d] /\ request'[d] = request[d]
    BY <1>1, <1>3 DEF IInv, TypeOK
  <2> QED
    BY <1>1, <2>1, <2>2, CallsOthers DEF CallsInv
<1> QED
  BY <1>2, <1>3 DEF CallsInv

(* Each action preserves the invariant on routines.                        *)
LEMMA NextCallsInv == IInv /\ CallsInv /\ [Next]_vars => CallsInv'
<1> SUFFICES ASSUME IInv, CallsInv, [Next]_vars PROVE CallsInv'
  OBVIOUS
<1>1. CASE UNCHANGED vars
  BY <1>1 DEF vars, mhd, objs, qm, CallsInv, CallsOK, Accepted, method_accepted
<1>2. ASSUME NEW c \in Conn, NEW r \in Requests, SendRequest(c, r)
      PROVE  CallsInv'
  BY <1>2, SendRequestCalls
<1>3. ASSUME NEW c \in Conn, FirstCall(c) PROVE CallsInv'
  BY <1>3, FirstCallCalls
<1>4. ASSUME NEW c \in Conn,
             NEW n \in 1..(Len(request[c].body) - received[c]), UploadData(c, n)
      PROVE  CallsInv'
  BY <1>4, UploadDataCalls
<1>5. ASSUME NEW c \in Conn, ProcessRequest(c) PROVE CallsInv'
  BY <1>5, ProcessRequestCalls
<1>6. ASSUME NEW c \in Conn, NEW reply \in Replies, RoutineReturns(c, reply)
      PROVE  CallsInv'
  BY <1>6, RoutineReturnsCalls
<1>7. ASSUME NEW c \in Conn, request_completed(c) PROVE CallsInv'
  BY <1>7, CompletedCalls
<1> QED
  BY <1>1, <1>2, <1>3, <1>4, <1>5, <1>6, <1>7 DEF Next

(* CallsInv holds in every reachable state.                                *)
THEOREM CallsInvariant == Spec => []CallsInv
<1>1. Init => CallsInv
  BY ConstantsAssumption DEF Init, CallsInv, CallsOK, Waiting
<1> QED
  BY <1>1, NextCallsInv, Invariant, PTL DEF Spec

(* However callbacks interleave and allocations fail, a request runs at    *)
(* most one routine, and only if its URL and method are configured and no  *)
(* error was stored.                                                       *)
THEOREM RoutinesAuthorized == Spec => []RoutineAuthorized
<1>1. CallsInv => RoutineAuthorized
  BY DEF CallsInv, CallsOK, Accepted, method_accepted, RoutineAuthorized
<1> QED
  BY <1>1, CallsInvariant, PTL

-----------------------------------------------------------------------------
(* Stored errors. *)

(* What a step may do to the calls of a request whose object has an error. *)
NoCallAfterError ==
  \A c \in Conn :
    con_cls[c] # NULL /\ heap[con_cls[c]].error_exception # "none"
      => Len(calls'[c]) <= Len(calls[c])

(* process() gives nothing to OpenQM if the object has an error, converted *)
(* or not.                                                                 *)
LEMMA ProcessAfterError ==
  ASSUME IInv, NEW c \in Conn, NEW o, process(c, con_cls[c], o),
         o.error_exception = heap[con_cls[c]].error_exception
  PROVE  NoCallAfterError
<1>1. \A d \in Conn : Len(calls[d]) \in Nat
  BY DEF IInv, TypeOK
<1>2. CASE calls' = calls
  BY <1>1, <1>2 DEF NoCallAfterError
<1>3. CASE /\ \E call : calls' = [calls EXCEPT ![c] = Append(@, call)]
           /\ ~failed(o)
  <2>1. \A d \in Conn : d # c => calls'[d] = calls[d]
    BY <1>3 DEF IInv, TypeOK
  <2>2. heap[con_cls[c]].error_exception = "none"
    BY <1>3 DEF failed
  <2> QED
    BY <1>1, <2>1, <2>2 DEF NoCallAfterError
<1> QED
  BY <1>2, <1>3, ProcessEffects DEF qm

(* Each action respects stored errors.                                     *)
LEMMA NextNoCallAfterError == IInv /\ Next => NoCallAfterError
<1> SUFFICES ASSUME IInv, Next PROVE NoCallAfterError
  OBVIOUS
<1>0. \A d \in Conn : Len(calls[d]) \in Nat
  BY DEF IInv, TypeOK
<1>1. CASE calls' = calls
  BY <1>0, <1>1 DEF NoCallAfterError
<1>2. ASSUME NEW c \in Conn, ProcessRequest(c) PROVE NoCallAfterError
  <2> DEFINE o == heap[con_cls[c]]
             v == input_conversion(o.post_dynarray.text)
             converted == [o EXCEPT !.post_dynarray = v]
  <2>1. o \in Object
    BY <1>2, HandlerObject DEF ProcessRequest
  <2>2. converted.error_exception = o.error_exception
    <3> HIDE DEF o, v
    <3> QED
      BY <2>1 DEF Object
  <2>3. \/ calls' = calls
        \/ process(c, con_cls[c], converted)
        \/ process(c, con_cls[c], o)
    <3> HIDE DEF converted
    <3> QED
      BY <1>2 DEF ProcessRequest, LogFails, Terminate, qm, converted
  <2> HIDE DEF converted
  <2> QED
    BY <1>1, <2>2, <2>3, ProcessAfterError
<1>3. ASSUME NEW c \in Conn, request_completed(c) PROVE NoCallAfterError
  <2>1. calls' = [calls EXCEPT ![c] = <<>>]
    BY <1>3 DEF request_completed
  <2>2. \A d \in Conn : calls'[d] = calls[d] \/ Len(calls'[d]) = 0
    BY <2>1 DEF IInv, TypeOK
  <2> QED
    BY <1>0, <2>2 DEF NoCallAfterError
<1>4. \/ calls' = calls
      \/ \E c \in Conn : ProcessRequest(c) \/ request_completed(c)
  BY DEF Next, SendRequest, FirstCall, UploadData, RoutineReturns, LogFails,
     Terminate, qm
<1> QED
  BY <1>1, <1>2, <1>3, <1>4

(* The error one callback stores is honoured by all later ones.            *)
THEOREM ErrorsBlockRoutines == Spec => StoredErrorBlocksRoutine
<1>1. IInv /\ [Next]_vars => [NoCallAfterError]_vars
  BY NextNoCallAfterError
<1> QED
  BY <1>1, Invariant, PTL DEF Spec, StoredErrorBlocksRoutine, NoCallAfterError

-----------------------------------------------------------------------------
(* Refinement of RequestService. *)

Stages == [c \in Conn |-> Stage(c)]
Served == {c \in Conn : calls[c] # <<>>}

(* The stage of a request, read off the thread and MHD's state.            *)
LEMMA StageValue ==
  ASSUME RoutineHolds, NEW c \in Conn
  PROVE  /\ thread = c => Stage(c) = "running"
         /\ phase[c] = "idle" => Stage(c) = "idle"
         /\ thread # c /\ phase[c] \in Waiting => Stage(c) = "received"
         /\ phase[c] = "reply" => Stage(c) = "answered"
         /\ phase[c] = "closing" => Stage(c) = "dropped"
BY ConstantsAssumption DEF Stage, Waiting, RoutineHolds

(* The same in the next state.                                             *)
LEMMA StageValueNext ==
  ASSUME RoutineHolds', NEW c \in Conn
  PROVE  /\ thread' = c => Stage(c)' = "running"
         /\ phase'[c] = "idle" => Stage(c)' = "idle"
         /\ thread' # c /\ phase'[c] \in Waiting => Stage(c)' = "received"
         /\ phase'[c] = "reply" => Stage(c)' = "answered"
         /\ phase'[c] = "closing" => Stage(c)' = "dropped"
BY ConstantsAssumption DEF Stage, Waiting, RoutineHolds

(* Only the stage of the connection a step concerns may change.            *)
LEMMA StageMoves ==
  ASSUME NEW c \in Conn,
         \A d \in Conn \ {c} : phase'[d] = phase[d]
                                /\ ((thread' = d) <=> (thread = d))
  PROVE  Stages' = [Stages EXCEPT ![c] = Stage(c)']
<1>1. \A d \in Conn \ {c} : Stage(d)' = Stage(d)
  BY DEF Stage
<1> QED
  BY <1>1 DEF Stages

(* No routine runs while the polling thread is free.                       *)
LEMMA ThreadFreeQuiet ==
  ASSUME TypeOK, RoutineHolds, thread = NULL
  PROVE  Service!Quiet
<1> SUFFICES ASSUME NEW c \in Conn PROVE Stage(c) # "running"
  BY DEF Service!Quiet
<1>1. thread # c
  BY ConstantsAssumption
<1>2. phase[c] \in Waiting \cup {"idle", "reply", "closing"}
  BY DEF TypeOK, Phase, Waiting
<1> QED
  BY <1>1, <1>2, StageValue

(* The end of the process is not a step of the service.                    *)
LEMMA StageStays ==
  ASSUME UNCHANGED <<phase, thread, calls>>
  PROVE  UNCHANGED <<Stages, Served>>
BY DEF Stages, Served, Stage

(* A handler that does not call OpenQM leaves its request waiting, or      *)
(* refuses it.                                                             *)
LEMMA HandlerServes ==
  ASSUME IInv, IInv', CallsInv, NEW c \in Conn, HandlerCall(c), Untouched(c),
         phase'[c] # "idle", thread' = thread, calls' = calls
  PROVE  Service!Refuse(c) \/ UNCHANGED <<Stages, Served>>
<1>1. thread = NULL /\ thread # c /\ phase[c] \in Waiting
  BY HandlerFinds
<1>2. Stage(c) = "received"
  BY <1>1, StageValue DEF IInv
<1>3. Stages' = [Stages EXCEPT ![c] = Stage(c)']
  BY StageMoves DEF Untouched
<1>4. Served' = Served
  BY DEF Served
<1>5. CASE phase'[c] \in Waiting
  <2>1. Stage(c)' = "received"
    BY <1>1, <1>5, StageValueNext DEF IInv
  <2> QED
    BY <1>2, <1>3, <1>4, <2>1 DEF Stages
<1>6. CASE phase'[c] \in {"reply", "closing"}
  <2>1. Stage(c)' \in {"answered", "dropped"}
    BY <1>6, StageValueNext DEF IInv
  <2>2. Service!Quiet
    BY <1>1, ThreadFreeQuiet DEF IInv
  <2>3. Stages[c] = "received"
    BY <1>2 DEF Stages
  <2> QED
    BY <1>3, <1>4, <2>1, <2>2, <2>3
       DEF Service!Refuse, Service!Move, Stages, Served
<1> QED
  BY <1>5, <1>6 DEF IInv, TypeOK, Phase, Waiting

(* process() refuses the request or runs its routine.                      *)
LEMMA ProcessServes ==
  ASSUME IInv, IInv', CallsInv, NEW c \in Conn, HandlerCall(c),
         con_cls[c] # NULL, NEW o \in Object, process(c, con_cls[c], o)
  PROVE  Service!Refuse(c) \/ Service!Run(c) \/ UNCHANGED <<Stages, Served>>
<1> DEFINE a == con_cls[c]
<1>1. /\ Usable(c, a) /\ ObjInv /\ thread = NULL /\ phase[c] \in Waiting
      /\ thread # c /\ answer[c] = NULL /\ calls[c] = <<>>
  BY HandlerFinds, HandlerObject
<1>2. Untouched(c)
  BY <1>1, ProcessPreserves DEF Usable
<1>3. CASE phase'[c] \in {"reply", "closing"} /\ UNCHANGED <<thread, calls>>
  BY <1>2, <1>3, HandlerServes
<1>4. CASE /\ thread' = c /\ phase'[c] = phase[c]
           /\ calls' = [calls EXCEPT
                           ![c] = Append(@, QMCall_arguments(o, request[c]))]
  <2>1. Stage(c) = "received" /\ Stage(c)' = "running"
    BY <1>1, <1>4, StageValue, StageValueNext DEF IInv
  <2>2. Stages' = [Stages EXCEPT ![c] = Stage(c)']
    BY <1>1, <1>2, <1>4, StageMoves, ConstantsAssumption DEF Untouched
  <2>3. calls'[c] # <<>> /\ \A d \in Conn : d # c => calls'[d] = calls[d]
    BY <1>1, <1>4 DEF IInv, TypeOK
  <2>4. Served' = Served \cup {c} /\ c \notin Served
    BY <1>1, <2>3 DEF Served
  <2>5. Service!Quiet
    BY <1>1, ThreadFreeQuiet DEF IInv
  <2>6. Stages[c] = "received"
    BY <2>1 DEF Stages
  <2> QED
    BY <2>1, <2>2, <2>4, <2>5, <2>6
       DEF Service!Run, Service!Move, Stages, Served
<1> QED
  BY <1>1, <1>3, <1>4, ProcessEnds

(* The final call refuses the request, runs its routine, or ends the       *)
(* process.                                                                *)
LEMMA ProcessRequestServes ==
  ASSUME IInv, IInv', CallsInv, NEW c \in Conn, ProcessRequest(c)
  PROVE  Service!Refuse(c) \/ Service!Run(c) \/ UNCHANGED <<Stages, Served>>
<1> DEFINE a == con_cls[c]
           o == heap[a]
           post == o.post_dynarray
           converted == [o EXCEPT !.post_dynarray = input_conversion(post.text)]
<1>1. HandlerCall(c) /\ a # NULL
  BY DEF ProcessRequest
<1>2. Usable(c, a) /\ o \in Object
  BY <1>1, HandlerObject
<1>3. CASE \E cause : Terminate(cause)
  BY <1>3, StageStays DEF Terminate, mhd, qm
<1>4. CASE /\ \/ Queue(c, a, o, 400, "default")
              \/ Keep(c, a, o, "closing")
           /\ UNCHANGED qm
  <2> HIDE DEF o
  <2>1. Untouched(c) /\ phase'[c] # "idle"
    BY <1>1, <1>2, <1>4, HandlerFinds DEF Queue, Keep, Untouched, ObjInv,
       Usable, HeapOwned
  <2> QED
    BY <1>1, <1>4, <2>1, HandlerServes DEF qm
<1>5. CASE post # NULL /\ process(c, a, converted)
  <2>1. post.text \in Text
    BY <1>2, <1>5 DEF Object, EncodedText
  <2>2. input_conversion(post.text) \in EncodedText
    BY <2>1, ConversionType
  <2>3. converted \in Object
    <3> HIDE DEF post
    <3> QED
      BY <1>2, <2>2 DEF Object
  <2> HIDE DEF converted
  <2> QED
    BY <1>1, <1>5, <2>3, ProcessServes
<1>6. CASE process(c, a, o)
  BY <1>1, <1>2, <1>6, ProcessServes
<1> HIDE DEF post, o, a, converted
<1> QED
  BY <1>3, <1>4, <1>5, <1>6
     DEF ProcessRequest, LogFails, a, o, post, converted

(* The routine's return finishes the service of its request.               *)
LEMMA RoutineReturnsServes ==
  ASSUME IInv, IInv', NEW c \in Conn, NEW reply \in Replies,
         RoutineReturns(c, reply)
  PROVE  Service!Finish(c) \/ UNCHANGED <<Stages, Served>>
<1>1. CASE \E cause : Terminate(cause)
  BY <1>1, StageStays DEF Terminate, mhd, qm
<1>2. CASE crash' = crash
  <2>1. thread = c
    BY DEF RoutineReturns
  <2>2. /\ phase'[c] \in {"reply", "closing"} /\ Untouched(c)
        /\ thread' = NULL /\ calls' = calls
    BY <1>2, ReturnEnds
  <2>3. Stage(c) = "running" /\ Stage(c)' \in {"answered", "dropped"}
    BY <2>1, <2>2, StageValue, StageValueNext DEF IInv
  <2>4. Stages' = [Stages EXCEPT ![c] = Stage(c)']
    BY <2>1, <2>2, StageMoves, ConstantsAssumption DEF Untouched
  <2> QED
    BY <2>2, <2>3, <2>4 DEF Service!Finish, Service!Move, Stages, Served
<1> QED
  BY <1>1, <1>2 DEF RoutineReturns, LogFails

(* MHD's end of a request ends it for the service.                         *)
LEMMA CompletedServes ==
  ASSUME IInv, IInv', NEW c \in Conn, request_completed(c)
  PROVE  Service!End(c)
<1>1. /\ thread = NULL /\ thread' = thread /\ phase[c] # "idle"
      /\ calls' = [calls EXCEPT ![c] = <<>>]
      /\ phase' = [phase EXCEPT ![c] = "idle"]
  BY DEF request_completed, PollingThreadFree
<1>2. phase'[c] = "idle" /\ \A d \in Conn \ {c} : phase'[d] = phase[d]
  BY <1>1 DEF IInv, TypeOK
<1>3. Stages' = [Stages EXCEPT ![c] = "idle"]
  BY <1>1, <1>2, StageMoves, StageValueNext DEF IInv
<1>4. Served' = Served \ {c}
  BY <1>1 DEF Served, IInv, TypeOK
<1>5. Stages[c] # "idle"
  <2>1. thread # c /\ phase[c] \in Waiting \cup {"reply", "closing"}
    BY <1>1, ConstantsAssumption DEF IInv, TypeOK, Phase, Waiting
  <2>2. Stage(c) \in {"received", "answered", "dropped"}
    BY <2>1, StageValue DEF IInv
  <2> QED
    BY <2>2 DEF Stages
<1>6. Service!Quiet
  BY <1>1, ThreadFreeQuiet DEF IInv
<1> QED
  BY <1>3, <1>4, <1>5, <1>6 DEF Service!End, Stages, Served

(* A request's arrival is the service's Receive.                           *)
LEMMA SendRequestServes ==
  ASSUME IInv, IInv', NEW c \in Conn, NEW r \in Requests, SendRequest(c, r)
  PROVE  Service!Receive(c)
<1>1. /\ phase[c] = "idle" /\ thread' = thread /\ calls' = calls
      /\ phase' = [phase EXCEPT ![c] = "headers"]
  BY DEF SendRequest, qm
<1>2. thread # c
  BY <1>1, ConstantsAssumption DEF IInv, RoutineHolds
<1>3. phase'[c] = "headers" /\ \A d \in Conn \ {c} : phase'[d] = phase[d]
  BY <1>1 DEF IInv, TypeOK
<1>4. Stage(c) = "idle" /\ Stage(c)' = "received"
  BY <1>1, <1>2, <1>3, StageValue, StageValueNext DEF IInv, Waiting
<1>5. Stages' = [Stages EXCEPT ![c] = Stage(c)']
  BY <1>1, <1>3, StageMoves
<1> QED
  BY <1>1, <1>4, <1>5 DEF Service!Receive, Service!Move, Stages, Served

(* Every step of the callbacks is a step of the service or a stutter.      *)
LEMMA StepServes ==
  IInv /\ IInv' /\ CallsInv /\ [Next]_vars => [Service!Next]_(Service!vars)
<1> SUFFICES ASSUME IInv, IInv', CallsInv, [Next]_vars
             PROVE  \/ UNCHANGED <<Stages, Served>>
                    \/ Service!Next
  BY DEF Service!vars, Stages, Served
<1>1. CASE UNCHANGED vars
  BY <1>1, StageStays DEF vars, mhd, qm
<1>2. ASSUME NEW c \in Conn, NEW r \in Requests, SendRequest(c, r)
      PROVE  Service!Next
  BY <1>2, SendRequestServes DEF Service!Next
<1>3. ASSUME NEW c \in Conn, FirstCall(c)
      PROVE  Service!Next \/ UNCHANGED <<Stages, Served>>
  <2>1. CASE \E cause : Terminate(cause)
    BY <2>1, StageStays DEF Terminate, mhd, qm
  <2>2. ASSUME NEW a \in Addr, heap[a] = NULL, initialize(c, a), UNCHANGED qm
        PROVE  Service!Next \/ UNCHANGED <<Stages, Served>>
    <3>1. HandlerCall(c) /\ con_cls[c] = NULL
      BY <1>3 DEF FirstCall
    <3>2. Usable(c, a)
      BY <2>2, <3>1 DEF HandlerCall, Usable
    <3>3. Untouched(c) /\ phase'[c] # "idle"
      BY <2>2, <3>1, <3>2, HandlerFinds, InitializePreserves
    <3> QED
      BY <2>2, <3>1, <3>3, HandlerServes DEF Service!Next, qm
  <2> QED
    BY <1>3, <2>1, <2>2 DEF FirstCall, LogFails
<1>4. ASSUME NEW c \in Conn,
             NEW n \in 1..(Len(request[c].body) - received[c]), UploadData(c, n)
      PROVE  Service!Next \/ UNCHANGED <<Stages, Served>>
  <2>1. ASSUME NEW cause, Terminate(cause) PROVE UNCHANGED <<Stages, Served>>
    BY <2>1, StageStays DEF Terminate, mhd, qm
  <2>2. CASE crash' = crash
    <3>1. HandlerCall(c)
      BY <1>4 DEF UploadData
    <3>2. Untouched(c) /\ phase'[c] # "idle" /\ UNCHANGED qm
      BY <1>4, <2>2, UploadUntouched
    <3> QED
      BY <3>1, <3>2, HandlerServes DEF Service!Next, qm
  <2> QED
    BY <1>4, <2>1, <2>2 DEF UploadData
<1>5. ASSUME NEW c \in Conn, ProcessRequest(c)
      PROVE  Service!Next \/ UNCHANGED <<Stages, Served>>
  BY <1>5, ProcessRequestServes DEF Service!Next
<1>6. ASSUME NEW c \in Conn, NEW reply \in Replies, RoutineReturns(c, reply)
      PROVE  Service!Next \/ UNCHANGED <<Stages, Served>>
  BY <1>6, RoutineReturnsServes DEF Service!Next
<1>7. ASSUME NEW c \in Conn, request_completed(c) PROVE Service!Next
  BY <1>7, CompletedServes DEF Service!Next
<1> QED
  BY <1>1, <1>2, <1>3, <1>4, <1>5, <1>6, <1>7 DEF Next

(* The callbacks of pick_httpd_server_connection.cpp implement the service *)
(* RequestService specifies: one routine at a time, at most one for a      *)
(* request, nothing moving while it runs.                                  *)
THEOREM ImplementsService == Spec => ServesRequests
<1>1. Init => Service!Init
  <2> SUFFICES ASSUME Init PROVE Service!Init
    OBVIOUS
  <2>1. \A c \in Conn : Stage(c) = "idle"
    BY StageValue DEF Init, RoutineHolds
  <2> QED
    BY <2>1 DEF Init, Service!Init
<1> QED
  BY <1>1, StepServes, Invariant, CallsInvariant, PTL
     DEF Spec, ServesRequests, Service!Spec

-----------------------------------------------------------------------------
(* Complete bodies. *)

(* What is stored of a body once n units of it were handed over.           *)
Stored(body, n, enc) ==
  IF n = 0 THEN NULL ELSE [text |-> SubSeq(body, 1, n), enc |-> enc]

(* A json body is stored as received, a form's value once converted.       *)
Encoding(o) == IF ~o.fetch_post_json /\ HasEncoding THEN "pick" ELSE "utf8"

(* The object has the request's type, the means to take its body, and,     *)
(* unless it holds an error, something of a body that has begun to arrive: *)
(* all that has arrived of a body a C string can hold.                     *)
Follows(o, r, n) ==
  LET upload == r.method \notin {"GET", "OPTIONS"} IN
  /\ o.connection_type = connection_type(r.method)
  /\ o.fetch_post_json <=> (upload /\ r.content_type = "json")
  /\ o.fetch_post_json => ~failed(o)
  /\ upload => o.fetch_post_json \/ o.post_processor = "created"
  /\ upload /\ ~failed(o) =>
       /\ o.post_dynarray = NULL <=> n = 0
       /\ Whole(r) => o.post_dynarray = Stored(r.body, n, Encoding(o))

(* A body that arrives has an object, which follows it until its routine   *)
(* starts; the phase tells when it is whole.                               *)
BodyOK(c) ==
  /\ phase[c] \in {"idle", "headers"} => received[c] = 0 /\ con_cls[c] = NULL
  /\ phase[c] \in {"body", "full"} =>
       /\ con_cls[c] # NULL
       /\ received[c] \in 0..Len(request[c].body)
       /\ phase[c] = "full" <=> received[c] = Len(request[c].body)
       /\ thread # c => Follows(heap[con_cls[c]], request[c], received[c])

BodyInv == \A c \in Conn : BodyOK(c)

(* A text without a stop is all there is before the first one.             *)
LEMMA BeforeAll ==
  ASSUME NEW s \in Text, NEW stops, \A i \in 1..Len(s) : s[i] \notin stops
  PROVE  before(s, stops) = s
<1>1. s \in Seq(Unit) /\ Len(s) \in Nat
  BY DEF Text
<1>2. {n \in 1..Len(s) : \A i \in 1..n : s[i] \notin stops} = 1..Len(s)
  BY <1>1
<1>3. Cardinality(1..Len(s)) = Len(s)
  <2>1. 1..Len(s) = (0 + 1)..(0 + Len(s))
    BY <1>1
  <2>2. 0 \in Nat
    OBVIOUS
  <2> QED
    BY <1>1, <2>1, <2>2, CountUp, Zenon
<1>4. SubSeq(s, 1, Len(s)) = s
  BY <1>1, SubSeqFull
<1> QED
  BY <1>2, <1>3, <1>4, Zenon DEF before

(* A start of a body, and the piece that follows it, are texts of it.      *)
LEMMA PiecesOf ==
  ASSUME NEW body \in Text, NEW m \in Nat, NEW n \in Nat, m + n <= Len(body)
  PROVE  /\ SubSeq(body, m + 1, m + n) \in Text
         /\ Len(SubSeq(body, m + 1, m + n)) = n
         /\ \A i \in 1..n : SubSeq(body, m + 1, m + n)[i] = body[m + i]
<1>1. body \in Seq(Unit) /\ Len(body) \in Nat
  BY DEF Text
<1>2. \A i \in (m + 1)..(m + n) : body[i] \in Unit
  BY <1>1
<1>3. m + 1 \in Int /\ m + n \in Int
  OBVIOUS
<1>4. /\ SubSeq(body, m + 1, m + n) \in Seq(Unit)
      /\ Len(SubSeq(body, m + 1, m + n)) =
           IF m + 1 <= m + n THEN (m + n) - (m + 1) + 1 ELSE 0
      /\ \A i \in 1..((m + n) - (m + 1) + 1) :
           SubSeq(body, m + 1, m + n)[i] = body[(m + 1) + i - 1]
  BY <1>2, <1>3, SubSeqProperties
<1> DEFINE t == SubSeq(body, m + 1, m + n)
<1> HIDE DEF t
<1>5. t \in Text /\ Len(t) = n /\ \A i \in 1..n : t[i] = body[m + i]
  <2>1. t \in Seq(Unit)
    BY <1>4, Zenon DEF t
  <2>2. Len(t) = IF m + 1 <= m + n THEN (m + n) - (m + 1) + 1 ELSE 0
    BY <1>4, Zenon DEF t
  <2>3. \A i \in 1..((m + n) - (m + 1) + 1) : t[i] = body[(m + 1) + i - 1]
    BY <1>4, Zenon DEF t
  <2>4. Len(t) = n
    BY <2>2
  <2>5. \A i \in 1..n : t[i] = body[m + i]
    <3> SUFFICES ASSUME NEW i \in 1..n PROVE t[i] = body[m + i]
      OBVIOUS
    <3>1. i \in 1..((m + n) - (m + 1) + 1) /\ (m + 1) + i - 1 = m + i
      OBVIOUS
    <3> QED
      BY <2>3, <3>1
  <2> QED
    BY <2>1, <2>4, <2>5 DEF Text
<1> QED
  BY <1>5 DEF t

(* Of a body a C string can hold, the piece that arrives is stored as it   *)
(* is; and in a form, no mark in what is stored stops extract.             *)
LEMMA PieceWhole ==
  ASSUME NEW r \in Request, Whole(r), NEW m \in Nat, NEW n \in Nat,
         m + n <= Len(r.body)
  PROVE  /\ c_string(SubSeq(r.body, m + 1, m + n)) =
              SubSeq(r.body, m + 1, m + n)
         /\ r.content_type # "json" =>
              \A enc : before(SubSeq(r.body, m + 1, m + n), marks(enc)) =
                          SubSeq(r.body, m + 1, m + n)
<1> DEFINE t == SubSeq(r.body, m + 1, m + n)
<1>1. r.body \in Text
  BY DEF Request
<1>2. t \in Text /\ Len(t) = n /\ \A i \in 1..n : t[i] = r.body[m + i]
  BY <1>1, PiecesOf
<1>3. \A i \in 1..n : m + i \in 1..Len(r.body)
  BY <1>1 DEF Text
<1> HIDE DEF t
<1>4. \A i \in 1..Len(t) : t[i] \notin {"nul"}
  BY <1>2, <1>3 DEF Whole
<1>5. c_string(t) = t
  BY <1>2, <1>4, BeforeAll, Zenon DEF c_string
<1>6. ASSUME r.content_type # "json", NEW enc
      PROVE  before(t, marks(enc)) = t
  <2>1. \A i \in 1..Len(t) : t[i] \notin marks(enc)
    BY <1>2, <1>3, <1>6 DEF Whole, marks
  <2> QED
    BY <1>2, <2>1, BeforeAll, Zenon
<1> QED
  BY <1>5, <1>6 DEF t

(* The next piece of such a body extends what is stored of it.             *)
LEMMA StoredStep ==
  ASSUME NEW r \in Request, Whole(r), NEW m \in Nat, NEW n \in Nat \ {0},
         m + n <= Len(r.body), NEW enc \in {"utf8", "pick"}
  PROVE  LET data == SubSeq(r.body, m + 1, m + n) IN
         /\ enc = "utf8" =>
              append(Stored(r.body, m, enc), data) = Stored(r.body, m + n, enc)
         /\ r.content_type # "json" =>
              add_key_value(Stored(r.body, m, enc), [text |-> data, enc |-> enc])
                = Stored(r.body, m + n, enc)
<1> DEFINE body == r.body
           data == SubSeq(body, m + 1, m + n)
           head == SubSeq(body, 1, m)
           t == SubSeq(body, 1, m + n)
           old == [text |-> head, enc |-> enc]
           piece == [text |-> data, enc |-> enc]
<1>1. body \in Text /\ Len(body) \in Nat /\ m + n \in Nat /\ m + n # 0
  BY DEF Request, Text
<1>2. data \in Text /\ head \in Text /\ Len(head) = m
  <2>1. 0 \in Nat /\ 0 + m <= Len(body)
    BY <1>1
  <2>2. /\ SubSeq(body, 0 + 1, 0 + m) \in Text
        /\ Len(SubSeq(body, 0 + 1, 0 + m)) = m
    BY <1>1, <2>1, PiecesOf, Zenon
  <2>3. 0 + 1 = 1 /\ 0 + m = m
    OBVIOUS
  <2> QED
    BY <1>1, <2>2, <2>3, PiecesOf
<1>3. c_string(data) = data
  BY PieceWhole
<1>4. r.content_type # "json" => before(head, marks(enc)) = head
  <2>1. 0 + m <= Len(body) /\ 0 + 1 = 1 /\ 0 + m = m
    BY <1>1
  <2> QED
    BY <2>1, PieceWhole
<1>5. head \o data = t
  <2>1. CASE m = 0
    <3>1. head = <<>>
      BY <2>1
    <3>2. data = t
      BY <2>1
    <3>3. <<>> \o data = data
      BY <1>2, ConcatEmptySeq DEF Text
    <3> QED
      BY <3>1, <3>2, <3>3
  <2>2. CASE m # 0
    BY <1>1, <2>2, ConcatAdjacentSubSeq DEF Text
  <2> QED
    BY <2>1, <2>2
<1>6. Stored(body, m + n, enc) = [text |-> t, enc |-> enc]
  BY <1>1 DEF Stored
<1>7. old \in EncodedText /\ old.text = head /\ old.enc = enc
  BY <1>2 DEF EncodedText
<1>8. \A u : [old EXCEPT !.text = u] = [text |-> u, enc |-> enc]
  OBVIOUS
<1>9. old # NULL
  BY <1>7, NullAssumption
<1> HIDE DEF t, head, data
<1>10. enc = "utf8" =>
         append(Stored(body, m, enc), data) = [text |-> t, enc |-> enc]
  <2>1. CASE m = 0
    <3>1. t = data
      BY <2>1 DEF t, data
    <3> QED
      BY <1>3, <2>1, <3>1 DEF append, Stored
  <2>2. CASE m # 0
    <3>1. Stored(body, m, enc) = old
      BY <2>2 DEF Stored, head
    <3>2. append(old, data) = [old EXCEPT !.text = head \o data]
      <4> HIDE DEF old
      <4> QED
        BY <1>2, <1>3, <1>7, <1>9 DEF append
    <3> HIDE DEF old
    <3> QED
      BY <1>5, <1>8, <3>1, <3>2
  <2> QED
    BY <2>1, <2>2
<1>11. r.content_type # "json" =>
         add_key_value(Stored(body, m, enc), piece) = [text |-> t, enc |-> enc]
  <2>1. CASE m = 0
    <3>1. t = data
      BY <2>1 DEF t, data
    <3> QED
      BY <2>1, <3>1 DEF add_key_value, Stored
  <2>2. ASSUME m # 0, r.content_type # "json"
        PROVE  add_key_value(Stored(body, m, enc), piece) =
                 [text |-> t, enc |-> enc]
    <3>1. Stored(body, m, enc) = old
      BY <2>2 DEF Stored, head
    <3>2. add_key_value(old, piece) = extend(old, piece)
      BY <1>9 DEF add_key_value
    <3>3. /\ SubSeq(head, m + 1, m) = <<>>
          /\ (head \o data) \o <<>> = head \o data
      <4>1. SubSeq(head, m + 1, m) = <<>>
        BY SubSeqEmpty
      <4>2. head \o data \in Seq(Unit)
        BY <1>2, ConcatProperties DEF Text
      <4> QED
        BY <4>1, <4>2, ConcatEmptySeq
    <3>4. extend(old, piece) =
            [old EXCEPT !.text = (head \o data) \o SubSeq(head, m + 1, m)]
      <4>1. before(old.text, marks(old.enc)) = head
        BY <1>4, <1>7, <2>2
      <4>2. piece.text = data
        OBVIOUS
      <4> HIDE DEF old, piece
      <4> QED
        BY <1>2, <1>7, <4>1, <4>2 DEF extend
    <3> HIDE DEF old, piece
    <3> QED
      BY <1>5, <1>8, <3>1, <3>2, <3>3, <3>4
  <2> QED
    BY <2>1, <2>2
<1> QED
  BY <1>6, <1>10, <1>11 DEF data

(* All of a body is what it is stored as.                                  *)
LEMMA StoredWhole ==
  ASSUME NEW body \in Text, NEW enc
  PROVE  /\ body = <<>> => Stored(body, Len(body), enc) = NULL
         /\ body # <<>> =>
              Stored(body, Len(body), enc) = [text |-> body, enc |-> enc]
<1>1. body \in Seq(Unit)
  BY DEF Text
<1>2. SubSeq(body, 1, Len(body)) = body
  BY <1>1, SubSeqFull
<1>3. Len(body) = 0 <=> body = <<>>
  BY <1>1
<1> QED
  BY <1>2, <1>3 DEF Stored

(* An object with an error has only its type to keep.                      *)
LEMMA FollowsFailed ==
  ASSUME NEW o \in Object, NEW r, NEW m, Follows(o, r, m), NEW n
  PROVE  /\ failed(o) => Follows(o, r, n)
         /\ ~o.fetch_post_json => \A e : e # "none" =>
              Follows([o EXCEPT !.error_exception = e], r, n)
<1>1. failed(o) => Follows(o, r, n)
  BY DEF Follows
<1>2. ASSUME ~o.fetch_post_json, NEW e, e # "none"
      PROVE  Follows([o EXCEPT !.error_exception = e], r, n)
  <2> DEFINE p == [o EXCEPT !.error_exception = e]
  <2>1. /\ p.connection_type = o.connection_type /\ p.error_exception = e
        /\ p.fetch_post_json = o.fetch_post_json
        /\ p.post_processor = o.post_processor
    BY DEF Object
  <2> HIDE DEF p
  <2>2. failed(p)
    BY <1>2, <2>1 DEF failed
  <2>3. Follows(p, r, n)
    BY <1>2, <2>1, <2>2 DEF Follows
  <2> QED
    BY <2>3 DEF p
<1> QED
  BY <1>1, <1>2

(* An object follows a body if a content is what is stored of it now.      *)
LEMMA FollowsPiece ==
  ASSUME NEW o \in Object, NEW r, NEW m, Follows(o, r, m),
         NEW n \in Nat \ {0}, NEW new \in EncodedText,
         Whole(r) /\ o.post_dynarray = Stored(r.body, m, Encoding(o)) =>
           new = Stored(r.body, n, Encoding(o))
  PROVE  Follows([o EXCEPT !.post_dynarray = new], r, n)
<1> DEFINE p == [o EXCEPT !.post_dynarray = new]
<1>1. /\ p.connection_type = o.connection_type
      /\ p.error_exception = o.error_exception
      /\ p.fetch_post_json = o.fetch_post_json
      /\ p.post_processor = o.post_processor
      /\ p.post_dynarray = new
  BY DEF Object
<1>2. new # NULL /\ n # 0
  BY NullAssumption
<1> HIDE DEF p
<1>3. Encoding(p) = Encoding(o) /\ (failed(p) <=> failed(o))
  BY <1>1 DEF Encoding, failed
<1>4. Follows(p, r, n)
  BY <1>1, <1>2, <1>3, Zenon DEF Follows
<1> QED
  BY <1>4 DEF p

(* The content of a request that is no upload is of no account.            *)
LEMMA FollowsOther ==
  ASSUME NEW o \in Object, NEW r, NEW m, Follows(o, r, m),
         r.method \in {"GET", "OPTIONS"}, NEW n, NEW new
  PROVE  Follows([o EXCEPT !.post_dynarray = new], r, n)
<1> DEFINE p == [o EXCEPT !.post_dynarray = new]
<1>1. /\ p.connection_type = o.connection_type
      /\ p.error_exception = o.error_exception
      /\ p.fetch_post_json = o.fetch_post_json
      /\ p.post_processor = o.post_processor
  BY DEF Object
<1> HIDE DEF p
<1>2. Follows(p, r, n)
  BY <1>1 DEF Follows, failed
<1> QED
  BY <1>2 DEF p

(* A connection a step does not concern keeps its part of the invariant.   *)
LEMMA BodyOthers ==
  ASSUME NEW d \in Conn, BodyOK(d),
         phase'[d] = phase[d], con_cls'[d] = con_cls[d],
         con_cls[d] # NULL => heap'[con_cls[d]] = heap[con_cls[d]],
         request'[d] = request[d], received'[d] = received[d],
         thread = d => thread' = d
  PROVE  BodyOK(d)'
BY DEF BodyOK

(* Nothing is asked of an answered or refused request.                     *)
LEMMA BodyEnded ==
  ASSUME NEW c \in Conn, phase'[c] \in {"reply", "closing"}
  PROVE  BodyOK(c)'
BY DEF BodyOK

(* The first call for a body makes an object that holds nothing of it.     *)
LEMMA InitializeBody ==
  ASSUME IInv, NEW c \in Conn, NEW a \in Addr, Usable(c, a),
         request[c] \in Requests, received[c] = 0, initialize(c, a),
         UNCHANGED <<request, received>>
  PROVE  BodyOK(c)'
<1> DEFINE r == request[c]
           o == typed_connection(r)
           json == [o EXCEPT !.fetch_post_json = TRUE]
           form == [o EXCEPT !.post_processor = "created"]
<1>1. /\ o \in Object /\ o.post_dynarray = NULL
      /\ o.connection_type = connection_type(r.method)
      /\ o.error_exception = "none" /\ o.fetch_post_json = FALSE
  BY NewObjectType, ConstantsAssumption
     DEF typed_connection, routed_connection, new_pick_connection
<1>2. o.connection_type \in {"GET", "OPTIONS"}
        <=> r.method \in {"GET", "OPTIONS"}
  <2> HIDE DEF o
  <2> QED
    BY <1>1 DEF connection_type
<1>3. r.method \notin {"GET", "OPTIONS"} =>
        IF r.content_type = "json" THEN Follows(json, r, 0)
        ELSE Follows(form, r, 0)
  <2> HIDE DEF o
  <2>1. /\ json.connection_type = o.connection_type
        /\ json.post_dynarray = NULL /\ json.fetch_post_json
        /\ ~failed(json)
    BY <1>1 DEF Object, failed
  <2>2. /\ form.connection_type = o.connection_type
        /\ form.post_dynarray = NULL /\ form.post_processor = "created"
        /\ ~form.fetch_post_json
    BY <1>1 DEF Object
  <2> HIDE DEF json, form
  <2> QED
    BY <1>1, <2>1, <2>2 DEF Follows, Stored
<1>4. r.method \in {"GET", "OPTIONS"} => Follows(o, r, 0)
  <2> HIDE DEF o
  <2> QED
    BY <1>1 DEF Follows
<1>5. \/ \E p, status : send_error_page(c, a, p, status)
      \/ \E p : send_response(c, a, p, 500, "default")
      \/ Delete(c, a)
      \/ Keep(c, a, o, NextPhase(c, 0)) /\ r.method \in {"GET", "OPTIONS"}
      \/ /\ r.method \notin {"GET", "OPTIONS"} /\ r.content_type = "json"
         /\ Keep(c, a, json, NextPhase(c, 0))
      \/ /\ r.method \notin {"GET", "OPTIONS"} /\ r.content_type # "json"
         /\ Keep(c, a, form, NextPhase(c, 0))
  <2> DEFINE get == o.connection_type \in {"GET", "OPTIONS"}
             type == r.content_type
             routed == routed_connection(r)
  <2>1. \/ send_error_page(c, a, routed, Routes[r.url].status)
        \/ send_error_page(c, a, routed, 405)
        \/ send_error_page(c, a, o, 415)
        \/ send_response(c, a, routed, 500, "default")
        \/ Delete(c, a)
        \/ get /\ Keep(c, a, o, NextPhase(c, 0))
        \/ ~get /\ type = "json" /\ Keep(c, a, json, NextPhase(c, 0))
        \/ /\ ~get /\ type \in {"urlencoded", "multipart"}
           /\ Keep(c, a, form, NextPhase(c, 0))
    BY DEF initialize
  <2>2. get <=> r.method \in {"GET", "OPTIONS"}
    BY <1>2
  <2>3. type \in {"urlencoded", "multipart"} => type # "json"
    OBVIOUS
  <2> HIDE DEF get, type, routed, o, json, form
  <2> QED
    BY <2>1, <2>2, <2>3 DEF type
<1> HIDE DEF r, o, json, form
<1>6. \/ phase'[c] \in {"reply", "closing"}
      \/ \E p : Keep(c, a, p, NextPhase(c, 0)) /\ Follows(p, r, 0)
  BY <1>3, <1>4, <1>5, SendEnds, DeleteEnds, ErrorPageEnds, IInvObj
<1>7. ASSUME NEW p, Keep(c, a, p, NextPhase(c, 0)), Follows(p, r, 0)
      PROVE  BodyOK(c)'
  <2>1. /\ phase'[c] = NextPhase(c, 0) /\ con_cls'[c] = a /\ heap'[a] = p
        /\ a # NULL
    BY <1>7, ConstantsAssumption DEF Keep, IInv, TypeOK
  <2>2. Len(r.body) \in Nat
    BY ConstantsAssumption DEF Request, Text, r
  <2>3. Follows(p, request'[c], received'[c])
    BY <1>7 DEF r
  <2> QED
    BY <2>1, <2>2, <2>3 DEF BodyOK, NextPhase, r
<1> QED
  BY <1>6, <1>7, BodyEnded

(* A piece of body is refused, or extends what is stored.                  *)
LEMMA UploadBody ==
  ASSUME IInv, BodyInv, NEW c \in Conn, crash' = crash,
         NEW n \in 1..(Len(request[c].body) - received[c]), UploadData(c, n)
  PROVE  BodyOK(c)'
<1> DEFINE a == con_cls[c]
           o == heap[a]
           r == request[c]
           m == received[c]
           data == SubSeq(r.body, m + 1, m + n)
           grown(new) == [o EXCEPT !.post_dynarray = new]
           json == append(o.post_dynarray, data)
           form(buffer) ==
             add_key_value(o.post_dynarray, input_conversion(c_string(buffer)))
           ph == NextPhase(c, m + Len(data))
<1>1. /\ HandlerCall(c) /\ phase[c] = "body" /\ a \in Addr /\ a # NULL
      /\ o \in Object /\ r \in Request /\ thread = NULL /\ thread # c
  BY ConstantsAssumption, HandlerObject
     DEF UploadData, HandlerCall, PollingThreadFree, IInv, TypeOK
<1>2. /\ r.body \in Text /\ Len(r.body) \in Nat /\ m \in Nat
      /\ n \in Nat \ {0} /\ m + n <= Len(r.body)
  <2>1. r.body \in Text /\ Len(r.body) \in Nat /\ m \in Nat
    BY <1>1 DEF Request, Text, IInv, TypeOK
  <2> QED
    BY <2>1
<1>3. Len(data) = n
  <2>1. \A i \in (m + 1)..(m + n) : r.body[i] \in Unit
    BY <1>2 DEF Text
  <2>2. m + 1 \in Int /\ m + n \in Int /\ m + 1 <= m + n
        /\ (m + n) - (m + 1) + 1 = n
    BY <1>2
  <2> HIDE DEF m, r
  <2> QED
    BY <2>1, <2>2, SubSeqProperties
<1>4. Follows(o, r, m)
  BY <1>1 DEF BodyInv, BodyOK
<1>5. /\ \/ /\ o.fetch_post_json
            /\ \/ \E p : Keep(c, a, p, "closing")
               \/ Keep(c, a, grown(json), ph)
         \/ /\ ~o.fetch_post_json
            /\ \/ /\ o.post_processor = "uninitialized" \/ failed(o)
                  /\ Keep(c, a, o, ph)
               \/ \E e : /\ e # "none"
                         /\ Keep(c, a, [o EXCEPT !.error_exception = e], ph)
               \/ \E buffer \in buffers(r, data) :
                    Keep(c, a, grown(form(buffer)), ph)
      /\ received' = [received EXCEPT ![c] = m + n]
      /\ UNCHANGED <<request, qm>>
  <2>1. /\ \/ o.fetch_post_json /\ post_json_process(c, a, o, data)
           \/ ~o.fetch_post_json /\ MHD_post_process(c, a, o, data)
        /\ received' = [received EXCEPT ![c] = m + n]
        /\ UNCHANGED <<request, qm>>
    BY DEF UploadData, Terminate, HandlerCall, PollingThreadFree
  <2>2. post_json_process(c, a, o, data) =>
          \/ \E p : Keep(c, a, p, "closing")
          \/ Keep(c, a, grown(json), ph)
    <3> HIDE DEF a, o, data, m
    <3> QED
      BY DEF post_json_process, json, m
  <2>3. MHD_post_process(c, a, o, data) =>
          \/ /\ o.post_processor = "uninitialized" \/ failed(o)
             /\ Keep(c, a, o, ph)
          \/ \E e : /\ e # "none"
                    /\ Keep(c, a, [o EXCEPT !.error_exception = e], ph)
          \/ \E buffer \in buffers(r, data) :
               Keep(c, a, grown(form(buffer)), ph)
    <3>1. \A buffer :
            \/ \E e : /\ e # "none"
                      /\ iterate_post(o, buffer) = [o EXCEPT !.error_exception = e]
            \/ iterate_post(o, buffer) = grown(form(buffer))
      <4> HIDE DEF o
      <4> QED
        BY DEF iterate_post
    <3>2. MHD_post_process(c, a, o, data) =>
            \/ /\ o.post_processor = "uninitialized" \/ failed(o)
               /\ Keep(c, a, o, ph)
            \/ Keep(c, a, [o EXCEPT !.error_exception = "bad_alloc"], ph)
            \/ \E buffer \in buffers(r, data) :
                 Keep(c, a, iterate_post(o, buffer), ph)
      <4> HIDE DEF a, o, data, m
      <4> QED
        BY DEF MHD_post_process, failed, m, r
    <3> HIDE DEF a, o, data, m, r, ph, grown, form
    <3> QED
      BY <3>1, <3>2
  <2> HIDE DEF a, o, data, m, ph, grown, json, form
  <2> QED
    BY <2>1, <2>2, <2>3
<1>6. o.fetch_post_json => Follows(grown(json), r, m + n)
  <2> SUFFICES ASSUME o.fetch_post_json PROVE Follows(grown(json), r, m + n)
    OBVIOUS
  <2>1. Encoding(o) = "utf8"
    BY DEF Encoding
  <2>2. data \in Text
    BY <1>2, PiecesOf
  <2>3. json \in EncodedText
    <3> HIDE DEF data
    <3> QED
      BY <1>1, <2>2, AppendType DEF Object
  <2>4. Whole(r) => append(Stored(r.body, m, "utf8"), data)
                      = Stored(r.body, m + n, "utf8")
    BY <1>1, <1>2, StoredStep
  <2>5. m + n \in Nat \ {0}
    BY <1>2
  <2> HIDE DEF o, r, m, data
  <2>6. Whole(r) /\ o.post_dynarray = Stored(r.body, m, Encoding(o)) =>
          json = Stored(r.body, m + n, Encoding(o))
    BY <2>1, <2>4
  <2> HIDE DEF json
  <2> QED
    BY <1>1, <1>4, <2>3, <2>5, <2>6, FollowsPiece
<1>7. ~o.fetch_post_json =>
        \A buffer \in buffers(r, data) : Follows(grown(form(buffer)), r, m + n)
  <2> SUFFICES ASSUME ~o.fetch_post_json, NEW buffer \in buffers(r, data)
               PROVE  Follows(grown(form(buffer)), r, m + n)
    OBVIOUS
  <2> DEFINE text == c_string(buffer)
             new == form(buffer)
  <2>1. data \in Text
    BY <1>2, PiecesOf
  <2>2. text \in Text
    <3>1. buffer \in Text
      BY <2>1, ConstantsAssumption, BuffersType
    <3> QED
      BY <3>1, CStringType
  <2>3. new \in EncodedText
    <3> HIDE DEF o
    <3> QED
      BY <1>1, <2>2, ConversionType, AddKeyValueType DEF Object
  <2>4. input_conversion(data) = [text |-> data, enc |-> Encoding(o)]
        /\ Encoding(o) \in {"utf8", "pick"}
    BY ConstantsAssumption DEF Encoding, input_conversion
  <2>5. m + n \in Nat \ {0}
    BY <1>2
  <2>6. ASSUME Whole(r), o.post_dynarray = Stored(r.body, m, Encoding(o)),
               r.method \notin {"GET", "OPTIONS"}
        PROVE  new = Stored(r.body, m + n, Encoding(o))
    <3>1. r.content_type # "json" /\ r.content_type # "multipart"
      BY <1>4, <2>6 DEF Follows, Whole
    <3>2. buffer = data
      BY <3>1 DEF buffers
    <3>3. text = data
      BY <1>1, <1>2, <2>6, <3>2, PieceWhole
    <3>4. add_key_value(Stored(r.body, m, Encoding(o)),
                        [text |-> data, enc |-> Encoding(o)])
            = Stored(r.body, m + n, Encoding(o))
      BY <1>1, <1>2, <2>4, <2>6, <3>1, StoredStep
    <3> HIDE DEF o, r, m, data, text
    <3> QED
      BY <2>4, <2>6, <3>3, <3>4 DEF text
  <2> HIDE DEF o, r, m, new
  <2>7. CASE r.method \notin {"GET", "OPTIONS"}
    BY <1>1, <1>4, <2>3, <2>5, <2>6, <2>7, FollowsPiece DEF new
  <2>8. CASE r.method \in {"GET", "OPTIONS"}
    BY <1>1, <1>4, <2>8, FollowsOther DEF new
  <2> QED
    BY <2>7, <2>8
<1>8. /\ failed(o) => Follows(o, r, m + n)
      /\ ~o.fetch_post_json => \A e : e # "none" =>
           Follows([o EXCEPT !.error_exception = e], r, m + n)
  <2> HIDE DEF a, o, r, m
  <2> QED
    BY <1>1, <1>4, FollowsFailed
<1>9. ~o.fetch_post_json /\ o.post_processor = "uninitialized"
        => Follows(o, r, m + n)
  BY <1>4 DEF Follows
<1>13. ph = NextPhase(c, m + n)
  BY <1>3
<1> HIDE DEF a, o, r, m, data, grown, json, form, ph
<1>10. \/ \E p : Keep(c, a, p, "closing")
       \/ \E p : Keep(c, a, p, NextPhase(c, m + n)) /\ Follows(p, r, m + n)
  BY <1>5, <1>6, <1>7, <1>8, <1>9, <1>13
<1>11. CASE \E p : Keep(c, a, p, "closing")
  <2>1. phase'[c] = "closing"
    BY <1>11 DEF Keep, IInv, TypeOK
  <2> QED
    BY <2>1, BodyEnded
<1>12. ASSUME NEW p, Keep(c, a, p, NextPhase(c, m + n)), Follows(p, r, m + n)
       PROVE  BodyOK(c)'
  <2>1. /\ phase'[c] = NextPhase(c, m + n) /\ con_cls'[c] = a /\ heap'[a] = p
    BY <1>1, <1>12 DEF Keep, IInv, TypeOK
  <2>2. request'[c] = r /\ received'[c] = m + n /\ m + n \in 0..Len(r.body)
    <3>1. request'[c] = r /\ received'[c] = m + n
      BY <1>5 DEF r, IInv, TypeOK
    <3> QED
      BY <1>2, <3>1
  <2>3. NextPhase(c, m + n) =
          IF m + n = Len(r.body) THEN "full" ELSE "body"
    BY DEF NextPhase, r
  <2>4. Follows(heap'[con_cls'[c]], request'[c], received'[c])
    BY <1>12, <2>1, <2>2
  <2> HIDE DEF m
  <2> QED
    BY <1>1, <2>1, <2>2, <2>3, <2>4 DEF BodyOK
<1> QED
  BY <1>10, <1>11, <1>12

(* Taking the request to its end keeps what the invariant says of it.      *)
LEMMA HandlerBody ==
  ASSUME BodyInv, NEW c \in Conn, Untouched(c), BodyOK(c)',
         request' = request, \A d \in Conn \ {c} : thread = d => thread' = d,
         \A d \in Conn \ {c} : received'[d] = received[d]
  PROVE  BodyInv'
<1>1. \A d \in Conn : d # c => BodyOK(d)'
  BY BodyOthers DEF BodyInv, Untouched
<1> QED
  BY <1>1 DEF BodyInv

(* A crash changes nothing the invariant speaks of.                        *)
LEMMA TerminateBody ==
  ASSUME BodyInv, UNCHANGED <<mhd, objs, thread>>
  PROVE  BodyInv'
BY BodyOthers DEF BodyInv, mhd, objs

(* The first call, or the lack of memory for it.                           *)
LEMMA FirstCallBody ==
  ASSUME IInv, CallsInv, BodyInv, NEW c \in Conn, FirstCall(c)
  PROVE  BodyInv'
<1>1. HandlerCall(c) /\ con_cls[c] = NULL
  BY DEF FirstCall
<1>2. CASE \E cause : Terminate(cause)
  BY <1>2, TerminateBody DEF Terminate, qm
<1>3. ASSUME NEW a \in Addr, heap[a] = NULL, initialize(c, a),
             UNCHANGED <<request, received, qm, crash>>
      PROVE  BodyInv'
  <2>1. Usable(c, a) /\ received[c] = 0
    BY <1>1, <1>3, HandlerFinds DEF HandlerCall, Usable, BodyInv, BodyOK, Waiting
  <2>2. Untouched(c)
    BY <1>1, <1>3, <2>1, HandlerFinds, InitializePreserves
  <2>3. BodyOK(c)'
    BY <1>1, <1>3, <2>1, HandlerFinds, InitializeBody
  <2> QED
    BY <1>3, <2>2, <2>3, HandlerBody DEF qm
<1> QED
  BY <1>2, <1>3 DEF FirstCall, LogFails

(* A piece of body, or a fault of its processor.                           *)
LEMMA UploadDataBody ==
  ASSUME IInv, BodyInv, NEW c \in Conn,
         NEW n \in 1..(Len(request[c].body) - received[c]), UploadData(c, n)
  PROVE  BodyInv'
<1>1. ASSUME NEW cause, Terminate(cause) PROVE BodyInv'
  BY <1>1, TerminateBody DEF Terminate, qm
<1>2. CASE crash' = crash
  <2>1. Untouched(c) /\ UNCHANGED <<request, qm>> /\ BodyOK(c)'
    BY <1>2, UploadUntouched, UploadBody
  <2>2. \A d \in Conn \ {c} : received'[d] = received[d]
    BY <1>2 DEF UploadData, Terminate, mhd, IInv, TypeOK
  <2> QED
    BY <2>1, <2>2, HandlerBody DEF qm
<1> QED
  BY <1>1, <1>2 DEF UploadData

(* What the final call finds of a whole body it hands to a routine.        *)
LEMMA ProcessedBody ==
  ASSUME IInv, CallsInv, BodyInv, NEW c \in Conn, ProcessRequest(c),
         ~failed(heap[con_cls[c]]),
         request[c].method \notin {"GET", "OPTIONS"}, Whole(request[c])
  PROVE  heap[con_cls[c]].post_dynarray =
           Stored(request[c].body, Len(request[c].body),
                  Encoding(heap[con_cls[c]]))
<1> DEFINE o == heap[con_cls[c]]
<1>1. /\ HandlerCall(c) /\ con_cls[c] # NULL
      /\ phase[c] = "body" => o.connection_type = "GET"
  BY DEF ProcessRequest
<1>2. thread # c /\ phase[c] \in {"headers", "body", "full"}
  BY <1>1, HandlerFinds DEF HandlerCall
<1>3. phase[c] \in {"body", "full"} /\ Follows(o, request[c], received[c])
  BY <1>1, <1>2 DEF BodyInv, BodyOK
<1>4. o.connection_type # "GET"
  BY <1>3 DEF Follows, connection_type
<1>5. received[c] = Len(request[c].body)
  BY <1>1, <1>3, <1>4 DEF BodyInv, BodyOK
<1> HIDE DEF o
<1>6. o.post_dynarray = Stored(request[c].body, received[c], Encoding(o))
  BY <1>3 DEF Follows, o
<1> QED
  BY <1>5, <1>6 DEF o

(* One routine more for c, with the object o, or none for anyone.          *)
CallStep(c, o) ==
  \/ calls' = calls
  \/ /\ ~failed(o) /\ calls'[c] = <<QMCall_arguments(o, request[c])>>
     /\ \A d \in Conn \ {c} : calls'[d] = calls[d]

(* process() ends the request or hands its object to a routine.            *)
LEMMA ProcessBody ==
  ASSUME IInv, IInv', CallsInv, BodyInv, NEW c \in Conn, HandlerCall(c),
         con_cls[c] # NULL, NEW o \in Object, process(c, con_cls[c], o),
         UNCHANGED <<request, received>>
  PROVE  BodyInv' /\ CallStep(c, o)
<1> DEFINE a == con_cls[c]
<1>1. /\ Usable(c, a) /\ ObjInv /\ thread = NULL /\ phase[c] \in Waiting
      /\ answer[c] = NULL /\ calls[c] = <<>> /\ request[c] \in Requests
  BY HandlerFinds, HandlerObject
<1>2. Untouched(c)
  BY <1>1, ProcessPreserves DEF Usable
<1>3. \A d \in Conn \ {c} : thread = d => thread' = d
  BY <1>1, ConstantsAssumption
<1>4. CASE phase'[c] \in {"reply", "closing"} /\ UNCHANGED <<thread, calls>>
  BY <1>2, <1>3, <1>4, BodyEnded, HandlerBody DEF CallStep
<1>5. CASE /\ thread' = c /\ phase'[c] = phase[c] /\ ~failed(o)
           /\ calls' = [calls EXCEPT
                           ![c] = Append(@, QMCall_arguments(o, request[c]))]
  <2>1. con_cls'[c] # NULL
    BY <1>5, ConstantsAssumption DEF IInv, RoutineHolds
  <2>2. phase[c] # "headers" /\ phase[c] # "idle"
    BY <1>1 DEF BodyInv, BodyOK, Waiting
  <2>3. BodyOK(c)'
    BY <1>5, <2>1, <2>2 DEF BodyInv, BodyOK
  <2>4. CallStep(c, o)
    BY <1>1, <1>5 DEF CallStep, IInv, TypeOK
  <2> QED
    BY <1>2, <1>3, <2>3, <2>4, HandlerBody
<1> QED
  BY <1>1, <1>4, <1>5, ProcessEnds

(* The promise for one connection.                                         *)
Complete(c) ==
  /\ calls[c] # <<>> /\ request[c].method \notin {"GET", "OPTIONS"}
  /\ Whole(request[c])
  => \/ request[c].body = <<>> /\ calls[c][1].post = NULL
     \/ calls[c][1].post = input_conversion(request[c].body)

(* A step for c leaves the promise to the others alone.                    *)
LEMMA CompleteStep ==
  ASSUME CompleteBody, NEW c \in Conn,
         \A d \in Conn \ {c} : calls'[d] = calls[d] /\ request'[d] = request[d],
         Complete(c)'
  PROVE  CompleteBody'
BY DEF Complete, CompleteBody, Whole

(* The object process() is given holds the converted body.                 *)
LEMMA CallComplete ==
  ASSUME CompleteBody, NEW c \in Conn, NEW o, CallStep(c, o),
         request' = request,
         /\ ~failed(o) /\ request[c].method \notin {"GET", "OPTIONS"}
         /\ Whole(request[c])
         => \/ request[c].body = <<>> /\ o.post_dynarray = NULL
            \/ o.post_dynarray = input_conversion(request[c].body)
  PROVE  CompleteBody'
<1>1. CASE calls' = calls
  BY <1>1 DEF CompleteBody, Whole
<1>2. CASE /\ ~failed(o) /\ calls'[c] = <<QMCall_arguments(o, request[c])>>
           /\ \A d \in Conn \ {c} : calls'[d] = calls[d]
  <2>1. calls'[c][1].post = o.post_dynarray
    BY <1>2 DEF QMCall_arguments
  <2>2. Complete(c)'
    BY <1>2, <2>1 DEF Complete, Whole
  <2> QED
    BY <1>2, <2>2, CompleteStep
<1> QED
  BY <1>1, <1>2 DEF CallStep

(* The final call: the object as it is, or with its json converted.        *)
LEMMA ProcessRequestBody ==
  ASSUME IInv, IInv', CallsInv, BodyInv, CompleteBody, NEW c \in Conn,
         ProcessRequest(c)
  PROVE  BodyInv' /\ CompleteBody'
<1> DEFINE a == con_cls[c]
           o == heap[a]
           post == o.post_dynarray
           converted == [o EXCEPT !.post_dynarray = input_conversion(post.text)]
           body == request[c].body
           upload == /\ request[c].method \notin {"GET", "OPTIONS"}
                     /\ Whole(request[c])
<1>1. HandlerCall(c) /\ a # NULL
  BY DEF ProcessRequest
<1>2. /\ Usable(c, a) /\ o \in Object /\ thread = NULL /\ thread # c
      /\ request[c] \in Requests /\ ObjInv
  BY <1>1, HandlerObject, HandlerFinds
<1>3. body \in Text
  BY <1>2, ConstantsAssumption DEF Request
<1>4. ~failed(o) /\ upload => post = Stored(body, Len(body), Encoding(o))
  BY ProcessedBody
<1>5. CASE \E cause : Terminate(cause)
  BY <1>5, TerminateBody DEF Terminate, qm, mhd, CompleteBody, Whole
<1>6. CASE /\ \/ Queue(c, a, o, 400, "default")
              \/ Keep(c, a, o, "closing")
           /\ UNCHANGED <<request, received, qm, crash>>
  <2> HIDE DEF o
  <2>1. Untouched(c) /\ phase'[c] \in {"reply", "closing"}
    BY <1>1, <1>2, <1>6 DEF Queue, Keep, Untouched, ObjInv, Usable, HeapOwned
  <2>2. thread' = thread /\ calls' = calls /\ request' = request
        /\ received' = received
    BY <1>6 DEF qm
  <2>3. CompleteBody'
    BY <2>2 DEF CompleteBody, Whole
  <2> QED
    BY <2>1, <2>2, <2>3, BodyEnded, HandlerBody
<1>7. CASE o.fetch_post_json /\ post # NULL /\ process(c, a, converted)
           /\ UNCHANGED <<request, received, crash>>
  <2>1. input_conversion(post.text) \in EncodedText
    BY <1>2, <1>7, ConversionType DEF Object, EncodedText
  <2>2. /\ converted \in Object
        /\ converted.post_dynarray = input_conversion(post.text)
        /\ failed(converted) <=> failed(o)
    <3> HIDE DEF post, o
    <3> QED
      BY <1>2, <2>1 DEF Object, failed
  <2>3. ~failed(converted) /\ upload =>
          converted.post_dynarray = input_conversion(body)
    <3>1. ~failed(o) /\ upload => post.text = body
      BY <1>3, <1>4, <1>7, StoredWhole
    <3> HIDE DEF post, o, converted
    <3> QED
      BY <2>2, <3>1
  <2> HIDE DEF converted
  <2>4. BodyInv' /\ CallStep(c, converted)
    BY <1>1, <1>7, <2>2, ProcessBody
  <2> QED
    BY <1>7, <2>3, <2>4, CallComplete
<1>8. CASE ~o.fetch_post_json /\ process(c, a, o)
           /\ UNCHANGED <<request, received, crash>>
  <2>1. ~failed(o) /\ upload =>
          \/ body = <<>> /\ post = NULL
          \/ post = [text |-> body, enc |-> Encoding(o)]
    BY <1>3, <1>4, StoredWhole
  <2>2. input_conversion(body) = [text |-> body, enc |-> Encoding(o)]
    BY <1>8, ConstantsAssumption DEF input_conversion, Encoding
  <2>3. BodyInv' /\ CallStep(c, o)
    BY <1>1, <1>2, <1>8, ProcessBody
  <2> QED
    BY <1>8, <2>1, <2>2, <2>3, CallComplete
<1> HIDE DEF post, o, a, converted
<1> QED
  BY <1>5, <1>6, <1>7, <1>8
     DEF ProcessRequest, LogFails, a, o, post, converted

(* The end of a routine ends its request.                                  *)
LEMMA RoutineReturnsBody ==
  ASSUME IInv, BodyInv, NEW c \in Conn, NEW reply \in Replies,
         RoutineReturns(c, reply)
  PROVE  BodyInv' /\ UNCHANGED <<calls, request>>
<1>1. CASE \E cause : Terminate(cause)
  BY <1>1, TerminateBody DEF Terminate, qm, mhd
<1>2. CASE crash' = crash
  <2>1. /\ phase'[c] \in {"reply", "closing"} /\ Untouched(c)
        /\ UNCHANGED <<request, calls>>
    BY <1>2, ReturnEnds
  <2>2. thread = c /\ received' = received
    BY <1>2 DEF RoutineReturns, LogFails, Terminate, mhd
  <2> QED
    BY <2>1, <2>2, BodyEnded, HandlerBody
<1> QED
  BY <1>1, <1>2 DEF RoutineReturns, LogFails

(* A new request has no object, and nothing of its body has arrived.       *)
LEMMA SendRequestBody ==
  ASSUME IInv, CallsInv, BodyInv, NEW c \in Conn, NEW r \in Requests,
         SendRequest(c, r)
  PROVE  /\ BodyInv' /\ calls' = calls /\ calls[c] = <<>>
         /\ \A d \in Conn \ {c} : request'[d] = request[d]
<1>1. UNCHANGED <<con_cls, heap, thread, calls, received>> /\ phase[c] = "idle"
  BY DEF SendRequest, objs, qm
<1>2. thread # c
  BY <1>1, ConstantsAssumption DEF IInv, RoutineHolds
<1>3. calls[c] = <<>> /\ con_cls[c] = NULL /\ received[c] = 0
  BY <1>1, <1>2 DEF CallsInv, CallsOK, BodyInv, BodyOK
<1>4. phase'[c] = "headers"
      /\ \A d \in Conn \ {c} : phase'[d] = phase[d] /\ request'[d] = request[d]
  BY DEF SendRequest, IInv, TypeOK
<1>5. BodyOK(c)'
  BY <1>1, <1>3, <1>4 DEF BodyOK
<1>6. \A d \in Conn \ {c} : BodyOK(d)'
  BY <1>1, <1>4, BodyOthers DEF BodyInv
<1> QED
  BY <1>1, <1>3, <1>4, <1>5, <1>6 DEF BodyInv

(* A request that is over has no object, no body and no calls.             *)
LEMMA CompletedBody ==
  ASSUME IInv, BodyInv, NEW c \in Conn, request_completed(c)
  PROVE  /\ BodyInv' /\ calls'[c] = <<>>
         /\ \A d \in Conn \ {c} :
              calls'[d] = calls[d] /\ request'[d] = request[d]
<1>1. /\ thread' = thread
      /\ calls' = [calls EXCEPT ![c] = <<>>]
      /\ phase' = [phase EXCEPT ![c] = "idle"]
      /\ request' = [request EXCEPT ![c] = NULL]
      /\ received' = [received EXCEPT ![c] = 0]
  BY DEF request_completed
<1>2. \A d \in Conn \ {c} :
        /\ phase'[d] = phase[d] /\ received'[d] = received[d]
        /\ calls'[d] = calls[d] /\ request'[d] = request[d]
  BY <1>1 DEF IInv, TypeOK
<1>3. /\ con_cls'[c] = NULL
      /\ \A d \in Conn \ {c} :
           /\ con_cls'[d] = con_cls[d]
           /\ con_cls[d] # NULL => heap'[con_cls[d]] = heap[con_cls[d]]
  BY DEF request_completed, objs, release, IInv, TypeOK, HeapOwned
<1>4. phase'[c] = "idle" /\ received'[c] = 0 /\ calls'[c] = <<>>
  BY <1>1 DEF IInv, TypeOK
<1>5. BodyOK(c)'
  BY <1>3, <1>4 DEF BodyOK
<1>6. \A d \in Conn \ {c} : BodyOK(d)'
  BY <1>1, <1>2, <1>3, BodyOthers DEF BodyInv
<1> QED
  BY <1>2, <1>4, <1>5, <1>6 DEF BodyInv

(* Each action preserves the invariant and the promise.                    *)
LEMMA NextBody ==
  ASSUME IInv, IInv', CallsInv, BodyInv, CompleteBody, [Next]_vars
  PROVE  BodyInv' /\ CompleteBody'
<1>1. CASE UNCHANGED vars
  BY <1>1, TerminateBody DEF vars, mhd, qm, CompleteBody, Whole
<1>2. ASSUME BodyInv', UNCHANGED <<calls, request>>
      PROVE  BodyInv' /\ CompleteBody'
  BY <1>2 DEF CompleteBody, Whole
<1>3. ASSUME NEW c \in Conn, NEW r \in Requests, SendRequest(c, r)
      PROVE  BodyInv' /\ CompleteBody'
  <2>1. Complete(c)'
    BY <1>3, SendRequestBody DEF Complete
  <2> QED
    BY <1>3, <2>1, SendRequestBody, CompleteStep
<1>4. ASSUME NEW c \in Conn, FirstCall(c) PROVE BodyInv' /\ CompleteBody'
  <2>1. UNCHANGED <<calls, request>>
    BY <1>4 DEF FirstCall, LogFails, Terminate, mhd, qm
  <2> QED
    BY <1>2, <1>4, <2>1, FirstCallBody
<1>5. ASSUME NEW c \in Conn,
             NEW n \in 1..(Len(request[c].body) - received[c]), UploadData(c, n)
      PROVE  BodyInv' /\ CompleteBody'
  <2>1. UNCHANGED <<calls, request>>
    BY <1>5 DEF UploadData, Terminate, mhd, qm
  <2> QED
    BY <1>2, <1>5, <2>1, UploadDataBody
<1>6. ASSUME NEW c \in Conn, ProcessRequest(c) PROVE BodyInv' /\ CompleteBody'
  BY <1>6, ProcessRequestBody
<1>7. ASSUME NEW c \in Conn, NEW reply \in Replies, RoutineReturns(c, reply)
      PROVE  BodyInv' /\ CompleteBody'
  BY <1>2, <1>7, RoutineReturnsBody
<1>8. ASSUME NEW c \in Conn, request_completed(c)
      PROVE  BodyInv' /\ CompleteBody'
  <2>1. Complete(c)'
    BY <1>8, CompletedBody DEF Complete
  <2> QED
    BY <1>8, <2>1, CompletedBody, CompleteStep
<1> QED
  BY <1>1, <1>3, <1>4, <1>5, <1>6, <1>7, <1>8 DEF Next

(* However the network cuts a body without NULs or, in a form, marks, and  *)
(* whatever fails on the way, a routine that runs is given all of it,      *)
(* converted once.                                                         *)
THEOREM BodiesComplete == Spec => []CompleteBody
<1>1. Init => BodyInv /\ CompleteBody
  BY DEF Init, BodyInv, BodyOK, CompleteBody
<1>2. IInv /\ IInv' /\ CallsInv /\ (BodyInv /\ CompleteBody) /\ [Next]_vars
        => (BodyInv /\ CompleteBody)'
  BY NextBody
<1> QED
  BY <1>1, <1>2, Invariant, CallsInvariant, PTL DEF Spec

(* BodyInv holds in every reachable state.                                 *)
THEOREM BodyInvariant == Spec => []BodyInv
<1>1. Init => BodyInv /\ CompleteBody
  BY DEF Init, BodyInv, BodyOK, CompleteBody
<1>2. IInv /\ IInv' /\ CallsInv /\ (BodyInv /\ CompleteBody) /\ [Next]_vars
        => (BodyInv /\ CompleteBody)'
  BY NextBody
<1> QED
  BY <1>1, <1>2, Invariant, CallsInvariant, PTL DEF Spec

-----------------------------------------------------------------------------
(* Answers. *)

(* The promise, to a request that ran a routine or not, that is running it *)
(* or not: its reply and answer, whether its body was not read to the end  *)
(* and whether an allocation has failed.                                   *)
Promise(ran, running, reply, given, unread, failures) ==
  /\ ~ran /\ given # NULL => given.body = "default"
  /\ ran /\ ~running =>
       \/ /\ reply.status # "*3"
          /\ given = [status |-> http_status_code(reply),
                      body |-> reply.output]
       \/ /\ given # NULL /\ given.status = 500
          /\ \/ reply.status = "*3" /\ given.body = "default"
             \/ failures
       \/ /\ given = NULL
          /\ \/ /\ reply.status # "*3"
                /\ http_status_code(reply) \notin 100..999
             \/ unread
             \/ failures

(* The promise for one connection.                                         *)
Passed(c) ==
  Promise(calls[c] # <<>>, thread = c, replied[c], answer[c],
          received[c] < Len(request[c].body), alloc_failures > 0)

(* RepliesPassedOn is the promise to every connection.                     *)
LEMMA PassedIsPassed == RepliesPassedOn <=> \A c \in Conn : Passed(c)
BY DEF RepliesPassedOn, Passed, Promise

(* So it is after a step.                                                  *)
LEMMA PassedAfter ==
  /\ (\A c \in Conn : Passed(c)') => RepliesPassedOn'
  /\ \A c : Passed(c)' <=>
       Promise(calls'[c] # <<>>, thread' = c, replied'[c], answer'[c],
               received'[c] < Len(request'[c].body), alloc_failures' > 0)
BY DEF RepliesPassedOn, Passed, Promise

(* What the promise to a connection depends on.                            *)
Exchange(c) == <<answer[c], calls[c], replied[c], received[c], request[c]>>

(* A step for c leaves what the others were answered alone.                *)
Local(c) ==
  \A d \in Conn \ {c} : UNCHANGED Exchange(d) /\ (thread = d => thread' = d)

(* The promise stays if only other allocations fail.                       *)
LEMMA PassedKept ==
  ASSUME IInv, NEW d \in Conn, Passed(d), UNCHANGED Exchange(d),
         thread = d => thread' = d,
         NEW f \in Nat, alloc_failures' = f, f >= alloc_failures
  PROVE  Passed(d)'
<1>1. /\ answer'[d] = answer[d] /\ calls'[d] = calls[d]
      /\ replied'[d] = replied[d] /\ received'[d] = received[d]
      /\ request'[d] = request[d]
  BY DEF Exchange
<1>2. alloc_failures > 0 => alloc_failures' > 0
  BY DEF IInv, TypeOK
<1> DEFINE given == answer[d]
           reply == replied[d]
           unread == received[d] < Len(request[d].body)
           ran == calls[d] # <<>>
           running0 == thread = d
           running1 == thread' = d
           failures0 == alloc_failures > 0
           failures1 == alloc_failures' > 0
<1>3. Promise(ran, running0, reply, given, unread, failures0)
  BY DEF Passed
<1>4. Promise(ran, running1, reply, given, unread, failures1)
  <2>1. (running0 => running1) /\ (failures0 => failures1)
    BY <1>2
  <2> HIDE DEF given, reply, unread, ran, running0, running1, failures0,
               failures1
  <2> QED
    BY <1>3, <2>1, Zenon DEF Promise
<1> QED
  BY <1>4, <1>1, PassedAfter, Zenon

(* A step for c that keeps its promise keeps them all.                     *)
LEMMA PassedStep ==
  ASSUME IInv, RepliesPassedOn, NEW c \in Conn, Local(c), Passed(c)',
         AllocOK \/ AllocFails
  PROVE  RepliesPassedOn'
<1>1. PICK f \in Nat : alloc_failures' = f /\ f >= alloc_failures
  BY FailuresAfter
<1>2. \A d \in Conn : Passed(d)
  BY PassedIsPassed
<1>3. \A d \in Conn : d # c => Passed(d)'
  BY <1>1, <1>2, PassedKept DEF Local
<1>4. \A d \in Conn : Passed(d)'
  BY <1>3
<1> QED
  BY <1>4, PassedAfter

(* So does a step that answers nobody.                                     *)
LEMMA PassedIdle ==
  ASSUME IInv, RepliesPassedOn,
         UNCHANGED <<thread, answer, calls, replied, received, request>>,
         AllocOK \/ AllocFails
  PROVE  RepliesPassedOn'
<1>1. PICK f \in Nat : alloc_failures' = f /\ f >= alloc_failures
  BY FailuresAfter
<1>2. \A d \in Conn : Passed(d)
  BY PassedIsPassed
<1>3. \A d \in Conn : Passed(d)'
  BY <1>1, <1>2, PassedKept DEF Exchange
<1> QED
  BY <1>3, PassedAfter

(* A request that has run no routine may be answered by default.           *)
LEMMA PassedDefault ==
  ASSUME NEW c \in Conn, calls'[c] = <<>>,
         answer'[c] = NULL \/ answer'[c].body = "default"
  PROVE  Passed(c)'
BY PassedAfter, Zenon DEF Promise

(* A request whose routine runs is promised nothing yet.                   *)
LEMMA PassedRunning ==
  ASSUME NEW c \in Conn, calls'[c] # <<>>, thread' = c
  PROVE  Passed(c)'
BY PassedAfter, Zenon DEF Promise

(* The four ways a routine's reply is accounted for.                       *)
Accounted(c, reply) ==
  \/ /\ reply.status # "*3"
     /\ answer'[c] = [status |-> http_status_code(reply),
                      body |-> reply.output]
  \/ /\ reply.status = "*3"
     /\ answer'[c] # NULL
     /\ answer'[c].status = 500 /\ answer'[c].body = "default"
  \/ /\ answer'[c] = NULL \/ answer'[c].status = 500
     /\ alloc_failures' > 0
  \/ /\ answer'[c] = NULL
     /\ \/ /\ reply.status # "*3"
           /\ http_status_code(reply) \notin 100..999
        \/ received'[c] < Len(request'[c].body)

(* With either the promise is kept. *)
LEMMA PassedAs ==
  ASSUME NEW c \in Conn, calls'[c] # <<>>, NEW reply, replied'[c] = reply,
         Accounted(c, reply)
  PROVE  Passed(c)'
<1> DEFINE given == answer'[c]
           unread == received'[c] < Len(request'[c].body)
           failures == alloc_failures' > 0
           ran == calls'[c] # <<>>
           running == thread' = c
<1>1. Promise(ran, running, reply, given, unread, failures)
  <2>1. \/ /\ reply.status # "*3"
           /\ given = [status |-> http_status_code(reply),
                       body |-> reply.output]
        \/ /\ reply.status = "*3" /\ given # NULL
           /\ given.status = 500 /\ given.body = "default"
        \/ /\ given = NULL \/ given.status = 500
           /\ failures
        \/ /\ given = NULL
           /\ \/ /\ reply.status # "*3"
                 /\ http_status_code(reply) \notin 100..999
              \/ unread
    BY DEF Accounted
  <2>2. ran
    OBVIOUS
  <2> HIDE DEF given, unread, failures, ran, running
  <2> QED
    BY <2>1, <2>2, Zenon DEF Promise
<1> QED
  BY <1>1, PassedAfter, Zenon

(* This answer, or the one there was. *)
Answers(c, s, b) ==
  \/ answer' = answer
  \/ answer' = [answer EXCEPT ![c] = [status |-> s, body |-> b]]

(* What the ways handlers end do to the answers.                           *)
LEMMA HandlersAnswer ==
  ASSUME NEW c, NEW a, NEW o, NEW s
  PROVE  /\ \A ph : Keep(c, a, o, ph) => answer' = answer
         /\ Delete(c, a) => answer' = answer
         /\ \A b : send_response(c, a, o, s, b) => Answers(c, s, b)
         /\ send_error_page(c, a, o, s) => Answers(c, s, "default")
BY DEF Keep, Delete, Queue, send_response, send_error_page, Answers

(* The routine's end answers no other connection. *)
LEMMA AnswersOnly ==
  ASSUME IInv, NEW c \in Conn, NEW a, NEW o, NEW s, NEW t, NEW b,
         \/ send_error_page(c, a, o, s)
         \/ send_response(c, a, o, t, b)
         \/ \E page : send_response(c, a, o, s, page)
  PROVE  \A d \in Conn \ {c} : answer'[d] = answer[d]
<1>1. \/ Answers(c, s, "default") \/ Answers(c, t, b)
      \/ \E page : Answers(c, s, page)
  BY HandlersAnswer
<1> QED
  BY <1>1 DEF Answers, IInv, TypeOK

(* A handler that answers by default, and leaves OpenQM alone.             *)
LEMMA HandlerPasses ==
  ASSUME IInv, RepliesPassedOn, NEW c \in Conn, HandlerCall(c), CallsInv,
         UNCHANGED <<thread, calls, replied, request>>,
         \A d \in Conn \ {c} : received'[d] = received[d],
         answer' = answer \/ \E s : Answers(c, s, "default"),
         AllocOK \/ AllocFails
  PROVE  RepliesPassedOn'
<1>1. calls[c] = <<>> /\ answer[c] = NULL
  BY HandlerFinds
<1>2. /\ answer'[c] = NULL \/ answer'[c].body = "default"
      /\ \A d \in Conn \ {c} : answer'[d] = answer[d]
  BY <1>1 DEF Answers, IInv, TypeOK
<1>3. Local(c)
  BY <1>2 DEF Local, Exchange
<1>4. Passed(c)'
  BY <1>1, <1>2, PassedDefault
<1> QED
  BY <1>3, <1>4, PassedStep

(* process() answers by default or starts a routine.                       *)
LEMMA ProcessPasses ==
  ASSUME IInv, RepliesPassedOn, CallsInv, NEW c \in Conn, HandlerCall(c),
         NEW a, NEW o, process(c, a, o), UNCHANGED <<request, received>>
  PROVE  RepliesPassedOn'
<1>1. AllocOK \/ AllocFails
  BY HandlersAllocate
<1>2. CASE UNCHANGED <<thread, calls, replied>>
  <2>1. \/ \E p, s : send_error_page(c, a, p, s)
        \/ \E s : send_response(c, a, o, s, "default")
        \/ \E ph : Keep(c, a, o, ph)
    BY DEF process
  <2>2. answer' = answer \/ \E s : Answers(c, s, "default")
    BY <2>1, HandlersAnswer
  <2> QED
    BY <1>1, <1>2, <2>2, HandlerPasses
<1>3. CASE /\ \E call : calls' = [calls EXCEPT ![c] = Append(@, call)]
           /\ thread' = c /\ Keep(c, a, o, phase[c]) /\ replied' = replied
  <2>1. calls[c] = <<>> /\ thread = NULL
    BY HandlerFinds
  <2>2. answer' = answer /\ \A d \in Conn \ {c} : calls'[d] = calls[d]
    BY <1>3 DEF Keep, IInv, TypeOK
  <2>3. Local(c)
    BY <1>3, <2>1, <2>2, ConstantsAssumption DEF Local, Exchange
  <2>4. calls'[c] # <<>>
    BY <1>3, <2>1 DEF IInv, TypeOK
  <2>5. Passed(c)'
    BY <1>3, <2>4, PassedRunning
  <2> QED
    BY <1>1, <2>3, <2>5, PassedStep
<1> QED
  BY <1>2, <1>3, ProcessEffects DEF qm

(* A response is queued, or there is a reason why not: its status, or that *)
(* the body has not been read.                                             *)
Queued(c, s, b) ==
  \/ answer'[c] = [status |-> s, body |-> b]
  \/ /\ answer'[c] = NULL
     /\ s \notin 100..999 \/ received[c] < Len(request[c].body)

LEMMA SendQueues ==
  ASSUME IInv, BodyInv, NEW c \in Conn, phase[c] \in Waiting,
         con_cls[c] # NULL, NEW a, NEW o, NEW s, NEW b,
         send_response(c, a, o, s, b)
  PROVE  Queued(c, s, b)
<1> USE DEF Queued
<1>1. answer[c] = NULL
  BY DEF IInv, AnswerHeld, Waiting
<1>2. CASE Queue(c, a, o, s, b)
  BY <1>2 DEF Queue, IInv, TypeOK
<1>3. CASE ~MHD_queue_response(c, s) /\ answer' = answer
  <2>1. phase[c] = "body" \/ s \notin 100..999
    BY <1>1, <1>3 DEF MHD_queue_response, Waiting
  <2>2. phase[c] = "body" => received[c] < Len(request[c].body)
    <3> SUFFICES ASSUME phase[c] = "body"
                 PROVE  received[c] < Len(request[c].body)
      OBVIOUS
    <3>1. /\ received[c] \in 0..Len(request[c].body)
          /\ received[c] # Len(request[c].body)
      BY DEF BodyInv, BodyOK
    <3>2. Len(request[c].body) \in Nat
      <4>1. request[c] \in Requests
        BY DEF IInv, TypeOK
      <4> QED
        BY <4>1, ConstantsAssumption DEF Request, Text
    <3> QED
      BY <3>1, <3>2
  <2> QED
    BY <1>1, <1>3, <2>1, <2>2
<1> QED
  BY <1>2, <1>3 DEF send_response

(* What the routine has left is passed on.                                 *)
LEMMA RoutinePasses ==
  ASSUME IInv, RepliesPassedOn, CallsInv, BodyInv, NEW c \in Conn,
         NEW reply \in Replies, RoutineReturns(c, reply)
  PROVE  RepliesPassedOn'
<1> DEFINE a == con_cls[c]
           o == heap[a]
           code == http_status_code(reply)
<1>1. /\ thread = c /\ calls[c] # <<>> /\ phase[c] \in Waiting
      /\ con_cls[c] # NULL /\ answer[c] = NULL
  BY ConstantsAssumption
     DEF RoutineReturns, IInv, RoutineHolds, AnswerHeld, Waiting, CallsInv,
         CallsOK
<1>2. AllocOK \/ AllocFails
  BY DEF RoutineReturns, send_error_page, LogFails
<1>3. CASE \E cause : Terminate(cause)
  BY <1>2, <1>3, PassedIdle DEF Terminate, mhd, qm
<1>4. ASSUME crash' = crash,
             UNCHANGED <<request, received, calls>>,
             replied' = [replied EXCEPT ![c] = reply], thread' = NULL,
             \/ /\ reply.status = "*3"
                /\ send_error_page(c, a, o, 500)
             \/ /\ reply.status # "*3" /\ AllocOK
                /\ send_response(c, a, o, code, reply.output)
             \/ /\ AllocFails
                /\ \E b : send_response(c, a, o, 500, b)
      PROVE  RepliesPassedOn'
  <2>1. replied'[c] = reply
    BY <1>4 DEF IInv, TypeOK
  <2>2. AllocFails => alloc_failures' > 0
    BY DEF AllocFails, IInv, TypeOK
  <2>3. \A d \in Conn \ {c} : answer'[d] = answer[d]
    <3> HIDE DEF a, o, code
    <3> QED
      BY <1>4, AnswersOnly
  <2>4. Local(c)
    <3>1. \A d \in Conn \ {c} : replied'[d] = replied[d] /\ thread # d
      BY <1>1, <1>4 DEF IInv, TypeOK
    <3> QED
      BY <1>4, <2>3, <3>1 DEF Local, Exchange
  <2>5. received'[c] = received[c] /\ request'[c] = request[c]
    BY <1>4
  <2>6. 500 \in 100..999
    OBVIOUS
  <2>0. calls'[c] # <<>>
    BY <1>1, <1>4
  <2>a. \A s, b : answer'[c] = [status |-> s, body |-> b]
                     => answer'[c].status = s /\ answer'[c].body = b
    OBVIOUS
  <2>b. answer'[c] = [status |-> 500, body |-> "default"]
          => answer'[c] # NULL
    BY NullAssumption DEF Answer
  <2>c. Accounted(c, reply) => RepliesPassedOn'
    BY <2>0, <2>1, <2>4, <1>2, PassedAs, PassedStep
  <2>7. CASE reply.status = "*3" /\ send_error_page(c, a, o, 500)
    <3>1. CASE send_response(c, a, o, 500, "default")
      <4>1. \/ answer'[c] = [status |-> 500, body |-> "default"]
            \/ /\ answer'[c] = NULL
               /\ received[c] < Len(request[c].body)
        <5> HIDE DEF a, o
        <5> QED
          BY <1>1, <2>6, <3>1, SendQueues DEF Queued
      <4>2. Accounted(c, reply)
        BY <2>5, <2>7, <2>a, <2>b, <4>1 DEF Accounted
      <4> QED
        BY <4>2, <2>c
    <3>2. CASE AllocFails /\ Delete(c, a)
      <4>1. answer'[c] = NULL
        BY <1>1, <3>2 DEF Delete
      <4>2. Accounted(c, reply)
        BY <2>2, <3>2, <4>1 DEF Accounted
      <4> QED
        BY <4>2, <2>c
    <3> QED
      BY <2>7, <3>1, <3>2 DEF send_error_page
  <2>8. CASE /\ reply.status # "*3"
             /\ send_response(c, a, o, code, reply.output)
    <3>1. \/ answer'[c] = [status |-> code, body |-> reply.output]
          \/ /\ answer'[c] = NULL
             /\ code \notin 100..999 \/ received[c] < Len(request[c].body)
      <4> DEFINE page == reply.output
      <4>1. send_response(c, a, o, code, page)
        BY <2>8
      <4> HIDE DEF a, o, code, page
      <4>2. Queued(c, code, page)
        BY <1>1, <4>1, SendQueues
      <4> QED
        BY <4>2 DEF Queued, page
    <3>2. Accounted(c, reply)
      <4> HIDE DEF a, o
      <4> QED
        BY <2>5, <2>8, <3>1 DEF Accounted
    <3> QED
      BY <3>2, <2>c
  <2>9. ASSUME AllocFails, NEW b, send_response(c, a, o, 500, b)
        PROVE  RepliesPassedOn'
    <3>1. answer'[c] = [status |-> 500, body |-> b] \/ answer'[c] = NULL
      <4> HIDE DEF a, o
      <4> QED
        BY <1>1, <2>9, SendQueues DEF Queued
    <3>2. answer'[c] = NULL \/ answer'[c].status = 500
      BY <3>1
    <3>3. Accounted(c, reply)
      BY <2>2, <2>9, <3>2 DEF Accounted
    <3> QED
      BY <3>3, <2>c
  <2> QED
    BY <1>4, <2>7, <2>8, <2>9
<1>5. \/ \E cause : Terminate(cause)
      \/ /\ crash' = crash
         /\ UNCHANGED <<request, received, calls>>
         /\ replied' = [replied EXCEPT ![c] = reply] /\ thread' = NULL
         /\ \/ /\ reply.status = "*3"
               /\ send_error_page(c, a, o, 500)
            \/ /\ reply.status # "*3" /\ AllocOK
               /\ send_response(c, a, o, code, reply.output)
            \/ /\ AllocFails
               /\ \E b : send_response(c, a, o, 500, b)
  <2>1. CatchStatus("bad_alloc") = 500
    BY DEF CatchStatus
  <2> QED
    BY <2>1 DEF RoutineReturns, LogFails
<1> HIDE DEF a, o, code
<1> QED
  BY <1>3, <1>4, <1>5

(* Each action keeps the promise. *)
LEMMA NextPasses ==
  ASSUME IInv, CallsInv, BodyInv, RepliesPassedOn, [Next]_vars
  PROVE  RepliesPassedOn'
<1>1. CASE UNCHANGED vars
  BY <1>1, PassedIdle DEF vars, mhd, qm, env, AllocOK
<1>2. ASSUME NEW c \in Conn, NEW r \in Requests, SendRequest(c, r)
      PROVE  RepliesPassedOn'
  <2>1. UNCHANGED <<received, answer, thread, calls, replied, alloc_failures>>
    BY <1>2 DEF SendRequest, qm, env
  <2>2. \A d \in Conn \ {c} : request'[d] = request[d]
    BY <1>2 DEF SendRequest, IInv, TypeOK
  <2>3. Local(c)
    BY <2>1, <2>2 DEF Local, Exchange
  <2>4. calls'[c] = <<>> /\ answer'[c] = NULL
    BY <1>2, <2>1, SendRequestBody DEF IInv, AnswerHeld, SendRequest
  <2> QED
    BY <2>1, <2>3, <2>4, PassedDefault, PassedStep DEF AllocOK
<1>3. ASSUME NEW c \in Conn, FirstCall(c) PROVE RepliesPassedOn'
  <2>1. AllocOK \/ AllocFails
    BY <1>3, HandlersAllocate DEF FirstCall, LogFails
  <2>2. CASE \E cause : Terminate(cause)
    BY <2>1, <2>2, PassedIdle DEF Terminate, mhd, qm
  <2>3. ASSUME NEW a, initialize(c, a), UNCHANGED <<request, received, qm>>
        PROVE  RepliesPassedOn'
    <3> DEFINE r == request[c]
               o1 == routed_connection(r)
               o2 == typed_connection(r)
               o3 == [o2 EXCEPT !.fetch_post_json = TRUE]
               o4 == [o2 EXCEPT !.post_processor = "created"]
               ph == NextPhase(c, 0)
    <3>0. \/ send_response(c, a, o1, 500, "default")
          \/ send_error_page(c, a, o1, Routes[r.url].status)
          \/ send_error_page(c, a, o1, 405)
          \/ Keep(c, a, o2, ph) \/ Keep(c, a, o3, ph)
          \/ Keep(c, a, o4, ph) \/ Delete(c, a)
          \/ send_error_page(c, a, o2, 415)
      BY <2>3 DEF initialize
    <3>1. \/ \E o, s : send_error_page(c, a, o, s)
          \/ \E o : send_response(c, a, o, 500, "default")
          \/ \E o, p : Keep(c, a, o, p)
          \/ Delete(c, a)
      <4> HIDE DEF r, o1, o2, o3, o4, ph
      <4> QED
        BY <3>0
    <3> HIDE DEF r, o1, o2, o3, o4, ph
    <3>2. answer' = answer \/ \E s : Answers(c, s, "default")
      BY <3>1, HandlersAnswer
    <3>3. HandlerCall(c)
      BY <1>3 DEF FirstCall
    <3> QED
      BY <2>1, <2>3, <3>2, <3>3, HandlerPasses DEF qm
  <2> QED
    BY <1>3, <2>2, <2>3 DEF FirstCall, LogFails
<1>4. ASSUME NEW c \in Conn, NEW n, UploadData(c, n) PROVE RepliesPassedOn'
  <2>1. /\ HandlerCall(c) /\ UNCHANGED <<answer, qm, request>>
        /\ AllocOK \/ AllocFails
    BY <1>4, HandlersAnswer, HandlersAllocate
       DEF UploadData, post_json_process, MHD_post_process, Terminate, mhd
  <2>2. \A d \in Conn \ {c} : received'[d] = received[d]
    BY <1>4 DEF UploadData, Terminate, mhd, IInv, TypeOK
  <2> QED
    BY <2>1, <2>2, HandlerPasses DEF qm
<1>5. ASSUME NEW c \in Conn, ProcessRequest(c) PROVE RepliesPassedOn'
  <2> DEFINE a == con_cls[c]
             o == heap[a]
  <2>1. AllocOK \/ AllocFails
    BY <1>5, HandlersAllocate DEF ProcessRequest
  <2>2. HandlerCall(c)
    BY <1>5 DEF ProcessRequest
  <2>3. \/ \E cause : Terminate(cause)
        \/ /\ \/ Queue(c, a, o, 400, "default")
              \/ Keep(c, a, o, "closing")
           /\ UNCHANGED <<request, received, qm>>
        \/ /\ \E p : process(c, a, p)
           /\ UNCHANGED <<request, received>>
    BY <1>5 DEF ProcessRequest, LogFails
  <2>4. CASE \E cause : Terminate(cause)
    BY <2>1, <2>4, PassedIdle DEF Terminate, mhd, qm
  <2>5. CASE /\ \/ Queue(c, a, o, 400, "default")
                \/ Keep(c, a, o, "closing")
             /\ UNCHANGED <<request, received, qm>>
    <3>1. answer' = answer \/ Answers(c, 400, "default")
      BY <2>5 DEF Queue, Keep, Answers
    <3> QED
      BY <2>1, <2>2, <2>5, <3>1, HandlerPasses DEF qm
  <2>6. CASE /\ \E p : process(c, a, p)
             /\ UNCHANGED <<request, received>>
    BY <2>2, <2>6, ProcessPasses
  <2> QED
    BY <2>3, <2>4, <2>5, <2>6
<1>6. ASSUME NEW c \in Conn, NEW reply \in Replies, RoutineReturns(c, reply)
      PROVE  RepliesPassedOn'
  BY <1>6, RoutinePasses
<1>7. ASSUME NEW c \in Conn, request_completed(c) PROVE RepliesPassedOn'
  <2>1. /\ answer' = [answer EXCEPT ![c] = NULL]
        /\ calls' = [calls EXCEPT ![c] = <<>>]
        /\ replied' = [replied EXCEPT ![c] = NULL]
        /\ received' = [received EXCEPT ![c] = 0]
        /\ request' = [request EXCEPT ![c] = NULL]
        /\ thread' = thread /\ alloc_failures' = alloc_failures
    BY <1>7 DEF request_completed, env
  <2>2. Local(c)
    BY <2>1 DEF Local, Exchange, IInv, TypeOK
  <2>3. calls'[c] = <<>> /\ answer'[c] = NULL
    BY <2>1 DEF IInv, TypeOK
  <2> QED
    BY <2>1, <2>2, <2>3, PassedDefault, PassedStep DEF AllocOK
<1> QED
  BY <1>1, <1>2, <1>3, <1>4, <1>5, <1>6, <1>7 DEF Next

(* Whatever OpenQM leaves, the client is sent it, or there is one of the   *)
(* reasons RepliesPassedOn lists why not; and what it is sent without a    *)
(* routine is a default page.                                              *)
THEOREM RepliesArePassedOn == Spec => []RepliesPassedOn
<1>1. Init => RepliesPassedOn
  BY DEF Init, RepliesPassedOn
<1>2. IInv /\ CallsInv /\ BodyInv /\ RepliesPassedOn /\ [Next]_vars
        => RepliesPassedOn'
  BY NextPasses
<1> QED
  BY <1>1, <1>2, Invariant, CallsInvariant, BodyInvariant, PTL DEF Spec


-----------------------------------------------------------------------------
(* Terminations. *)

(* Why the process may be terminated in this state, request and phase being *)
(* those the last callback has left.                                       *)
Explained ==
  /\ crash' = "null json" =>
       \E c \in Conn : /\ phase[c] = "full" /\ request[c].body = <<>>
                       /\ request[c].content_type = "json"
  /\ crash' = "post_processor" =>
       \E c \in Conn : phase[c] = "body" /\ request[c].method = "OPTIONS"
  /\ crash' = "bad_alloc" => alloc_failures' > 0
  /\ crash' = "log" => LogMayFail

(* A failing allocation is counted. *)
LEMMA FailureCounted ==
  ASSUME IInv, AllocFails
  PROVE  alloc_failures' > 0
BY ConstantsAssumption DEF IInv, TypeOK, AllocFails

(* A termination with one of these reasons is explained.                   *)
LEMMA TerminateExplained ==
  ASSUME NEW cause, Terminate(cause), Explained
  PROVE  CrashExplained'
BY DEF Terminate, Explained, CrashExplained, mhd

(* So is a step after which the process still runs.                        *)
LEMMA RunningExplained == crash' = "no" => CrashExplained'
BY DEF CrashExplained

(* An allocation or a log that fails is a reason.                          *)
LEMMA FailureExplained ==
  ASSUME IInv, \/ Terminate("bad_alloc") /\ AllocFails
               \/ LogFails
  PROVE  CrashExplained'
<1>1. CASE Terminate("bad_alloc") /\ AllocFails
  <2>1. alloc_failures' > 0 /\ crash' = "bad_alloc"
    BY <1>1, FailureCounted DEF Terminate
  <2> QED
    BY <2>1 DEF CrashExplained
<1>2. CASE LogFails
  <2>1. LogMayFail /\ crash' = "log"
    BY <1>2 DEF LogFails, Terminate
  <2> QED
    BY <2>1 DEF CrashExplained
<1> QED
  BY <1>1, <1>2

(* Only the body of an OPTIONS request meets a post processor nobody made. *)
LEMMA UploadExplained ==
  ASSUME IInv, BodyInv, NEW c \in Conn, NEW n, crash = "no", UploadData(c, n)
  PROVE  CrashExplained'
<1> DEFINE o == heap[con_cls[c]]
           r == request[c]
<1>1. CASE crash' = crash
  BY <1>1, RunningExplained
<1>2. CASE /\ ~o.fetch_post_json /\ o.post_processor = "uninitialized"
           /\ Terminate("post_processor")
  <2>1. /\ phase[c] = "body" /\ thread = NULL /\ thread # c
        /\ o.connection_type # "GET"
    BY ConstantsAssumption DEF UploadData, HandlerCall, PollingThreadFree
  <2>2. Follows(o, r, received[c])
    BY <2>1, Zenon DEF BodyInv, BodyOK
  <2>3. ~(r.method \notin {"GET", "OPTIONS"})
    <3>1. ~(o.fetch_post_json \/ o.post_processor = "created")
      BY <1>2
    <3> HIDE DEF o, r
    <3> QED
      BY <2>2, <3>1 DEF Follows
  <2>4. r.method = "OPTIONS"
    <3>1. o.connection_type = connection_type(r.method)
      <4> HIDE DEF o, r
      <4> QED
        BY <2>2 DEF Follows
    <3> HIDE DEF o, r
    <3> QED
      BY <2>1, <2>3, <3>1 DEF connection_type
  <2>5. Explained
    BY <1>2, <2>1, <2>4 DEF Explained, Terminate
  <2> QED
    BY <1>2, <2>5, TerminateExplained
<1>3. CASE Terminate("bad_alloc") /\ AllocFails
  BY <1>3, FailureExplained
<1> QED
  BY <1>1, <1>2, <1>3 DEF UploadData

(* Only a request for json without a body has a null content.              *)
LEMMA ProcessExplained ==
  ASSUME IInv, BodyInv, NEW c \in Conn, crash = "no", ProcessRequest(c)
  PROVE  CrashExplained'
<1> DEFINE o == heap[con_cls[c]]
           r == request[c]
<1>1. CASE crash' = crash
  BY <1>1, RunningExplained
<1>2. CASE (Terminate("bad_alloc") /\ AllocFails) \/ LogFails
  BY <1>2, FailureExplained
<1>3. CASE /\ o.fetch_post_json /\ o.post_dynarray = NULL
           /\ Terminate("null json")
  <2>1. /\ phase[c] \in Waiting /\ con_cls[c] # NULL /\ thread # c
        /\ phase[c] = "body" => o.connection_type = "GET"
    BY ConstantsAssumption
       DEF ProcessRequest, HandlerCall, PollingThreadFree, Waiting
  <2>2. phase[c] \in {"body", "full"} /\ BodyOK(c)
    BY <2>1 DEF BodyInv, BodyOK, Waiting
  <2>3. Follows(o, r, received[c])
    BY <2>1, <2>2, Zenon DEF BodyOK
  <2>4. /\ r.method \notin {"GET", "OPTIONS"} /\ r.content_type = "json"
        /\ ~failed(o) /\ o.connection_type = connection_type(r.method)
        /\ received[c] = 0
    <3>1. o.fetch_post_json /\ o.post_dynarray = NULL
      BY <1>3
    <3> HIDE DEF o, r
    <3> QED
      BY <2>3, <3>1, Zenon DEF Follows
  <2>5. phase[c] = "full"
    <3>1. connection_type(r.method) # "GET"
      <4> HIDE DEF r
      <4> QED
        BY <2>4 DEF connection_type
    <3> HIDE DEF r, o
    <3> QED
      BY <2>1, <2>2, <2>4, <3>1
  <2>6. Len(r.body) = 0
    BY <2>2, <2>4, <2>5, Zenon DEF BodyOK
  <2>7. r.body = <<>>
    <3>1. r.body \in Seq(Unit)
      <4>1. r \in Requests
        BY <2>1 DEF IInv, TypeOK, Waiting
      <4> HIDE DEF r
      <4> QED
        BY <4>1, ConstantsAssumption DEF Request, Text
    <3> HIDE DEF r
    <3> QED
      BY <2>6, <3>1, EmptySeq
  <2>8. Explained
    BY <1>3, <2>4, <2>5, <2>7 DEF Explained, Terminate
  <2> QED
    BY <1>3, <2>8, TerminateExplained
<1> QED
  BY <1>1, <1>2, <1>3 DEF ProcessRequest

(* Each action leaves a termination explained. *)
LEMMA NextExplained ==
  ASSUME IInv, BodyInv, CrashExplained, [Next]_vars
  PROVE  CrashExplained'
<1>1. CASE UNCHANGED vars
  BY <1>1 DEF vars, mhd, env, CrashExplained
<1>2. ASSUME NEW c \in Conn, NEW r \in Requests, SendRequest(c, r)
      PROVE  CrashExplained'
  BY <1>2, RunningExplained DEF SendRequest, env
<1>3. ASSUME NEW c \in Conn, FirstCall(c) PROVE CrashExplained'
  <2>1. crash = "no"
    BY <1>3 DEF FirstCall, HandlerCall, PollingThreadFree
  <2> QED
    BY <1>3, <2>1, RunningExplained, FailureExplained DEF FirstCall
<1>4. ASSUME NEW c \in Conn, NEW n, UploadData(c, n) PROVE CrashExplained'
  BY <1>4, UploadExplained DEF UploadData, HandlerCall, PollingThreadFree
<1>5. ASSUME NEW c \in Conn, ProcessRequest(c) PROVE CrashExplained'
  BY <1>5, ProcessExplained DEF ProcessRequest, HandlerCall, PollingThreadFree
<1>6. ASSUME NEW c \in Conn, NEW reply \in Replies, RoutineReturns(c, reply)
      PROVE  CrashExplained'
  BY <1>6, RunningExplained, FailureExplained DEF RoutineReturns
<1>7. ASSUME NEW c \in Conn, request_completed(c) PROVE CrashExplained'
  BY <1>7, RunningExplained DEF request_completed, PollingThreadFree, env
<1> QED
  BY <1>1, <1>2, <1>3, <1>4, <1>5, <1>6, <1>7 DEF Next

(* The process is terminated by a json request without a body, the body of *)
(* an OPTIONS request, a failing allocation or a log that does not open.   *)
THEOREM CrashesExplained == Spec => []CrashExplained
<1>1. Init => CrashExplained
  BY DEF Init, CrashExplained
<1>2. IInv /\ BodyInv /\ CrashExplained /\ [Next]_vars => CrashExplained'
  BY NextExplained
<1> QED
  BY <1>1, <1>2, Invariant, BodyInvariant, PTL DEF Spec
=============================================================================
