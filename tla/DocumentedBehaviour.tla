------------------------- MODULE DocumentedBehaviour -------------------------
(***************************************************************************)
(* What README.md, the project instructions and the comments of the code   *)
(* say of a request, as properties of PickConnection. Each is checked on   *)
(* its own and each is violated: README.md beside this module quotes the   *)
(* sentence and describes the behaviour TLC finds.                         *)
(***************************************************************************)
EXTENDS PickConnection

(* The error stored for connection c's request, if it still has an object. *)
ErrorOf(c) ==
  IF con_cls[c] = NULL THEN "none" ELSE heap[con_cls[c]].error_exception

Answered(c, status) == answer[c] # NULL /\ answer[c].status = status

(* README.md:94: get_param is "the list of parameters accepted for GET     *)
(* parameters", so only a name missing from it is refused.                 *)
ListedParametersAccepted ==
  \A c \in Conn :
    ErrorOf(c) = "invalid_argument" =>
      ~(request[c].query.keys \subseteq Routes[request[c].url].params)

(* README.md:125: a parameter that is not listed is answered by 400.       *)
UnlistedParameter400 ==
  \A c \in Conn :
    ErrorOf(c) = "invalid_argument" /\ answer[c] # NULL => Answered(c, 400)

(* httpd_server.instructions.md:45: no crash without a message. No request *)
(* a client may send terminates the process.                               *)
NoSilentCrash == crash = "no"

(* connection.cpp:796: the memory of the response is freed by MHD once it  *)
(* has been sent: no reference is left when the exchange is over.          *)
ResponseFreed ==
  \A c \in Conn : phase[c] = "idle" => response_refs[c] = 0

(* README.md:75: what is received is converted, and a character that       *)
(* cannot be represented makes the request fail. So a body or query of     *)
(* representable characters does not.                                      *)
OnlyUnrepresentableRefused ==
  \A c \in Conn :
    ErrorOf(c) = "range_error" =>
      \/ input_conversion_fails(request[c].body)
      \/ input_conversion_fails(request[c].query.text)

(* README.md:26: the server responds to the requests it receives and calls *)
(* a routine; what a routine answers is not dropped.                       *)
RoutineAnswered ==
  \A c \in Conn : calls[c] # <<>> /\ thread # c => phase[c] # "closing"

(* README.md:131: a routine's empty response with an http error status is  *)
(* answered by a default error page.                                       *)
EmptyErrorPage ==
  \A c \in Conn :
    answer[c] # NULL /\ answer[c].status >= 400 => answer[c].body # "empty"
=============================================================================
