--------------------------- MODULE RequestService ---------------------------
(***************************************************************************)
(* What the server promises about requests, without its objects, buffers,  *)
(* pieces of body or memory: a request is received, perhaps served by one  *)
(* run of a routine, and answered or dropped. OpenQM is shared: only one   *)
(* routine runs at a time, and nothing else moves meanwhile.               *)
(***************************************************************************)
CONSTANT Conn

VARIABLES
  stage,      \* where the request of each connection is
  served      \* connections whose request has been given to a routine

vars == <<stage, served>>

(* The one polling thread is not inside a routine.                         *)
Quiet == \A c \in Conn : stage[c] # "running"

Init == stage = [c \in Conn |-> "idle"] /\ served = {}

Move(c, from, to) == stage[c] = from /\ stage' = [stage EXCEPT ![c] = to]

Receive(c) == Move(c, "idle", "received") /\ UNCHANGED served

(* The request is refused without OpenQM, with a page or by a closed       *)
(* connection.                                                             *)
Refuse(c) ==
  /\ Quiet
  /\ \E end \in {"answered", "dropped"} : Move(c, "received", end)
  /\ UNCHANGED served

Run(c) ==
  /\ Quiet /\ c \notin served
  /\ Move(c, "received", "running")
  /\ served' = served \cup {c}

Finish(c) ==
  /\ \E end \in {"answered", "dropped"} : Move(c, "running", end)
  /\ UNCHANGED served

(* The exchange ends, whatever point it had reached: the client may leave. *)
End(c) ==
  /\ Quiet /\ stage[c] # "idle"
  /\ stage' = [stage EXCEPT ![c] = "idle"]
  /\ served' = served \ {c}

Next == \E c \in Conn : Receive(c) \/ Refuse(c) \/ Run(c) \/ Finish(c) \/ End(c)

Spec == Init /\ [][Next]_vars
=============================================================================
