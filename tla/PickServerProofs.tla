-------------------------- MODULE PickServerProofs --------------------------
(***************************************************************************)
(* The life of the server: from the memory's invariant (PickConfigProofs)  *)
(* and from where main may be while a callback runs, nothing is used after *)
(* it is freed, nothing is left when main ends, and every error of the     *)
(* routing has been logged.                                                *)
(***************************************************************************)
EXTENDS PickServer, PickConfigProofs

(* What main knows at each of its calls.                                   *)
MainInv ==
  /\ main \in {"phs_config_read", "MHD_start_daemon"} =>
       exit_code = NULL /\ libconfig_storage /\ thread = "none"
  /\ main \in {"getchar", "MHD_stop_daemon"} =>
       exit_code = NULL /\ libconfig_storage /\ thread # "none"
  /\ main = "getchar" => thread # "stopped"
  /\ main = "config_destroy" =>
       /\ exit_code \in {0, 2}
       /\ libconfig_storage
       /\ exit_code = 2 => first_url_config = NULL
  /\ main = "phs_config_free" =>
       exit_code # NULL /\ (libconfig_storage <=> exit_code # 0)
  /\ main = "exited" =>
       /\ exit_code # NULL /\ (libconfig_storage <=> exit_code = 1)
       /\ first_url_config = NULL
  /\ exit_code = 0 => thread = "stopped"
  /\ exit_code \in {1, 2} => thread = "none"
  /\ main # "phs_config_read" =>
       /\ current = NULL
       /\ reading = (IF exit_code = 2 THEN "refused" ELSE "accepted")
  /\ reading \in {"urls", "accepted"} => home

(* TypeOK but ConfigTypeOK, numbers and strings apart.                     *)
CodesOK ==
  exit_code \in {0, 1, 2, NULL} /\ answer \in {200, 404, 405, 500, NULL}

FailuresOK == routing_failures \in 0..MaxAllocFailures

Crashes == {"no", "no first entry", "log", "bad_alloc"}

PlacesOK ==
  /\ main \in {"phs_config_read", "MHD_start_daemon", "getchar",
               "MHD_stop_daemon", "config_destroy", "phs_config_free",
               "exited"}
  /\ libconfig_storage \in BOOLEAN
  /\ thread \in {"none", "idle", "while", "for", "routine", "stopped"}
  /\ thread \notin {"none", "stopped"} =>
       main \in {"getchar", "MHD_stop_daemon"}
  /\ reading \in {"settings", "urls"} => main = "phs_config_read"
  /\ base_url_config \in Addr \cup {NULL}
  /\ crash \in Crashes

IInv ==
  /\ MemInv /\ CodesOK /\ PlacesOK /\ MainInv
  /\ RoutingMemoryAlive /\ ErrorsLogged

LEMMA IInvTypeOK ==
  ASSUME IInv, FailuresOK PROVE TypeOK
BY DEF IInv, MemInv, CodesOK, PlacesOK, FailuresOK, Crashes, TypeOK

LEMMA InitInv == Init => IInv
<1> SUFFICES ASSUME Init PROVE IInv
  OBVIOUS
<1>1. MemInv
  BY MemInit DEF Init
<1>2. answer = NULL /\ exit_code = NULL /\ NULL \notin {0, 1, 2, 404, 500}
  BY ServerAssumption DEF Init
<1>3. CodesOK /\ PlacesOK
  BY <1>2 DEF Init, ConfigInit, CodesOK, PlacesOK, Crashes
<1>4. MainInv
  BY <1>2 DEF Init, ConfigInit, MainInv
<1>5. RoutingMemoryAlive /\ ErrorsLogged
  BY <1>2 DEF Init, RoutingMemoryAlive, ErrorsLogged
<1> QED BY <1>1, <1>3, <1>4, <1>5 DEF IInv

-----------------------------------------------------------------------------
(* main(). *)

LEMMA ReadConfigInv ==
  ASSUME IInv, ReadConfig
  PROVE  IInv'
<1>1. /\ main = "phs_config_read" /\ phs_config_read
      /\ UNCHANGED <<thread, base_url_config, answer, logged>>
      /\ UNCHANGED <<main, exit_code, libconfig_storage>>
      /\ crash' \in {crash, "bad_alloc"}
  BY DEF ReadConfig, process, polling, walk
<1>2. MemInv'
  BY <1>1, ReadKeepsMem DEF IInv
<1>3. /\ exit_code = NULL /\ libconfig_storage /\ thread = "none"
      /\ home' = home /\ (reading' \in {"urls", "accepted"} => home)
  BY <1>1 DEF phs_config_read, ReadSettings, ReadUrl, ReadAll, ReadSubPath,
              ReturnToSubPath, ReturnToUrl, ReturnNull, note_error,
              settings_ok, account_read, IInv, MainInv
<1>4. CodesOK'
  BY <1>1, <1>3 DEF IInv, CodesOK
<1>5. PlacesOK'
  BY <1>1, <1>3 DEF IInv, PlacesOK, Crashes
<1>6. MainInv'
  BY <1>1, <1>3, ServerAssumption DEF IInv, MainInv
<1>7. RoutingMemoryAlive' /\ ErrorsLogged'
  BY <1>1, <1>3 DEF IInv, RoutingMemoryAlive, ErrorsLogged
<1> QED BY <1>2, <1>4, <1>5, <1>6, <1>7 DEF IInv

LEMMA RefusedInv ==
  ASSUME IInv, Refused
  PROVE  IInv'
<1>1. /\ main = "phs_config_read" /\ reading = "refused"
      /\ main' = "phs_config_free" /\ exit_code' = 2
      /\ UNCHANGED <<home, reading, current, heap, first_url_config>>
      /\ UNCHANGED <<thread, base_url_config, answer, logged>>
      /\ UNCHANGED <<libconfig_storage, crash>>
  BY DEF Refused, after_refusal, config_vars, reader, tree, polling, walk
<1>2. MemInv'
  BY UnchangedKeepsMem DEF IInv, Refused
<1>3. /\ current = NULL /\ NULL \notin {0, 1, 2}
      /\ libconfig_storage /\ thread = "none"
  BY <1>1, ServerAssumption DEF IInv, MemInv, ReadingUrls, MainInv
<1>4. CodesOK'
  BY <1>1, <1>3 DEF IInv, CodesOK
<1>5. PlacesOK'
  BY <1>1, <1>3 DEF IInv, PlacesOK
<1>6. MainInv'
  BY <1>1, <1>3 DEF IInv, MainInv
<1>7. RoutingMemoryAlive' /\ ErrorsLogged'
  BY <1>1, <1>3 DEF IInv, RoutingMemoryAlive, ErrorsLogged
<1> QED BY <1>2, <1>4, <1>5, <1>6, <1>7 DEF IInv

LEMMA PrintInv ==
  ASSUME IInv, print_first_config
  PROVE  IInv'
<1>1. /\ main = "phs_config_read" /\ reading = "accepted"
      /\ main' \in {main, "MHD_start_daemon"}
      /\ crash' \in {"no first entry", crash}
      /\ UNCHANGED <<home, reading, current, heap, first_url_config>>
      /\ UNCHANGED <<thread, base_url_config, answer, logged>>
      /\ UNCHANGED <<exit_code, libconfig_storage>>
  BY DEF print_first_config, config_vars, reader, tree, polling, walk
<1>2. MemInv'
  BY UnchangedKeepsMem DEF IInv, print_first_config
<1>3. /\ current = NULL /\ NULL \notin {0, 1, 2}
      /\ exit_code = NULL /\ libconfig_storage /\ thread = "none"
  <2>1. exit_code = NULL /\ libconfig_storage /\ thread = "none"
    BY <1>1 DEF IInv, MainInv
  <2>2. current = NULL
    BY <1>1 DEF IInv, MemInv, ReadingUrls
  <2> QED BY <2>1, <2>2, ServerAssumption
<1>4. CodesOK'
  BY <1>1, <1>3 DEF IInv, CodesOK
<1>5. PlacesOK'
  BY <1>1, <1>3 DEF IInv, PlacesOK, Crashes
<1>6. MainInv'
  BY <1>1, <1>3 DEF IInv, MainInv
<1>7. RoutingMemoryAlive' /\ ErrorsLogged'
  BY <1>1, <1>3 DEF IInv, RoutingMemoryAlive, ErrorsLogged
<1> QED BY <1>2, <1>4, <1>5, <1>6, <1>7 DEF IInv

LEMMA StartDaemonInv ==
  ASSUME IInv, StartDaemon
  PROVE  IInv'
<1>1. /\ main = "MHD_start_daemon"
      /\ \/ /\ main' = "getchar" /\ thread' = "idle" /\ exit_code' = exit_code
         \/ /\ main' = "phs_config_free" /\ exit_code' = 1 /\ thread' = thread
      /\ UNCHANGED <<home, reading, current, heap, first_url_config>>
      /\ UNCHANGED <<base_url_config, answer, logged, libconfig_storage, crash>>
  BY DEF StartDaemon, config_vars, reader, tree, walk
<1>2. MemInv'
  BY UnchangedKeepsMem DEF IInv, StartDaemon
<1>3. /\ exit_code = NULL /\ NULL \notin {0, 1, 2}
      /\ libconfig_storage /\ thread = "none"
      /\ current = NULL /\ reading = "accepted"
  BY <1>1, ServerAssumption DEF IInv, MainInv
<1>4. CodesOK'
  BY <1>1, <1>3 DEF IInv, CodesOK
<1>5. PlacesOK'
  BY <1>1, <1>3 DEF IInv, PlacesOK
<1>6. MainInv'
  BY <1>1, <1>3 DEF IInv, MainInv
<1>7. RoutingMemoryAlive' /\ ErrorsLogged'
  BY <1>1, <1>3 DEF IInv, RoutingMemoryAlive, ErrorsLogged
<1> QED BY <1>2, <1>4, <1>5, <1>6, <1>7 DEF IInv

LEMMA GetcharInv ==
  ASSUME IInv, getchar
  PROVE  IInv'
<1>1. /\ main = "getchar" /\ main' = "MHD_stop_daemon"
      /\ UNCHANGED <<home, reading, current, heap, first_url_config>>
      /\ UNCHANGED <<thread, base_url_config, answer, logged>>
      /\ UNCHANGED <<exit_code, libconfig_storage, crash>>
  BY DEF getchar, config_vars, reader, tree, polling, walk
<1>2. MemInv'
  BY UnchangedKeepsMem DEF IInv, getchar
<1>3. /\ exit_code = NULL /\ NULL \notin {0, 1, 2}
      /\ libconfig_storage /\ thread # "none"
  BY <1>1, ServerAssumption DEF IInv, MainInv
<1>4. CodesOK'
  BY <1>1, <1>3 DEF IInv, CodesOK
<1>5. PlacesOK'
  BY <1>1, <1>3 DEF IInv, PlacesOK
<1>6. MainInv'
  BY <1>1, <1>3 DEF IInv, MainInv
<1>7. RoutingMemoryAlive' /\ ErrorsLogged'
  BY <1>1, <1>3 DEF IInv, RoutingMemoryAlive, ErrorsLogged
<1> QED BY <1>2, <1>4, <1>5, <1>6, <1>7 DEF IInv

LEMMA StopDaemonInv ==
  ASSUME IInv, StopDaemon
  PROVE  IInv'
<1>1. /\ main = "MHD_stop_daemon" /\ thread = "stopped"
      /\ main' = "config_destroy" /\ exit_code' = 0
      /\ UNCHANGED <<home, reading, current, heap, first_url_config>>
      /\ UNCHANGED <<thread, base_url_config, answer, logged>>
      /\ UNCHANGED <<libconfig_storage, crash>>
  BY DEF StopDaemon, MHD_stop_daemon, config_vars, reader, tree, polling, walk
<1>2. MemInv'
  BY UnchangedKeepsMem DEF IInv, StopDaemon
<1>3. /\ exit_code = NULL /\ NULL \notin {0, 1, 2} /\ libconfig_storage
  BY <1>1, ServerAssumption DEF IInv, MainInv
<1>4. CodesOK'
  BY <1>1, <1>3 DEF IInv, CodesOK
<1>5. PlacesOK'
  BY <1>1, <1>3 DEF IInv, PlacesOK
<1>6. MainInv'
  BY <1>1, <1>3 DEF IInv, MainInv
<1>7. RoutingMemoryAlive' /\ ErrorsLogged'
  BY <1>1, <1>3 DEF IInv, RoutingMemoryAlive, ErrorsLogged
<1> QED BY <1>2, <1>4, <1>5, <1>6, <1>7 DEF IInv

LEMMA ConfigDestroyInv ==
  ASSUME IInv, config_destroy
  PROVE  IInv'
<1>1. /\ main = "config_destroy" /\ libconfig_storage' = FALSE
      /\ main' = IF exit_code = 2 THEN "exited" ELSE "phs_config_free"
      /\ UNCHANGED <<home, reading, current, heap, first_url_config>>
      /\ UNCHANGED <<thread, base_url_config, answer, logged>>
      /\ UNCHANGED <<exit_code, crash>>
  BY DEF config_destroy, config_vars, reader, tree, polling, walk
<1>2. MemInv'
  BY UnchangedKeepsMem DEF IInv, config_destroy
<1>3. /\ exit_code \in {0, 2} /\ NULL \notin {0, 1, 2}
      /\ exit_code = 2 => first_url_config = NULL
      /\ thread \in {"none", "stopped"}
  <2>1. exit_code \in {0, 2} /\ (exit_code = 2 => first_url_config = NULL)
    BY <1>1 DEF IInv, MainInv
  <2>2. thread \in {"none", "stopped"}
    BY <1>1 DEF IInv, PlacesOK
  <2> QED BY <2>1, <2>2, ServerAssumption
<1>4. CodesOK'
  BY <1>1, <1>3 DEF IInv, CodesOK
<1>5. PlacesOK'
  BY <1>1, <1>3 DEF IInv, PlacesOK
<1>6. MainInv'
  BY <1>1, <1>3 DEF IInv, MainInv
<1>7. RoutingMemoryAlive' /\ ErrorsLogged'
  BY <1>1, <1>3 DEF IInv, RoutingMemoryAlive, ErrorsLogged
<1> QED BY <1>2, <1>4, <1>5, <1>6, <1>7 DEF IInv

LEMMA ConfigFreeInv ==
  ASSUME IInv, phs_config_free
  PROVE  IInv'
<1>1. /\ main = "phs_config_free"
      /\ \/ main' = main
         \/ /\ first_url_config = NULL /\ first_url_config' = NULL
            /\ main' = IF exit_code = 2 THEN "config_destroy" ELSE "exited"
      /\ UNCHANGED <<home, reading, current, exit_code, libconfig_storage, crash>>
      /\ UNCHANGED <<thread, base_url_config, answer, logged>>
  BY DEF phs_config_free, reader, tree, polling, walk
<1>3. /\ current = NULL /\ exit_code \in {0, 1, 2} /\ NULL \notin {0, 1, 2}
      /\ thread \in {"none", "stopped"}
      /\ libconfig_storage <=> exit_code # 0
      /\ reading = (IF exit_code = 2 THEN "refused" ELSE "accepted")
  <2>1. /\ current = NULL /\ exit_code # NULL
        /\ libconfig_storage <=> exit_code # 0
        /\ reading = (IF exit_code = 2 THEN "refused" ELSE "accepted")
    BY <1>1 DEF IInv, MainInv
  <2>2. exit_code \in {0, 1, 2}
    BY <2>1 DEF IInv, CodesOK
  <2>3. thread \in {"none", "stopped"}
    BY <1>1 DEF IInv, PlacesOK
  <2> QED BY <2>1, <2>2, <2>3, ServerAssumption
<1>2. MemInv'
  <2>1. CASE free_first
    BY <1>3, <2>1, FreeFirstKeepsMem DEF IInv, phs_config_free
  <2>2. CASE UNCHANGED tree
    BY <2>2, UnchangedKeepsMem DEF IInv, phs_config_free, config_vars
  <2> QED BY <2>1, <2>2 DEF phs_config_free
<1>4. CodesOK'
  BY <1>1, <1>3 DEF IInv, CodesOK
<1>5. PlacesOK'
  BY <1>1, <1>3 DEF IInv, PlacesOK
<1>6. MainInv'
  BY <1>1, <1>3 DEF IInv, MainInv
<1>7. RoutingMemoryAlive' /\ ErrorsLogged'
  BY <1>1, <1>3 DEF IInv, RoutingMemoryAlive, ErrorsLogged
<1> QED BY <1>2, <1>4, <1>5, <1>6, <1>7 DEF IInv

-----------------------------------------------------------------------------
(* The polling thread: it changes nothing of the memory, and main is       *)
(* waiting for it.                                                         *)

(* What a turn of the thread may do to the variables of the invariant.     *)
Turn ==
  /\ thread' \in {"idle", "while", "for", "routine", "stopped"}
  /\ thread' = "stopped" => main = "MHD_stop_daemon"
  /\ base_url_config' \in Addr \cup {NULL}
  /\ thread' \in {"while", "for"} /\ base_url_config' # NULL =>
       heap[base_url_config'] # NULL
  /\ answer' \in {200, 404, 405, 500, NULL}
  /\ answer' \in {404, 500} => logged'
  /\ crash' \in Crashes

LEMMA TurnInv ==
  ASSUME IInv, Turn, UNCHANGED <<config_vars, process>>,
         main \in {"getchar", "MHD_stop_daemon"}
  PROVE  IInv'
<1>1. /\ UNCHANGED <<home, reading, current, heap, first_url_config>>
      /\ UNCHANGED <<main, exit_code, libconfig_storage>>
  BY DEF config_vars, reader, tree, process
<1>2. MemInv'
  BY UnchangedKeepsMem DEF IInv
<1>3. exit_code = NULL /\ libconfig_storage /\ NULL \notin {0, 1, 2}
  BY ServerAssumption DEF IInv, MainInv
<1>4. CodesOK'
  BY <1>1 DEF IInv, CodesOK, Turn
<1>5. PlacesOK'
  BY <1>1 DEF IInv, PlacesOK, Turn
<1>6. MainInv'
  BY <1>1, <1>3 DEF IInv, MainInv, Turn
<1>7. RoutingMemoryAlive' /\ ErrorsLogged'
  BY <1>1, <1>3 DEF IInv, RoutingMemoryAlive, ErrorsLogged, Turn
<1> QED BY <1>2, <1>4, <1>5, <1>6, <1>7 DEF IInv

(* The process is terminated, and nothing else happens.                    *)
LEMMA TerminatedTurn ==
  ASSUME IInv, thread \notin {"none", "stopped"},
         UNCHANGED polling, crash' \in {"log", "bad_alloc"}
  PROVE  Turn
<1>1. UNCHANGED <<thread, base_url_config, answer, logged>>
  BY DEF polling, walk
<1>2. /\ thread' \in {"idle", "while", "for", "routine"}
      /\ base_url_config' \in Addr \cup {NULL}
  BY <1>1 DEF IInv, PlacesOK
<1>3. /\ thread' \in {"while", "for"} /\ base_url_config' # NULL =>
           heap[base_url_config'] # NULL
  BY <1>1 DEF IInv, RoutingMemoryAlive
<1>4. /\ answer' \in {200, 404, 405, 500, NULL}
      /\ answer' \in {404, 500} => logged'
  BY <1>1 DEF IInv, CodesOK, ErrorsLogged
<1>5. crash' \in Crashes
  BY DEF Crashes
<1> QED BY <1>2, <1>3, <1>4, <1>5 DEF Turn

(* An error of the routing is logged, or the process is gone.              *)
LEMMA LoggedTurn ==
  ASSUME IInv, thread \notin {"none", "stopped"},
         NEW value, NEW code \in {404, 500}, log_fatal(Return(value, code))
  PROVE  Turn
<1>1. home /\ main \in {"getchar", "MHD_stop_daemon"}
  <2>1. main \in {"getchar", "MHD_stop_daemon"}
    BY DEF IInv, PlacesOK
  <2>2. exit_code = NULL /\ NULL # 2
    BY <2>1, ServerAssumption DEF IInv, MainInv
  <2>3. reading = "accepted"
    BY <2>1, <2>2 DEF IInv, MainInv
  <2> QED BY <2>1, <2>3 DEF IInv, MainInv
<1>2. written("fatal")
  BY <1>1 DEF written, rootLogger
<1>3. CASE crash' = "log" /\ UNCHANGED polling
  BY <1>3, TerminatedTurn
<1>4. CASE logged' = written("fatal") /\ Return(value, code) /\ crash' = crash
  <2>1. /\ thread' = "idle" /\ base_url_config' = base_url_config
        /\ answer' = code /\ logged' = written("fatal") /\ crash' = crash
    BY <1>4 DEF Return
  <2>2. base_url_config \in Addr \cup {NULL} /\ crash \in Crashes
    BY DEF IInv, PlacesOK
  <2>3. base_url_config' \in Addr \cup {NULL} /\ crash' \in Crashes
    BY <2>1, <2>2, Zenon
  <2>4. answer' \in {200, 404, 405, 500, NULL} /\ logged'
    BY <1>2, <2>1
  <2> QED BY <2>1, <2>3, <2>4 DEF Turn
<1> QED BY <1>3, <1>4 DEF log_fatal

(* bad_alloc leaves the rest to TerminatedTurn.                            *)
LEMMA BadAllocTurn ==
  ASSUME IInv, thread \notin {"none", "stopped"}, bad_alloc
  PROVE  Turn
BY TerminatedTurn DEF bad_alloc

(* PHSLogging::fatal, whatever becomes of it.                              *)
LEMMA FatalTurn ==
  ASSUME IInv, thread \notin {"none", "stopped"},
         NEW value, NEW code \in {404, 500}, fatal(Return(value, code))
  PROVE  Turn
BY LoggedTurn, BadAllocTurn DEF fatal

(* A turn that neither answers nor writes to the log. *)
LEMMA QuietTurn ==
  ASSUME IInv, UNCHANGED <<answer, logged, crash>>,
         thread' \in {"idle", "while", "for", "routine"},
         base_url_config' \in Addr \cup {NULL},
         thread' \in {"while", "for"} /\ base_url_config' # NULL =>
           heap[base_url_config'] # NULL
  PROVE  Turn
<1>1. /\ answer' \in {200, 404, 405, 500, NULL}
      /\ answer' \in {404, 500} => logged'
  BY DEF IInv, CodesOK, ErrorsLogged
<1>2. crash' \in Crashes
  BY DEF IInv, PlacesOK
<1> QED BY <1>1, <1>2 DEF Turn

(* The node the walk stands on is alive, and so is what it points to.      *)
LEMMA Standing ==
  ASSUME IInv, thread \in {"while", "for"}, base_url_config # NULL
  PROVE  LET n == heap[base_url_config] IN
         \A b \in {n.next, n.sub_path} :
           b \in Addr \cup {NULL} /\ (b # NULL => heap[b] # NULL)
<1>1. base_url_config \in Live
  BY DEF IInv, PlacesOK, RoutingMemoryAlive, Live
<1>2. HeapType /\ PointersAlive
  BY TypedHeap DEF IInv, MemInv, GraphInv
<1> QED BY <1>1, <1>2, NodeFields DEF PointersAlive, Live

LEMMA HandleRequestTurn ==
  ASSUME IInv, HandleRequest
  PROVE  Turn
<1>1. thread = "idle"
  BY DEF HandleRequest
<1>2. CASE fatal(Return("404", 404)) \/ bad_alloc
  BY <1>1, <1>2, FatalTurn, BadAllocTurn
<1>3. CASE base_url_config' = first_url_config /\ thread' = "while"
           /\ UNCHANGED <<answer, logged, crash>>
  <2>1. /\ first_url_config \in Addr \cup {NULL}
        /\ first_url_config # NULL => heap[first_url_config] # NULL
    BY DEF IInv, MemInv, ConfigTypeOK, GraphInv, PointersAlive
  <2> QED BY <1>3, <2>1, QuietTurn
<1> QED BY <1>2, <1>3 DEF HandleRequest

LEMMA NextFolderTurn ==
  ASSUME IInv, NextFolder
  PROVE  Turn
<1>1. thread = "while"
  BY DEF NextFolder
<1>2. CASE log_fatal(Return("500", 500)) \/ bad_alloc
  BY <1>1, <1>2, LoggedTurn, BadAllocTurn
<1>3. CASE thread' = "for" /\ UNCHANGED <<walk, answer, logged, crash>>
  <2>1. base_url_config' = base_url_config
    BY <1>3 DEF walk
  <2>2. /\ base_url_config \in Addr \cup {NULL}
        /\ base_url_config # NULL => heap[base_url_config] # NULL
    BY <1>1 DEF IInv, PlacesOK, RoutingMemoryAlive
  <2> QED BY <1>3, <2>1, <2>2, QuietTurn
<1> QED BY <1>2, <1>3 DEF NextFolder

LEMMA TrySiblingTurn ==
  ASSUME IInv, TrySibling
  PROVE  Turn
<1>1. thread = "for"
  BY DEF TrySibling
<1>2. CASE fatal(Return("404", 404)) \/ bad_alloc
  BY <1>1, <1>2, FatalTurn, BadAllocTurn
<1>3. CASE /\ base_url_config # NULL
           /\ base_url_config' = next_sibling(base_url_config)
           /\ UNCHANGED <<thread, answer, logged, crash>>
  <2>1. base_url_config' = heap[base_url_config].next
    BY <1>3 DEF next_sibling
  <2> QED BY <1>1, <1>3, <2>1, Standing, QuietTurn
<1>4. CASE /\ base_url_config # NULL
           /\ base_url_config' = heap[base_url_config].sub_path
           /\ thread' = "while"
           /\ UNCHANGED <<answer, logged, crash>>
  BY <1>1, <1>4, Standing, QuietTurn
<1> QED BY <1>2, <1>3, <1>4 DEF TrySibling

LEMMA RoutedTurn ==
  ASSUME IInv, Routed
  PROVE  Turn
<1>1. thread = "while" /\ base_url_config \in Addr \cup {NULL}
  BY DEF Routed, IInv, PlacesOK
<1>2. CASE fatal(Return("404", 404))
  BY <1>1, <1>2, FatalTurn
<1>3. CASE Return("0", 405) /\ UNCHANGED <<logged, crash>>
  <2>1. /\ thread' = "idle" /\ answer' = 405
        /\ base_url_config' = base_url_config
    BY <1>3 DEF Return
  <2>2. crash' \in Crashes
    BY <1>3 DEF IInv, PlacesOK
  <2>3. answer' \in {200, 404, 405, 500, NULL} /\ answer' \notin {404, 500}
    BY <2>1
  <2> QED BY <1>1, <2>1, <2>2, <2>3 DEF Turn
<1>4. CASE thread' = "routine"
           /\ UNCHANGED <<base_url_config, answer, logged, crash>>
  <2>1. /\ thread' \in {"idle", "while", "for", "routine"}
        /\ thread' \notin {"while", "for"}
        /\ base_url_config' \in Addr \cup {NULL}
    BY <1>1, <1>4
  <2> QED BY <1>4, <2>1, QuietTurn
<1> QED BY <1>2, <1>3, <1>4 DEF Routed

LEMMA LastTurns ==
  ASSUME IInv, RoutineReturns \/ ThreadEnds
  PROVE  Turn
<1>1. /\ base_url_config' = base_url_config
      /\ UNCHANGED <<logged, crash>>
  BY DEF RoutineReturns, ThreadEnds, walk
<1>2. /\ base_url_config' \in Addr \cup {NULL}
      /\ crash' \in Crashes
  BY <1>1 DEF IInv, PlacesOK
<1>3. CASE RoutineReturns
  <2>1. thread' = "idle" /\ answer' = 200
    BY <1>3 DEF RoutineReturns
  <2>2. answer' \in {200, 404, 405, 500, NULL} /\ answer' \notin {404, 500}
    BY <2>1
  <2> QED BY <1>2, <2>1, <2>2 DEF Turn
<1>4. CASE ThreadEnds
  <2>1. /\ thread' = "stopped" /\ main = "MHD_stop_daemon"
        /\ answer' = answer
    BY <1>4 DEF ThreadEnds
  <2>2. /\ answer' \in {200, 404, 405, 500, NULL}
        /\ answer' \in {404, 500} => logged'
    BY <1>1, <2>1 DEF IInv, CodesOK, ErrorsLogged
  <2> QED BY <1>2, <2>1, <2>2 DEF Turn
<1> QED BY <1>3, <1>4

LEMMA PollingThreadInv ==
  ASSUME IInv, PollingThread
  PROVE  IInv'
<1>1. Turn
  BY HandleRequestTurn, NextFolderTurn, TrySiblingTurn, RoutedTurn, LastTurns
     DEF PollingThread, Callback
<1>2. thread \notin {"none", "stopped"}
  BY DEF PollingThread, Callback, HandleRequest, NextFolder, TrySibling, Routed,
         RoutineReturns, ThreadEnds
<1>3. main \in {"getchar", "MHD_stop_daemon"}
  BY <1>2 DEF IInv, PlacesOK
<1> QED BY <1>1, <1>3, TurnInv DEF PollingThread

-----------------------------------------------------------------------------
LEMMA NextInv ==
  ASSUME IInv, [Next]_vars
  PROVE  IInv'
<1>1. CASE Step(Main)
  BY <1>1, ReadConfigInv, RefusedInv, PrintInv, StartDaemonInv, StopDaemonInv,
     ConfigDestroyInv, ConfigFreeInv DEF Step, Main
<1>2. CASE Step(getchar)
  BY <1>2, GetcharInv DEF Step
<1>3. CASE Step(PollingThread)
  BY <1>3, PollingThreadInv DEF Step
<1>4. CASE UNCHANGED vars
  <2>1. UNCHANGED <<config_vars, process, polling, crash>>
    BY <1>4 DEF vars
  <2>2. /\ UNCHANGED <<home, reading, current, heap, first_url_config>>
        /\ UNCHANGED <<main, exit_code, libconfig_storage, crash>>
        /\ UNCHANGED <<thread, base_url_config, answer, logged>>
    BY <2>1 DEF config_vars, reader, tree, process, polling, walk
  <2>3. MemInv'
    BY <2>1, UnchangedKeepsMem DEF IInv
  <2>4. CodesOK' /\ MainInv'
    <3>1. CodesOK' BY <2>2 DEF IInv, CodesOK
    <3>2. MainInv' BY <2>2 DEF IInv, MainInv
    <3> QED BY <3>1, <3>2
  <2>5. PlacesOK'
    BY <2>2 DEF IInv, PlacesOK
  <2>6. RoutingMemoryAlive' /\ ErrorsLogged'
    BY <2>2 DEF IInv, RoutingMemoryAlive, ErrorsLogged
  <2> QED BY <2>3, <2>4, <2>5, <2>6 DEF IInv
<1> QED BY <1>1, <1>2, <1>3, <1>4 DEF Next

(* An allocation that fails while a request is routed is counted.          *)
LEMMA FailuresCounted ==
  ASSUME [Next]_vars
  PROVE  UNCHANGED routing_failures \/ RoutingAllocFails
<1>1. CASE Step(Main) \/ Step(getchar) \/ UNCHANGED vars
  BY <1>1 DEF Step, Main, getchar, vars
<1>2. CASE PollingThread
  BY <1>2 DEF PollingThread, Callback, HandleRequest, NextFolder, TrySibling,
              Routed, RoutineReturns, ThreadEnds, fatal, bad_alloc, AllocOK
<1> QED BY <1>1, <1>2 DEF Next, Step

(* Their number stays below its bound. *)
LEMMA FailuresNext ==
  ASSUME FailuresOK, [Next]_vars
  PROVE  FailuresOK'
<1>1. UNCHANGED routing_failures \/ RoutingAllocFails
  BY FailuresCounted
<1> QED BY <1>1, ConfigAssumption DEF FailuresOK, RoutingAllocFails

(* FailuresOK holds in every state. *)
THEOREM FailuresInvariance == Spec => []FailuresOK
<1>1. Init => FailuresOK
  BY ConfigAssumption DEF Init, FailuresOK
<1>2. FailuresOK /\ [Next]_vars => FailuresOK'
  BY FailuresNext
<1> QED BY <1>1, <1>2, PTL DEF Spec

(* IInv holds in every state.                                              *)
THEOREM Invariance == Spec => []IInv
BY InitInv, NextInv, PTL DEF Spec

(* The variables of the reader, of main and of the polling thread have     *)
(* their values, and each is where it may be while the other is at a place *)
(* of its own (pick_httpd_server.cpp).                                     *)
THEOREM ServerTypes == Spec => []TypeOK
BY Invariance, FailuresInvariance, IInvTypeOK, PTL

(* Faults and failing allocations included, no pointer leads to a node     *)
(* free_url_config has freed (pick_httpd_server_config.cpp).               *)
THEOREM ServerPointersAlive == Spec => []PointersAlive
<1>1. IInv => PointersAlive
  BY DEF IInv, MemInv, GraphInv
<1> QED BY <1>1, Invariance, PTL

(* No node is held by two pointers, so that free_url_config and            *)
(* phs_config_free free none twice (pick_httpd_server_config.cpp).         *)
THEOREM ServerHeldOnce == Spec => []HeldOnce
<1>1. IInv => HeldOnce
  BY DEF IInv, MemInv, GraphInv
<1> QED BY <1>1, Invariance, PTL

(* No node, pattern or array of the configuration is ever out of reach of  *)
(* the code that will free it.                                             *)
THEOREM ServerNothingLost == Spec => []NothingLost
<1>1. IInv => NothingLost
  BY MemNothingLost DEF IInv
<1> QED BY <1>1, Invariance, PTL

(* The polling thread never reads a node or a string that main has freed:  *)
(* MHD_stop_daemon comes before the two releases.                          *)
THEOREM ServerRoutingMemoryAlive == Spec => []RoutingMemoryAlive
<1>1. IInv => RoutingMemoryAlive
  BY DEF IInv
<1> QED BY <1>1, Invariance, PTL

(* Whichever way main returns, everything the reader allocated is freed.   *)
THEOREM ServerReleasedAtExit == Spec => []ReleasedAtExit
<1>1. ASSUME IInv, main = "exited"
      PROVE  /\ \A a \in Addr : heap[a] = NULL
             /\ blocks = {} /\ first_url_config = NULL
             /\ libconfig_storage <=> exit_code = 1
             /\ thread = (IF exit_code = 0 THEN "stopped" ELSE "none")
             /\ exit_code = 2 <=> reading = "refused"
  <2>1. /\ exit_code # NULL /\ first_url_config = NULL /\ current = NULL
        /\ libconfig_storage <=> exit_code = 1
        /\ reading = (IF exit_code = 2 THEN "refused" ELSE "accepted")
        /\ exit_code = 0 => thread = "stopped"
        /\ exit_code \in {1, 2} => thread = "none"
    BY <1>1 DEF IInv, MainInv
  <2>2. exit_code \in {0, 1, 2}
    BY <1>1, <2>1 DEF IInv, CodesOK
  <2>3. (\A a \in Addr : heap[a] = NULL) /\ blocks = {}
    BY <1>1, <2>1, MemEmpty DEF IInv
  <2> QED BY <2>1, <2>2, <2>3
<1>2. IInv => ReleasedAtExit
  BY <1>1 DEF ReleasedAtExit
<1> QED BY <1>2, Invariance, PTL

(* An error of the routing is answered only after it was logged.           *)
THEOREM ServerErrorsLogged == Spec => []ErrorsLogged
<1>1. IInv => ErrorsLogged
  BY DEF IInv
<1> QED BY <1>1, Invariance, PTL

-----------------------------------------------------------------------------
(* What terminates the process.                                            *)

(* A file whose url list has been read, even in part, has a list, and its  *)
(* first entry is in the tree until main begins to free it.                *)
UrlsReadInv ==
  /\ reading = "settings" => urls_read = 0
  /\ reading \in {"urls", "accepted"} => file.url.kind = "list"
  /\ main = "phs_config_read" /\ reading \in {"urls", "accepted"} =>
       first_url_config # NULL \/ current # NULL \/ urls_read = 0
  /\ reading = "accepted" =>
       current = NULL /\ urls_read = Len(file.url.elems)

(* A request that is being routed is not answered.                         *)
UnansweredInv ==
  /\ thread \in {"while", "for"} => status = "walking"
  /\ thread = "routine" => status # "walking"
  /\ status = "walking" => answer = NULL

CrashInv == CrashExplained /\ UrlsReadInv /\ UnansweredInv

LEMMA UrlsReadKept ==
  ASSUME IInv, UrlsReadInv, phs_config_read, UNCHANGED main
  PROVE  UrlsReadInv'
<1>1. NULL \notin Addr
  BY ConfigAssumption
<1>2. CASE ReadSettings
  <2>1. /\ reading' \in {"urls", "refused", "thrown"}
        /\ urls_read' = urls_read /\ file' = file
        /\ reading' = "urls" => file.url.kind = "list"
    BY <1>2 DEF ReadSettings, settings_ok
  <2>2. urls_read = 0
    BY <1>2 DEF UrlsReadInv, ReadSettings
  <2> QED BY <2>1, <2>2 DEF UrlsReadInv
<1>3. CASE ReadUrl
  BY <1>1, <1>3 DEF UrlsReadInv, ReadUrl, enter_read_url_config
<1>4. CASE ReadAll
  BY <1>1, <1>4 DEF UrlsReadInv, ReadAll, tree
<1>5. CASE ReadSubPath
  BY <1>1, <1>5 DEF UrlsReadInv, ReadSubPath, enter_read_url_config
<1>6. CASE ReturnToSubPath
  BY <1>1, <1>6 DEF UrlsReadInv, ReturnToSubPath, AtEnd
<1>7. CASE ReturnToUrl
  BY <1>1, <1>7 DEF UrlsReadInv, ReturnToUrl, AtEnd
<1>8. CASE ReturnNull
  BY <1>1, <1>8 DEF UrlsReadInv, ReturnNull, note_error, AtEnd
<1> QED BY <1>2, <1>3, <1>4, <1>5, <1>6, <1>7, <1>8 DEF phs_config_read

(* The exception of a std::string leaves phs_config_read before an entry   *)
(* is read.                                                                *)
LEMMA ThrownBeforeUrls ==
  ASSUME IInv, UrlsReadInv, phs_config_read, reading' = "thrown"
  PROVE  /\ alloc_failures' > 0 /\ urls_read' = 0
         /\ file'.account = "name"
<1>1. current # NULL => reading = "urls"
  BY DEF IInv, MemInv, ReadingUrls
<1>2. ReadSettings
  <2>1. ReadUrl \/ ReadAll => reading' \in {"urls", "accepted", "refused"}
    BY DEF ReadUrl, ReadAll
  <2>2. ReadSubPath \/ ReturnToSubPath \/ ReturnToUrl => reading' = "urls"
    BY <1>1 DEF ReadSubPath, ReturnToSubPath, ReturnToUrl, AtEnd
  <2>3. ReturnNull => reading' \in {"urls", "refused"}
    BY <1>1 DEF ReturnNull, AtEnd, note_error
  <2> QED BY <2>1, <2>2, <2>3 DEF phs_config_read
<1>3. /\ reading = "settings" /\ account_read /\ AllocFails
      /\ UNCHANGED <<file, urls_read>>
  BY <1>2 DEF ReadSettings
<1>4. urls_read' = 0 /\ file'.account = "name"
  BY <1>3 DEF UrlsReadInv, account_read
<1>5. alloc_failures' > 0
  <2>1. alloc_failures \in 0..MaxAllocFailures
    BY DEF IInv, MemInv, ConfigTypeOK
  <2> QED BY <1>3, <2>1, ConfigAssumption DEF AllocFails
<1> QED BY <1>4, <1>5

LEMMA CrashInvReads ==
  ASSUME IInv, CrashInv, ReadConfig, crash = "no"
  PROVE  CrashInv'
<1>1. /\ phs_config_read
      /\ UNCHANGED <<main, thread, status, answer>>
      /\ crash' = IF reading' = "thrown" THEN "bad_alloc" ELSE "no"
  BY DEF ReadConfig, process, polling, walk
<1>2. UrlsReadInv'
  BY <1>1, UrlsReadKept DEF CrashInv
<1>3. UnansweredInv'
  BY <1>1 DEF CrashInv, UnansweredInv
<1>4. CrashExplained'
  <2>1. CASE reading' = "thrown"
    <3>1. /\ alloc_failures' > 0 /\ urls_read' = 0
          /\ file'.account = "name"
      BY <1>1, <2>1, ThrownBeforeUrls DEF CrashInv
    <3> QED BY <1>1, <2>1, <3>1 DEF CrashExplained
  <2>2. CASE reading' # "thrown"
    BY <1>1, <2>2 DEF CrashExplained
  <2> QED BY <2>1, <2>2
<1> QED BY <1>2, <1>3, <1>4 DEF CrashInv

LEMMA CrashInvPrint ==
  ASSUME IInv, CrashInv, print_first_config, crash = "no"
  PROVE  CrashInv'
<1>1. /\ main = "phs_config_read" /\ reading = "accepted"
      /\ UNCHANGED <<file, reading, urls_read, current, first_url_config>>
      /\ UNCHANGED <<thread, status, answer>>
      /\ crash' = (IF first_url_config = NULL THEN "no first entry" ELSE "no")
  BY DEF print_first_config, config_vars, reader, tree, polling, walk
<1>2. ASSUME first_url_config = NULL
      PROVE  file.url = [kind |-> "list", elems |-> <<>>]
  <2>1. /\ file.url.kind = "list" /\ Len(file.url.elems) = 0
    BY <1>1, <1>2 DEF CrashInv, UrlsReadInv
  <2>2. file.url \in Member(Setting)
    BY ConfigAssumption DEF IInv, MemInv, ConfigTypeOK, File
  <2> QED BY <2>1, <2>2 DEF Member
<1>3. UrlsReadInv' /\ UnansweredInv'
  BY <1>1 DEF CrashInv, UrlsReadInv, UnansweredInv
<1>4. CrashExplained'
  BY <1>1, <1>2 DEF CrashExplained
<1> QED BY <1>3, <1>4 DEF CrashInv

(* A step of main outside of phs_config_read.                              *)
LEMMA CrashInvOthers ==
  ASSUME CrashInv, UNCHANGED <<file, reading, urls_read, current, crash>>,
         main' # "phs_config_read", crash = "no",
         UNCHANGED <<status, answer>>,
         thread' \in {thread, "idle"}
  PROVE  CrashInv'
<1>1. UrlsReadInv' /\ UnansweredInv'
  BY DEF CrashInv, UrlsReadInv, UnansweredInv
<1>2. CrashExplained'
  BY DEF CrashExplained
<1> QED BY <1>1, <1>2 DEF CrashInv

(* A routing that is answered, or goes on.                                 *)
Goes ==
  \/ thread' = "idle" /\ status' # "walking"
  \/ /\ thread' \in {"while", "for", "stopped"} /\ UNCHANGED <<status, answer>>
     /\ thread' # "stopped" => status = "walking"
  \/ thread' = "routine" /\ status' # "walking"

(* A routing that terminates the process, its request not answered.        *)
Terminates ==
  /\ status = "walking" /\ UNCHANGED polling
  /\ \/ crash' = "bad_alloc" /\ RoutingAllocFails
     \/ crash' = "log" /\ home /\ ~log_writable

LEMMA LoggedGoes ==
  ASSUME status = "walking", crash = "no",
         NEW value, value # "walking", NEW code, log_fatal(Return(value, code))
  PROVE  Terminates \/ (Goes /\ crash' = "no")
BY DEF log_fatal, Return, Goes, Terminates, written, rootLogger

LEMMA BadAllocGoes ==
  ASSUME status = "walking", bad_alloc
  PROVE  Terminates
BY DEF bad_alloc, Terminates

LEMMA ThreadGoes ==
  ASSUME UnansweredInv, PollingThread, crash = "no"
  PROVE  Terminates \/ (Goes /\ crash' = "no")
<1>1. CASE HandleRequest
  <2>1. status = "walking"
    BY <1>1 DEF HandleRequest
  <2>2. CASE log_fatal(Return("404", 404)) \/ bad_alloc
    BY <2>1, <2>2, LoggedGoes, BadAllocGoes
  <2>3. CASE thread' = "while" /\ UNCHANGED <<status, answer, crash>>
    BY <2>1, <2>3 DEF Goes
  <2> QED BY <1>1, <2>2, <2>3 DEF HandleRequest, fatal
<1>2. CASE NextFolder
  <2>1. status = "walking"
    BY <1>2 DEF NextFolder, UnansweredInv
  <2>2. CASE log_fatal(Return("500", 500)) \/ bad_alloc
    BY <2>1, <2>2, LoggedGoes, BadAllocGoes
  <2>3. CASE thread' = "for" /\ UNCHANGED <<walk, answer, logged, crash>>
    BY <2>1, <2>3 DEF Goes, walk
  <2> QED BY <1>2, <2>2, <2>3 DEF NextFolder
<1>3. CASE TrySibling
  <2>1. status = "walking" /\ thread = "for"
    BY <1>3 DEF TrySibling, UnansweredInv
  <2>2. CASE log_fatal(Return("404", 404)) \/ bad_alloc
    BY <2>1, <2>2, LoggedGoes, BadAllocGoes
  <2>3. CASE thread' \in {thread, "while"} /\ UNCHANGED <<status, answer, crash>>
    BY <2>1, <2>3 DEF Goes
  <2> QED BY <1>3, <2>2, <2>3 DEF TrySibling, fatal
<1>4. CASE Routed
  <2>1. status = "walking"
    BY <1>4 DEF Routed, UnansweredInv
  <2>2. CASE log_fatal(Return("404", 404)) \/ bad_alloc
    BY <2>1, <2>2, LoggedGoes, BadAllocGoes
  <2>3. CASE Return("0", 405) /\ UNCHANGED <<logged, crash>>
    BY <2>3 DEF Goes, Return
  <2>4. CASE status' = "0" /\ thread' = "routine" /\ UNCHANGED crash
    BY <2>4 DEF Goes
  <2> QED BY <1>4, <2>2, <2>3, <2>4 DEF Routed, fatal
<1>5. CASE RoutineReturns
  <2>1. thread' = "idle" /\ status' # "walking" /\ crash' = crash
    BY <1>5 DEF RoutineReturns, UnansweredInv, walk
  <2> QED BY <2>1 DEF Goes
<1>6. CASE ThreadEnds
  BY <1>6 DEF ThreadEnds, Goes, walk
<1> QED BY <1>1, <1>2, <1>3, <1>4, <1>5, <1>6 DEF PollingThread, Callback

LEMMA CrashInvThread ==
  ASSUME CrashInv, FailuresOK, PollingThread, crash = "no",
         UNCHANGED log_writable
  PROVE  CrashInv'
<1>1. /\ UNCHANGED <<file, home, reading, urls_read, current, log_writable>>
      /\ UNCHANGED <<main, first_url_config>>
  BY DEF PollingThread, config_vars, reader, tree, process
<1>2. UrlsReadInv'
  BY <1>1 DEF CrashInv, UrlsReadInv
<1>3. CASE Goes /\ crash' = "no"
  <2>1. UnansweredInv'
    BY <1>3 DEF Goes, CrashInv, UnansweredInv
  <2>2. CrashExplained'
    BY <1>3 DEF CrashExplained
  <2> QED BY <1>2, <2>1, <2>2 DEF CrashInv
<1>4. CASE Terminates
  <2>1. UNCHANGED <<thread, status, answer>> /\ status = "walking"
    BY <1>4 DEF Terminates, polling, walk
  <2>2. UnansweredInv' /\ answer' = NULL
    BY <2>1 DEF CrashInv, UnansweredInv
  <2>3. crash' = "bad_alloc" => routing_failures' > 0
    BY <1>4, ConfigAssumption DEF Terminates, RoutingAllocFails, FailuresOK
  <2>4. /\ crash' \in {"bad_alloc", "log"}
        /\ crash' = "log" => home' /\ ~log_writable'
    BY <1>1, <1>4 DEF Terminates
  <2>5. CrashExplained'
    BY <2>1, <2>2, <2>3, <2>4 DEF CrashExplained
  <2> QED BY <1>2, <2>2, <2>5 DEF CrashInv
<1> QED BY <1>3, <1>4, ThreadGoes DEF CrashInv

LEMMA CrashInvMain ==
  ASSUME IInv, CrashInv, Main, crash = "no"
  PROVE  CrashInv'
<1>1. CASE ReadConfig
  BY <1>1, CrashInvReads
<1>2. CASE print_first_config
  BY <1>2, CrashInvPrint
<1>3. CASE phs_config_free
  <2>1. /\ UNCHANGED <<file, reading, urls_read, current, crash>>
        /\ UNCHANGED <<thread, status, answer>>
        /\ main' # "phs_config_read"
    BY <1>3 DEF phs_config_free, reader, polling, walk
  <2> QED BY <2>1, CrashInvOthers
<1>4. CASE Refused \/ StartDaemon \/ StopDaemon \/ config_destroy
  <2>1. /\ UNCHANGED <<file, reading, urls_read, current, crash>>
        /\ UNCHANGED <<status, answer>>
        /\ thread' \in {thread, "idle"}
        /\ main' # "phs_config_read"
    BY <1>4 DEF Refused, after_refusal, StartDaemon, StopDaemon,
                config_destroy, config_vars, reader, polling, walk
  <2> QED BY <2>1, CrashInvOthers
<1> QED BY <1>1, <1>2, <1>3, <1>4 DEF Main

LEMMA CrashInvNext ==
  ASSUME IInv, FailuresOK, CrashInv, [Next]_vars
  PROVE  CrashInv'
<1>1. CASE Step(Main)
  BY <1>1, CrashInvMain DEF Step
<1>2. CASE Step(PollingThread)
  BY <1>2, CrashInvThread DEF Step
<1>3. CASE Step(getchar)
  <2>1. /\ UNCHANGED <<file, reading, urls_read, current, crash>>
        /\ UNCHANGED <<thread, status, answer>>
        /\ crash = "no" /\ main' # "phs_config_read"
    BY <1>3 DEF Step, getchar, config_vars, reader, polling, walk
  <2> QED BY <2>1, CrashInvOthers
<1>4. CASE UNCHANGED vars
  <2>1. /\ UNCHANGED <<file, home, reading, urls_read, current, main>>
        /\ UNCHANGED <<first_url_config, alloc_failures, routing_failures>>
        /\ UNCHANGED <<crash, log_writable, thread, status, answer>>
    BY <1>4 DEF vars, config_vars, reader, tree, process, polling, walk
  <2>2. UrlsReadInv' /\ UnansweredInv'
    BY <2>1 DEF CrashInv, UrlsReadInv, UnansweredInv
  <2>3. CrashExplained'
    BY <2>1 DEF CrashInv, CrashExplained
  <2> QED BY <2>2, <2>3 DEF CrashInv
<1> QED BY <1>1, <1>2, <1>3, <1>4 DEF Next

(* CrashInv holds in every state. *)
THEOREM CrashInvariance == Spec => []CrashInv
<1>1. Init => CrashInv
  BY DEF Init, ConfigInit, CrashInv, UrlsReadInv, UnansweredInv, CrashExplained
<1>2. IInv /\ FailuresOK /\ CrashInv /\ [Next]_vars => CrashInv'
  BY CrashInvNext
<1> QED BY <1>1, <1>2, Invariance, FailuresInvariance, PTL DEF Spec

(* What terminates the server: an accepted file with an empty list of urls *)
(* when it is printed, an error of the routing when the log cannot be      *)
(* opened, and an allocation that fails in phs_config_read, once the       *)
(* account is named and before an entry of url is read, or in the routing  *)
(* of a request that is not yet answered. A failing allocation in          *)
(* read_url_config does not.                                               *)
THEOREM ServerCrashExplained == Spec => []CrashExplained
<1>1. CrashInv => CrashExplained
  BY DEF CrashInv
<1> QED BY <1>1, CrashInvariance, PTL
=============================================================================
