----------------------------- MODULE UpdateServer -----------------------------
(***************************************************************************)
(* eos-update-server: the process that serves the local OSTree repositories   *)
(* to other computers while they ask, and exits when they no longer do.       *)
(* eos-update-server.c has its start, its options and its timeouts, server.c   *)
(* counts the requests, repo.c answers them and streams file objects.         *)
(*                                                                         *)
(* libsoup, which reads requests and writes responses, and systemd, which     *)
(* holds the listening socket and starts the process when a client connects,   *)
(* are modelled by what this code relies on.  One main loop runs everything:   *)
(* the steps are its callbacks.                                             *)
(***************************************************************************)
EXTENDS RepoFiles, Integers, FiniteSets

CONSTANTS
    Worlds,          \* what is considered together: [paths, files, setups]
    MaxChunks,       \* bound: reads it takes to stream a file object
    Second,          \* microseconds in a second
    IntBits,         \* width of gint
    QuitFileSeconds, \* timeout_data_maybe_setup_quit_file's timeout_seconds
    Horizon          \* bound: seconds told apart

ASSUME BoundsAssumption ==
    /\ MaxChunks \in Nat \ {0} /\ Second \in Nat \ {0} /\ IntBits \in Nat \ {0}
    /\ QuitFileSeconds \in Nat \ {0} /\ Horizon \in Nat /\ QuitFileSeconds < Horizon
    /\ \A w \in Worlds : \A s \in w.setups : s.timeout \in Int /\ s.timeout < Horizon

VARIABLES
    world,           \* what each client asks for, one request at a time; what may
                     \* be in the repository; the options, configuration and
                     \* surroundings of a start
    process,         \* "down", "serving" or "crashed"
    setup,           \* what it was started with
    status,          \* the exit status of its last run
    pending_requests, \* EusServer's fields of these names, the time as the
    last_request_time, \* seconds since; Horizon if there was no request
    timer,           \* seconds since the timeout was set up
    quitFile,        \* Unused, Watched, or the seconds since the last check
    connected,       \* the repositories are connected to the server
    files,           \* what is in the repository
    request,         \* what each client's connection is at
    quiet,           \* seconds since a request was read or ended, Horizon if never
    unread           \* requests libsoup gave up before it had read them (history)

vars == <<world, process, setup, status, pending_requests, last_request_time, timer,
          quitFile, connected, files, request, quiet, unread>>

counters == <<pending_requests, last_request_time, quiet>>
timers == <<timer, quitFile>>
start == <<world, setup, status>>
run == <<start, process, unread>>

Clients == UNION {DOMAIN w.paths : w \in Worlds}

ASSUME ClientsAssumption == IsFiniteSet(Clients)

-----------------------------------------------------------------------------

Unused == -2
Watched == -1

Phases == {"none", "accepted", "read", "finished", "aborted", "dropped"}

(* A connection with its message: the status the code set, how much of the    *)
(* body it has appended, whether that is complete, whether the message is      *)
(* paused; the file's reads still to come, whether one is in flight, whether    *)
(* one failed; and what was written: the status and how much of the body.      *)
NoRequest == [phase |-> "none", path |-> Nothing, status |-> 0, body |-> 0,
              complete |-> FALSE, paused |-> FALSE, left |-> 0, reading |-> FALSE,
              failed |-> FALSE, sentStatus |-> 0, sent |-> 0]

ReadRequests == {c \in Clients : request[c].phase = "read"}

Older(age) == IF age < Horizon THEN age + 1 ELSE Horizon

Signed(n) == ((n + 2^(IntBits - 1)) % 2^IntBits) - 2^(IntBits - 1)

-----------------------------------------------------------------------------
(* main.                                                                   *)

(* The prefixes the repositories are served at: index 0 also without one, and  *)
(* the default repository as index 0 if none is configured.                  *)
RootPaths(s) == IF s.repositories \in {{}, {0}} THEN {"", "/0"}
                ELSE IF 0 \in s.repositories THEN {"", "/0", "/1"}
                ELSE {"/1"}

(* Why main returns before it runs the main loop, or nothing if it runs it.   *)
ExitStatus(s) ==
    CASE s.local_port = "zero" -> {2}
      [] s.config = "unreadable" -> {3}
      [] s.config = "disabled" -> {4}
      [] ~(s.repositories_open /\ s.timeouts_set_up) -> {1}
      [] ~s.listening -> {5}
      [] OTHER -> {}

(* systemd starts the process for a connection; whether that is right is up to  *)
(* the setup.  A new process knows nothing of the last one.                   *)
Start ==
    /\ process # "serving"
    /\ setup' \in world.setups
    /\ IF ExitStatus(setup') = {}
       THEN /\ process' = "serving"
            /\ pending_requests' = 0
            /\ last_request_time' = Horizon
            /\ quiet' = Horizon
            /\ unread' = 0
            /\ timer' = 0
            /\ quitFile' = IF setup'.quit_file THEN Watched ELSE Unused
            /\ connected' = TRUE
            /\ request' = [c \in Clients |-> NoRequest]
            /\ UNCHANGED status
       ELSE /\ process' = "down"
            /\ status' \in ExitStatus(setup')
            /\ UNCHANGED <<counters, timers, connected, request, unread>>
    /\ UNCHANGED <<world, files>>

-----------------------------------------------------------------------------
(* EusServer.                                                              *)

(* Mutant: the time is taken when a request begins only.                    *)
UpdateAtReadOnly(increment) ==
    /\ pending_requests' = pending_requests + (IF increment THEN 1 ELSE -1)
    /\ last_request_time' = IF increment THEN 0 ELSE last_request_time
    /\ quiet' = 0

update_pending_requests(increment) ==
    /\ pending_requests' = pending_requests + (IF increment THEN 1 ELSE -1)
    /\ last_request_time' = 0
    /\ quiet' = 0

(* What the end of a message leaves: filez_read_data_finished_cb forgets it.    *)
Ended(r, phase) == [r EXCEPT !.phase = phase]

(* Connections go with the process, read or not.                             *)
Dropped == [c \in Clients |->
               IF request[c].phase \in {"accepted", "read"}
               THEN Ended(request[c], "dropped")
               ELSE [request[c] EXCEPT !.reading = FALSE]]

(* A request ends and is counted down; the assertion of update_pending_requests *)
(* ends the process if none is pending.                                     *)
CountDown(ended) ==
    \/ /\ pending_requests > 0
       /\ update_pending_requests(FALSE)
       /\ request' = ended
       /\ UNCHANGED process
    \/ /\ pending_requests = 0
       /\ process' = "crashed"
       /\ request' = Dropped
       /\ UNCHANGED counters

(* A client connects, and libsoup begins to read its request.  A read that is   *)
(* still in flight for a message that has ended has forgotten the message       *)
(* (filez_read_data_finished_cb), does nothing, and is followed no longer.      *)
Connect(c) ==
    /\ process = "serving" /\ c \in DOMAIN world.paths
    /\ request[c].phase \in {"none", "finished", "aborted"}
    /\ request' = [request EXCEPT ![c] = [NoRequest EXCEPT !.phase = "accepted"]]
    /\ UNCHANGED <<run, counters, timers, connected, files>>

(* server_cb: the answers to a path.  A disconnected repository has no handler, *)
(* nor has a prefix where none is.                                          *)
server_cb(path) ==
    IF ~connected \/ path.root \notin RootPaths(setup) THEN {Answer(NotFound)}
    ELSE handle_path(files, path)

(* The message after handle_path: a stream is paused with a first read begun,  *)
(* anything else is a complete body of one piece, or none.                   *)
Answered(path, answer, chunks) ==
    IF IsStream(answer)
    THEN [NoRequest EXCEPT !.phase = "read", !.path = path, !.status = answer.status,
                           !.paused = TRUE, !.left = chunks, !.reading = TRUE]
    ELSE [NoRequest EXCEPT !.phase = "read", !.path = path, !.status = answer.status,
                           !.complete = TRUE, !.body = IF answer.body = Nothing THEN 0 ELSE 1]

(* request_read_cb, and the handler libsoup calls next.                      *)
RequestRead(c) ==
    /\ process = "serving"
    /\ request[c].phase = "accepted"
    /\ update_pending_requests(TRUE)
    /\ \E path \in world.paths[c] :
          \E answer \in server_cb(path), chunks \in 1..MaxChunks :
             /\ request' = [request EXCEPT ![c] = Answered(path, answer, chunks)]
             /\ files' = IF /\ path.kind = "summary" /\ connected
                            /\ path.root \in RootPaths(setup) /\ answer.status # NotFound
                         THEN files \cup {Summary} ELSE files
    /\ UNCHANGED <<run, timers, connected>>

(* Mutant: an aborted request stays pending.                               *)
AbortForgotten(c) ==
    /\ process = "serving"
    /\ request[c].phase = "read"
    /\ request' = [request EXCEPT ![c] = Ended(@, "aborted")]
    /\ UNCHANGED <<run, counters, timers, connected, files>>

(* request_aborted_cb: the client goes before its response is written.        *)
RequestAborted(c) ==
    /\ process = "serving"
    /\ request[c].phase = "read"
    /\ CountDown([request EXCEPT ![c] = Ended(@, "aborted")])
    /\ UNCHANGED <<start, unread, timers, connected, files>>

(* request_aborted_cb for a request that was never read, and never counted.    *)
UnreadAborted(c) ==
    /\ process = "serving"
    /\ request[c].phase = "accepted"
    /\ unread' = unread + 1
    /\ CountDown([request EXCEPT ![c] = Ended(@, "aborted")])
    /\ UNCHANGED <<start, timers, connected, files>>

(* libsoup writes what there is of a response.  Having written the whole of a   *)
(* complete one it reports the request finished: request_finished_cb; else it   *)
(* waits for more.  The status goes out with the first bytes.                 *)
Write(c) ==
    /\ process = "serving"
    /\ request[c].phase = "read" /\ ~request[c].paused
    /\ LET r == request[c]
           written == [r EXCEPT !.sent = r.body,
                                !.sentStatus = IF @ = 0 THEN r.status ELSE @]
       IN  IF r.complete
           THEN CountDown([request EXCEPT ![c] = Ended(written, "finished")])
           ELSE /\ request' = [request EXCEPT ![c] = [written EXCEPT !.paused = TRUE]]
                /\ UNCHANGED <<counters, process>>
    /\ UNCHANGED <<start, unread, timers, connected, files>>

-----------------------------------------------------------------------------
(* filez_stream_read_chunk_cb.                                             *)

(* The read failed: disconnecting the repository cancels it.                *)
FailStream(r) ==
    [r EXCEPT !.status = InternalServerError, !.complete = TRUE, !.paused = FALSE,
              !.reading = FALSE, !.failed = TRUE]

(* Mutant: the buffer is taken to hold the whole file after one read.         *)
OneReadSuffices(r) ==
    [r EXCEPT !.body = @ + 1, !.left = @ - 1, !.paused = FALSE,
              !.complete = TRUE, !.reading = FALSE]

(* A chunk was read: it is appended and the next read begins.                *)
AppendChunk(r) ==
    [r EXCEPT !.body = @ + 1, !.left = @ - 1, !.paused = FALSE]

CompleteStream(r) ==
    [r EXCEPT !.complete = TRUE, !.paused = FALSE, !.reading = FALSE]

filez_stream_read_chunk_cb(c) ==
    /\ process = "serving"
    /\ request[c].reading
    /\ \/ /\ request[c].phase # "read"
          /\ request' = [request EXCEPT ![c].reading = FALSE]
       \/ /\ request[c].phase = "read"
          /\ request' = [request EXCEPT ![c] = FailStream(@)]
       \/ /\ request[c].phase = "read" /\ connected /\ request[c].left > 0
          /\ request' = [request EXCEPT ![c] = AppendChunk(@)]
       \/ /\ request[c].phase = "read" /\ connected /\ request[c].left = 0
          /\ request' = [request EXCEPT ![c] = CompleteStream(@)]
    /\ UNCHANGED <<run, counters, timers, connected, files>>

-----------------------------------------------------------------------------
(* Timeouts.                                                               *)

(* 1000 * 1000 * seconds in a gint: what does not fit is undefined, and a      *)
(* build may wrap it or compute it exactly.                                  *)
Microseconds(seconds) == {Signed(Second * seconds), Second * seconds}

(* What no_requests_timeout may return.                                     *)
no_requests_timeout(seconds) ==
    {pending_requests = 0 /\ last_request_time * Second > limit :
        limit \in Microseconds(seconds)}

(* The main loop ends and main returns.                                     *)
Quit ==
    /\ process' = "down"
    /\ status' = 0
    /\ request' = Dropped

(* Mutant: the timeout is not set up again.                                 *)
TimeoutOnce ==
    /\ process = "serving"
    /\ setup.timeout > 0 /\ timer = setup.timeout
    /\ \E passed \in no_requests_timeout(setup.timeout) :
          \/ ~passed /\ timer' = setup.timeout + 1 /\ UNCHANGED <<process, status, request>>
          \/ passed /\ Quit /\ UNCHANGED timer
    /\ UNCHANGED <<world, setup, unread, counters, quitFile, connected, files>>

timeout_cb ==
    /\ process = "serving"
    /\ setup.timeout > 0 /\ timer = setup.timeout
    /\ \E passed \in no_requests_timeout(setup.timeout) :
          \/ ~passed /\ timer' = 0 /\ UNCHANGED <<process, status, request>>
          \/ passed /\ Quit /\ UNCHANGED timer
    /\ UNCHANGED <<world, setup, unread, counters, quitFile, connected, files>>

(* The quit file is deleted, or it was and the time to check again has come.   *)
check_and_quit ==
    /\ process = "serving"
    /\ quitFile \in {Watched, QuitFileSeconds}
    /\ \E passed \in no_requests_timeout(QuitFileSeconds) :
          \/ ~passed /\ quitFile' = 0 /\ UNCHANGED <<process, status, request>>
          \/ passed /\ Quit /\ quitFile' = Unused
    /\ UNCHANGED <<world, setup, unread, counters, timer, connected, files>>

(* A second passes; sources that are ready are dispatched before.            *)
Tick ==
    /\ process = "serving"
    /\ setup.timeout > 0 => timer # setup.timeout
    /\ quitFile # QuitFileSeconds
    /\ last_request_time' = Older(last_request_time)
    /\ quiet' = Older(quiet)
    /\ timer' = IF setup.timeout > 0 /\ timer < setup.timeout THEN timer + 1 ELSE timer
    /\ quitFile' = IF quitFile \in {Unused, Watched} THEN quitFile ELSE quitFile + 1
    /\ UNCHANGED <<run, pending_requests, connected, files, request>>

(* eus_server_disconnect, by a program that embeds the library.              *)
eus_server_disconnect ==
    /\ process = "serving" /\ connected
    /\ connected' = FALSE
    /\ UNCHANGED <<run, counters, timers, files, request>>

(* The updater daemon adds to the repository and prunes it.                  *)
RepositoryChanges(f) ==
    /\ files' = IF f \in files THEN files \ {f} ELSE files \cup {f}
    /\ UNCHANGED <<run, counters, timers, connected, request>>

-----------------------------------------------------------------------------

Init ==
    /\ world \in Worlds
    /\ process = "down" /\ setup \in world.setups /\ status = 0 /\ unread = 0
    /\ pending_requests = 0 /\ last_request_time = Horizon /\ quiet = Horizon
    /\ timer = 0 /\ quitFile = Unused /\ connected = FALSE
    /\ files \in SUBSET world.files
    /\ request = [c \in Clients |-> NoRequest]

Next ==
    \/ Start \/ timeout_cb \/ check_and_quit \/ Tick \/ eus_server_disconnect
    \/ \E c \in Clients :
          \/ Connect(c) \/ RequestRead(c) \/ RequestAborted(c) \/ UnreadAborted(c)
          \/ Write(c) \/ filez_stream_read_chunk_cb(c)
    \/ \E f \in world.files : RepositoryChanges(f)

Spec == Init /\ [][Next]_vars

(* Time passes, and the main loop dispatches what it makes ready; a read that    *)
(* has begun ends.  libsoup writes to a client that reads and gives one up that  *)
(* has gone; the last conjunct assumes that every client does one or the other,  *)
(* which nothing but the client itself ensures: no timeout applies to a request  *)
(* being answered.                                                          *)
Timing == timeout_cb \/ check_and_quit \/ Tick
Answering(c) == filez_stream_read_chunk_cb(c) \/ Write(c)
FairSpec == Spec /\ WF_vars(Timing) /\ \A c \in Clients : WF_vars(Answering(c))

-----------------------------------------------------------------------------
(* Properties.                                                             *)

Requests == [phase : Phases, path : UNION Range(world.paths) \cup {Nothing}, status : Statuses \cup {0},
             body : 0..MaxChunks, complete : BOOLEAN, paused : BOOLEAN,
             left : 0..MaxChunks, reading : BOOLEAN, failed : BOOLEAN,
             sentStatus : Statuses \cup {0}, sent : 0..MaxChunks]

(* Every variable has its type: in particular no request is counted twice.     *)
TypeOK ==
    /\ process \in {"down", "serving", "crashed"} /\ setup \in world.setups
    /\ status \in 0..5
    /\ pending_requests \in 0..Cardinality(Clients)
    /\ last_request_time \in 0..Horizon /\ quiet \in 0..Horizon
    /\ timer \in 0..Horizon /\ quitFile \in {Unused, Watched} \cup 0..QuitFileSeconds
    /\ connected \in BOOLEAN /\ files \subseteq world.files \cup {Summary}
    /\ \A c \in Clients : request[c] \in Requests

(* EusServer:pending-requests is the number of requests read and not answered,  *)
(* whichever way requests end and however they interleave, less the requests     *)
(* that ended unread, which the code counts down though it never counted them.   *)
(* A count that drifts further ends the process under a client, or never.       *)
PendingIsExact ==
    process = "serving" => pending_requests + unread = Cardinality(ReadRequests)

(* Unless the count has drifted, the process does not exit while a request it   *)
(* has read is unanswered; it never does before the timeout, or the one of the   *)
(* quit file, has passed since a request was last read or ended.              *)
QuitOnlyIdle ==
    [][process = "serving" /\ process' = "down" =>
         /\ unread = 0 => ReadRequests = {}
         /\ \/ setup.timeout > 0 /\ quiet > setup.timeout
            \/ setup.quit_file /\ quitFile' # quitFile /\ quiet > QuitFileSeconds]_vars

(* A response that is finished with success, and whose file could be read, is   *)
(* the whole file: the chunks appended while the message was being written are   *)
(* neither dropped nor left behind.                                         *)
WholeUnlessFailed ==
    \A c \in Clients :
        LET r == request[c]
        IN  r.phase = "finished" /\ r.sentStatus = Ok /\ ~r.failed =>
               r.left = 0 /\ r.sent = r.body

(* Once a message has ended, the read still in flight for it changes nothing    *)
(* of it: the client's next request finds the connection as it left it.        *)
NothingAfterEnd ==
    \A c \in Clients :
        request[c].phase \in {"finished", "aborted", "dropped"} =>
           \/ request'[c] \in {NoRequest, [NoRequest EXCEPT !.phase = "accepted"]}
           \/ request'[c] = request[c]
           \/ request'[c] = [request[c] EXCEPT !.reading = FALSE]

(* A mirrored ref that is in no mirror is found if any remote with the          *)
(* collection ID asked for has it, and is never that of another collection.     *)
MirrorsResolve ==
    \A c \in Clients :
        LET r == request'[c]
            has(remote) == <<"remotes", remote, r.path.name>> \in files
            collected == {m \in ToSet(Remotes) : CollectionOf[m] = r.path.collection}
        IN  /\ request[c].phase = "accepted" /\ r.phase = "read"
            /\ r.path.kind = "mirrors" /\ r.path.collection # "" /\ r.path.name # ""
            /\ connected /\ r.path.root \in RootPaths(setup)
            => ((r.status = NotFound) <=>
                  /\ <<"mirrors", r.path.collection, r.path.name>> \notin files
                  /\ \A m \in collected : ~has(m))

(* What a client gets is whole, of the ref it asked for, and no later read       *)
(* reaches into its next response.                                          *)
ResponsesAreRight == [][WholeUnlessFailed' /\ NothingAfterEnd /\ MirrorsResolve]_vars

(* A process that may time out does not stay for ever when it has no request.   *)
IdleQuits ==
    ~<>[](process = "serving" /\ setup.timeout > 0 /\ ReadRequests = {})

(* Every request that is read ends, also when its file cannot be read or the    *)
(* repositories are disconnected while it is streamed.                        *)
RequestsEnd ==
    \A c \in Clients : request[c].phase = "read" ~> request[c].phase # "read"

(* No request keeps the process for ever, and nothing else does.               *)
ServingEnds == RequestsEnd /\ IdleQuits

(* The assertion of update_pending_requests: as many requests end as begin.     *)
AssertionHolds == process # "crashed"

(* eos-update-server(8) of --local-port: 0 asks for a port chosen at random.    *)
PortZeroListens ==
    [][/\ setup' # setup /\ setup'.local_port = "zero" /\ setup'.config = "enabled"
       /\ setup'.repositories_open /\ setup'.timeouts_set_up /\ setup'.listening
       => process' = "serving"]_vars

=============================================================================
