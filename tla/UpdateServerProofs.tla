-------------------------- MODULE UpdateServerProofs --------------------------
(***************************************************************************)
(* Proofs about UpdateServer and ServerConfig, for any finite set of clients,  *)
(* any requests and contents of the repository, any timeouts, any hierarchy of *)
(* configuration files and any order of queries.  Requests are counted         *)
(* exactly, so that the process exits only when it is idle (provided that the  *)
(* timeout fits an int).  A response is followed from one connection: what it  *)
(* promised, what it sent and whether its message has ended.  An answer of the *)
(* configuration is what the first file says among those read so far, which    *)
(* reading more files leaves as it is.                                       *)
(***************************************************************************)
EXTENDS UpdateServer, ServerConfig, FiniteSetTheorems, SequenceTheorems, WellFoundedInduction, TLAPS

\* Every client has a connection, which is in some phase.
Shape ==
    /\ request = [c \in Clients |-> request[c]]
    /\ \A c \in Clients : "phase" \in DOMAIN request[c]

\* Requests are counted while the process serves, and only then.
Counted ==
    process = "serving" =>
       /\ pending_requests \in Nat /\ unread \in Nat
       /\ pending_requests + unread = Cardinality(ReadRequests)

\* What is tested is how long it has been quiet, and by the seconds of the setup.
Measured ==
    /\ world \in Worlds /\ setup \in world.setups
    /\ quiet = last_request_time /\ last_request_time \in Int

IInv == Shape /\ Counted /\ Measured

-----------------------------------------------------------------------------

\* The requests being answered are finitely many.
LEMMA RequestsFinite == IsFiniteSet(ReadRequests) /\ Cardinality(ReadRequests) \in Nat
<1>1. ReadRequests \subseteq Clients
  BY DEF ReadRequests
<1> QED
  BY <1>1, ClientsAssumption, FS_Subset, FS_CardinalityType

\* A connection in which only other fields changed is in the phase it was in.
LEMMA EndedPhase ==
  ASSUME NEW r, "phase" \in DOMAIN r, NEW phase
  PROVE  Ended(r, phase).phase = phase /\ "phase" \in DOMAIN Ended(r, phase)
  BY DEF Ended

\* A step of one connection: the others are as they were.
LEMMA OneConnection ==
  ASSUME Shape, NEW c \in Clients, NEW r, "phase" \in DOMAIN r,
         request' = [request EXCEPT ![c] = r]
  PROVE  /\ Shape'
         /\ r.phase = "read" => ReadRequests' = ReadRequests \cup {c}
         /\ r.phase # "read" => ReadRequests' = ReadRequests \ {c}
<1>1. request'[c] = r /\ \A d \in Clients \ {c} : request'[d] = request[d]
  BY DEF Shape
<1>2. Shape'
  BY <1>1 DEF Shape
<1> QED
  BY <1>1, <1>2 DEF ReadRequests

\* All connections go with the process.
LEMMA DroppedShape ==
  ASSUME Shape, request' = Dropped
  PROVE  Shape'
<1>1. \A c \in Clients : request'[c] = IF request[c].phase \in {"accepted", "read"}
               THEN Ended(request[c], "dropped") ELSE [request[c] EXCEPT !.reading = FALSE]
  BY DEF Dropped
<1>2. ASSUME NEW c \in Clients
      PROVE  "phase" \in DOMAIN request'[c]
  <2>1. "phase" \in DOMAIN request[c]
    BY DEF Shape
  <2>2. "phase" \in DOMAIN Ended(request[c], "dropped")
    BY <2>1, EndedPhase
  <2>3. DOMAIN [request[c] EXCEPT !.reading = FALSE] = DOMAIN request[c]
    OBVIOUS
  <2> QED
    BY <1>1, <2>1, <2>2, <2>3
<1>3. request' = [c \in Clients |-> request'[c]]
  BY DEF Dropped
<1> QED
  BY <1>2, <1>3 DEF Shape

\* A step that neither counts nor changes the phase of a connection.
LEMMA QuietStep ==
  ASSUME Counted, Measured, ReadRequests' = ReadRequests,
         UNCHANGED <<process, setup, world, counters, unread>>
  PROVE  Counted' /\ Measured'
  BY DEF Counted, Measured, counters

\* A connection that is not being answered, before or after, is not counted.
LEMMA OutsideStep ==
  ASSUME Shape, Counted, Measured, NEW c \in Clients, NEW r, "phase" \in DOMAIN r,
         request' = [request EXCEPT ![c] = r],
         (request[c].phase = "read") <=> (r.phase = "read"),
         UNCHANGED <<process, setup, world, counters, unread>>
  PROVE  IInv'
<1>1. Shape' /\ ReadRequests' = ReadRequests
  BY OneConnection DEF ReadRequests
<1> QED
  BY <1>1, QuietStep DEF IInv

\* The process is no longer serving: nothing is counted.
LEMMA EndOfProcess ==
  ASSUME Shape, Measured, process' # "serving", request' = Dropped,
         UNCHANGED <<setup, world, counters>>
  PROVE  IInv'
  BY DroppedShape DEF IInv, Counted, Measured, counters

-----------------------------------------------------------------------------
(* The steps.                                                              *)

\* A new process has no request.
LEMMA StartPreserves == IInv /\ Start => IInv'
<1> SUFFICES ASSUME IInv, Start
             PROVE  IInv'
  OBVIOUS
<1>1. world' \in Worlds /\ setup' \in world'.setups
  BY DEF IInv, Measured, Start
<1>2. CASE ExitStatus(setup') = {}
  <2>1. request' = [c \in Clients |-> NoRequest] /\ pending_requests' = 0 /\ unread' = 0
    BY <1>2 DEF Start
  <2>2. "phase" \in DOMAIN NoRequest /\ NoRequest.phase # "read"
    BY DEF NoRequest
  <2>3. \A c \in Clients : request'[c] = NoRequest
    BY <2>1
  <2>4. Shape'
    BY <2>1, <2>2, <2>3 DEF Shape
  <2>5. ReadRequests' = {}
    BY <2>2, <2>3 DEF ReadRequests
  <2>6. Cardinality(ReadRequests') = 0
    BY <2>5, FS_EmptySet
  <2>7. Counted'
    BY <2>1, <2>6 DEF Counted
  <2>8. Measured'
    BY <1>1, <1>2, BoundsAssumption DEF Start, Measured
  <2> QED
    BY <2>4, <2>7, <2>8 DEF IInv
<1>3. CASE ExitStatus(setup') # {}
  <2>1. process' = "down" /\ UNCHANGED <<request, counters>>
    BY <1>3 DEF Start
  <2> QED
    BY <1>1, <2>1 DEF IInv, Shape, Counted, Measured, counters
<1> QED
  BY <1>2, <1>3

\* update_pending_requests(FALSE), or its assertion, when one request that was read ends.
LEMMA CountDownPreserves ==
  ASSUME IInv, process = "serving", NEW c \in Clients, request[c].phase = "read",
         NEW r, "phase" \in DOMAIN r, r.phase # "read",
         CountDown([request EXCEPT ![c] = r]),
         UNCHANGED <<setup, world, unread>>
  PROVE  IInv'
<1>1. CASE pending_requests > 0 /\ update_pending_requests(FALSE)
           /\ request' = [request EXCEPT ![c] = r] /\ process' = process
  <2>1. Shape' /\ ReadRequests' = ReadRequests \ {c}
    BY <1>1, OneConnection DEF IInv
  <2>2. c \in ReadRequests
    BY DEF ReadRequests
  <2>3. Cardinality(ReadRequests') = Cardinality(ReadRequests) - 1
    BY <2>1, <2>2, RequestsFinite, FS_RemoveElement
  <2>4. pending_requests' = pending_requests - 1
    BY <1>1 DEF update_pending_requests, IInv, Counted
  <2>5. Counted'
    BY <1>1, <2>3, <2>4, RequestsFinite DEF IInv, Counted
  <2>6. Measured'
    BY <1>1 DEF IInv, Measured, update_pending_requests
  <2> QED
    BY <2>1, <2>5, <2>6 DEF IInv
<1>2. CASE process' = "crashed" /\ request' = Dropped /\ UNCHANGED counters
  BY <1>2, EndOfProcess DEF IInv
<1> QED
  BY <1>1, <1>2 DEF CountDown

LEMMA ConnectPreserves ==
  ASSUME IInv, NEW c \in Clients, Connect(c)
  PROVE  IInv'
<1>1. /\ request' = [request EXCEPT ![c] = [NoRequest EXCEPT !.phase = "accepted"]]
      /\ request[c].phase # "read"
      /\ UNCHANGED <<process, setup, world, counters, unread>>
  BY DEF Connect, run, start
<1>2. /\ "phase" \in DOMAIN [NoRequest EXCEPT !.phase = "accepted"]
      /\ [NoRequest EXCEPT !.phase = "accepted"].phase = "accepted"
  BY DEF NoRequest
<1> QED
  BY <1>1, <1>2, OutsideStep DEF IInv

\* request_read_cb counts the request up.
LEMMA RequestReadPreserves ==
  ASSUME IInv, NEW c \in Clients, RequestRead(c)
  PROVE  IInv'
<1>1. /\ process = "serving" /\ request[c].phase = "accepted"
      /\ pending_requests' = pending_requests + 1
      /\ last_request_time' = 0 /\ quiet' = 0
      /\ UNCHANGED <<process, setup, world, unread>>
  BY DEF RequestRead, update_pending_requests, run, start
<1>2. PICK path \in world.paths[c] : \E answer \in server_cb(path), chunks \in 1..MaxChunks :
             request' = [request EXCEPT ![c] = Answered(path, answer, chunks)]
  BY DEF RequestRead
<1>3. PICK answer \in server_cb(path), chunks \in 1..MaxChunks :
             request' = [request EXCEPT ![c] = Answered(path, answer, chunks)]
  BY <1>2
<1>4. /\ "phase" \in DOMAIN Answered(path, answer, chunks)
      /\ Answered(path, answer, chunks).phase = "read"
  BY DEF Answered, NoRequest
<1>5. Shape' /\ ReadRequests' = ReadRequests \cup {c}
  BY <1>3, <1>4, OneConnection DEF IInv
<1>6. c \notin ReadRequests
  BY <1>1 DEF ReadRequests
<1>7. Cardinality(ReadRequests') = Cardinality(ReadRequests) + 1
  BY <1>5, <1>6, RequestsFinite, FS_AddElement
<1>8. Counted'
  BY <1>1, <1>7, RequestsFinite DEF IInv, Counted
<1>9. Measured'
  BY <1>1 DEF IInv, Measured
<1> QED
  BY <1>5, <1>8, <1>9 DEF IInv

LEMMA RequestAbortedPreserves ==
  ASSUME IInv, NEW c \in Clients, RequestAborted(c)
  PROVE  IInv'
<1>1. "phase" \in DOMAIN request[c]
  BY DEF IInv, Shape
<1>2. /\ Ended(request[c], "aborted").phase = "aborted"
      /\ "phase" \in DOMAIN Ended(request[c], "aborted")
  BY <1>1, EndedPhase
<1>3. /\ process = "serving" /\ request[c].phase = "read"
      /\ CountDown([request EXCEPT ![c] = Ended(request[c], "aborted")])
      /\ UNCHANGED <<setup, world, unread>>
  BY DEF RequestAborted, start
<1> QED
  BY <1>2, <1>3, CountDownPreserves

\* request_aborted_cb for a request that was never counted: the history counts it.
LEMMA UnreadAbortedPreserves ==
  ASSUME IInv, NEW c \in Clients, UnreadAborted(c)
  PROVE  IInv'
<1>1. /\ process = "serving" /\ request[c].phase = "accepted" /\ unread' = unread + 1
      /\ CountDown([request EXCEPT ![c] = Ended(request[c], "aborted")])
      /\ UNCHANGED <<setup, world>>
  BY DEF UnreadAborted, start
<1>2. CASE pending_requests > 0 /\ update_pending_requests(FALSE)
           /\ request' = [request EXCEPT ![c] = Ended(request[c], "aborted")]
           /\ process' = process
  <2>1. "phase" \in DOMAIN request[c]
    BY DEF IInv, Shape
  <2>2. /\ Ended(request[c], "aborted").phase = "aborted"
        /\ "phase" \in DOMAIN Ended(request[c], "aborted")
    BY <2>1, EndedPhase
  <2>3. Shape' /\ ReadRequests' = ReadRequests \ {c}
    BY <1>2, <2>2, OneConnection DEF IInv
  <2>4. ReadRequests' = ReadRequests
    BY <1>1, <2>3 DEF ReadRequests
  <2>5. pending_requests' = pending_requests - 1
    BY <1>2 DEF update_pending_requests, IInv, Counted
  <2>6. Counted'
    BY <1>1, <1>2, <2>4, <2>5, RequestsFinite DEF IInv, Counted
  <2>7. Measured'
    BY <1>1, <1>2 DEF IInv, Measured, update_pending_requests
  <2> QED
    BY <2>3, <2>6, <2>7 DEF IInv
<1>3. CASE process' = "crashed" /\ request' = Dropped /\ UNCHANGED counters
  BY <1>1, <1>3, EndOfProcess DEF IInv
<1> QED
  BY <1>1, <1>2, <1>3 DEF CountDown

LEMMA WritePreserves ==
  ASSUME IInv, NEW c \in Clients, Write(c)
  PROVE  IInv'
<1> DEFINE r == request[c]
           written == [r EXCEPT !.sent = r.body,
                                !.sentStatus = IF @ = 0 THEN r.status ELSE @]
           waiting == [written EXCEPT !.paused = TRUE]
<1>1. /\ process = "serving" /\ r.phase = "read"
      /\ UNCHANGED <<setup, world, unread>>
      /\ \/ CountDown([request EXCEPT ![c] = Ended(written, "finished")])
         \/ request' = [request EXCEPT ![c] = waiting] /\ UNCHANGED <<counters, process>>
  BY DEF Write, start
<1>2. "phase" \in DOMAIN r
  BY DEF IInv, Shape
<1>3. "phase" \in DOMAIN written /\ written.phase = r.phase
  BY <1>2
<1>4. "phase" \in DOMAIN waiting /\ waiting.phase = r.phase
  BY <1>3
<1>5. /\ Ended(written, "finished").phase = "finished"
      /\ "phase" \in DOMAIN Ended(written, "finished")
  BY <1>3, EndedPhase
<1> HIDE DEF written, waiting
<1>6. CASE CountDown([request EXCEPT ![c] = Ended(written, "finished")])
  BY <1>1, <1>5, <1>6, CountDownPreserves
<1>7. CASE request' = [request EXCEPT ![c] = waiting] /\ UNCHANGED <<counters, process>>
  BY <1>1, <1>4, <1>7, OutsideStep DEF IInv
<1> QED
  BY <1>1, <1>6, <1>7

LEMMA ReadChunkPreserves ==
  ASSUME IInv, NEW c \in Clients, filez_stream_read_chunk_cb(c)
  PROVE  IInv'
<1>1. "phase" \in DOMAIN request[c]
  BY DEF IInv, Shape
<1>2. UNCHANGED <<process, setup, world, counters, unread>>
  BY DEF filez_stream_read_chunk_cb, run, start
<1>3. PICK r : /\ request' = [request EXCEPT ![c] = r]
               /\ r \in {[request[c] EXCEPT !.reading = FALSE], FailStream(request[c]),
                         AppendChunk(request[c]), CompleteStream(request[c])}
  BY DEF filez_stream_read_chunk_cb
<1>4. "phase" \in DOMAIN r /\ r.phase = request[c].phase
  BY <1>1, <1>3 DEF FailStream, AppendChunk, CompleteStream
<1> QED
  BY <1>2, <1>3, <1>4, OutsideStep DEF IInv

\* A timeout that has not passed changes nothing that is counted; else the process ends.
LEMMA TimeoutPreserves == IInv /\ (timeout_cb \/ check_and_quit) => IInv'
<1> SUFFICES ASSUME IInv, timeout_cb \/ check_and_quit
             PROVE  IInv'
  OBVIOUS
<1>1. /\ UNCHANGED <<setup, world, counters, unread>>
      /\ UNCHANGED <<process, request>> \/ Quit
  BY DEF timeout_cb, check_and_quit
<1>2. CASE UNCHANGED <<process, request>>
  BY <1>1, <1>2, QuietStep DEF IInv, Shape, ReadRequests
<1>3. CASE Quit
  BY <1>1, <1>3, EndOfProcess DEF IInv, Quit
<1> QED
  BY <1>1, <1>2, <1>3

LEMMA TickPreserves == IInv /\ Tick => IInv'
<1> SUFFICES ASSUME IInv, Tick
             PROVE  IInv'
  OBVIOUS
<1>1. UNCHANGED <<process, setup, world, unread, pending_requests, request>>
  BY DEF Tick, run, start
<1>2. ReadRequests' = ReadRequests
  BY <1>1 DEF ReadRequests
<1>3. last_request_time' = Older(last_request_time) /\ quiet' = Older(quiet)
  BY DEF Tick
<1>4. Measured'
  BY <1>1, <1>3, BoundsAssumption DEF IInv, Measured, Older
<1> QED
  BY <1>1, <1>2, <1>4 DEF IInv, Shape, Counted

LEMMA OthersPreserve ==
  ASSUME IInv, UNCHANGED <<process, setup, world, counters, unread, request>>
  PROVE  IInv'
  BY QuietStep DEF IInv, Shape, ReadRequests

\* The invariant holds at all times.
THEOREM Invariance == Spec => []IInv
<1>1. Init => IInv
  <2> SUFFICES ASSUME Init
               PROVE  IInv
    OBVIOUS
  <2>1. Shape
    BY DEF Init, Shape, NoRequest
  <2> QED
    BY <2>1, BoundsAssumption DEF Init, IInv, Counted, Measured
<1>2. IInv /\ [Next]_vars => IInv'
  <2> SUFFICES ASSUME IInv, [Next]_vars
               PROVE  IInv'
    OBVIOUS
  <2>1. CASE Start
    BY <2>1, StartPreserves
  <2>2. CASE timeout_cb \/ check_and_quit
    BY <2>2, TimeoutPreserves
  <2>3. CASE Tick
    BY <2>3, TickPreserves
  <2>4. CASE eus_server_disconnect
    BY <2>4, OthersPreserve DEF eus_server_disconnect, run, start
  <2>5. ASSUME NEW c \in Clients,
               Connect(c) \/ RequestRead(c) \/ RequestAborted(c) \/ UnreadAborted(c)
                 \/ Write(c) \/ filez_stream_read_chunk_cb(c)
        PROVE  IInv'
    BY <2>5, ConnectPreserves, RequestReadPreserves, RequestAbortedPreserves,
       UnreadAbortedPreserves, WritePreserves, ReadChunkPreserves
  <2>6. ASSUME NEW f \in world.files, RepositoryChanges(f)
        PROVE  IInv'
    BY <2>6, OthersPreserve DEF RepositoryChanges, run, start
  <2>7. CASE UNCHANGED vars
    BY <2>7, OthersPreserve DEF vars, counters
  <2> QED
    BY <2>1, <2>2, <2>3, <2>4, <2>5, <2>6, <2>7 DEF Next
<1> QED
  BY <1>1, <1>2, PTL DEF Spec

(* EusServer:pending-requests is exact, but for requests that ended unread.      *)
THEOREM RequestsAreCounted == Spec => []PendingIsExact
<1>1. IInv => PendingIsExact
  BY DEF IInv, Counted, PendingIsExact
<1> QED
  BY <1>1, Invariance, PTL

-----------------------------------------------------------------------------
(* The exit.                                                               *)

\* A number of microseconds that a gint holds.
Fits(n) == Signed(n) = n

TimeoutsFit ==
    /\ \A w \in Worlds : \A s \in w.setups : s.timeout > 0 => Fits(Second * s.timeout)
    /\ Fits(Second * QuitFileSeconds)

\* What no_requests_timeout returns if its product fits: whether the server was idle so long.
LEMMA PassedMeansIdle ==
  ASSUME IInv, process = "serving", NEW seconds \in Int, Fits(Second * seconds),
         TRUE \in no_requests_timeout(seconds)
  PROVE  /\ unread = 0 => ReadRequests = {}
         /\ quiet > seconds
<1>1. pending_requests = 0 /\ last_request_time * Second > Second * seconds
  BY DEF no_requests_timeout, Microseconds, Fits
<1>2. unread = 0 => Cardinality(ReadRequests) = 0
  BY <1>1 DEF IInv, Counted
<1>3. unread = 0 => ReadRequests = {}
  BY <1>2, RequestsFinite, FS_EmptySet
<1>4. last_request_time > seconds
  <2>1. last_request_time \in Int /\ Second \in Nat \ {0}
    BY BoundsAssumption DEF IInv, Measured
  <2>2. \A a, b \in Int, n \in Nat \ {0} : a <= b => a * n <= n * b
    OBVIOUS
  <2> QED
    BY <1>1, <2>1, <2>2
<1> QED
  BY <1>3, <1>4 DEF IInv, Measured

\* The quit file is checked only if the setup has one.
QuitFileIsWanted == process = "serving" /\ quitFile # Unused => setup.quit_file

\* What a connection does leaves the timers alone and can end the process in one way only.
LEMMA ConnectionSteps ==
  ASSUME NEW c \in Clients,
         Connect(c) \/ RequestRead(c) \/ RequestAborted(c) \/ UnreadAborted(c)
            \/ Write(c) \/ filez_stream_read_chunk_cb(c)
  PROVE  /\ process' \in {process, "crashed"}
         /\ process = "serving"
         /\ UNCHANGED <<setup, quitFile>>
  BY DEF Connect, RequestRead, RequestAborted, UnreadAborted, Write, filez_stream_read_chunk_cb,
         CountDown, run, start, timers

LEMMA QuitFile == Spec => []QuitFileIsWanted
<1>1. Init => QuitFileIsWanted
  BY DEF Init, QuitFileIsWanted
<1>2. QuitFileIsWanted /\ [Next]_vars => QuitFileIsWanted'
  <2> SUFFICES ASSUME QuitFileIsWanted, [Next]_vars
               PROVE  QuitFileIsWanted'
    OBVIOUS
  <2>1. CASE Start
    BY <2>1 DEF QuitFileIsWanted, Start
  <2>2. CASE timeout_cb \/ check_and_quit
    BY <2>2, BoundsAssumption DEF QuitFileIsWanted, timeout_cb, check_and_quit, Quit, Unused, Watched
  <2>3. CASE Tick
    BY <2>3 DEF QuitFileIsWanted, Tick, run, start
  <2>4. CASE eus_server_disconnect
    BY <2>4 DEF QuitFileIsWanted, eus_server_disconnect, run, start, timers
  <2>5. ASSUME NEW c \in Clients,
               Connect(c) \/ RequestRead(c) \/ RequestAborted(c) \/ UnreadAborted(c)
                 \/ Write(c) \/ filez_stream_read_chunk_cb(c)
        PROVE  QuitFileIsWanted'
    BY <2>5, ConnectionSteps DEF QuitFileIsWanted
  <2>6. ASSUME NEW f \in world.files, RepositoryChanges(f)
        PROVE  QuitFileIsWanted'
    BY <2>6 DEF QuitFileIsWanted, RepositoryChanges, run, start, timers
  <2>7. CASE UNCHANGED vars
    BY <2>7 DEF QuitFileIsWanted, vars
  <2> QED
    BY <2>1, <2>2, <2>3, <2>4, <2>5, <2>6, <2>7 DEF Next
<1> QED
  BY <1>1, <1>2, PTL DEF Spec

(* The process exits only when it has been idle for its timeout, or that of the   *)
(* quit file: the condition is that the timeout in microseconds fits a gint.     *)
THEOREM ExitsOnlyIdle == TimeoutsFit => (Spec => QuitOnlyIdle)
<1> SUFFICES ASSUME TimeoutsFit
             PROVE  Spec => QuitOnlyIdle
  OBVIOUS
<1>1. IInv /\ QuitFileIsWanted /\ [Next]_vars =>
        (process = "serving" /\ process' = "down" =>
         /\ unread = 0 => ReadRequests = {}
         /\ \/ setup.timeout > 0 /\ quiet > setup.timeout
            \/ setup.quit_file /\ quitFile' # quitFile /\ quiet > QuitFileSeconds)
  <2> SUFFICES ASSUME IInv, QuitFileIsWanted, [Next]_vars, process = "serving", process' = "down"
               PROVE  /\ unread = 0 => ReadRequests = {}
                      /\ \/ setup.timeout > 0 /\ quiet > setup.timeout
                         \/ setup.quit_file /\ quitFile' # quitFile /\ quiet > QuitFileSeconds
    OBVIOUS
  <2>1. CASE timeout_cb
    <3>1. setup.timeout > 0 /\ TRUE \in no_requests_timeout(setup.timeout)
      <4>1. PICK passed \in no_requests_timeout(setup.timeout) :
                   passed \/ (~passed /\ UNCHANGED process)
        BY <2>1 DEF timeout_cb
      <4>2. passed
        BY <4>1
      <4>3. passed \in BOOLEAN
        BY DEF no_requests_timeout
      <4>4. passed = TRUE
        BY <4>2, <4>3, Zenon
      <4> QED
        BY <2>1, <4>4 DEF timeout_cb
    <3>2. setup.timeout \in Int /\ Fits(Second * setup.timeout)
      BY <3>1, BoundsAssumption DEF IInv, Measured, TimeoutsFit
    <3> QED
      BY <3>1, <3>2, PassedMeansIdle
  <2>2. CASE check_and_quit
    <3>1. PICK passed \in no_requests_timeout(QuitFileSeconds) :
             (~passed /\ UNCHANGED process) \/ (passed /\ quitFile' = Unused)
      BY <2>2 DEF check_and_quit
    <3>2. passed /\ quitFile' = Unused
      BY <3>1
    <3>3. passed \in BOOLEAN
      BY DEF no_requests_timeout
    <3>4. TRUE \in no_requests_timeout(QuitFileSeconds)
      BY <3>2, <3>3, Zenon
    <3>5. QuitFileSeconds \in Int /\ Fits(Second * QuitFileSeconds)
      BY BoundsAssumption DEF TimeoutsFit
    <3>6. quitFile # Unused
      BY <2>2, BoundsAssumption DEF check_and_quit, Unused, Watched
    <3> QED
      BY <3>2, <3>4, <3>5, <3>6, PassedMeansIdle DEF QuitFileIsWanted
  <2>3. CASE Start
    BY <2>3 DEF Start
  <2>4. CASE Tick \/ eus_server_disconnect \/ \E f \in world.files : RepositoryChanges(f)
    BY <2>4 DEF Tick, eus_server_disconnect, RepositoryChanges, run
  <2>5. CASE \E c \in Clients :
                \/ Connect(c) \/ RequestRead(c) \/ RequestAborted(c) \/ UnreadAborted(c)
                \/ Write(c) \/ filez_stream_read_chunk_cb(c)
    BY <2>5, ConnectionSteps
  <2>6. CASE UNCHANGED vars
    BY <2>6 DEF vars
  <2> QED
    BY <2>1, <2>2, <2>3, <2>4, <2>5, <2>6 DEF Next
<1> QED
  BY <1>1, Invariance, QuitFile, PTL DEF Spec, QuitOnlyIdle

-----------------------------------------------------------------------------
(* The responses.                                                          *)

\* What libsoup has written of a response.
Written(r) == [r EXCEPT !.sent = r.body, !.sentStatus = IF @ = 0 THEN r.status ELSE @]

\* What a step, of this connection or another's, may make of a connection: it ends
\* with the process or is given up, its request is read, a part of its response is
\* written, or a read of its file ends.
Begins(c) ==
    request'[c] \in {NoRequest, [NoRequest EXCEPT !.phase = "accepted"]}

GivenUp(c) ==
    /\ request[c].phase \in {"accepted", "read"}
    /\ \E phase \in {"aborted", "dropped"} : request'[c] = Ended(request[c], phase)

Forgotten(c) ==
    /\ request[c].phase # "read"
    /\ request'[c] = [request[c] EXCEPT !.reading = FALSE]

IsRead(c) ==
    /\ request[c].phase = "accepted" /\ UNCHANGED <<connected, setup>>
    /\ \E path \in world.paths[c] : \E answer \in server_cb(path), chunks \in 1..MaxChunks :
          request'[c] = Answered(path, answer, chunks)

IsWritten(c) ==
    /\ request[c].phase = "read"
    /\ \/ request[c].complete /\ request'[c] = Ended(Written(request[c]), "finished")
       \/ ~request[c].complete /\ request'[c] = [Written(request[c]) EXCEPT !.paused = TRUE]

Streams(c) ==
    /\ request[c].phase = "read" /\ request[c].reading
    /\ \/ request'[c] = FailStream(request[c])
       \/ request'[c] = AppendChunk(request[c])
       \/ request[c].left = 0 /\ request'[c] = CompleteStream(request[c])

Moves(c) ==
    \/ request'[c] = request[c]
    \/ Begins(c) \/ GivenUp(c) \/ Forgotten(c) \/ IsRead(c) \/ IsWritten(c) \/ Streams(c)

Connections == request = [c \in Clients |-> request[c]]

\* The end of the process as one connection sees it.
LEMMA DroppedMoves ==
  ASSUME NEW c \in Clients, request' = Dropped
  PROVE  GivenUp(c) \/ Forgotten(c)
  BY DEF Dropped, GivenUp, Forgotten

\* A step of one connection leaves the others alone, unless the process ends by it.
LEMMA OneMoves ==
  ASSUME Connections, NEW d \in Clients, NEW r, request' = [request EXCEPT ![d] = r],
         NEW c \in Clients
  PROVE  request'[c] = IF c = d THEN r ELSE request[c]
  BY DEF Connections

LEMMA CountDownMoves ==
  ASSUME Connections, NEW d \in Clients, NEW r, CountDown([request EXCEPT ![d] = r]),
         NEW c \in Clients
  PROVE  \/ request'[c] = IF c = d THEN r ELSE request[c]
         \/ GivenUp(c) \/ Forgotten(c)
<1>1. CASE request' = [request EXCEPT ![d] = r]
  BY <1>1, OneMoves
<1>2. CASE request' = Dropped
  BY <1>2, DroppedMoves
<1> QED
  BY <1>1, <1>2 DEF CountDown

LEMMA ConnectMoves ==
  ASSUME Connections, NEW d \in Clients, Connect(d), NEW c \in Clients
  PROVE  Moves(c)
<1>1. request' = [request EXCEPT ![d] = [NoRequest EXCEPT !.phase = "accepted"]]
  BY DEF Connect
<1>2. request'[c] = IF c = d THEN [NoRequest EXCEPT !.phase = "accepted"] ELSE request[c]
  BY <1>1, OneMoves
<1> QED
  BY <1>2 DEF Moves, Begins

LEMMA RequestReadMoves ==
  ASSUME Connections, NEW d \in Clients, RequestRead(d), NEW c \in Clients
  PROVE  Moves(c)
<1>1. PICK path \in world.paths[d] : \E answer \in server_cb(path), chunks \in 1..MaxChunks :
             request' = [request EXCEPT ![d] = Answered(path, answer, chunks)]
  BY DEF RequestRead
<1>2. PICK answer \in server_cb(path), chunks \in 1..MaxChunks :
             request' = [request EXCEPT ![d] = Answered(path, answer, chunks)]
  BY <1>1
<1>3. request'[c] = IF c = d THEN Answered(path, answer, chunks) ELSE request[c]
  BY <1>2, OneMoves
<1>4. request[d].phase = "accepted" /\ UNCHANGED <<connected, setup>>
  BY DEF RequestRead, run, start
<1>5. CASE c = d
  BY <1>3, <1>4, <1>5 DEF Moves, IsRead
<1>6. CASE c # d
  BY <1>3, <1>6 DEF Moves
<1> QED
  BY <1>5, <1>6

LEMMA AbortedMoves ==
  ASSUME Connections, NEW d \in Clients, RequestAborted(d) \/ UnreadAborted(d), NEW c \in Clients
  PROVE  Moves(c)
<1>1. request[d].phase \in {"accepted", "read"} /\ CountDown([request EXCEPT ![d] = Ended(request[d], "aborted")])
  <2>1. CASE RequestAborted(d)
    BY <2>1 DEF RequestAborted
  <2>2. CASE UnreadAborted(d)
    BY <2>2 DEF UnreadAborted
  <2> QED
    BY <2>1, <2>2
<1>2. \/ request'[c] = IF c = d THEN Ended(request[d], "aborted") ELSE request[c]
      \/ GivenUp(c) \/ Forgotten(c)
  BY <1>1, CountDownMoves
<1>3. CASE c = d /\ request'[c] = Ended(request[d], "aborted")
  BY <1>1, <1>3 DEF Moves, GivenUp
<1> QED
  BY <1>2, <1>3 DEF Moves

LEMMA WriteMoves ==
  ASSUME Connections, NEW d \in Clients, Write(d), NEW c \in Clients
  PROVE  Moves(c)
<1>1. request[d].phase = "read"
  BY DEF Write
<1>2. CASE request[d].complete /\ CountDown([request EXCEPT ![d] = Ended(Written(request[d]), "finished")])
  <2>1. \/ request'[c] = IF c = d THEN Ended(Written(request[d]), "finished") ELSE request[c]
        \/ GivenUp(c) \/ Forgotten(c)
    BY <1>2, CountDownMoves
  <2>2. CASE c = d /\ request'[c] = Ended(Written(request[d]), "finished")
    BY <1>1, <1>2, <2>2 DEF Moves, IsWritten
  <2> QED
    BY <2>1, <2>2 DEF Moves
<1>3. CASE ~request[d].complete
           /\ request' = [request EXCEPT ![d] = [Written(request[d]) EXCEPT !.paused = TRUE]]
  <2>1. request'[c] = IF c = d THEN [Written(request[d]) EXCEPT !.paused = TRUE] ELSE request[c]
    BY <1>3, OneMoves
  <2>2. CASE c = d
    BY <1>1, <1>3, <2>1, <2>2 DEF Moves, IsWritten
  <2> QED
    BY <2>1, <2>2 DEF Moves
<1> QED
  BY <1>2, <1>3 DEF Write, Written

LEMMA ReadChunkMoves ==
  ASSUME Connections, NEW d \in Clients, filez_stream_read_chunk_cb(d), NEW c \in Clients
  PROVE  Moves(c)
<1>1. CASE request' = [request EXCEPT ![d].reading = FALSE] /\ request[d].phase # "read"
  <2>1. request'[c] = IF c = d THEN [request[d] EXCEPT !.reading = FALSE] ELSE request[c]
    BY <1>1, OneMoves
  <2> QED
    BY <1>1, <2>1 DEF Moves, Forgotten
<1>2. ASSUME request[d].phase = "read", request[d].reading,
             NEW r, request' = [request EXCEPT ![d] = r],
             \/ r = FailStream(request[d]) \/ r = AppendChunk(request[d])
             \/ request[d].left = 0 /\ r = CompleteStream(request[d])
      PROVE  Moves(c)
  <2>1. request'[c] = IF c = d THEN r ELSE request[c]
    BY <1>2, OneMoves
  <2>2. CASE c = d
    BY <1>2, <2>1, <2>2 DEF Moves, Streams
  <2> QED
    BY <2>1, <2>2 DEF Moves
<1> QED
  BY <1>1, <1>2 DEF filez_stream_read_chunk_cb

\* Every step is a step of every connection.
LEMMA EveryConnectionMoves ==
  ASSUME Connections, [Next]_vars, NEW c \in Clients
  PROVE  Moves(c)
<1>1. CASE Start
  <2>1. request' = [d \in Clients |-> NoRequest] \/ request' = request
    BY <1>1 DEF Start
  <2> QED
    BY <2>1 DEF Moves, Begins
<1>2. CASE timeout_cb \/ check_and_quit
  <2>1. request' = request \/ request' = Dropped
    BY <1>2 DEF timeout_cb, check_and_quit, Quit
  <2> QED
    BY <2>1, DroppedMoves DEF Moves
<1>3. CASE Tick \/ eus_server_disconnect \/ UNCHANGED vars
  BY <1>3 DEF Tick, eus_server_disconnect, vars, Moves
<1>4. ASSUME NEW d \in Clients,
             Connect(d) \/ RequestRead(d) \/ RequestAborted(d) \/ UnreadAborted(d)
               \/ Write(d) \/ filez_stream_read_chunk_cb(d)
      PROVE  Moves(c)
  BY <1>4, ConnectMoves, RequestReadMoves, AbortedMoves, WriteMoves, ReadChunkMoves
<1>5. ASSUME NEW f \in world.files, RepositoryChanges(f)
      PROVE  Moves(c)
  BY <1>5 DEF RepositoryChanges, Moves
<1> QED
  BY <1>1, <1>2, <1>3, <1>4, <1>5 DEF Next

LEMMA ConnectionsStay ==
  ASSUME Connections, [Next]_vars
  PROVE  Connections'
<1> USE DEF Connections
<1>1. \A r, d : request' = [request EXCEPT ![d] = r] => Connections'
  OBVIOUS
<1>2. request' = Dropped => Connections'
  BY DEF Dropped
<1>3. \A r, d : CountDown([request EXCEPT ![d] = r]) => Connections'
  BY <1>1, <1>2 DEF CountDown
<1>4. CASE Start \/ timeout_cb \/ check_and_quit
  BY <1>2, <1>4 DEF Start, timeout_cb, check_and_quit, Quit
<1>5. CASE Tick \/ eus_server_disconnect \/ UNCHANGED vars
  BY <1>5 DEF Tick, eus_server_disconnect, vars
<1>6. ASSUME NEW d \in Clients,
             Connect(d) \/ RequestRead(d) \/ RequestAborted(d) \/ UnreadAborted(d)
      PROVE  Connections'
  BY <1>1, <1>3, <1>6 DEF Connect, RequestRead, RequestAborted, UnreadAborted
<1>7. ASSUME NEW d \in Clients, Write(d) \/ filez_stream_read_chunk_cb(d)
      PROVE  Connections'
  BY <1>1, <1>3, <1>7 DEF Write, filez_stream_read_chunk_cb
<1>8. ASSUME NEW f \in world.files, RepositoryChanges(f)
      PROVE  Connections'
  BY <1>8 DEF RepositoryChanges
<1> QED
  BY <1>4, <1>5, <1>6, <1>7, <1>8 DEF Next

\* A message is complete when all of its file has been read, or a read failed, and no
\* read is then in flight; it is finished when it is complete and all of it is written.
WellFormed(r) ==
    /\ DOMAIN r = DOMAIN NoRequest
    /\ r.complete \in BOOLEAN /\ r.reading \in BOOLEAN /\ r.failed \in BOOLEAN
    /\ r.complete => r.failed \/ r.left = 0
    /\ r.reading => ~r.complete
    /\ r.phase = "finished" => r.complete /\ r.sent = r.body

RInv == Connections /\ \A c \in Clients : WellFormed(request[c])

LEMMA MoveIsWellFormed ==
  ASSUME NEW c \in Clients, WellFormed(request[c]), Moves(c)
  PROVE  WellFormed(request'[c])
<1> DEFINE r == request[c]
<1>1. WellFormed(NoRequest) /\ WellFormed([NoRequest EXCEPT !.phase = "accepted"])
  BY DEF WellFormed, NoRequest
<1>2. \A phase \in {"aborted", "dropped"} : WellFormed(Ended(r, phase))
  BY DEF WellFormed, Ended, NoRequest
<1>3. CASE Forgotten(c)
  BY <1>3 DEF Forgotten, WellFormed, NoRequest
<1>4. \A path, answer, chunks : WellFormed(Answered(path, answer, chunks))
  BY DEF WellFormed, Answered, NoRequest
<1>5. CASE IsWritten(c)
  <2>1. WellFormed(Written(r)) /\ Written(r).sent = Written(r).body /\ Written(r).phase = r.phase
        /\ Written(r).complete = r.complete
    BY <1>5 DEF WellFormed, Written, NoRequest, IsWritten
  <2>2. r.complete => WellFormed(Ended(Written(r), "finished"))
    BY <2>1 DEF WellFormed, Ended, NoRequest
  <2>3. WellFormed([Written(r) EXCEPT !.paused = TRUE])
    BY <2>1, <1>5 DEF WellFormed, NoRequest, IsWritten
  <2> QED
    BY <1>5, <2>2, <2>3 DEF IsWritten
<1>6. CASE Streams(c)
  <2>1. WellFormed(FailStream(r))
    BY <1>6 DEF WellFormed, FailStream, NoRequest, Streams
  <2>2. WellFormed(AppendChunk(r))
    BY <1>6 DEF WellFormed, AppendChunk, NoRequest, Streams
  <2>3. r.left = 0 => WellFormed(CompleteStream(r))
    BY <1>6 DEF WellFormed, CompleteStream, NoRequest, Streams
  <2> QED
    BY <1>6, <2>1, <2>2, <2>3 DEF Streams
<1> QED
  BY <1>1, <1>2, <1>3, <1>4, <1>5, <1>6 DEF Moves, Begins, GivenUp, IsRead

\* Every message stays well-formed.
LEMMA MessagesAreWellFormed == Spec => []RInv
<1>1. Init => RInv
  <2>1. WellFormed(NoRequest)
    BY DEF WellFormed, NoRequest
  <2>2. Init => \A c \in Clients : request[c] = NoRequest
    BY DEF Init
  <2>3. Init => Connections
    BY DEF Init, Connections
  <2> QED
    BY <2>1, <2>2, <2>3 DEF RInv
<1>2. RInv /\ [Next]_vars => RInv'
  BY ConnectionsStay, EveryConnectionMoves, MoveIsWellFormed DEF RInv
<1> QED
  BY <1>1, <1>2, PTL DEF Spec

-----------------------------------------------------------------------------

LEMMA Whole == RInv => WholeUnlessFailed
  BY DEF RInv, WellFormed, WholeUnlessFailed

LEMMA NothingMovesAfterEnd == RInv /\ [Next]_vars => NothingAfterEnd
<1> SUFFICES ASSUME RInv, [Next]_vars, NEW c \in Clients,
                    request[c].phase \in {"finished", "aborted", "dropped"}
             PROVE  \/ request'[c] \in {NoRequest, [NoRequest EXCEPT !.phase = "accepted"]}
                    \/ request'[c] = request[c]
                    \/ request'[c] = [request[c] EXCEPT !.reading = FALSE]
  BY DEF NothingAfterEnd
<1>1. Moves(c)
  BY EveryConnectionMoves DEF RInv
<1> QED
  BY <1>1 DEF Moves, Begins, GivenUp, Forgotten, IsRead, IsWritten, Streams

-----------------------------------------------------------------------------
(* Mirrored refs.                                                          *)

LEMMA Smallest ==
  ASSUME NEW T \in SUBSET Nat, T # {}
  PROVE  Min(T) \in T /\ \A k \in T : Min(T) <= k
<1> DEFINE R == OpToRel(<, Nat)
<1>1. IsWellFoundedOn(R, Nat)
  BY NatLessThanWellFounded
<1>2. \E x \in T : \A y \in T : ~(<<y, x>> \in R)
  BY <1>1, WFMin
<1>3. \A x, y \in Nat : <<y, x>> \in R <=> y < x
  BY DEF OpToRel
<1> HIDE DEF R
<1>4. PICK x \in T : \A y \in T : ~(<<y, x>> \in R)
  BY <1>2
<1>5. \A y \in T : ~(y < x)
  BY <1>3, <1>4
<1>6. \A y \in T : x <= y
  BY <1>5
<1> QED
  BY <1>6 DEF Min

\* Places in a list count from 1.
LEMMA PlacesInList == \A i \in DOMAIN Remotes : i \in Nat /\ i # 0
<1>1. Remotes \in Seq(STRING)
  BY RemotesAssumption
<1>2. DOMAIN Remotes = 1..Len(Remotes) /\ Len(Remotes) \in Nat
  BY <1>1, LenProperties
<1> QED
  BY <1>2

LEMMA PlacesTried ==
  ASSUME NEW collection
  PROVE  {0} \cup RemotesOf(collection) \subseteq Nat
<1> SUFFICES ASSUME NEW i \in {0} \cup RemotesOf(collection)
             PROVE  i \in Nat
  OBVIOUS
<1>1. CASE i = 0
  BY <1>1
<1>2. CASE i \in RemotesOf(collection)
  BY <1>2, PlacesInList DEF RemotesOf
<1> QED
  BY <1>1, <1>2

\* A file that exists is served or cannot be loaded.
LEMMA ServedIsFound ==
  ASSUME NEW file \in files, NEW answer \in serve_file_if_exists(files, file)
  PROVE  answer.status # NotFound
<1>1. answer \in {[status |-> Ok, body |-> file], [status |-> InternalServerError, body |-> Nothing]}
  BY DEF serve_file_if_exists, Answer
<1>2. answer.status \in {Ok, InternalServerError}
  BY <1>1
<1> QED
  BY <1>2 DEF Ok, InternalServerError, NotFound

\* A mirrored ref is not found exactly when none of the files it may be is there.
LEMMA MirrorsAnswer ==
  ASSUME NEW path, path.kind = "mirrors", path.collection # "", path.name # "",
         NEW answer \in handle_path(files, path)
  PROVE  answer.status = NotFound <=>
            \A i \in {0} \cup RemotesOf(path.collection) :
               MirrorFile(i, path.collection, path.name) \notin files
<1> DEFINE places == {0} \cup RemotesOf(path.collection)
           file(i) == MirrorFile(i, path.collection, path.name)
           found == {i \in places : file(i) \in files}
<1>1. handle_path(files, path) = handle_refs_mirrors(files, path)
  BY DEF handle_path
<1>2. handle_refs_mirrors(files, path) =
         IF found = {} THEN {Answer(NotFound)} ELSE serve_file_if_exists(files, file(Min(found)))
  BY DEF handle_refs_mirrors
<1>3. places \subseteq Nat
  BY PlacesTried
<1> HIDE DEF places, file
<1>4. found \in SUBSET Nat
  BY <1>3
<1>5. CASE found = {}
  <2>1. answer = Answer(NotFound)
    BY <1>1, <1>2, <1>5
  <2>2. answer.status = NotFound
    BY <2>1 DEF Answer
  <2> QED
    BY <1>5, <2>2 DEF places, file
<1>6. CASE found # {}
  <2>1. Min(found) \in found
    BY <1>4, <1>6, Smallest
  <2>2. file(Min(found)) \in files
    BY <2>1
  <2>3. answer \in serve_file_if_exists(files, file(Min(found)))
    BY <1>1, <1>2, <1>6
  <2>4. answer.status # NotFound
    BY <2>2, <2>3, ServedIsFound
  <2> QED
    BY <1>6, <2>4 DEF places, file
<1> QED
  BY <1>5, <1>6

\* A message comes to be answered by the request being read.
LEMMA AnsweredIsRead ==
  ASSUME NEW c \in Clients, WellFormed(request[c]), Moves(c),
         request[c].phase = "accepted", request'[c].phase = "read"
  PROVE  IsRead(c)
<1>1. ~Begins(c)
  BY DEF Begins, NoRequest
<1>2. "phase" \in DOMAIN request[c]
  BY DEF WellFormed, NoRequest
<1>3. ~GivenUp(c)
  BY <1>2, EndedPhase DEF GivenUp
<1>4. ~Forgotten(c)
  BY <1>2 DEF Forgotten
<1> QED
  BY <1>1, <1>3, <1>4 DEF Moves, IsWritten, Streams

\* What is tried is the mirror's file and those of the remotes of the collection.
LEMMA TriedFiles ==
  ASSUME NEW collection, NEW name
  PROVE  (\A i \in {0} \cup RemotesOf(collection) : MirrorFile(i, collection, name) \notin files)
         <=> /\ <<"mirrors", collection, name>> \notin files
             /\ \A m \in {m \in ToSet(Remotes) : CollectionOf[m] = collection} :
                   <<"remotes", m, name>> \notin files
<1>1. MirrorFile(0, collection, name) = <<"mirrors", collection, name>>
  BY DEF MirrorFile
<1>2. \A i \in RemotesOf(collection) :
         MirrorFile(i, collection, name) = <<"remotes", Remotes[i], name>>
  BY PlacesInList DEF MirrorFile, RemotesOf
<1>3. {m \in ToSet(Remotes) : CollectionOf[m] = collection} = {Remotes[i] : i \in RemotesOf(collection)}
  BY DEF RemotesOf, ToSet
<1>4. (\A i \in RemotesOf(collection) : MirrorFile(i, collection, name) \notin files)
      <=> \A m \in {Remotes[i] : i \in RemotesOf(collection)} : <<"remotes", m, name>> \notin files
  BY <1>2
<1> QED
  BY <1>1, <1>3, <1>4

LEMMA MirrorsAreTried == RInv /\ [Next]_vars => MirrorsResolve
<1>1. SUFFICES ASSUME RInv, [Next]_vars, NEW c \in Clients,
                      request[c].phase = "accepted", request'[c].phase = "read",
                      request'[c].path.kind = "mirrors", request'[c].path.collection # "",
                      request'[c].path.name # "", connected,
                      request'[c].path.root \in RootPaths(setup)
               PROVE  (request'[c].status = NotFound) <=>
                       /\ <<"mirrors", request'[c].path.collection, request'[c].path.name>> \notin files
                       /\ \A m \in {m \in ToSet(Remotes) : CollectionOf[m] = request'[c].path.collection} :
                             ~(<<"remotes", m, request'[c].path.name>> \in files)
  BY DEF MirrorsResolve
<1>2. IsRead(c)
  BY <1>1, EveryConnectionMoves, AnsweredIsRead DEF RInv
<1>3. PICK path \in world.paths[c] : \E answer \in server_cb(path), chunks \in 1..MaxChunks :
             request'[c] = Answered(path, answer, chunks)
  BY <1>2 DEF IsRead
<1>4. PICK answer \in server_cb(path), chunks \in 1..MaxChunks :
             request'[c] = Answered(path, answer, chunks)
  BY <1>3
<1>5. request'[c].path = path /\ request'[c].status = answer.status
  BY <1>4 DEF Answered, NoRequest
<1>6. answer \in handle_path(files, path)
  BY <1>1, <1>4, <1>5 DEF server_cb
<1>7. path.kind = "mirrors" /\ path.collection # "" /\ path.name # ""
  BY <1>1, <1>5
<1>8. answer.status = NotFound <=>
         \A i \in {0} \cup RemotesOf(path.collection) :
            MirrorFile(i, path.collection, path.name) \notin files
  BY <1>6, <1>7, MirrorsAnswer
<1> QED
  BY <1>5, <1>8, TriedFiles

(* A response that ends with success is whole, nothing reaches into a message that *)
(* has ended, and a mirrored ref is found if, and only if, its mirror or a remote  *)
(* of its collection has it.                                                 *)
THEOREM ResponsesRight == Spec => ResponsesAreRight
<1>1. RInv /\ RInv' /\ [Next]_vars => WholeUnlessFailed' /\ NothingAfterEnd /\ MirrorsResolve
  <2>1. RInv' => WholeUnlessFailed'
    BY Whole, PTL
  <2> QED
    BY <2>1, NothingMovesAfterEnd, MirrorsAreTried
<1>2. RInv /\ RInv' /\ [Next]_vars => [WholeUnlessFailed' /\ NothingAfterEnd /\ MirrorsResolve]_vars
  BY <1>1
<1> QED
  BY <1>2, MessagesAreWellFormed, PTL DEF Spec, ResponsesAreRight

-----------------------------------------------------------------------------
(* The configuration: for any number of files, with any contents, and any edits. *)

Loadable == UNION {Loads(f) : f \in Files}

\* What a place of the hierarchy has to say: a file, or the defaults after all files.
Source(files_read, i) == IF i <= N THEN files_read[i] ELSE Default

\* The first place with a key, of the files read and the defaults, which answers it.
AnsweredAt(files_read, k, i, answer) ==
    /\ i \in 1..N + 1
    /\ i <= N => i <= Len(files_read)
    /\ \A j \in 1..N : j < i => j <= Len(files_read) /\ ~HasKey(files_read[j], k)
    /\ HasKey(Source(files_read, i), k)
    /\ answer = <<Source(files_read, i).value[k]>>

Answers(files_read, k, answer) == \E i \in 1..N + 1 : AnsweredAt(files_read, k, i, answer)

\* An answer is what the files read say for good.
AnswersKept == \A k \in Keys : answers[k] # <<>> => Answers(key_files, k, answers[k])

\* As long as no query failed and nothing is edited, what was read is what is there.
ReadAsIs ==
    edits = 0 /\ ~failed =>
        \A i \in 1..Len(key_files) : /\ key_files[i] = disk[i].contents
                                     /\ disk[i].state # "broken"

CInv == FilesTypeOK /\ AnswersKept /\ ReadAsIs

\* More has been read, what was read before stays.
Grows(read, more) ==
    /\ read \in Seq(Loadable) /\ more \in Seq(Loadable) /\ Len(read) <= Len(more)
    /\ \A j \in 1..Len(read) : more[j] = read[j]

LEMMA AnswerStays ==
  ASSUME NEW read, NEW more, Grows(read, more), Len(more) <= N,
         NEW k, NEW i, NEW answer, AnsweredAt(read, k, i, answer)
  PROVE  AnsweredAt(more, k, i, answer)
<1>1. i \in 1..N + 1 /\ N \in Nat /\ Len(read) \in Nat /\ Len(more) \in Nat
  BY NAssumption, LenProperties DEF AnsweredAt, Grows
<1>2. i <= N => i \in 1..Len(read) /\ more[i] = read[i] /\ i <= Len(more)
  BY <1>1 DEF AnsweredAt, Grows
<1>3. Source(more, i) = Source(read, i)
  BY <1>2 DEF Source
<1>4. ASSUME NEW j \in 1..N, j < i
      PROVE  j <= Len(more) /\ ~HasKey(more[j], k)
  <2>1. j <= Len(read) /\ ~HasKey(read[j], k)
    BY <1>4 DEF AnsweredAt
  <2>2. j \in 1..Len(read)
    BY <1>1, <2>1
  <2> QED
    BY <1>1, <2>1, <2>2 DEF Grows
<1> QED
  BY <1>2, <1>3, <1>4 DEF AnsweredAt

LEMMA OneAnswer ==
  ASSUME NEW read, NEW k, NEW a, NEW b, Answers(read, k, a), Answers(read, k, b)
  PROVE  a = b
<1>1. PICK i \in 1..N + 1 : AnsweredAt(read, k, i, a)
  BY DEF Answers
<1>2. PICK j \in 1..N + 1 : AnsweredAt(read, k, j, b)
  BY DEF Answers
<1>3. N \in Nat
  BY NAssumption
<1>4. ASSUME NEW m \in 1..N + 1, NEW n \in 1..N + 1, m < n
      PROVE  m \in 1..N
  BY <1>3, <1>4
<1>5. ~(i < j)
  <2>1. i < j => i \in 1..N /\ Source(read, i) = read[i]
    BY <1>3, <1>4 DEF Source
  <2> QED
    BY <1>1, <1>2, <2>1 DEF AnsweredAt
<1>6. ~(j < i)
  <2>1. j < i => j \in 1..N /\ Source(read, j) = read[j]
    BY <1>3, <1>4 DEF Source
  <2> QED
    BY <1>1, <1>2, <2>1 DEF AnsweredAt
<1>7. i = j
  BY <1>3, <1>5, <1>6
<1> QED
  BY <1>1, <1>2, <1>7 DEF AnsweredAt

\* Answers are kept when more is read, and the same for what was answered before.
LEMMA AnswersStay ==
  ASSUME NEW read, NEW more, Grows(read, more), Len(more) <= N,
         NEW k, NEW answer, Answers(read, k, answer)
  PROVE  Answers(more, k, answer)
  BY AnswerStays DEF Answers

\* euu_config_file_ensure_loaded.
LEMMA Loading ==
  ASSUME FilesTypeOK, NEW upto \in 0..N, ensure_loaded(upto)
  PROVE  /\ Grows(key_files, key_files') /\ Len(key_files') <= N
         /\ Len(key_files') = IF upto <= Len(key_files) THEN Len(key_files) ELSE upto
         /\ \A j \in Len(key_files) + 1..Len(key_files') : key_files'[j] \in Loads(disk[j])
<1>1. /\ key_files \in Seq(Loadable) /\ Len(key_files) <= N /\ N \in Nat
      /\ Len(key_files) \in Nat /\ disk \in [1..N -> Files]
  BY NAssumption, LenProperties DEF FilesTypeOK, Loadable
<1>2. CASE upto <= Len(key_files)
  <2>1. key_files' = key_files
    BY <1>2 DEF ensure_loaded
  <2> QED
    BY <1>1, <1>2, <2>1 DEF Grows
<1>3. CASE ~(upto <= Len(key_files))
  <2> DEFINE from == Len(key_files)
             possible == UNION {Loads(disk[i]) : i \in 1..N}
  <2>1. PICK loaded \in [1..upto - from -> possible] :
           /\ \A i \in 1..upto - from : loaded[i] \in Loads(disk[from + i])
           /\ key_files' = key_files \o loaded
    BY <1>3 DEF ensure_loaded
  <2>2. possible \subseteq Loadable
    BY <1>1 DEF Loadable
  <2>3. upto - from \in Nat
    BY <1>1, <1>3
  <2>4. loaded \in Seq(Loadable) /\ Len(loaded) = upto - from
    <3>1. loaded \in [1..upto - from -> Loadable]
      BY <2>2
    <3> QED
      BY <2>3, <3>1
  <2> HIDE DEF from, possible
  <2>5. /\ key_files' \in Seq(Loadable) /\ Len(key_files') = Len(key_files) + Len(loaded)
        /\ \A j \in 1..Len(key_files) + Len(loaded) :
              key_files'[j] = IF j <= Len(key_files) THEN key_files[j] ELSE loaded[j - Len(key_files)]
    BY <1>1, <2>1, <2>4, ConcatProperties
  <2>6. Len(key_files') = upto
    BY <1>1, <2>4, <2>5 DEF from
  <2>7. Grows(key_files, key_files')
    BY <1>1, <1>3, <2>5, <2>6 DEF Grows
  <2>8. ASSUME NEW j \in Len(key_files) + 1..Len(key_files')
        PROVE  key_files'[j] \in Loads(disk[j])
    <3>1. j - Len(key_files) \in 1..upto - from /\ from + (j - Len(key_files)) = j
      BY <1>1, <2>6 DEF from
    <3>2. key_files'[j] = loaded[j - Len(key_files)]
      BY <1>1, <2>4, <2>5, <2>6
    <3>3. loaded[j - Len(key_files)] \in Loads(disk[from + (j - Len(key_files))])
      BY <2>1, <3>1
    <3> QED
      BY <3>1, <3>2, <3>3
  <2> QED
    BY <1>1, <1>3, <2>6, <2>7, <2>8
<1> QED
  BY <1>2, <1>3

\* A file that is not broken is read as it is; one that is missing has no keys.
LEMMA ReadsWhatIsThere ==
  ASSUME NEW f \in Files, f.state # "broken"
  PROVE  /\ \A read \in Loads(f) : read = f.contents
         /\ f.state # "missing" => f.state = "ok"
         /\ f.state = "missing" => \A k : ~HasKey(f.contents, k)
<1>1. CASE f \in [state : {"missing"}, contents : {Empty}]
  <2>1. f.state = "missing" /\ f.contents = Empty
    BY <1>1
  <2>2. \A k : ~HasKey(Empty, k)
    BY DEF HasKey, Empty
  <2> QED
    BY <2>1, <2>2 DEF Loads
<1>2. CASE f.state = "ok"
  BY <1>2 DEF Loads
<1> QED
  BY <1>1, <1>2 DEF Files

LEMMA EndIsFirst ==
  ASSUME FilesTypeOK, NEW k
  PROVE  /\ End(k) \in Ending(k) \cup {N + 1} /\ End(k) \in 1..N + 1
         /\ \A j \in 1..N : j < End(k) => j \notin Ending(k)
         /\ Min({End(k), N}) = IF End(k) <= N THEN End(k) ELSE N
<1>1. N \in Nat /\ Len(key_files) \in Nat /\ Len(key_files) <= N
  BY NAssumption, LenProperties DEF FilesTypeOK, Loadable
<1>2. Ending(k) \subseteq 1..N
  BY <1>1 DEF Ending, Failing
<1>3. Ending(k) \cup {N + 1} \in SUBSET Nat /\ Ending(k) \cup {N + 1} # {}
  BY <1>1, <1>2
<1>4. End(k) \in Ending(k) \cup {N + 1} /\ \A j \in Ending(k) \cup {N + 1} : End(k) <= j
  BY <1>3, Smallest DEF End
<1>5. End(k) \in 1..N + 1
  BY <1>1, <1>2, <1>4
<1>6. \A j \in 1..N : j < End(k) => j \notin Ending(k)
  BY <1>1, <1>4, <1>5
<1>7. /\ Min({End(k), N}) \in {End(k), N}
      /\ Min({End(k), N}) <= End(k) /\ Min({End(k), N}) <= N
  <2>1. {End(k), N} \in SUBSET Nat /\ {End(k), N} # {}
    BY <1>1, <1>5
  <2> QED
    BY <2>1, Smallest
<1>8. Min({End(k), N}) = IF End(k) <= N THEN End(k) ELSE N
  BY <1>1, <1>5, <1>7
<1> QED
  BY <1>4, <1>5, <1>6, <1>8

\* What a query loads: it stops at the first file that is broken or has the key.
LEMMA GetLoads ==
  ASSUME FilesTypeOK, NEW k, ensure_loaded(Min({End(k), N}))
  PROVE  /\ Grows(key_files, key_files') /\ Len(key_files') <= N
         /\ Len(key_files') \in Nat
         /\ \A j \in 1..N : j <= End(k) => j <= Len(key_files')
         /\ \A j \in Len(key_files) + 1..Len(key_files') :
               j \in 1..N /\ j <= End(k) /\ key_files'[j] \in Loads(disk[j])
<1>1. N \in Nat /\ Len(key_files) \in Nat /\ Len(key_files) <= N
  BY NAssumption, LenProperties DEF FilesTypeOK, Loadable
<1>2. /\ End(k) \in 1..N + 1
      /\ Min({End(k), N}) = IF End(k) <= N THEN End(k) ELSE N
  BY EndIsFirst
<1>3. PICK upto \in 0..N : upto = Min({End(k), N})
  BY <1>1, <1>2
<1>4. ensure_loaded(upto)
  BY <1>3
<1>5. /\ Grows(key_files, key_files') /\ Len(key_files') <= N
      /\ Len(key_files') = IF upto <= Len(key_files) THEN Len(key_files) ELSE upto
      /\ \A j \in Len(key_files) + 1..Len(key_files') : key_files'[j] \in Loads(disk[j])
  BY <1>4, Loading
<1>6. Len(key_files') \in Nat
  BY <1>1, <1>5
<1>7. \A j \in 1..N : j <= End(k) => j <= Len(key_files')
  BY <1>1, <1>2, <1>3, <1>5
<1>8. \A j \in Len(key_files) + 1..Len(key_files') : j \in 1..N /\ j <= End(k)
  BY <1>1, <1>2, <1>3, <1>5
<1> QED
  BY <1>5, <1>6, <1>7, <1>8

\* A query that ends at no broken file has read what is there.
LEMMA GetReadsAsIs ==
  ASSUME FilesTypeOK, NEW k, ensure_loaded(Min({End(k), N})), End(k) \notin Failing
  PROVE  \A j \in Len(key_files) + 1..Len(key_files') :
            key_files'[j] = disk[j].contents /\ disk[j].state # "broken"
<1> SUFFICES ASSUME NEW j \in Len(key_files) + 1..Len(key_files')
             PROVE  key_files'[j] = disk[j].contents /\ disk[j].state # "broken"
  OBVIOUS
<1>1. N \in Nat /\ Len(key_files) \in Nat
  BY NAssumption, LenProperties DEF FilesTypeOK, Loadable
<1>2. j \in 1..N /\ j <= End(k) /\ key_files'[j] \in Loads(disk[j])
  BY GetLoads
<1>3. j \notin Failing
  <2>1. j = End(k) \/ j \notin Ending(k)
    BY <1>1, <1>2, EndIsFirst
  <2> QED
    BY <2>1 DEF Ending
<1>4. j \in Len(key_files) + 1..N
  BY <1>1, <1>2
<1>5. disk[j].state # "broken"
  BY <1>3, <1>4 DEF Failing
<1>6. disk[j] \in Files
  BY <1>2 DEF FilesTypeOK
<1> QED
  BY <1>2, <1>5, <1>6, ReadsWhatIsThere

\* A key that is found is answered by the first of all files that has it.
LEMMA GetAnswers ==
  ASSUME FilesTypeOK, NEW k, ensure_loaded(Min({End(k), N})),
         End(k) \notin Failing, HasKey(Holder(k, End(k)), k)
  PROVE  Answers(key_files', k, <<Holder(k, End(k)).value[k]>>)
<1> DEFINE i == End(k)
<1>1. N \in Nat /\ Len(key_files) \in Nat /\ Len(key_files) <= N
  BY NAssumption, LenProperties DEF FilesTypeOK, Loadable
<1>2. /\ i \in Ending(k) \cup {N + 1} /\ i \in 1..N + 1
      /\ \A j \in 1..N : j < i => j \notin Ending(k)
  BY EndIsFirst
<1>3. /\ Grows(key_files, key_files') /\ Len(key_files') \in Nat
      /\ \A j \in 1..N : j <= i => j <= Len(key_files')
  BY GetLoads
<1>4. \A j \in Len(key_files) + 1..Len(key_files') :
         key_files'[j] = disk[j].contents /\ disk[j].state # "broken"
  BY GetReadsAsIs
<1> HIDE DEF i
<1>5. ASSUME NEW j \in 1..N, j < i
      PROVE  j <= Len(key_files') /\ ~HasKey(key_files'[j], k)
  <2>1. j <= Len(key_files') /\ j \notin Ending(k)
    BY <1>1, <1>2, <1>3, <1>5
  <2>2. CASE j <= Len(key_files)
    <3>1. key_files'[j] = key_files[j] /\ j \in 1..Len(key_files)
      BY <1>1, <1>3, <2>2 DEF Grows
    <3> QED
      BY <2>1, <3>1 DEF Ending
  <2>3. CASE ~(j <= Len(key_files))
    <3>1. j \in Len(key_files) + 1..N /\ j \in Len(key_files) + 1..Len(key_files')
      BY <1>1, <1>3, <2>1, <2>3
    <3>2. key_files'[j] = disk[j].contents /\ disk[j].state # "broken"
      BY <1>4, <3>1
    <3>3. disk[j].state = "ok" => ~HasKey(disk[j].contents, k)
      BY <2>1, <3>1 DEF Ending
    <3>4. disk[j] \in Files
      BY DEF FilesTypeOK
    <3> QED
      BY <2>1, <3>2, <3>3, <3>4, ReadsWhatIsThere
  <2> QED
    BY <2>2, <2>3
<1>6. (i <= N => i <= Len(key_files')) /\ Source(key_files', i) = Holder(k, i)
  <2>1. CASE i <= Len(key_files)
    <3>1. i \in 1..Len(key_files) /\ i <= N /\ i \in 1..N
      BY <1>1, <1>2, <2>1
    <3>2. key_files'[i] = key_files[i] /\ i <= Len(key_files')
      BY <1>1, <1>3, <3>1 DEF Grows
    <3> QED
      BY <2>1, <3>1, <3>2 DEF Source, Holder
  <2>2. CASE ~(i <= Len(key_files)) /\ i <= N
    <3>1. i \in 1..N /\ i <= Len(key_files')
      BY <1>1, <1>2, <1>3, <2>2
    <3>2. i \in Len(key_files) + 1..Len(key_files')
      BY <1>1, <1>3, <2>2, <3>1
    <3>3. key_files'[i] = disk[i].contents
      BY <1>4, <3>2
    <3> QED
      BY <2>2, <3>1, <3>3 DEF Source, Holder
  <2>3. CASE ~(i <= Len(key_files)) /\ ~(i <= N)
    BY <2>3 DEF Source, Holder
  <2> QED
    BY <2>1, <2>2, <2>3
<1>7. HasKey(Holder(k, i), k)
  BY DEF i
<1>8. AnsweredAt(key_files', k, i, <<Holder(k, i).value[k]>>)
  BY <1>2, <1>5, <1>6, <1>7 DEF AnsweredAt
<1> QED
  BY <1>2, <1>8 DEF Answers, i

\* What a query does: more is read, answers stay, and errors do.
Queries ==
    /\ CInv'
    /\ Grows(key_files, key_files')
    /\ StableAnswers
    /\ failed => failed'
    /\ aborted => aborted'
    /\ UNCHANGED <<disk, edits>>

\* What was read as it is stays so when more is.
LEMMA MoreIsAsIs ==
  ASSUME CInv, Grows(key_files, key_files'), Len(key_files') \in Nat, UNCHANGED <<disk, edits>>,
         ~failed' => ~failed,
         ~failed' => \A j \in Len(key_files) + 1..Len(key_files') :
                        key_files'[j] = disk[j].contents /\ disk[j].state # "broken"
  PROVE  ReadAsIs'
<1> SUFFICES ASSUME edits' = 0, ~failed', NEW i \in 1..Len(key_files')
             PROVE  key_files'[i] = disk'[i].contents /\ disk'[i].state # "broken"
  BY DEF ReadAsIs
<1>1. Len(key_files) \in Nat
  BY LenProperties DEF Grows
<1>2. CASE i \in 1..Len(key_files)
  BY <1>2 DEF CInv, ReadAsIs, Grows
<1>3. CASE i \in Len(key_files) + 1..Len(key_files')
  BY <1>3
<1> QED
  BY <1>1, <1>2, <1>3

LEMMA GetStep ==
  ASSUME CInv, NEW k \in Keys, Get(k)
  PROVE  /\ Queries
         /\ ~failed' /\ ~aborted' => answers'[k] # <<>>
<1>1. FilesTypeOK /\ AnswersKept /\ ReadAsIs
  BY DEF CInv
<1>2. ensure_loaded(Min({End(k), N})) /\ UNCHANGED <<disk, edits>> /\ ~aborted
  BY DEF Get
<1>3. /\ Grows(key_files, key_files') /\ Len(key_files') <= N /\ Len(key_files') \in Nat
  BY <1>1, <1>2, GetLoads
<1>4. key_files' \in Seq(UNION {Loads(f) : f \in Files})
  BY <1>3 DEF Grows, Loadable
<1>5. \A j \in Keys : answers[j] # <<>> => Answers(key_files', j, answers[j])
  BY <1>1, <1>3, AnswersStay DEF AnswersKept
<1>6. CASE End(k) \in Failing
  <2>1. failed' = TRUE /\ UNCHANGED <<answers, aborted>>
    BY <1>6 DEF Get
  <2>2. FilesTypeOK'
    BY <1>1, <1>2, <1>3, <1>4, <2>1 DEF FilesTypeOK
  <2>3. AnswersKept'
    BY <1>5, <2>1 DEF AnswersKept
  <2>4. ReadAsIs'
    BY <2>1 DEF ReadAsIs
  <2> QED
    BY <1>2, <1>3, <2>1, <2>2, <2>3, <2>4 DEF Queries, CInv, StableAnswers
<1>7. CASE End(k) \notin Failing
  <2>1. \A j \in Len(key_files) + 1..Len(key_files') :
           key_files'[j] = disk[j].contents /\ disk[j].state # "broken"
    BY <1>1, <1>2, <1>7, GetReadsAsIs
  <2>2. failed' = failed
    BY <1>7 DEF Get
  <2>3. ReadAsIs'
    BY <1>2, <1>3, <2>1, <2>2, MoreIsAsIs
  <2>4. CASE HasKey(Holder(k, End(k)), k)
    <3> DEFINE answer == <<Holder(k, End(k)).value[k]>>
    <3>1. answers' = [answers EXCEPT ![k] = answer] /\ aborted' = aborted
      BY <1>7, <2>4 DEF Get
    <3>2. Answers(key_files', k, answer)
      BY <1>1, <1>2, <1>7, <2>4, GetAnswers
    <3>3. answer # <<>> /\ Len(answer) = 1
      OBVIOUS
    <3> HIDE DEF answer
    <3>4. DOMAIN answers = Keys
      BY <1>1 DEF FilesTypeOK
    <3>5. /\ answers'[k] = answer /\ DOMAIN answers' = Keys
          /\ \A j \in Keys : j # k => answers'[j] = answers[j]
      BY <3>1, <3>4
    <3>6. FilesTypeOK'
      <4>1. \A j \in Keys : Len(answers[j]) <= 1
        BY <1>1 DEF FilesTypeOK
      <4>2. ASSUME NEW j \in Keys
            PROVE  Len(answers'[j]) <= 1
        <5>1. Len(answer) <= 1
          BY <3>3
        <5> QED
          BY <3>5, <4>1, <5>1
      <4> QED
        BY <1>1, <1>2, <1>3, <1>4, <2>2, <3>1, <3>5, <4>2 DEF FilesTypeOK
    <3>7. AnswersKept'
      BY <1>5, <3>2, <3>5 DEF AnswersKept
    <3>8. answers[k] # <<>> => answers[k] = answer
      BY <1>5, <3>2, OneAnswer
    <3>9. StableAnswers
      BY <3>5, <3>8 DEF StableAnswers
    <3> QED
      BY <1>2, <1>3, <2>2, <2>3, <3>1, <3>3, <3>5, <3>6, <3>7, <3>9 DEF Queries, CInv
  <2>5. CASE ~HasKey(Holder(k, End(k)), k)
    <3>1. aborted' = TRUE /\ UNCHANGED answers
      BY <1>7, <2>5 DEF Get
    <3>2. FilesTypeOK'
      BY <1>1, <1>2, <1>3, <1>4, <2>2, <3>1 DEF FilesTypeOK
    <3>3. AnswersKept'
      BY <1>5, <3>1 DEF AnswersKept
    <3> QED
      BY <1>2, <1>3, <2>2, <2>3, <3>1, <3>2, <3>3 DEF Queries, CInv, StableAnswers
  <2> QED
    BY <2>4, <2>5
<1> QED
  BY <1>6, <1>7

LEMMA GroupsStep ==
  ASSUME CInv, get_groups
  PROVE  /\ Queries
         /\ ~aborted'
         /\ ~failed' => Len(key_files') = N
<1>1. FilesTypeOK /\ AnswersKept /\ ReadAsIs
  BY DEF CInv
<1>2. /\ ensure_loaded(Min(Failing \cup {N})) /\ ~aborted
      /\ UNCHANGED <<disk, answers, aborted, edits>>
      /\ failed' = (failed \/ Failing # {})
  BY DEF get_groups
<1>3. N \in Nat /\ Len(key_files) \in Nat /\ Len(key_files) <= N
  BY <1>1, NAssumption, LenProperties DEF FilesTypeOK, Loadable
<1>4. failed \in BOOLEAN /\ (failed' <=> failed \/ Failing # {})
  BY <1>1, <1>2 DEF FilesTypeOK
<1>5. Min(Failing \cup {N}) \in 0..N /\ (Failing = {} => Min(Failing \cup {N}) = N)
  <2>1. Failing \cup {N} \in SUBSET Nat /\ Failing \cup {N} \subseteq 0..N /\ Failing \cup {N} # {}
    BY <1>3 DEF Failing
  <2> QED
    BY <2>1, Smallest
<1>6. PICK upto \in 0..N : upto = Min(Failing \cup {N})
  BY <1>5
<1>7. ensure_loaded(upto)
  BY <1>2, <1>6
<1>8. /\ Grows(key_files, key_files') /\ Len(key_files') <= N
      /\ Len(key_files') = IF upto <= Len(key_files) THEN Len(key_files) ELSE upto
      /\ \A j \in Len(key_files) + 1..Len(key_files') : key_files'[j] \in Loads(disk[j])
  BY <1>1, <1>7, Loading
<1>9. Len(key_files') \in Nat /\ (Failing = {} => Len(key_files') = N)
  BY <1>3, <1>5, <1>6, <1>8
<1>10. FilesTypeOK'
  <2>1. key_files' \in Seq(UNION {Loads(f) : f \in Files})
    BY <1>8 DEF Grows, Loadable
  <2>2. failed' \in BOOLEAN
    BY <1>2, Zenon
  <2> QED
    BY <1>1, <1>2, <1>8, <2>1, <2>2 DEF FilesTypeOK
<1>11. AnswersKept'
  BY <1>1, <1>2, <1>8, AnswersStay DEF AnswersKept
<1>12. ASSUME Failing = {}, NEW j \in Len(key_files) + 1..Len(key_files')
       PROVE  key_files'[j] = disk[j].contents /\ disk[j].state # "broken"
  <2>1. j \in Len(key_files) + 1..N /\ j \in 1..N
    BY <1>3, <1>8, <1>9, <1>12
  <2>2. disk[j].state # "broken"
    BY <1>12, <2>1 DEF Failing
  <2>3. disk[j] \in Files
    BY <1>1, <2>1 DEF FilesTypeOK
  <2> QED
    BY <1>8, <2>2, <2>3, ReadsWhatIsThere
<1>13. ReadAsIs'
  BY <1>2, <1>4, <1>8, <1>9, <1>12, MoreIsAsIs
<1> QED
  BY <1>2, <1>4, <1>8, <1>9, <1>10, <1>11, <1>13 DEF Queries, CInv, StableAnswers

LEMMA EditStep ==
  ASSUME CInv, NEW i \in 1..N, Edit(i)
  PROVE  /\ CInv' /\ edits' # 0
         /\ UNCHANGED <<key_files, answers, failed, aborted>>
<1>1. /\ edits < MaxEdits /\ edits' = edits + 1
      /\ UNCHANGED <<key_files, answers, failed, aborted>>
  BY DEF Edit
<1>2. PICK f \in Files : disk' = [disk EXCEPT ![i] = f]
  BY DEF Edit
<1>3. disk' \in [1..N -> Files]
  BY <1>2 DEF CInv, FilesTypeOK
<1>4. edits' \in 0..MaxEdits /\ edits' # 0
  BY <1>1, NAssumption DEF CInv, FilesTypeOK
<1>5. FilesTypeOK'
  BY <1>1, <1>3, <1>4 DEF CInv, FilesTypeOK
<1>6. AnswersKept' /\ ReadAsIs'
  BY <1>1, <1>4 DEF CInv, AnswersKept, ReadAsIs
<1> QED
  BY <1>1, <1>4, <1>5, <1>6 DEF CInv

\* What is answered, nothing having failed or been edited, is the first file's value.
LEMMA FirstFileAnswers == CInv => FirstFileWinsUnlessFailed
<1> SUFFICES ASSUME CInv, NEW k \in Keys, answers[k] # <<>>, ~failed, edits = 0
             PROVE  answers[k] = <<First(k)>>
  BY DEF FirstFileWinsUnlessFailed
<1> DEFINE having == {i \in 1..N : disk[i].state # "missing" /\ HasKey(disk[i].contents, k)}
<1>1. N \in Nat /\ Len(key_files) \in Nat /\ Len(key_files) <= N
  BY NAssumption, LenProperties DEF CInv, FilesTypeOK, Loadable
<1>2. PICK i \in 1..N + 1 : AnsweredAt(key_files, k, i, answers[k])
  BY DEF CInv, AnswersKept, Answers
<1>3. \A j \in 1..N : j < i => j \notin having
  <2> SUFFICES ASSUME NEW j \in 1..N, j < i
               PROVE  ~HasKey(disk[j].contents, k)
    OBVIOUS
  <2>1. j \in 1..Len(key_files) /\ ~HasKey(key_files[j], k)
    BY <1>1, <1>2 DEF AnsweredAt
  <2> QED
    BY <2>1 DEF CInv, ReadAsIs
<1>4. CASE i <= N
  <2>1. i \in 1..N /\ i \in 1..Len(key_files)
    BY <1>1, <1>2, <1>4 DEF AnsweredAt
  <2>2. key_files[i] = disk[i].contents /\ disk[i].state # "broken" /\ disk[i] \in Files
    BY <2>1 DEF CInv, ReadAsIs, FilesTypeOK
  <2>3. HasKey(disk[i].contents, k) /\ answers[k] = <<disk[i].contents.value[k]>>
    BY <1>2, <1>4, <2>2 DEF AnsweredAt, Source
  <2>4. i \in having
    BY <2>1, <2>2, <2>3, ReadsWhatIsThere
  <2>5. having \in SUBSET Nat
    BY <1>1
  <2>6. Min(having) \in having /\ Min(having) <= i
    BY <2>4, <2>5, Smallest
  <2>7. Min(having) = i
    BY <1>1, <1>3, <2>1, <2>6
  <2> QED
    BY <2>3, <2>4, <2>7 DEF First
<1>5. CASE ~(i <= N)
  <2>1. having = {}
    BY <1>1, <1>2, <1>3, <1>5
  <2>2. answers[k] = <<Default.value[k]>>
    BY <1>2, <1>5 DEF AnsweredAt, Source
  <2> QED
    BY <2>1, <2>2 DEF First
<1> QED
  BY <1>4, <1>5

-----------------------------------------------------------------------------
(* eus_read_config_file, among any edits.                                    *)

\* The groups that are repositories, and those of them that have been read.
Named == Groups \cap DOMAIN IndexOf
Taken == IF pc = "remote" THEN (Named \ todo) \ {group} ELSE Named \ todo

Repository(g) == [group |-> g, index |-> IndexOf[g],
                  path |-> answers[Path(g)], remote |-> answers[RemoteName(g)]]

AdvertiseIsRead ==
    pc \in {"groups", "next", "remote", "done"} =>
       /\ ~failed /\ ~aborted
       /\ answers[Advertise] # <<>>
       /\ advertise_updates \in BOOLEAN
       /\ advertise_updates <=> answers[Advertise] = <<"true">>

GroupsAreRead ==
    pc \in {"next", "remote", "done"} =>
       /\ Len(key_files) = N /\ todo \subseteq Named
       /\ pc = "remote" => group \in Named \ todo /\ answers[Path(group)] # <<>>
       /\ pc = "done" => todo = {}

RepositoriesAreRead ==
    pc \in {"next", "remote", "done"} =>
       /\ \A g \in Taken : answers[Path(g)] # <<>> /\ answers[RemoteName(g)] # <<>>
       /\ repository_configs = {Repository(g) : g \in Taken}
       /\ \A c, d \in repository_configs : c.index = d.index => c = d

RdInv ==
    /\ CInv
    /\ pc \in {"start", "groups", "next", "remote", "done", "failed", "aborted", "other"}
    /\ AdvertiseIsRead /\ GroupsAreRead /\ RepositoriesAreRead
    /\ pc \in {"start", "groups"} => repository_configs = {}

LEMMA KeysOfGroups ==
  /\ Advertise \in Keys
  /\ \A g \in DOMAIN IndexOf : Path(g) \in Keys /\ RemoteName(g) \in Keys
  BY KeysAssumption

LEMMA ReadAdvertiseStep ==
  ASSUME RdInv, ReadAdvertise
  PROVE  RdInv' /\ StableAnswers
<1>1. /\ Get(Advertise) /\ CInv
      /\ repository_configs' = {}
      /\ advertise_updates' = (answers'[Advertise] = <<"true">>)
  BY DEF ReadAdvertise, RdInv
<1>2. Queries /\ (~failed' /\ ~aborted' => answers'[Advertise] # <<>>)
  BY <1>1, GetStep, KeysOfGroups
<1>3. \/ pc' = "failed" \/ pc' = "aborted"
      \/ pc' = "groups" /\ ~failed' /\ ~aborted'
  BY DEF ReadAdvertise, Continue
<1>4. advertise_updates' \in BOOLEAN /\ (advertise_updates' <=> answers'[Advertise] = <<"true">>)
  BY <1>1, Zenon
<1> QED
  BY <1>1, <1>2, <1>3, <1>4
     DEF RdInv, Queries, AdvertiseIsRead, GroupsAreRead, RepositoriesAreRead

LEMMA ReadGroupsStep ==
  ASSUME RdInv, ReadGroups
  PROVE  RdInv' /\ StableAnswers
<1>1. /\ get_groups /\ CInv /\ pc = "groups"
      /\ repository_configs = {} /\ UNCHANGED <<advertise_updates, repository_configs>>
      /\ todo' = Named'
  BY DEF ReadGroups, RdInv, Named
<1>2. /\ Queries /\ ~aborted' /\ (~failed' => Len(key_files') = N)
      /\ UNCHANGED answers
  BY <1>1, GroupsStep DEF get_groups
<1>3. pc' = "failed" \/ (pc' = "next" /\ ~failed')
  BY <1>2 DEF ReadGroups, Continue
<1>4. AdvertiseIsRead'
  BY <1>1, <1>2, <1>3 DEF RdInv, AdvertiseIsRead
<1>5. GroupsAreRead'
  BY <1>1, <1>2, <1>3 DEF GroupsAreRead
<1>6. pc' = "next" => Taken' = {}
  BY <1>1 DEF Taken
<1>7. RepositoriesAreRead'
  BY <1>1, <1>3, <1>6 DEF RepositoriesAreRead
<1> QED
  BY <1>2, <1>3, <1>4, <1>5, <1>7 DEF RdInv, Queries

\* When all files are read no query reads more, and what is answered stays.
LEMMA NothingMoreIsRead ==
  ASSUME CInv, Queries, Len(key_files) = N
  PROVE  /\ key_files' = key_files /\ Named' = Named
         /\ \A k \in Keys : answers[k] # <<>> => answers'[k] = answers[k]
<1>1. /\ Len(key_files') <= N /\ key_files' \in Seq(Loadable) /\ key_files \in Seq(Loadable)
      /\ Len(key_files) <= Len(key_files')
      /\ \A j \in 1..Len(key_files) : key_files'[j] = key_files[j]
  BY DEF Queries, CInv, FilesTypeOK, Grows
<1>2. Len(key_files') = Len(key_files)
  <2>1. Len(key_files') \in Nat /\ Len(key_files) \in Nat
    BY <1>1, LenProperties
  <2> QED
    BY <1>1, <2>1
<1>3. key_files' = key_files
  BY <1>1, <1>2, SeqEqual
<1> QED
  BY <1>3 DEF Named, Groups, Queries, StableAnswers

LEMMA ReadPathStep ==
  ASSUME RdInv, ReadPath
  PROVE  RdInv' /\ StableAnswers
<1>1. PICK g \in todo :
         /\ group' = g /\ todo' = todo \ {g}
         /\ \/ pc' = "failed" /\ UNCHANGED fileVars
            \/ Get(Path(g)) /\ Continue("remote")
  BY DEF ReadPath
<1>2. /\ CInv /\ pc = "next" /\ UNCHANGED <<advertise_updates, repository_configs>>
      /\ Len(key_files) = N /\ todo \subseteq Named /\ g \in Named /\ g \in DOMAIN IndexOf
  BY DEF ReadPath, RdInv, GroupsAreRead, Named
<1>3. CASE pc' = "failed" /\ UNCHANGED fileVars
  <2>1. FilesTypeOK'
    BY <1>2, <1>3 DEF CInv, FilesTypeOK, fileVars
  <2>2. AnswersKept' /\ ReadAsIs' /\ StableAnswers
    BY <1>2, <1>3 DEF CInv, AnswersKept, ReadAsIs, fileVars, StableAnswers
  <2> QED
    BY <1>3, <2>1, <2>2 DEF RdInv, CInv, AdvertiseIsRead, GroupsAreRead, RepositoriesAreRead
<1>4. CASE Get(Path(g)) /\ Continue("remote")
  <2>1. Queries /\ (~failed' /\ ~aborted' => answers'[Path(g)] # <<>>)
    BY <1>2, <1>4, GetStep, KeysOfGroups
  <2>2. /\ key_files' = key_files /\ Named' = Named
        /\ \A k \in Keys : answers[k] # <<>> => answers'[k] = answers[k]
    BY <1>2, <2>1, NothingMoreIsRead
  <2>3. pc' \in {"failed", "aborted"} \/ (pc' = "remote" /\ ~failed' /\ ~aborted')
    BY <1>4 DEF Continue
  <2>4. AdvertiseIsRead'
    BY <1>2, <2>2, <2>3, KeysOfGroups DEF RdInv, AdvertiseIsRead
  <2>5. GroupsAreRead'
    BY <1>1, <1>2, <2>1, <2>2, <2>3 DEF GroupsAreRead
  <2>6. pc' = "remote" => Taken' = Taken
    BY <1>1, <1>2, <2>2 DEF Taken
  <2>7. Taken \subseteq DOMAIN IndexOf
    BY DEF Taken, Named
  <2>8. \A h \in Taken : answers[Path(h)] # <<>> /\ answers[RemoteName(h)] # <<>>
    BY <1>2 DEF RdInv, RepositoriesAreRead
  <2>9. \A h \in Taken : answers'[Path(h)] = answers[Path(h)] /\ answers'[RemoteName(h)] = answers[RemoteName(h)]
    BY <2>2, <2>7, <2>8, KeysOfGroups
  <2>10. \A h \in Taken : Repository(h)' = Repository(h)
    BY <2>9 DEF Repository
  <2>11. {Repository(h) : h \in Taken} = {Repository(h)' : h \in Taken}
    BY <2>10
  <2>12. RepositoriesAreRead'
    BY <1>2, <2>3, <2>6, <2>8, <2>9, <2>11 DEF RdInv, RepositoriesAreRead
  <2> QED
    BY <2>1, <2>3, <2>4, <2>5, <2>12 DEF RdInv, Queries
<1> QED
  BY <1>1, <1>3, <1>4

LEMMA ReadRemoteNameStep ==
  ASSUME RdInv, ReadRemoteName
  PROVE  RdInv' /\ StableAnswers
<1>1. /\ CInv /\ pc = "remote" /\ Get(RemoteName(group))
      /\ UNCHANGED <<todo, group, advertise_updates>>
      /\ Len(key_files) = N /\ todo \subseteq Named /\ group \in Named \ todo
      /\ group \in DOMAIN IndexOf /\ answers[Path(group)] # <<>>
  BY DEF ReadRemoteName, RdInv, GroupsAreRead, Named
<1>2. Queries /\ (~failed' /\ ~aborted' => answers'[RemoteName(group)] # <<>>)
  BY <1>1, GetStep, KeysOfGroups
<1>3. /\ key_files' = key_files /\ Named' = Named
      /\ \A k \in Keys : answers[k] # <<>> => answers'[k] = answers[k]
  BY <1>1, <1>2, NothingMoreIsRead
<1>4. CASE pc' \in {"failed", "aborted"}
  BY <1>2, <1>4 DEF RdInv, Queries, AdvertiseIsRead, GroupsAreRead, RepositoriesAreRead
<1>5. CASE /\ ~aborted' /\ ~failed' /\ IsNew(repository_configs, IndexOf[group])
           /\ repository_configs' = repository_configs \cup
                {[group |-> group, index |-> IndexOf[group],
                  path |-> answers'[Path(group)], remote |-> answers'[RemoteName(group)]]}
           /\ pc' = "next"
  <2>1. AdvertiseIsRead'
    BY <1>1, <1>3, <1>5, KeysOfGroups DEF RdInv, AdvertiseIsRead
  <2>2. GroupsAreRead'
    BY <1>1, <1>3, <1>5 DEF GroupsAreRead
  <2>3. Taken' = Taken \cup {group}
    BY <1>1, <1>3, <1>5 DEF Taken
  <2>4. Taken \subseteq DOMAIN IndexOf
    BY DEF Taken, Named
  <2>5. \A g \in Taken : answers[Path(g)] # <<>> /\ answers[RemoteName(g)] # <<>>
    BY <1>1 DEF RdInv, RepositoriesAreRead
  <2>6. \A g \in Taken : answers'[Path(g)] = answers[Path(g)] /\ answers'[RemoteName(g)] = answers[RemoteName(g)]
    BY <1>3, <2>4, <2>5, KeysOfGroups
  <2>7. answers'[Path(group)] # <<>> /\ answers'[RemoteName(group)] # <<>>
    BY <1>1, <1>2, <1>3, <1>5, KeysOfGroups
  <2>8. \A g \in Taken' : answers'[Path(g)] # <<>> /\ answers'[RemoteName(g)] # <<>>
    BY <2>3, <2>5, <2>6, <2>7
  <2>9. repository_configs' = {Repository(g)' : g \in Taken'}
    <3>1. \A g \in Taken : Repository(g)' = Repository(g)
      BY <2>6 DEF Repository
    <3>2. repository_configs = {Repository(g) : g \in Taken}
      BY <1>1 DEF RdInv, RepositoriesAreRead
    <3>3. repository_configs' = repository_configs \cup {Repository(group)'}
      BY <1>1, <1>5 DEF Repository
    <3>4. repository_configs = {Repository(g)' : g \in Taken}
      BY <3>1, <3>2
    <3>5. {Repository(g)' : g \in Taken'} = {Repository(g)' : g \in Taken} \cup {Repository(group)'}
      <4> DEFINE new(g) == Repository(g)'
      <4> HIDE DEF new
      <4>1. {new(g) : g \in Taken'} = {new(g) : g \in Taken} \cup {new(group)}
        BY <2>3, Zenon
      <4> QED
        BY <4>1 DEF new
    <3> QED
      BY <3>3, <3>4, <3>5
  <2>10. \A c, d \in repository_configs' : c.index = d.index => c = d
    <3> DEFINE new == [group |-> group, index |-> IndexOf[group],
                       path |-> answers'[Path(group)], remote |-> answers'[RemoteName(group)]]
    <3>1. repository_configs' = repository_configs \cup {new}
      BY <1>5
    <3>2. \A c \in repository_configs : c.index # new.index
      BY <1>5 DEF IsNew
    <3> HIDE DEF new
    <3>3. \A c, d \in repository_configs : c.index = d.index => c = d
      BY <1>1 DEF RdInv, RepositoriesAreRead
    <3> QED
      BY <3>1, <3>2, <3>3
  <2>11. RepositoriesAreRead'
    BY <2>8, <2>9, <2>10 DEF RepositoriesAreRead
  <2> QED
    BY <1>2, <1>5, <2>1, <2>2, <2>11 DEF RdInv, Queries
<1>6. /\ ~(pc' \in {"failed", "aborted"})
      => /\ ~aborted' /\ ~failed' /\ IsNew(repository_configs, IndexOf[group])
         /\ repository_configs' = repository_configs \cup
              {[group |-> group, index |-> IndexOf[group],
                path |-> answers'[Path(group)], remote |-> answers'[RemoteName(group)]]}
         /\ pc' = "next"
  BY DEF ReadRemoteName, Continue
<1>7. StableAnswers
  BY <1>2 DEF Queries
<1> QED
  BY <1>4, <1>5, <1>6, <1>7

\* Steps that leave the reader where it is, and those that leave the files alone.
LEMMA OthersStep ==
  ASSUME RdInv, OtherProgram \/ Administrator
  PROVE  RdInv' /\ StableAnswers
<1>1. CASE OtherProgram
  <2>1. pc = "other" /\ UNCHANGED reader /\ CInv
    BY <1>1 DEF OtherProgram, RdInv
  <2>2. get_groups \/ \E k \in Keys : Get(k)
    BY <1>1, KeysAssumption DEF OtherProgram
  <2>3. Queries
    BY <2>1, <2>2, GetStep, GroupsStep
  <2> QED
    BY <2>1, <2>3 DEF RdInv, Queries, reader, AdvertiseIsRead, GroupsAreRead, RepositoriesAreRead
<1>2. CASE Administrator
  <2>1. PICK i \in 1..N : Edit(i)
    BY <1>2 DEF Administrator
  <2>2. /\ CInv' /\ UNCHANGED <<key_files, answers, failed, aborted>>
    BY <2>1, EditStep DEF RdInv
  <2>3. UNCHANGED reader
    BY <1>2 DEF Administrator
  <2> QED
    BY <2>2, <2>3 DEF RdInv, reader, AdvertiseIsRead, GroupsAreRead, RepositoriesAreRead,
       Taken, Named, Groups, Repository, StableAnswers
<1> QED
  BY <1>1, <1>2

LEMMA FilesStay ==
  ASSUME CInv, UNCHANGED fileVars
  PROVE  CInv' /\ StableAnswers
<1>1. FilesTypeOK'
  BY DEF CInv, FilesTypeOK, fileVars
<1> QED
  BY <1>1 DEF CInv, AnswersKept, ReadAsIs, fileVars, StableAnswers

LEMMA DoneStep ==
  ASSUME RdInv, Done \/ UNCHANGED allVars
  PROVE  RdInv' /\ StableAnswers
<1>1. /\ UNCHANGED fileVars /\ CInv
      /\ UNCHANGED <<todo, group, advertise_updates, repository_configs>>
      /\ pc' = pc \/ (pc = "next" /\ pc' = "done" /\ todo = {})
  BY DEF Done, allVars, reader, RdInv
<1>2. CInv' /\ StableAnswers
  BY <1>1, FilesStay
<1>3. UNCHANGED <<disk, key_files, answers, failed, aborted, edits>>
  BY <1>1 DEF fileVars
<1> QED
  BY <1>1, <1>2, <1>3 DEF RdInv, AdvertiseIsRead, GroupsAreRead, RepositoriesAreRead,
     Taken, Named, Groups, Repository

LEMMA ReadStep ==
  ASSUME RdInv, [eus_read_config_file \/ OtherProgram \/ Administrator]_allVars
  PROVE  RdInv' /\ StableAnswers
  BY ReadAdvertiseStep, ReadGroupsStep, ReadPathStep, ReadRemoteNameStep, OthersStep, DoneStep
     DEF eus_read_config_file

\* Whatever is edited and asked, what has been read is right so far.
LEMMA ReadingIsRight == ReadSpec => []RdInv
<1>1. ReadInit => RdInv
  <2> SUFFICES ASSUME ReadInit
               PROVE  RdInv
    OBVIOUS
  <2>1. /\ disk \in [1..N -> Files] /\ key_files = <<>> /\ answers = [k \in Keys |-> <<>>]
        /\ failed = FALSE /\ aborted = FALSE /\ edits = 0
        /\ pc \in {"start", "other"} /\ repository_configs = {}
    BY DEF ReadInit, FilesInit
  <2>2. key_files \in Seq(UNION {Loads(f) : f \in Files}) /\ Len(key_files) = 0
    BY <2>1
  <2>3. N \in Nat /\ MaxEdits \in Nat
    BY NAssumption
  <2>4. FilesTypeOK
    <3>1. DOMAIN answers = Keys /\ \A k \in Keys : answers[k] = <<>>
      BY <2>1
    <3>2. \A k \in Keys : Len(answers[k]) <= 1
      BY <3>1
    <3>3. Len(key_files) <= N /\ edits \in 0..MaxEdits
      BY <2>1, <2>2, <2>3
    <3>4. failed \in BOOLEAN /\ aborted \in BOOLEAN
      BY <2>1, Zenon
    <3> QED
      BY <2>1, <2>2, <3>1, <3>2, <3>3, <3>4 DEF FilesTypeOK
  <2>5. AnswersKept /\ ReadAsIs
    BY <2>1, <2>2 DEF AnswersKept, ReadAsIs
  <2> QED
    BY <2>1, <2>4, <2>5 DEF RdInv, CInv, AdvertiseIsRead, GroupsAreRead, RepositoriesAreRead
<1>2. RdInv /\ [eus_read_config_file \/ OtherProgram \/ Administrator]_allVars => RdInv'
  BY ReadStep
<1> QED
  BY <1>1, <1>2, PTL DEF ReadSpec

\* What is read in the end is what the files have, if nobody edits them meanwhile.
LEMMA DoneIsComplete == RdInv => ReadIsComplete
<1> SUFFICES ASSUME RdInv, pc = "done", edits = 0
             PROVE  /\ advertise_updates = (First(Advertise) = "true")
                    /\ repository_configs =
                         {[group |-> g, index |-> IndexOf[g],
                           path |-> <<First(Path(g))>>, remote |-> <<First(RemoteName(g))>>] :
                            g \in DOMAIN IndexOf
                               \cap (Default.groups \cup UNION {disk[i].contents.groups : i \in 1..N})}
                    /\ \A c, d \in repository_configs : c.index = d.index => c = d
  BY DEF ReadIsComplete
<1>1. \A k \in Keys : answers[k] # <<>> => answers[k] = <<First(k)>>
  BY FirstFileAnswers DEF RdInv, FirstFileWinsUnlessFailed, AdvertiseIsRead
<1>2. advertise_updates = (First(Advertise) = "true")
  <2>1. answers[Advertise] = <<First(Advertise)>>
    BY <1>1, KeysOfGroups DEF RdInv, AdvertiseIsRead
  <2>2. answers[Advertise] = <<"true">> <=> First(Advertise) = "true"
    BY <2>1
  <2>3. advertise_updates \in BOOLEAN /\ (advertise_updates <=> answers[Advertise] = <<"true">>)
    BY DEF RdInv, AdvertiseIsRead
  <2>4. advertise_updates <=> First(Advertise) = "true"
    BY <2>2, <2>3
  <2> QED
    BY <2>3, <2>4, Zenon
<1>3. Groups = Default.groups \cup UNION {disk[i].contents.groups : i \in 1..N}
  <2>1. /\ key_files \in Seq(Loadable) /\ Len(key_files) = N
        /\ \A i \in 1..N : key_files[i] = disk[i].contents
    BY DEF RdInv, CInv, FilesTypeOK, Loadable, ReadAsIs, GroupsAreRead, AdvertiseIsRead
  <2>2. DOMAIN key_files = 1..N
    BY <2>1, LenProperties
  <2>3. {key_files[i].groups : i \in DOMAIN key_files} = {disk[i].contents.groups : i \in 1..N}
    BY <2>1, <2>2
  <2> QED
    BY <2>3 DEF Groups
<1>4. Taken = DOMAIN IndexOf \cap Groups
  BY DEF RdInv, GroupsAreRead, Taken, Named
<1>5. \A g \in Taken : Repository(g) = [group |-> g, index |-> IndexOf[g],
                           path |-> <<First(Path(g))>>, remote |-> <<First(RemoteName(g))>>]
  <2>1. \A g \in Taken : /\ answers[Path(g)] # <<>> /\ answers[RemoteName(g)] # <<>>
                         /\ g \in DOMAIN IndexOf
    BY <1>4 DEF RdInv, RepositoriesAreRead
  <2>2. \A g \in Taken : /\ answers[Path(g)] = <<First(Path(g))>>
                         /\ answers[RemoteName(g)] = <<First(RemoteName(g))>>
    BY <1>1, <2>1, KeysOfGroups
  <2> QED
    BY <2>2 DEF Repository
<1>6. /\ repository_configs = {Repository(g) : g \in Taken}
      /\ \A c, d \in repository_configs : c.index = d.index => c = d
  BY DEF RdInv, RepositoriesAreRead
<1> QED
  BY <1>2, <1>3, <1>4, <1>5, <1>6

(* The variables of EuuConfigFile keep their types; what is loaded was at a path.   *)
THEOREM ConfigTypeCorrect == ReadSpec => []FilesTypeOK
<1>1. RdInv => FilesTypeOK
  BY DEF RdInv, CInv
<1> QED
  BY <1>1, ReadingIsRight, PTL

(* Whoever asks for keys in whichever order, and whatever is edited meanwhile, an   *)
(* answer is given again; it is of the first file that has the key if no query     *)
(* failed and nothing was edited; and eus_read_config_file then has read all        *)
(* repositories, with indexes that differ.                                      *)
THEOREM QueriesAreRight == ReadSpec => AnswersHold
<1> DEFINE Read == eus_read_config_file \/ OtherProgram \/ Administrator
<1>1. RdInv /\ [Read]_allVars => StableAnswers
  BY ReadStep
<1>2. RdInv => ReadIsComplete /\ FirstFileWinsUnlessFailed
  BY DoneIsComplete, FirstFileAnswers DEF RdInv
<1>3. RdInv' => ReadIsComplete' /\ FirstFileWinsUnlessFailed'
  BY <1>2, PTL
<1>4. RdInv /\ RdInv' /\ [Read]_allVars =>
         [ReadIsComplete' /\ FirstFileWinsUnlessFailed' /\ StableAnswers]_allVars
  BY <1>1, <1>3
<1> QED
  BY <1>4, ReadingIsRight, PTL DEF ReadSpec, AnswersHold

=============================================================================
