----------------------------- MODULE RestServer -----------------------------
(***************************************************************************)
(* nametag_server: microrestd's rest_server between libmicrohttpd and the  *)
(* service.  The main thread starts the server, waits for a signal and     *)
(* stops it.  The daemon of libmicrohttpd accepts connections in a thread  *)
(* of its own and gives each a thread (the default: --threads is 0), which *)
(* calls handle_request for the headers, for every chunk of the body and   *)
(* for the complete request, and request_completed at the end.  A response *)
(* asks for the connection to be closed: one request for each connection.  *)
(*                                                                         *)
(* Of libmicrohttpd, which comes with the sources, the life of connections *)
(* is modelled and not HTTP.  Its count of connections is updated by the   *)
(* daemon's thread without a lock, and by the thread that stops the server *)
(* at the same time: one action reads it, another writes.                  *)
(*                                                                         *)
(* A request is a record: method, url, get (its GET arguments), form       *)
(* (whether its content type is one the post processor parses) and body.   *)
(* The body is a sequence of units of one byte each as far as limits go.   *)
(* A unit may complete a piece of a parameter: its key, whether the piece  *)
(* is the first of the value, and the parts of the string in it.           *)
(*                                                                         *)
(* An operator named Bad... is a faulty variant of the definition after    *)
(* it.  The specification uses none.                                       *)
(***************************************************************************)
EXTENDS ServiceModels, Integers, FiniteSets

CONSTANTS
    Connections,      \* the connections libmicrohttpd may have at a time
    Requests,         \* what the client of each connection may send
    ModelLists,       \* the models the server may be started with
    BodySizes,        \* the values of max_request_body_size
    Keys,             \* the keys of parameters
    InvalidUtf8,      \* a part that is not legal UTF-8
    None

Strings == Seq(STRING)  \* of the parts of a string

ModelRecord == [rest_id : Strings, loads : BOOLEAN, can_tokenize : BOOLEAN]

BodyUnit == [key : Keys \cup {None}, first : BOOLEAN, data : Strings, encoding_supported : BOOLEAN]

ClientRequest == [method : STRING, url : STRING, form : BOOLEAN,
                  get : Seq([key : Keys, value : Strings]), body : Seq(BodyUnit)]

Reasons == {"", "model", "data", "input", "output", "operation", "url",
            "method", "encoding", "size", "utf8"}  \* of answers

ASSUME SizesAssumption == IsFiniteSet(Connections) /\ BodySizes \subseteq Nat

ASSUME ModelsAssumption == ModelLists \subseteq Seq(ModelRecord)

(***************************************************************************)
(* The first piece of a parameter says that it is the first.               *)
(***************************************************************************)
ASSUME RequestsAssumption ==
    /\ "model" \in Keys /\ None \notin Keys
    /\ \A c \in Connections : \A r \in Requests[c] :
          /\ r \in ClientRequest
          /\ \A i \in 1 .. Len(r.body) : r.body[i].key # None =>
                \E j \in 1 .. i : r.body[j].key = r.body[i].key /\ r.body[j].first

VARIABLES
    main,         \* where the main thread is
    models, rest_models_map,
    service,      \* whether rest_server::service is set
    max_request_body_size,
    socket_fd,    \* whether the daemon has a socket to listen on
    socketOpen,   \* whether that socket is open
    shutdown,     \* whether MHD_stop_daemon has begun
    acceptor,     \* where the daemon's thread is
    counted,      \* the daemon's count of connections
    seen,         \* the count that each of the two threads has read
    phase,        \* of each connection
    received,     \* the request each connection brings, or None
    read,         \* how much of its body was read
    request,      \* the microhttpd_request of each connection, or None
    answer        \* the answer queued for each connection, or None

config == <<models, rest_models_map, max_request_body_size>>
socket == <<socket_fd, socketOpen>>
daemon == <<socket, shutdown, acceptor, counted, seen>>
connections == <<phase, received, read, request, answer>>
vars == <<main, service, config, daemon, connections>>

NobodyConnected ==
    /\ socket_fd = FALSE /\ socketOpen = FALSE
    /\ shutdown = FALSE
    /\ acceptor = "idle"
    /\ counted = 0
    /\ seen = [daemon |-> 0, main |-> 0]
    /\ phase = [c \in Connections |-> "free"]
    /\ received = [c \in Connections |-> None]
    /\ read = [c \in Connections |-> 0]
    /\ request = [c \in Connections |-> None]
    /\ answer = [c \in Connections |-> None]

Init ==
    /\ main = "init"
    /\ models \in ModelLists
    /\ rest_models_map = NoMap
    /\ service = FALSE
    /\ max_request_body_size \in BodySizes
    /\ NobodyConnected

-----------------------------------------------------------------------------
(***************************************************************************)
(* microhttpd_request: the constructor, its callbacks, and handle.         *)
(***************************************************************************)
EmplaceArgument(params, argument) ==
    Emplace(params, {argument.key}, argument.value)

GetArguments(arguments) ==
    LET after[n \in 0 .. Len(arguments)] ==
            IF n = 0 THEN [k \in {} |-> <<>>] ELSE EmplaceArgument(after[n - 1], arguments[n])
    IN  after[Len(arguments)]

NewRequest(r) ==
    [url |-> r.url,
     method |-> r.method,
     post_processor |-> r.method = "POST" /\ r.form,
     params |-> GetArguments(r.get),
     unsupported_encoding |-> FALSE,
     remaining |-> max_request_body_size + 1]

BadPostIterator(q, unit) ==
    IF q.unsupported_encoding \/ unit.key = None THEN q
    ELSE IF ~unit.encoding_supported THEN [q EXCEPT !.unsupported_encoding = TRUE]
    ELSE [q EXCEPT !.params = [k \in DOMAIN @ \cup {unit.key} |->
             IF k # unit.key THEN @[k] ELSE Ask(@, k) \o unit.data]]

(***************************************************************************)
(* A key of the body takes over one of the URL, and the last value of a    *)
(* key counts; of GET arguments the first does.  (The last piece of a form *)
(* may come only when the post processor is closed, before handle looks.)  *)
(***************************************************************************)
PostIterator(q, unit) ==
    IF q.unsupported_encoding \/ unit.key = None THEN q
    ELSE IF ~unit.encoding_supported THEN [q EXCEPT !.unsupported_encoding = TRUE]
    ELSE [q EXCEPT !.params = [k \in DOMAIN @ \cup {unit.key} |->
             IF k # unit.key THEN @[k]
             ELSE (IF unit.first THEN <<>> ELSE Ask(@, k)) \o unit.data]]

PostProcess(q, chunk) ==
    LET after[n \in 0 .. Len(chunk)] ==
            IF n = 0 THEN q ELSE PostIterator(after[n - 1], chunk[n])
    IN  after[Len(chunk)]

BadProcessRequestBody(q, chunk) ==
    IF max_request_body_size = 0 \/ q.remaining > Len(chunk)
      THEN [(IF q.post_processor THEN PostProcess(q, chunk) ELSE q)
               EXCEPT !.remaining = IF max_request_body_size = 0 THEN @ ELSE @ - Len(chunk)]
      ELSE q

ProcessRequestBody(q, chunk) ==
    IF max_request_body_size = 0 \/ q.remaining > Len(chunk)
      THEN [(IF q.post_processor THEN PostProcess(q, chunk) ELSE q)
               EXCEPT !.remaining = IF max_request_body_size = 0 THEN @ ELSE @ - Len(chunk)]
      ELSE [q EXCEPT !.remaining = 0]

ValidUtf8(params) ==
    \A k \in DOMAIN params : \A i \in 1 .. Len(params[k]) : params[k][i] # InvalidUtf8

Handle(q) ==
    IF q.method \notin {"HEAD", "GET", "POST", "PUT", "DELETE"} THEN Answer(405, 0, "method")
    ELSE IF q.unsupported_encoding THEN Answer(415, 0, "encoding")
    ELSE IF max_request_body_size # 0 /\ q.remaining = 0 THEN Answer(413, 0, "size")
    ELSE IF ~ValidUtf8(q.params) THEN Answer(415, 0, "utf8")
    ELSE ServiceHandle(models, rest_models_map, q.url, q.params)

-----------------------------------------------------------------------------
(***************************************************************************)
(* The daemon's thread: it polls the socket, accepts a connection, starts  *)
(* its thread, and only then counts it.                                    *)
(***************************************************************************)
Closed == {c \in Connections : phase[c] = "closed"}

PollSocket ==
    /\ acceptor = "idle" /\ ~shutdown /\ socket_fd
    /\ acceptor' = "polling"
    /\ UNCHANGED <<main, service, config, socket, shutdown, counted, seen, connections>>

(***************************************************************************)
(* The poll has ended: stop wrote into the pipe, or there is a connection  *)
(* and the daemon still has its socket.                                    *)
(***************************************************************************)
PollReturns ==
    /\ acceptor = "polling"
    /\ \/ acceptor' = "idle"
       \/ socket_fd /\ ~shutdown /\ acceptor' = "accepting"
    /\ UNCHANGED <<main, service, config, socket, shutdown, counted, seen, connections>>

AcceptFails ==
    /\ acceptor = "accepting"
    /\ acceptor' = "idle"
    /\ UNCHANGED <<main, service, config, socket, shutdown, counted, seen, connections>>

Accept(c) ==
    /\ acceptor = "accepting" /\ socketOpen
    /\ phase[c] = "free"
    /\ phase' = [phase EXCEPT ![c] = "open"]
    /\ acceptor' = "adding"
    /\ UNCHANGED <<main, service, config, socket, shutdown, counted, seen, received, read,
                   request, answer>>

ReadCount ==
    /\ acceptor = "adding"
    /\ acceptor' = "counting"
    /\ seen' = [seen EXCEPT !.daemon = counted]
    /\ UNCHANGED <<main, service, config, socket, shutdown, counted, connections>>

WriteCount ==
    /\ acceptor = "counting"
    /\ acceptor' = "idle"
    /\ counted' = seen.daemon + 1
    /\ seen' = [seen EXCEPT !.daemon = 0]
    /\ UNCHANGED <<main, service, config, socket, shutdown, connections>>

BadCleanUp ==
    /\ acceptor = "idle" /\ main # "freeing" /\ Closed # {}
    /\ phase' = [c \in Connections |-> IF c \in Closed THEN "free" ELSE phase[c]]
    /\ UNCHANGED <<main, service, config, socket, shutdown, acceptor, counted, seen, received, read,
                   request, answer>>

(***************************************************************************)
(* MHD_cleanup_connections between two polls, under the mutex that stop    *)
(* takes for it, too.                                                      *)
(***************************************************************************)
CleanUp ==
    /\ acceptor = "idle" /\ main # "freeing" /\ Closed # {}
    /\ phase' = [c \in Connections |-> IF c \in Closed THEN "free" ELSE phase[c]]
    /\ counted' = counted - Cardinality(Closed)
    /\ UNCHANGED <<main, service, config, socket, shutdown, acceptor, seen, received, read,
                   request, answer>>

-----------------------------------------------------------------------------
Live == {"open", "body", "answered"}  \* the phases in which it has a thread

(***************************************************************************)
(* The thread of a connection.                                             *)
(***************************************************************************)
HandleHeaders(c) ==
    /\ phase[c] = "open"
    /\ \E r \in Requests[c] :
          /\ received' = [received EXCEPT ![c] = r]
          /\ request' = [request EXCEPT ![c] = NewRequest(r)]
    /\ phase' = [phase EXCEPT ![c] = "body"]
    /\ UNCHANGED <<main, service, config, daemon, read, answer>>

HandleChunk(c) ==
    /\ phase[c] = "body"
    /\ \E n \in read[c] + 1 .. Len(received[c].body) :
          /\ request' = [request EXCEPT ![c] =
                            ProcessRequestBody(@, SubSeq(received[c].body, read[c] + 1, n))]
          /\ read' = [read EXCEPT ![c] = n]
    /\ UNCHANGED <<main, service, config, daemon, phase, received, answer>>

HandleComplete(c) ==
    /\ phase[c] = "body" /\ read[c] = Len(received[c].body)
    /\ answer' = [answer EXCEPT ![c] = Handle(request[c])]
    /\ phase' = [phase EXCEPT ![c] = "answered"]
    /\ UNCHANGED <<main, service, config, daemon, received, read, request>>

BadRequestCompleted(c) ==
    /\ phase[c] \in Live
    /\ phase' = [phase EXCEPT ![c] = "closed"]
    /\ received' = [received EXCEPT ![c] = None]
    /\ read' = [read EXCEPT ![c] = 0]
    /\ answer' = [answer EXCEPT ![c] = None]
    /\ UNCHANGED <<main, service, config, daemon, request>>

(***************************************************************************)
(* request_completed: the response was sent, the client went away or said  *)
(* nothing until the timeout, the post processor failed, or the daemon     *)
(* shuts down.                                                             *)
(***************************************************************************)
RequestCompleted(c) ==
    /\ phase[c] \in Live
    /\ phase' = [phase EXCEPT ![c] = "closed"]
    /\ received' = [received EXCEPT ![c] = None]
    /\ read' = [read EXCEPT ![c] = 0]
    /\ request' = [request EXCEPT ![c] = None]
    /\ answer' = [answer EXCEPT ![c] = None]
    /\ UNCHANGED <<main, service, config, daemon>>

-----------------------------------------------------------------------------
(***************************************************************************)
(* The main thread.                                                        *)
(***************************************************************************)
InitService ==
    /\ main = "init"
    /\ rest_models_map' = RestModelsMap(models)
    /\ main' = IF rest_models_map' = NoMap THEN "failed" ELSE "start"
    /\ UNCHANGED <<models, max_request_body_size, service, daemon, connections>>

Start ==
    /\ main = "start"
    /\ service' = TRUE
    /\ socket_fd' = TRUE /\ socketOpen' = TRUE
    /\ main' = "waiting"
    /\ UNCHANGED <<config, shutdown, acceptor, counted, seen, connections>>

(***************************************************************************)
(* A signal ends wait_until_signalled, and stop begins.                    *)
(***************************************************************************)
Quiesce ==
    /\ main = "waiting"
    /\ main' = "quiesced"
    /\ socket_fd' = FALSE
    /\ UNCHANGED <<service, config, socketOpen, shutdown, acceptor, counted, seen, connections>>

CloseSocket ==
    /\ main = "quiesced"
    /\ main' = "polling"
    /\ socketOpen' = FALSE
    /\ UNCHANGED <<service, config, socket_fd, shutdown, acceptor, counted, seen, connections>>

(***************************************************************************)
(* MHD_get_daemon_info first frees the closed connections, one by one.     *)
(***************************************************************************)
FreeConnection(c) ==
    /\ main = "polling" /\ phase[c] = "closed"
    /\ main' = "freeing"
    /\ phase' = [phase EXCEPT ![c] = "free"]
    /\ seen' = [seen EXCEPT !.main = counted]
    /\ UNCHANGED <<service, config, socket, shutdown, acceptor, counted, received, read,
                   request, answer>>

UncountConnection ==
    /\ main = "freeing"
    /\ main' = "polling"
    /\ counted' = seen.main - 1
    /\ seen' = [seen EXCEPT !.main = 0]
    /\ UNCHANGED <<service, config, socket, shutdown, acceptor, connections>>

AllFreed ==
    /\ main = "polling" /\ Closed = {}
    /\ main' = "reading"
    /\ UNCHANGED <<service, config, daemon, connections>>

ReadConnections ==
    /\ main = "reading"
    /\ main' = IF counted = 0 THEN "stopping" ELSE "polling"
    /\ UNCHANGED <<service, config, daemon, connections>>

BadStopDaemon ==
    /\ main = "stopping"
    /\ shutdown' = TRUE
    /\ service' = FALSE
    /\ main' = "joining"
    /\ UNCHANGED <<config, socket, acceptor, counted, seen, connections>>

StopDaemon ==
    /\ main = "stopping"
    /\ shutdown' = TRUE
    /\ main' = "joining"
    /\ UNCHANGED <<service, config, socket, acceptor, counted, seen, connections>>

(***************************************************************************)
(* MHD_stop_daemon returns when it has joined all threads and freed their  *)
(* connections.                                                            *)
(***************************************************************************)
FinishStop ==
    /\ main = "joining"
    /\ acceptor = "idle" /\ \A c \in Connections : phase[c] \notin Live
    /\ phase' = [c \in Connections |-> "free"]
    /\ counted' = counted - Cardinality(Closed)
    /\ service' = FALSE
    /\ main' = "stopped"
    /\ UNCHANGED <<config, socket, shutdown, acceptor, seen, received, read, request, answer>>

-----------------------------------------------------------------------------
Stopping ==
    \/ CloseSocket \/ UncountConnection \/ AllFreed \/ ReadConnections
    \/ StopDaemon \/ FinishStop
    \/ \E c \in Connections : FreeConnection(c)

Daemon ==
    \/ PollSocket \/ PollReturns \/ AcceptFails \/ ReadCount \/ WriteCount \/ CleanUp
    \/ \E c \in Connections : Accept(c)

Connection(c) == HandleHeaders(c) \/ HandleChunk(c) \/ HandleComplete(c) \/ RequestCompleted(c)

Next ==
    \/ InitService \/ Start \/ Quiesce \/ Stopping \/ Daemon
    \/ \E c \in Connections : Connection(c)

(***************************************************************************)
(* Every thread runs.  That of a connection gets to its end, since         *)
(* libmicrohttpd closes it after a timeout (60 s unless set) in which the  *)
(* client does nothing.                                                    *)
(***************************************************************************)
Spec ==
    /\ Init /\ [][Next]_vars
    /\ WF_vars(Stopping) /\ WF_vars(Daemon)
    /\ \A c \in Connections : WF_vars(Connection(c))

-----------------------------------------------------------------------------
(***************************************************************************)
(*                              PROPERTIES                                 *)
(***************************************************************************)
TypeOK ==
    /\ main \in {"init", "failed", "start", "waiting", "quiesced", "polling", "freeing",
                "reading", "stopping", "joining", "stopped"}
    /\ models \in ModelLists
    /\ service \in BOOLEAN
    /\ max_request_body_size \in BodySizes
    /\ socket_fd \in BOOLEAN /\ socketOpen \in BOOLEAN /\ shutdown \in BOOLEAN
    /\ acceptor \in {"idle", "polling", "accepting", "adding", "counting"}
    /\ counted \in Int /\ seen \in [daemon : Int, main : Int]
    /\ phase \in [Connections -> Live \cup {"free", "closed"}]
    /\ DOMAIN rest_models_map \subseteq Strings
    /\ \A s \in DOMAIN rest_models_map : rest_models_map[s] \in 1 .. Len(models)
    /\ \A c \in Connections :
          /\ phase[c] \in {"body", "answered"} =>
                /\ received[c] \in Requests[c]
                /\ read[c] \in 0 .. Len(received[c].body)
                /\ request[c].remaining \in 0 .. max_request_body_size + 1
          /\ phase[c] \notin {"body", "answered"} => received[c] = None /\ request[c] = None
          /\ phase[c] = "answered" =>
                answer[c] \in [code : {200, 400, 404, 405, 413, 415}, model : 0 .. Len(models),
                               what : Reasons]
          /\ phase[c] # "answered" => answer[c] = None

(***************************************************************************)
(* However the body is cut into chunks, the service never sees a request   *)
(* whose body is longer than the limit, and no other is refused as too     *)
(* large.                                                                  *)
(***************************************************************************)
TooLarge(c) == max_request_body_size # 0 /\ Len(received[c].body) > max_request_body_size

SizeLimitKept ==
    \A c \in Connections : answer[c] # None =>
        /\ answer[c].code = 413 => TooLarge(c)
        /\ TooLarge(c) => answer[c].code \in {405, 413, 415}

(***************************************************************************)
(* What a parameter means: the last value in the body, from its first      *)
(* piece on, or else the first one of the URL.                             *)
(***************************************************************************)
Pieces(r, key) == {i \in 1 .. Len(r.body) : r.body[i].key = key}

Joined(r, key, start, end) ==
    LET upTo[i \in 0 .. Len(r.body)] ==
            IF i < start THEN <<>>
            ELSE upTo[i - 1] \o (IF r.body[i].key = key THEN r.body[i].data ELSE <<>>)
    IN  upTo[end]

Sent(r, key) ==
    LET firsts == {i \in Pieces(r, key) : r.body[i].first}
        given == {i \in 1 .. Len(r.get) : r.get[i].key = key}
    IN  IF r.method = "POST" /\ r.form /\ firsts # {}
          THEN Joined(r, key, CHOOSE i \in firsts : \A j \in firsts : j <= i, Len(r.body))
        ELSE IF given # {} THEN r.get[CHOOSE i \in given : \A j \in given : i <= j].value
        ELSE <<>>

(***************************************************************************)
(* What it selects: the model of that name, or the first in the order of   *)
(* the command line that has it as an alias; the first without one.        *)
(***************************************************************************)
Selected(s) ==
    LET named == {m \in 1 .. Len(models) : models[m].rest_id = s}
        known == {m \in 1 .. Len(models) : s \in Aliases(models[m].rest_id)}
    IN  IF named # {} THEN CHOOSE m \in named : TRUE
        ELSE IF known # {} THEN CHOOSE m \in known : \A n \in known : m <= n
        ELSE IF s = <<>> THEN 1
        ELSE 0

(***************************************************************************)
(* Every answer of the service is from the model its request selects,      *)
(* whatever models were loaded before or after, and in however many pieces *)
(* the parameter came.                                                     *)
(***************************************************************************)
RightModel ==
    \A c \in Connections :
        answer[c] # None /\ answer[c].code \in {200, 400} /\ received[c].url # "/models" =>
            answer[c].model = Selected(Sent(received[c], "model"))

(***************************************************************************)
(* No callback runs after stop has forgotten the service, although a       *)
(* connection accepted just before may not be counted when stop looks.     *)
(***************************************************************************)
NoRequestWithoutService ==
    \A c \in Connections : phase[c] \in Live => service

(***************************************************************************)
(* Both threads have read the count of connections and will write it.      *)
(***************************************************************************)
Colliding == acceptor = "counting" /\ main = "freeing"

(***************************************************************************)
(* A server that was told to stop does so, unless its two updates of the   *)
(* count run into each other, when stop frees a connection just as the     *)
(* last one is being accepted: then stop may wait for ever.                *)
(***************************************************************************)
StopTerminates == main = "quiesced" ~> (main = "stopped" \/ Colliding)

(***************************************************************************)
(* The socket that MHD_quiesce_daemon returns must not be closed until     *)
(* after MHD_stop_daemon, because a thread may still be using it           *)
(* (libmicrohttpd/daemon.cpp:2842).                                        *)
(***************************************************************************)
SocketOpenWhileUsed == acceptor \in {"polling", "accepting"} => socketOpen
=============================================================================
