----------------------------- MODULE HttpServer -----------------------------
(***************************************************************************)
(* The HTTP control server (http_api.c): one thread accepts a connection,  *)
(* reads a request, turns it into a command line and waits for the main    *)
(* loop to run it; the clients send in pieces, hang up or fall silent; the *)
(* main loop may be frozen by the menu and ends with the closing sequence  *)
(* of emulator_cleanup.  The queue is the service ControlQueue is shown to *)
(* implement: a command runs once at a frame's end, or never once closed.  *)
(*                                                                         *)
(* A request is its bytes in order: header lines, "end" (the empty line)   *)
(* and one token per form parameter.  A GET's parameters are in its line.  *)
(***************************************************************************)
EXTENDS Naturals, Sequences

CONSTANTS
  Clients,
  Traffic,     \* which request each client makes: a set of functions
  Silent,      \* clients that may stop sending and keep the connection
  ReqMax,      \* HTTP_REQ_MAX - 1, in tokens
  MaxFreezes   \* bound: times the menu is opened

ASSUME HttpAssumption ==
  /\ "none" \notin Clients
  /\ ReqMax \in Nat /\ MaxFreezes \in Nat
  /\ \A t \in Traffic, c \in Clients :
       t[c].len \in Nat /\ t[c].lines \in Nat /\ t[c].body \in Seq(STRING)

VARIABLES
  asks,    \* the requests of this behaviour
  conn,    \* each connection: "none", "queued", "open", "closed" by the server
  sent,    \* tokens each client has sent
  gone,    \* clients that have hung up
  response,  \* what each client received: the sequence of responses
  srv,     \* the server thread: pc, the client it serves, tokens read
  slot,    \* the command that waits in the queue, its reply
  carried,     \* history: the commands run, with the client each came from
  loop,    \* the main loop: pc, menu open, shutting_down, running, freezes left
  exited   \* emulator_cleanup has returned

httpVars == <<asks, conn, sent, gone, response, srv, slot, carried, loop, exited>>

None == [verb |-> "none", args |-> {}]

-----------------------------------------------------------------------------
(* Routing: HTTP request to command line.                                  *)

\* What a route needs, what it also takes, and the command it makes.
Route(m, p, needs, takes, verb) ==
    [m |-> m, p |-> p, needs |-> needs, takes |-> takes, verb |-> verb]

GetRoutes == {
    Route("GET", "/hello", {}, {}, "hello"), Route("GET", "/regs", {}, {}, "regs"),
    Route("GET", "/mem", {"addr", "len"}, {"bank"}, "read"),
    Route("GET", "/peek/x", {}, {}, "peek"),
    Route("GET", "/break", {}, {}, "break-list"), Route("GET", "/watch", {}, {}, "watch-list"),
    Route("GET", "/disasm", {"addr", "n"}, {}, "disasm"),
    Route("GET", "/trace", {}, {}, "trace-status"),
    Route("GET", "/watch-region", {}, {}, "watch-region-list"),
    Route("GET", "/stuck-bits", {}, {}, "stuck-bits") }

MachineRoutes == {
    Route("POST", "/reset", {}, {}, "reset"), Route("POST", "/nmi", {}, {}, "nmi"),
    Route("POST", "/keys", {"text"}, {}, "keys"), Route("POST", "/exec/step", {}, {}, "step"),
    Route("POST", "/mem", {"addr", "bytes"}, {}, "write") }

MediaRoutes == {
    Route("POST", "/tape", {"path"}, {}, "load-tap"),
    Route("POST", "/disk/A", {"path"}, {}, "load-disk") }

DebugRoutes == {
    Route("POST", "/break", {"addr"}, {"if"}, "break"),
    Route("POST", "/watch", {"addr"}, {"mode"}, "watch"),
    Route("POST", "/raster", {"line"}, {}, "raster"),
    Route("POST", "/set", {"via", "val"}, {}, "set-via"),
    Route("POST", "/hunt", {}, {"op", "val"}, "hunt") }

FileRoutes == {
    Route("POST", "/sym", {"path"}, {"group"}, "load-sym"),
    Route("POST", "/sym/group", {"group", "enabled"}, {}, "sym-group"),
    Route("POST", "/save", {"path", "addr", "len"}, {}, "save-mem"),
    Route("POST", "/load", {"path", "addr"}, {}, "load-mem") }

TraceRoutes == {
    Route("POST", "/trace", {}, {"spec"}, "trace-start"),
    Route("POST", "/watch-region", {"start", "end"}, {"flags"}, "watch-region"),
    Route("POST", "/stuck-bits", {"zero", "one"}, {}, "stuck-bits"),
    Route("POST", "/trace/stop", {}, {}, "trace-stop"),
    Route("POST", "/trace/save", {"path"}, {}, "trace-save"),
    Route("POST", "/state/save", {"path"}, {}, "state-save"),
    Route("POST", "/state/load", {"path"}, {}, "state-load") }

DeleteRoutes == {
    Route("DELETE", "/tape", {}, {}, "eject-tape"), Route("DELETE", "/disk/A", {}, {}, "eject-disk"),
    Route("DELETE", "/break/1", {}, {}, "unbreak"), Route("DELETE", "/watch/1", {}, {}, "unwatch"),
    Route("DELETE", "/raster/1", {}, {}, "unraster"), Route("DELETE", "/trace", {}, {}, "trace-off"),
    Route("DELETE", "/watch-region", {}, {}, "watch-region-clear") }

Routes == GetRoutes \cup MachineRoutes \cup MediaRoutes \cup DebugRoutes
          \cup FileRoutes \cup TraceRoutes \cup DeleteRoutes

\* Variant: the path is used as it was given.
MutSandbox(where) == where # "empty"

\* A user's path after URL decoding: under the root, absolute, with "..",
\* empty, or too long for the buffer.  Only the first is accepted.
sandbox_path(where) == where = "under"

Answer(status) == [status |-> status, cmd |-> None]
Command(verb, args) == [status |-> 0, cmd |-> [verb |-> verb, args |-> args]]

\* The verbs of POST /set are tried one after the other.
RouteSet(params) ==
    CASE {"via", "val"} \subseteq params -> Command("set-via", {"via", "val"})
      [] {"reg", "val"} \subseteq params -> Command("set", {"reg", "val"})
      [] OTHER -> Answer(400)

\* A value without an operation is ignored: the hunt starts again.
RouteHunt(params) ==
    Command("hunt", IF "op" \in params THEN params \cap {"op", "val"} ELSE {})

\* A missing parameter is refused before the path is looked at.
RouteRow(r, params, where) ==
    CASE ~(r.needs \subseteq params) -> Answer(400)
      [] "path" \in r.needs /\ ~sandbox_path(where) -> Answer(403)
      [] OTHER -> Command(r.verb, params \cap (r.needs \cup r.takes))

route(q, params) ==
    LET rows == {r \in Routes : r.m = q.m /\ r.p = q.p} IN
    CASE q.m = "GET" /\ q.p = "/" -> Answer(200)
      [] rows = {} -> Answer(404)
      [] q.m = "POST" /\ q.p = "/set" -> RouteSet(params)
      [] q.m = "POST" /\ q.p = "/hunt" -> RouteHunt(params)
      [] OTHER -> RouteRow(CHOOSE r \in rows : TRUE, params, q.where)

-----------------------------------------------------------------------------
(* One connection.                                                         *)

Bytes(q) == [i \in 1 .. q.lines |-> "line"] \o <<"end">> \o q.body

\* The announced length, or what there is room for: a larger one never wraps.
content_length(q, max) == IF q.len > max THEN max ELSE q.len

HeaderIn(q, n) == n > q.lines

\* The loop of handle_client is over: all of the body is there or the buffer
\* is full.
Complete(q, n) == \/ HeaderIn(q, n) /\ n > q.lines + content_length(q, ReqMax + 1)
                  \/ n >= ReqMax

\* Route what was read; the body ends at Content-Length and never past the
\* bytes read.
handle_request(q, n) ==
    LET body == SubSeq(q.body, 1, content_length(q, n - (q.lines + 1)))
        form == {body[i] : i \in DOMAIN body}
    IN IF q.malformed THEN Answer(400)
       ELSE route(q, IF q.m = "POST" THEN form ELSE q.query)

HttpInit ==
    /\ asks \in Traffic
    /\ conn = [c \in Clients |-> "none"]
    /\ sent = [c \in Clients |-> 0]
    /\ gone = {}
    /\ response = [c \in Clients |-> <<>>]
    /\ srv = [pc |-> "select", client |-> "none", n |-> 0]
    /\ slot = [cmd |-> None, from |-> "none", state |-> "empty"]
    /\ carried = <<>>
    /\ loop = [pc |-> "frame", menu |-> FALSE, shutting_down |-> FALSE,
               running |-> TRUE, freezes |-> MaxFreezes]
    /\ exited = FALSE

\* A client connects, sends its next bytes, or hangs up.
Connect(c) ==
    /\ conn[c] = "none" /\ ~exited
    /\ conn' = [conn EXCEPT ![c] = "queued"]
    /\ UNCHANGED <<asks, sent, gone, response, srv, slot, carried, loop, exited>>

Send(c) ==
    /\ conn[c] \in {"queued", "open"} /\ c \notin gone
    /\ sent[c] < Len(Bytes(asks[c]))
    /\ sent' = [sent EXCEPT ![c] = @ + 1]
    /\ UNCHANGED <<asks, conn, gone, response, srv, slot, carried, loop, exited>>

HangUp(c) ==
    /\ conn[c] \in {"queued", "open"} /\ c \notin gone
    /\ asks[c].leaves
    /\ gone' = gone \cup {c}
    /\ UNCHANGED <<asks, conn, sent, response, srv, slot, carried, loop, exited>>

\* select times out every 100 ms to look at running again; accept takes the
\* connection.
server_thread ==
    /\ srv.pc = "select"
    /\ \/ /\ ~loop.running
          /\ srv' = [srv EXCEPT !.pc = "ended"]
          /\ UNCHANGED conn
       \/ /\ loop.running
          /\ \E c \in Clients :
               /\ conn[c] = "queued"
               /\ conn' = [conn EXCEPT ![c] = "open"]
               /\ srv' = [pc |-> "recv", client |-> c, n |-> 0]
    /\ UNCHANGED <<asks, sent, gone, response, slot, carried, loop, exited>>

Closed == [pc |-> "select", client |-> "none", n |-> 0]

\* The thread answers its client, closes the connection and selects again;
\* what is sent to a client that has hung up is lost.
Respond(c, a) ==
    /\ response' = IF c \in gone THEN response ELSE [response EXCEPT ![c] = Append(@, a)]
    /\ conn' = [conn EXCEPT ![c] = "closed"]
    /\ srv' = Closed

\* Some of the bytes that have arrived are read, or the end of the stream; a
\* request that is complete is routed at once, and one that the client broke
\* off is routed with what came of it.
handle_client ==
    /\ srv.pc = "recv"
    /\ LET c == srv.client
           q == asks[c]
           routed(n) ==
               LET a == handle_request(q, n) IN
               IF a.cmd = None
               THEN Respond(c, a) /\ UNCHANGED slot
               ELSE /\ srv' = [srv EXCEPT !.pc = "submit", !.n = n]
                    /\ slot' = [cmd |-> a.cmd, from |-> c, state |-> "filled"]
                    /\ UNCHANGED <<response, conn>>
           over(n) ==
               IF HeaderIn(q, n) THEN routed(n)
               ELSE /\ srv' = Closed
                    /\ conn' = [conn EXCEPT ![c] = "closed"]
                    /\ UNCHANGED <<response, slot>>
       IN \/ \E n \in (srv.n + 1) .. sent[c] :
               /\ n <= ReqMax
               /\ IF Complete(q, n) THEN over(n)
                  ELSE srv' = [srv EXCEPT !.n = n] /\ UNCHANGED <<response, conn, slot>>
          \/ c \in gone /\ srv.n = sent[c] /\ over(srv.n)
    /\ UNCHANGED <<asks, sent, gone, carried, loop, exited>>

\* The command is queued, unless there is no memory for it or the queue is
\* closed: then there is no reply.
control_queue_submit ==
    /\ srv.pc = "submit" /\ slot.state = "filled"
    /\ slot' = [slot EXCEPT !.state = IF loop.shutting_down \/ asks[slot.from].nomem
                                      THEN "refused" ELSE "queued"]
    /\ UNCHANGED <<asks, conn, sent, gone, response, srv, carried, loop, exited>>

\* Back from submit: "OK ..." is 200, anything else and no reply are 400.
respond_reply ==
    /\ srv.pc = "submit" /\ slot.state \in {"done", "refused"}
    /\ \E status \in IF slot.state = "done" THEN {200, 400} ELSE {400} :
         Respond(srv.client,
                 [status |-> status, cmd |-> IF slot.state = "done" THEN slot.cmd ELSE None])
    /\ slot' = [cmd |-> None, from |-> "none", state |-> "empty"]
    /\ UNCHANGED <<asks, sent, gone, carried, loop, exited>>

-----------------------------------------------------------------------------
(* The main loop.                                                          *)

\* One turn: an open menu skips the frame and with it the drain.
Frame ==
    /\ loop.pc = "frame"
    /\ loop' = [loop EXCEPT !.pc = "events"]
    /\ IF ~loop.menu /\ slot.state = "queued"
       THEN /\ carried' = Append(carried, [cmd |-> slot.cmd, from |-> slot.from])
            /\ slot' = [slot EXCEPT !.state = "done"]
       ELSE UNCHANGED <<carried, slot>>
    /\ UNCHANGED <<asks, conn, sent, gone, response, srv, exited>>

\* The user opens or closes the menu, or leaves the emulator.
Events ==
    /\ loop.pc = "events"
    /\ \/ loop' = [loop EXCEPT !.pc = "frame"]
       \/ /\ loop.menu \/ loop.freezes > 0
          /\ loop' = [loop EXCEPT !.pc = "frame", !.menu = ~@,
                        !.freezes = IF loop.menu THEN @ ELSE @ - 1]
       \/ loop' = [loop EXCEPT !.pc = "leaving"]
    /\ UNCHANGED <<asks, conn, sent, gone, response, srv, slot, carried, exited>>

\* Variant: the server is stopped before the queue is closed.
MutShutdown ==
    /\ loop.pc = "leaving"
    /\ loop' = [loop EXCEPT !.pc = "stopping"]
    /\ UNCHANGED <<asks, conn, sent, gone, response, srv, slot, carried, exited>>

\* emulator_cleanup: the queue is closed first, whoever waits is released.
CloseQueue ==
    /\ loop.pc = "leaving"
    /\ loop' = [loop EXCEPT !.pc = "stopping", !.shutting_down = TRUE]
    /\ slot' = [slot EXCEPT !.state = IF @ = "queued" THEN "refused" ELSE @]
    /\ UNCHANGED <<asks, conn, sent, gone, response, srv, carried, exited>>

\* Then the server is told to stop, and joined: connections that were never
\* accepted die with the listening socket.
StopServer ==
    \/ /\ loop.pc = "stopping"
       /\ loop' = [loop EXCEPT !.pc = "joining", !.running = FALSE]
       /\ UNCHANGED <<asks, conn, sent, gone, response, srv, slot, carried, exited>>
    \/ /\ loop.pc = "joining" /\ srv.pc = "ended"
       /\ loop' = [loop EXCEPT !.pc = "over"]
       /\ conn' = [c \in Clients |-> IF conn[c] = "queued" THEN "closed" ELSE conn[c]]
       /\ exited' = TRUE
       /\ UNCHANGED <<asks, sent, gone, response, srv, slot, carried>>

ServerThread == server_thread \/ handle_client \/ control_queue_submit \/ respond_reply
MainThread == Frame \/ Events \/ CloseQueue \/ StopServer

\* The process is gone.
Gone == exited /\ UNCHANGED httpVars

HttpNext ==
    \/ ServerThread
    \/ MainThread
    \/ Gone
    \/ \E c \in Clients : Connect(c) \/ Send(c) \/ HangUp(c)

HttpSpec == HttpInit /\ [][HttpNext]_httpVars

\* A client that is not silent goes on sending, or hangs up.
ClientStep(c) == c \notin Silent /\ (Send(c) \/ HangUp(c))

-----------------------------------------------------------------------------
(* Properties.                                                             *)

\* What a client means: its request routed as a whole.
Meant(q) == route(q, IF q.m = "POST" THEN {q.body[i] : i \in DOMAIN q.body} ELSE q.query)
Sound(q) == ~q.malformed /\ q.len = Len(q.body) /\ Len(Bytes(q)) <= ReqMax

RanFor(c) == {i \in DOMAIN carried : carried[i].from = c}

\* A command runs at most once for each connection, never with a path outside
\* the root; what runs for a client that stays is what its whole request
\* asks for, in whatever pieces it came; a client gets at most one response:
\* its own command's, and the refusal of a command that never ran only when
\* the queue is closed or has no memory (handle_client, route, respond_reply).
RequestsAreHonoured ==
    \A c \in Clients :
      LET q == asks[c] IN
      /\ \A i, j \in RanFor(c) : i = j
      /\ \A i \in RanFor(c) :
           /\ "path" \in carried[i].cmd.args => q.where = "under"
           /\ Sound(q) /\ c \notin gone => carried[i].cmd = Meant(q).cmd
      /\ Len(response[c]) <= 1
      /\ response[c] # <<>> =>
           LET a == response[c][1] IN
           /\ a.cmd # None => \E i \in RanFor(c) : a.cmd = carried[i].cmd
           /\ a.cmd = None /\ Sound(q) /\ c \notin gone =>
                \/ a = Meant(q)
                \/ RanFor(c) = {} /\ (loop.shutting_down \/ q.nomem)

Whole(c) == conn[c] \in {"queued", "open"} /\ sent[c] = Len(Bytes(asks[c])) /\ Sound(asks[c])

\* Whatever the other clients do short of falling silent, a whole request is
\* answered if the menu does not stay open, and leaving the emulator always
\* ends: nobody waits for a loop that has stopped, or for a request that the
\* closed queue will not take (the order of emulator_cleanup).
ServedOrReleased ==
    /\ \A c \in Clients :
         []<>(~loop.menu) => (Whole(c) ~> (response[c] # <<>> \/ c \in gone \/ exited))
    /\ (loop.pc = "leaving") ~> exited
=============================================================================
