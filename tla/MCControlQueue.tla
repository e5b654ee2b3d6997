--------------------------- MODULE MCControlQueue ---------------------------
(***************************************************************************)
(* Two scenes: the queue, with three server threads and two commands; and  *)
(* the HTTP server, two clients at a time, over the service the queue      *)
(* implements.                                                             *)
(***************************************************************************)
EXTENDS ControlQueue, HttpServer

CONSTANTS p1, p2, p3, c1, c2

MCProducers == {p1, p2, p3}
MCCommands == {c1, c2}

VARIABLE scene
mcVars == <<vars, httpVars, scene>>

Asked(m, p, query, body, where) ==
  [m |-> m, p |-> p, query |-> query, body |-> body, len |-> Len(body),
   where |-> where, lines |-> 1, leaves |-> FALSE, malformed |-> FALSE, nomem |-> FALSE]
Get(p, query) == Asked("GET", p, query, <<>>, "under")
Post(p, body, where) == Asked("POST", p, {}, body, where)
Break == Post("/break", <<"addr", "if">>, "under")

\* Who asks what: the length announced is right, short, or more than there is
\* or fits; the client stays or leaves; the header fits or not; the path is
\* good or bad; the command has memory or not.
Pairs ==
  { <<[Break EXCEPT !.leaves = TRUE], Break>>,
    <<[Break EXCEPT !.len = 1], Get("/", {})>>,
    <<[Break EXCEPT !.len = 3, !.leaves = TRUE], Get("/mem", {"addr"})>>,
    <<[Post("/break", <<"addr", "if", "x">>, "under") EXCEPT !.len = 99], Break>>,
    <<Post("/tape", <<"path">>, "dotdot"), Post("/set", <<"val", "reg">>, "under")>>,
    <<[Get("/regs", {}) EXCEPT !.malformed = TRUE], Post("/tape", <<"path">>, "under")>>,
    <<[Get("/regs", {}) EXCEPT !.lines = 6], Post("/hunt", <<"val">>, "under")>>,
    <<Post("/nowhere", <<>>, "under"), [Get("/regs", {}) EXCEPT !.nomem = TRUE]>> }

MCClients == {"a", "b"}
MCTraffic == {[c \in MCClients |-> IF c = "a" THEN q[1] ELSE q[2]] : q \in Pairs}

MCInit ==
  /\ Init
  /\ HttpInit
  /\ scene \in {"queue", "http"}
  /\ scene = "queue" => asks["a"].p = "/nowhere"

QueueScene == scene = "queue" /\ Next /\ UNCHANGED <<httpVars, scene>>
HttpScene == scene = "http" /\ HttpNext /\ UNCHANGED <<vars, scene>>

MCFairSpec ==
  /\ MCInit
  /\ [][QueueScene \/ HttpScene]_mcVars
  /\ \A p \in Producers : WF_vars(scene = "queue" /\ ProducerStep(p))
  /\ WF_vars(scene = "queue" /\ DrainStep)
  /\ WF_vars(scene = "queue" /\ CloseStep)
  /\ WF_httpVars(scene = "http" /\ ServerThread)
  /\ WF_httpVars(scene = "http" /\ MainThread)
  /\ \A c \in Clients : WF_httpVars(scene = "http" /\ ClientStep(c))
=============================================================================
