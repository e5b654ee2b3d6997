----------------------------- MODULE CastServer -----------------------------
(***************************************************************************)
(* The streaming server of network/cast_server.c: one thread that accepts  *)
(* HTTP clients, sends every new picture to the picture streams and the    *)
(* sound ring to the sound streams.  The emulation pushes pictures, the    *)
(* audio callback pushes sound.                                            *)
(*                                                                         *)
(* A picture is its number, a block of sound too: block n lies in slot     *)
(* n % Ring.  A section under a mutex is one step; what the thread reads   *)
(* outside of one (the ring while it sends) is read in the step that uses  *)
(* it.                                                                     *)
(***************************************************************************)
EXTENDS Integers, Sequences, SequencesExt, FiniteSets

CONSTANTS
    Peer,         \* HTTP clients
    Slow,         \* peers whose socket buffer can be full, or that leave
    Mute,         \* peers that may leave an answer unread, for a while or for ever
    Asks,         \* requests: "audio", "stream", "snapshot", "page", "silent"
    MaxClients,   \* CAST_MAX_CLIENTS
    MaxAudio,     \* CAST_MAX_AUDIO_CLIENTS
    Ring,         \* blocks in the sound ring (two seconds)
    RecvTimeout,  \* blocks produced in the receive timeout (one second)
    Played,       \* blocks pushed before the first listener came
    MaxFrames,    \* bound: pictures pushed
    MaxBlocks,    \* bound: blocks of sound pushed
    MaxVisits     \* bound: connections of one peer

VARIABLES
    server,   \* cast_server_t
    thr,      \* the server thread: where it is, and its local variables
    peer,     \* the other ends
    delayed   \* history: the listeners that an unread answer has made wait

serverVars == <<server, thr, peer, delayed>>

Away == [sock |-> "none", ask |-> "page", shown |-> 0,
         next |-> -1, exact |-> TRUE, visits |-> 0]

Fresh == [pc |-> "select", fd |-> "none", pic |-> 0, i |-> 0, w |-> 0, waited |-> 0, spent |-> 0]

cast_server_init ==
    /\ server = [active |-> TRUE, running |-> TRUE, alive |-> TRUE,
                 frame |-> 0, ready |-> FALSE, w |-> Played, clients |-> <<>>, audio |-> <<>>]
    /\ thr = Fresh
    /\ peer = [p \in Peer |-> Away]
    /\ delayed = {}

Close(peers, ps) == [p \in Peer |-> IF p \in ps THEN [peers[p] EXCEPT !.sock = "closed"] ELSE peers[p]]
Streams == ToSet(server.clients)
Listeners == {server.audio[i].fd : i \in DOMAIN server.audio}

-----------------------------------------------------------------------------
(***************************************************************************)
(* The peers.                                                              *)
(***************************************************************************)
\* (A connection is noticed at the next select: it is made there.)
Knock(p) ==
    /\ server.active /\ thr.pc = "select" /\ peer[p].sock \in {"none", "closed"} /\ peer[p].visits < MaxVisits
    /\ \E ask \in Asks :
          peer' = [peer EXCEPT ![p] = [Away EXCEPT !.sock = "knock", !.ask = ask,
                                                   !.visits = peer[p].visits + 1]]
    /\ delayed' = delayed \ {p}
    /\ UNCHANGED <<server, thr>>

\* What send() makes of a buffer for p.
Sent(p) == IF p \in Slow THEN {"whole", "part", "fail"} ELSE {"whole"}

-----------------------------------------------------------------------------
(***************************************************************************)
(* The producers.                                                          *)
(***************************************************************************)
cast_server_push_frame ==
    /\ server.active /\ server.frame < MaxFrames
    /\ server' = [server EXCEPT !.frame = @ + 1, !.ready = TRUE]
    /\ UNCHANGED <<thr, peer, delayed>>

\* The socket blocks and has a timeout for receiving only: a send waits for a
\* mute peer for ever.
Blocked == thr.pc = "send" /\ thr.fd \in Mute

\* Real time: one receive lasts RecvTimeout at most, and the rest of an iteration
\* of the thread less than a block, unless it is blocked.
MutRecvWait == MaxBlocks
RecvWait == RecvTimeout
TimeAllows == IF thr.pc = "recv" THEN thr.waited < RecvWait ELSE Blocked \/ thr.spent < 1

\* One call of the audio callback.  (Blocks that no listener is there for only
\* move the write position, which Played does.)
cast_server_push_audio ==
    /\ server.active /\ server.audio # <<>> /\ server.w < MaxBlocks /\ TimeAllows
    /\ server' = [server EXCEPT !.w = @ + 1]
    /\ LET long == Blocked /\ thr.waited >= RecvTimeout
       IN  /\ delayed' = IF long THEN delayed \cup Listeners ELSE delayed
           /\ thr' = IF long THEN thr
                     ELSE IF Blocked \/ thr.pc = "recv" THEN [thr EXCEPT !.waited = @ + 1]
                     ELSE [thr EXCEPT !.spent = @ + 1]
    /\ UNCHANGED peer

-----------------------------------------------------------------------------
(***************************************************************************)
(* The server thread.                                                      *)
(***************************************************************************)
remove_client(s, i) == [s EXCEPT !.clients = RemoveAt(@, i)]
remove_audio_client(s, i) == [s EXCEPT !.audio = RemoveAt(@, i)]
ThreadAt(pc) == thr.pc = pc

\* select(), then at most one accept(); the end of the loop closes everything.
Select ==
    /\ ThreadAt("select")
    /\ IF ~server.running
       THEN /\ thr' = [thr EXCEPT !.pc = "done"]
            /\ peer' = Close(peer, Streams \cup Listeners)
            /\ server' = [server EXCEPT !.clients = <<>>, !.audio = <<>>]
       ELSE /\ UNCHANGED server
            /\ \/ \E p \in Peer :
                     /\ peer[p].sock = "knock"
                     /\ peer' = [peer EXCEPT ![p].sock = "open"]
                     /\ thr' = [thr EXCEPT !.pc = "recv", !.fd = p]
               \/ /\ \A p \in Peer : peer[p].sock # "knock"
                  /\ thr' = [thr EXCEPT !.pc = "ready"]
                  /\ UNCHANGED peer

add_client(s, p) == [s EXCEPT !.clients = Append(@, p)]
add_audio_client(s, p) == [s EXCEPT !.audio = Append(@, [fd |-> p, rd |-> s.w % Ring])]

\* The request, and the short answers, which fit in the buffer of a new socket.
\* A silent peer is one whose request has not come when the timeout expires.
route_http_request ==
    /\ ThreadAt("recv")
    /\ LET p == thr.fd
           ask == peer[p].ask
           streams == ask = "stream" /\ Len(server.clients) < MaxClients
           listens == ask = "audio" /\ Len(server.audio) < MaxAudio
           answers == ask \in {"snapshot", "page"}
       IN  /\ thr' = IF answers
                     THEN [thr EXCEPT !.pc = "send", !.pic = IF ask = "page" THEN 0 ELSE server.frame]
                     ELSE [thr EXCEPT !.pc = "ready", !.fd = "none"]
           /\ \/ streams /\ server' = add_client(server, p) /\ UNCHANGED peer
              \/ /\ listens /\ server' = add_audio_client(server, p)
                 /\ peer' = [peer EXCEPT ![p].next = server.w]
              \/ answers /\ UNCHANGED <<server, peer>>
              \/ /\ ~streams /\ ~listens /\ ~answers
                 /\ peer' = Close(peer, {p}) /\ UNCHANGED server

\* The long answers, the page and the picture: send() returns when the peer has
\* read, or has left.
SendAnswer ==
    /\ ThreadAt("send") /\ UNCHANGED server
    /\ thr' = [thr EXCEPT !.pc = "ready", !.fd = "none", !.pic = 0]
    /\ peer' = Close([peer EXCEPT ![thr.fd].shown = thr.pic], {thr.fd})

\* The flag is read under the mutex, and used after it.
TestReady ==
    /\ ThreadAt("ready")
    /\ thr' = [thr EXCEPT !.pc = IF server.ready THEN "copy" ELSE "audio"]
    /\ UNCHANGED <<server, peer>>

\* broadcast_frame up to the encoding: the copy and the flag in one section.
CopyFrame ==
    /\ ThreadAt("copy") /\ UNCHANGED peer
    /\ IF server.clients = <<>>
       THEN thr' = [thr EXCEPT !.pc = "audio"] /\ UNCHANGED server
       ELSE /\ thr' = [thr EXCEPT !.pc = "frames", !.pic = server.frame, !.i = Len(server.clients)]
            /\ server' = [server EXCEPT !.ready = FALSE]

MutSendFrame ==
    /\ ThreadAt("frames")
    /\ IF thr.i = 0 THEN /\ thr' = [thr EXCEPT !.pc = "audio", !.pic = 0]
                         /\ server' = [server EXCEPT !.ready = FALSE] /\ UNCHANGED peer
       ELSE /\ thr' = [thr EXCEPT !.i = @ - 1] /\ UNCHANGED server
            /\ peer' = [peer EXCEPT ![server.clients[thr.i]].shown = thr.pic]

\* Its loop over the clients, from the last to the first.
SendFrame ==
    /\ ThreadAt("frames")
    /\ IF thr.i = 0 THEN thr' = [thr EXCEPT !.pc = "audio", !.pic = 0] /\ UNCHANGED <<server, peer>>
       ELSE /\ thr' = [thr EXCEPT !.i = @ - 1]
            /\ LET p == server.clients[thr.i]
               IN  \E r \in Sent(p) :
                      IF r = "fail"
                      THEN server' = remove_client(server, thr.i) /\ peer' = Close(peer, {p})
                      ELSE /\ peer' = IF r = "whole" THEN [peer EXCEPT ![p].shown = thr.pic] ELSE peer
                           /\ UNCHANGED server

\* broadcast_audio: the write position is read under the mutex.
TestAudio ==
    /\ ThreadAt("audio") /\ UNCHANGED <<server, peer>>
    /\ thr' = [thr EXCEPT !.pc = "chunk", !.i = Len(server.audio), !.w = server.w]

\* The blocks that lie in the slots from..to-1 of the ring now.
Latest(k) == server.w - 1 - ((server.w - 1 - k) % Ring)
RingSlots(from, to) == [j \in 1 .. to - from |-> Latest(from + j - 1)]
Follows(s, n) == \A j \in DOMAIN s : s[j] = n + j - 1
Hear(p, s) ==
    [peer EXCEPT ![p].next = IF s = <<>> THEN @ ELSE Last(s) + 1, ![p].exact = @ /\ Follows(s, peer[p].next)]

\* One send(): up to the write position, or to the end of the ring.
SendAudio ==
    /\ ThreadAt("chunk")
    /\ IF thr.i = 0
       THEN thr' = Fresh /\ UNCHANGED <<server, peer>>
       ELSE LET c == server.audio[thr.i]
                wr == thr.w % Ring
                end == IF wr >= c.rd THEN wr ELSE Ring
            IN  IF wr = c.rd THEN thr' = [thr EXCEPT !.i = @ - 1] /\ UNCHANGED <<server, peer>>
                ELSE \E r \in Sent(c.fd) :
                       IF r = "fail"
                       THEN /\ server' = remove_audio_client(server, thr.i)
                            /\ peer' = Close(peer, {c.fd})
                            /\ thr' = [thr EXCEPT !.i = @ - 1]
                       ELSE /\ server' = [server EXCEPT !.audio[thr.i].rd = end % Ring]
                            /\ thr' = IF end % Ring = wr THEN [thr EXCEPT !.i = @ - 1] ELSE thr
                            /\ peer' = IF r = "whole" THEN Hear(c.fd, RingSlots(c.rd, end)) ELSE peer

server_thread_func ==
    /\ \/ Select \/ route_http_request \/ SendAnswer
       \/ TestReady \/ CopyFrame \/ SendFrame \/ TestAudio \/ SendAudio
    /\ UNCHANGED delayed

-----------------------------------------------------------------------------
(***************************************************************************)
(* cast_server_stop.                                                       *)
(***************************************************************************)
AskStop ==
    /\ server' = [server EXCEPT !.running = FALSE]
    /\ UNCHANGED <<thr, peer, delayed>>
Joined == thr.pc = "done"
Release ==
    /\ server' = [server EXCEPT !.alive = FALSE, !.active = FALSE]
    /\ peer' = Close(peer, {p \in Peer : peer[p].sock = "knock"})
    /\ UNCHANGED <<thr, delayed>>

-----------------------------------------------------------------------------
Owners(p) ==
    Cardinality({i \in DOMAIN server.clients : server.clients[i] = p})
    + Cardinality({i \in DOMAIN server.audio : server.audio[i].fd = p})
    + (IF thr.pc \in {"recv", "send"} /\ thr.fd = p THEN 1 ELSE 0)

\* Every accepted socket has exactly one owner (a table entry or the request
\* being served) until it is closed, closed ones have none, and none is left
\* when the server has stopped: no descriptor leaks, none is closed twice.
SocketsAreOwned ==
    /\ \A p \in Peer : Owners(p) = IF peer[p].sock = "open" THEN 1 ELSE 0
    /\ ~server.alive => \A p \in Peer : peer[p].sock # "open"

\* The listeners that may have lost sound.
Late == Slow \cup delayed

\* A listener that keeps up receives the sound without a gap, a repeat or a
\* block of a later lap of the ring, whatever other clients do: the one second
\* of the receive timeout is what keeps the two seconds of the ring enough.  The
\* one thing that breaks it is an answer that stays unread for longer.
AudioIsExact == \A p \in Peer \ Late : peer[p].exact

\* A picture that was pushed while p watches reaches p, or a later one does,
\* unless p leaves, the server stops, or an answer that is never read holds its
\* thread for ever.
LastFrameIsShown ==
    \A p \in Peer \ Slow : \A n \in 1 .. MaxFrames :
        [](p \in Streams /\ server.ready /\ server.frame = n
             => <>(peer[p].shown >= n \/ p \notin Streams \/ ~server.running \/ []Blocked))
=============================================================================
