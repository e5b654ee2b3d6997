-------------------------------- MODULE Cast --------------------------------
(***************************************************************************)
(* The casting service of the emulator: the server, the Chromecast client  *)
(* of network/castv2.c, and the main thread of main.c that starts, feeds   *)
(* and stops both.                                                         *)
(*                                                                         *)
(* The main thread goes through the handshake that loads the stream's page *)
(* on the device (or skips it), runs, and cleans up: the audio device      *)
(* first, then the client with its heartbeat thread, then the server.      *)
(*                                                                         *)
(* `at` is where the main thread is, `beat` where the heartbeat thread is. *)
(* hb_mutex is an ordinary mutex: a thread that locks it twice waits for   *)
(* ever.                                                                   *)
(***************************************************************************)
EXTENDS CastServer

CONSTANTS
    Browser,   \* the peers that come when the emulator casts
    Attempts,  \* bound on messages read while waiting for the transport (60)
    Retries,   \* attempts to send the address (5)
    MaxBeats   \* bound: heartbeats

VARIABLES
    at,      \* the main thread
    client,  \* castv2_client_t
    beat     \* the heartbeat thread
clientVars == <<at, client, beat>>

Idle == [state |-> "idle", ssl |-> FALSE, hb |-> FALSE, has |-> FALSE,
         mutex |-> "free", n |-> 0, beats |-> 0, cancel |-> FALSE]

ClientInit == at \in {"tls", "run"} /\ client = Idle /\ beat = "none"

\* The handshake fails: the connection stays as it is.
Error == at' = "run" /\ client' = [Idle EXCEPT !.state = "error", !.ssl = client.ssl] /\ UNCHANGED beat
To(pc, c) == at' = pc /\ client' = c /\ UNCHANGED beat

-----------------------------------------------------------------------------
castv2_tls_connect ==
    /\ at = "tls"
    /\ \/ Error
       \/ To("launch", [client EXCEPT !.state = "connected", !.ssl = TRUE])
       \/ /\ at' = "run" /\ client' = [client EXCEPT !.state = "error", !.ssl = TRUE]
          /\ UNCHANGED beat

Launch ==
    /\ at = "launch"
    /\ Error \/ To("await", [client EXCEPT !.state = "launching", !.n = 0])

\* A message of the device, or none within the timeout, which sends a PING.
AwaitTransport ==
    /\ at = "await"
    /\ \/ Error
       \/ client.n < Attempts /\ To("await", [client EXCEPT !.n = @ + 1])
       \/ client.n < Attempts /\ To("transport", [client EXCEPT !.n = 0])

ConnectTransport == at = "transport" /\ (Error \/ To("url", client))

SendUrl ==
    /\ at = "url"
    /\ \/ client.n < Retries /\ To("start", client)
       \/ client.n < Retries /\ To("url", [client EXCEPT !.n = @ + 1])
       \/ client.n = Retries /\ Error

StartHeartbeat ==
    /\ at = "start" /\ at' = "run"
    /\ \E ok \in BOOLEAN :
          /\ client' = [client EXCEPT !.hb = ok, !.state = "running", !.has = TRUE, !.n = 0]
          /\ beat' = IF ok THEN "loop" ELSE "none"

castv2_connect_and_cast ==
    castv2_tls_connect \/ Launch \/ AwaitTransport \/ ConnectTransport \/ SendUrl \/ StartHeartbeat

-----------------------------------------------------------------------------
(***************************************************************************)
(* heartbeat_thread_func.  It sends under hb_mutex, and castv2_send locks  *)
(* hb_mutex again when it sees heartbeat_running.                          *)
(***************************************************************************)
Beat(pc, c) == beat' = pc /\ client' = c /\ UNCHANGED at
SendLocks == client.hb

HeartbeatLoop ==
    \/ beat = "loop" /\ Beat(IF client.hb THEN "sleep" ELSE "exit", client)
    \/ beat = "sleep" /\ client.beats < MaxBeats
       /\ Beat(IF client.hb THEN "lock" ELSE "exit", [client EXCEPT !.beats = @ + 1])
    \/ beat = "lock" /\ client.mutex = "free" /\ Beat("send", [client EXCEPT !.mutex = "beat"])
    \/ beat = "send" /\ Beat(IF SendLocks THEN "relock" ELSE "write", client)
    \/ beat = "relock" /\ client.mutex = "free" /\ Beat("write", [client EXCEPT !.mutex = "beat"])
    \/ beat = "write" /\ Beat("unlock", client)
    \/ beat = "unlock" /\ Beat("loop", [client EXCEPT !.mutex = "free"])

\* sleep() and the write to the socket are where a cancellation takes effect.
Cancelled == client.cancel /\ beat \in {"sleep", "write"} /\ Beat("exit", client)

heartbeat_thread_func == HeartbeatLoop \/ Cancelled

-----------------------------------------------------------------------------
(***************************************************************************)
(* castv2_disconnect.                                                      *)
(***************************************************************************)
StopHeartbeat ==
    /\ at = "disconnect"
    /\ IF client.has /\ client.hb
       THEN To("reap", [client EXCEPT !.hb = FALSE, !.cancel = TRUE])
       ELSE To("farewell", client)
Reaped == beat = "exit"
JoinHeartbeat == at = "reap" /\ Reaped /\ To("farewell", client)

\* STOP to the device, then the connection is freed and the mutex destroyed.
Farewell ==
    /\ at = "farewell"
    /\ To("stop", IF client.has THEN Idle ELSE client)

castv2_disconnect == StopHeartbeat \/ JoinHeartbeat \/ Farewell

-----------------------------------------------------------------------------
(***************************************************************************)
(* The main thread and the others.                                         *)
(***************************************************************************)
castVars == <<serverVars, clientVars>>

CastInit == cast_server_init /\ ClientInit

Frame == at = "run" /\ cast_server_push_frame /\ UNCHANGED clientVars

\* The device calls back until it is closed.
AudioOpen == at \notin {"disconnect", "reap", "farewell", "stop", "join", "gone"}
Sound == AudioOpen /\ cast_server_push_audio /\ UNCHANGED clientVars

\* emulator_cleanup: audio_cleanup returns once no callback runs any more.
AudioCleanup ==
    /\ at = "run" /\ UNCHANGED <<serverVars, client, beat>>
    /\ at' = "disconnect"

cast_server_stop ==
    /\ UNCHANGED <<client, beat>>
    /\ \/ at = "stop" /\ at' = "join" /\ AskStop
       \/ at = "join" /\ Joined /\ at' = "gone" /\ Release

Handshake == castv2_connect_and_cast /\ UNCHANGED serverVars
Disconnect == castv2_disconnect /\ UNCHANGED serverVars
Heartbeat == heartbeat_thread_func /\ UNCHANGED serverVars
Serve == server_thread_func /\ UNCHANGED clientVars

\* The peers come once the emulation runs.  When it casts, the peer is the
\* browser of the device.
Peers ==
    /\ at \notin {"tls", "launch", "await", "transport", "url", "start"}
    /\ \E p \in Peer : (client.state = "idle" \/ p \in Browser) /\ Knock(p)
    /\ UNCHANGED clientVars

CastNext ==
    \/ Frame \/ Sound \/ AudioCleanup \/ cast_server_stop
    \/ Handshake \/ Disconnect \/ Heartbeat \/ Serve \/ Peers

\* Threads run: the scheduler does not starve one that can go on.  Nothing
\* obliges the user to quit or the peers to do anything, not even to read.
CastSpec ==
    /\ CastInit /\ [][CastNext]_castVars
    /\ WF_castVars(Serve /\ ~Blocked) /\ WF_castVars(Heartbeat)
    /\ WF_castVars(Handshake) /\ WF_castVars(Disconnect) /\ WF_castVars(cast_server_stop)

-----------------------------------------------------------------------------
\* The heartbeat writes only to a live connection on which the main thread is
\* not writing: neither the farewell nor the release of the connection can
\* overtake it.
TlsIsExclusive == beat \in {"send", "relock", "write", "unlock"} => client.ssl /\ at # "farewell"

\* Disconnecting comes to an end whatever the heartbeat is doing.
DisconnectEnds == (at = "disconnect") ~> (at = "stop")

Listener == [fd : Peer, rd : 0 .. Ring - 1]
ServerStates ==
    [active : BOOLEAN, running : BOOLEAN, alive : BOOLEAN, frame : Nat, ready : BOOLEAN,
     w : Nat, clients : Seq(Peer), audio : Seq(Listener)]
ThreadStates ==
    [pc : {"select", "recv", "send", "ready", "copy", "frames", "audio", "chunk", "done"},
     fd : Peer \cup {"none"}, pic : Nat, i : Nat, w : Nat, waited : Nat, spent : Nat]
PeerStates ==
    [Peer -> [sock : {"none", "knock", "open", "closed"}, ask : Asks \cup {"page"},
              shown : Nat, next : Int, exact : BOOLEAN, visits : Nat]]
ClientStates ==
    [state : {"idle", "connected", "launching", "running", "error"}, ssl : BOOLEAN, hb : BOOLEAN,
     has : BOOLEAN, mutex : {"free", "beat"}, n : Nat, beats : Nat, cancel : BOOLEAN]

CastTypeOK ==
    /\ server \in ServerStates /\ thr \in ThreadStates /\ peer \in PeerStates
    /\ delayed \in SUBSET Peer
    /\ Len(server.clients) <= MaxClients /\ Len(server.audio) <= MaxAudio
    /\ at \in {"tls", "launch", "await", "transport", "url", "start", "run",
               "disconnect", "reap", "farewell", "stop", "join", "gone"}
    /\ client \in ClientStates
    /\ beat \in {"none", "loop", "sleep", "lock", "send", "relock", "write", "unlock", "exit"}

\* Nothing uses what its owner has released: neither the server thread nor an
\* audio callback can be inside the server when its mutexes are destroyed, and the
\* heartbeat writes only to a live connection that nobody else is using.
NothingOutlivesItsOwner ==
    /\ ~server.alive => thr.pc = "done" /\ ~AudioOpen
    /\ TlsIsExclusive

\* The server owns each socket it must close, a listener that keeps up hears the
\* sound exactly, and no thread uses what another one has released.
CastIsSafe == SocketsAreOwned /\ AudioIsExact /\ NothingOutlivesItsOwner
=============================================================================
