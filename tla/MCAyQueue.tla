----------------------------- MODULE MCAyQueue -----------------------------
(***************************************************************************)
(* What leaves the machine as sound and pictures, scene by scene: the      *)
(* queue of the PSG, with one register and a ring that holds two events;   *)
(* the casting service, with a peer that keeps up and a slow one, twice;   *)
(* and the video recorder.                                                 *)
(***************************************************************************)
EXTENDS AyQueue, Cast, AviRecorder

CONSTANTS r1, on, off, quick, sluggish

MCRegs == {r1}
MCVals == {on, off}
MCPeer == {quick, sluggish}
MCSlow == {sluggish}

VARIABLE scene
mcVars == <<vars, castVars, aviVars, scene>>

\* The configuration has two pictures with little sound; here the sound laps the
\* ring, with no pictures.
Listening == INSTANCE Cast WITH
  Asks <- {"audio", "snapshot", "silent"}, MaxFrames <- 0, MaxBlocks <- 8

MCInit ==
  /\ scene \in {"sound", "listen", "watch", "avi"}
  /\ Init /\ CastInit /\ AviInit
  /\ scene \in {"sound", "avi"} => at = "run"
  /\ scene # "avi" => avi.headless

SoundNext == scene = "sound" /\ Next /\ UNCHANGED <<castVars, aviVars, scene>>
ListenNext == scene = "listen" /\ Listening!CastNext /\ UNCHANGED <<vars, aviVars, scene>>
WatchNext == scene = "watch" /\ CastNext /\ UNCHANGED <<vars, aviVars, scene>>
MovieNext == scene = "avi" /\ AviNext /\ UNCHANGED <<vars, castVars, scene>>

MCFairSpec ==
  /\ MCInit
  /\ [][SoundNext \/ ListenNext \/ WatchNext \/ MovieNext]_mcVars
  /\ WF_vars(scene = "sound" /\ WriteStep) /\ WF_vars(scene = "sound" /\ ay_generate)
  /\ WF_castVars(scene = "watch" /\ Serve /\ ~Blocked)
  /\ WF_castVars(scene = "watch" /\ Heartbeat)
  /\ WF_castVars(scene = "watch" /\ Handshake)
  /\ WF_castVars(scene = "watch" /\ Disconnect)
  /\ WF_castVars(scene = "watch" /\ cast_server_stop)
=============================================================================
