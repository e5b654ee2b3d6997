------------------------------ MODULE MCSerial ------------------------------
(***************************************************************************)
(* The serial side, in two scenes: the serial port with its chips and      *)
(* transports, with three bytes of the far end, a queue of none or one     *)
(* byte, a ring of two; and the modems, with a ring of two elements, reads *)
(* of at most two, one poll of guard time, a call or two.                  *)
(***************************************************************************)
EXTENDS SerialPort

\* For the 6551: DTR, receive interrupt off, transmit interrupt, echo; for the
\* 6850: receive interrupt, transmit interrupt, carrier.
MCCommands == {<<FALSE, FALSE, FALSE, FALSE>>, <<TRUE, FALSE, FALSE, FALSE>>,
               <<TRUE, TRUE, TRUE, FALSE>>, <<TRUE, FALSE, TRUE, TRUE>>,
               <<FALSE, TRUE, FALSE, FALSE>>}

MCLine == {<<>>, <<"D+">>, <<"D#">>, <<"NET0", "GET">>, <<"H">>, <<"O">>, <<"AYT">>,
           <<"E0", "Q1", "&W", "I">>, <<"&F", "Z">>, <<"A">>, <<"RD", "DISKRD">>,
           <<"DISKWR">>, <<"CA=">>, <<"?">>}

VARIABLES scene, modem, net, call, nvram, user
modemVars == <<modem, net, call, nvram, user>>
mcVars == <<vars, modemVars, scene>>

Behind == INSTANCE Modem WITH
  Kinds <- {"hayes", "pico"}, Line <- MCLine, Ring <- 2, Chunk <- 2, Guard <- 1,
  MayRedial <- FALSE, MaxSent <- 4, MaxTyped <- 2, MaxCalls <- 1

ASSUME Behind!ModemConstants

MCInit ==
  /\ scene \in {"modem", "port"}
  /\ Init /\ Behind!Init
  /\ scene = "port" => modem.kind = "pico"
  /\ scene = "modem" => uart.card = "mageco" /\ pipe.kind = "loopback"

PortNext == scene = "port" /\ Next /\ UNCHANGED <<modemVars, scene>>
ModemNext == scene = "modem" /\ Behind!Next /\ UNCHANGED <<vars, scene>>

MCFairSpec ==
  /\ MCInit
  /\ [][ModemNext \/ PortNext]_mcVars
  /\ WF_modemVars(scene = "modem" /\ Behind!RxPoll)

\* What a modem keeps of the data, in both directions, and of its connections
\* (serial_backend.c, serial_picowifi.c).
ModemIsSound == Behind!ModemIsSound

\* A far end that hangs up is noticed (picowifi_recv, modem_recv).
CarrierLoss == scene = "modem" => Behind!CarrierLossIsNoticed
=============================================================================
