------------------------------- MODULE Modem -------------------------------
(***************************************************************************)
(* The two modems that sit behind the serial port: the Hayes modem of      *)
(* serial_backend.c and the PicoWiFi modem of serial_picowifi.c.           *)
(*                                                                         *)
(* A modem is either in command mode, where what the Oric sends is a       *)
(* command line, or in data mode, where it goes out on a TCP connection.   *)
(* Both modes deliver to the Oric through one ring.  The Oric sends either *)
(* one byte, <<b>>, or a whole command line with its carriage return,      *)
(* <<"AT">> followed by its commands; in data mode a line is so much data. *)
(*                                                                         *)
(* `call` records what the two users of the connection did: typed and      *)
(* heard are the data of the far user and what of it was put in the ring,  *)
(* sent is what the Oric's user sent in data mode.                         *)
(***************************************************************************)
EXTENDS Naturals, Sequences, SequencesExt

CONSTANTS
    Kinds,        \* the modems to consider: subset of {"hayes", "pico"}
    Line,         \* command lines, as sequences of commands without the AT
    Ring,         \* capacity of the receive ring (64 KB in the code)
    Chunk,        \* most bytes taken by one read of the socket (256)
    Guard,        \* polls of silence before an escape (50)
    MayRedial,    \* whether a program dials while it has a call
    MaxSent,      \* bound: elements sent by the Oric
    MaxTyped,     \* bound: data bytes and questions of the far end in one call
    MaxCalls      \* bound: TCP connections

\* Commands whose argument is the rest of the line.
ToEndOfLine == {"D", "D-", "D=", "D+", "D#", "GET", "DISKRD", "DISKWR"}

\* The values the constants may have.
ModemConstants ==
    /\ Kinds \subseteq {"hayes", "pico"}
    /\ \A l \in Line : \A i \in 1 .. Len(l) - 1 : l[i] \notin ToEndOfLine
    /\ MayRedial \in BOOLEAN
    /\ {Ring, Chunk, Guard, MaxSent, MaxTyped, MaxCalls} \subseteq Nat \ {0}

VARIABLES
    modem,        \* the modem's own state
    net,          \* the TCP connections it ever opened
    call,         \* history of the current call
    nvram,        \* settings on the host's disk

    user          \* the Oric program: sends left, polls since the last one

vars == <<modem, net, call, nvram, user>>

\* The bytes that the code tells apart; "x" and "." stand for the others.
Byte == {"x", ".", "+", "CR", "IAC"}
NoCall == 0

\* The sequence s taken element by element, op being applied from the left.
Each(op(_, _), base, s) ==
    LET f[i \in 0 .. Len(s)] == IF i = 0 THEN base ELSE op(f[i - 1], s[i]) IN f[Len(s)]

\* The settings that later steps depend on.
Factory == [telnet |-> "real", echo |-> TRUE, quiet |-> FALSE, esc |-> TRUE]

-----------------------------------------------------------------------------
(***************************************************************************)
(* The ring to the Oric, as the number of bytes in it: what goes in comes  *)
(* out in the same order, and `call` notes the data when it goes in.       *)
(***************************************************************************)

pw_rx_push(m) == IF m.ring >= Ring THEN m ELSE [m EXCEPT !.ring = @ + 1]

\* A result code: it ends the telnet session when the call is over.
pw_result(m, code) ==
    LET n == IF code \in {"NO CARRIER"} /\ m.kind = "pico"
             THEN [m EXCEPT !.session = m.set.telnet, !.tn = "normal", !.prevCr = FALSE]
             ELSE m
    IN  IF m.set.quiet THEN n ELSE pw_rx_push(n)

-----------------------------------------------------------------------------
(***************************************************************************)
(* Telnet.  tn is the state of the receiver, prevCr says that the last     *)
(* byte delivered was a carriage return.                                   *)
(***************************************************************************)

\* What a byte of the Oric becomes on the line.
pw_tn_out_byte(m, b) ==
    CASE m.session # "none" /\ b = "IAC" -> <<"IAC", "IAC">>
      [] m.session = "real" /\ b = "CR"  -> <<"CR", "NUL">>
      [] OTHER                           -> <<b>>

\* One byte of the line: z is the modem, the bytes to answer, the data heard.
Deliver(z, b) == [z EXCEPT !.m = [pw_rx_push(@) EXCEPT !.prevCr = (b = "CR")],
                           !.heard = IF z.m.ring < Ring THEN Append(@, b) ELSE @]
To(z, st) == [z EXCEPT !.m.tn = st]
Answer(z, bs) == [z EXCEPT !.answer = @ \o bs]

pw_tn_negotiate(z, b) ==
    CASE z.m.verb = "DO"   -> Answer(z, <<"IAC", "WILL", b>>)
      [] z.m.verb = "WILL" -> Answer(z, <<"IAC", "DO", b>>)
      [] OTHER             -> z

pw_tn_subneg(z) == Answer(z, <<"IAC", "SB", z.m.sb, "x", "IAC", "SE">>)

pw_tn_rx_byte(z, b) ==
    CASE z.m.tn = "normal" ->
            IF b = "IAC" THEN To(z, "iac")
            ELSE IF z.m.session = "real" /\ z.m.prevCr /\ b = "NUL"
            THEN [z EXCEPT !.m.prevCr = FALSE]
            ELSE Deliver(z, b)
      [] z.m.tn = "iac" ->
            CASE b = "IAC" -> To(Deliver(z, b), "normal")
              [] b \in {"WILL", "WONT", "DO", "DONT"} -> To([z EXCEPT !.m.verb = b], "verb")
              [] b = "SB" -> To([z EXCEPT !.m.sb = "none"], "sb")
              [] b = "AYT" -> To(Answer(z, <<"YES">>), "normal")
              [] OTHER -> To(z, "normal")
      [] z.m.tn = "verb" -> To(pw_tn_negotiate(z, b), "normal")
      [] z.m.tn = "sb" ->
            IF b = "IAC" THEN To(z, "sbIac")
            ELSE IF z.m.sb = "none" THEN [z EXCEPT !.m.sb = b] ELSE z
      [] z.m.tn = "sbIac" -> IF b = "SE" THEN To(pw_tn_subneg(z), "normal") ELSE To(z, "sb")

-----------------------------------------------------------------------------
(***************************************************************************)
(* Connections.  A connection holds what the far end sent and is unread,   *)
(* whether the far end closed it, and whether this end still has it open.  *)
(***************************************************************************)

FreshCall(telnet) == [telnet |-> telnet, typed |-> <<>>, heard |-> <<>>, sent |-> <<>>,
                      line |-> <<>>, lossy |-> FALSE, asked |-> FALSE]

\* A socket to the far end, and the TLS session of a secure call on it.
pw_tcp_connect(n) == Append(n, [in |-> <<>>, eof |-> FALSE, open |-> TRUE])
pw_tls_wrap(m, c, secure) == [m EXCEPT !.secure = secure, !.ssl = IF secure THEN c ELSE @]

\* Associate, connect and, for a secure call, the TLS handshake; ok says whether
\* all of that succeeded.  The new call replaces whatever there was.
pw_dial(s, telnet, secure, ok) ==
    LET m == [s.modem EXCEPT !.session = telnet]
        c == Len(s.net) + 1
    IN  IF ~ok THEN [s EXCEPT !.modem = pw_result(m, "NO CARRIER")]
        ELSE [s EXCEPT
                !.modem = pw_result([pw_tls_wrap(m, c, secure) EXCEPT
                                       !.sock = c, !.mode = "data", !.plus = 0,
                                       !.tn = "normal", !.prevCr = FALSE], "CONNECT"),
                !.net = pw_tcp_connect(@),
                !.call = FreshCall(telnet)]

Closed == [in |-> <<>>, eof |-> TRUE, open |-> FALSE]
pw_conn_close(s) ==
    [s EXCEPT !.net = [c \in DOMAIN @ |-> IF c = s.modem.sock THEN Closed ELSE @[c]],
              !.modem = [@ EXCEPT !.sock = NoCall, !.ssl = NoCall, !.secure = FALSE],
              !.call = FreshCall("none")]

\* The connection that reads and writes use: the TLS session when there is one.
Carrier(m) == IF m.ssl # NoCall THEN m.ssl ELSE m.sock

\* The carrier is lost: back to command mode with NO CARRIER.
DropCarrier(s) ==
    LET t == pw_conn_close(s)
    IN  [t EXCEPT !.modem = pw_result([@ EXCEPT !.mode = "command"], "NO CARRIER")]

-----------------------------------------------------------------------------
(***************************************************************************)
(* Commands.  Every operator takes the state, the command and whether it   *)
(* is the last of its line: only the last one answers OK.                  *)
(***************************************************************************)

pw_end(s, last) == IF last THEN [s EXCEPT !.modem = pw_result(@, "OK")] ELSE s
Fail(s, code) == [s EXCEPT !.modem = pw_result(@, code)]
Show(s) == [s EXCEPT !.modem = pw_rx_push(@)]

Settings ==
    ("NET0" :> [telnet |-> "none"]) @@ ("NET1" :> [telnet |-> "real"])
    @@ ("NET2" :> [telnet |-> "fake"]) @@ ("E0" :> [echo |-> FALSE])
    @@ ("E1" :> [echo |-> TRUE]) @@ ("Q1" :> [quiet |-> TRUE]) @@ ("S2=128" :> [esc |-> FALSE])
DialMode(set) ==
    ("D" :> set.telnet) @@ ("D-" :> "none") @@ ("D=" :> "real") @@ ("D+" :> "fake")
    @@ ("D#" :> set.telnet) @@ ("GET" :> "none")

\* Settings, kept in memory until AT&W writes them to the disk.
DispatchSetting(s, c, last) ==
    pw_end([s EXCEPT !.modem.set = Settings[c] @@ @], last)
pw_nvram_save(s) == [s EXCEPT !.nvram = s.modem.set]
DispatchStore(s, c, last) ==
    LET t == IF c = "&F" THEN [s EXCEPT !.modem.set = Factory, !.modem.session = "real"] ELSE s
    IN  pw_end(pw_nvram_save(t), last)

\* Dialling takes the rest of the line and gives its own result.
pw_do_dial(s, c, ok) == pw_dial(s, DialMode(s.modem.set)[c], c = "D#", ok)

\* ATGET dials without telnet and sends the request for the Oric.
DispatchGet(s, ok) ==
    LET t == pw_do_dial(s, "GET", ok)
    IN  IF t.modem.sock = NoCall THEN t
        ELSE [t EXCEPT !.call.line = Append(@, "x"), !.call.sent = Append(@, "x")]

DispatchOnline(s, c) ==
    IF s.modem.sock = NoCall
    THEN Fail(s, IF c = "O" THEN "NO CARRIER" ELSE "ERROR")
    ELSE IF c = "O" THEN [s EXCEPT !.modem = pw_result([@ EXCEPT !.mode = "data"], "CONNECT")]
    ELSE IF s.modem.session = "none" THEN Fail(s, "ERROR")
    ELSE [s EXCEPT !.modem.mode = "data", !.call.line = @ \o <<"IAC", "AYT">>]

DispatchHangup(s, last) ==
    LET t == IF s.modem.sock # NoCall THEN pw_conn_close(s) ELSE s
    IN  pw_end([t EXCEPT !.modem.mode = "command"], last)

\* A web disk sector: its bytes come through the ring, framed; len bytes are
\* captured from the Oric for a write, and the result follows the last one.
pw_disk_read(s, ok) == IF ok THEN pw_end(Show(s), TRUE) ELSE Fail(s, "ERROR")
pw_disk_write_begin(s, ok) ==
    IF ok THEN [s EXCEPT !.modem.capture = "disk", !.modem.got = 0] ELSE Fail(s, "ERROR")
DispatchCa(s) == Show([s EXCEPT !.modem.capture = "ca", !.modem.got = 0])

pw_dispatch_one(s, c, last, ok) ==
    CASE c \in DOMAIN Settings -> DispatchSetting(s, c, last)
      [] c \in {"&W", "&F"}    -> DispatchStore(s, c, last)
      [] c = "GET"             -> DispatchGet(s, ok)
      [] c \in DOMAIN DialMode(Factory) -> pw_do_dial(s, c, ok)
      [] c \in {"O", "AYT"}    -> DispatchOnline(s, c)
      [] c = "H"               -> DispatchHangup(s, last)
      [] c = "I"               -> pw_end(Show(s), last)
      [] c = "Z"               -> pw_end(s, last)
      [] c = "A"               -> Fail(s, "NO CARRIER")
      [] c = "RD" -> IF s.modem.sock = NoCall /\ ok THEN pw_end(Show(s), last) ELSE Fail(s, "ERROR")
      [] c = "DISKRD"          -> pw_disk_read(s, ok)
      [] c = "DISKWR"          -> pw_disk_write_begin(s, ok)
      [] c = "CA="             -> DispatchCa(s)
      [] OTHER                 -> [Fail(s, "ERROR") EXCEPT !.modem.bad = TRUE]

\* The commands of a line in order; an unknown one, or going online, ends it.
pw_process_at(s, line, ok) ==
    LET Step(t, i) == IF t.modem.bad \/ t.modem.mode = "data" THEN t
                      ELSE pw_dispatch_one(t, line[i], i = Len(line), ok)
        t == Each(Step, s, [i \in DOMAIN line |-> i])
    IN  IF line = <<>> THEN Fail(s, "OK") ELSE [t EXCEPT !.modem.bad = FALSE]

\* The Hayes modem knows one command per line.
modem_process_at(s, line, ok) ==
    LET c == IF line = <<>> THEN "" ELSE line[1]
    IN  CASE c = "" -> Fail(s, "OK")
          [] c = "Z" -> Fail([s EXCEPT !.modem.set.echo = TRUE, !.modem.plus = 0], "OK")
          [] c \in {"E0", "E1"} -> Fail([s EXCEPT !.modem.set.echo = (c = "E1")], "OK")
          [] c = "H" -> DispatchHangup(s, TRUE)
          [] c \in {"D", "D-"} -> pw_dial(s, "none", FALSE, ok)
          [] c = "A" -> IF ok THEN pw_dial(s, "none", FALSE, TRUE) ELSE Fail(s, "ERROR")
          [] OTHER -> Fail(s, "ERROR")

-----------------------------------------------------------------------------
(***************************************************************************)
(* The functions that the serial port calls.                               *)
(***************************************************************************)

Now == [modem |-> modem, net |-> net, call |-> call, nvram |-> nvram]
Become(next) ==
    \E s \in {next} :
        /\ modem' = s.modem /\ net' = s.net /\ nvram' = s.nvram
        /\ call' = IF s.call.lossy THEN [s.call EXCEPT !.sent = <<>>, !.line = <<>>] ELSE s.call

\* Bytes go to the socket; w is what the kernel makes of them.  A full send
\* buffer loses them, which the history notes.
Write(s, bs, w) ==
    CASE w = "ok"    -> [s EXCEPT !.call.line = Each(LAMBDA l, b : l \o pw_tn_out_byte(s.modem, b), @, bs)]
      [] w = "again" -> [s EXCEPT !.call.lossy = TRUE]
      [] w = "fatal" -> DropCarrier(s)

\* An escape character after the guard time counts towards the escape and is
\* held back.  The Hayes modem wants silence before the first one only.
IsEscape(m, b) ==
    /\ b = "+" /\ m.set.esc
    /\ m.silence >= Guard \/ (m.kind = "hayes" /\ m.plus > 0)

SendEscape(s) ==
    IF s.modem.plus = 2
    THEN [s EXCEPT !.modem = pw_result([@ EXCEPT !.mode = "command", !.plus = 0,
                                                 !.junk = FALSE, !.silence = 0], "OK"),
                   !.call.sent = SubSeq(@, 1, Len(@) - 2)]
    ELSE [s EXCEPT !.modem.plus = @ + 1, !.modem.silence = 0,
                   !.call.sent = Append(@, "+")]

SendData(s, b, w) ==
    LET held == [i \in 1 .. s.modem.plus |-> "+"]
        t == [s EXCEPT !.modem.plus = 0, !.modem.silence = 0, !.call.sent = Append(@, b)]
        u == IF held = <<>> THEN t ELSE Write(t, held, IF w = "fatal" THEN "ok" ELSE w)
    IN  IF t.modem.sock = NoCall THEN t ELSE Write(u, <<b>>, w)

\* Bytes captured for the disk are counted; those of a certificate end with
\* a line of its own.
pw_disk_write_flush(s, ok) ==
    Fail([s EXCEPT !.modem.capture = "none"], IF ok THEN "OK" ELSE "ERROR")
SendCapture(s, b, ok) ==
    IF s.modem.capture = "disk"
    THEN IF s.modem.got = 0 THEN [s EXCEPT !.modem.got = 1] ELSE pw_disk_write_flush(s, ok)
    ELSE LET t == IF s.modem.set.echo THEN Show(s) ELSE s
         IN  IF b # "." THEN [t EXCEPT !.modem.got = 1]
             ELSE Fail([t EXCEPT !.modem.capture = "none"],
                       IF s.modem.got = 1 THEN "OK" ELSE "ERROR")

\* Command mode: text that is no command line spoils the line it begins.
IsLine(x) == x[1] = "AT"
SendCommand(s, x, ok) ==
    LET t == IF s.modem.set.echo THEN Show(s) ELSE s
        u == [t EXCEPT !.modem.junk = FALSE]
    IN  CASE IsLine(x) -> IF s.modem.junk THEN Fail(u, "ERROR")
                          ELSE IF s.modem.kind = "pico" THEN pw_process_at(u, Tail(x), ok)
                          ELSE modem_process_at(u, Tail(x), ok)
          [] x[1] = "CR" -> IF s.modem.junk THEN Fail(u, "ERROR") ELSE t
          [] OTHER -> [t EXCEPT !.modem.junk = TRUE]

picowifi_send(s, x, w) ==
    IF s.modem.mode = "data"
    THEN IF IsLine(x) THEN SendData(s, "x", w)
         ELSE IF IsEscape(s.modem, x[1]) THEN SendEscape(s) ELSE SendData(s, x[1], w)
    ELSE IF s.modem.capture # "none" THEN SendCapture(s, x[1], w = "ok")
    ELSE SendCommand(s, x, w = "ok")

\* Data from the socket: the PicoWiFi modem takes what fits in the ring and
\* decodes it, the Hayes modem takes a chunk and drops what does not fit.
Take(s, k) ==
    LET c == Carrier(s.modem)
        got == SubSeq(s.net[c].in, 1, k)
        z0 == [m |-> s.modem, heard |-> s.call.heard, answer |-> <<>>]
        Rx(z, b) == IF s.modem.session # "none" THEN pw_tn_rx_byte(z, b) ELSE Deliver(z, b)
        z == Each(Rx, z0, got)
    IN  [s EXCEPT !.modem = z.m, !.net[c].in = SubSeq(@, k + 1, Len(@)),
                  !.call.heard = z.heard, !.call.line = @ \o z.answer]

\* Mutant: the socket is read although the ring has no room.
MutRoom(m) == Chunk
Room(m) == IF m.kind = "pico" THEN Ring - m.ring ELSE Chunk

picowifi_recv(s, k) ==
    LET c == Carrier(s.modem)
        t == [s EXCEPT !.modem.silence = IF @ < Guard THEN @ + 1 ELSE @]
        u == IF s.modem.mode # "data" \/ s.modem.sock = NoCall \/ Room(s.modem) = 0 THEN t
             ELSE IF s.net[c].in # <<>> THEN Take(t, k)
             ELSE IF s.net[c].eof THEN DropCarrier(t)
             ELSE t
    IN  [u EXCEPT !.modem.ring = IF @ = 0 THEN 0 ELSE @ - 1]

\* Mutant: the end of the connection is not something to read.
MutPoll(m) == m.ring > 0 \/ (m.mode = "data" /\ m.sock # NoCall /\ net[m.sock].in # <<>>)
picowifi_poll(m) ==
    \/ m.ring > 0
    \/ m.mode = "data" /\ m.sock # NoCall /\ (net[m.sock].in # <<>> \/ net[m.sock].eof)

\* picowifi_open: settings from the disk, nothing connected.
picowifi_open(kind, stored) ==
    [kind |-> kind, mode |-> "command", sock |-> NoCall, ssl |-> NoCall, secure |-> FALSE,
     ring |-> 0, plus |-> 0, silence |-> 0, junk |-> FALSE, bad |-> FALSE,
     capture |-> "none", got |-> 0, tn |-> "normal", prevCr |-> FALSE, verb |-> "none",
     sb |-> "none", set |-> stored, session |-> IF kind = "pico" THEN "real" ELSE "none"]

-----------------------------------------------------------------------------
Init ==
    /\ \E k \in Kinds : modem = picowifi_open(k, Factory)
    /\ net = <<>>
    /\ call = FreshCall("none")
    /\ nvram = Factory
    /\ user = [left |-> MaxSent, idle |-> 0]

\* A careful program does not dial, nor restore the factory settings, in a call.
Careful(x) ==
    \/ MayRedial \/ modem.mode = "data" \/ modem.sock = NoCall
    \/ Range(x) \cap (ToEndOfLine \cup {"A", "&F"}) = {}

Send(x) ==
    /\ user.left > 0 /\ Careful(x)
    /\ IsLine(x) => Len(net) < MaxCalls \/ Range(x) \cap (ToEndOfLine \cup {"A"}) = {}
    /\ \E w \in {"ok", "again"} \cup IF modem.mode = "data" THEN {"fatal"} ELSE {} :
           Become(picowifi_send(Now, x, w))
    /\ user' = [left |-> user.left - 1, idle |-> 0]

\* The serial port asks for a byte only when the modem says there is one.
RxPoll ==
    /\ LET unread == IF Carrier(modem) = NoCall THEN 0 ELSE Len(net[Carrier(modem)].in)
       IN  IF ~picowifi_poll(modem) THEN Become(Now)
           ELSE \E k \in 0 .. Chunk :
                    /\ k <= Room(modem) /\ k <= unread
                    /\ (k = 0) = (Room(modem) = 0 \/ unread = 0)
                    /\ Become(picowifi_recv(Now, k))
    /\ user' = [user EXCEPT !.idle = IF @ < Guard THEN @ + 1 ELSE @]

\* The far end: a terminal that speaks the telnet of the call.
FarEncode(telnet, b) == pw_tn_out_byte([session |-> telnet], b)
Questions == {<<"IAC", "AYT", "IAC", "DO", "x">>, <<"IAC", "SB", "x", "IAC", "SE">>}

FarSends(bs) == net' = [net EXCEPT ![modem.sock].in = @ \o bs]
FarSent == Len(call.typed) + IF call.asked THEN 1 ELSE 0
FarUp == modem.sock # NoCall /\ ~net[modem.sock].eof

FarType(b) ==
    /\ FarUp /\ FarSent < MaxTyped
    /\ FarSends(FarEncode(call.telnet, b))
    /\ call' = [call EXCEPT !.typed = Append(@, b)]
    /\ UNCHANGED <<modem, nvram, user>>
FarAsk(q) ==
    /\ FarUp /\ call.telnet # "none" /\ ~call.asked /\ FarSent < MaxTyped
    /\ FarSends(q)
    /\ call' = [call EXCEPT !.asked = TRUE]
    /\ UNCHANGED <<modem, nvram, user>>
FarClose ==
    /\ FarUp
    /\ net' = [net EXCEPT ![modem.sock].eof = TRUE]
    /\ UNCHANGED <<modem, call, nvram, user>>

\* The emulator ends and is started again: the disk keeps what was written.
Restart ==
    /\ user.left > 0
    /\ Become([pw_conn_close(Now) EXCEPT !.modem = picowifi_open(modem.kind, nvram)])
    /\ user' = [user EXCEPT !.left = @ - 1]

\* In data mode all lines are alike, and "." differs from "x" in a certificate only.
\* A carriage return is special in a real telnet session only.
FarByte == IF call.telnet = "real" THEN {"CR", "IAC"} ELSE {"IAC"}

Next ==
    \/ \E b \in Byte : (b = "." => modem.capture = "ca") /\ Send(<<b>>)
    \/ \E l \in Line : (modem.mode = "data" => l = <<>>) /\ Send(<<"AT">> \o l)
    \/ RxPoll
    \/ \E b \in FarByte : FarType(b)
    \/ \E q \in Questions : FarAsk(q)
    \/ FarClose
    \/ Restart

Spec == Init /\ [][Next]_vars /\ WF_vars(RxPoll)

-----------------------------------------------------------------------------
(***************************************************************************)
(* Properties.                                                             *)
(***************************************************************************)

\* What a telnet terminal makes of the bytes on the line: the data in them.
Decode(z, b) ==
    CASE z.st = "cr" /\ b = "NUL" -> [z EXCEPT !.st = "data"]
      [] z.st \in {"data", "cr"} /\ b = "IAC" /\ z.telnet # "none" -> [z EXCEPT !.st = "iac"]
      [] z.st = "iac" /\ b \in {"DO", "WILL"} -> [z EXCEPT !.st = "option"]
      [] z.st = "iac" /\ b = "SB" -> [z EXCEPT !.st = "sub"]
      [] z.st = "iac" /\ b = "SE" -> [z EXCEPT !.st = "data"]
      [] z.st = "iac" /\ b = "AYT" -> [z EXCEPT !.st = "data"]
      [] z.st = "sub" -> IF b = "IAC" THEN [z EXCEPT !.st = "iac"] ELSE z
      [] z.st = "option" -> [z EXCEPT !.st = "data"]
      [] b = "YES" -> z
      [] OTHER -> [z EXCEPT !.data = Append(@, b),
                            !.st = IF b = "CR" /\ z.telnet = "real" THEN "cr" ELSE "data"]
FarReads(telnet, line) ==
    Each(Decode, [st |-> "data", data |-> <<>>, telnet |-> telnet], line).data

\* Whatever telnet mode a call has and however its bytes are cut into reads,
\* a full ring included, the Oric of a PicoWiFi modem is given what the far
\* user typed, in order, each byte once, and nothing else.
NothingHeardIsLost ==
    modem.kind = "pico" =>
        /\ IsPrefix(call.heard, call.typed)
        /\ modem.sock # NoCall /\ net[modem.sock].in = <<>> => call.heard = call.typed

\* What the far terminal decodes is what the Oric sent in data mode, in
\* order: the pluses held back by an escape that did not complete go out
\* before the byte that broke it, and no control sequence is taken for data.
SentInOrder ==
    ~call.lossy /\ modem.sock # NoCall =>
        FarReads(call.telnet, call.line) \o [i \in 1 .. modem.plus |-> "+"] = call.sent

\* The modem reads and writes the call it has, not a TLS session left from
\* another one, and has no other connection open: whichever way a call ends,
\* by hang-up, write error, far end or restart.
OneConnection ==
    /\ Carrier(modem) = modem.sock
    /\ \A c \in DOMAIN net : net[c].open => c = modem.sock

\* A far end that hangs up is noticed although the ring was full, the escape
\* half typed or a telnet command cut short: the modem returns to command mode.
CarrierLossIsNoticed ==
    (modem.mode = "data" /\ modem.sock # NoCall /\ net[modem.sock].eof)
        ~> (modem.mode = "command")

\* docs/orictel-modem-hayes.md: +++ with guard time returns to command mode.
\* A plus sent after Guard silent polls is held back as part of an escape.
EscapeAfterSilence ==
    [][user.idle >= Guard /\ modem.set.esc /\ call'.sent = Append(call.sent, "+")
       => call'.line = call.line]_vars

\* The three above: the modem keeps what it hears and sends, and its one call.
ModemIsSound == NothingHeardIsLost /\ SentInOrder /\ OneConnection
=============================================================================
