---------------------------- MODULE SerialPort ----------------------------
(***************************************************************************)
(* A serial card of the Oric with the transport behind it.                 *)
(*                                                                         *)
(* uart is the card: a 6551 (module Acia6551), or one of the cards built   *)
(* on the 6850 (module Acia6850).  pipe is the transport of                *)
(* serial_backend.c that its command line named:                           *)
(*   loopback   what goes out comes back, through a ring;                  *)
(*   tcp        a socket;                                                  *)
(*   tty        a pseudo-terminal or a real serial port;                   *)
(*   file       a file is replayed, with one byte of lookahead;            *)
(*   midi       a MIDI port or a MIDI file, through a ring that drops;     *)
(*   digitelec  a modem that dials on DTR and drives DCD and CTS.          *)
(* buf is what the transport took from its source and still holds, src     *)
(* what is still in the kernel or the file.                                *)
(*                                                                         *)
(* The far end sends 1, 2, 3...; `far` counts them and records what the    *)
(* program read.                                                           *)
(***************************************************************************)
EXTENDS Acia6551, Acia6850, FiniteSets

CONSTANTS
    Cards,       \* subset of {"6551", "dtl", "mageco"}
    Pipes,       \* subset of the transports above
    Queues,      \* lengths of the receive queue of the 6551
    Ring,        \* bytes in the ring of a transport (256 to 512)
    High, Low,   \* levels of the flow control of the Digitelec modem (400, 256)
    MaxSent,     \* bound: bytes of the far end
    Commands,    \* command words the program writes, as four flags
    MayReset     \* whether the program resets the chip

ASSUME SerialAssumption ==
    /\ Cards \subseteq {"6551", "dtl", "mageco"}
    /\ Pipes \subseteq {"loopback", "tcp", "tty", "file", "midi", "digitelec"}
    /\ Queues \subseteq Nat /\ MaxSent \in Nat /\ Ring \in Nat \ {0}
    /\ High \in Nat /\ Low \in Nat /\ Low < High
    /\ \A c \in Commands : \A i \in 1 .. 4 : c[i] \in BOOLEAN

VARIABLES uart, pipe, far
vars == <<uart, pipe, far>>

-----------------------------------------------------------------------------
(***************************************************************************)
(* Transports.  s is a pair of card and transport, since the Digitelec     *)
(* modem drives pins of the card.                                          *)
(***************************************************************************)

\* The open of each transport; the modem starts on hook.
pipe_open(kind) ==
    [kind |-> kind, up |-> kind # "digitelec", buf |-> <<>>, src |-> <<>>, eof |-> FALSE,
     dtrWas |-> FALSE, cts |-> TRUE]
Connected(p) == p.kind \in {"loopback", "file", "midi"} \/ p.up

digitelec_connect(s, ok) ==
    IF ~ok THEN s
    ELSE [s EXCEPT !.p = [@ EXCEPT !.up = TRUE, !.src = <<>>, !.eof = FALSE],
                   !.u = acia_set_dcd(@, TRUE)]
digitelec_disconnect(s) ==
    [s EXCEPT !.p = [@ EXCEPT !.up = FALSE, !.buf = <<>>, !.src = <<>>, !.cts = TRUE],
              !.u = acia_set_cts(acia_set_dcd(@, FALSE), TRUE)]
digitelec_check_dtr(s, ok) ==
    LET dial == s.u.dtr /\ ~s.p.dtrWas /\ ~s.p.up
        hang == ~s.u.dtr /\ s.p.dtrWas /\ s.p.up
        t == IF dial THEN digitelec_connect(s, ok)
             ELSE IF hang THEN digitelec_disconnect(s) ELSE s
    IN  [t EXCEPT !.p.dtrWas = s.u.dtr]

\* A byte goes out; ok says whether the host takes it.  Only the loopback and
\* the modem change state.
loopback_send(s, b) == IF Len(s.p.buf) < Ring THEN [s EXCEPT !.p.buf = Append(@, b)] ELSE s
digitelec_send(s, ok) ==
    LET t == digitelec_check_dtr(s, ok)
    IN  IF t.p.up /\ ~ok THEN digitelec_disconnect(t) ELSE t
pipe_send(s, b, ok) ==
    CASE s.p.kind = "loopback"  -> loopback_send(s, b)
      [] s.p.kind = "digitelec" -> digitelec_send(s, ok)
      [] OTHER                  -> s

\* n elements move from the source to the ring; what does not fit is dropped.
Move(p, n) ==
    LET room == Ring - Len(p.buf)
    IN  [p EXCEPT !.buf = @ \o SubSeq(p.src, 1, IF n < room THEN n ELSE room),
                  !.src = SubSeq(@, n + 1, Len(@))]
\* A MIDI port or file gives the n events that are due, a file one byte ahead.
midi_pump(p, n) == Move(p, n)
file_poll(p) == IF p.buf = <<>> /\ p.src # <<>> THEN Move(p, 1) ELSE p
pipe_poll(s, n, ok) ==
    CASE s.p.kind = "digitelec" -> digitelec_check_dtr(s, ok)
      [] s.p.kind = "midi"      -> [s EXCEPT !.p = midi_pump(@, n)]
      [] s.p.kind = "file"      -> [s EXCEPT !.p = file_poll(@)]
      [] OTHER                  -> s

\* Whether a poll answers that there is something: a socket that the far end
\* closed has something to read too.
loopback_poll(p) == p.buf # <<>>
pty_poll(p) == p.src # <<>>
tcp_poll(p) == p.up /\ (p.src # <<>> \/ p.eof)
digitelec_poll(p) == p.buf # <<>> \/ tcp_poll(p)
Ready(p) ==
    CASE p.kind \in {"loopback", "file", "midi"} -> loopback_poll(p)
      [] p.kind = "tty"                          -> pty_poll(p)
      [] p.kind = "tcp"                          -> tcp_poll(p)
      [] p.kind = "digitelec"                    -> digitelec_poll(p)

CtsAt(n, cts) == IF n >= High THEN FALSE ELSE IF n <= Low THEN TRUE ELSE cts

\* The modem reads as much as it can hold, then sets the flow control.
digitelec_fill(s) ==
    LET free == Ring - Len(s.p.buf)
        n == IF Len(s.p.src) < free THEN Len(s.p.src) ELSE free
        t == IF Len(s.p.src) < free /\ s.p.eof THEN digitelec_disconnect(s)
             ELSE [s EXCEPT !.p.buf = @ \o SubSeq(s.p.src, 1, n),
                            !.p.src = SubSeq(@, n + 1, Len(@))]
        cts == CtsAt(Len(t.p.buf), t.p.cts)
    IN  IF ~s.p.up THEN s
        ELSE [t EXCEPT !.p.cts = cts, !.u = acia_set_cts(@, cts)]

\* The result carries the byte read, or none.
loopback_recv(s) ==
    IF s.p.buf = <<>> THEN [u |-> s.u, p |-> s.p, got |-> <<>>]
    ELSE [u |-> s.u, p |-> [s.p EXCEPT !.buf = Tail(@)], got |-> <<Head(s.p.buf)>>]
tcp_recv(s) ==
    IF s.p.src = <<>> THEN [u |-> s.u, p |-> [s.p EXCEPT !.up = ~s.p.eof], got |-> <<>>]
    ELSE [u |-> s.u, p |-> [s.p EXCEPT !.src = Tail(@)], got |-> <<Head(s.p.src)>>]
digitelec_recv(s) == loopback_recv(digitelec_fill(s))
pipe_recv(s) ==
    CASE s.p.kind \in {"loopback", "file", "midi"} -> loopback_recv(s)
      [] s.p.kind \in {"tcp", "tty"}               -> tcp_recv(s)
      [] s.p.kind = "digitelec"                    -> digitelec_recv(s)

-----------------------------------------------------------------------------
(***************************************************************************)
(* The tick of a card; due names what its counters have reached.           *)
(***************************************************************************)

AciaSends(s, ok) ==
    LET t == IF s.u.cts THEN pipe_send(s, s.u.tdr, ok) ELSE s
    IN  [t EXCEPT !.u = TxDone(@)]
AciaReceives(s, n, ok) ==
    LET t == pipe_poll(s, n, ok)
        ready == Ready(t.p) /\ (t.u.cfg.backp => acia_rx_has_space(t.u))
        r == pipe_recv(t)
    IN  IF ~(t.u.dcd /\ ready) THEN t
        ELSE [u |-> IF r.got = <<>> THEN r.u ELSE RxStore(r.u, r.got[1]), p |-> r.p]
acia_tick(s, due, n, ok) ==
    LET t == IF "irq" \in due THEN [s EXCEPT !.u = IrqArrives(@)] ELSE s
        v == IF "tx" \in due /\ t.u.txp THEN AciaSends(t, ok) ELSE t
    IN  IF ~t.u.dtr THEN t ELSE IF "rx" \in due THEN AciaReceives(v, n, ok) ELSE v

card6850_tick(s, due, n, ok) ==
    LET t == pipe_poll(s, n, ok)
        r == pipe_recv(t)
        v == IF ~("rx" \in due /\ Listens(s.u)) THEN s
             ELSE IF ~Ready(t.p) THEN t
             ELSE [u |-> IF r.got = <<>> THEN r.u ELSE acia6850_rx_byte(r.u, r.got[1]), p |-> r.p]
    IN  IF "tx" \in due /\ v.u.busy THEN [v EXCEPT !.u = acia6850_tx_complete(@)] ELSE v

-----------------------------------------------------------------------------
(***************************************************************************)
(* Actions: the card, the far end, and the program on the Oric.            *)
(***************************************************************************)

Is6551 == uart.card = "6551"
Become(s) == \E t \in {s} : uart' = t.u /\ pipe' = t.p

\* The card setups: back pressure is for a socket, the Digitelec modem for a
\* 6551; its open drives the pins.
Init ==
    \E c \in Cards, k \in Pipes :
        /\ k = "digitelec" => c = "6551"
        /\ pipe = pipe_open(k)
        /\ IF c # "6551" THEN uart = card_reset(c)
           ELSE \E cfg \in Config(Queues) :
                    /\ cfg.backp => k = "tcp"
                    /\ uart = acia_set_dcd(acia_init(cfg), k # "digitelec")
        /\ far = [sent |-> 0, got |-> <<>>, lossy |-> FALSE]

\* Only the modem's calls can fail, only MIDI events fall due, and an
\* assertion arrives when one is in transit.
Answers == IF pipe.kind = "digitelec" THEN BOOLEAN ELSE {TRUE}
Events == IF pipe.kind = "midi" THEN 0 .. Len(pipe.src) ELSE {0}
Dues == SUBSET (IF Is6551 /\ uart.transit THEN {"irq", "tx", "rx"} ELSE {"tx", "rx"})

Tick ==
    /\ \E due \in Dues, n \in Events, ok \in Answers :
          Become(IF Is6551 THEN acia_tick([u |-> uart, p |-> pipe], due, n, ok)
                 ELSE card6850_tick([u |-> uart, p |-> pipe], due, n, ok))
    /\ UNCHANGED far

FarSends ==
    /\ pipe.up /\ ~pipe.eof /\ pipe.kind # "loopback" /\ far.sent < MaxSent
    /\ pipe' = [pipe EXCEPT !.src = Append(@, far.sent + 1)]
    /\ far' = [far EXCEPT !.sent = @ + 1]
    /\ UNCHANGED uart
FarCloses ==
    /\ pipe.kind \in {"tcp", "digitelec"} /\ pipe.up /\ ~pipe.eof
    /\ pipe' = [pipe EXCEPT !.eof = TRUE]
    /\ UNCHANGED <<uart, far>>

\* The program reads data when the status says there is some.  When LOCI
\* serves the bus and loses the race the byte is consumed and not seen.
ReadData(seen) ==
    /\ "RDRF" \in uart.st
    /\ ~seen => Is6551 /\ uart.cfg.loci
    /\ uart' = IF Is6551 THEN acia_read_data(uart) ELSE acia6850_read_data(uart, Connected(pipe))
    /\ far' = IF ~seen THEN [far EXCEPT !.lossy = TRUE]
              ELSE IF pipe.kind = "loopback" THEN far
              ELSE [far EXCEPT !.got = Append(@, uart.rdr)]
    /\ UNCHANGED pipe
ReadStatus ==
    /\ uart' = IF Is6551 THEN acia_read_status(uart) ELSE acia6850_read_status(uart, Connected(pipe))
    /\ UNCHANGED <<pipe, far>>
Fresh == IF pipe.kind = "loopback" THEN far.sent + 1 ELSE 0
WriteData(ok) ==
    /\ ok \in Answers
    /\ IF Is6551 THEN uart' = acia_write_data(uart, Fresh) /\ UNCHANGED pipe
       ELSE LET u == acia6850_write_data(uart, Fresh)
            IN  Become(IF Emits(u) THEN pipe_send([u |-> u, p |-> pipe], u.tdr, ok)
                       ELSE [u |-> u, p |-> pipe])
    /\ far' = IF pipe.kind = "loopback" THEN [far EXCEPT !.sent = @ + 1] ELSE far
    /\ far'.sent <= MaxSent
WriteCommand(c) ==
    /\ uart' = IF Is6551 THEN acia_write_command(uart, c[1], c[2], c[3], c[4])
               ELSE acia6850_control_write(uart, c[1], c[2], c[3], Connected(pipe))
    /\ UNCHANGED <<pipe, far>>
WritePia(cra, on) ==
    /\ uart.card = "dtl"
    /\ uart' = IF cra THEN pia_write_cra(uart, on) ELSE pia_write_pra(uart, on, Connected(pipe))
    /\ UNCHANGED <<pipe, far>>
Reset(a, b) ==
    /\ MayReset
    /\ Is6551 => a /\ b
    /\ uart' = IF Is6551 THEN acia_reset(uart) ELSE master_reset(uart, a, b, Connected(pipe))
    /\ far' = [far EXCEPT !.lossy = TRUE]
    /\ UNCHANGED pipe

Next ==
    \/ Tick \/ FarSends \/ FarCloses \/ ReadStatus
    \/ \E a \in BOOLEAN : ReadData(a) \/ WriteData(a)
    \/ \E a, b \in BOOLEAN : Reset(a, b) \/ WritePia(a, b)
    \/ \E c \in Commands : WriteCommand(c)

Spec == Init /\ [][Next]_vars /\ WF_vars(Tick)

-----------------------------------------------------------------------------
(***************************************************************************)
(* Properties.                                                             *)
(***************************************************************************)

Waiting == (IF Is6551 THEN Unread(uart) ELSE Holds(uart)) \o pipe.buf \o pipe.src

\* Neither a poll with lookahead, a full queue, an overrun, nor a
\* carrier that drops makes the program read a byte twice or out of order.
ReadInOrder ==
    pipe.kind # "loopback" =>
        LET all == far.got \o Waiting
        IN  \A i, j \in DOMAIN all : i < j => all[i] < all[j]

\* With back pressure on the 6551, and on both 6850 cards, every byte the far
\* end sent is read, waits in the chip or waits in the transport, whatever
\* the order of ticks, reads and the close of the connection.
NothingIsLost ==
    /\ pipe.kind \in {"tcp", "tty", "file"} /\ ~far.lossy
    /\ Is6551 => uart.cfg.backp
    => /\ far.got \o Waiting = [i \in 1 .. far.sent |-> i]
       /\ "OVRN" \notin uart.st

\* The interrupt line and the status register say the same, the line is
\* never held without a cause and, in the 65C51 mode or on a 6850, a cause is
\* never left without the line: no order of status reads, data reads and
\* ticks loses an interrupt.
IrqMatchesStatus ==
    IF Is6551
    THEN /\ ("IRQ" \in uart.st) = (uart.line \/ uart.transit)
         /\ uart.line \/ uart.transit => IrqWanted(uart)
         /\ uart.cfg.onRdrf /\ IrqWanted(uart) => uart.line \/ uart.transit
    ELSE uart.line = ("IRQ" \in uart.st)

\* The pins of the 6551 follow the Digitelec modem, and its flow control has
\* hysteresis: clear to send while it holds less than High with the byte just
\* handed over, and not clear only while it holds Low or more.
FlowControl ==
    pipe.kind = "digitelec" =>
        /\ uart.dcd = pipe.up /\ uart.cts = pipe.cts
        /\ pipe.cts => Len(pipe.buf) + 1 < High \/ pipe.buf = <<>>
        /\ ~pipe.cts => pipe.up /\ Len(pipe.buf) >= Low

\* serial_backend.c, Digitelec: "ORIC deasserts DTR to hang up (close TCP)".
HangsUp == (pipe.kind = "digitelec" /\ pipe.up /\ ~uart.dtr) ~> (~pipe.up \/ uart.dtr)

\* The safety of the port: bytes in order, none lost, the interrupt line and
\* the pins as the chip says.
SerialIsExact == ReadInOrder /\ NothingIsLost /\ IrqMatchesStatus /\ FlowControl
=============================================================================
