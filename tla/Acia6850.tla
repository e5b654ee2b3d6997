----------------------------- MODULE Acia6850 -----------------------------
(***************************************************************************)
(* The Motorola 6850 of acia6850.c and the two cards built on it: the DTL  *)
(* 2000 modem (dtl2000.c), whose line relay hangs on port A of a 6821, and *)
(* the Mageco and ORICON MIDI interfaces (mageco.c), which have no line.   *)
(***************************************************************************)
EXTENDS Naturals, Sequences

acia6850_update_irq(u) ==
    LET irq == (u.rie /\ "RDRF" \in u.st) \/ (u.tie /\ "TDRE" \in u.st)
    IN  [u EXCEPT !.st = IF irq THEN @ \cup {"IRQ"} ELSE @ \ {"IRQ"}, !.line = irq]

\* The DCD and CTS bits are set when the signal is absent.
acia6850_set_signals(u, present) ==
    [u EXCEPT !.st = IF present THEN @ \ {"DCD", "CTS"} ELSE @ \cup {"DCD", "CTS"}]

\* Reset of a card: relay open, port A selected as direction register.
card_reset(card) ==
    acia6850_set_signals(
        [card |-> card, st |-> {"TDRE"}, rdr |-> 0, tdr |-> 0, rie |-> FALSE, tie |-> FALSE,
         rts |-> FALSE, line |-> FALSE, busy |-> FALSE, cra |-> FALSE, closed |-> FALSE],
        card = "mageco")

\* dtl_refresh_signals: carrier needs the relay closed and a live transport.
Refresh(u, alive) == IF u.card = "dtl" THEN acia6850_set_signals(u, u.closed /\ alive) ELSE u

master_reset(u, rie, tie, alive) ==
    Refresh(acia6850_update_irq([u EXCEPT !.st = (@ \cap {"DCD", "CTS"}) \cup {"TDRE"}, !.rdr = 0,
                                          !.rie = rie, !.tie = tie, !.busy = FALSE]), alive)
acia6850_control_write(u, rie, tie, rts, alive) ==
    Refresh(acia6850_update_irq([u EXCEPT !.rie = rie, !.tie = tie, !.rts = rts]), alive)

acia6850_read_data(u, alive) ==
    Refresh(acia6850_update_irq([u EXCEPT !.st = @ \ {"RDRF"}]), alive)
acia6850_read_status(u, alive) == Refresh(u, alive)

\* A byte written goes out at once; the transmitter is busy for its length.
acia6850_write_data(u, b) ==
    [acia6850_update_irq([u EXCEPT !.tdr = b, !.st = @ \ {"TDRE"}]) EXCEPT !.busy = TRUE]
Emits(u) == u.card = "mageco" \/ (u.closed /\ u.rts)

\* Port A: the control register selects output or direction register, and
\* only the output register drives the relay.
pia_write_cra(u, sel) == [u EXCEPT !.cra = sel]
pia_write_pra(u, closed, alive) == IF u.cra THEN Refresh([u EXCEPT !.closed = closed], alive) ELSE u

\* Parts of the tick: bytes are fetched only when the last one was read.
Listens(u) == "RDRF" \notin u.st /\ (u.card = "mageco" \/ u.closed)
acia6850_rx_byte(u, b) == acia6850_update_irq([u EXCEPT !.rdr = b, !.st = @ \cup {"RDRF"}])
acia6850_tx_complete(u) ==
    acia6850_update_irq([u EXCEPT !.busy = FALSE, !.st = @ \cup {"TDRE"}])

Holds(u) == IF "RDRF" \in u.st THEN <<u.rdr>> ELSE <<>>
=============================================================================
