----------------------------- MODULE Acia6551 -----------------------------
(***************************************************************************)
(* The MOS 6551 serial chip of acia6551.c, as operators on its state.      *)
(*                                                                         *)
(* st is the status register as a set of bits, rdr and tdr the data        *)
(* registers (rxf: rdr is unread, txp: tdr is waiting), fifo the optional  *)
(* receive queue.  dtr, ird, txirq and echo are the fields of the command  *)
(* register.  line is the interrupt line to the processor; with the        *)
(* latency of LOCI's transport an assertion is first in transit.  The      *)
(* control register (speed, word length) only changes when ticks are due.  *)
(***************************************************************************)
EXTENDS Naturals, Sequences

\* The command line chooses: queue length, 65C51 interrupts, whether a full
\* receiver leaves bytes in the transport, whether LOCI serves the bus, in
\* which case interrupts take time and reads may be lost.
Config(queues) == [fifo: queues, onRdrf: BOOLEAN, backp: BOOLEAN, loci: BOOLEAN]

acia_init(cfg) ==
    [card |-> "6551", cfg |-> cfg, st |-> {"TDRE"}, rdr |-> 0, tdr |-> 0, rxf |-> FALSE, txp |-> FALSE,
     fifo |-> <<>>, dtr |-> FALSE, ird |-> FALSE, txirq |-> FALSE, echo |-> FALSE,
     line |-> FALSE, transit |-> FALSE, dcd |-> TRUE, cts |-> TRUE]

acia_assert_irq(a) ==
    IF a.line \/ a.transit THEN a
    ELSE IF a.cfg.loci THEN [a EXCEPT !.transit = TRUE] ELSE [a EXCEPT !.line = TRUE]
acia_deassert_irq(a) == [a EXCEPT !.line = FALSE, !.transit = FALSE]

IrqWanted(a) == ("RDRF" \in a.st /\ ~a.ird) \/ ("TDRE" \in a.st /\ a.txirq)
acia_update_irq(a) ==
    IF IrqWanted(a) THEN acia_assert_irq([a EXCEPT !.st = @ \cup {"IRQ"}])
    ELSE acia_deassert_irq([a EXCEPT !.st = @ \ {"IRQ"}])

\* A programmed reset keeps the parity field of the command register only.
acia_reset(a) ==
    [acia_deassert_irq(a) EXCEPT !.st = {"TDRE"}, !.dtr = FALSE, !.ird = FALSE, !.txirq = FALSE,
                                 !.echo = FALSE, !.txp = FALSE, !.rxf = FALSE, !.fifo = <<>>]

acia_rx_has_space(a) == ~a.rxf \/ Len(a.fifo) < a.cfg.fifo

\* Mutant: the queue is not advanced when its head is loaded.
MutReadData(a) ==
    acia_update_irq([a EXCEPT !.rxf = a.fifo # <<>>, !.rdr = IF a.fifo # <<>> THEN Head(a.fifo) ELSE @,
                              !.st = IF a.fifo # <<>> THEN @ ELSE @ \ {"RDRF", "OVRN"}])
acia_read_data(a) ==
    LET b == [a EXCEPT !.rxf = FALSE, !.st = @ \ {"RDRF", "OVRN"}]
    IN  acia_update_irq(
            IF a.fifo = <<>> THEN b
            ELSE [b EXCEPT !.rdr = Head(a.fifo), !.fifo = Tail(@), !.rxf = TRUE,
                           !.st = @ \cup {"RDRF"}])
acia_read_status(a) ==
    LET b == acia_deassert_irq([a EXCEPT !.st = @ \ {"IRQ"}])
    IN  IF a.cfg.onRdrf THEN acia_update_irq(b) ELSE b

acia_write_data(a, b) ==
    acia_update_irq([a EXCEPT !.tdr = b, !.txp = TRUE, !.st = @ \ {"TDRE"}])
acia_write_command(a, dtr, ird, txirq, echo) ==
    acia_update_irq([a EXCEPT !.dtr = dtr, !.ird = ird, !.txirq = txirq, !.echo = echo])

\* The modem lines.
acia_set_dcd(a, on) ==
    LET b == [a EXCEPT !.dcd = on, !.st = IF on THEN @ \ {"DCD"} ELSE @ \cup {"DCD"}]
    IN  IF a.dcd # on THEN acia_update_irq(b) ELSE b
acia_set_cts(a, on) == [a EXCEPT !.cts = on]

\* The parts of acia_tick: an assertion arrives, a byte has gone out, and a
\* byte has come in.
IrqArrives(a) == IF a.transit THEN [a EXCEPT !.transit = FALSE, !.line = TRUE] ELSE a
TxDone(a) == acia_update_irq([a EXCEPT !.txp = FALSE, !.st = @ \cup {"TDRE"}])

RxInto(a, b) ==
    IF ~a.rxf THEN [a EXCEPT !.rdr = b, !.rxf = TRUE, !.st = @ \cup {"RDRF"}]
    ELSE IF a.cfg.fifo = 0 THEN [a EXCEPT !.rdr = b, !.st = @ \cup {"RDRF", "OVRN"}]
    ELSE IF Len(a.fifo) < a.cfg.fifo THEN [a EXCEPT !.fifo = Append(@, b)]
    ELSE [a EXCEPT !.st = @ \cup {"OVRN"}]
RxStore(a, b) ==
    LET c == RxInto(a, b)
    IN  acia_update_irq(IF c.echo /\ ~c.txp
                        THEN [c EXCEPT !.tdr = b, !.txp = TRUE, !.st = @ \ {"TDRE"}] ELSE c)

\* What the chip holds that the program has not read yet.
Unread(a) == IF a.rxf THEN <<a.rdr>> \o a.fifo ELSE <<>>
=============================================================================
