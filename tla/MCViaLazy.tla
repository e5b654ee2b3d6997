------------------------------ MODULE MCViaLazy ------------------------------
(***************************************************************************)
(* Five programs, by part of the chip, each small enough to explore.       *)
(***************************************************************************)
EXTENDS ViaLazy

AcrOff == [pb7 |-> FALSE, freerun |-> FALSE, pulse |-> FALSE, mode |-> "off"]

Timer1Program ==
  [calls |-> {"t1", "acr", "irq"},
   acr |-> {AcrOff, [AcrOff EXCEPT !.freerun = TRUE, !.pb7 = TRUE]},
   pcr |-> {}, flags |-> {"T1"}, bytes |-> Bytes]

Timer2Program ==
  [calls |-> {"t2", "acr", "irq", "pb6"},
   acr |-> {AcrOff, [AcrOff EXCEPT !.pulse = TRUE],
            [AcrOff EXCEPT !.mode = "in_t2"]},
   pcr |-> {}, flags |-> {"T2"}, bytes |-> {0, 2}]

ShiftProgram ==
  [calls |-> {"sr", "acr", "irq"},
   acr |-> {[AcrOff EXCEPT !.mode = m] : m \in SrModes \ {"in_t2", "out_t2"}},
   pcr |-> {}, flags |-> {"SR"}, bytes |-> {}]

\* The shift register clocked by timer 2, and changes to the other clocks in
\* the middle of a byte.
ShiftT2Program ==
  [calls |-> {"t2", "sr", "acr"},
   acr |-> {[AcrOff EXCEPT !.mode = m] : m \in {"out_t2", "out_phi2", "out_cb1"}},
   pcr |-> {}, flags |-> {}, bytes |-> {1}]

PortProgram ==
  [calls |-> {"ports", "pcr", "lines", "irq"},
   acr |-> {},
   pcr |-> {[ca1 |-> TRUE, ca2 |-> "handshake", cb1 |-> FALSE, cb2 |-> "pulse"],
            [ca1 |-> FALSE, ca2 |-> "ind_rise", cb1 |-> TRUE, cb2 |-> "low"]},
   flags |-> {"CA1"}, bytes |-> {}]

MCPrograms == {Timer1Program, Timer2Program, ShiftProgram,
               ShiftT2Program, PortProgram}

=============================================================================
