---------------------------- MODULE SerialProofs ----------------------------
(***************************************************************************)
(* The serial port reads what the far end sent: SerialIsExact, for any     *)
(* ring, queue, flow control levels, commands and number of bytes.         *)
(*                                                                         *)
(* A byte is on its way in the source, the ring, the queue or the data     *)
(* register, in that order.  A step moves bytes along, which leaves the    *)
(* sequence of all of them as it is, or loses some: Fewer says that what   *)
(* is left is in order wherever it stands.                                 *)
(***************************************************************************)
EXTENDS SerialPort, SequenceTheorems, TLAPS

-----------------------------------------------------------------------------
(* Sequences of bytes *)

Increasing(s) == \A i, j \in DOMAIN s : i < j => s[i] < s[j]
Ordered(s, n) == Increasing(s) /\ \A i \in DOMAIN s : s[i] \in 1 .. n
Fewer(x, y) ==
  \A g, h \in Seq(Nat), n \in Nat : Ordered((g \o x) \o h, n) => Ordered((g \o y) \o h, n)

LEMMA Assoc ==
  ASSUME NEW x \in Seq(Nat), NEW y \in Seq(Nat), NEW z \in Seq(Nat)
  PROVE  (x \o y) \o z = x \o (y \o z)
BY ConcatAssociative, SMTT(60)

LEMMA Cat ==
  ASSUME NEW x \in Seq(Nat), NEW y \in Seq(Nat)
  PROVE  /\ x \o y \in Seq(Nat) /\ Len(x \o y) = Len(x) + Len(y)
         /\ x \o <<>> = x /\ <<>> \o x = x /\ <<>> \in Seq(Nat)
         /\ \A z \in Seq(Nat) : (x \o y) \o z = x \o (y \o z)
<1>1. x \o y \in Seq(Nat) /\ Len(x \o y) = Len(x) + Len(y)
  BY ConcatProperties
<1>2. x \o <<>> = x /\ <<>> \o x = x /\ <<>> \in Seq(Nat)
  BY ConcatEmptySeq, EmptySeq
<1>3. ASSUME NEW z \in Seq(Nat) PROVE (x \o y) \o z = x \o (y \o z)
  BY Assoc, Zenon
<1> QED BY <1>1, <1>2, <1>3

LEMMA One == ASSUME NEW b \in Nat PROVE <<b>> \in Seq(Nat) /\ Len(<<b>>) = 1 /\ <<b>>[1] = b
OBVIOUS

\* A sequence is its head and its tail, or two parts.
LEMMA Split ==
  ASSUME NEW s \in Seq(Nat), NEW n \in 0 .. Len(s)
  PROVE  /\ SubSeq(s, 1, n) \in Seq(Nat) /\ SubSeq(s, n + 1, Len(s)) \in Seq(Nat)
         /\ Len(SubSeq(s, 1, n)) = n /\ Len(SubSeq(s, n + 1, Len(s))) = Len(s) - n
         /\ SubSeq(s, 1, n) \o SubSeq(s, n + 1, Len(s)) = s
<1>1. Len(s) \in Nat /\ \A i \in 1 .. Len(s) : s[i] \in Nat
  BY LenProperties, ElementOfSeq
<1>2. SubSeq(s, 1, n) \o SubSeq(s, n + 1, Len(s)) = SubSeq(s, 1, Len(s))
  <2>1. /\ 1 \in 1 .. Len(s) + 1 /\ n \in 1 - 1 .. Len(s) /\ Len(s) \in n .. Len(s)
    BY <1>1
  <2> QED BY <2>1, ConcatAdjacentSubSeq
<1>3. SubSeq(s, 1, Len(s)) = s
  BY SubSeqFull
<1>4. SubSeq(s, 1, n) \in Seq(Nat) /\ Len(SubSeq(s, 1, n)) = n
  <2>1. \A i \in 1 .. n : s[i] \in Nat
    BY <1>1
  <2>2. 1 \in Int /\ n \in Int /\ (IF 1 <= n THEN n - 1 + 1 ELSE 0) = n
    OBVIOUS
  <2> QED BY <2>1, <2>2, SubSeqProperties
<1>5. SubSeq(s, n + 1, Len(s)) \in Seq(Nat) /\ Len(SubSeq(s, n + 1, Len(s))) = Len(s) - n
  <2>1. \A i \in n + 1 .. Len(s) : s[i] \in Nat
    BY <1>1
  <2>2. /\ n + 1 \in Int /\ Len(s) \in Int
        /\ (IF n + 1 <= Len(s) THEN Len(s) - (n + 1) + 1 ELSE 0) = Len(s) - n
    BY <1>1
  <2> QED BY <2>1, <2>2, SubSeqProperties
<1> QED BY <1>2, <1>3, <1>4, <1>5

LEMMA HeadTail ==
  ASSUME NEW s \in Seq(Nat), s # <<>>
  PROVE  /\ Head(s) \in Nat /\ Tail(s) \in Seq(Nat) /\ Len(Tail(s)) = Len(s) - 1
         /\ Len(s) \in Nat \ {0} /\ <<Head(s)>> \o Tail(s) = s
<1>1. Len(s) \in Nat \ {0}
  BY EmptySeq
<1>2. 1 \in 1 .. Len(s) /\ Len(s) \in 1 .. Len(s)
  BY <1>1
<1>3. SubSeq(s, 1, Len(s)) = <<s[1]>> \o SubSeq(s, 1 + 1, Len(s))
  BY <1>2, SubSeqRecursiveFirst
<1>4. Tail(s) = SubSeq(s, 2, Len(s)) /\ SubSeq(s, 1, Len(s)) = s
  BY TailIsSubSeq, SubSeqFull
<1>5. Head(s) = s[1]
  OBVIOUS
<1> QED BY <1>1, <1>3, <1>4, <1>5, HeadTailProperties

\* What is left when a part is cut out is in order, and so is what a newer
\* byte is appended to.
LEMMA OrderedCut ==
  ASSUME NEW g \in Seq(Nat), NEW x \in Seq(Nat), NEW h \in Seq(Nat), NEW n \in Nat,
         Ordered((g \o x) \o h, n)
  PROVE  Ordered(g \o h, n)
<1> DEFINE s == (g \o x) \o h
           t == g \o h
           at(i) == IF i <= Len(g) THEN i ELSE i + Len(x)
<1>1. /\ g \o x \in Seq(Nat) /\ Len(g \o x) = Len(g) + Len(x)
      /\ Len(s) = Len(g) + Len(x) + Len(h) /\ s \in Seq(Nat)
      /\ t \in Seq(Nat) /\ Len(t) = Len(g) + Len(h)
      /\ Len(g) \in Nat /\ Len(x) \in Nat /\ Len(h) \in Nat
  BY ConcatProperties, LenProperties
<1>2. ASSUME NEW i \in 1 .. Len(g) + Len(h)
      PROVE  at(i) \in 1 .. Len(s) /\ s[at(i)] = t[i]
  <2>1. t[i] = IF i <= Len(g) THEN g[i] ELSE h[i - Len(g)]
    BY ConcatProperties
  <2>2. at(i) \in 1 .. Len(g \o x) + Len(h)
    BY <1>1
  <2>3. s[at(i)] = IF at(i) <= Len(g \o x) THEN (g \o x)[at(i)] ELSE h[at(i) - Len(g \o x)]
    BY <1>1, <2>2, ConcatProperties
  <2>4. CASE i <= Len(g)
    <3>1. at(i) = i /\ i \in 1 .. Len(g) + Len(x)
      BY <1>1, <2>4
    <3>2. (g \o x)[i] = g[i]
      BY <2>4, <3>1, ConcatProperties
    <3> QED BY <1>1, <2>1, <2>3, <2>4, <3>1, <3>2
  <2>5. CASE ~(i <= Len(g))
    <3>1. /\ at(i) = i + Len(x) /\ ~(at(i) <= Len(g \o x))
          /\ at(i) - Len(g \o x) = i - Len(g)
      BY <1>1, <2>5
    <3> QED BY <1>1, <2>1, <2>2, <2>3, <2>5, <3>1
  <2> QED BY <2>4, <2>5
<1>3. DOMAIN s = 1 .. Len(s) /\ DOMAIN t = 1 .. Len(g) + Len(h)
  BY <1>1, LenProperties
<1>4. \A i, j \in 1 .. Len(g) + Len(h) : i < j => at(i) < at(j)
  BY <1>1
<1> HIDE DEF s, t, at
<1>5. Ordered(s, n)
  BY DEF s
<1>6. Ordered(t, n)
  BY <1>2, <1>3, <1>4, <1>5 DEF Ordered, Increasing
<1> QED BY <1>6 DEF t

LEMMA OrderedAppend ==
  ASSUME NEW s \in Seq(Nat), NEW n \in Nat, Ordered(s, n)
  PROVE  Ordered(s \o <<n + 1>>, n + 1)
<1> DEFINE t == s \o <<n + 1>>
<1>1. /\ t \in Seq(Nat) /\ Len(t) = Len(s) + 1 /\ Len(s) \in Nat
      /\ DOMAIN t = 1 .. Len(s) + 1 /\ DOMAIN s = 1 .. Len(s)
  <2>1. n + 1 \in Nat
    OBVIOUS
  <2> QED BY <2>1, One, ConcatProperties, LenProperties
<1>2. \A i \in 1 .. Len(s) + 1 : t[i] = IF i <= Len(s) THEN s[i] ELSE n + 1
  <2>1. <<n + 1>> \in Seq(Nat) /\ Len(<<n + 1>>) = 1 /\ <<n + 1>>[1] = n + 1
    BY One
  <2>2. \A i \in 1 .. Len(s) + 1 : ~(i <= Len(s)) => i - Len(s) = 1
    BY <1>1
  <2> QED BY <2>1, <2>2, ConcatProperties
<1> HIDE DEF t
<1>3. \A i \in 1 .. Len(s) : s[i] \in 1 .. n /\ t[i] = s[i]
  <2>1. \A i \in 1 .. Len(s) : i \in 1 .. Len(s) + 1 /\ i <= Len(s)
    BY <1>1
  <2> QED BY <1>1, <1>2, <2>1 DEF Ordered
<1>4. t[Len(s) + 1] = n + 1
  <2>1. Len(s) + 1 \in 1 .. Len(s) + 1 /\ ~(Len(s) + 1 <= Len(s))
    BY <1>1
  <2> QED BY <1>2, <2>1
<1>5. ASSUME NEW i \in 1 .. Len(s) + 1 PROVE i \in 1 .. Len(s) \/ i = Len(s) + 1
  BY <1>1
<1>6. \A i \in DOMAIN t : t[i] \in 1 .. n + 1
  BY <1>1, <1>3, <1>4, <1>5
<1>7. ASSUME NEW i \in DOMAIN t, NEW j \in DOMAIN t, i < j PROVE t[i] < t[j]
  <2>1. i \in 1 .. Len(s)
    BY <1>1, <1>7
  <2>2. t[i] = s[i] /\ s[i] \in 1 .. n
    BY <1>3, <2>1
  <2>3. CASE j \in 1 .. Len(s)
    <3>1. t[j] = s[j]
      BY <1>3, <2>3
    <3>2. s[i] < s[j]
      BY <1>1, <1>7, <2>1, <2>3 DEF Ordered, Increasing
    <3> QED BY <2>2, <3>1, <3>2
  <2>4. CASE j = Len(s) + 1
    BY <1>4, <2>2, <2>4
  <2> QED BY <1>1, <1>5, <2>3, <2>4
<1>8. Ordered(t, n + 1)
  BY <1>6, <1>7 DEF Ordered, Increasing
<1> QED BY <1>8 DEF t

LEMMA FewerSame == ASSUME NEW x PROVE Fewer(x, x)
BY DEF Fewer

LEMMA FewerTrans == ASSUME NEW x, NEW y, NEW z, Fewer(x, y), Fewer(y, z) PROVE Fewer(x, z)
BY DEF Fewer

LEMMA FewerDrop == ASSUME NEW x \in Seq(Nat) PROVE Fewer(x, <<>>)
<1> SUFFICES ASSUME NEW g \in Seq(Nat), NEW h \in Seq(Nat), NEW n \in Nat,
                    Ordered((g \o x) \o h, n)
             PROVE  Ordered((g \o <<>>) \o h, n)
  BY DEF Fewer
<1> QED BY OrderedCut, Cat

LEMMA FewerCat ==
  ASSUME NEW x \in Seq(Nat), NEW y \in Seq(Nat), NEW z \in Seq(Nat), NEW w \in Seq(Nat),
         Fewer(x, y), Fewer(z, w)
  PROVE  Fewer(x \o z, y \o w)
<1> SUFFICES ASSUME NEW g \in Seq(Nat), NEW h \in Seq(Nat), NEW n \in Nat,
                    Ordered((g \o (x \o z)) \o h, n)
             PROVE  Ordered((g \o (y \o w)) \o h, n)
  BY DEF Fewer
<1>0. g \o x \in Seq(Nat) /\ g \o y \in Seq(Nat) /\ z \o h \in Seq(Nat)
  BY Cat
<1> DEFINE a == g \o x
           c == g \o y
<1> HIDE DEF a, c
<1>1. g \o (x \o z) = a \o z /\ (a \o z) \o h = a \o (z \o h)
  <2>1. g \o (x \o z) = a \o z
    BY Assoc, Zenon DEF a
  <2>2. (a \o z) \o h = a \o (z \o h)
    <3>1. a \in Seq(Nat)
      BY <1>0 DEF a
    <3> QED BY <3>1, Assoc, Zenon
  <2> QED BY <2>1, <2>2
<1>2. Ordered((g \o y) \o (z \o h), n)
  BY <1>0, <1>1 DEF Fewer, a
<1>3. (g \o y) \o (z \o h) = ((g \o y) \o z) \o h
  <2>1. c \in Seq(Nat)
    BY <1>0 DEF c
  <2>2. (c \o z) \o h = c \o (z \o h)
    BY <2>1, Assoc, Zenon
  <2> QED BY <2>2 DEF c
<1>4. Ordered(((g \o y) \o w) \o h, n)
  BY <1>0, <1>2, <1>3 DEF Fewer
<1>5. (g \o y) \o w = g \o (y \o w)
  BY Assoc, Zenon
<1> QED BY <1>4, <1>5

-----------------------------------------------------------------------------
(* The 6551 *)

Status == {"RDRF", "TDRE", "OVRN", "IRQ", "DCD", "CTS"}
Acia ==
  [card: {"6551"}, cfg: Config(Nat), st: SUBSET Status, rdr: Nat, tdr: Nat, rxf: BOOLEAN,
   txp: BOOLEAN, fifo: Seq(Nat), dtr: BOOLEAN, ird: BOOLEAN, txirq: BOOLEAN, echo: BOOLEAN,
   line: BOOLEAN, transit: BOOLEAN, dcd: BOOLEAN, cts: BOOLEAN]

\* The status says what is held, and a queue waits behind a full register.
RxOK(a) ==
  /\ ("RDRF" \in a.st) = a.rxf /\ (~a.rxf => a.fifo = <<>>)
  /\ Len(a.fifo) <= a.cfg.fifo
IrqOK(a) ==
  /\ ("IRQ" \in a.st) = (a.line \/ a.transit)
  /\ a.line \/ a.transit => IrqWanted(a)
  /\ a.cfg.onRdrf /\ IrqWanted(a) => a.line \/ a.transit
Chip(a) == a \in Acia /\ RxOK(a) /\ IrqOK(a)

\* What the other side of the card sees of it.
SamePins(a, b) == b.cfg = a.cfg /\ b.dcd = a.dcd /\ b.cts = a.cts
SameData(a, b) ==
  /\ b.rdr = a.rdr /\ b.rxf = a.rxf /\ b.fifo = a.fifo
  /\ ("OVRN" \in b.st) = ("OVRN" \in a.st)

LEMMA UpdateIrq ==
  ASSUME NEW a \in Acia, RxOK(a)
  PROVE  LET b == acia_update_irq(a)
         IN  /\ Chip(b) /\ SamePins(a, b) /\ SameData(a, b)
             /\ b.dtr = a.dtr /\ b.echo = a.echo /\ b.txp = a.txp
<1> DEFINE up == [a EXCEPT !.st = @ \cup {"IRQ"}]
           down == [a EXCEPT !.st = @ \ {"IRQ"}]
<1>1. a.st \subseteq Status /\ a.line \in BOOLEAN /\ a.transit \in BOOLEAN /\ a.rxf \in BOOLEAN
  BY DEF Acia
<1>0. up \in Acia /\ down \in Acia
  BY DEF Acia, Status
<1>2. CASE IrqWanted(a) /\ (a.line \/ a.transit)
  <2>1. acia_update_irq(a) = up
    BY <1>2 DEF acia_update_irq, acia_assert_irq, Acia
  <2>2. /\ up.st = a.st \cup {"IRQ"} /\ up.line = a.line /\ up.transit = a.transit
        /\ SamePins(a, up) /\ SameData(a, up)
        /\ up.dtr = a.dtr /\ up.echo = a.echo /\ up.txp = a.txp
        /\ up.ird = a.ird /\ up.txirq = a.txirq
    BY DEF Acia, SamePins, SameData
  <2> HIDE DEF up
  <2>3. IrqWanted(up) /\ RxOK(up) /\ IrqOK(up)
    BY <1>2, <2>2 DEF IrqWanted, RxOK, IrqOK, SamePins, SameData
  <2> QED BY <1>0, <2>1, <2>2, <2>3 DEF Chip, up
<1>3. CASE IrqWanted(a) /\ ~(a.line \/ a.transit)
  <2> DEFINE b == acia_update_irq(a)
  <2>1. b = IF a.cfg.loci THEN [up EXCEPT !.transit = TRUE] ELSE [up EXCEPT !.line = TRUE]
    BY <1>3 DEF acia_update_irq, acia_assert_irq, Acia
  <2>2. b \in Acia
    <3> HIDE DEF up, down
    <3> QED BY <1>0, <2>1 DEF Acia
  <2>3. /\ b.st = a.st \cup {"IRQ"} /\ (b.line \/ b.transit)
        /\ SamePins(a, b) /\ SameData(a, b)
        /\ b.dtr = a.dtr /\ b.echo = a.echo /\ b.txp = a.txp
        /\ b.ird = a.ird /\ b.txirq = a.txirq
    BY <2>1 DEF Acia, SamePins, SameData
  <2> HIDE DEF b
  <2>4. IrqWanted(b) /\ RxOK(b) /\ IrqOK(b)
    BY <1>3, <2>2, <2>3 DEF IrqWanted, RxOK, IrqOK, SamePins, SameData, Acia
  <2> QED BY <2>2, <2>3, <2>4 DEF Chip, b
<1>4. CASE ~IrqWanted(a)
  <2> DEFINE b == acia_update_irq(a)
  <2>1. b = [down EXCEPT !.line = FALSE, !.transit = FALSE]
    BY <1>4 DEF acia_update_irq, acia_deassert_irq
  <2>2. b \in Acia
    <3> HIDE DEF up, down
    <3> QED BY <1>0, <2>1 DEF Acia
  <2>3. /\ b.st = a.st \ {"IRQ"} /\ ~b.line /\ ~b.transit
        /\ SamePins(a, b) /\ SameData(a, b)
        /\ b.dtr = a.dtr /\ b.echo = a.echo /\ b.txp = a.txp
        /\ b.ird = a.ird /\ b.txirq = a.txirq
    BY <2>1 DEF Acia, SamePins, SameData
  <2> HIDE DEF b
  <2>4. ~IrqWanted(b) /\ RxOK(b) /\ IrqOK(b)
    BY <1>4, <2>2, <2>3 DEF IrqWanted, RxOK, IrqOK, SamePins, SameData, Acia
  <2> QED BY <2>2, <2>3, <2>4 DEF Chip, b
<1> QED BY <1>2, <1>3, <1>4

LEMMA SameUnread == ASSUME NEW a, NEW b, SameData(a, b) PROVE Unread(b) = Unread(a)
BY DEF SameData, Unread

\* The registers.
LEMMA ReadDataChip ==
  ASSUME NEW a, Chip(a), "RDRF" \in a.st
  PROVE  LET b == acia_read_data(a)
         IN  /\ Chip(b) /\ SamePins(a, b)
             /\ Unread(b) \in Seq(Nat) /\ Unread(a) = <<a.rdr>> \o Unread(b)
             /\ "OVRN" \notin b.st /\ a.rdr \in Nat
<1> DEFINE e == [a EXCEPT !.rxf = FALSE, !.st = @ \ {"RDRF", "OVRN"}]
           n == [e EXCEPT !.rdr = Head(a.fifo), !.fifo = Tail(@), !.rxf = TRUE,
                          !.st = @ \cup {"RDRF"}]
           x == IF a.fifo = <<>> THEN e ELSE n
<1>1. a \in Acia /\ a.rxf /\ a.fifo \in Seq(Nat) /\ a.rdr \in Nat
  BY DEF Chip, RxOK, Acia
<1>2. e \in Acia /\ e.fifo = a.fifo /\ SamePins(a, e) /\ e.st = a.st \ {"RDRF", "OVRN"} /\ ~e.rxf
  BY <1>1 DEF Acia, SamePins, Status
<1>3. ASSUME a.fifo # <<>>
      PROVE  /\ n \in Acia /\ n.fifo = Tail(a.fifo) /\ n.rdr = Head(a.fifo) /\ n.rxf
             /\ SamePins(a, n) /\ n.st = e.st \cup {"RDRF"} /\ Len(n.fifo) <= a.cfg.fifo
  <2> HIDE DEF e
  <2>1. Head(a.fifo) \in Nat /\ Tail(a.fifo) \in Seq(Nat)
    BY <1>1, <1>3, HeadTail
  <2>2. Len(Tail(a.fifo)) <= a.cfg.fifo
    BY <1>1, <1>3, HeadTail DEF Chip, RxOK, Acia, Config
  <2>3. /\ n \in Acia /\ n.fifo = Tail(a.fifo) /\ n.rdr = Head(a.fifo) /\ n.rxf
        /\ n.st = e.st \cup {"RDRF"} /\ n.cfg = e.cfg /\ n.dcd = e.dcd /\ n.cts = e.cts
    BY <1>2, <2>1 DEF Acia, Status
  <2> QED BY <1>2, <2>2, <2>3 DEF SamePins
<1> HIDE DEF e, n
<1>4. x \in Acia /\ RxOK(x) /\ SamePins(a, x) /\ "OVRN" \notin x.st
  <2>1. Len(a.fifo) <= a.cfg.fifo
    BY DEF Chip, RxOK
  <2> QED BY <1>2, <1>3, <2>1 DEF RxOK, Acia, SamePins
<1>5. Unread(x) \in Seq(Nat) /\ Unread(a) = <<a.rdr>> \o Unread(x)
  <2>1. CASE a.fifo = <<>>
    BY <1>1, <1>2, <2>1, One, Cat DEF Unread
  <2>2. CASE a.fifo # <<>>
    BY <1>1, <1>3, <2>2, HeadTail DEF Unread
  <2> QED BY <2>1, <2>2
<1>6. acia_read_data(a) = acia_update_irq(x)
  BY DEF acia_read_data, e, n
<1> HIDE DEF x
<1>7. /\ Chip(acia_update_irq(x)) /\ SamePins(x, acia_update_irq(x))
      /\ SameData(x, acia_update_irq(x))
  BY <1>4, UpdateIrq
<1> QED BY <1>1, <1>4, <1>5, <1>6, <1>7, SameUnread DEF SamePins, SameData

LEMMA StatusChip ==
  ASSUME NEW a, Chip(a)
  PROVE  LET b == acia_read_status(a)
         IN  Chip(b) /\ SamePins(a, b) /\ SameData(a, b)
<1> DEFINE e == [a EXCEPT !.st = @ \ {"IRQ"}]
           x == acia_deassert_irq(e)
<1>1. e \in Acia /\ e.st = a.st \ {"IRQ"} /\ SamePins(a, e) /\ SameData(a, e)
  BY DEF Chip, Acia, SamePins, SameData, Status
<1>2. /\ x \in Acia /\ x.st = e.st /\ SamePins(e, x) /\ SameData(e, x)
      /\ ~x.line /\ ~x.transit
  <2> HIDE DEF e
  <2> QED BY <1>1 DEF acia_deassert_irq, Acia, SamePins, SameData
<1>3. acia_read_status(a) = IF a.cfg.onRdrf THEN acia_update_irq(x) ELSE x
  BY DEF acia_read_status
<1> HIDE DEF e, x
<1>4. RxOK(x)
  BY <1>1, <1>2 DEF RxOK, Chip, SamePins, SameData
<1>5. ~a.cfg.onRdrf => IrqOK(x)
  BY <1>1, <1>2 DEF IrqOK, SamePins
<1>6. LET b == acia_update_irq(x) IN Chip(b) /\ SamePins(x, b) /\ SameData(x, b)
  BY <1>2, <1>4, UpdateIrq
<1> QED BY <1>1, <1>2, <1>3, <1>4, <1>5, <1>6 DEF Chip, SamePins, SameData

LEMMA WriteChip ==
  ASSUME NEW a, Chip(a), NEW n \in Nat, NEW dtr \in BOOLEAN, NEW ird \in BOOLEAN,
         NEW txirq \in BOOLEAN, NEW echo \in BOOLEAN
  PROVE  /\ LET b == acia_write_data(a, n)
            IN  Chip(b) /\ SamePins(a, b) /\ SameData(a, b)
         /\ LET b == acia_write_command(a, dtr, ird, txirq, echo)
            IN  Chip(b) /\ SamePins(a, b) /\ SameData(a, b)
<1> DEFINE x == [a EXCEPT !.tdr = n, !.txp = TRUE, !.st = @ \ {"TDRE"}]
           y == [a EXCEPT !.dtr = dtr, !.ird = ird, !.txirq = txirq, !.echo = echo]
<1>1. x \in Acia /\ SamePins(a, x) /\ SameData(a, x) /\ ("RDRF" \in x.st) = ("RDRF" \in a.st)
  <2>1. x \in Acia /\ x.st = a.st \ {"TDRE"} /\ SamePins(a, x)
    BY DEF Chip, Acia, SamePins, Status
  <2>2. x.rdr = a.rdr /\ x.rxf = a.rxf /\ x.fifo = a.fifo
    BY DEF Chip, Acia
  <2> QED BY <2>1, <2>2 DEF SameData
<1>2. y \in Acia /\ SamePins(a, y) /\ SameData(a, y) /\ y.st = a.st
  <2>1. a \in Acia
    BY DEF Chip
  <2>2. /\ y.st = a.st /\ y.cfg = a.cfg /\ y.dcd = a.dcd /\ y.cts = a.cts
        /\ y.rdr = a.rdr /\ y.rxf = a.rxf /\ y.fifo = a.fifo
    BY <2>1 DEF Acia
  <2>4. y \in Acia
    BY <2>1 DEF Acia
  <2> HIDE DEF y
  <2>3. SamePins(a, y) /\ SameData(a, y)
    BY <2>2 DEF SamePins, SameData
  <2> QED BY <2>2, <2>3, <2>4
<1>3. acia_write_data(a, n) = acia_update_irq(x)
  BY DEF acia_write_data
<1>4. acia_write_command(a, dtr, ird, txirq, echo) = acia_update_irq(y)
  BY DEF acia_write_command
<1> HIDE DEF x, y
<1>5. RxOK(x) /\ RxOK(y)
  BY <1>1, <1>2 DEF RxOK, Chip, SamePins, SameData
<1>6. LET b == acia_update_irq(x) IN Chip(b) /\ SamePins(x, b) /\ SameData(x, b)
  BY <1>1, <1>5, UpdateIrq
<1>7. LET b == acia_update_irq(y) IN Chip(b) /\ SamePins(y, b) /\ SameData(y, b)
  BY <1>2, <1>5, UpdateIrq
<1> QED BY <1>1, <1>2, <1>3, <1>4, <1>6, <1>7 DEF SamePins, SameData

LEMMA ResetChip ==
  ASSUME NEW a, Chip(a)
  PROVE  LET b == acia_reset(a)
         IN  Chip(b) /\ SamePins(a, b) /\ Unread(b) = <<>> /\ "OVRN" \notin b.st
<1> DEFINE x == acia_deassert_irq(a)
           b == acia_reset(a)
<1>1. x \in Acia /\ SamePins(a, x) /\ ~x.line /\ ~x.transit
  BY DEF Chip, Acia, acia_deassert_irq, SamePins
<1>2. b = [x EXCEPT !.st = {"TDRE"}, !.dtr = FALSE, !.ird = FALSE, !.txirq = FALSE,
                    !.echo = FALSE, !.txp = FALSE, !.rxf = FALSE, !.fifo = <<>>]
  BY DEF acia_reset
<1> HIDE DEF x, b
<1>3. /\ b \in Acia /\ SamePins(a, b) /\ b.st = {"TDRE"} /\ ~b.rxf /\ b.fifo = <<>>
      /\ ~b.line /\ ~b.transit /\ ~b.txirq
  BY <1>1, <1>2, EmptySeq DEF Acia, SamePins, Status
<1>4. RxOK(b) /\ IrqOK(b) /\ Unread(b) = <<>>
  <2>1. Len(b.fifo) = 0 /\ b.cfg.fifo \in Nat
    BY <1>3 DEF Acia, Config
  <2> QED BY <1>3, <2>1 DEF RxOK, IrqOK, IrqWanted, Unread, Acia
<1> QED BY <1>3, <1>4 DEF Chip, b

\* The modem lines.
LEMMA DcdChip ==
  ASSUME NEW a, Chip(a), NEW on \in BOOLEAN
  PROVE  LET b == acia_set_dcd(a, on)
         IN  /\ Chip(b) /\ SameData(a, b)
             /\ b.cfg = a.cfg /\ b.cts = a.cts /\ b.dcd = on /\ b.dtr = a.dtr
<1> DEFINE x == [a EXCEPT !.dcd = on, !.st = IF on THEN @ \ {"DCD"} ELSE @ \cup {"DCD"}]
<1>0. /\ x \in Acia /\ x.cfg = a.cfg /\ x.cts = a.cts /\ x.dcd = on
      /\ x.dtr = a.dtr /\ x.line = a.line /\ x.transit = a.transit /\ x.ird = a.ird
      /\ x.txirq = a.txirq /\ x.rdr = a.rdr /\ x.rxf = a.rxf /\ x.fifo = a.fifo
      /\ x.st = IF on THEN a.st \ {"DCD"} ELSE a.st \cup {"DCD"}
  BY DEF Chip, Acia, Status
<1>1. SameData(a, x) /\ \A f \in Status \ {"DCD"} : (f \in x.st) = (f \in a.st)
  BY <1>0 DEF SameData, Status
<1>2. acia_set_dcd(a, on) = IF a.dcd # on THEN acia_update_irq(x) ELSE x
  BY DEF acia_set_dcd
<1> HIDE DEF x
<1>3. RxOK(x) /\ IrqOK(x)
  BY <1>0, <1>1 DEF Chip, RxOK, IrqOK, IrqWanted, SamePins, SameData, Status
<1>4. LET b == acia_update_irq(x)
      IN  Chip(b) /\ SamePins(x, b) /\ SameData(x, b) /\ b.dtr = x.dtr
  BY <1>0, <1>3, UpdateIrq
<1> QED BY <1>0, <1>1, <1>2, <1>3, <1>4 DEF Chip, SamePins, SameData

LEMMA CtsChip ==
  ASSUME NEW a, Chip(a), NEW on \in BOOLEAN
  PROVE  LET b == acia_set_cts(a, on)
         IN  /\ Chip(b) /\ SameData(a, b)
             /\ b.cfg = a.cfg /\ b.dcd = a.dcd /\ b.cts = on /\ b.dtr = a.dtr
<1> DEFINE b == acia_set_cts(a, on)
<1>1. /\ b \in Acia /\ SameData(a, b) /\ b.cfg = a.cfg /\ b.dcd = a.dcd /\ b.cts = on
      /\ b.dtr = a.dtr /\ b.line = a.line /\ b.transit = a.transit /\ b.ird = a.ird
      /\ b.txirq = a.txirq /\ b.st = a.st
  BY DEF Chip, Acia, SameData, acia_set_cts
<1> HIDE DEF b
<1>2. RxOK(b) /\ IrqOK(b)
  BY <1>1 DEF Chip, RxOK, IrqOK, IrqWanted, SamePins, SameData
<1> QED BY <1>1, <1>2 DEF Chip, b

\* The parts of a tick.
LEMMA TickChip ==
  ASSUME NEW a, Chip(a)
  PROVE  /\ LET b == IrqArrives(a) IN Chip(b) /\ SamePins(a, b) /\ SameData(a, b)
         /\ LET b == TxDone(a) IN Chip(b) /\ SamePins(a, b) /\ SameData(a, b)
<1> DEFINE x == [a EXCEPT !.transit = FALSE, !.line = TRUE]
           y == [a EXCEPT !.txp = FALSE, !.st = @ \cup {"TDRE"}]
<1>1. /\ x \in Acia /\ x.st = a.st /\ x.line /\ ~x.transit /\ SamePins(a, x) /\ SameData(a, x)
      /\ x.ird = a.ird /\ x.txirq = a.txirq
  BY DEF Chip, Acia, SamePins, SameData
<1>2. y \in Acia /\ y.st = a.st \cup {"TDRE"} /\ SamePins(a, y) /\ SameData(a, y)
  <2>1. /\ y \in Acia /\ y.st = a.st \cup {"TDRE"} /\ SamePins(a, y)
        /\ y.rdr = a.rdr /\ y.rxf = a.rxf /\ y.fifo = a.fifo
    BY DEF Chip, Acia, SamePins, Status
  <2> QED BY <2>1 DEF SameData
<1>3. IrqArrives(a) = (IF a.transit THEN x ELSE a) /\ TxDone(a) = acia_update_irq(y)
  BY DEF IrqArrives, TxDone
<1> HIDE DEF x, y
<1>4. a.transit => Chip(x)
  BY <1>1 DEF Chip, RxOK, IrqOK, IrqWanted, SamePins, SameData, Acia
<1>5. LET b == acia_update_irq(y) IN Chip(b) /\ SamePins(y, b) /\ SameData(y, b)
  <2>1. RxOK(y)
    BY <1>2 DEF Chip, RxOK, SameData, SamePins
  <2> QED BY <1>2, <2>1, UpdateIrq
<1> QED BY <1>1, <1>2, <1>3, <1>4, <1>5 DEF SamePins, SameData

\* A byte that comes in is stored behind the others, or one is lost.
LEMMA StoreChip ==
  ASSUME NEW a, Chip(a), NEW n \in Nat
  PROVE  LET b == RxStore(a, n)
         IN  /\ Chip(b) /\ SamePins(a, b)
             /\ Unread(a) \in Seq(Nat) /\ Unread(b) \in Seq(Nat)
             /\ Fewer(Unread(a) \o <<n>>, Unread(b))
             /\ acia_rx_has_space(a) => /\ Unread(b) = Unread(a) \o <<n>>
                                        /\ "OVRN" \in b.st => "OVRN" \in a.st
<1> DEFINE c == RxInto(a, n)
           x == IF c.echo /\ ~c.txp
                THEN [c EXCEPT !.tdr = n, !.txp = TRUE, !.st = @ \ {"TDRE"}] ELSE c
<1>0. /\ a \in Acia /\ a.fifo \in Seq(Nat) /\ a.rdr \in Nat /\ Len(a.fifo) \in Nat
      /\ a.cfg.fifo \in Nat /\ a.rxf \in BOOLEAN
  BY LenProperties DEF Chip, Acia, Config
<1>1. <<n>> \in Seq(Nat) /\ <<a.rdr>> \in Seq(Nat) /\ <<>> \in Seq(Nat)
  BY <1>0, One, EmptySeq
<1>2. Unread(a) \in Seq(Nat)
  BY <1>0, <1>1, Cat DEF Unread
<1>3. /\ c \in Acia /\ RxOK(c) /\ SamePins(a, c)
      /\ Unread(c) \in Seq(Nat) /\ Fewer(Unread(a) \o <<n>>, Unread(c))
      /\ acia_rx_has_space(a) => /\ Unread(c) = Unread(a) \o <<n>>
                                 /\ "OVRN" \in c.st => "OVRN" \in a.st
  <2>1. CASE ~a.rxf
    <3>1. c = [a EXCEPT !.rdr = n, !.rxf = TRUE, !.st = @ \cup {"RDRF"}]
      BY <2>1 DEF RxInto
    <3> HIDE DEF c
    <3>2. /\ c \in Acia /\ c.rdr = n /\ c.rxf /\ c.st = a.st \cup {"RDRF"} /\ c.fifo = a.fifo
          /\ SamePins(a, c)
      BY <1>0, <3>1 DEF Acia, SamePins, Status
    <3>3. RxOK(c) /\ c.fifo = <<>> /\ Unread(a) = <<>>
      BY <2>1, <3>2 DEF RxOK, Chip, SamePins, Unread
    <3>4. Unread(c) = <<n>> /\ Unread(a) \o <<n>> = <<n>>
      BY <1>1, <3>2, <3>3, Cat DEF Unread
    <3> QED BY <1>1, <3>2, <3>3, <3>4, FewerSame
  <2>2. CASE a.rxf /\ a.cfg.fifo = 0
    <3>1. c = [a EXCEPT !.rdr = n, !.st = @ \cup {"RDRF", "OVRN"}]
      BY <2>2 DEF RxInto
    <3> HIDE DEF c
    <3>2. /\ c \in Acia /\ c.rdr = n /\ c.rxf /\ c.st = a.st \cup {"RDRF", "OVRN"}
          /\ c.fifo = a.fifo /\ SamePins(a, c)
      BY <1>0, <2>2, <3>1 DEF Acia, SamePins, Status
    <3>3. RxOK(c) /\ c.fifo = <<>>
      <4>1. Len(a.fifo) = 0
        BY <1>0, <2>2 DEF RxOK, Chip
      <4>2. a.fifo = <<>>
        BY <1>0, <4>1, EmptySeq
      <4> QED BY <2>2, <3>2, <4>2 DEF RxOK, Chip, SamePins
    <3>4. Unread(c) = <<n>> /\ Unread(a) = <<a.rdr>>
      BY <1>1, <2>2, <3>2, <3>3, Cat DEF Unread
    <3>5. Fewer(<<a.rdr>> \o <<n>>, <<n>>)
      <4>1. Fewer(<<a.rdr>> \o <<n>>, <<>> \o <<n>>)
        BY <1>1, FewerDrop, FewerSame, FewerCat
      <4> QED BY <1>1, <4>1, Cat
    <3>6. ~acia_rx_has_space(a)
      BY <1>0, <2>2 DEF acia_rx_has_space
    <3> QED BY <1>1, <3>2, <3>3, <3>4, <3>5, <3>6
  <2>3. CASE a.rxf /\ a.cfg.fifo # 0 /\ Len(a.fifo) < a.cfg.fifo
    <3>1. c = [a EXCEPT !.fifo = Append(@, n)]
      BY <2>3 DEF RxInto
    <3> HIDE DEF c
    <3>2. /\ c \in Acia /\ c.rdr = a.rdr /\ c.rxf /\ c.st = a.st
          /\ c.fifo = Append(a.fifo, n) /\ SamePins(a, c)
      BY <1>0, <2>3, <3>1, AppendProperties DEF Acia, SamePins
    <3>3. Len(c.fifo) = Len(a.fifo) + 1 /\ c.fifo = a.fifo \o <<n>>
      BY <1>0, <3>2, AppendProperties, AppendIsConcat
    <3>4. RxOK(c)
      <4>1. c.rxf \in BOOLEAN
        BY <3>2 DEF Acia
      <4>2. Len(c.fifo) <= c.cfg.fifo
        BY <1>0, <2>3, <3>2, <3>3 DEF SamePins
      <4>3. "RDRF" \in c.st
        BY <2>3, <3>2 DEF RxOK, Chip
      <4> QED BY <3>2, <4>1, <4>2, <4>3 DEF RxOK
    <3>5. Unread(c) = Unread(a) \o <<n>>
      <4>1. (<<a.rdr>> \o a.fifo) \o <<n>> = <<a.rdr>> \o (a.fifo \o <<n>>)
        BY <1>0, <1>1, Assoc, Zenon
      <4> QED BY <2>3, <3>2, <3>3, <4>1 DEF Unread
    <3>6. Unread(a) \o <<n>> \in Seq(Nat)
      BY <1>1, <1>2, Cat
    <3> QED BY <3>2, <3>4, <3>5, <3>6, FewerSame
  <2>4. CASE a.rxf /\ a.cfg.fifo # 0 /\ ~(Len(a.fifo) < a.cfg.fifo)
    <3>1. c = [a EXCEPT !.st = @ \cup {"OVRN"}]
      BY <2>4 DEF RxInto
    <3> HIDE DEF c
    <3>2. /\ c \in Acia /\ c.rdr = a.rdr /\ c.rxf = a.rxf /\ c.st = a.st \cup {"OVRN"}
          /\ c.fifo = a.fifo /\ SamePins(a, c)
      BY <1>0, <3>1 DEF Acia, SamePins, Status
    <3>3. RxOK(c) /\ Unread(c) = Unread(a)
      BY <3>2 DEF RxOK, Chip, SamePins, Unread
    <3>4. Fewer(Unread(a) \o <<n>>, Unread(a))
      <4>1. Fewer(Unread(a) \o <<n>>, Unread(a) \o <<>>)
        BY <1>1, <1>2, FewerDrop, FewerSame, FewerCat
      <4> QED BY <1>2, <4>1, Cat
    <3>5. ~acia_rx_has_space(a)
      BY <2>4 DEF acia_rx_has_space
    <3> QED BY <1>2, <3>2, <3>3, <3>4, <3>5
  <2> QED BY <1>0, <2>1, <2>2, <2>3, <2>4
<1> HIDE DEF c
<1>4. /\ x \in Acia /\ SamePins(a, x) /\ RxOK(x) /\ SameData(c, x)
  <2>1. CASE c.echo /\ ~c.txp
    <3>1. /\ x \in Acia /\ x.rdr = c.rdr /\ x.rxf = c.rxf /\ x.fifo = c.fifo
          /\ x.st = c.st \ {"TDRE"} /\ SamePins(c, x)
      BY <1>3, <2>1 DEF Acia, SamePins, Status
    <3> HIDE DEF x
    <3> QED BY <1>3, <3>1 DEF SamePins, SameData, RxOK
  <2>2. CASE ~(c.echo /\ ~c.txp)
    BY <1>3, <2>2 DEF SameData
  <2> QED BY <2>1, <2>2
<1>5. RxStore(a, n) = acia_update_irq(x)
  BY DEF RxStore, c
<1> HIDE DEF x
<1>6. LET b == acia_update_irq(x) IN Chip(b) /\ SamePins(x, b) /\ SameData(x, b)
  BY <1>4, UpdateIrq
<1> DEFINE b == RxStore(a, n)
<1>7. Chip(b) /\ SamePins(a, b) /\ SameData(c, b)
  BY <1>4, <1>5, <1>6 DEF SamePins, SameData
<1> HIDE DEF b
<1>8. Unread(b) = Unread(c) /\ ("OVRN" \in b.st) = ("OVRN" \in c.st)
  BY <1>7, SameUnread DEF SameData
<1> QED BY <1>2, <1>3, <1>7, <1>8 DEF b

-----------------------------------------------------------------------------
(* The cards with the 6850 *)

Card ==
  [card: {"dtl", "mageco"}, st: SUBSET Status, rdr: Nat, tdr: Nat, rie: BOOLEAN, tie: BOOLEAN,
   rts: BOOLEAN, line: BOOLEAN, busy: BOOLEAN, cra: BOOLEAN, closed: BOOLEAN]
Board(u) == u \in Card /\ u.line = ("IRQ" \in u.st) /\ "OVRN" \notin u.st
SameHeld(u, b) == b.card = u.card /\ Holds(b) = Holds(u)

LEMMA UpdateBoard ==
  ASSUME NEW u \in Card, "OVRN" \notin u.st
  PROVE  LET b == acia6850_update_irq(u) IN Board(b) /\ SameHeld(u, b)
<1> DEFINE irq == (u.rie /\ "RDRF" \in u.st) \/ (u.tie /\ "TDRE" \in u.st)
           b == acia6850_update_irq(u)
<1>1. irq \in BOOLEAN
  OBVIOUS
<1>2. b = [u EXCEPT !.st = IF irq THEN @ \cup {"IRQ"} ELSE @ \ {"IRQ"}, !.line = irq]
  BY DEF acia6850_update_irq
<1> HIDE DEF irq, b
<1>3. /\ b \in Card /\ b.st = (IF irq THEN u.st \cup {"IRQ"} ELSE u.st \ {"IRQ"}) /\ b.line = irq
      /\ b.card = u.card /\ b.rdr = u.rdr
  BY <1>1, <1>2 DEF Card, Status
<1>4. Board(b) /\ SameHeld(u, b)
  BY <1>1, <1>3 DEF Board, SameHeld, Holds
<1> QED BY <1>4 DEF b

LEMMA RefreshBoard ==
  ASSUME NEW u, Board(u), NEW present \in BOOLEAN
  PROVE  /\ LET b == Refresh(u, present) IN Board(b) /\ SameHeld(u, b)
         /\ LET b == acia6850_set_signals(u, present) IN Board(b) /\ SameHeld(u, b)
<1>1. ASSUME NEW p PROVE LET b == acia6850_set_signals(u, p) IN Board(b) /\ SameHeld(u, b)
  <2> DEFINE b == acia6850_set_signals(u, p)
  <2>1. /\ b \in Card /\ b.line = u.line /\ b.card = u.card /\ b.rdr = u.rdr
        /\ b.st = IF p THEN u.st \ {"DCD", "CTS"} ELSE u.st \cup {"DCD", "CTS"}
    BY DEF acia6850_set_signals, Board, Card, Status
  <2> HIDE DEF b
  <2>2. Board(b) /\ SameHeld(u, b)
    BY <2>1 DEF Board, SameHeld, Holds
  <2> QED BY <2>2 DEF b
<1> QED BY <1>1 DEF Refresh, SameHeld

\* The registers and the relay.
LEMMA BoardCalls ==
  ASSUME NEW u, Board(u), NEW alive \in BOOLEAN, NEW n \in Nat,
         NEW rie \in BOOLEAN, NEW tie \in BOOLEAN, NEW rts \in BOOLEAN
  PROVE  /\ LET b == master_reset(u, rie, tie, alive)
            IN  Board(b) /\ b.card = u.card /\ Holds(b) = <<>>
         /\ LET b == acia6850_control_write(u, rie, tie, rts, alive)
            IN  Board(b) /\ SameHeld(u, b)
         /\ LET b == acia6850_read_data(u, alive)
            IN  Board(b) /\ b.card = u.card /\ Holds(b) = <<>>
         /\ LET b == acia6850_read_status(u, alive) IN Board(b) /\ SameHeld(u, b)
         /\ LET b == acia6850_write_data(u, n) IN Board(b) /\ SameHeld(u, b)
         /\ LET b == pia_write_cra(u, rie) IN Board(b) /\ SameHeld(u, b)
         /\ LET b == pia_write_pra(u, rie, alive) IN Board(b) /\ SameHeld(u, b)
<1>1. LET b == master_reset(u, rie, tie, alive)
      IN  Board(b) /\ b.card = u.card /\ Holds(b) = <<>>
  <2> DEFINE x == [u EXCEPT !.st = (@ \cap {"DCD", "CTS"}) \cup {"TDRE"}, !.rdr = 0,
                            !.rie = rie, !.tie = tie, !.busy = FALSE]
             y == acia6850_update_irq(x)
  <2>1. x \in Card /\ x.card = u.card /\ "OVRN" \notin x.st /\ "RDRF" \notin x.st
    BY DEF Board, Card, Status
  <2>2. master_reset(u, rie, tie, alive) = Refresh(y, alive)
    BY DEF master_reset
  <2> HIDE DEF x
  <2>3. Board(y) /\ SameHeld(x, y)
    BY <2>1, UpdateBoard
  <2> HIDE DEF y
  <2>4. LET b == Refresh(y, alive) IN Board(b) /\ SameHeld(y, b)
    BY <2>3, RefreshBoard
  <2>5. Holds(x) = <<>>
    BY <2>1 DEF Holds
  <2> QED BY <2>1, <2>2, <2>3, <2>4, <2>5 DEF SameHeld
<1>2. LET b == acia6850_control_write(u, rie, tie, rts, alive) IN Board(b) /\ SameHeld(u, b)
  <2> DEFINE x == [u EXCEPT !.rie = rie, !.tie = tie, !.rts = rts]
             y == acia6850_update_irq(x)
  <2>1. x \in Card /\ "OVRN" \notin x.st /\ SameHeld(u, x)
    BY DEF Board, Card, Status, SameHeld, Holds
  <2>2. acia6850_control_write(u, rie, tie, rts, alive) = Refresh(y, alive)
    BY DEF acia6850_control_write
  <2> HIDE DEF x
  <2>3. Board(y) /\ SameHeld(x, y)
    BY <2>1, UpdateBoard
  <2> HIDE DEF y
  <2>4. LET b == Refresh(y, alive) IN Board(b) /\ SameHeld(y, b)
    BY <2>3, RefreshBoard
  <2> QED BY <2>1, <2>2, <2>3, <2>4 DEF SameHeld
<1>3. LET b == acia6850_read_data(u, alive)
      IN  Board(b) /\ b.card = u.card /\ Holds(b) = <<>>
  <2> DEFINE x == [u EXCEPT !.st = @ \ {"RDRF"}]
             y == acia6850_update_irq(x)
  <2>1. x \in Card /\ x.card = u.card /\ "OVRN" \notin x.st /\ "RDRF" \notin x.st
    BY DEF Board, Card, Status
  <2>2. acia6850_read_data(u, alive) = Refresh(y, alive)
    BY DEF acia6850_read_data
  <2> HIDE DEF x
  <2>3. Board(y) /\ SameHeld(x, y)
    BY <2>1, UpdateBoard
  <2> HIDE DEF y
  <2>4. LET b == Refresh(y, alive) IN Board(b) /\ SameHeld(y, b)
    BY <2>3, RefreshBoard
  <2>5. Holds(x) = <<>>
    BY <2>1 DEF Holds
  <2> QED BY <2>1, <2>2, <2>3, <2>4, <2>5 DEF SameHeld
<1>4. LET b == acia6850_read_status(u, alive) IN Board(b) /\ SameHeld(u, b)
  BY RefreshBoard DEF acia6850_read_status
<1>5. LET b == acia6850_write_data(u, n) IN Board(b) /\ SameHeld(u, b)
  <2> DEFINE x == [u EXCEPT !.tdr = n, !.st = @ \ {"TDRE"}]
             y == acia6850_update_irq(x)
             z == [y EXCEPT !.busy = TRUE]
  <2>1. x \in Card /\ "OVRN" \notin x.st /\ SameHeld(u, x)
    BY DEF Board, Card, Status, SameHeld, Holds
  <2>2. acia6850_write_data(u, n) = z
    BY DEF acia6850_write_data
  <2> HIDE DEF x
  <2>3. Board(y) /\ SameHeld(x, y)
    BY <2>1, UpdateBoard
  <2> HIDE DEF y
  <2>4. Board(z) /\ SameHeld(y, z)
    BY <2>3 DEF Board, Card, SameHeld, Holds
  <2> QED BY <2>1, <2>2, <2>3, <2>4 DEF SameHeld
<1>6. LET b == pia_write_cra(u, rie) IN Board(b) /\ SameHeld(u, b)
  BY DEF pia_write_cra, Board, Card, SameHeld, Holds
<1>7. LET b == pia_write_pra(u, rie, alive) IN Board(b) /\ SameHeld(u, b)
  <2> DEFINE x == [u EXCEPT !.closed = rie]
  <2>1. Board(x) /\ SameHeld(u, x)
    BY DEF Board, Card, SameHeld, Holds
  <2>2. pia_write_pra(u, rie, alive) = IF u.cra THEN Refresh(x, alive) ELSE u
    BY DEF pia_write_pra
  <2> HIDE DEF x
  <2>3. LET b == Refresh(x, alive) IN Board(b) /\ SameHeld(x, b)
    BY <2>1, RefreshBoard
  <2> QED BY <2>1, <2>2, <2>3 DEF SameHeld
<1> QED BY <1>1, <1>2, <1>3, <1>4, <1>5, <1>6, <1>7

\* The parts of a tick.
LEMMA BoardTick ==
  ASSUME NEW u, Board(u), NEW n \in Nat
  PROVE  /\ LET b == acia6850_rx_byte(u, n) IN Board(b) /\ b.card = u.card /\ Holds(b) = <<n>>
         /\ LET b == acia6850_tx_complete(u) IN Board(b) /\ SameHeld(u, b)
<1> DEFINE x == [u EXCEPT !.rdr = n, !.st = @ \cup {"RDRF"}]
           y == [u EXCEPT !.busy = FALSE, !.st = @ \cup {"TDRE"}]
<1>1. x \in Card /\ "OVRN" \notin x.st /\ x.card = u.card /\ Holds(x) = <<n>>
  BY DEF Board, Card, Status, Holds
<1>2. y \in Card /\ "OVRN" \notin y.st /\ SameHeld(u, y)
  BY DEF Board, Card, Status, SameHeld, Holds
<1>3. acia6850_rx_byte(u, n) = acia6850_update_irq(x) /\ acia6850_tx_complete(u) = acia6850_update_irq(y)
  BY DEF acia6850_rx_byte, acia6850_tx_complete
<1> HIDE DEF x, y
<1>4. LET b == acia6850_update_irq(x) IN Board(b) /\ SameHeld(x, b)
  BY <1>1, UpdateBoard
<1>5. LET b == acia6850_update_irq(y) IN Board(b) /\ SameHeld(y, b)
  BY <1>2, UpdateBoard
<1> QED BY <1>1, <1>2, <1>3, <1>4, <1>5 DEF SameHeld

-----------------------------------------------------------------------------
(* A card and its transport *)

Good(u) == IF u.card = "6551" THEN Chip(u) ELSE Board(u)
HeldBy(u) == IF u.card = "6551" THEN Unread(u) ELSE Holds(u)
Overrun(u) == "OVRN" \in u.st

Transport ==
  [kind: Pipes, up: BOOLEAN, buf: Seq(Nat), src: Seq(Nat), eof: BOOLEAN, dtrWas: BOOLEAN,
   cts: BOOLEAN]
\* A socket and a terminal have no ring.
PipeOK(p) ==
  p \in Transport /\ Len(p.buf) <= Ring /\ (p.kind \in {"tcp", "tty"} => p.buf = <<>>)
Piped(p) == p.buf \o p.src

\* The conjuncts of FlowControl.
FlowOK(s) ==
  /\ s.u.card = "6551" /\ s.u.dcd = s.p.up /\ s.u.cts = s.p.cts
  /\ s.p.cts => Len(s.p.buf) + 1 < High \/ s.p.buf = <<>>
  /\ ~s.p.cts => s.p.up /\ Len(s.p.buf) >= Low

Pair(s) ==
  /\ s = [u |-> s.u, p |-> s.p] /\ Good(s.u) /\ PipeOK(s.p)
  /\ s.p.kind = "digitelec" => FlowOK(s)
  /\ s.u.card = "6551" /\ s.u.cfg.backp => s.p.kind = "tcp"
Held(s) == HeldBy(s.u) \o Piped(s.p)

\* What a step makes of the bytes on their way: a subset of them in the same
\* order, and all of them where nothing may be lost.
Lossless(s) ==
  s.p.kind \in {"tcp", "tty", "file"} /\ (s.u.card = "6551" => s.u.cfg.backp)
SameWay(s, t) ==
  /\ t.u.card = s.u.card /\ t.p.kind = s.p.kind
  /\ s.u.card = "6551" => t.u.cfg = s.u.cfg
Passes(s, t) ==
  /\ SameWay(s, t) /\ Pair(t)
  /\ s.p.kind # "loopback" => Fewer(Held(s), Held(t))
  /\ Lossless(s) => Held(t) = Held(s) /\ (Overrun(t.u) => Overrun(s.u))

LEMMA PassesTrans ==
  ASSUME NEW s, NEW t, NEW r, Passes(s, t), Passes(t, r) PROVE Passes(s, r)
<1>1. SameWay(s, r) /\ Pair(r)
  BY DEF Passes, SameWay
<1>2. s.p.kind # "loopback" => Fewer(Held(s), Held(r))
  BY FewerTrans DEF Passes, SameWay
<1>3. Lossless(s) => Lossless(t)
  BY DEF Passes, SameWay, Lossless
<1> QED BY <1>1, <1>2, <1>3 DEF Passes

LEMMA PassesSame == ASSUME NEW s, Pair(s) PROVE Passes(s, s)
BY FewerSame DEF Passes, SameWay

LEMMA HeldIn ==
  ASSUME NEW s, Pair(s)
  PROVE  /\ HeldBy(s.u) \in Seq(Nat) /\ Piped(s.p) \in Seq(Nat) /\ Held(s) \in Seq(Nat)
         /\ s.p.buf \in Seq(Nat) /\ s.p.src \in Seq(Nat)
         /\ Len(s.p.buf) \in Nat /\ Len(s.p.src) \in Nat
         /\ Held(s) = (HeldBy(s.u) \o s.p.buf) \o s.p.src
<1>1. HeldBy(s.u) \in Seq(Nat)
  <2>1. CASE s.u.card = "6551"
    <3>1. <<s.u.rdr>> \in Seq(Nat) /\ s.u.fifo \in Seq(Nat)
      BY <2>1, One DEF Pair, Good, Chip, Acia
    <3> QED BY <2>1, <3>1, Cat DEF HeldBy, Unread
  <2>2. CASE s.u.card # "6551"
    <3>1. <<s.u.rdr>> \in Seq(Nat) /\ <<>> \in Seq(Nat)
      BY <2>2, One, EmptySeq DEF Pair, Good, Board, Card
    <3> QED BY <2>2, <3>1 DEF HeldBy, Holds
  <2> QED BY <2>1, <2>2
<1>2. s.p.buf \in Seq(Nat) /\ s.p.src \in Seq(Nat)
  BY DEF Pair, PipeOK, Transport
<1>3. Len(s.p.buf) \in Nat /\ Len(s.p.src) \in Nat
  BY <1>2, LenProperties
<1>4. Piped(s.p) \in Seq(Nat)
  BY <1>2, Cat DEF Piped
<1>5. Held(s) \in Seq(Nat)
  BY <1>1, <1>4, Cat DEF Held
<1>6. Held(s) = (HeldBy(s.u) \o s.p.buf) \o s.p.src
  <2>1. (HeldBy(s.u) \o s.p.buf) \o s.p.src = HeldBy(s.u) \o (s.p.buf \o s.p.src)
    BY <1>1, <1>2, Assoc, Zenon
  <2> QED BY <2>1 DEF Held, Piped
<1> QED BY <1>1, <1>2, <1>3, <1>4, <1>5, <1>6

\* The card and the transport may be judged one by one.
LEMMA Parts ==
  ASSUME NEW s, Pair(s), NEW v, NEW q, Good(v), PipeOK(q), SameWay(s, [u |-> v, p |-> q]),
         s.p.kind = "digitelec" => FlowOK([u |-> v, p |-> q]),
         Fewer(HeldBy(s.u), HeldBy(v)), s.p.kind # "loopback" => Fewer(Piped(s.p), Piped(q)),
         Lossless(s) => /\ HeldBy(v) = HeldBy(s.u) /\ Piped(q) = Piped(s.p)
                        /\ Overrun(v) => Overrun(s.u)
  PROVE  Passes(s, [u |-> v, p |-> q])
<1> DEFINE t == [u |-> v, p |-> q]
<1>1. t.u = v /\ t.p = q /\ t = [u |-> t.u, p |-> t.p]
  OBVIOUS
<1> HIDE DEF t
<1>2. SameWay(s, t) /\ (s.p.kind = "digitelec" => FlowOK(t))
  BY DEF t
<1>3. Pair(t)
  BY <1>1, <1>2 DEF Pair, SameWay
<1>4. s.p.kind # "loopback" => Fewer(Held(s), Held(t))
  <2>1. /\ HeldBy(s.u) \in Seq(Nat) /\ Piped(s.p) \in Seq(Nat)
        /\ HeldBy(v) \in Seq(Nat) /\ Piped(q) \in Seq(Nat)
    BY <1>1, <1>3, HeldIn
  <2> QED BY <1>1, <2>1, FewerCat DEF Held
<1>5. Lossless(s) => Held(t) = Held(s) /\ (Overrun(t.u) => Overrun(s.u))
  BY <1>1 DEF Held
<1> QED BY <1>2, <1>3, <1>4, <1>5 DEF Passes, t

\* A step of the card that its transport does not see.
LEMMA CardStep ==
  ASSUME NEW s, Pair(s), NEW v, Good(v), v.card = s.u.card,
         s.u.card = "6551" => SamePins(s.u, v),
         HeldBy(v) = HeldBy(s.u), Overrun(v) => Overrun(s.u)
  PROVE  Passes(s, [u |-> v, p |-> s.p])
<1> DEFINE t == [u |-> v, p |-> s.p]
<1>1. t.u = v /\ t.p = s.p
  OBVIOUS
<1> HIDE DEF t
<1>2. SameWay(s, t) /\ (s.p.kind = "digitelec" => FlowOK(t))
  BY <1>1 DEF SameWay, SamePins, Pair, FlowOK
<1>3. PipeOK(s.p)
  BY DEF Pair
<1> QED BY <1>2, <1>3, Parts, FewerSame DEF t

\* The Digitelec modem dials and hangs up.
LEMMA ConnectPasses ==
  ASSUME NEW s, Pair(s), s.p.kind = "digitelec", ~s.p.up, NEW ok \in BOOLEAN
  PROVE  Passes(s, digitelec_connect(s, ok)) /\ digitelec_connect(s, ok).u.dtr = s.u.dtr
<1>1. CASE ~ok
  BY <1>1, PassesSame DEF digitelec_connect
<1>2. CASE ok
  <2> DEFINE q == [s.p EXCEPT !.up = TRUE, !.src = <<>>, !.eof = FALSE]
             v == acia_set_dcd(s.u, TRUE)
             t == [u |-> v, p |-> q]
  <2>0. t.u = v /\ t.p = q
    OBVIOUS
  <2>1. s.u.card = "6551" /\ Chip(s.u) /\ s.p.cts
    BY DEF Pair, FlowOK, Good, PipeOK, Transport
  <2>2. /\ Chip(v) /\ SameData(s.u, v) /\ v.cfg = s.u.cfg /\ v.cts = s.u.cts /\ v.dcd = TRUE
        /\ v.dtr = s.u.dtr
    BY <2>1, DcdChip
  <2>3. v.card = "6551"
    BY <2>2 DEF Chip, Acia
  <2>4. /\ q \in Transport /\ q.kind = s.p.kind /\ q.up = TRUE /\ q.cts = s.p.cts
        /\ q.buf = s.p.buf /\ q.src = <<>>
    BY EmptySeq DEF Pair, PipeOK, Transport
  <2>5. digitelec_connect(s, ok) = t
    BY <1>2 DEF digitelec_connect, Pair
  <2> HIDE DEF q, v, t
  <2>6. SameWay(s, t)
    BY <2>0, <2>1, <2>2, <2>3, <2>4 DEF SameWay
  <2>7. FlowOK(t)
    BY <2>0, <2>1, <2>2, <2>3, <2>4 DEF FlowOK, Pair
  <2>8. PipeOK(q)
    BY <2>4 DEF Pair, PipeOK
  <2>9. Fewer(Piped(s.p), Piped(q))
    <3>1. Fewer(s.p.buf \o s.p.src, s.p.buf \o <<>>)
      BY HeldIn, EmptySeq, FewerDrop, FewerSame, FewerCat
    <3> QED BY <2>4, <3>1 DEF Piped
  <2>10. Good(v) /\ HeldBy(v) = HeldBy(s.u) /\ Overrun(v) = Overrun(s.u)
    BY <2>1, <2>2, <2>3, SameUnread DEF Good, HeldBy, Overrun, SameData
  <2>11. ~Lossless(s)
    BY DEF Lossless
  <2>12. Passes(s, [u |-> v, p |-> q])
    BY <2>6, <2>7, <2>8, <2>9, <2>10, <2>11, FewerSame, Parts DEF t
  <2> QED BY <2>0, <2>2, <2>5, <2>12 DEF t
<1> QED BY <1>1, <1>2

LEMMA DisconnectPasses ==
  ASSUME NEW s, Pair(s), s.p.kind = "digitelec"
  PROVE  LET t == digitelec_disconnect(s)
         IN  /\ Passes(s, t) /\ t.u.dtr = s.u.dtr /\ HeldBy(t.u) = HeldBy(s.u)
             /\ t.p.buf = <<>> /\ t.p.src = <<>> /\ t.p.up = FALSE /\ t.p.cts = TRUE
<1> DEFINE q == [s.p EXCEPT !.up = FALSE, !.buf = <<>>, !.src = <<>>, !.cts = TRUE]
           x == acia_set_dcd(s.u, FALSE)
           v == acia_set_cts(x, TRUE)
           t == [u |-> v, p |-> q]
<1>0. t.u = v /\ t.p = q
  OBVIOUS
<1>1. s.u.card = "6551" /\ Chip(s.u)
  BY DEF Pair, FlowOK, Good
<1>2. /\ Chip(x) /\ SameData(s.u, x) /\ x.cfg = s.u.cfg /\ x.dcd = FALSE /\ x.dtr = s.u.dtr
  BY <1>1, DcdChip
<1>3. /\ q \in Transport /\ q.kind = s.p.kind /\ q.up = FALSE /\ q.cts = TRUE
      /\ q.buf = <<>> /\ q.src = <<>>
  BY EmptySeq DEF Pair, PipeOK, Transport
<1>4. digitelec_disconnect(s) = t
  <2>1. s = [u |-> s.u, p |-> s.p]
    BY DEF Pair
  <2>2. digitelec_disconnect(s) = [s EXCEPT !.p = q, !.u = v]
    BY DEF digitelec_disconnect
  <2> HIDE DEF q, v
  <2> QED BY <2>1, <2>2
<1> HIDE DEF q, t, x
<1>5. /\ Chip(v) /\ SameData(x, v) /\ v.cfg = x.cfg /\ v.dcd = x.dcd /\ v.cts = TRUE
      /\ v.dtr = x.dtr
  BY <1>2, CtsChip
<1> HIDE DEF v
<1>6. v.card = "6551" /\ SameData(s.u, v)
  BY <1>2, <1>5 DEF Chip, Acia, SameData
<1>7. SameWay(s, t)
  BY <1>0, <1>1, <1>2, <1>3, <1>5, <1>6 DEF SameWay
<1>8. FlowOK(t)
  BY <1>0, <1>2, <1>3, <1>5, <1>6 DEF FlowOK
<1>9. PipeOK(q)
  <2>1. Len(q.buf) = 0
    BY <1>3, EmptySeq
  <2> QED BY <1>3, <2>1, SerialAssumption DEF PipeOK
<1>10. Fewer(Piped(s.p), Piped(q))
  BY <1>3, HeldIn, EmptySeq, ConcatEmptySeq, FewerDrop DEF Piped
<1>11. Good(v) /\ HeldBy(v) = HeldBy(s.u) /\ Overrun(v) = Overrun(s.u)
  BY <1>1, <1>5, <1>6, SameUnread DEF Good, HeldBy, Overrun, SameData
<1>12. ~Lossless(s)
  BY DEF Lossless
<1>13. Passes(s, [u |-> v, p |-> q])
  BY <1>7, <1>8, <1>9, <1>10, <1>11, <1>12, FewerSame, Parts DEF t
<1> QED BY <1>0, <1>2, <1>3, <1>4, <1>5, <1>11, <1>13 DEF t

LEMMA DtrPasses ==
  ASSUME NEW s, Pair(s), s.p.kind = "digitelec", NEW ok \in BOOLEAN
  PROVE  Passes(s, digitelec_check_dtr(s, ok))
<1> DEFINE dial == s.u.dtr /\ ~s.p.dtrWas /\ ~s.p.up
           hang == ~s.u.dtr /\ s.p.dtrWas /\ s.p.up
           t == IF dial THEN digitelec_connect(s, ok)
                ELSE IF hang THEN digitelec_disconnect(s) ELSE s
           q == [t.p EXCEPT !.dtrWas = s.u.dtr]
<1>1. digitelec_check_dtr(s, ok) = [t EXCEPT !.p.dtrWas = s.u.dtr]
  BY DEF digitelec_check_dtr
<1>2. Passes(s, t)
  BY ConnectPasses, DisconnectPasses, PassesSame
<1>3. s.u.dtr \in BOOLEAN
  BY DEF Pair, FlowOK, Good, Chip, Acia
<1> HIDE DEF t
<1>4. Pair(t) /\ t.p.kind = "digitelec" /\ t.p \in Transport
  BY <1>2 DEF Passes, SameWay, Pair, PipeOK
<1>5. digitelec_check_dtr(s, ok) = [u |-> t.u, p |-> q]
  BY <1>1, <1>4 DEF Pair
<1>6. /\ q \in Transport /\ q.kind = t.p.kind /\ q.buf = t.p.buf /\ q.src = t.p.src
      /\ q.up = t.p.up /\ q.cts = t.p.cts
  BY <1>3, <1>4 DEF Transport
<1> HIDE DEF q
<1> DEFINE r == [u |-> t.u, p |-> q]
<1>7. r.u = t.u /\ r.p = q
  OBVIOUS
<1> HIDE DEF r
<1>8. SameWay(t, r) /\ PipeOK(q) /\ FlowOK(r) /\ Good(t.u)
  BY <1>4, <1>6, <1>7 DEF SameWay, PipeOK, FlowOK, Pair
<1>9. Piped(q) = Piped(t.p)
  BY <1>6 DEF Piped
<1>10. Passes(t, r)
  BY <1>4, <1>8, <1>9, FewerSame, Parts DEF r
<1> QED BY <1>2, <1>5, <1>10, PassesTrans DEF r

\* What goes out reaches no other part of the port than a loopback's ring.
LEMMA SendPasses ==
  ASSUME NEW s, Pair(s), NEW b \in Nat, NEW ok \in BOOLEAN
  PROVE  Passes(s, pipe_send(s, b, ok))
<1>1. CASE s.p.kind = "loopback"
  <2>1. CASE Len(s.p.buf) < Ring
    <3> DEFINE q == [s.p EXCEPT !.buf = Append(s.p.buf, b)]
               t == [u |-> s.u, p |-> q]
    <3>0. t.u = s.u /\ t.p = q /\ s = [u |-> s.u, p |-> s.p]
      BY DEF Pair
    <3>1. pipe_send(s, b, ok) = [s EXCEPT !.p = q]
      BY <1>1, <2>1 DEF pipe_send, loopback_send
    <3>2. s.p \in Transport /\ s.p.buf \in Seq(Nat) /\ Len(s.p.buf) \in Nat
      BY HeldIn DEF Pair, PipeOK
    <3>3. Append(s.p.buf, b) \in Seq(Nat) /\ Len(Append(s.p.buf, b)) = Len(s.p.buf) + 1
      BY <3>2, AppendProperties
    <3>4. /\ q \in Transport /\ q.kind = s.p.kind /\ q.buf = Append(s.p.buf, b)
      BY <3>2, <3>3 DEF Transport
    <3> HIDE DEF q, t
    <3>5. PipeOK(q)
      BY <1>1, <2>1, <3>2, <3>3, <3>4, SerialAssumption DEF PipeOK
    <3>6. SameWay(s, t) /\ Good(s.u) /\ ~Lossless(s)
      BY <1>1, <3>0, <3>4 DEF SameWay, Lossless, Pair
    <3>7. Passes(s, [u |-> s.u, p |-> q])
      BY <1>1, <3>5, <3>6, FewerSame, Parts DEF t
    <3>8. pipe_send(s, b, ok) = [u |-> s.u, p |-> q]
      BY <3>0, <3>1
    <3> QED BY <3>7, <3>8
  <2>2. CASE ~(Len(s.p.buf) < Ring)
    BY <1>1, <2>2, PassesSame DEF pipe_send, loopback_send
  <2> QED BY <2>1, <2>2
<1>2. CASE s.p.kind = "digitelec"
  <2> DEFINE t == digitelec_check_dtr(s, ok)
  <2>1. Passes(s, t)
    BY <1>2, DtrPasses
  <2>2. pipe_send(s, b, ok) = IF t.p.up /\ ~ok THEN digitelec_disconnect(t) ELSE t
    BY <1>2 DEF pipe_send, digitelec_send
  <2> HIDE DEF t
  <2>3. Pair(t) /\ t.p.kind = "digitelec"
    BY <1>2, <2>1 DEF Passes, SameWay
  <2>4. Passes(t, digitelec_disconnect(t))
    BY <2>3, DisconnectPasses
  <2> QED BY <2>1, <2>2, <2>4, PassesTrans
<1>3. CASE s.p.kind \notin {"loopback", "digitelec"}
  BY <1>3, PassesSame DEF pipe_send
<1> QED BY <1>1, <1>2, <1>3

\* Of the n first elements m are kept.
LEMMA CutSplit ==
  ASSUME NEW s \in Seq(Nat), NEW n \in 0 .. Len(s), NEW m \in 0 .. n
  PROVE  /\ SubSeq(s, 1, m) \in Seq(Nat) /\ Len(SubSeq(s, 1, m)) = m
         /\ SubSeq(s, n + 1, Len(s)) \in Seq(Nat)
         /\ Fewer(s, SubSeq(s, 1, m) \o SubSeq(s, n + 1, Len(s)))
         /\ m = n => SubSeq(s, 1, m) \o SubSeq(s, n + 1, Len(s)) = s
<1> DEFINE a == SubSeq(s, 1, m)
           b == SubSeq(s, m + 1, Len(s))
           c == SubSeq(s, m + 1, n)
           d == SubSeq(s, n + 1, Len(s))
<1>1. Len(s) \in Nat /\ m \in 0 .. Len(s)
  BY LenProperties
<1>2. a \in Seq(Nat) /\ Len(a) = m /\ b \in Seq(Nat) /\ d \in Seq(Nat) /\ a \o b = s
      /\ (m = n => a \o d = s)
  BY <1>1, Split
<1>3. c \in Seq(Nat)
  <2>1. \A i \in m + 1 .. n : s[i] \in Nat
    BY <1>1, ElementOfSeq
  <2>2. m + 1 \in Int /\ n \in Int
    OBVIOUS
  <2> QED BY <2>1, <2>2, SubSeqProperties
<1>4. c \o d = b
  <2>1. m + 1 \in 1 .. Len(s) + 1 /\ n \in (m + 1) - 1 .. Len(s) /\ Len(s) \in n .. Len(s)
    BY <1>1
  <2> QED BY <2>1, ConcatAdjacentSubSeq
<1> HIDE DEF a, b, c, d
<1>5. Fewer(c \o d, d)
  <2>1. Fewer(c \o d, <<>> \o d)
    BY <1>2, <1>3, EmptySeq, FewerDrop, FewerSame, FewerCat
  <2> QED BY <1>2, <2>1, ConcatEmptySeq
<1>6. Fewer(a \o b, a \o d)
  BY <1>2, <1>4, <1>5, FewerSame, FewerCat
<1> QED BY <1>2, <1>6 DEF a, d

LEMMA MovePasses ==
  ASSUME NEW s, Pair(s), s.p.kind \in {"midi", "file"}, NEW n \in 0 .. Len(s.p.src),
         s.p.kind = "file" => n <= Ring - Len(s.p.buf)
  PROVE  Passes(s, [u |-> s.u, p |-> Move(s.p, n)])
<1> DEFINE q == Move(s.p, n)
           room == Ring - Len(s.p.buf)
           m == IF n < room THEN n ELSE room
           a == SubSeq(s.p.src, 1, m)
           d == SubSeq(s.p.src, n + 1, Len(s.p.src))
           t == [u |-> s.u, p |-> q]
<1>0. t.u = s.u /\ t.p = q
  OBVIOUS
<1>1. /\ s.p \in Transport /\ s.p.buf \in Seq(Nat) /\ s.p.src \in Seq(Nat)
      /\ Len(s.p.buf) \in Nat /\ Len(s.p.src) \in Nat /\ Ring \in Nat
      /\ Len(s.p.buf) <= Ring
  BY HeldIn, SerialAssumption DEF Pair, PipeOK
<1>2. m \in 0 .. n /\ m <= room /\ (n <= room => m = n)
  <2>1. n \in Nat /\ room \in Nat
    BY <1>1
  <2> HIDE DEF room
  <2> QED BY <2>1
<1>3. a \in Seq(Nat) /\ Len(a) = m /\ d \in Seq(Nat) /\ Fewer(s.p.src, a \o d)
      /\ (m = n => a \o d = s.p.src)
  BY <1>1, <1>2, CutSplit
<1>4. q = [s.p EXCEPT !.buf = s.p.buf \o a, !.src = d]
  BY <1>1 DEF Move, Transport
<1> HIDE DEF q, a, d, t, m
<1>5. s.p.buf \o a \in Seq(Nat) /\ Len(s.p.buf \o a) = Len(s.p.buf) + m
  BY <1>1, <1>3, Cat
<1>6. q \in Transport /\ q.kind = s.p.kind /\ q.buf = s.p.buf \o a /\ q.src = d
  BY <1>1, <1>3, <1>4, <1>5 DEF Transport
<1>7. PipeOK(q)
  BY <1>1, <1>2, <1>5, <1>6 DEF PipeOK
<1>8. Piped(q) = s.p.buf \o (a \o d)
  <2>1. (s.p.buf \o a) \o d = s.p.buf \o (a \o d)
    BY <1>1, <1>3, Assoc, Zenon
  <2> QED BY <1>6, <2>1 DEF Piped
<1>9. Fewer(Piped(s.p), Piped(q))
  <2>1. a \o d \in Seq(Nat)
    BY <1>3, Cat
  <2>2. Fewer(s.p.buf \o s.p.src, s.p.buf \o (a \o d))
    BY <1>1, <1>3, <2>1, FewerSame, FewerCat
  <2> QED BY <1>8, <2>2 DEF Piped
<1>10. Lossless(s) => Piped(q) = Piped(s.p)
  <2>1. s.p.kind = "file" => m = n
    BY <1>2
  <2> QED BY <1>3, <1>8, <2>1 DEF Lossless, Piped
<1>11. SameWay(s, t) /\ Good(s.u) /\ s.p.kind # "digitelec"
  BY <1>0, <1>6 DEF SameWay, Pair
<1>12. Passes(s, [u |-> s.u, p |-> q])
  BY <1>7, <1>9, <1>10, <1>11, FewerSame, Parts DEF t
<1> QED BY <1>12 DEF q

LEMMA PollPasses ==
  ASSUME NEW s, Pair(s), NEW ok \in BOOLEAN, NEW n,
         s.p.kind = "midi" => n \in 0 .. Len(s.p.src)
  PROVE  Passes(s, pipe_poll(s, n, ok))
<1>0. s = [u |-> s.u, p |-> s.p]
  BY DEF Pair
<1>1. CASE s.p.kind = "digitelec"
  BY <1>1, DtrPasses DEF pipe_poll
<1>2. CASE s.p.kind = "midi"
  <2>1. pipe_poll(s, n, ok) = [u |-> s.u, p |-> Move(s.p, n)]
    BY <1>0, <1>2 DEF pipe_poll, midi_pump
  <2> QED BY <1>2, <2>1, MovePasses
<1>3. CASE s.p.kind = "file"
  <2>1. pipe_poll(s, n, ok) = [u |-> s.u, p |-> file_poll(s.p)]
    BY <1>0, <1>3 DEF pipe_poll
  <2>2. CASE s.p.buf = <<>> /\ s.p.src # <<>>
    <3>1. 1 \in 0 .. Len(s.p.src) /\ Len(s.p.buf) = 0
      BY <2>2, HeldIn, HeadTail, EmptySeq
    <3>2. Passes(s, [u |-> s.u, p |-> Move(s.p, 1)])
      BY <1>3, <3>1, SerialAssumption, MovePasses
    <3> QED BY <2>1, <2>2, <3>2 DEF file_poll
  <2>3. CASE ~(s.p.buf = <<>> /\ s.p.src # <<>>)
    BY <1>0, <2>1, <2>3, PassesSame DEF file_poll
  <2> QED BY <2>2, <2>3
<1>4. CASE s.p.kind \notin {"digitelec", "midi", "file"}
  BY <1>4, PassesSame DEF pipe_poll
<1> QED BY <1>1, <1>2, <1>3, <1>4

\* A read takes the oldest byte of the transport, or none.
Received(s, r) ==
  /\ SameWay(s, [u |-> r.u, p |-> r.p]) /\ Pair([u |-> r.u, p |-> r.p])
  /\ HeldBy(r.u) = HeldBy(s.u) /\ (Overrun(r.u) => Overrun(s.u))
  /\ s.p.kind # "digitelec" => r.u = s.u
  /\ r.got = <<>> \/ \E b \in Nat : r.got = <<b>>
  /\ Fewer(Piped(s.p), r.got \o Piped(r.p))
  /\ Lossless(s) => r.got \o Piped(r.p) = Piped(s.p)

LEMMA FromBuf ==
  ASSUME NEW p \in Transport, Len(p.buf) <= Ring, p.buf # <<>>, p.kind \notin {"tcp", "tty"}
  PROVE  LET q == [p EXCEPT !.buf = Tail(@)]
         IN  /\ PipeOK(q) /\ q.kind = p.kind /\ q.up = p.up /\ q.cts = p.cts
             /\ Head(p.buf) \in Nat /\ <<Head(p.buf)>> \o Piped(q) = Piped(p)
             /\ Len(q.buf) = Len(p.buf) - 1
<1> DEFINE q == [p EXCEPT !.buf = Tail(@)]
<1>1. p.buf \in Seq(Nat) /\ p.src \in Seq(Nat)
  BY DEF Transport
<1>2. /\ Head(p.buf) \in Nat /\ Tail(p.buf) \in Seq(Nat) /\ Len(Tail(p.buf)) = Len(p.buf) - 1
      /\ <<Head(p.buf)>> \o Tail(p.buf) = p.buf /\ Len(p.buf) \in Nat
  BY <1>1, HeadTail
<1>3. /\ q \in Transport /\ q.kind = p.kind /\ q.up = p.up /\ q.cts = p.cts
      /\ q.buf = Tail(p.buf) /\ q.src = p.src
  BY <1>2 DEF Transport
<1> HIDE DEF q
<1>4. PipeOK(q)
  BY <1>2, <1>3, SerialAssumption DEF PipeOK
<1>5. (<<Head(p.buf)>> \o Tail(p.buf)) \o p.src = <<Head(p.buf)>> \o (Tail(p.buf) \o p.src)
  <2>1. <<Head(p.buf)>> \in Seq(Nat)
    BY <1>2, One
  <2> QED BY <1>1, <1>2, <2>1, Assoc, Zenon
<1> QED BY <1>2, <1>3, <1>4, <1>5 DEF q, Piped

LEMMA LoopReceives ==
  ASSUME NEW s, Pair(s), s.p.kind \in {"loopback", "file", "midi"}
  PROVE  Received(s, loopback_recv(s))
<1>1. s = [u |-> s.u, p |-> s.p] /\ s.p \in Transport /\ Len(s.p.buf) <= Ring
      /\ s.p.kind \notin {"tcp", "tty"} /\ Piped(s.p) \in Seq(Nat)
  BY HeldIn DEF Pair, PipeOK
<1>2. CASE s.p.buf = <<>>
  <2>1. loopback_recv(s) = [u |-> s.u, p |-> s.p, got |-> <<>>]
    BY <1>2 DEF loopback_recv
  <2>2. <<>> \o Piped(s.p) = Piped(s.p)
    BY <1>1, ConcatEmptySeq
  <2>3. SameWay(s, [u |-> s.u, p |-> s.p])
    BY DEF SameWay
  <2> QED BY <1>1, <2>1, <2>2, <2>3, FewerSame DEF Received
<1>3. CASE s.p.buf # <<>>
  <2> DEFINE q == [s.p EXCEPT !.buf = Tail(@)]
             t == [u |-> s.u, p |-> q]
  <2>0. t.u = s.u /\ t.p = q
    OBVIOUS
  <2>1. /\ PipeOK(q) /\ q.kind = s.p.kind
        /\ Head(s.p.buf) \in Nat /\ <<Head(s.p.buf)>> \o Piped(q) = Piped(s.p)
    BY <1>1, <1>3, FromBuf
  <2>2. loopback_recv(s) = [u |-> s.u, p |-> q, got |-> <<Head(s.p.buf)>>]
    BY <1>3 DEF loopback_recv
  <2> HIDE DEF q, t
  <2>3. SameWay(s, t)
    BY <2>0, <2>1 DEF SameWay
  <2>4. Pair(t)
    <3>1. t = [u |-> t.u, p |-> t.p]
      BY <2>0 DEF t
    <3> QED BY <1>1, <2>0, <2>1, <3>1 DEF Pair
  <2>5. \E b \in Nat : <<Head(s.p.buf)>> = <<b>>
    BY <2>1
  <2> DEFINE r == loopback_recv(s)
  <2>6. r.u = s.u /\ r.p = q /\ r.got = <<Head(s.p.buf)>> /\ t = [u |-> r.u, p |-> r.p]
    BY <2>2 DEF t
  <2> HIDE DEF r
  <2>7. Fewer(Piped(s.p), r.got \o Piped(r.p))
    BY <2>1, <2>6, FewerSame
  <2>8. Received(s, r)
    BY <2>1, <2>3, <2>4, <2>5, <2>6, <2>7 DEF Received
  <2> QED BY <2>8 DEF r
<1> QED BY <1>2, <1>3

LEMMA TcpReceives ==
  ASSUME NEW s, Pair(s), s.p.kind \in {"tcp", "tty"}
  PROVE  Received(s, tcp_recv(s))
<1>1. /\ s.p \in Transport /\ s.p.buf = <<>> /\ s.p.src \in Seq(Nat) /\ Piped(s.p) = s.p.src
      /\ s.p.eof \in BOOLEAN
  BY HeldIn, ConcatEmptySeq DEF Pair, PipeOK, Piped, Transport
<1>2. CASE s.p.src = <<>>
  <2> DEFINE q == [s.p EXCEPT !.up = ~s.p.eof]
             t == [u |-> s.u, p |-> q]
  <2>0. t.u = s.u /\ t.p = q
    OBVIOUS
  <2>1. q \in Transport /\ q.kind = s.p.kind /\ q.buf = s.p.buf /\ q.src = s.p.src
    BY <1>1 DEF Transport
  <2>2. tcp_recv(s) = [u |-> s.u, p |-> q, got |-> <<>>]
    BY <1>2 DEF tcp_recv
  <2> HIDE DEF q, t
  <2>3. SameWay(s, t)
    BY <2>0, <2>1 DEF SameWay
  <2>4. Pair(t)
    <3>1. t = [u |-> t.u, p |-> t.p]
      BY <2>0 DEF t
    <3> QED BY <2>0, <2>1, <3>1 DEF Pair, PipeOK
  <2>5. <<>> \o Piped(q) = Piped(s.p)
    BY <1>1, <2>1, HeldIn, ConcatEmptySeq DEF Piped
  <2> QED BY <2>2, <2>3, <2>4, <2>5, FewerSame DEF Received, t
<1>3. CASE s.p.src # <<>>
  <2> DEFINE q == [s.p EXCEPT !.src = Tail(@)]
             t == [u |-> s.u, p |-> q]
  <2>0. t.u = s.u /\ t.p = q
    OBVIOUS
  <2>1. /\ Head(s.p.src) \in Nat /\ Tail(s.p.src) \in Seq(Nat)
        /\ <<Head(s.p.src)>> \o Tail(s.p.src) = s.p.src
    BY <1>1, <1>3, HeadTail
  <2>2. q \in Transport /\ q.kind = s.p.kind /\ q.buf = s.p.buf /\ q.src = Tail(s.p.src)
    BY <1>1, <2>1 DEF Transport
  <2>3. tcp_recv(s) = [u |-> s.u, p |-> q, got |-> <<Head(s.p.src)>>]
    BY <1>3 DEF tcp_recv
  <2> HIDE DEF q, t
  <2>4. SameWay(s, t)
    BY <2>0, <2>2 DEF SameWay
  <2>5. Pair(t)
    <3>1. t = [u |-> t.u, p |-> t.p]
      BY <2>0 DEF t
    <3> QED BY <2>0, <2>2, <3>1 DEF Pair, PipeOK
  <2>6. <<Head(s.p.src)>> \o Piped(q) = Piped(s.p)
    <3>1. Piped(q) = Tail(s.p.src)
      BY <1>1, <2>1, <2>2, ConcatEmptySeq DEF Piped
    <3> QED BY <1>1, <2>1, <3>1
  <2>7. \E b \in Nat : <<Head(s.p.src)>> = <<b>>
    BY <2>1
  <2> DEFINE r == tcp_recv(s)
  <2>8. r.u = s.u /\ r.p = q /\ r.got = <<Head(s.p.src)>> /\ t = [u |-> r.u, p |-> r.p]
    BY <2>3 DEF t
  <2> HIDE DEF r
  <2>9. Fewer(Piped(s.p), r.got \o Piped(r.p))
    BY <2>6, <2>8, FewerSame
  <2>10. Received(s, r)
    BY <2>4, <2>5, <2>6, <2>7, <2>8, <2>9 DEF Received
  <2> QED BY <2>10 DEF r
<1> QED BY <1>2, <1>3

\* The Digitelec modem's ring is filled, and the flow control set to what it
\* holds then.
Filled(s, w) ==
  /\ w = [u |-> w.u, p |-> w.p] /\ Chip(w.u) /\ w.u.cfg = s.u.cfg
  /\ HeldBy(w.u) = HeldBy(s.u) /\ Overrun(w.u) = Overrun(s.u)
  /\ w.p \in Transport /\ Len(w.p.buf) <= Ring /\ w.p.kind = s.p.kind
  /\ Fewer(Piped(s.p), Piped(w.p)) /\ w.u.dcd = w.p.up

LEMMA ChipCard == ASSUME NEW a, Chip(a) PROVE a.card = "6551" /\ Good(a) /\ HeldBy(a) = Unread(a)
BY DEF Chip, Acia, Good, HeldBy

LEMMA Hysteresis ==
  ASSUME NEW n \in Nat, NEW cts \in BOOLEAN
  PROVE  /\ CtsAt(n, cts) \in BOOLEAN /\ (CtsAt(n, cts) => n < High)
         /\ ~CtsAt(n, cts) => n > Low /\ n # 0
<1>1. CtsAt(n, cts) \in BOOLEAN
  BY DEF CtsAt
<1>2. CtsAt(n, cts) => n < High
  BY SerialAssumption DEF CtsAt
<1>3. ~CtsAt(n, cts) => n > Low
  BY SerialAssumption DEF CtsAt
<1> QED BY <1>1, <1>2, <1>3, SerialAssumption

LEMMA FillKeeps ==
  ASSUME NEW s, Pair(s), s.p.kind = "digitelec"
  PROVE  LET w == digitelec_fill(s)
         IN  /\ Filled(s, w) /\ w.u.cts = w.p.cts
             /\ w.p.cts => Len(w.p.buf) < High
             /\ ~w.p.cts => w.p.up /\ Len(w.p.buf) > Low
<1> DEFINE free == Ring - Len(s.p.buf)
           n == IF Len(s.p.src) < free THEN Len(s.p.src) ELSE free
           t == IF Len(s.p.src) < free /\ s.p.eof THEN digitelec_disconnect(s)
                ELSE [s EXCEPT !.p.buf = @ \o SubSeq(s.p.src, 1, n),
                               !.p.src = SubSeq(@, n + 1, Len(@))]
           cts == CtsAt(Len(t.p.buf), t.p.cts)
           v == acia_set_cts(t.u, cts)
           q == [t.p EXCEPT !.cts = cts]
           w == digitelec_fill(s)
<1>1. /\ s = [u |-> s.u, p |-> s.p] /\ Chip(s.u) /\ FlowOK(s)
      /\ s.p \in Transport /\ s.p.buf \in Seq(Nat) /\ s.p.src \in Seq(Nat)
      /\ Len(s.p.buf) \in Nat /\ Len(s.p.src) \in Nat /\ Len(s.p.buf) <= Ring
      /\ Piped(s.p) \in Seq(Nat)
  BY HeldIn DEF Pair, PipeOK, FlowOK, Good
<1>2. Ring \in Nat /\ High \in Nat /\ Low \in Nat /\ Low < High /\ free \in Nat
  BY <1>1, SerialAssumption
<1>3. ASSUME ~s.p.up PROVE w = s
  BY <1>3 DEF digitelec_fill
<1>4. Filled(s, s)
  BY <1>1, FewerSame DEF Filled, FlowOK
<1>5. CASE ~s.p.up
  <2>1. s.p.cts /\ Len(s.p.buf) < High /\ s.u.cts = s.p.cts
    <3>1. s.p.buf = <<>> => Len(s.p.buf) = 0
      BY EmptySeq
    <3> QED BY <1>1, <1>2, <1>5, <3>1 DEF FlowOK
  <2> QED BY <1>3, <1>4, <1>5, <2>1
<1>6. CASE s.p.up
  <2>1. w = [t EXCEPT !.p.cts = cts, !.u = acia_set_cts(@, cts)]
    BY <1>6 DEF digitelec_fill
  <2>2. /\ Filled(s, t) /\ t.p.cts \in BOOLEAN
        /\ Len(t.p.buf) \in Nat /\ (t.p.up \/ Len(t.p.buf) = 0)
    <3>1. CASE Len(s.p.src) < free /\ s.p.eof
      <4>1. t = digitelec_disconnect(s)
        BY <3>1
      <4> HIDE DEF t
      <4>2. /\ Passes(s, t) /\ HeldBy(t.u) = HeldBy(s.u) /\ t.p.buf = <<>> /\ t.p.src = <<>>
            /\ t.p.up = FALSE /\ t.p.cts = TRUE
        BY <4>1, DisconnectPasses
      <4>3. Pair(t) /\ SameWay(s, t)
        BY <4>2 DEF Passes
      <4>4. /\ t = [u |-> t.u, p |-> t.p] /\ Chip(t.u) /\ t.u.cfg = s.u.cfg
            /\ t.p \in Transport /\ Len(t.p.buf) <= Ring /\ t.p.kind = s.p.kind
            /\ t.u.dcd = t.p.up
        BY <1>1, <4>3 DEF Pair, SameWay, PipeOK, FlowOK, Good
      <4>5. Len(t.p.buf) = 0 /\ Piped(t.p) = <<>>
        BY <4>2, EmptySeq, ConcatEmptySeq DEF Piped
      <4>6. Fewer(Piped(s.p), Piped(t.p))
        BY <1>1, <4>5, FewerDrop
      <4>7. Overrun(t.u) = Overrun(s.u)
        <5>1. t.u = acia_set_cts(acia_set_dcd(s.u, FALSE), TRUE)
          BY <1>1, <4>1 DEF digitelec_disconnect
        <5>2. /\ Chip(acia_set_dcd(s.u, FALSE)) /\ SameData(s.u, acia_set_dcd(s.u, FALSE))
          BY <1>1, DcdChip
        <5>3. SameData(acia_set_dcd(s.u, FALSE), t.u)
          BY <5>1, <5>2, CtsChip
        <5> QED BY <5>2, <5>3 DEF SameData, Overrun
      <4> QED BY <4>2, <4>4, <4>5, <4>6, <4>7 DEF Filled
    <3>2. CASE ~(Len(s.p.src) < free /\ s.p.eof)
      <4> DEFINE a == SubSeq(s.p.src, 1, n)
                 d == SubSeq(s.p.src, n + 1, Len(s.p.src))
                 p == [s.p EXCEPT !.buf = s.p.buf \o a, !.src = d]
      <4>0. n \in 0 .. Len(s.p.src) /\ n <= free
        BY <1>1, <1>2
      <4> HIDE DEF n
      <4>1. /\ a \in Seq(Nat) /\ d \in Seq(Nat) /\ Len(a) = n /\ a \o d = s.p.src
        BY <1>1, <4>0, Split
      <4>2. t = [u |-> s.u, p |-> p]
        BY <1>1, <3>2 DEF Transport
      <4> HIDE DEF a, d, t
      <4>3. s.p.buf \o a \in Seq(Nat) /\ Len(s.p.buf \o a) = Len(s.p.buf) + n
        BY <1>1, <4>1, Cat
      <4>4. /\ p \in Transport /\ p.buf = s.p.buf \o a /\ p.src = d /\ p.kind = s.p.kind
            /\ p.up = s.p.up /\ p.cts = s.p.cts
        BY <1>1, <4>1, <4>3 DEF Transport
      <4> HIDE DEF p
      <4>5. Piped(p) = Piped(s.p)
        <5>1. (s.p.buf \o a) \o d = s.p.buf \o (a \o d)
          BY <1>1, <4>1, Assoc, Zenon
        <5> QED BY <4>1, <4>4, <5>1 DEF Piped
      <4>6. t.u = s.u /\ t.p = p
        BY <4>2
      <4>7. Len(p.buf) <= Ring /\ Len(p.buf) \in Nat /\ p.cts \in BOOLEAN
        BY <1>1, <1>2, <4>0, <4>3, <4>4 DEF Transport
      <4> QED BY <1>1, <1>6, <4>2, <4>4, <4>5, <4>6, <4>7, FewerSame DEF Filled, FlowOK
    <3> QED BY <3>1, <3>2
  <2> HIDE DEF t, free, n
  <2>3. w = [u |-> v, p |-> q]
    <3>1. t = [u |-> t.u, p |-> t.p]
      BY <2>2 DEF Filled
    <3> HIDE DEF cts
    <3> QED BY <2>1, <3>1
  <2>4. /\ cts \in BOOLEAN /\ (cts => Len(t.p.buf) < High)
        /\ (~cts => t.p.up /\ Len(t.p.buf) > Low)
    BY <2>2, Hysteresis
  <2> HIDE DEF cts
  <2>5. /\ Chip(v) /\ SameData(t.u, v) /\ v.cfg = t.u.cfg /\ v.dcd = t.u.dcd /\ v.cts = cts
    BY <2>2, <2>4, CtsChip DEF Filled
  <2>6. /\ q \in Transport /\ q.buf = t.p.buf /\ q.src = t.p.src /\ q.kind = t.p.kind
        /\ q.up = t.p.up /\ q.cts = cts
    BY <2>2, <2>4 DEF Filled, Transport
  <2> HIDE DEF v, q, w
  <2>7. w.u = v /\ w.p = q /\ w = [u |-> w.u, p |-> w.p]
    BY <2>3
  <2>8. HeldBy(v) = HeldBy(t.u) /\ Overrun(v) = Overrun(t.u)
    BY <2>2, <2>5, SameUnread, ChipCard DEF Filled, SameData, Overrun
  <2>9. Filled(s, w)
    BY <2>2, <2>5, <2>6, <2>7, <2>8 DEF Filled, Piped
  <2> QED BY <2>4, <2>5, <2>6, <2>7, <2>9 DEF w
<1> QED BY <1>5, <1>6

LEMMA DigitelecReceives ==
  ASSUME NEW s, Pair(s), s.p.kind = "digitelec"
  PROVE  Received(s, digitelec_recv(s))
<1> DEFINE w == digitelec_fill(s)
           q == IF w.p.buf = <<>> THEN w.p ELSE [w.p EXCEPT !.buf = Tail(@)]
           got == IF w.p.buf = <<>> THEN <<>> ELSE <<Head(w.p.buf)>>
           r == digitelec_recv(s)
           t == [u |-> r.u, p |-> r.p]
<1>0. t.u = r.u /\ t.p = r.p
  OBVIOUS
<1>1. /\ Filled(s, w) /\ w.u.cts = w.p.cts
      /\ w.p.cts => Len(w.p.buf) < High
      /\ ~w.p.cts => w.p.up /\ Len(w.p.buf) > Low
  BY FillKeeps
<1>2. r = [u |-> w.u, p |-> q, got |-> got]
  BY DEF digitelec_recv, loopback_recv
<1> HIDE DEF w, r
<1>3. /\ w.p \in Transport /\ Len(w.p.buf) <= Ring /\ Len(w.p.buf) \in Nat
      /\ w.p.kind = "digitelec" /\ w.p.buf \in Seq(Nat) /\ Piped(w.p) \in Seq(Nat)
  BY <1>1, LenProperties, Cat DEF Filled, Transport, Piped
<1>4. /\ PipeOK(q) /\ q.kind = w.p.kind /\ q.up = w.p.up /\ q.cts = w.p.cts
      /\ got = <<>> \/ \E b \in Nat : got = <<b>>
      /\ got \o Piped(q) = Piped(w.p)
      /\ Len(q.buf) + 1 = Len(w.p.buf) \/ (q.buf = <<>> /\ Len(w.p.buf) = 0)
  <2>1. CASE w.p.buf = <<>>
    <3>1. Len(w.p.buf) = 0 /\ got \o Piped(q) = Piped(w.p)
      BY <1>3, <2>1, EmptySeq, ConcatEmptySeq
    <3> QED BY <1>3, <2>1, <3>1 DEF PipeOK
  <2>2. CASE w.p.buf # <<>>
    <3> DEFINE z == [w.p EXCEPT !.buf = Tail(@)]
    <3>1. /\ PipeOK(z) /\ z.kind = w.p.kind /\ z.up = w.p.up /\ z.cts = w.p.cts
          /\ Head(w.p.buf) \in Nat /\ <<Head(w.p.buf)>> \o Piped(z) = Piped(w.p)
          /\ Len(z.buf) = Len(w.p.buf) - 1
      BY <1>3, <2>2, FromBuf
    <3>2. got = <<Head(w.p.buf)>> /\ q = z
      BY <2>2
    <3> HIDE DEF got, q, z
    <3>3. got \o Piped(q) = Piped(w.p)
      BY <3>1, <3>2
    <3>4. Len(q.buf) + 1 = Len(w.p.buf)
      BY <1>3, <3>1, <3>2
    <3>5. \E b \in Nat : got = <<b>>
      BY <3>1, <3>2
    <3>6. PipeOK(q) /\ q.kind = w.p.kind /\ q.up = w.p.up /\ q.cts = w.p.cts
      BY <3>1, <3>2
    <3> QED BY <3>3, <3>4, <3>5, <3>6
  <2> QED BY <2>1, <2>2
<1> HIDE DEF q, got
<1>5. r.u = w.u /\ r.p = q /\ r.got = got
  BY <1>2
<1> HIDE DEF t
<1>6. Good(w.u) /\ w.u.card = "6551" /\ s.u.card = "6551" /\ Chip(s.u)
  BY <1>1, ChipCard DEF Filled, Pair, FlowOK, Good
<1>7. SameWay(s, t)
  BY <1>0, <1>1, <1>4, <1>5, <1>6 DEF SameWay, Filled
<1>8. FlowOK(t)
  <2>1. q.cts => Len(q.buf) + 1 < High \/ q.buf = <<>>
    BY <1>1, <1>3, <1>4
  <2>2. ~q.cts => q.up /\ Len(q.buf) >= Low
    <3>1. q.buf = <<>> => Len(q.buf) = 0
      BY EmptySeq
    <3>2. Len(q.buf) \in Nat
      BY <1>4, LenProperties DEF PipeOK, Transport
    <3>3. Low \in Nat
      BY SerialAssumption
    <3> QED BY <1>1, <1>3, <1>4, <3>1, <3>2, <3>3
  <2> QED BY <1>0, <1>1, <1>4, <1>5, <1>6, <2>1, <2>2 DEF FlowOK, Filled
<1>9. Pair(t)
  <2>1. t = [u |-> t.u, p |-> t.p]
    BY <1>0 DEF t
  <2>2. s.u.cfg.backp => FALSE
    BY <1>6 DEF Pair
  <2> QED BY <1>0, <1>1, <1>4, <1>5, <1>6, <1>8, <2>1, <2>2 DEF Pair, Filled
<1>10. Received(s, r)
  <2>1. ~Lossless(s)
    BY DEF Lossless
  <2>2. HeldBy(r.u) = HeldBy(s.u) /\ Overrun(r.u) = Overrun(s.u)
    BY <1>1, <1>5 DEF Filled
  <2>3. Fewer(Piped(s.p), r.got \o Piped(r.p))
    BY <1>1, <1>4, <1>5 DEF Filled
  <2>4. r.got = <<>> \/ \E b \in Nat : r.got = <<b>>
    BY <1>4, <1>5
  <2> QED BY <1>7, <1>9, <2>1, <2>2, <2>3, <2>4 DEF Received, t
<1> QED BY <1>10 DEF r

LEMMA PipeReceives ==
  ASSUME NEW s, Pair(s) PROVE Received(s, pipe_recv(s))
<1>1. s.p.kind \in {"loopback", "tcp", "tty", "file", "midi", "digitelec"}
  BY SerialAssumption DEF Pair, PipeOK, Transport
<1>2. CASE s.p.kind \in {"loopback", "file", "midi"}
  BY <1>2, LoopReceives DEF pipe_recv
<1>3. CASE s.p.kind \in {"tcp", "tty"}
  BY <1>3, TcpReceives DEF pipe_recv
<1>4. CASE s.p.kind = "digitelec"
  BY <1>4, DigitelecReceives DEF pipe_recv
<1> QED BY <1>1, <1>2, <1>3, <1>4

\* What was read goes into the card: v is the card with it.
LEMMA StorePasses ==
  ASSUME NEW s, Pair(s), NEW r, Received(s, r), NEW v, Good(v), v.card = r.u.card,
         s.u.card = "6551" => SamePins(r.u, v),
         Fewer(HeldBy(r.u) \o r.got, HeldBy(v)),
         Lossless(s) => HeldBy(v) = HeldBy(r.u) \o r.got /\ (Overrun(v) => Overrun(r.u))
  PROVE  Passes(s, [u |-> v, p |-> r.p])
<1> DEFINE x == [u |-> r.u, p |-> r.p]
           t == [u |-> v, p |-> r.p]
<1>1. x.u = r.u /\ x.p = r.p /\ t.u = v /\ t.p = r.p /\ t = [u |-> t.u, p |-> t.p]
  OBVIOUS
<1>2. Pair(x) /\ SameWay(s, x)
  BY DEF Received
<1> HIDE DEF x, t
<1>3. SameWay(s, t)
  BY <1>1, <1>2 DEF SameWay, SamePins
<1>4. Pair(t)
  BY <1>1, <1>2, <1>3 DEF Pair, SameWay, SamePins, FlowOK
<1>5. /\ HeldBy(s.u) \in Seq(Nat) /\ Piped(s.p) \in Seq(Nat) /\ HeldBy(v) \in Seq(Nat)
      /\ Piped(r.p) \in Seq(Nat)
  BY <1>1, <1>4, HeldIn
<1>6. r.got \in Seq(Nat)
  BY EmptySeq, One DEF Received
<1>7. r.got \o Piped(r.p) \in Seq(Nat) /\ HeldBy(s.u) \o r.got \in Seq(Nat)
  BY <1>5, <1>6, Cat
<1>8. HeldBy(s.u) \o (r.got \o Piped(r.p)) = (HeldBy(s.u) \o r.got) \o Piped(r.p)
  BY <1>5, <1>6, Assoc, Zenon
<1>9. Fewer(Held(s), Held(t))
  <2>1. Fewer(HeldBy(s.u) \o Piped(s.p), HeldBy(s.u) \o (r.got \o Piped(r.p)))
    BY <1>5, <1>7, FewerSame, FewerCat DEF Received
  <2>2. HeldBy(r.u) = HeldBy(s.u)
    BY DEF Received
  <2>3. Fewer((HeldBy(s.u) \o r.got) \o Piped(r.p), HeldBy(v) \o Piped(r.p))
    BY <1>5, <1>7, <2>2, FewerSame, FewerCat
  <2> QED BY <1>1, <1>8, <2>1, <2>3, FewerTrans DEF Held
<1>10. Lossless(s) => Held(t) = Held(s) /\ (Overrun(t.u) => Overrun(s.u))
  BY <1>1, <1>8 DEF Received, Held
<1> QED BY <1>3, <1>4, <1>9, <1>10 DEF Passes, t

-----------------------------------------------------------------------------
(* The tick of a card *)

LEMMA SixtyFive ==
  ASSUME NEW s, Pair(s), s.u.card = "6551", NEW v, Chip(v), SamePins(s.u, v), SameData(s.u, v)
  PROVE  Passes(s, [u |-> v, p |-> s.p])
<1>1. Chip(s.u)
  BY DEF Pair, Good
<1>2. Good(v) /\ v.card = "6551" /\ HeldBy(v) = Unread(v) /\ HeldBy(s.u) = Unread(s.u)
  BY <1>1, ChipCard
<1> QED BY <1>2, CardStep, SameUnread DEF SameData, Overrun

LEMMA AciaSendsPasses ==
  ASSUME NEW s, Pair(s), s.u.card = "6551", NEW ok \in BOOLEAN
  PROVE  LET t == AciaSends(s, ok)
         IN  Passes(s, t) /\ (s.p.kind = "midi" => t.p = s.p)
<1> DEFINE t == IF s.u.cts THEN pipe_send(s, s.u.tdr, ok) ELSE s
           v == TxDone(t.u)
<1>1. s.u.tdr \in Nat
  BY DEF Pair, Good, Chip, Acia
<1>2. Passes(s, t) /\ (s.p.kind = "midi" => t = s)
  BY <1>1, SendPasses, PassesSame DEF pipe_send
<1>3. AciaSends(s, ok) = [t EXCEPT !.u = v]
  BY DEF AciaSends
<1> HIDE DEF t
<1>4. Pair(t) /\ t.u.card = "6551" /\ Chip(t.u) /\ t = [u |-> t.u, p |-> t.p]
  BY <1>2 DEF Passes, SameWay, Pair, Good
<1>5. Chip(v) /\ SamePins(t.u, v) /\ SameData(t.u, v)
  BY <1>4, TickChip
<1> HIDE DEF v
<1>6. AciaSends(s, ok) = [u |-> v, p |-> t.p]
  BY <1>3, <1>4
<1>7. Passes(t, [u |-> v, p |-> t.p])
  BY <1>4, <1>5, SixtyFive
<1>8. Passes(s, AciaSends(s, ok))
  BY <1>2, <1>6, <1>7, PassesTrans
<1> QED BY <1>2, <1>6, <1>8

LEMMA AciaReceivesPasses ==
  ASSUME NEW s, Pair(s), s.u.card = "6551", NEW ok \in BOOLEAN, NEW n,
         s.p.kind = "midi" => n \in 0 .. Len(s.p.src)
  PROVE  Passes(s, AciaReceives(s, n, ok))
<1> DEFINE t == pipe_poll(s, n, ok)
           ready == Ready(t.p) /\ (t.u.cfg.backp => acia_rx_has_space(t.u))
           r == pipe_recv(t)
           v == IF r.got = <<>> THEN r.u ELSE RxStore(r.u, r.got[1])
<1>1. Passes(s, t)
  BY PollPasses
<1>2. AciaReceives(s, n, ok) = IF ~(t.u.dcd /\ ready) THEN t ELSE [u |-> v, p |-> r.p]
  BY DEF AciaReceives
<1>3. CASE ~(t.u.dcd /\ ready)
  BY <1>1, <1>2, <1>3
<1>4. CASE t.u.dcd /\ ready
  <2> HIDE DEF t
  <2>1. Pair(t) /\ t.u.card = "6551" /\ Chip(t.u)
    BY <1>1 DEF Passes, SameWay, Pair, Good
  <2>2. Received(t, r)
    BY <2>1, PipeReceives
  <2> HIDE DEF r
  <2>3. Chip(r.u) /\ r.u.card = "6551" /\ HeldBy(r.u) = Unread(r.u) /\ Unread(r.u) \in Seq(Nat)
    <3> DEFINE x == [u |-> r.u, p |-> r.p]
    <3>0. x.u = r.u /\ x.p = r.p
      OBVIOUS
    <3> HIDE DEF x
    <3>1. Pair(x) /\ SameWay(t, x)
      BY <2>2 DEF Received, x
    <3>2. r.u.card = "6551" /\ HeldBy(r.u) \in Seq(Nat) /\ Good(r.u)
      BY <2>1, <3>0, <3>1, HeldIn DEF SameWay, Pair
    <3> QED BY <3>2 DEF Good, HeldBy
  <2>4. Lossless(t) => acia_rx_has_space(r.u)
    BY <1>4, <2>1, <2>2 DEF Lossless, Received
  <2>5. /\ Good(v) /\ v.card = "6551" /\ SamePins(r.u, v) /\ Fewer(HeldBy(r.u) \o r.got, HeldBy(v))
        /\ Lossless(t) => HeldBy(v) = HeldBy(r.u) \o r.got /\ (Overrun(v) => Overrun(r.u))
    <3>1. CASE r.got = <<>>
      <4>1. HeldBy(r.u) \o r.got = HeldBy(r.u)
        BY <2>3, <3>1, ConcatEmptySeq
      <4> QED BY <2>3, <3>1, <4>1, FewerSame, ChipCard DEF SamePins
    <3>2. CASE r.got # <<>>
      <4>1. PICK b \in Nat : r.got = <<b>>
        BY <2>2, <3>2 DEF Received
      <4>2. v = RxStore(r.u, b)
        BY <3>2, <4>1
      <4> HIDE DEF v
      <4>3. /\ Chip(v) /\ SamePins(r.u, v) /\ Fewer(Unread(r.u) \o <<b>>, Unread(v))
            /\ acia_rx_has_space(r.u) => /\ Unread(v) = Unread(r.u) \o <<b>>
                                         /\ "OVRN" \in v.st => "OVRN" \in r.u.st
        BY <2>3, <4>2, StoreChip
      <4>4. Good(v) /\ v.card = "6551" /\ HeldBy(v) = Unread(v)
        BY <4>3, ChipCard
      <4> QED BY <2>3, <2>4, <4>1, <4>3, <4>4 DEF Overrun
    <3> QED BY <3>1, <3>2
  <2> HIDE DEF v
  <2>6. Passes(t, [u |-> v, p |-> r.p])
    BY <2>1, <2>2, <2>3, <2>5, StorePasses
  <2> QED BY <1>1, <1>2, <1>4, <2>6, PassesTrans
<1> QED BY <1>3, <1>4

LEMMA AciaTickPasses ==
  ASSUME NEW s, Pair(s), s.u.card = "6551", NEW ok \in BOOLEAN, NEW due, NEW n,
         s.p.kind = "midi" => n \in 0 .. Len(s.p.src)
  PROVE  Passes(s, acia_tick(s, due, n, ok))
<1> DEFINE x == IrqArrives(s.u)
           t == IF "irq" \in due THEN [s EXCEPT !.u = x] ELSE s
           v == IF "tx" \in due /\ t.u.txp THEN AciaSends(t, ok) ELSE t
<1>1. acia_tick(s, due, n, ok)
        = IF ~t.u.dtr THEN t ELSE IF "rx" \in due THEN AciaReceives(v, n, ok) ELSE v
  BY DEF acia_tick
<1>2. Chip(s.u) /\ s = [u |-> s.u, p |-> s.p]
  BY DEF Pair, Good
<1>3. Passes(s, t) /\ t.p = s.p
  <2>1. Chip(x) /\ SamePins(s.u, x) /\ SameData(s.u, x)
    BY <1>2, TickChip
  <2> HIDE DEF x
  <2>2. Passes(s, [u |-> x, p |-> s.p])
    BY <2>1, SixtyFive
  <2>3. [s EXCEPT !.u = x] = [u |-> x, p |-> s.p]
    BY <1>2
  <2> QED BY <2>2, <2>3, PassesSame
<1> HIDE DEF x, t
<1>4. Pair(t) /\ t.u.card = "6551" /\ t.p.kind = s.p.kind
  BY <1>3 DEF Passes, SameWay
<1>5. Passes(t, v) /\ (t.p.kind = "midi" => v.p = t.p)
  BY <1>4, AciaSendsPasses, PassesSame
<1> HIDE DEF v
<1>6. Pair(v) /\ v.u.card = "6551" /\ v.p.kind = s.p.kind
  BY <1>4, <1>5 DEF Passes, SameWay
<1>7. v.p.kind = "midi" => n \in 0 .. Len(v.p.src)
  BY <1>3, <1>4, <1>5, <1>6
<1>8. Passes(v, AciaReceives(v, n, ok))
  BY <1>6, <1>7, AciaReceivesPasses
<1>9. Passes(s, v) /\ Passes(s, AciaReceives(v, n, ok))
  BY <1>3, <1>5, <1>8, PassesTrans
<1> QED BY <1>1, <1>3, <1>9

LEMMA CardTickPasses ==
  ASSUME NEW s, Pair(s), s.u.card # "6551", NEW ok \in BOOLEAN, NEW due, NEW n,
         s.p.kind = "midi" => n \in 0 .. Len(s.p.src)
  PROVE  Passes(s, card6850_tick(s, due, n, ok))
<1> DEFINE t == pipe_poll(s, n, ok)
           r == pipe_recv(t)
           c == IF r.got = <<>> THEN r.u ELSE acia6850_rx_byte(r.u, r.got[1])
           v == IF ~("rx" \in due /\ Listens(s.u)) THEN s
                ELSE IF ~Ready(t.p) THEN t ELSE [u |-> c, p |-> r.p]
           z == acia6850_tx_complete(v.u)
<1>1. card6850_tick(s, due, n, ok) = IF "tx" \in due /\ v.u.busy THEN [v EXCEPT !.u = z] ELSE v
  BY DEF card6850_tick
<1>2. s = [u |-> s.u, p |-> s.p] /\ s.p.kind # "digitelec" /\ Board(s.u)
  BY DEF Pair, FlowOK, Good
<1>3. Passes(s, t)
  BY PollPasses
<1>4. t.u = s.u
  <2>1. ASSUME NEW q PROVE [s EXCEPT !.p = q].u = s.u
    BY <1>2
  <2> QED BY <1>2, <2>1 DEF pipe_poll
<1> HIDE DEF t
<1>5. Pair(t) /\ t.u.card # "6551" /\ t.p.kind # "digitelec"
  BY <1>2, <1>3 DEF Passes, SameWay
<1>6. Received(t, r) /\ r.u = s.u
  BY <1>4, <1>5, PipeReceives DEF Received
<1> HIDE DEF r
<1>7. ASSUME Listens(s.u) PROVE Passes(t, [u |-> c, p |-> r.p])
  <2>1. Holds(s.u) = <<>> /\ HeldBy(r.u) = <<>>
    BY <1>6, <1>7 DEF Listens, Holds, HeldBy
  <2>2. /\ Good(c) /\ c.card = r.u.card /\ HeldBy(c) = r.got /\ ~Overrun(c)
    <3>1. CASE r.got = <<>>
      BY <1>2, <1>6, <2>1, <3>1 DEF Good, Board, Overrun
    <3>2. CASE r.got # <<>>
      <4>1. PICK b \in Nat : r.got = <<b>>
        BY <1>6, <3>2 DEF Received
      <4>2. c = acia6850_rx_byte(s.u, b)
        BY <1>6, <3>2, <4>1
      <4> HIDE DEF c
      <4>3. Board(c) /\ c.card = s.u.card /\ Holds(c) = <<b>>
        BY <1>2, <4>2, BoardTick
      <4> QED BY <1>6, <4>1, <4>3 DEF Good, HeldBy, Board, Overrun
    <3> QED BY <3>1, <3>2
  <2>3. HeldBy(r.u) \o r.got = r.got
    <3>1. r.got \in Seq(Nat)
      BY <1>6, EmptySeq, One DEF Received
    <3> QED BY <2>1, <3>1, ConcatEmptySeq
  <2> HIDE DEF c
  <2> QED BY <1>5, <1>6, <2>2, <2>3, FewerSame, StorePasses
<1>8. Passes(s, v)
  BY <1>3, <1>7, PassesSame, PassesTrans
<1> HIDE DEF v
<1>9. Pair(v) /\ v = [u |-> v.u, p |-> v.p] /\ Board(v.u) /\ v.u.card # "6551"
  BY <1>8 DEF Passes, SameWay, Pair, Good
<1>10. Board(z) /\ SameHeld(v.u, z)
  BY <1>9, BoardTick
<1> HIDE DEF z
<1>11. Good(z) /\ z.card = v.u.card /\ HeldBy(z) = HeldBy(v.u) /\ ~Overrun(z)
  BY <1>9, <1>10 DEF SameHeld, Good, HeldBy, Board, Overrun
<1>12. Passes(v, [u |-> z, p |-> v.p])
  BY <1>9, <1>11, CardStep
<1>13. [v EXCEPT !.u = z] = [u |-> z, p |-> v.p]
  BY <1>9
<1> QED BY <1>1, <1>8, <1>12, <1>13, PassesTrans

-----------------------------------------------------------------------------
(* The port *)

Now == [u |-> uart, p |-> pipe]
Far == [sent: Nat, got: Seq(Nat), lossy: BOOLEAN]
Whole(s, n) == Len(s) = n /\ \A i \in 1 .. n : s[i] = i
All == far.got \o Held(Now)

PortInv ==
  /\ Pair(Now) /\ far \in Far
  /\ pipe.kind # "loopback" => Ordered(All, far.sent)
  /\ Lossless(Now) /\ ~far.lossy => Whole(All, far.sent) /\ ~Overrun(uart)

LEMMA PortExact == ASSUME PortInv PROVE SerialIsExact
<1>1. /\ Pair(Now) /\ far.got \in Seq(Nat) /\ far.sent \in Nat /\ Now.u = uart /\ Now.p = pipe
  BY DEF PortInv, Far, Now
<1>2. Held(Now) \in Seq(Nat) /\ Held(Now) = Waiting
  BY <1>1, HeldIn DEF HeldBy, Waiting, Is6551
<1>3. All \in Seq(Nat) /\ All = far.got \o Waiting
  BY <1>1, <1>2, Cat DEF All
<1>4. ReadInOrder
  BY <1>3 DEF PortInv, Ordered, Increasing, ReadInOrder
<1>5. NothingIsLost
  <2>1. ASSUME pipe.kind \in {"tcp", "tty", "file"}, ~far.lossy, Is6551 => uart.cfg.backp
        PROVE  far.got \o Waiting = [i \in 1 .. far.sent |-> i] /\ "OVRN" \notin uart.st
    <3>1. Lossless(Now)
      BY <1>1, <2>1 DEF Lossless, Is6551
    <3>2. Whole(All, far.sent) /\ ~Overrun(uart)
      BY <2>1, <3>1 DEF PortInv
    <3>3. All \in [1 .. far.sent -> Nat]
      BY <1>3, <3>2, LenProperties DEF Whole
    <3>4. All = [i \in 1 .. far.sent |-> i]
      BY <3>2, <3>3 DEF Whole
    <3> QED BY <1>3, <3>2, <3>4 DEF Overrun
  <2> QED BY <2>1 DEF NothingIsLost
<1>6. IrqMatchesStatus
  <2>1. CASE Is6551
    <3>1. IrqOK(uart)
      BY <1>1, <2>1 DEF Pair, Good, Chip, Is6551
    <3> QED BY <2>1, <3>1 DEF IrqOK, IrqMatchesStatus
  <2>2. CASE ~Is6551
    BY <1>1, <2>2 DEF Pair, Good, Board, Is6551, IrqMatchesStatus
  <2> QED BY <2>1, <2>2
<1>7. FlowControl
  BY <1>1 DEF Pair, FlowOK, FlowControl
<1> QED BY <1>4, <1>5, <1>6, <1>7 DEF SerialIsExact

\* A step of card and transport in which the program reads nothing.
LEMMA StepKeeps ==
  ASSUME PortInv, NEW t, Pair(t), SameWay(Now, t), uart' = t.u, pipe' = t.p, far' \in Far,
         far'.got = far.got,
         pipe.kind # "loopback" => far'.sent = far.sent /\ Fewer(Held(Now), Held(t)),
         Lossless(Now) /\ ~far'.lossy =>
            /\ ~far.lossy /\ Held(t) = Held(Now) /\ (Overrun(t.u) => Overrun(uart))
  PROVE  PortInv'
<1>1. /\ Pair(Now) /\ far.got \in Seq(Nat) /\ far.sent \in Nat /\ Now.u = uart /\ Now.p = pipe
  BY DEF PortInv, Far, Now
<1>2. Now' = t
  BY <1>1 DEF Now, Pair
<1>3. Held(Now) \in Seq(Nat) /\ Held(t) \in Seq(Nat)
  BY <1>1, HeldIn
<1>4. All' = far.got \o Held(t) /\ far.got \o Held(t) \in Seq(Nat) /\ All \in Seq(Nat)
  BY <1>1, <1>2, <1>3, Cat DEF All
<1>5. pipe.kind # "loopback" => Ordered(All', far'.sent)
  <2>1. ASSUME pipe.kind # "loopback" PROVE Ordered(All', far'.sent)
    <3>1. (far.got \o Held(Now)) \o <<>> = All /\ (far.got \o Held(t)) \o <<>> = All' /\ <<>> \in Seq(Nat)
      BY <1>4, ConcatEmptySeq, EmptySeq DEF All
    <3>2. Fewer(Held(Now), Held(t)) /\ Ordered(All, far.sent)
      BY <1>1, <2>1 DEF PortInv
    <3> QED BY <1>1, <2>1, <3>1, <3>2 DEF Fewer
  <2> QED BY <2>1
<1>6. Lossless(Now') /\ ~far'.lossy => Whole(All', far'.sent) /\ ~Overrun(uart')
  <2>1. ASSUME Lossless(t), ~far'.lossy PROVE Whole(All', far'.sent) /\ ~Overrun(uart')
    <3>1. Lossless(Now) /\ pipe.kind # "loopback"
      BY <1>1, <2>1 DEF Lossless, SameWay
    <3>2. Held(t) = Held(Now) /\ ~Overrun(uart) /\ Whole(All, far.sent)
          /\ (Overrun(uart') => Overrun(uart))
      BY <1>1, <2>1, <3>1 DEF PortInv
    <3> QED BY <1>4, <3>1, <3>2 DEF All
  <2> QED BY <1>2, <2>1
<1>7. pipe'.kind = pipe.kind
  BY <1>1 DEF SameWay
<1> QED BY <1>1, <1>2, <1>5, <1>6, <1>7 DEF PortInv

\* The program reads the oldest byte that the card holds.
LEMMA ReadKeeps ==
  ASSUME PortInv, pipe.kind # "loopback", NEW t, Pair(t), SameWay(Now, t), uart' = t.u,
         pipe' = t.p, NEW b \in Nat, Held(Now) = <<b>> \o Held(t), ~Overrun(t.u),
         far' = [far EXCEPT !.got = Append(@, b)]
  PROVE  PortInv'
<1>1. /\ Pair(Now) /\ far \in Far /\ far.got \in Seq(Nat) /\ far.sent \in Nat
      /\ Now.u = uart /\ Now.p = pipe
  BY DEF PortInv, Far, Now
<1>2. Now' = t
  BY <1>1 DEF Now, Pair
<1>3. Held(t) \in Seq(Nat) /\ <<b>> \in Seq(Nat)
  BY HeldIn, One
<1>4. Append(far.got, b) \in Seq(Nat) /\ Append(far.got, b) = far.got \o <<b>>
  BY <1>1, AppendProperties, AppendIsConcat
<1>5. far' \in Far /\ far'.got = far.got \o <<b>> /\ far'.sent = far.sent /\ far'.lossy = far.lossy
  BY <1>1, <1>4 DEF Far
<1>6. All' = All
  <2>1. (far.got \o <<b>>) \o Held(t) = far.got \o (<<b>> \o Held(t))
    BY <1>1, <1>3, Assoc, Zenon
  <2> QED BY <1>2, <1>5, <2>1 DEF All
<1>7. pipe'.kind = pipe.kind /\ (Lossless(t) => Lossless(Now))
  BY <1>1 DEF SameWay, Lossless
<1> QED BY <1>1, <1>2, <1>5, <1>6, <1>7 DEF PortInv

LEMMA PassKeeps ==
  ASSUME PortInv, NEW t, Passes(Now, t), uart' = t.u, pipe' = t.p, far' \in Far,
         far'.got = far.got, pipe.kind # "loopback" => far'.sent = far.sent,
         far.lossy => far'.lossy
  PROVE  PortInv'
<1>1. Now.u = uart /\ Now.p = pipe
  BY DEF Now
<1> QED BY <1>1, StepKeeps DEF Passes

\* The card alone changes, its pins do not.
LEMMA PairStep ==
  ASSUME NEW s, Pair(s), NEW v, Good(v), v.card = s.u.card,
         s.u.card = "6551" => SamePins(s.u, v)
  PROVE  Pair([u |-> v, p |-> s.p]) /\ SameWay(s, [u |-> v, p |-> s.p])
<1> DEFINE t == [u |-> v, p |-> s.p]
<1>1. t.u = v /\ t.p = s.p /\ t = [u |-> t.u, p |-> t.p]
  OBVIOUS
<1> HIDE DEF t
<1>2. SameWay(s, t)
  BY <1>1 DEF SameWay, SamePins
<1>3. Pair(t)
  BY <1>1, <1>2 DEF Pair, SameWay, SamePins, FlowOK
<1> QED BY <1>2, <1>3 DEF t

LEMMA PortInit == Init => PortInv
<1> SUFFICES ASSUME Init PROVE PortInv
  OBVIOUS
<1>1. PICK c \in Cards, k \in Pipes :
        /\ k = "digitelec" => c = "6551"
        /\ pipe = pipe_open(k)
        /\ IF c # "6551" THEN uart = card_reset(c)
           ELSE \E cfg \in Config(Queues) :
                    /\ cfg.backp => k = "tcp"
                    /\ uart = acia_set_dcd(acia_init(cfg), k # "digitelec")
        /\ far = [sent |-> 0, got |-> <<>>, lossy |-> FALSE]
  BY DEF Init
<1>2. far \in Far /\ far.got = <<>> /\ far.sent = 0 /\ Now.u = uart /\ Now.p = pipe
      /\ Now = [u |-> Now.u, p |-> Now.p]
  BY <1>1, EmptySeq DEF Far, Now
<1>3. /\ pipe \in Transport /\ pipe.kind = k /\ pipe.buf = <<>> /\ pipe.src = <<>>
      /\ pipe.up = (k # "digitelec") /\ pipe.cts = TRUE
  BY <1>1, EmptySeq DEF pipe_open, Transport
<1>4. PipeOK(pipe) /\ Piped(pipe) = <<>>
  <2>1. Len(<<>>) = 0 /\ <<>> \o <<>> = <<>>
    BY EmptySeq, ConcatEmptySeq
  <2> QED BY <1>3, <2>1, SerialAssumption DEF PipeOK, Piped
<1>5. /\ Good(uart) /\ HeldBy(uart) = <<>> /\ ~Overrun(uart)
      /\ uart.card = "6551" => /\ uart.dcd = (k # "digitelec") /\ uart.cts = TRUE
                               /\ uart.cfg.backp => k = "tcp"
      /\ k = "digitelec" => uart.card = "6551"
  <2>1. CASE c # "6551"
    <3> DEFINE x == [card |-> c, st |-> {"TDRE"}, rdr |-> 0, tdr |-> 0, rie |-> FALSE,
                     tie |-> FALSE, rts |-> FALSE, line |-> FALSE, busy |-> FALSE,
                     cra |-> FALSE, closed |-> FALSE]
    <3>1. c \in {"dtl", "mageco"}
      BY <2>1, SerialAssumption
    <3>2. Board(x) /\ x.card = c /\ Holds(x) = <<>>
      <4>1. /\ x \in Card /\ x.card = c /\ x.st = {"TDRE"} /\ x.line = FALSE
        BY <3>1 DEF Card, Status
      <4> HIDE DEF x
      <4>2. "IRQ" \notin x.st /\ "OVRN" \notin x.st /\ "RDRF" \notin x.st
        BY <4>1
      <4>3. x.line \in BOOLEAN
        BY <4>1
      <4> QED BY <4>1, <4>2, <4>3 DEF Board, Holds
    <3>3. uart = acia6850_set_signals(x, c = "mageco")
      BY <1>1, <2>1 DEF card_reset
    <3> HIDE DEF x
    <3>4. Board(uart) /\ SameHeld(x, uart)
      BY <3>2, <3>3, RefreshBoard
    <3> QED BY <1>1, <2>1, <3>2, <3>4 DEF SameHeld, Good, HeldBy, Board, Overrun
  <2>2. CASE c = "6551"
    <3>1. PICK cfg \in Config(Queues) :
             /\ cfg.backp => k = "tcp"
             /\ uart = acia_set_dcd(acia_init(cfg), k # "digitelec")
      BY <1>1, <2>2
    <3> DEFINE x == acia_init(cfg)
    <3>2. cfg \in Config(Nat)
      BY SerialAssumption DEF Config
    <3>3. /\ x \in Acia /\ x.st = {"TDRE"} /\ x.rxf = FALSE /\ x.fifo = <<>> /\ x.line = FALSE
          /\ x.transit = FALSE /\ x.txirq = FALSE /\ x.cfg = cfg /\ x.cts = TRUE
      BY <3>2, EmptySeq DEF acia_init, Acia, Status
    <3> HIDE DEF x
    <3>4. Chip(x) /\ Unread(x) = <<>> /\ ~Overrun(x)
      <4>1. Len(x.fifo) = 0 /\ x.cfg.fifo \in Nat
        BY <3>2, <3>3, EmptySeq DEF Config
      <4>2. "RDRF" \notin x.st /\ "IRQ" \notin x.st /\ "OVRN" \notin x.st
        BY <3>3
      <4>3. RxOK(x)
        BY <3>3, <4>1, <4>2 DEF RxOK, Acia
      <4>4. IrqOK(x)
        BY <3>3, <4>2 DEF IrqOK, IrqWanted
      <4> QED BY <3>3, <4>2, <4>3, <4>4 DEF Chip, Unread, Overrun
    <3>5. /\ Chip(uart) /\ SameData(x, uart) /\ uart.cfg = cfg /\ uart.cts = TRUE
          /\ uart.dcd = (k # "digitelec")
      BY <3>1, <3>3, <3>4, DcdChip DEF x
    <3> QED BY <1>1, <2>2, <3>1, <3>4, <3>5, ChipCard, SameUnread DEF SameData, Overrun
  <2> QED BY <2>1, <2>2
<1>6. Pair(Now)
  BY <1>2, <1>3, <1>4, <1>5 DEF Pair, FlowOK
<1>7. All = <<>>
  <2>1. <<>> \o <<>> = <<>>
    BY EmptySeq, ConcatEmptySeq
  <2> QED BY <1>2, <1>4, <1>5, <2>1 DEF All, Held
<1>8. Ordered(<<>>, 0) /\ Whole(<<>>, 0)
  BY EmptySeq DEF Ordered, Increasing, Whole
<1> QED BY <1>2, <1>5, <1>6, <1>7, <1>8 DEF PortInv

-----------------------------------------------------------------------------
(* The steps *)

LEMMA TickKeeps == ASSUME PortInv, Tick PROVE PortInv'
<1>1. /\ Pair(Now) /\ far \in Far /\ Now.u = uart /\ Now.p = pipe /\ Now = [u |-> uart, p |-> pipe]
  BY DEF PortInv, Now
<1>2. PICK due \in Dues, n \in Events, ok \in Answers :
         Become(IF Is6551 THEN acia_tick([u |-> uart, p |-> pipe], due, n, ok)
                ELSE card6850_tick([u |-> uart, p |-> pipe], due, n, ok))
  BY DEF Tick
<1>3. ok \in BOOLEAN /\ (pipe.kind = "midi" => n \in 0 .. Len(pipe.src))
  BY DEF Answers, Events
<1> DEFINE t == IF Is6551 THEN acia_tick(Now, due, n, ok) ELSE card6850_tick(Now, due, n, ok)
<1>4. uart' = t.u /\ pipe' = t.p
  BY <1>1, <1>2 DEF Become
<1>5. Passes(Now, t)
  BY <1>1, <1>3, AciaTickPasses, CardTickPasses DEF Is6551
<1>6. far' = far
  BY DEF Tick
<1> HIDE DEF t
<1> QED BY <1>1, <1>4, <1>5, <1>6, PassKeeps

\* What comes in at the source is the last of what is on its way.
LEMMA AtTheEnd ==
  ASSUME NEW f \in Seq(Nat), NEW s, Pair(s), NEW e \in Seq(Nat), NEW t,
         t.u = s.u, t.p.buf = s.p.buf, t.p.src = s.p.src \o e
  PROVE  f \o Held(t) = (f \o Held(s)) \o e
<1>1. /\ HeldBy(s.u) \in Seq(Nat) /\ Piped(s.p) \in Seq(Nat) /\ Held(s) \in Seq(Nat)
      /\ s.p.buf \in Seq(Nat) /\ s.p.src \in Seq(Nat)
  BY HeldIn
<1>2. (s.p.buf \o s.p.src) \o e = s.p.buf \o (s.p.src \o e)
  BY <1>1, Assoc, ZenonT(20)
<1>3. (HeldBy(s.u) \o Piped(s.p)) \o e = HeldBy(s.u) \o (Piped(s.p) \o e)
  BY <1>1, Assoc, ZenonT(20)
<1>4. (f \o Held(s)) \o e = f \o (Held(s) \o e)
  BY <1>1, Assoc, ZenonT(20)
<1>5. Piped(t.p) = Piped(s.p) \o e
  BY <1>2 DEF Piped
<1>6. Held(t) = Held(s) \o e
  BY <1>3, <1>5 DEF Held
<1> QED BY <1>4, <1>6

LEMMA FarSendsKeeps == ASSUME PortInv, FarSends PROVE PortInv'
<1> DEFINE q == [pipe EXCEPT !.src = Append(@, far.sent + 1)]
           t == [u |-> uart, p |-> q]
<1>1. /\ Pair(Now) /\ far \in Far /\ far.got \in Seq(Nat) /\ far.sent \in Nat
      /\ Now.u = uart /\ Now.p = pipe /\ pipe.kind # "loopback"
  BY DEF PortInv, Far, Now, FarSends
<1>2. pipe' = q /\ uart' = uart /\ far' = [far EXCEPT !.sent = @ + 1]
  BY DEF FarSends
<1>3. /\ pipe \in Transport /\ pipe.buf \in Seq(Nat) /\ pipe.src \in Seq(Nat)
      /\ HeldBy(uart) \in Seq(Nat) /\ Piped(pipe) \in Seq(Nat) /\ Held(Now) \in Seq(Nat)
  BY <1>1, HeldIn DEF Pair, PipeOK
<1>4. /\ Append(pipe.src, far.sent + 1) \in Seq(Nat)
      /\ Append(pipe.src, far.sent + 1) = pipe.src \o <<far.sent + 1>>
      /\ <<far.sent + 1>> \in Seq(Nat)
  <2>1. far.sent + 1 \in Nat
    BY <1>1
  <2> QED BY <1>3, <2>1, AppendProperties, AppendIsConcat, One
<1>5. /\ q \in Transport /\ q.src = pipe.src \o <<far.sent + 1>> /\ q.buf = pipe.buf
      /\ q.kind = pipe.kind /\ q.up = pipe.up /\ q.cts = pipe.cts
  BY <1>3, <1>4 DEF Transport
<1>6. far' \in Far /\ far'.got = far.got /\ far'.sent = far.sent + 1 /\ far'.lossy = far.lossy
  BY <1>1, <1>2 DEF Far
<1>7. t.u = uart /\ t.p = q /\ t = [u |-> t.u, p |-> t.p] /\ Now' = t
  BY <1>2 DEF Now
<1> HIDE DEF q, t
<1>8. Pair(t)
  BY <1>1, <1>5, <1>7 DEF Pair, PipeOK, FlowOK
<1>9. All' = All \o <<far.sent + 1>> /\ All \in Seq(Nat)
  <2>1. /\ t.u = Now.u /\ t.p.buf = Now.p.buf /\ t.p.src = Now.p.src \o <<far.sent + 1>>
    BY <1>1, <1>5, <1>7
  <2>2. ASSUME NEW f, NEW s, NEW e, f \in Seq(Nat), Pair(s), e \in Seq(Nat),
               t.u = s.u, t.p.buf = s.p.buf, t.p.src = s.p.src \o e
        PROVE  f \o Held(t) = (f \o Held(s)) \o e
    BY <2>2, AtTheEnd, ZenonT(20)
  <2>4. far.got \o Held(t) = (far.got \o Held(Now)) \o <<far.sent + 1>>
    BY <1>1, <1>4, <2>1, <2>2, ZenonT(20)
  <2>3. All \in Seq(Nat)
    BY <1>1, <1>3, Cat DEF All
  <2> QED BY <1>6, <1>7, <2>4, <2>3 DEF All
<1>10. Ordered(All', far'.sent)
  <2>1. Ordered(All, far.sent)
    BY <1>1 DEF PortInv
  <2> QED BY <1>1, <1>6, <1>9, <2>1, OrderedAppend
<1>11. Lossless(t) /\ ~far'.lossy => Whole(All', far'.sent) /\ ~Overrun(uart')
  <2>1. ASSUME Lossless(t), ~far'.lossy PROVE Whole(All', far'.sent) /\ ~Overrun(uart')
    <3>1. Whole(All, far.sent) /\ ~Overrun(uart)
      BY <1>1, <1>5, <1>6, <1>7, <2>1 DEF Lossless, PortInv
    <3>2. \A i \in 1 .. far.sent + 1 :
             (All \o <<far.sent + 1>>)[i] = IF i <= Len(All) THEN All[i] ELSE <<far.sent + 1>>[i - Len(All)]
      BY <1>1, <1>4, <1>9, <3>1, ConcatProperties DEF Whole
    <3>3. Len(All \o <<far.sent + 1>>) = far.sent + 1
      BY <1>1, <1>4, <1>9, <3>1, ConcatProperties DEF Whole
    <3>4. ASSUME NEW i \in 1 .. far.sent + 1 PROVE (All \o <<far.sent + 1>>)[i] = i
      <4>1. CASE i <= far.sent
        BY <1>1, <3>1, <3>2, <4>1 DEF Whole
      <4>2. CASE i = far.sent + 1
        <5>1. i - Len(All) = 1 /\ ~(i <= Len(All))
          BY <1>1, <3>1, <4>2 DEF Whole
        <5> QED BY <3>2, <4>2, <5>1
      <4>3. i <= far.sent \/ i = far.sent + 1
        BY <1>1
      <4> QED BY <4>1, <4>2, <4>3
    <3> QED BY <1>2, <1>6, <1>9, <3>1, <3>3, <3>4 DEF Whole
  <2> QED BY <2>1
<1> QED BY <1>6, <1>7, <1>8, <1>10, <1>11 DEF PortInv

LEMMA FarClosesKeeps == ASSUME PortInv, FarCloses PROVE PortInv'
<1> DEFINE q == [pipe EXCEPT !.eof = TRUE]
           t == [u |-> uart, p |-> q]
<1>1. /\ Pair(Now) /\ far \in Far /\ Now.u = uart /\ Now.p = pipe /\ pipe \in Transport
  BY DEF PortInv, Now, Pair, PipeOK
<1>2. pipe' = q /\ uart' = uart /\ far' = far
  BY DEF FarCloses
<1>3. /\ q \in Transport /\ q.src = pipe.src /\ q.buf = pipe.buf
      /\ q.kind = pipe.kind /\ q.up = pipe.up /\ q.cts = pipe.cts
  BY <1>1 DEF Transport
<1>4. t.u = uart /\ t.p = q
  OBVIOUS
<1> HIDE DEF q, t
<1>5. /\ SameWay(Now, t) /\ PipeOK(q) /\ Good(uart) /\ Piped(q) = Piped(pipe)
      /\ pipe.kind = "digitelec" => FlowOK(t)
  BY <1>1, <1>3, <1>4 DEF SameWay, PipeOK, Pair, FlowOK, Piped
<1>6. Passes(Now, [u |-> uart, p |-> q])
  BY <1>1, <1>5, FewerSame, Parts DEF t
<1> QED BY <1>1, <1>2, <1>4, <1>6, PassKeeps DEF t

LEMMA AliveIn == ASSUME PortInv PROVE Connected(pipe) \in BOOLEAN
BY DEF PortInv, Now, Pair, PipeOK, Transport, Connected

LEMMA ReadDataKeeps == ASSUME PortInv, NEW seen \in BOOLEAN, ReadData(seen) PROVE PortInv'
<1> DEFINE v == IF Is6551 THEN acia_read_data(uart)
                ELSE acia6850_read_data(uart, Connected(pipe))
           t == [u |-> v, p |-> Now.p]
<1>1. /\ Pair(Now) /\ far \in Far /\ Now.u = uart /\ Now.p = pipe
      /\ far.got \in Seq(Nat) /\ far.sent \in Nat
  BY DEF PortInv, Now, Far
<1>2. /\ uart' = v /\ pipe' = pipe
      /\ far' = IF ~seen THEN [far EXCEPT !.lossy = TRUE]
                ELSE IF pipe.kind = "loopback" THEN far
                ELSE [far EXCEPT !.got = Append(@, uart.rdr)]
  BY DEF ReadData
<1>3. /\ Good(v) /\ v.card = uart.card /\ (uart.card = "6551" => SamePins(uart, v))
      /\ HeldBy(uart) = <<uart.rdr>> \o HeldBy(v) /\ uart.rdr \in Nat
      /\ HeldBy(v) \in Seq(Nat) /\ ~Overrun(v)
  <2>1. CASE Is6551
    <3>1. Chip(uart) /\ "RDRF" \in uart.st /\ v = acia_read_data(uart) /\ uart.card = "6551"
      BY <1>1, <2>1 DEF Pair, Good, Is6551, ReadData
    <3> HIDE DEF v
    <3>2. /\ Chip(v) /\ SamePins(uart, v)
          /\ Unread(v) \in Seq(Nat) /\ Unread(uart) = <<uart.rdr>> \o Unread(v)
          /\ "OVRN" \notin v.st /\ uart.rdr \in Nat
      BY <3>1, ReadDataChip
    <3>3. v.card = "6551" /\ Good(v) /\ HeldBy(v) = Unread(v) /\ HeldBy(uart) = Unread(uart)
      BY <3>1, <3>2, ChipCard
    <3> QED BY <3>1, <3>2, <3>3 DEF Overrun
  <2>2. CASE ~Is6551
    <3>1. /\ Board(uart) /\ "RDRF" \in uart.st /\ v = acia6850_read_data(uart, Connected(pipe))
          /\ uart.card # "6551" /\ uart.rdr \in Nat
      BY <1>1, <2>2 DEF Pair, Good, Is6551, ReadData, Board, Card
    <3> HIDE DEF v
    <3>2. Board(v) /\ v.card = uart.card /\ Holds(v) = <<>>
      BY <3>1, AliveIn, BoardCalls
    <3>3. <<uart.rdr>> \o <<>> = <<uart.rdr>> /\ <<>> \in Seq(Nat)
      BY <3>1, One, Cat
    <3> QED BY <3>1, <3>2, <3>3 DEF Good, HeldBy, Holds, Board, Overrun
  <2> QED BY <2>1, <2>2
<1> HIDE DEF v
<1>4. t.u = v /\ t.p = pipe
  BY <1>1
<1>5. Pair(t) /\ SameWay(Now, t)
  BY <1>1, <1>3, PairStep
<1> HIDE DEF t
<1>6. Piped(pipe) \in Seq(Nat) /\ <<uart.rdr>> \in Seq(Nat)
  BY <1>1, <1>3, HeldIn, One
<1>7. Held(Now) = <<uart.rdr>> \o Held(t)
  <2>1. (<<uart.rdr>> \o HeldBy(v)) \o Piped(pipe) = <<uart.rdr>> \o (HeldBy(v) \o Piped(pipe))
    BY <1>3, <1>6, Assoc, Zenon
  <2> QED BY <1>1, <1>3, <1>4, <2>1 DEF Held
<1>8. CASE ~seen
  <2>1. far' \in Far /\ far'.got = far.got /\ far'.sent = far.sent /\ far'.lossy = TRUE
    BY <1>1, <1>2, <1>8 DEF Far
  <2>2. Fewer(Held(Now), Held(t))
    <3>1. Held(t) \in Seq(Nat) /\ <<>> \o Held(t) = Held(t)
      BY <1>5, HeldIn, Cat
    <3>2. Fewer(<<uart.rdr>> \o Held(t), <<>> \o Held(t))
      BY <1>6, <3>1, EmptySeq, FewerDrop, FewerSame, FewerCat
    <3> QED BY <1>7, <3>1, <3>2
  <2> QED BY <1>2, <1>4, <1>5, <2>1, <2>2, StepKeeps
<1>9. CASE seen /\ pipe.kind = "loopback"
  BY <1>1, <1>2, <1>4, <1>5, <1>9, StepKeeps DEF Lossless
<1>10. CASE seen /\ pipe.kind # "loopback"
  BY <1>2, <1>3, <1>4, <1>5, <1>7, <1>10, ReadKeeps
<1> QED BY <1>8, <1>9, <1>10

\* The card changes, and what it holds does not.
LEMMA CardKeeps ==
  ASSUME PortInv, NEW v, Good(v), v.card = uart.card, uart.card = "6551" => SamePins(uart, v),
         HeldBy(v) = HeldBy(uart), Overrun(v) => Overrun(uart),
         uart' = v, pipe' = pipe, far' \in Far, far'.got = far.got,
         pipe.kind # "loopback" => far'.sent = far.sent, far.lossy => far'.lossy
  PROVE  PortInv'
<1> DEFINE t == [u |-> v, p |-> Now.p]
<1>1. Pair(Now) /\ Now.u = uart /\ Now.p = pipe
  BY DEF PortInv, Now
<1>2. Passes(Now, t) /\ t.u = v /\ t.p = pipe
  BY <1>1, CardStep
<1> HIDE DEF t
<1> QED BY <1>2, PassKeeps

LEMMA Chip6551 ==
  ASSUME PortInv, Is6551, NEW v, Chip(v), SamePins(uart, v), SameData(uart, v)
  PROVE  /\ Good(v) /\ v.card = uart.card /\ HeldBy(v) = HeldBy(uart)
         /\ Overrun(v) => Overrun(uart)
<1>1. Chip(uart) /\ uart.card = "6551"
  BY DEF PortInv, Now, Pair, Good, Is6551
<1> QED BY <1>1, ChipCard, SameUnread DEF SameData, Overrun

LEMMA Board6850 ==
  ASSUME PortInv, ~Is6551, NEW v, Board(v), SameHeld(uart, v)
  PROVE  /\ Good(v) /\ v.card = uart.card /\ HeldBy(v) = HeldBy(uart) /\ ~Overrun(v)
<1>1. uart.card # "6551"
  BY DEF Is6551
<1> QED BY <1>1 DEF Good, HeldBy, SameHeld, Board, Overrun

LEMMA PortChip ==
  ASSUME PortInv
  PROVE  /\ far \in Far /\ (Is6551 => Chip(uart)) /\ (~Is6551 => Board(uart))
         /\ Is6551 = (uart.card = "6551") /\ far.sent \in Nat
BY DEF PortInv, Now, Pair, Good, Is6551, Far

LEMMA ReadStatusKeeps == ASSUME PortInv, ReadStatus PROVE PortInv'
<1>0. far' = far /\ pipe' = pipe /\ far \in Far
  BY PortChip DEF ReadStatus
<1>1. CASE Is6551
  <2>1. uart' = acia_read_status(uart)
    BY <1>1 DEF ReadStatus
  <2>2. LET b == acia_read_status(uart) IN Chip(b) /\ SamePins(uart, b) /\ SameData(uart, b)
    BY <1>1, PortChip, StatusChip
  <2> QED BY <1>0, <1>1, <2>1, <2>2, Chip6551, CardKeeps
<1>2. CASE ~Is6551
  <2>1. uart' = acia6850_read_status(uart, Connected(pipe))
    BY <1>2 DEF ReadStatus
  <2>2. Board(uart') /\ SameHeld(uart, uart')
    BY <1>2, <2>1, PortChip, AliveIn, BoardCalls
  <2> QED BY <1>0, <1>2, <2>2, PortChip, Board6850, CardKeeps
<1> QED BY <1>1, <1>2

LEMMA FreshIn == ASSUME PortInv PROVE Fresh \in Nat
BY PortChip DEF Fresh

LEMMA FarWrites ==
  ASSUME PortInv, far' = IF pipe.kind = "loopback" THEN [far EXCEPT !.sent = @ + 1] ELSE far
  PROVE  /\ far' \in Far /\ far'.got = far.got /\ (far.lossy => far'.lossy)
         /\ pipe.kind # "loopback" => far'.sent = far.sent
<1>1. far \in Far
  BY PortChip
<1> QED BY <1>1 DEF Far

LEMMA WriteDataKeeps == ASSUME PortInv, NEW ok \in BOOLEAN, WriteData(ok) PROVE PortInv'
<1>1. /\ far' \in Far /\ far'.got = far.got /\ (far.lossy => far'.lossy)
      /\ pipe.kind # "loopback" => far'.sent = far.sent
  BY FarWrites DEF WriteData
<1>2. CASE Is6551
  <2> DEFINE v == acia_write_data(uart, Fresh)
  <2>1. uart' = v /\ pipe' = pipe
    BY <1>2 DEF WriteData
  <2>2. Chip(v) /\ SamePins(uart, v) /\ SameData(uart, v)
    <3>1. Chip(uart) /\ Fresh \in Nat
      BY <1>2, PortChip, FreshIn
    <3> QED BY <3>1, WriteChip
  <2> HIDE DEF v
  <2> QED BY <1>1, <1>2, <2>1, <2>2, Chip6551, CardKeeps
<1>3. CASE ~Is6551
  <2> DEFINE v == acia6850_write_data(uart, Fresh)
             s == [u |-> v, p |-> Now.p]
             t == IF Emits(v) THEN pipe_send(s, v.tdr, ok) ELSE s
  <2>1. Pair(Now) /\ Now.u = uart /\ Now.p = pipe /\ Board(uart)
    BY <1>3, PortChip DEF PortInv, Now
  <2>2. uart' = t.u /\ pipe' = t.p
    BY <1>3, <2>1 DEF WriteData, Become
  <2>3. Board(v) /\ SameHeld(uart, v)
    BY <2>1, FreshIn, BoardCalls
  <2> HIDE DEF v
  <2>4. /\ Good(v) /\ v.card = uart.card /\ HeldBy(v) = HeldBy(uart) /\ ~Overrun(v)
        /\ uart.card # "6551" /\ v.tdr \in Nat
    BY <1>3, <2>3, Board6850 DEF Is6551, Board, Card
  <2>5. Passes(Now, s)
    BY <2>1, <2>4, CardStep
  <2> HIDE DEF s
  <2>6. Passes(s, pipe_send(s, v.tdr, ok))
    BY <2>4, <2>5, SendPasses DEF Passes
  <2>7. Passes(Now, t)
    BY <2>5, <2>6, PassesTrans
  <2> HIDE DEF t
  <2> QED BY <1>1, <2>2, <2>7, PassKeeps
<1> QED BY <1>2, <1>3

LEMMA WriteCommandKeeps == ASSUME PortInv, NEW c \in Commands, WriteCommand(c) PROVE PortInv'
<1>0. /\ far' = far /\ pipe' = pipe /\ far \in Far
      /\ c[1] \in BOOLEAN /\ c[2] \in BOOLEAN /\ c[3] \in BOOLEAN /\ c[4] \in BOOLEAN
  <2>1. \A i \in 1 .. 4 : c[i] \in BOOLEAN
    BY SerialAssumption
  <2>2. 1 \in 1 .. 4 /\ 2 \in 1 .. 4 /\ 3 \in 1 .. 4 /\ 4 \in 1 .. 4
    OBVIOUS
  <2> QED BY <2>1, <2>2, PortChip DEF WriteCommand
<1>1. CASE Is6551
  <2>1. uart' = acia_write_command(uart, c[1], c[2], c[3], c[4])
    BY <1>1 DEF WriteCommand
  <2>2. Chip(uart) /\ 0 \in Nat
    BY <1>1, PortChip
  <2>3. Chip(uart') /\ SamePins(uart, uart') /\ SameData(uart, uart')
    BY <1>0, <2>1, <2>2, WriteChip
  <2> QED BY <1>0, <1>1, <2>3, Chip6551, CardKeeps
<1>2. CASE ~Is6551
  <2>1. uart' = acia6850_control_write(uart, c[1], c[2], c[3], Connected(pipe))
    BY <1>2 DEF WriteCommand
  <2>2. Board(uart) /\ 0 \in Nat
    BY <1>2, PortChip
  <2>3. Board(uart') /\ SameHeld(uart, uart')
    BY <1>0, <2>1, <2>2, AliveIn, BoardCalls
  <2> QED BY <1>0, <1>2, <2>3, PortChip, Board6850, CardKeeps
<1> QED BY <1>1, <1>2

LEMMA WritePiaKeeps ==
  ASSUME PortInv, NEW cra \in BOOLEAN, NEW on \in BOOLEAN, WritePia(cra, on) PROVE PortInv'
<1>1. far' = far /\ pipe' = pipe /\ far \in Far /\ ~Is6551 /\ Board(uart) /\ 0 \in Nat
  BY PortChip DEF WritePia, Is6551
<1>2. uart' = IF cra THEN pia_write_cra(uart, on) ELSE pia_write_pra(uart, on, Connected(pipe))
  BY DEF WritePia
<1>3. Board(uart') /\ SameHeld(uart, uart')
  BY <1>1, <1>2, AliveIn, BoardCalls
<1> QED BY <1>1, <1>3, PortChip, Board6850, CardKeeps

LEMMA ResetKeeps ==
  ASSUME PortInv, NEW a \in BOOLEAN, NEW b \in BOOLEAN, Reset(a, b) PROVE PortInv'
<1> DEFINE v == IF Is6551 THEN acia_reset(uart) ELSE master_reset(uart, a, b, Connected(pipe))
           t == [u |-> v, p |-> Now.p]
<1>1. /\ Pair(Now) /\ far \in Far /\ Now.u = uart /\ Now.p = pipe
  BY DEF PortInv, Now
<1>2. uart' = v /\ pipe' = pipe /\ far' = [far EXCEPT !.lossy = TRUE]
  BY DEF Reset
<1>3. /\ Good(v) /\ v.card = uart.card /\ (uart.card = "6551" => SamePins(uart, v))
      /\ HeldBy(v) = <<>>
  <2>1. CASE Is6551
    <3>1. Chip(uart) /\ uart.card = "6551" /\ v = acia_reset(uart)
      BY <2>1, PortChip
    <3> HIDE DEF v
    <3>2. Chip(v) /\ SamePins(uart, v) /\ Unread(v) = <<>>
      BY <3>1, ResetChip
    <3> QED BY <3>1, <3>2, ChipCard
  <2>2. CASE ~Is6551
    <3>1. Board(uart) /\ uart.card # "6551" /\ v = master_reset(uart, a, b, Connected(pipe)) /\ 0 \in Nat
      BY <2>2, PortChip
    <3> HIDE DEF v
    <3>2. Board(v) /\ v.card = uart.card /\ Holds(v) = <<>>
      BY <3>1, AliveIn, BoardCalls
    <3> QED BY <3>1, <3>2 DEF Good, HeldBy
  <2> QED BY <2>1, <2>2
<1> HIDE DEF v
<1>4. t.u = v /\ t.p = pipe
  BY <1>1
<1>5. Pair(t) /\ SameWay(Now, t)
  BY <1>1, <1>3, PairStep
<1> HIDE DEF t
<1>6. far' \in Far /\ far'.got = far.got /\ far'.sent = far.sent /\ far'.lossy = TRUE
  BY <1>1, <1>2 DEF Far
<1>7. Fewer(Held(Now), Held(t))
  <2>1. HeldBy(uart) \in Seq(Nat) /\ Piped(pipe) \in Seq(Nat) /\ <<>> \in Seq(Nat)
    BY <1>1, HeldIn, EmptySeq
  <2>2. Fewer(HeldBy(uart) \o Piped(pipe), <<>> \o Piped(pipe))
    BY <2>1, FewerDrop, FewerSame, FewerCat
  <2> QED BY <1>1, <1>3, <1>4, <2>2 DEF Held
<1> QED BY <1>2, <1>4, <1>5, <1>6, <1>7, StepKeeps

\* acia6551.c, acia6850.c, dtl2000.c, mageco.c and serial_backend.c: the card and its
\* transport stay a pair, the interrupt line says what the status register
\* says, and what is on its way from the far end is in order and, where
\* nothing may be lost, complete, whatever the program and the far end do.
THEOREM PortInvariance == Spec => []PortInv
<1>1. Init => PortInv
  BY PortInit
<1>2. PortInv /\ [Next]_vars => PortInv'
  <2> SUFFICES ASSUME PortInv, [Next]_vars PROVE PortInv'
    OBVIOUS
  <2>1. CASE Tick
    BY <2>1, TickKeeps
  <2>2. CASE FarSends
    BY <2>2, FarSendsKeeps
  <2>3. CASE FarCloses
    BY <2>3, FarClosesKeeps
  <2>4. CASE ReadStatus
    BY <2>4, ReadStatusKeeps
  <2>5. ASSUME NEW a \in BOOLEAN, ReadData(a) PROVE PortInv'
    BY <2>5, ReadDataKeeps
  <2>6. ASSUME NEW a \in BOOLEAN, WriteData(a) PROVE PortInv'
    BY <2>6, WriteDataKeeps
  <2>7. ASSUME NEW a \in BOOLEAN, NEW b \in BOOLEAN, Reset(a, b) PROVE PortInv'
    BY <2>7, ResetKeeps
  <2>8. ASSUME NEW a \in BOOLEAN, NEW b \in BOOLEAN, WritePia(a, b) PROVE PortInv'
    BY <2>8, WritePiaKeeps
  <2>9. ASSUME NEW c \in Commands, WriteCommand(c) PROVE PortInv'
    BY <2>9, WriteCommandKeeps
  <2>10. CASE UNCHANGED vars
    <3>1. uart' = uart /\ pipe' = pipe /\ far' = far
      BY <2>10 DEF vars
    <3>2. Now' = Now /\ All' = All
      BY <3>1 DEF Now, All
    <3> QED BY <3>1, <3>2 DEF PortInv
  <2> QED BY <2>1, <2>2, <2>3, <2>4, <2>5, <2>6, <2>7, <2>8, <2>9, <2>10 DEF Next
<1> QED BY <1>1, <1>2, PTL DEF Spec

\* The program reads what the far end sent in the order it was sent, misses
\* none of it where the transport has back pressure or the card none to
\* lose, gets an interrupt exactly as the status register says, and the
\* modem's pins follow its connection and its ring: acia_tick,
\* acia_read and the poll and recv functions of serial_backend.c.
THEOREM SerialExact == Spec => []SerialIsExact
<1>1. PortInv => SerialIsExact
  BY PortExact
<1> QED BY <1>1, PortInvariance, PTL
=============================================================================
