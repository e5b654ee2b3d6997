------------------------------- MODULE Autotype -------------------------------
(***************************************************************************)
(* The automatic typist: --type-keys with its queue, --type-keys-when, the *)
(* fast-load's RUN and the auto-CLOAD (run_autotype_arm, run_autotype_step *)
(* and run_fastload_hooks in main.c, autotype.h), and the `keys` command   *)
(* (ctl_cmd_keys, feed_kbd_inject).  Both change the keyboard matrix once  *)
(* per frame; the ROM's scanner (external) reads it one column at a time,  *)
(* in no step with the frames, and puts a new key in a one-key buffer that *)
(* BASIC empties when it has the time.                                     *)
(*                                                                         *)
(* Times are frames from now.  A text is a sequence of tokens: characters, *)
(* "ret" for \n, "up" for the arrows, ESC and DEL, "L0" and "L9" for the    *)
(* modifier combinations, "p" for a pause.                                 *)
(***************************************************************************)
EXTENDS Integers, Sequences

CONSTANTS
    TypingScenes,  \* set of [queue, when, run, cload, keys, busy]
    Watchdog,      \* AUTOTYPE_WATCHDOG_CYCLES, in frames
    RunDelay,      \* AUTOTYPE_AUTORUN_DELAY_CYCLES, in frames
    RunTyping,     \* AUTOTYPE_AUTORUN_TYPING_CYCLES, in frames
    AnyText        \* are texts typed that the typist cannot keep apart?

VARIABLES
    scene,    \* the command line of this run
    typer,    \* type_keys_*: the entry that is being typed
    queue,    \* the entries that wait: [gap, text, hid]
    inject,   \* kbd_inject_*: the keys of the command
    auto,     \* fast-load phase 2, auto-CLOAD, --type-keys-when
    matrix,   \* positions that are pressed
    bitmap,   \* the LOCI keyboard bitmap
    rom,      \* the scanner: column, what this pass saw, the key it holds
    keybuf,   \* $02DF: {} or one key, and for how many frames it waits
    got,      \* the keys that the program has read
    plan      \* history: the texts that were armed, [text, user]

typeVars == <<scene, typer, queue, inject, auto, matrix, bitmap, rom, keybuf, got, plan>>

-----------------------------------------------------------------------------
(* The matrix.                                                             *)

ScanOrder == <<7, 4, 3>>            \* the columns that matter here, as the ROM reads them
LSHIFT_POS == <<4, 4>>
AUTOTYPE_MIN_PASS == 2

\* char_map and the sentinels of press_char.
KeyOf == [c \in {"9", "(", "0", ")", "ret", "up"} |->
            CASE c \in {"9", "("} -> <<3, 1>> [] c \in {"0", ")"} -> <<7, 2>>
              [] c = "ret" -> <<7, 5>> [] c = "up" -> <<4, 3>>]

oric_keyboard_char_needs_shift(c) == c \in {"(", ")"}

oric_keyboard_press_char(c) ==
    {KeyOf[c]} \cup (IF oric_keyboard_char_needs_shift(c) THEN {LSHIFT_POS} ELSE {})

\* \Lx: the key that goes down together with SHIFT, and what is meant.
Combo == [L0 |-> "0", L9 |-> "9"]
Meant == [L0 |-> ")", L9 |-> "("]

\* What the ROM's tables make of a position.
Decoded(pos, shift) ==
    CASE pos = <<3, 1>> -> IF shift THEN "(" ELSE "9"
      [] pos = <<7, 2>> -> IF shift THEN ")" ELSE "0"
      [] pos = <<7, 5>> -> "ret"
      [] pos = <<4, 3>> -> "up"

-----------------------------------------------------------------------------
(* What the typist can keep apart (AnyText takes the other texts too).     *)

ShiftedKey(c) == oric_keyboard_char_needs_shift(c) \/ c \in DOMAIN Combo
KeyPos(c) == KeyOf[IF c \in DOMAIN Combo THEN Combo[c] ELSE c]

\* Does the sweep read the key of this token after SHIFT?
ReadAfterShift(c) ==
    LET At(col) == CHOOSE i \in DOMAIN ScanOrder : ScanOrder[i] = col
    IN At(KeyPos(c)[1]) > At(LSHIFT_POS[1])

\* Two tokens that follow each other.  All keys go up between them if they are
\* alike or one is a pause, and SHIFT is alone before a shifted character.
\* Otherwise the second is pressed over the first: it is on the same key; or a
\* sweep under way has seen the SHIFT of the first; or, if it is an arrow or a
\* combination, BASIC has not read the first (busy frames) when it comes.
Apart(a, b, busy) ==
    \/ "p" \in {a, b}
    \/ /\ \/ a = b \/ {a, b} \subseteq DOMAIN Combo
          \/ oric_keyboard_char_needs_shift(b)
          \/ /\ KeyPos(a) # KeyPos(b)
             /\ ShiftedKey(a) /\ ReadAfterShift(b) => ShiftedKey(b)
       /\ b \in {"up"} \cup DOMAIN Combo => busy = 0

\* A combination presses its key together with SHIFT.
Typable(s) ==
    LET texts == {s.queue[i].text : i \in {j \in DOMAIN s.queue : ~s.queue[j].hid}} \cup {s.when} IN
    /\ \A t \in texts : \A i \in DOMAIN t :
        /\ t[i] \in DOMAIN Combo => ~ReadAfterShift(t[i])
        /\ i > 1 => Apart(t[i - 1], t[i], s.busy)
    /\ s.keys # <<>> => texts = {<<>>}       \* one of the two types at a time

-----------------------------------------------------------------------------

NoTyper == [on |-> FALSE, text |-> <<>>, idx |-> 1, at |-> 0, next |-> 0, hid |-> FALSE,
            passes |-> AUTOTYPE_MIN_PASS, last |-> "", debounce |-> 0, staged |-> FALSE,
            off |-> FALSE, pend |-> -1]

\* An entry becomes the active one.
Armed(t, e, at) ==
    [t EXCEPT !.on = TRUE, !.text = e.text, !.idx = 1, !.at = at, !.next = at,
              !.hid = e.hid, !.passes = 0, !.last = "", !.debounce = 0]

TypingInit ==
    /\ scene \in {s \in TypingScenes : AnyText \/ Typable(s)}
    /\ LET q == scene.queue IN
       /\ typer = IF q = <<>> THEN NoTyper
                  ELSE [Armed(NoTyper, q[1], q[1].gap) EXCEPT !.passes = AUTOTYPE_MIN_PASS]
       /\ queue = [rest |-> IF q = <<>> THEN q ELSE Tail(q),
                   until |-> IF Len(q) < 2 THEN 0 ELSE q[1].gap + q[2].gap]
       /\ plan = IF q = <<>> THEN <<>> ELSE <<[text |-> q[1].text, user |-> TRUE]>>
    /\ inject = [buf |-> scene.keys, pos |-> 1, pressed |-> FALSE, staged |-> FALSE,
                 next |-> 0, passes |-> AUTOTYPE_MIN_PASS, off |-> FALSE, pend |-> -1]
    /\ auto = [run |-> scene.run, cload |-> scene.cload, when |-> scene.when]
    /\ matrix = {} /\ bitmap = {}
    /\ rom = [col |-> 1, reads |-> 0, seen |-> {}, shift |-> FALSE, held |-> {},
              hid |-> {}, skipped |-> FALSE]
    /\ keybuf = [key |-> {}, age |-> 0]
    /\ got = <<>>

-----------------------------------------------------------------------------
(* autotype.h                                                              *)

\* Not before the schedule, and not before the scanner has made its passes;
\* the watchdog waives the passes.
autotype_should_fire(hid, next, passes) ==
    /\ next <= 0
    /\ hid \/ passes >= AUTOTYPE_MIN_PASS \/ next <= 0 - Watchdog

autotype_keybuf_wait(pend) == keybuf.key # {} /\ (pend < 0 \/ pend < Watchdog)

autotype_autorun_allowed(nextUser) == nextUser < 0 \/ nextUser >= RunDelay + RunTyping

-----------------------------------------------------------------------------
(* One step of the typist, on m = [t, mat, hid].                           *)

\* A transition: the matrix, then the frames before the next one.
Later(m, mat, frames) == [m EXCEPT !.mat = mat, !.t.next = frames]

Done(m) == [m EXCEPT !.mat = {}, !.hid = {}, !.t.on = FALSE]

\* The buffer still holds the last key: all keys up, one more frame.
Hold(m) == ~m.t.off /\ autotype_keybuf_wait(m.t.pend)
Held(m) == [Later(m, {}, 1) EXCEPT !.t.pend = IF @ < 0 THEN 0 ELSE @]
Free(m) == [m EXCEPT !.t.pend = -1, !.t.off = @ \/ keybuf.key # {}]

\* Two presses that look alike have a release between them.
Repeated(m) == [Later(m, {}, 1) EXCEPT !.t.last = ""]

Press(m, mat, c) == [Later(m, mat, 4) EXCEPT !.t.last = c, !.t.idx = @ + 1, !.t.staged = FALSE]

Regular(m, c) ==
    IF m.t.debounce > 0 THEN [Later(m, {}, 1) EXCEPT !.t.debounce = @ - 1]
    ELSE IF c = m.t.last THEN [Repeated(m) EXCEPT !.t.debounce = 1]
    ELSE IF Hold(m) THEN Held(m)
    ELSE IF oric_keyboard_char_needs_shift(c) /\ ~m.t.staged
    THEN [Later(Free(m), {LSHIFT_POS}, 1) EXCEPT !.t.staged = TRUE]
    ELSE Press(Free(m), oric_keyboard_press_char(c), c)

\* RETURN waits for the buffer; the arrows and the combinations do not.
autotype_step_native(m) ==
    IF m.t.idx > Len(m.t.text) THEN Done(m)
    ELSE LET c == m.t.text[m.t.idx] IN
         CASE c = "ret" -> IF m.t.last = c THEN Repeated(m)
                           ELSE IF Hold(m) THEN Held(m)
                           ELSE Press(Free(m), oric_keyboard_press_char(c), c)
           [] c = "up" -> IF m.t.last = c THEN Repeated(m)
                          ELSE Press(m, oric_keyboard_press_char(c), c)
           [] c \in DOMAIN Combo ->          \* one sentinel for all of them
                IF m.t.last = "combo" THEN Repeated(m)
                ELSE Press(m, oric_keyboard_press_char(Combo[c]) \cup {LSHIFT_POS}, "combo")
           [] c = "p" -> [Later(m, {}, 5) EXCEPT !.t.idx = @ + 1]
           [] OTHER -> Regular(m, c)

\* The bitmap has the key for two frames and is clear for two.
autotype_step_loci_hid(m) ==
    IF m.t.idx > Len(m.t.text) THEN Done(m)
    ELSE LET c == m.t.text[m.t.idx] IN
         IF m.t.debounce > 0
         THEN [m EXCEPT !.hid = {}, !.t.debounce = @ - 1, !.t.next = 1]
         ELSE IF c = "p" THEN [m EXCEPT !.hid = {}, !.t.idx = @ + 1, !.t.next = 5]
         ELSE IF c = m.t.last /\ c \notin {"ret", "up"} \cup DOMAIN Combo
         THEN [m EXCEPT !.hid = {}, !.t.debounce = 1, !.t.last = "", !.t.next = 1]
         ELSE [m EXCEPT !.hid = {IF c \in DOMAIN Combo THEN Meant[c] ELSE c}, !.t.last = c,
                        !.t.idx = @ + 1, !.t.debounce = 2, !.t.next = 2]

run_autotype_step(m) ==
    IF m.t.on /\ m.t.at <= 0 /\ autotype_should_fire(m.t.hid, m.t.next, m.t.passes)
    THEN LET f == [m EXCEPT !.t.passes = 0] IN
         IF f.t.hid THEN autotype_step_loci_hid(f) ELSE autotype_step_native(f)
    ELSE m

-----------------------------------------------------------------------------
(* What becomes active, on a = [t, q, auto, plan, mat, hid].               *)

User(text) == [text |-> text, user |-> TRUE]
RunText == <<"0", "ret">>       \* stands for RUN\n and CLOAD""\n

\* Fast-load, phase 2.  A user's entry that has not started goes back to the
\* queue; one that would start inside the window keeps the RUN away.
AutoRun(a) ==
    LET pristine == a.t.on /\ a.t.idx = 1
        nextUser == IF a.t.on THEN a.t.at ELSE IF a.q.rest # <<>> THEN a.q.until ELSE -1
        back == [gap |-> 0, text |-> a.t.text, hid |-> a.t.hid]
        q == IF ~pristine THEN a.q
             ELSE [rest |-> <<back>> \o (IF a.q.rest = <<>> THEN <<>>
                        ELSE <<[a.q.rest[1] EXCEPT !.gap = a.q.until - a.t.at]>> \o Tail(a.q.rest)),
                   until |-> a.t.at]
    IN IF a.auto.run # 0 THEN a
       ELSE IF ~autotype_autorun_allowed(nextUser) THEN [a EXCEPT !.auto.run = -1]
       ELSE [a EXCEPT !.auto.run = -1, !.q = q,
                      !.t = Armed(@, [text |-> RunText, hid |-> FALSE], RunDelay),
                      !.plan = (IF pristine THEN SubSeq(@, 1, Len(@) - 1) ELSE @)
                               \o <<[text |-> RunText, user |-> FALSE]>>]

\* Only when nothing was ever armed.
AutoCload(a) ==
    IF a.auto.cload # 0 \/ a.t.text # <<>> THEN a
    ELSE [a EXCEPT !.auto.cload = -1,
                   !.t = [@ EXCEPT !.on = TRUE, !.text = RunText, !.idx = 1, !.at = RunDelay,
                                   !.next = RunDelay, !.last = ""],
                   !.plan = Append(@, [text |-> RunText, user |-> FALSE])]

run_fastload_hooks(a) == AutoCload(AutoRun(a))

\* The entry whose time has come, once the one before it is done.
ArmNext(a) ==
    IF a.t.on \/ a.t.text = <<>> \/ a.q.rest = <<>> \/ a.q.until > 0 THEN a
    ELSE LET e == a.q.rest[1] r == Tail(a.q.rest) IN
         [a EXCEPT !.t = Armed(@, e, 0), !.mat = {}, !.hid = {},
                   !.q = [rest |-> r, until |-> IF r = <<>> THEN 0 ELSE r[1].gap],
                   !.plan = Append(@, User(e.text))]

\* --type-keys-when, when its condition holds (cond) and nobody types.
ArmWhen(a, cond) ==
    IF ~cond \/ a.auto.when = <<>> \/ a.t.on THEN a
    ELSE [a EXCEPT !.t = Armed(@, [text |-> a.auto.when, hid |-> FALSE], 0),
                   !.mat = {}, !.hid = {}, !.auto.when = <<>>,
                   !.plan = Append(@, User(a.auto.when))]

run_autotype_arm(a, cond) == ArmWhen(ArmNext(a), cond)

-----------------------------------------------------------------------------
(* The keys of the control command, on i = [inj, mat].                     *)

\* A batch that ended, then a key down for three frames and up for two.
feed_kbd_inject(i) ==
    LET k == i.inj IN
    IF k.pos > Len(k.buf)
    THEN IF k.buf = <<>> THEN i
         ELSE [inj |-> [k EXCEPT !.buf = <<>>, !.pos = 1, !.pressed = FALSE,
                                 !.staged = FALSE, !.next = 0], mat |-> {}]
    ELSE IF ~autotype_should_fire(FALSE, k.next, k.passes) THEN i
    ELSE LET f == [k EXCEPT !.passes = 0] c == k.buf[k.pos] IN
         IF k.pressed
         THEN [inj |-> [f EXCEPT !.pressed = FALSE, !.pos = @ + 1, !.next = 2], mat |-> {}]
         ELSE IF ~k.off /\ autotype_keybuf_wait(k.pend)
         THEN [inj |-> [f EXCEPT !.pend = IF @ < 0 THEN 0 ELSE @, !.staged = FALSE, !.next = 1],
               mat |-> {}]
         ELSE LET g == [f EXCEPT !.pend = -1, !.off = @ \/ keybuf.key # {}] IN
              IF oric_keyboard_char_needs_shift(c) /\ ~k.staged
              THEN [inj |-> [g EXCEPT !.staged = TRUE, !.next = 1], mat |-> {LSHIFT_POS}]
              ELSE [inj |-> [g EXCEPT !.staged = FALSE, !.pressed = TRUE, !.next = 3],
                    mat |-> oric_keyboard_press_char(c)]

-----------------------------------------------------------------------------
(* The machine.                                                            *)

\* A frame less; past the schedule the watchdog counts on.
Tick(n, floor) == IF n > floor THEN n - 1 ELSE n
TickUp(n) == IF n < 0 \/ n >= Watchdog THEN n ELSE n + 1

Aged(t) == [t EXCEPT !.at = Tick(@, 0), !.next = Tick(@, 0 - Watchdog), !.pend = TickUp(@)]

\* The hooks at the end of a frame, in their order.  The scanner reads at
\* least a column per frame and BASIC is never busy for as long as the
\* watchdog; the LOCI program looks at its bitmap at least every other frame.
FrameEnd ==
    /\ rom.reads > 0
    /\ keybuf.key # {} => keybuf.age < scene.busy
    /\ \E cond \in BOOLEAN, poll \in BOOLEAN :
        /\ cond => auto.when # <<>>
        /\ ~poll => typer.hid /\ ~rom.skipped
        /\ LET a0 == [t |-> Aged(typer),
                      q |-> [queue EXCEPT !.until = Tick(@, 0)],
                      auto |-> [auto EXCEPT !.run = Tick(@, IF @ < 0 THEN -1 ELSE 0),
                                            !.cload = Tick(@, IF @ < 0 THEN -1 ELSE 0)],
                      plan |-> plan, mat |-> matrix, hid |-> bitmap]
               a1 == run_autotype_arm(run_fastload_hooks(a0), cond)
               m == run_autotype_step([t |-> a1.t, mat |-> a1.mat, hid |-> a1.hid])
               i == feed_kbd_inject([inj |-> [inject EXCEPT !.next = Tick(@, 0 - Watchdog),
                                                            !.pend = TickUp(@)],
                                     mat |-> m.mat])
           IN /\ typer' = m.t /\ queue' = a1.q /\ auto' = a1.auto /\ plan' = a1.plan
              /\ inject' = i.inj /\ matrix' = i.mat /\ bitmap' = m.hid
        /\ rom' = [rom EXCEPT !.reads = 0, !.skipped = ~poll,
                              !.hid = IF poll THEN bitmap ELSE @]
        /\ got' = IF poll /\ bitmap # rom.hid /\ bitmap # {}
                  THEN Append(got, CHOOSE k \in bitmap : TRUE) ELSE got
    /\ keybuf' = [keybuf EXCEPT !.age = IF keybuf.key = {} THEN 0 ELSE @ + 1]
    /\ UNCHANGED scene

\* The ROM reads a column.  The count of passes goes up where the column
\* does; at the end of the sweep a key that is not the one held is new.
ReadColumn ==
    /\ rom.reads < 3
    /\ LET c == ScanOrder[rom.col]
           here == {p \in matrix : p[1] = c}
           keys == here \ {LSHIFT_POS}
           newpass == rom.col = 1
           seen == (IF newpass THEN {} ELSE rom.seen) \cup keys
           shift == (~newpass /\ rom.shift) \/ LSHIFT_POS \in here
           Passed(n) == IF newpass /\ n < AUTOTYPE_MIN_PASS THEN n + 1 ELSE n
           r == [rom EXCEPT !.reads = @ + 1, !.col = (@ % Len(ScanOrder)) + 1]
       IN /\ typer' = [typer EXCEPT !.passes = Passed(@)]
          /\ inject' = [inject EXCEPT !.passes = Passed(@)]
          /\ IF rom.col < Len(ScanOrder)
             THEN rom' = [r EXCEPT !.seen = seen, !.shift = shift] /\ UNCHANGED keybuf
             ELSE LET q == [r EXCEPT !.seen = {}, !.shift = FALSE] IN
                  \/ seen = {} /\ rom' = [q EXCEPT !.held = {}] /\ UNCHANGED keybuf
                  \/ \E k \in seen :
                      /\ rom' = [q EXCEPT !.held = {k}]
                      /\ keybuf' = IF rom.held = {k} THEN keybuf
                                   ELSE [key |-> {Decoded(k, shift)}, age |-> 0]
    /\ UNCHANGED <<scene, queue, auto, matrix, bitmap, got, plan>>

\* BASIC takes the key.
ReadKey ==
    /\ keybuf.key # {}
    /\ got' = got \o <<CHOOSE k \in keybuf.key : TRUE>>
    /\ keybuf' = [key |-> {}, age |-> 0]
    /\ UNCHANGED <<scene, typer, queue, inject, auto, matrix, bitmap, rom, plan>>

TypingNext == FrameEnd \/ ReadColumn \/ ReadKey

-----------------------------------------------------------------------------
(* Properties.                                                             *)

\* The keystrokes of a text.
Strokes(text) ==
    LET upto[n \in 0 .. Len(text)] ==
            IF n = 0 THEN <<>>
            ELSE upto[n - 1] \o (CASE text[n] = "p" -> <<>>
                                   [] text[n] \in DOMAIN Combo -> <<Meant[text[n]]>>
                                   [] OTHER -> <<text[n]>>)
    IN upto[Len(text)]

Planned ==
    LET upto[n \in 0 .. Len(plan)] ==
            IF n = 0 THEN <<>> ELSE upto[n - 1] \o Strokes(plan[n].text)
    IN upto[Len(plan)] \o Strokes(scene.keys)

Heard == IF keybuf.key = {} THEN got ELSE Append(got, CHOOSE k \in keybuf.key : TRUE)

AtRest == /\ ~typer.on /\ queue.rest = <<>> /\ auto.run < 0 /\ auto.cload < 0
          /\ inject.buf = <<>> /\ keybuf.key = {}

\* However slowly the program scans the keyboard and however long BASIC is
\* busy, the keys that it gets are those of the texts, none lost, doubled or
\* without its SHIFT (autotype_should_fire, autotype_keybuf_wait, the staged
\* SHIFT, the release between two presses alike); the automatic RUN and the
\* user's entries follow each other and every entry is typed
\* (run_fastload_hooks, run_autotype_arm).
TypedAsAsked ==
    /\ Len(Heard) <= Len(Planned)
    /\ Heard = SubSeq(Planned, 1, Len(Heard))
    /\ AtRest =>
        /\ got = Planned
        /\ LET mine == SelectSeq(plan, LAMBDA p : p.user) IN
           \A i \in DOMAIN scene.queue : \E j \in DOMAIN mine : mine[j].text = scene.queue[i].text
=============================================================================
