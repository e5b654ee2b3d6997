------------------------------- MODULE Keyboard -------------------------------
(***************************************************************************)
(* The host keyboard and the joystick (keyboard.c, joystick.c, the event   *)
(* loop run_present_and_events and the menu's toggles) and the movie that  *)
(* records and replays the matrix (movie.c).                               *)
(*                                                                         *)
(* The matrix is the set of the positions <<col, row>> that are pressed.   *)
(* The host sends KEYDOWN and KEYUP, and the text of a key in an event of  *)
(* its own, TEXTINPUT, that may come late.  A few host keys stand for the  *)
(* tables: one with two characters, a letter, an arrow, both modifiers.    *)
(***************************************************************************)
EXTENDS Integers, Sequences

CONSTANTS
    MaxKeyEvents,    \* key presses of a behaviour
    MaxMovieFrames,  \* frames that are recorded
    HeldAtToggle,    \* may the user change layout or stick with a key held?
    HeldAtSave       \* may a snapshot be taken with a key held?

VARIABLES
    kb,      \* oric_keyboard_t: matrix, layout, pressed, pending
    joy,     \* oric_joystick_t: mode, mask (the buttons that read as pressed)
    down,    \* the host keys that a finger holds
    text,    \* TEXTINPUT events on their way
    pad,     \* the game pad: its buttons held and the x axis
    open,    \* is the F1 menu open?
    saved,   \* the matrix of the last snapshot, {} if there is none
    movie,   \* movie_t: mode, events, idx, cur
    frame,   \* rs.frame_count
    watched, \* history: the matrix each recorded frame ran with
    presses  \* key presses so far

ASSUME KeyboardAssumption ==
    /\ MaxKeyEvents \in Nat /\ MaxMovieFrames \in Nat
    /\ HeldAtToggle \in BOOLEAN /\ HeldAtSave \in BOOLEAN

kbdVars == <<kb, joy, down, text, pad, open, saved, movie, frame, watched, presses>>

\* Columns of qwerty_tab, by host key.
qwerty_tab == [nine |-> <<3, 1>>, q |-> <<1, 6>>, up |-> <<4, 3>>,
               lshift |-> <<4, 4>>, rctrl |-> <<0, 4>>]

HostKey == DOMAIN qwerty_tab

\* Keys that symbolic mode takes by their scancode.
special_keys == [up |-> <<4, 3>>, rctrl |-> <<0, 4>>]

\* char_map: where a character is, and whether it needs SHIFT.
char_map == [c \in {"9", "(", "a"} |->
                CASE c = "9" -> [pos |-> <<3, 1>>, shift |-> FALSE]
                  [] c = "(" -> [pos |-> <<3, 1>>, shift |-> TRUE]
                  [] c = "a" -> [pos |-> <<6, 5>>, shift |-> FALSE]]

\* What the host's layout may make of a key.
Texts == [nine |-> {"9", "("}, q |-> {"a"}]

LSHIFT == <<4, 4>>

\* The keyboard-as-joystick table and the buttons of a pad.
StickOf == [up |-> "UP", rctrl |-> "FIRE"]
gamepad_button_to_ijk == [dpad |-> "LEFT", a |-> "FIRE", b |-> "FIRE"]

oric_keyboard_init == [matrix |-> {}, layout |-> "qwerty", pressed |-> <<>>, pending |-> {}]

KeyboardInit ==
    /\ kb \in {oric_keyboard_init, [oric_keyboard_init EXCEPT !.layout = "azerty"]}
    /\ joy \in {[mode |-> m, mask |-> {}] : m \in {"off", "keyboard", "gamepad"}}
    /\ down = {} /\ text = <<>> /\ pad = [held |-> {}, x |-> 0]
    /\ open = FALSE /\ saved = {} /\ frame = 0 /\ watched = <<>> /\ presses = 0
    /\ \E m \in IF joy.mode = "off" THEN {"off", "record"} ELSE {"off"} :
           movie = [mode |-> m, events |-> <<>>, idx |-> 0, cur |-> {}]

-----------------------------------------------------------------------------
(* Symbolic mode: the list of pressed keys, and the matrix made from it.   *)

\* Removal that forgets the entry of a key only when it is the last one.
MutRemove(p, sc) ==
    IF p # <<>> /\ p[Len(p)].sc = sc THEN SubSeq(p, 1, Len(p) - 1) ELSE p

\* The last entry takes the place of the one that goes.
sym_remove_pressed(p, sc) ==
    LET at == {i \in DOMAIN p : p[i].sc = sc} IN
    IF at = {} THEN p
    ELSE LET i == CHOOSE j \in at : \A k \in at : j <= k IN
         SubSeq([p EXCEPT ![i] = p[Len(p)]], 1, Len(p) - 1)

ORIC_KB_MAX_PRESSED == 16

sym_add_pressed(p, sc, e) ==
    IF Len(p) >= ORIC_KB_MAX_PRESSED THEN p
    ELSE Append(p, [sc |-> sc, pos |-> e.pos, shift |-> e.shift])

sym_rebuild_matrix(p) ==
    {p[i].pos : i \in DOMAIN p} \cup (IF \E i \in DOMAIN p : p[i].shift THEN {LSHIFT} ELSE {})

\* The list with an entry for the key, and the matrix.
Pressing(k, sc, e) ==
    LET p == sym_add_pressed(sym_remove_pressed(k.pressed, sc), sc, e) IN
    [k EXCEPT !.pressed = p, !.matrix = sym_rebuild_matrix(p)]

\* A special key by its scancode; a letter with CTRL by its keycode, since no
\* text will come; any other key waits for its text.
SymbolicDown(k, sc, ctrl) ==
    IF sc \in DOMAIN special_keys
    THEN Pressing(k, sc, [pos |-> special_keys[sc], shift |-> FALSE])
    ELSE IF ctrl /\ sc = "q" THEN Pressing(k, sc, char_map["a"])
    ELSE IF sc = "lshift" THEN k
    ELSE [k EXCEPT !.pending = {sc}]

SymbolicUp(k, sc) ==
    LET p == sym_remove_pressed(k.pressed, sc) IN
    [k EXCEPT !.pending = @ \ {sc}, !.pressed = p, !.matrix = sym_rebuild_matrix(p)]

\* The text belongs to the last key that went down.
SymbolicText(k, c) ==
    IF k.pending = {} THEN k
    ELSE [Pressing(k, CHOOSE sc \in k.pending : TRUE, char_map[c]) EXCEPT !.pending = {}]

\* handle_qwerty
Positional(k, sc, isDown) ==
    [k EXCEPT !.matrix = IF isDown THEN @ \cup {qwerty_tab[sc]} ELSE @ \ {qwerty_tab[sc]}]

oric_keyboard_handle_sdl_event(k, sc, isDown, ctrl) ==
    IF k.layout # "azerty" THEN Positional(k, sc, isDown)
    ELSE IF isDown THEN SymbolicDown(k, sc, ctrl) ELSE SymbolicUp(k, sc)

-----------------------------------------------------------------------------
(* Events of the loop.                                                     *)

\* The stick first; what it takes the keyboard does not see.
Deliver(sc, isDown) ==
    IF joy.mode = "keyboard" /\ sc \in DOMAIN StickOf
    THEN /\ joy' = [joy EXCEPT !.mask = IF isDown THEN @ \cup {StickOf[sc]} ELSE @ \ {StickOf[sc]}]
         /\ UNCHANGED kb
    ELSE /\ kb' = oric_keyboard_handle_sdl_event(kb, sc, isDown, "rctrl" \in down)
         /\ UNCHANGED joy

\* A menu takes every KEYDOWN; the host's repeats send it again.
KeyDown(sc) ==
    /\ presses < MaxKeyEvents
    /\ presses' = presses + 1
    /\ down' = down \cup {sc}
    /\ IF open THEN UNCHANGED <<kb, joy>> ELSE Deliver(sc, TRUE)
    /\ IF sc \in DOMAIN Texts /\ "rctrl" \notin down /\ text = <<>>
       THEN \E c \in Texts[sc] : text' = Append(text, c)
       ELSE UNCHANGED text
    /\ UNCHANGED <<pad, open, saved, movie, frame, watched>>

\* A KEYUP reaches the stick or the keyboard even under the menu.
Release(sc) == Deliver(sc, FALSE)

KeyUp(sc) ==
    /\ sc \in down
    /\ down' = down \ {sc}
    /\ Release(sc)
    /\ UNCHANGED <<text, pad, open, saved, movie, frame, watched, presses>>

TextInput ==
    /\ text # <<>>
    /\ text' = Tail(text)
    /\ kb' = IF open \/ kb.layout # "azerty" THEN kb ELSE SymbolicText(kb, Head(text))
    /\ UNCHANGED <<joy, down, pad, open, saved, movie, frame, watched, presses>>

MenuToggle == /\ open' = ~open
                 /\ presses < MaxKeyEvents /\ presses' = presses + 1
                 /\ UNCHANGED <<kb, joy, down, text, pad, saved, movie, frame, watched>>

\* IOM_ACT_KEYBOARD_TOGGLE: the layout, and nothing of what is pressed.
KeyboardToggle ==
    /\ open /\ (HeldAtToggle \/ down = {})
    /\ presses < MaxKeyEvents /\ presses' = presses + 1
    /\ kb' = [kb EXCEPT !.layout = IF @ = "azerty" THEN "qwerty" ELSE "azerty"]
    /\ UNCHANGED <<joy, down, text, pad, open, saved, movie, frame, watched>>

\* joystick_cycle and oric_joystick_set_mode
joystick_cycle ==
    /\ open /\ (HeldAtToggle \/ down = {})
    /\ presses < MaxKeyEvents /\ presses' = presses + 1
    /\ joy' = [mode |-> CASE joy.mode = "off" -> "keyboard" [] joy.mode = "keyboard" -> "gamepad"
                          [] OTHER -> "off", mask |-> {}]
    /\ UNCHANGED <<kb, down, text, pad, open, saved, movie, frame, watched>>

\* A button of the pad, two of which are FIRE, or its axis: an axis event
\* releases both directions.  In the other modes the event changes nothing.
GamepadButton ==
    /\ joy.mode = "gamepad"
    /\ presses < MaxKeyEvents /\ presses' = presses + 1
    /\ \E b \in DOMAIN gamepad_button_to_ijk :
        LET on == b \notin pad.held
            bit == {gamepad_button_to_ijk[b]}
        IN /\ pad' = [pad EXCEPT !.held = IF on THEN @ \cup {b} ELSE @ \ {b}]
           /\ joy' = [joy EXCEPT !.mask = IF on THEN @ \cup bit ELSE @ \ bit]
    /\ UNCHANGED <<kb, down, text, open, saved, movie, frame, watched>>

GamepadAxis ==
    /\ joy.mode = "gamepad"
    /\ presses < MaxKeyEvents /\ presses' = presses + 1
    /\ \E x \in {-1, 0, 1} \ {pad.x} :
        /\ pad' = [pad EXCEPT !.x = x]
        /\ joy' = [joy EXCEPT !.mask = (@ \ {"LEFT", "RIGHT"}) \cup
                        (IF x < 0 THEN {"LEFT"} ELSE IF x > 0 THEN {"RIGHT"} ELSE {})]
    /\ UNCHANGED <<kb, down, text, open, saved, movie, frame, watched>>

\* The KBD section of a snapshot: F2, and F4.
SaveMatrix == /\ ~open /\ movie.mode = "off" /\ (HeldAtSave \/ kb.matrix = {}) /\ kb.matrix # saved
             /\ saved' = kb.matrix
             /\ UNCHANGED <<kb, joy, down, text, pad, open, movie, frame, watched, presses>>

LoadMatrix == /\ ~open /\ movie.mode = "off" /\ kb.matrix # saved
             /\ kb' = [kb EXCEPT !.matrix = saved]
             /\ UNCHANGED <<joy, down, text, pad, open, saved, movie, frame, watched, presses>>

-----------------------------------------------------------------------------
(* movie.c, at the start of a frame.                                       *)

LastEvent(m) == IF m.events = <<>> THEN [frame |-> -1, matrix |-> {}] ELSE m.events[Len(m.events)]

\* The first frame is always written, then only what changes.
movie_record_frame(m) ==
    IF m.events # <<>> /\ LastEvent(m).matrix = kb.matrix THEN m
    ELSE [m EXCEPT !.events = Append(@, [frame |-> frame, matrix |-> kb.matrix])]

\* The events whose frame has been reached.
Reached(m, f) == {i \in DOMAIN m.events : i > m.idx /\ m.events[i].frame <= f}

movie_replay_frame(m) ==
    LET r == Reached(m, frame) IN
    IF r = {} THEN m
    ELSE LET i == CHOOSE j \in r : \A k \in r : k <= j IN
         [m EXCEPT !.idx = i, !.cur = m.events[i].matrix]

Frame ==
    /\ ~open /\ movie.mode # "off" /\ frame < MaxMovieFrames
    /\ frame' = frame + 1
    /\ \/ /\ movie.mode = "record"
          /\ movie' = movie_record_frame(movie)
          /\ watched' = Append(watched, kb.matrix)
          /\ UNCHANGED kb
       \/ /\ movie.mode = "replay"
          /\ movie' = movie_replay_frame(movie)
          /\ kb' = [kb EXCEPT !.matrix = movie'.cur]
          /\ UNCHANGED watched
    /\ UNCHANGED <<joy, down, text, pad, open, saved, presses>>

\* The file is read again by another run of the emulator.
movie_replay_open ==
    /\ movie.mode = "record" /\ frame = MaxMovieFrames
    /\ movie' = [movie EXCEPT !.mode = "replay", !.idx = 0, !.cur = {}]
    /\ frame' = 0
    /\ kb' = [oric_keyboard_init EXCEPT !.layout = kb.layout]
    /\ down' = {} /\ text' = <<>> /\ open' = FALSE /\ saved' = {}
    /\ joy' = [joy EXCEPT !.mask = {}]
    /\ pad' = [held |-> {}, x |-> 0]
    /\ UNCHANGED <<watched, presses>>

KeyboardNext ==
    \/ \E sc \in HostKey : KeyDown(sc) \/ KeyUp(sc)
    \/ TextInput \/ MenuToggle \/ KeyboardToggle \/ joystick_cycle
    \/ GamepadButton \/ GamepadAxis \/ SaveMatrix \/ LoadMatrix
    \/ Frame \/ movie_replay_open

KeyboardSpec == KeyboardInit /\ [][KeyboardNext]_kbdVars

-----------------------------------------------------------------------------
(* Properties.                                                             *)

\* A key that nobody holds is not pressed: whatever the order of KEYDOWN,
\* late TEXTINPUT and KEYUP, whichever of stick, menu and keyboard takes
\* them, each entry of the list has its finger and an empty hand leaves an
\* empty matrix (sym_remove_pressed, handle_qwerty, the routing of KEYUP).
NoStuckKey ==
    movie.mode # "replay" =>
        /\ \A i \in DOMAIN kb.pressed : kb.pressed[i].sc \in down
        /\ down = {} => kb.matrix = {} /\ kb.pending = {}
        /\ (down = {} /\ pad = [held |-> {}, x |-> 0]) => joy.mask = {}

\* A replay shows the machine, frame by frame, the matrix that the recorded
\* session ran with, whatever is typed meanwhile (movie_replay_frame).
ReplayIsExact ==
    (movie.mode = "replay" /\ frame > 0) =>
        movie.cur = watched[frame]

\* Nothing is pressed but what a finger, or the movie, presses.
KeysAreTrue == NoStuckKey /\ ReplayIsExact
=============================================================================
