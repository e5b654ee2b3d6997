------------------------------ MODULE MCMachine -----------------------------
(***************************************************************************)
(* Storage, cards and input.  The parts do not share state: each behaviour *)
(* exercises one of them, the others rest.                                 *)
(***************************************************************************)
EXTENDS LociRom, LociSdimg, LociMedia, Cards, Media, Keyboard

CONSTANT AnyText    \* Autotype

VARIABLES
  part,
  cas, cap, late,                                                      \* TapeSignal
  fitted, ram, deck, csave, disk, fast, pc, job, asked, ops,           \* Tape
  scene, typer, queue, inject, auto, matrix, bitmap, rom, keybuf, got, plan  \* Autotype

lociVars == <<romVars, sdVars, mediaVars>>
signalVars == <<cas, cap, late>>
tapeVars == <<fitted, ram, deck, csave, disk, fast, pc, job, asked, ops>>
typeVars == <<scene, typer, queue, inject, auto, matrix, bitmap, rom, keybuf, got, plan>>
mcVars == <<part, lociVars, cardVars, bayVars, signalVars, tapeVars, kbdVars, typeVars>>

-----------------------------------------------------------------------------
(* The instances.                                                          *)

MCLines == {<<>>, <<Opt("--loci", ""), Opt("--loci-web", "u")>>,
            <<Opt("--serial", "picowifi"), Opt("--serial-trace", "")>>,
            <<Opt("-r", "locirom"), Opt("--loci", "")>>,
            <<Opt("--disk-rom", "x.rom"), Opt("--acia-addr", "0380")>>,
            <<Inline("-r", "x.rom"), Opt("--serial", "com:tty0")>>}
MCTyped == ("adresse" :> {"0380", "03FA", "bad", ""})
           @@ ("transport" :> {"picowifi", "com:tty0", ""})
           @@ ("elf" :> {"fw"}) @@ ("port" :> {"tty1"})

MCTapeSize == [T |-> 1]

Bytes == {<<a, b>> : a \in {0, 255, 1, 128, 85, 36}, b \in {22, 0, 170, 254}}
Signal == INSTANCE TapeSignal WITH
  SignalTapes <- Bytes,
  Leader <- 2, Jitter <- 6

\* The tapes: a BASIC program, machine code, two files in either order, a file
\* without a name.  The programs: one line, two lines under the name "q!".
Basic1(n, b) == [name |-> <<n>>, type |-> 0, auto |-> 128, start |-> 1281,
                 data |-> <<9, 9, 10, 0, b, 22, 0, 0, 0>>]
Code(n) == [name |-> <<n>>, type |-> 128, auto |-> 199, start |-> 1290, data |-> <<22, 0, 96>>]
Bare == [name |-> <<>>, type |-> 128, auto |-> 0, start |-> 1290, data |-> <<5, 36>>]
Cassettes == {<<Basic1(80, 151)>>, <<Basic1(80, 151), Code(81)>>,
              <<Code(81), Basic1(80, 151)>>, <<Bare, Basic1(81, 3)>>}
Typed2 == {Basic1(80, 200),
           [Basic1(81, 200) EXCEPT !.name = <<113, 33>>,
                              !.data = <<7, 5, 10, 0, 186, 0, 1, 1, 20, 0, 187, 0, 0, 0>>]}
Deck == INSTANCE Tape WITH
  want <- asked, TapeFiles <- Cassettes, Programs <- Typed2, Roms <- {"1.1"}, MaxTapeOps <- 4

\* What is typed: every pair of tokens, with BASIC quick and slow; repeats,
\* pauses before what does not wait, hidden entries, entries in a row, an
\* autorun before and after its delay, a CLOAD.  Typable leaves some out.
Plan(q, w, r, c, k, b) == [queue |-> q, when |-> w, run |-> r, cload |-> c, keys |-> k, busy |-> b]
Entry(g, t, h) == [gap |-> g, text |-> t, hid |-> h]
Tokens == {"9", "(", "0", ")", "ret", "up", "L0", "L9"}
Pairs == {Plan(<<Entry(1, <<a, b>>, FALSE)>>, <<>>, -1, -1, <<>>, n) :
            a \in Tokens, b \in Tokens, n \in {0, 3}}
Plans == Pairs \cup {
    Plan(<<Entry(1, <<"(", "0", "ret", "ret", "9">>, FALSE)>>, <<>>, -1, -1, <<>>, 3),
    Plan(<<Entry(1, <<"0", "0", "(", ")">>, FALSE)>>, <<>>, -1, -1, <<>>, 3),
    Plan(<<Entry(1, <<"L0", "L0", "up", "up", "p", "9">>, FALSE)>>, <<>>, -1, -1, <<>>, 0),
    Plan(<<Entry(1, <<"L0", "p", "up", "p", "L0", "ret">>, FALSE)>>, <<>>, -1, -1, <<>>, 3),
    Plan(<<Entry(1, <<"0", "0", "L9", "ret", "p", "up">>, TRUE)>>, <<>>, -1, -1, <<>>, 3),
    Plan(<<Entry(1, <<"9">>, FALSE), Entry(3, <<"L0">>, FALSE)>>, <<"up">>, -1, -1, <<>>, 3),
    Plan(<<Entry(1, <<"9">>, FALSE)>>, <<>>, -1, -1, <<"0">>, 3),
    Plan(<<>>, <<>>, -1, -1, <<"(", "0", "0", "ret", ")">>, 3),
    Plan(<<Entry(1, <<"9">>, FALSE), Entry(3, <<"9">>, FALSE)>>, <<"9", "(">>, -1, -1, <<>>, 3),
    Plan(<<Entry(9, <<"9">>, FALSE), Entry(2, <<"0">>, FALSE)>>, <<>>, 1, -1, <<>>, 3),
    Plan(<<Entry(3, <<"9">>, FALSE), Entry(2, <<"0">>, FALSE)>>, <<>>, 1, -1, <<>>, 3),
    Plan(<<>>, <<"9">>, -1, 2, <<>>, 3)}
Typist == INSTANCE Autotype WITH
  Watchdog <- 8, RunDelay <- 2, RunTyping <- 4, TypingScenes <- Plans

-----------------------------------------------------------------------------
NoCards == argv = 0 /\ opts = 0 /\ dead = 0 /\ cfg = 0 /\ menu = 0 /\ wanted = 0 /\ launches = 0
NoSignal == cas = 0 /\ cap = 0 /\ late = 0
NoDeck == /\ fitted = 0 /\ ram = 0 /\ deck = 0 /\ csave = 0 /\ disk = 0
          /\ fast = 0 /\ pc = 0 /\ job = 0 /\ asked = 0 /\ ops = 0
NoTypist == /\ scene = 0 /\ typer = 0 /\ queue = 0 /\ inject = 0 /\ auto = 0 /\ matrix = 0
            /\ bitmap = 0 /\ rom = 0 /\ keybuf = 0 /\ got = 0 /\ plan = 0

Rest == [rom |-> Fresh(CHOOSE i \in Basic : TRUE), over |-> FALSE, off |-> FALSE, menu |-> FALSE]
Init ==
  /\ part \in {"rom", "volume", "disks", "tape", "cards", "drives", "signal", "deck", "keys",
               "typist"}
  /\ SdimgInit /\ MediaInit /\ RomInit /\ BayInit /\ KeyboardInit
  /\ part # "rom" => found = {} /\ map = Rest
  /\ part # "keys" => kb.layout = "azerty" /\ joy.mode = "keyboard"
  /\ IF part = "cards" THEN CardsInit ELSE NoCards
  /\ IF part = "signal" THEN Signal!SignalInit ELSE NoSignal
  /\ IF part = "deck" THEN Deck!TapeInit ELSE NoDeck
  /\ IF part = "typist" THEN Typist!TypingInit ELSE NoTypist

Loci ==
  /\ \/ part = "rom" /\ RomNext /\ UNCHANGED <<sdVars, mediaVars>>
     \/ part = "volume" /\ SdimgNext /\ UNCHANGED <<romVars, mediaVars>>
     \/ part = "disks" /\ DiskNext /\ UNCHANGED <<romVars, sdVars>>
     \/ part = "tape" /\ TapeNext /\ UNCHANGED <<romVars, sdVars>>
  /\ UNCHANGED <<cardVars, bayVars, signalVars, tapeVars, kbdVars, typeVars>>
Configure ==
  /\ part = "cards" /\ CardsNext
  /\ UNCHANGED <<lociVars, bayVars, signalVars, tapeVars, kbdVars, typeVars>>
Change ==
  /\ part = "drives" /\ BayNext
  /\ UNCHANGED <<lociVars, cardVars, signalVars, tapeVars, kbdVars, typeVars>>
Play ==
  /\ part = "signal" /\ Signal!SignalNext
  /\ UNCHANGED <<lociVars, cardVars, bayVars, tapeVars, kbdVars, typeVars>>
LoadOrSave ==
  /\ part = "deck" /\ Deck!TapeNext
  /\ UNCHANGED <<lociVars, cardVars, bayVars, signalVars, kbdVars, typeVars>>
Press ==
  /\ part = "keys" /\ KeyboardNext
  /\ UNCHANGED <<lociVars, cardVars, bayVars, signalVars, tapeVars, typeVars>>
Type ==
  /\ part = "typist" /\ Typist!TypingNext
  /\ UNCHANGED <<lociVars, cardVars, bayVars, signalVars, tapeVars, kbdVars>>

Next ==
  /\ Loci \/ Configure \/ Change \/ Play \/ LoadOrSave \/ Press \/ Type
  /\ UNCHANGED part
Spec == Init /\ [][Next]_mcVars

-----------------------------------------------------------------------------
\* The LOCI's storage: the volume, the mounted disks and the tape
\* (loci_sdimg.c, loci_glue.c).
StorageIsSound == FatIsConsistent /\ ContentIsKept /\ MediaIsSafe

\* The cards of a machine are those the user chose (cards.c, main.c).
CardsAreChosen == part = "cards" => CardsAsChosen

\* What is put in arrives as it is: the bytes of a tape's signal (cassette.c),
\* programs that are loaded and saved (tape.c, tape_patches.c), and what is
\* typed for the user (autotype.c).
InputArrives ==
  /\ part = "signal" => Signal!SignalIsDecoded
  /\ part = "deck" => Deck!LoadIsExact /\ Deck!FastLoadIsLoad /\ Deck!SavedIsProgram
  /\ part = "typist" => Typist!TypedAsAsked
=============================================================================
