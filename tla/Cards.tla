------------------------------- MODULE Cards -------------------------------
(* The expansion cards: the registry of the F1 menu, the choice of cards on  *)
(* its pages, the cold restart with rebuilt launch options, and the cards    *)
(* kept in phosphoric.cfg (cards.c, cards/card_*.c, video/iomenu.c).         *)
(*                                                                           *)
(* A launch option is a record [opt, val, inl] (inl: --opt=val); a state of the cards gives every  *)
(* card a switch and a value per parameter.  Parameters that only repeat the *)
(* handling of another one (buffer, flash images) are left out.              *)
EXTENDS Integers, Sequences, SequencesExt, FiniteSets, TLC

CONSTANTS
    CliLines,    \* command lines the user may type: sequences of options
    Touched,     \* the cards whose page the user opens
    Typed,       \* [key -> values typed or picked for that parameter; "" erases it]
    Backends,    \* LOCI modes this binary contains
    UsbLoci,     \* port of the LOCI-USB that is plugged in, "" if none
    UsbPico,     \* port of the picowifi that is plugged in, "" if none
    Attached,    \* the user may write --rom=file
    MaxEdits,    \* bound: choices made on the cards' pages
    MaxLaunches  \* bound: processes started

ASSUME CardsAssumption == Attached \in BOOLEAN /\ {MaxEdits, MaxLaunches} \subseteq Nat

\* A parameter of a card: key, kind, option, default (choices of a CHOICE).
Param(key, kind, cli, def) == [key |-> key, kind |-> kind, cli |-> cli, def |-> def]

\* A card: exclusive group, enabling option and the parameter it carries, the
\* parameter that holds the I/O address or the fixed base, window, parameters.
Desc(group, enable, eparam, ioparam, base, size, params) ==
    [group |-> group, enable |-> enable, eparam |-> eparam,
     ioparam |-> ioparam, base |-> base, size |-> size, params |-> params]

microdisc == Desc("disque", "--disk-rom", "rom", "", 784, 9,
    <<Param("rom", "FILE", "--disk-rom", <<"microdis.rom">>)>>)

jasmin == Desc("disque", "--jasmin-rom", "rom", "", 1012, 12,
    <<Param("rom", "FILE", "--jasmin-rom", <<"jasmin.rom">>)>>)

loci == Desc("disque", "--loci", "", "", 928, 32,
    <<Param("mode", "CHOICE", "", <<"integre", "firmware", "usb">>),
      Param("menu", "BOOL", "", <<"oui">>),
      Param("sd", "FILE", "--loci-sdimg", <<"">>),
      Param("modem", "CHOICE", "", <<"aucun", "simule", "reel">>),
      Param("port", "TEXT", "", <<"">>),
      Param("elf", "FILE", "--loci-emu", <<"">>),
      Param("port_usb", "TEXT", "--loci-hw", <<"">>)>>)

acia == Desc("", "--serial", "transport", "adresse", 0, 4,
    <<Param("transport", "TEXT", "--serial", <<"loopback">>),
      Param("adresse", "HEX", "--acia-addr", <<"031C">>),
      Param("v23", "BOOL", "--serial-v23", <<"non">>)>>)

dtl2000 == Desc("", "--dtl2000", "transport", "adresse", 0, 6,
    <<Param("transport", "TEXT", "--dtl2000", <<"loopback">>),
      Param("adresse", "HEX", "--dtl2000-addr", <<"03F8">>)>>)

mageco == Desc("midi", "--mageco", "transport", "adresse", 0, 2,
    <<Param("transport", "TEXT", "--mageco", <<"loopback">>),
      Param("adresse", "HEX", "--mageco-addr", <<"03FE">>)>>)

oricon == Desc("midi", "--oricon", "transport", "", 796, 4,
    <<Param("transport", "TEXT", "--oricon", <<"loopback">>)>>)

sp0256 == Desc("", "--sp0256-rom", "rom", "adresse", 0, 1,
    <<Param("rom", "FILE", "--sp0256-rom", <<"al2.bin">>),
      Param("adresse", "HEX", "--sp0256-addr", <<"03F1">>)>>)

mea8000 == Desc("", "--mea8000", "", "adresse", 0, 2,
    <<Param("adresse", "HEX", "--mea8000-addr", <<"03FE">>)>>)

hostfs == Desc("", "-h", "dossier", "", 0, 0,
    <<Param("dossier", "DIR", "-h", <<".">>)>>)

\* The order of the menu: each module before its anchor.  The ULA-NG, always
\* present and without a parameter, is only shown and is left out.
CardList == <<"microdisc", "jasmin", "loci", "acia", "dtl2000", "mageco",
              "oricon", "sp0256", "mea8000", "hostfs">>

Card == ToSet(CardList)

cards_get == [c \in Card |->
    CASE c = "microdisc" -> microdisc [] c = "jasmin" -> jasmin
      [] c = "loci" -> loci           [] c = "acia" -> acia
      [] c = "dtl2000" -> dtl2000     [] c = "mageco" -> mageco
      [] c = "oricon" -> oricon       [] c = "sp0256" -> sp0256
      [] c = "mea8000" -> mea8000     [] c = "hostfs" -> hostfs]

ParamsOf == [c \in Card |-> ToSet(cards_get[c].params)]
Keys == [c \in Card |-> {p.key : p \in ParamsOf[c]}]

\* cards_param_default
Default(p) == p.def[1]

\* The base address a hexadecimal text stands for (strtoul).
AddrOf(text) ==
    CASE text = "031C" -> 796 [] text = "0380" -> 896 [] text = "03F1" -> 1009
      [] text = "03F8" -> 1016 [] text = "03FA" -> 1018 [] text = "03FE" -> 1022
      [] OTHER -> 0

cards_state_defaults ==
    [c \in Card |-> [on |-> FALSE,
        v |-> [k \in Keys[c] |->
                 Default(CHOOSE p \in ParamsOf[c] : p.key = k)]]]

\* A card switched on switches the others of its group off.
cards_set_on(st, i, on) ==
    [c \in Card |->
        IF c = i THEN [st[c] EXCEPT !.on = on]
        ELSE IF on /\ cards_get[i].group # ""
                /\ cards_get[c].group = cards_get[i].group
             THEN [st[c] EXCEPT !.on = FALSE]
             ELSE st[c]]

SetValue(st, c, k, val) == [st EXCEPT ![c].v[k] = val]

\* Parameters specific to one mode of the LOCI card.
LociMode(key) ==
    CASE key \in {"menu", "sd", "modem", "port"} -> "integre"
      [] key = "elf" -> "firmware"
      [] key = "port_usb" -> "usb"
      [] OTHER -> ""

cards_param_applies(c, choice, key) ==
    c = "loci" /\ LociMode(key) # "" => choice.v["mode"] = LociMode(key)

\* The next choice the binary contains (at most one turn).
cards_choice_next(p, val) ==
    LET n == Len(p.def)
        i == IF \E j \in 1..n : p.def[j] = val
             THEN CHOOSE j \in 1..n : p.def[j] = val ELSE n
        ok(v) == p.key # "mode" \/ v \in Backends
        turn(k) == p.def[((i + k - 1) % n) + 1]
    IN  turn(CHOOSE k \in 1..n : ok(turn(k)) /\ \A l \in 1..(k - 1) : ~ok(turn(l)))

Opt(opt, val) == [opt |-> opt, val |-> val, inl |-> FALSE]
Inline(opt, val) == [Opt(opt, val) EXCEPT !.inl = TRUE]

CardOptions ==
    ({cards_get[c].enable : c \in Card} \cup
     {p.cli : p \in UNION {ParamsOf[c] : c \in Card}}) \ {""}

is_card_option(opt) == opt \in CardOptions \cup {"--no-config-cards"}

\* The secondary options that follow their card.
extra_owner(opt) ==
    CASE opt \in {"--loci-web", "--loci-sdimg", "--loci-emu", "--loci-hw"} -> "loci"
      [] opt \in {"--serial-trace", "--serial-v23"} -> "acia"
      [] OTHER -> ""

----------------------------------------------------------------------------
(* The modem of the LOCI card.                                              *)

\* The transport of a serial device (115200 8N1), two devices being enough.
ComOf(dev) == IF dev = "tty0" THEN "com:tty0" ELSE "com:tty1"

\* A transport seen as a LOCI modem and its port, empty if detection finds it.
ModemOf(spec) ==
    LET dev == IF spec = "com:tty0" THEN "tty0" ELSE "tty1" IN
    CASE spec = "picowifi" -> <<"simule", "">>
      [] spec \in {"com:tty0", "com:tty1"} ->
            <<"reel", IF dev = UsbPico THEN "" ELSE dev>>
      [] OTHER -> <<"none", "">>

\* An ACIA reduced to a picowifi modem is the modem of the LOCI card.
loci_modem_normalize(st) ==
    LET a == st["acia"].v
        m == ModemOf(a["transport"])
    IN  IF /\ st["loci"].on /\ st["acia"].on
           /\ st["loci"].v["mode"] = "integre"
           /\ a["adresse"] \in {"031C", "0380"} /\ a["v23"] = "non"
           /\ m[1] # "none"
        THEN [st EXCEPT !["loci"].v["modem"] = m[1],
                        !["loci"].v["port"] = m[2],
                        !["acia"] = cards_state_defaults["acia"]]
        ELSE st

\* The port that detection finds again is not kept.
loci_hw_normalize(st) ==
    IF UsbLoci # "" /\ st["loci"].v["port_usb"] = UsbLoci
    THEN SetValue(st, "loci", "port_usb", "") ELSE st

loci_modem_on(st) ==
    /\ st["loci"].on
    /\ st["loci"].v["mode"] = "integre"
    /\ st["loci"].v["modem"] # "aucun"

Port(given, detected) == IF given # "" THEN given ELSE detected

----------------------------------------------------------------------------
(* Options to state, state to options.                                      *)

\* One option of the command line, read into the state of the cards.
ReadOption(st, o) ==
    LET enabled == {c \in Card : cards_get[c].enable = o.opt}
        on(s, c) == cards_set_on(s, c, TRUE)
        named == {<<c, p>> \in UNION {{c} \X ParamsOf[c] : c \in Card} :
                     p.cli = o.opt}
        st1 == IF enabled = {} THEN st
               ELSE LET c == CHOOSE c \in enabled : TRUE IN
                    IF cards_get[c].eparam = "" THEN on(st, c)
                    ELSE SetValue(on(st, c), c, cards_get[c].eparam, o.val)
    IN  IF ~is_card_option(o.opt)
        THEN IF extra_owner(o.opt) = "" THEN st ELSE on(st, extra_owner(o.opt))
        ELSE IF named = {} THEN st1
        ELSE LET n == CHOOSE n \in named : TRUE
                 val == IF n[2].kind = "BOOL" THEN "oui" ELSE o.val
                 st2 == SetValue(st1, n[1], n[2].key, val)
             IN  IF n[1] # "loci" THEN st2
                 ELSE IF LociMode(n[2].key) \in {"", "integre"} THEN on(st2, "loci")
                 ELSE SetValue(on(st2, "loci"), "loci", "mode", LociMode(n[2].key))

\* What the running machine adds: the disk interface and the LOCI menu ROM.
AddMachine(st, mach) ==
    LET s1 == IF "microdisc" \in mach.on
              THEN SetValue(cards_set_on(st, "microdisc", TRUE),
                            "microdisc", "rom", mach.diskrom)
              ELSE st
        s2 == IF "jasmin" \in mach.on
              THEN SetValue(cards_set_on(s1, "jasmin", TRUE),
                            "jasmin", "rom", mach.jasminrom)
              ELSE s1
        s3 == IF "loci" \in mach.on /\ ~mach.external
              THEN SetValue(cards_set_on(s2, "loci", TRUE), "loci", "menu",
                            IF mach.rom = "locirom" THEN "oui" ELSE "non")
              ELSE s2
        m == ModemOf(mach.serial)
    IN  IF s3["loci"].on /\ ~s3["acia"].on /\ "acia" \in mach.on /\ m[1] # "none"
        THEN [s3 EXCEPT !["loci"].v["modem"] = m[1], !["loci"].v["port"] = m[2]]
        ELSE s3

cards_state_from(mach, argv) ==
    loci_hw_normalize(loci_modem_normalize(
        AddMachine(FoldLeft(ReadOption, cards_state_defaults, argv), mach)))

\* The windows of the I/O page that the active cards use.
Window(st, c) ==
    LET d == cards_get[c]
        base == IF d.ioparam # "" THEN AddrOf(st[c].v[d.ioparam]) ELSE d.base
    IN  IF ~st[c].on \/ d.size = 0 \/ base = 0 THEN {}
        ELSE base..(base + d.size - 1)

cards_conflict(st) ==
    \/ \E c, d \in Card : c # d /\ Window(st, c) \cap Window(st, d) # {}
    \/ /\ st["loci"].on
       /\ \/ st["loci"].v["mode"] \notin Backends
          \/ st["loci"].v["mode"] = "firmware" /\ st["loci"].v["elf"] = ""
          \/ st["loci"].v["mode"] = "usb"
             /\ Port(st["loci"].v["port_usb"], UsbLoci) = ""
    \/ /\ loci_modem_on(st)
       /\ \/ st["acia"].on
          \/ st["loci"].v["modem"] = "reel"
             /\ Port(st["loci"].v["port"], UsbPico) = ""

\* The menu of the LOCI is a choice of ROM.
MenuRom(st) == /\ st["loci"].on /\ st["loci"].v["mode"] = "integre"
               /\ st["loci"].v["menu"] = "oui"

MutKept(st, argv0) ==
    SelectSeq(argv0, LAMBDA o : ~(o.opt = "-r" /\ MenuRom(st)))
    \o (IF MenuRom(st) THEN <<Opt("-r", "locirom")>> ELSE <<>>)

\* The options of the previous launch that the restart keeps.  The file of -r is the
\* next argument even when it is attached: then an option is taken for it, and its
\* own value becomes an operand that is ignored.
KeptOptions(st, argv0) ==
    LET hle == st["loci"].on /\ st["loci"].v["mode"] = "integre"
        keep(o) == LET w == extra_owner(o.opt) IN
                   /\ ~is_card_option(o.opt)
                   /\ w # "" => st[w].on \/ (w = "acia" /\ loci_modem_on(st))
        file(r) == IF r = "locirom" /\ ~hle THEN "basic11b.rom" ELSE r
        push(acc, o, yes) == [acc EXCEPT !.av = IF yes THEN Append(@, o) ELSE @, !.rom = FALSE]
        kept(acc, o) ==
            IF acc.rom THEN push(acc, Opt("-r", file(o.opt)), ~MenuRom(st))
            ELSE IF o.opt = "-r" /\ o.inl THEN [acc EXCEPT !.rom = TRUE]
            ELSE IF o.opt = "-r" THEN push(acc, Opt("-r", file(o.val)), ~MenuRom(st))
            ELSE push(acc, o, keep(o))
        all == FoldLeft(kept, [av |-> <<>>, rom |-> FALSE], argv0)
    IN  all.av \o (IF all.rom THEN <<Last(argv0)>> ELSE <<>>)
        \o (IF MenuRom(st) THEN <<Opt("-r", "locirom")>> ELSE <<>>)

\* The options of one active card.
CardOptionsOf(st, c) ==
    LET d == cards_get[c]
        ch == st[c]
        hle == c # "loci" \/ ch.v["mode"] = "integre"
        one(p) ==
            LET val == ch.v[p.key] IN
            IF p.cli = "" \/ ~cards_param_applies(c, ch, p.key) THEN <<>>
            ELSE IF p.key = "port_usb"
                 THEN IF Port(val, UsbLoci) = "" THEN <<>>
                      ELSE <<Opt(p.cli, Port(val, UsbLoci))>>
            ELSE IF p.key = d.eparam THEN <<Opt(p.cli, val)>>
            ELSE IF p.kind = "BOOL"
                 THEN IF val = "oui" THEN <<Opt(p.cli, "")>> ELSE <<>>
            ELSE IF val # "" /\ val # Default(p) THEN <<Opt(p.cli, val)>> ELSE <<>>
    IN  IF ~ch.on THEN <<>>
        ELSE (IF d.eparam = "" /\ hle THEN <<Opt(d.enable, "")>> ELSE <<>>)
             \o FlattenSeq([i \in 1..Len(d.params) |-> one(d.params[i])])

\* The modem of the built-in LOCI is an ACIA option.
ModemOptions(st) ==
    LET m == st["loci"].v["modem"]
        dev == Port(st["loci"].v["port"], UsbPico)
    IN  IF ~loci_modem_on(st) \/ st["acia"].on THEN <<>>
        ELSE IF m = "simule" THEN <<Opt("--serial", "picowifi")>>
        ELSE IF dev = "" THEN <<>> ELSE <<Opt("--serial", ComOf(dev))>>

cards_build_argv(st, argv) ==
    KeptOptions(st, argv)
    \o FlattenSeq([i \in 1..Len(CardList) |-> CardOptionsOf(st, CardList[i])])
    \o ModemOptions(st) \o <<Opt("--no-config-cards", "")>>

----------------------------------------------------------------------------
(* phosphoric.cfg.                                                           *)

NoCfg == [lines |-> <<>>, there |-> FALSE]

\* carte.<id>=oui|non, then the parameters of a card that is on.
CfgOf(st, c) ==
    LET ps == cards_get[c].params
        line(p) == IF /\ st[c].v[p.key] \notin {"", Default(p)}
                      /\ cards_param_applies(c, st[c], p.key)
                   THEN <<[card |-> c, key |-> p.key, val |-> st[c].v[p.key]]>>
                   ELSE <<>>
    IN  <<[card |-> c, key |-> "carte", val |-> IF st[c].on THEN "oui" ELSE "non"]>>
        \o (IF st[c].on THEN FlattenSeq([i \in 1..Len(ps) |-> line(ps[i])])
            ELSE <<>>)

cards_cfg_write(st) ==
    [lines |-> FlattenSeq([i \in 1..Len(CardList) |-> CfgOf(st, CardList[i])]),
     there |-> TRUE]

cards_cfg_line(st, l) ==
    IF l.key = "carte" THEN cards_set_on(st, l.card, l.val = "oui")
    ELSE SetValue(st, l.card, l.key, l.val)

\* The state the file gives; the cards it names.
cards_cfg_read(cfg) == FoldLeft(cards_cfg_line, cards_state_defaults, cfg.lines)
CfgSeen(cfg) == {cfg.lines[i].card : i \in {j \in 1..Len(cfg.lines) :
                                               cfg.lines[j].key = "carte"}}

cards_cli_mentioned(argv) ==
    {c \in Card : \E i \in 1..Len(argv) :
        LET o == argv[i].opt IN
        \/ extra_owner(o) = c
        \/ extra_owner(o) = "" /\ cards_get[c].enable = o
        \/ extra_owner(o) = "" /\ \E p \in ParamsOf[c] : p.cli = o}

\* The options that phosphoric.cfg adds for the cards that the command line
\* does not mention, nor any card of their group.
cards_config_argv(cfg, argv) ==
    LET from == cards_cfg_read(cfg)
        mentioned == cards_cli_mentioned(argv)
        taken(c) == /\ cards_get[c].group # ""
                    /\ \E d \in mentioned : cards_get[d].group = cards_get[c].group
        adopt == {c \in CfgSeen(cfg) :
                     from[c].on /\ c \notin mentioned /\ ~taken(c)}
        st == [c \in Card |-> IF c \in adopt THEN from[c] ELSE cards_state_defaults[c]]
        st2 == IF "acia" \in mentioned
               THEN SetValue(st, "loci", "modem", "aucun") ELSE st
        rom == \E i \in 1..Len(argv) : argv[i].opt = "-r"
    IN  IF ~cfg.there \/ adopt = {} THEN <<>>
        ELSE SelectSeq(cards_build_argv(st2, <<>>),
                LAMBDA o : o.opt # "--no-config-cards" /\ ~(rom /\ o.opt = "-r"))

----------------------------------------------------------------------------
(* The process.                                                              *)

\* The value of the last occurrence of an option, or a default.
LastVal(opts, opt, dflt) ==
    LET is == {i \in 1..Len(opts) : opts[i].opt = opt}
    IN  IF is = {} THEN dflt ELSE opts[CHOOSE i \in is : \A j \in is : j <= i].val

Given(opts, names) == \E i \in 1..Len(opts) : opts[i].opt \in names

\* The cards with a serial line, and the transports any of them knows.
Serial == {"acia", "dtl2000", "mageco", "oricon"}
Device == {"com:tty0", "com:tty1"}
Transports == {"loopback"} \cup Device

\* The setup of a card whose line cannot be opened (only a device can fail) is logged
\* and leaves the card out.
Unopened(o) == SUBSET {c \in Serial : LastVal(o, cards_get[c].enable, "") \in Device}

\* The cards that the options set up; the lines of those in out could not be opened.
Machine(o, out) ==
    LET ext == Given(o, {"--loci-emu", "--loci-hw"})
        jas == Given(o, {"--jasmin-rom"})
        plain == {c \in Card \ {"microdisc", "jasmin", "loci"} :
                     Given(o, {cards_get[c].enable})} \ out
    IN  [on |-> plain
              \cup (IF jas THEN {"jasmin"} ELSE {})
              \cup (IF ~jas /\ Given(o, {"--disk-rom"}) THEN {"microdisc"} ELSE {})
              \cup (IF Given(o, {"--loci", "--loci-sdimg", "--loci-emu",
                                 "--loci-hw", "--loci-web"})
                    THEN {"loci"} ELSE {}),
         external |-> ext,
         rom |-> LastVal(o, "-r", "basic11b.rom"),
         diskrom |-> LastVal(o, "--disk-rom", ""),
         jasminrom |-> LastVal(o, "--jasmin-rom", ""),
         serial |-> LastVal(o, "--serial", "")]

\* A setup refuses, and the process ends: a transport the card does not know, or cards
\* that cannot be together.
Refuses(o, out) ==
    LET on == Machine(o, out).on
        midi == on \cap {"mageco", "oricon"} # {}
    IN  \/ \E c \in Serial : /\ Given(o, {cards_get[c].enable})
                             /\ LastVal(o, cards_get[c].enable, "") \notin
                                  Transports \cup (IF c = "acia" THEN {"picowifi"} ELSE {})
        \/ /\ "jasmin" \in on
           /\ (Given(o, {"--disk-rom"}) \/ "dtl2000" \in on \/ midi)
        \/ /\ "mea8000" \in on
           /\ \/ "sp0256" \in on
              \/ midi /\ AddrOf(LastVal(o, "--mea8000-addr", "03FE")) >= 1022

\* A LOCI-USB that answers is taken for the LOCI card when no disk interface is chosen.
main_auto_loci_usb(o, answers) ==
    IF answers /\ UsbLoci # "" /\ "usb" \in Backends
       /\ Machine(o, {}).on \cap {"loci", "microdisc", "jasmin"} = {}
    THEN <<Opt("--loci-hw", UsbLoci)>> ELSE <<>>

VARIABLES
    argv,       \* the command line of the running process (emu->argv)
    opts,       \* every option it parsed: the command line, then phosphoric.cfg
    cfg,        \* phosphoric.cfg
    menu,       \* the cards pages of the F1 menu
    dead,       \* the cards whose line could not be opened
    wanted,     \* ghost: the cards and the ROM chosen for this process, if any were
    launches    \* processes started so far

cardVars == <<argv, opts, dead, cfg, menu, wanted, launches>>

ClosedMenu == [page |-> "closed", sel |-> "", key |-> "", edits |-> 0,
           cards |-> cards_state_defaults, orig |-> cards_state_defaults]

Shut == [ClosedMenu EXCEPT !.edits = menu.edits]

\* A text left empty stands for the default: neither the options nor phosphoric.cfg
\* have it.
Filled(st) ==
    [c \in Card |-> [st[c] EXCEPT !.v = [k \in Keys[c] |->
        IF st[c].v[k] = "" THEN cards_state_defaults[c].v[k] ELSE st[c].v[k]]]]

\* What a state of the cards means: the cards that are on, with the parameters
\* that apply to them (a port only for a real modem, detected or not; the LOCI
\* menu is a choice of ROM).
Effective(st) ==
    LET n == loci_hw_normalize(loci_modem_normalize(Filled(st)))
        used(c, k) ==
            /\ cards_param_applies(c, n[c], k)
            /\ <<c, k>> # <<"loci", "menu">>
            /\ k = "port" => n[c].v["modem"] = "reel"
    IN  [c \in {d \in Card : n[d].on} |->
            [k \in {j \in Keys[c] : used(c, j)} |->
                IF k = "port" THEN Port(n[c].v[k], UsbPico) ELSE n[c].v[k]]]

\* The ROM: the menu of the LOCI if it is chosen, never without its card, otherwise
\* the one before.
RomFor(st, before) ==
    IF MenuRom(st) THEN "locirom"
    ELSE IF before = "locirom" /\ ~(st["loci"].on /\ st["loci"].v["mode"] = "integre")
         THEN "basic11b.rom" ELSE before

Choice(st, before) == [cards |-> Effective(st), rom |-> RomFor(st, before)]

Up == ~Refuses(opts, dead)

\* A command line is typed: phosphoric.cfg completes it, then the LOCI-USB.
Started(line, answers) ==
    LET more == line \o cards_config_argv(cfg', line)
        found == main_auto_loci_usb(more, answers)
    IN  /\ argv' = line \o found
        /\ opts' = more \o found
        /\ dead' \in Unopened(opts')
Lines == {line \in CliLines : Attached \/ \A i \in 1 .. Len(line) : ~line[i].inl}

CardsInit ==
    /\ cfg = NoCfg
    /\ \E line \in Lines, answers \in BOOLEAN :
         /\ argv = line \o main_auto_loci_usb(line, answers)
         /\ opts = argv
    /\ dead \in Unopened(opts)
    /\ menu = ClosedMenu
    /\ wanted = {}
    /\ launches = 1

\* F1: the menu opens on the cards of the running machine, or closes.
iomenu_toggle ==
    /\ Up /\ launches < MaxLaunches
    /\ menu' = IF menu.page # "closed" THEN Shut
               ELSE LET st == cards_state_from(Machine(opts, dead), argv)
                    IN  [Shut EXCEPT !.page = "cards", !.cards = st, !.orig = st]
    /\ UNCHANGED <<argv, opts, dead, cfg, wanted, launches>>

Menu(m) ==
    /\ menu' = m
    /\ UNCHANGED <<argv, opts, dead, cfg, wanted, launches>>

\* The list of cards: open a card's page, or go back to the running machine.
cards_key ==
    /\ menu.page = "cards"
    /\ \/ \E c \in Touched : Menu([menu EXCEPT !.page = "card", !.sel = c])
       \/ Menu([menu EXCEPT !.cards = menu.orig])

Edit(st) == Menu([menu EXCEPT !.cards = st, !.edits = @ + 1])

\* A card's page: its switch, a parameter, back to the list.
card_key ==
    /\ menu.page = "card"
    /\ LET c == menu.sel
           st == menu.cards
       IN  \/ /\ menu.edits < MaxEdits
              /\ \/ Edit(cards_set_on(st, c, ~st[c].on))
                 \/ \E p \in ParamsOf[c] :
                      /\ cards_param_applies(c, st[c], p.key)
                      /\ \/ /\ st[c].v[p.key] # Default(p)
                            /\ Edit(SetValue(st, c, p.key, Default(p)))
                         \/ /\ p.kind = "BOOL"
                            /\ Edit(SetValue(st, c, p.key,
                                 IF st[c].v[p.key] = "oui" THEN "non" ELSE "oui"))
                         \/ /\ p.kind = "CHOICE"
                            /\ Edit(SetValue(st, c, p.key,
                                 cards_choice_next(p, st[c].v[p.key])))
                         \/ /\ p.kind \in {"FILE", "TEXT", "HEX", "DIR"}
                            /\ p.key \in DOMAIN Typed
                            /\ Menu([menu EXCEPT !.page = "edit", !.key = p.key])
           \/ Menu([menu EXCEPT !.page = "cards", !.sel = ""])

\* A value is typed or picked; an address outside the I/O page is refused, an empty
\* text is not.
edit_key ==
    /\ menu.page = "edit"
    /\ LET c == menu.sel
           p == CHOOSE q \in ParamsOf[c] : q.key = menu.key
           back == [menu EXCEPT !.page = "card", !.key = ""]
       IN  \/ Menu(back)
           \/ \E val \in Typed[menu.key] :
                /\ p.kind = "HEX" /\ val # "" => AddrOf(val) # 0
                /\ Menu([back EXCEPT !.cards = SetValue(menu.cards, c, p.key, val),
                                     !.edits = @ + 1])

\* Save configuration: the choices of the open menu go to the file.
iomenu_config_save ==
    /\ menu.page = "cards"
    /\ cfg' = cards_cfg_write(menu.cards)
    /\ UNCHANGED <<argv, opts, dead, menu, wanted, launches>>

\* Apply: the process restarts with the chosen cards.
ApplyCards ==
    /\ menu.page = "cards"
    /\ menu.cards # menu.orig
    /\ ~cards_conflict(menu.cards)
    /\ argv' = cards_build_argv(menu.cards, argv)
    /\ opts' = argv' /\ dead' \in Unopened(opts')
    /\ wanted' = {Choice(menu.cards, Machine(opts, dead).rom)}
    /\ menu' = Shut
    /\ launches' = launches + 1
    /\ UNCHANGED cfg

\* The user quits and types a command line.
Relaunch ==
    /\ menu.page = "closed" /\ launches < MaxLaunches
    /\ UNCHANGED <<cfg, menu>>
    /\ \E line \in Lines, answers \in BOOLEAN :
         /\ Started(line, answers)
         /\ LET kept == cards_cfg_read(cfg)
                chosen == IF argv' = line THEN kept
                          ELSE SetValue(cards_set_on(kept, "loci", TRUE), "loci", "mode", "usb")
            IN wanted' = IF cfg.there /\ cards_cli_mentioned(line) = {} /\ ~cards_conflict(kept)
                         THEN {Choice(chosen, LastVal(line, "-r", "basic11b.rom"))} ELSE {}
    /\ launches' = launches + 1

CardsNext ==
    \/ iomenu_toggle
    \/ cards_key
    \/ card_key
    \/ edit_key
    \/ iomenu_config_save
    \/ ApplyCards
    \/ Relaunch
----------------------------------------------------------------------------

\* The cards of the machine, read from every option it was given.
Running == cards_state_from(Machine(opts, dead), opts)

\* A process started by the menu, or with the cards of phosphoric.cfg alone, sets up
\* exactly the cards that were chosen, with the parameters that apply to them, but for
\* those whose line could not be opened, and with the ROM they ask for: the options
\* rebuilt by cards_build_argv are read back to the same choice, whatever the earlier
\* launch held.  A choice that the setup of a card refuses ends the process.
RunsWhatWasChosen ==
    Up => \A w \in wanted :
        /\ Effective(Running) = w.cards
        /\ Machine(opts, dead).rom = w.rom
        /\ Machine(opts, dead).on =
             (DOMAIN w.cards \cup (IF loci_modem_on(Running) THEN {"acia"} ELSE {})) \ dead

\* A card that the command line mentions is as the command line says: what
\* phosphoric.cfg adds neither changes it nor switches it off through its
\* exclusive group.
CommandLineWins ==
    \A c \in cards_cli_mentioned(argv) :
        FoldLeft(ReadOption, cards_state_defaults, opts)[c]
            = FoldLeft(ReadOption, cards_state_defaults, argv)[c]

\* The cards a user chose are the cards that run: the menu's restart, the
\* configuration file and the command line never mix into another machine.
CardsAsChosen == RunsWhatWasChosen /\ CommandLineWins

\* What the documentation of cards_state_from says: the menu opens on the
\* cards of the running machine, those of phosphoric.cfg included.
MenuShowsMachine ==
    Effective(cards_state_from(Machine(opts, dead), argv)) = Effective(Running)

\* What the menu's check for conflicts is there for: a machine it lets through starts.
MenuStarts == launches > 1 /\ Given(argv, {"--no-config-cards"}) => Up
============================================================================
