----------------------------- MODULE MCDiskBoard -----------------------------
(* DiskBoard with two drives, one of them empty, and floppies of two tracks *)
(* with two sectors of two bytes.                                           *)
EXTENDS DiskBoard

CONSTANTS m1, m2, none

MCMedia == {m1, m2}
MCLoaded == [d \in 0 .. 1 |-> IF d = 0 THEN m1 ELSE none]
MCDamaged == [d \in 0 .. 1 |-> IF d = 0 THEN {<<0, 1, 1>>} ELSE {}]
MCContent == [c \in Cell |-> (c[1][3] + c[2]) % 4]
MCBoth == [d \in 0 .. 1 |-> IF d = 0 THEN m1 ELSE m2]
MCUndamaged == [d \in 0 .. 1 |-> {}]
MCFitted == {<<"microdisc", "REAL">>, <<"jasmin", "FAST">>}
MCMicrodisc == {<<"microdisc", "REAL">>}

=============================================================================
