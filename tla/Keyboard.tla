------------------------------ MODULE Keyboard ------------------------------
(***************************************************************************)
(* From a key to getchar: kbd_isr of arch/i386/ps2_kbd.c stores the last   *)
(* make code in a one-byte buffer and keeps the modifiers; tty_getchar of  *)
(* arch/i386/tty.c polls the buffer from a task, converts what it reads    *)
(* with the modifiers as they are at that moment, and then clears it.      *)
(*                                                                         *)
(* A scan code is modelled by its entry in xt_scan, a 16-bit key code. The *)
(* codes the table has no entry for (F11, F12, the keyboard's              *)
(* acknowledgements) are all Off; what the code reads past the end of the  *)
(* table for them is fixed by the build: past, any member of Strays.       *)
(* The LEDs that update_leds sets are write-only and left out.             *)
(*                                                                         *)
(* The codes of the Extended keys follow a prefix byte (0xE0 or 0xE1), and *)
(* the keyboard may wrap them in fake codes of a shift key, each after a   *)
(* prefix of its own (print screen; the grey keys with num lock or shift): *)
(* a press while no shift key is held, or a release of one that is, undone *)
(* later. They are free to come whenever a press may still follow.         *)
(*                                                                         *)
(* The interrupt may arrive between any two of the reader's accesses.      *)
(* The typist presses at most MaxPresses keys, to keep the model finite.   *)
(***************************************************************************)
EXTENDS Naturals, Sequences

CONSTANTS
    Keys,        \* the keys of the keyboard: members of xt_scan, and Off
    Extended,    \* the ones of them whose codes follow a prefix
    Prefix,      \* that prefix
    Off,         \* a scan code past the end of xt_scan
    Strays,      \* what may lie in memory there
    MaxPresses

KEY_LSHIFT == 8192
KEY_RSHIFT == 8195
KEY_CAPSLOCK == 12288
Shifts == {KEY_LSHIFT, KEY_RSHIFT}
UInt16 == 0 .. 65535

ASSUME KeyAssumption ==
    /\ MaxPresses \in Nat
    /\ Off \notin UInt16 /\ Keys \ {Off} \subseteq UInt16 /\ Strays \subseteq UInt16
    /\ Extended \subseteq Keys /\ Prefix \notin UInt16 \cup {Off}

KEY_UNKNOWN == 0     \* xt_scan[0]: what the cleared buffer stands for

VARIABLES
    past,       \* what xt_scan[Off] yields in this build
    queue,      \* the controller's output: scan codes not yet read
    down,       \* the keys the typist holds down
    faked,      \* the fake codes in force: <<s, TRUE>> a press of s, <<s, FALSE>> a release
    mixed,      \* ghost: since no shift key was held, two were or a fake code was sent
    presses,    \* how many make codes have been sent
    buf,        \* the make code, with the number of the press as a ghost
    shift,
    capslock,
    pc,         \* where tty_getchar is; "out": it is not running
    key,        \* the key it has read, with the number of the press as a ghost
    c,          \* the character it has converted it to
    got         \* what the calls of getchar have returned, with the number as a ghost

keyVars == <<past, queue, down, faked, mixed, presses, buf, shift, capslock, pc, key, c, got>>

Make(k, n) == [code |-> k, make |-> TRUE, n |-> n]
Break(k) == [code |-> k, make |-> FALSE, n |-> 0]
Cleared == [code |-> KEY_UNKNOWN, n |-> 0]

xt_scan(code) == IF code = Off THEN past ELSE code

KeyboardInit ==
    /\ past \in Strays
    /\ queue = <<>>
    /\ down = {}
    /\ faked = {}
    /\ mixed = FALSE
    /\ presses = 0
    /\ buf = Cleared
    /\ shift = FALSE
    /\ capslock = FALSE
    /\ pc = "out"
    /\ key = [code |-> 0, n |-> 0]
    /\ c = 0
    /\ got = <<>>

typist == <<queue, down, faked, mixed, presses>>
driver == <<buf, shift, capslock>>
reader == <<pc, key, c, got>>

-----------------------------------------------------------------------------
(* The typist and the PS/2 controller (external) *)

Code(k, make) == IF make THEN Make(k, presses + 1) ELSE Break(k)

\* The code of k goes to the controller, after a prefix if it has one.
Send(k, make, prefixed) ==
    /\ make => presses < MaxPresses
    /\ presses' = IF make THEN presses + 1 ELSE presses
    /\ queue' = queue \o (IF prefixed THEN <<Break(Prefix)>> ELSE <<>>) \o <<Code(k, make)>>
    /\ UNCHANGED <<past, driver, reader>>

\* The ghost, from what is held and in force after the step.
Mixes ==
    mixed' = /\ faked' # {} \/ Shifts \subseteq down' \/ mixed
             /\ faked' # {} \/ down' \cap Shifts # {}

\* A key pressed, or held until the keyboard repeats its make code.
Press(k) ==
    /\ Send(k, TRUE, k \in Extended)
    /\ down' = down \cup {k}
    /\ UNCHANGED faked
    /\ Mixes

Release(k) ==
    /\ k \in down
    /\ Send(k, FALSE, k \in Extended)
    /\ down' = down \ {k}
    /\ faked' = faked \ {<<k, FALSE>>}
    /\ Mixes

Fake(s, make) ==
    /\ Extended # {} /\ presses < MaxPresses /\ <<s, make>> \notin faked
    /\ IF make THEN s = KEY_LSHIFT /\ down \cap Shifts = {} ELSE s \in down
    /\ Send(s, make, TRUE)
    /\ faked' = faked \cup {<<s, make>>}
    /\ UNCHANGED down
    /\ Mixes

Undo(s, make) ==
    /\ <<s, make>> \in faked
    /\ Send(s, ~make, TRUE)
    /\ faked' = faked \ {<<s, make>>}
    /\ UNCHANGED down
    /\ Mixes

-----------------------------------------------------------------------------
(* kbd_isr *)

\* Mutant: a break code of the right shift key is not recognised.
MutHandle(code) ==
    LET k == xt_scan(code.code) IN
    /\ buf' = IF code.make THEN [code |-> code.code, n |-> code.n] ELSE buf
    /\ shift' = IF k = KEY_LSHIFT \/ (k = KEY_RSHIFT /\ code.make) THEN code.make ELSE shift
    /\ capslock' = IF code.make /\ k = KEY_CAPSLOCK THEN ~capslock ELSE capslock
    /\ queue' = Tail(queue)

\* One scan code. A break code clears its modifier; a make code fills the buffer,
\* whatever the key, and sets its modifier or toggles its lock. Setting the LEDs makes the
\* keyboard acknowledge the two bytes with 0xFA, which comes back as a break code.
Handle(code) ==
    LET k == xt_scan(code.code)
        toggles == code.make /\ k = KEY_CAPSLOCK
    IN
    /\ buf' = IF code.make THEN [code |-> code.code, n |-> code.n] ELSE buf
    /\ shift' = IF k \in Shifts THEN code.make ELSE shift
    /\ capslock' = IF toggles THEN ~capslock ELSE capslock
    /\ queue' = Tail(queue) \o IF toggles THEN <<Break(Off), Break(Off)>> ELSE <<>>

\* A prefix is thrown away: the code after it is taken for an unprefixed one.
kbd_isr ==
    /\ queue # <<>>
    /\ IF Head(queue).code = Prefix THEN queue' = Tail(queue) /\ UNCHANGED driver
       ELSE Handle(Head(queue))
    /\ UNCHANGED <<past, down, faked, mixed, presses, reader>>

-----------------------------------------------------------------------------
(* tty_getchar *)

tty_getchar ==
    /\ pc = "out"
    /\ pc' = "poll"
    /\ UNCHANGED <<past, typist, driver, key, c, got>>

\* Mutant: the buffer is cleared before it is read.
MutGetKey ==
    /\ pc = "poll"
    /\ buf' = Cleared
    /\ key' = [code |-> xt_scan(KEY_UNKNOWN), n |-> 0]
    /\ pc' = "convert"
    /\ UNCHANGED <<past, typist, shift, capslock, c, got>>

\* kbd_get_key: the entry of xt_scan, cut to eight bits.
kbd_get_key ==
    /\ pc = "poll"
    /\ key' = [code |-> xt_scan(buf.code) % 256, n |-> buf.n]
    /\ pc' = "convert"
    /\ UNCHANGED <<past, typist, driver, c, got>>

kbd_is_ascii_printable(k) == k \in 32 .. 126 \cup {8, 9, 10}

\* The character above a digit or a sign on its key: the cases of the switch for the two
\* rows the model's keys come from.
Shifted(k) == CASE k = 49 -> 33 [] k = 50 -> 64 [] k = 45 -> 95 [] k = 61 -> 43 [] OTHER -> k

\* With the modifiers as they are now, not as they were when the key was pressed.
kbd_key_to_ascii(k) ==
    IF ~kbd_is_ascii_printable(k) THEN 0
    ELSE IF (shift \/ capslock) /\ k \in 97 .. 122 THEN k - 32
    ELSE IF shift /\ ~capslock THEN Shifted(k)
    ELSE k

\* The condition of the polling loop.
Convert ==
    /\ pc = "convert"
    /\ c' = kbd_key_to_ascii(key.code)
    /\ pc' = IF c' = 0 THEN "poll" ELSE "clear"
    /\ UNCHANGED <<past, typist, driver, key, got>>

\* Mutant: the buffer is not cleared.
MutClrKey ==
    /\ pc = "clear"
    /\ got' = Append(got, [char |-> c, n |-> key.n])
    /\ pc' = "out"
    /\ Len(got) < MaxPresses
    /\ UNCHANGED <<past, typist, driver, key, c>>

\* kbd_clr_key, whatever the buffer holds by now, and return.
kbd_clr_key ==
    /\ pc = "clear"
    /\ buf' = Cleared
    /\ got' = Append(got, [char |-> c, n |-> key.n])
    /\ pc' = "out"
    /\ key' = [code |-> 0, n |-> 0]
    /\ UNCHANGED <<past, typist, shift, capslock, c>>

GetcharStep == kbd_get_key \/ Convert \/ kbd_clr_key

-----------------------------------------------------------------------------
(* Properties *)

\* getchar returns the keys in the order they were pressed and no press twice, although
\* its clear of the buffer races with the next key's interrupt (a key may be lost to it).
InOrder == \A i, j \in DOMAIN got : i < j => got[i].n < got[j].n

\* Once every scan code has been read, the shift flag of kbd_isr is on only while a shift
\* key is held or a fake press is in force; and if since no shift key was held no two
\* were, and no fake code came, exactly while one is: unless the memory past xt_scan, read
\* for acknowledgements and F11, happens to hold a shift key's code.
ShiftSettles ==
    (queue = <<>> /\ past \notin Shifts) =>
        /\ shift => down \cap Shifts # {} \/ \E s \in Shifts : <<s, TRUE>> \in faked
        /\ ~mixed => (shift <=> down \cap Shifts # {})

\* What a typist expects of shift, whatever keys are held and faked. (The code fails it:
\* either key's release clears the flag, and a fake code is taken for a real one.)
ShiftFollowsKeys ==
    (queue = <<>> /\ past \notin Shifts) => (shift <=> down \cap Shifts # {})

\* A printable key in the buffer when getchar polls is returned by it, or overwritten by
\* a later key: whatever the modifiers do between its read, conversion and clear.
KeyReturned ==
    \A n \in 1 .. MaxPresses :
        (pc = "poll" /\ buf.n = n /\ kbd_is_ascii_printable(xt_scan(buf.code) % 256))
        ~> (buf.n > n \/ \E i \in DOMAIN got : got[i].n = n)

\* No key of the table's own codes, which stand for keys without a character, is returned
\* by getchar as one. (kbd_get_key cuts the 16-bit code to eight bits: F8, F9 and F10
\* come out as backspace, tab and newline.)
OtherKeysSilent ==
    (pc = "clear" /\ key.n = buf.n) => xt_scan(buf.code) < 128
=============================================================================
