------------------------------ MODULE Console ------------------------------
(***************************************************************************)
(* The shell at the console: dsh_loop of kernel/dsh.c reads a line with    *)
(* getchar (Keyboard), echoes each character (Screen) and runs the command *)
(* it makes.  The keyboard's handler and the network handler's printing    *)
(* come between any two accesses of the shell.                             *)
(*                                                                         *)
(* A line is told apart only as far as the console is concerned: the one   *)
(* that clears the screen, the empty one, and all others, which print.     *)
(***************************************************************************)
EXTENDS Keyboard, Screen

CONSTANTS
    LineMax,   \* 255: what fits in buf beside the terminating 0
    Clear,     \* the line "clear"
    Reply      \* what another command prints

ASSUME ConsoleAssumption == LineMax \in Nat /\ Len(Clear) <= LineMax

VARIABLES
    sh,     \* where dsh_loop is
    line,   \* the characters of buf before i
    text,   \* what printf has yet to print
    ran     \* ghost: the lines that were run

shellVars == <<sh, line, text, ran>>
vars == <<keyVars, screenVars, shellVars>>

Asterisk == 42

\* From the first prompt on; the greeting is left out.
Init ==
    /\ KeyboardInit /\ ScreenInit
    /\ sh = "print" /\ text = <<62>> /\ line = <<>> /\ ran = <<>>

-----------------------------------------------------------------------------

\* printf: one character after the other, then the shell reads.
printf ==
    /\ sh = "print" /\ at = "out"
    /\ IF text = <<>> THEN sh' = "read" /\ UNCHANGED <<screenVars, text>>
       ELSE tty_putchar(Head(text)) /\ text' = Tail(text) /\ UNCHANGED sh
    /\ UNCHANGED <<keyVars, line, ran>>

\* Mutant: the loop runs once more.
MutRoom == Len(line) <= LineMax

\* The condition of the reading loop.
Room == Len(line) < LineMax

Read ==
    /\ sh = "read" /\ Room
    /\ tty_getchar
    /\ sh' = "echo"
    /\ UNCHANGED <<screenVars, line, text, ran>>

Echo ==
    /\ sh = "echo" /\ pc = "out"
    /\ tty_putchar(c)
    /\ sh' = "store"
    /\ UNCHANGED <<keyVars, line, text, ran>>

\* An asterisk reboots the machine at once.
Store ==
    /\ sh = "store" /\ at = "out"
    /\ sh' = (CASE c = Newline -> "run" [] c = Asterisk -> "reboot" [] OTHER -> "read")
    /\ line' = IF sh' = "read" THEN Append(line, c) ELSE line
    /\ UNCHANGED <<keyVars, screenVars, text, ran>>

\* A full line is run without waiting for Enter; its Enter ends the next one.
Full ==
    /\ sh = "read" /\ ~Room
    /\ sh' = "run"
    /\ UNCHANGED <<keyVars, screenVars, line, text, ran>>

Run ==
    /\ sh = "run" /\ at = "out"
    /\ IF line = Clear THEN tty_clear ELSE UNCHANGED screenVars
    /\ text' = (IF line \in {<<>>, Clear} THEN <<>> ELSE Reply) \o <<62>>
    /\ sh' = "print"
    /\ line' = <<>>
    /\ ran' = Append(ran, line)
    /\ UNCHANGED keyVars

\* The accesses of getchar and of tty_putchar_t, while the shell is in them.
Inside ==
    \/ GetcharStep /\ UNCHANGED <<screenVars, shellVars>>
    \/ (PutStep \/ Home) /\ UNCHANGED <<keyVars, shellVars>>

ShellStep == printf \/ Read \/ Echo \/ Store \/ Full \/ Run \/ Inside

KeyInterrupt == kbd_isr /\ UNCHANGED <<screenVars, shellVars>>
NetInterrupt == (net_rx_pkt \/ kwarn) /\ UNCHANGED <<keyVars, shellVars>>
Typist ==
    /\ \/ \E k \in Keys : Press(k) \/ Release(k)
       \/ \E s \in Shifts, make \in BOOLEAN : Fake(s, make) \/ Undo(s, make)
    /\ UNCHANGED <<screenVars, shellVars>>

Next == ShellStep \/ KeyInterrupt \/ NetInterrupt \/ Typist

\* The interrupt is enabled and the shell, which polls, gets its share of the CPU.
Spec == Init /\ [][Next]_vars /\ WF_vars(ShellStep) /\ WF_vars(KeyInterrupt)

-----------------------------------------------------------------------------
(* Properties *)

Chars(s) == [i \in DOMAIN s |-> s[i].char]

\* The characters that go into a line.
Kept(chars) ==
    LET kept[i \in 0 .. Len(chars)] ==
          IF i = 0 THEN <<>>
          ELSE IF chars[i] \in {Newline, Asterisk} THEN kept[i - 1] ELSE Append(kept[i - 1], chars[i])
    IN  kept[Len(chars)]

\* What the shell runs is what getchar gave it: the lines it has run, with the one it is
\* reading, are the characters returned so far, none of them an Enter, and no line
\* overruns buf.
RunsWhatWasTyped ==
    LET typed == IF sh \in {"echo", "store"} /\ pc = "out" /\ got # <<>> THEN Front(got) ELSE got
    IN  /\ FlattenSeq(Append(ran, line)) = Kept(Chars(typed))
        /\ \A i \in DOMAIN ran : Len(ran[i]) <= LineMax
=============================================================================
