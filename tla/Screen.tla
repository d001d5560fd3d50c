------------------------------- MODULE Screen -------------------------------
(***************************************************************************)
(* The cursor of arch/i386/tty.c: tty_putchar_t one access at a time, as   *)
(* a task runs it with interrupts enabled, and all at once, as the network *)
(* handler does in the middle of it, to print a dot for each packet        *)
(* (net_rx_pkt) or warn of a dropped one (kwarn).  There is no lock, and   *)
(* tty_row and tty_col are read and written back in separate instructions. *)
(*                                                                         *)
(* What is on the screen is left out, and so are its colours and the       *)
(* hardware's copy of the cursor, which nothing reads: of a store into     *)
(* tty_buf the model keeps the cell it is about to go to.  reg and ch are  *)
(* 0 when their value is not needed any more.                                  *)
(***************************************************************************)
EXTENDS Naturals, Sequences, SequencesExt

CONSTANTS VGA_WIDTH, VGA_HEIGHT, Warning  \* Warning: what kwarn prints

ASSUME ScreenAssumption ==
    /\ VGA_WIDTH \in Nat \ {0} /\ VGA_WIDTH % 4 = 0 /\ VGA_HEIGHT \in Nat \ {0}
    /\ Warning \in Seq(Nat)

VARIABLES
    tty_row, tty_col,
    at,      \* where the task is in tty_putchar_t; "out": it is not
    ch,      \* the character it prints
    reg      \* the register of a load, add and store

screenVars == <<tty_row, tty_col, at, ch, reg>>

Tab == 9
Backspace == 8
Newline == 10
Cell(row, col) == row * VGA_WIDTH + col
Outside(cell) == cell >= VGA_HEIGHT * VGA_WIDTH

\* tty_init.
ScreenInit ==
    /\ tty_row = 0 /\ tty_col = 0
    /\ at = "out" /\ ch = 0 /\ reg = 0

-----------------------------------------------------------------------------
(* tty_putchar_t without interruption *)

\* The new line when a line is full or ended.
Wrap(s, c) == IF s.col >= VGA_WIDTH \/ c = Newline THEN [s EXCEPT !.col = 0, !.row = @ + 1] ELSE s

\* The scroll at the bottom of the screen.
Bottom(s) == IF s.row >= VGA_HEIGHT THEN [s EXCEPT !.row = VGA_HEIGHT - 1] ELSE s

Advance(s, c) ==
    CASE c = Tab -> [s EXCEPT !.col = @ + 4 - (@ % 4)]
      [] c = Newline -> s
      [] OTHER -> [s EXCEPT !.col = @ + 1]

Put(s, c) == IF c = Backspace THEN s ELSE Bottom(Wrap(Advance(s, c), c))

Prints(text) ==
    LET s == FoldLeft(Put, [row |-> tty_row, col |-> tty_col], text)
    IN  /\ tty_row' = s.row /\ tty_col' = s.col
        /\ UNCHANGED <<at, ch, reg>>

\* The handler interrupts the task between any two of its accesses.
net_rx_pkt == Prints(<<46>>)
kwarn == Prints(Warning)

-----------------------------------------------------------------------------
(* tty_putchar_t one access at a time *)

tty_putchar(c) ==
    /\ at = "out"
    /\ ch' = c
    /\ at' = CASE c = Tab -> "tab" [] c = Backspace -> "out" [] c = Newline -> "wrap" [] OTHER -> "cell"
    /\ UNCHANGED <<tty_row, tty_col, reg>>

Load(here, value, there) ==
    /\ at = here /\ reg' = value /\ at' = there
    /\ UNCHANGED <<tty_row, tty_col, ch>>

StoreCol(here, value, there) ==
    /\ at = here /\ tty_col' = value /\ at' = there
    /\ reg' = 0
    /\ UNCHANGED <<tty_row, ch>>

\* Mutant: the test of the last line looks for one row too many.
MutAtBottom == tty_row > VGA_HEIGHT

AtBottom == tty_row >= VGA_HEIGHT

StoreRow(here, value, there) ==
    /\ at = here /\ tty_row' = value /\ at' = there
    /\ reg' = 0
    /\ UNCHANGED <<tty_col, ch>>

Test(here, cond, yes, no) ==
    /\ at = here /\ at' = (IF cond THEN yes ELSE no)
    /\ ch' = 0
    /\ UNCHANGED <<tty_row, tty_col, reg>>

WriteCell ==
    /\ at = "write" /\ at' = "incload"
    /\ reg' = 0
    /\ UNCHANGED <<tty_row, tty_col, ch>>

\* tty_scroll, before "setrow", stays inside the screen.
PutStep ==
    \/ Load("tab", tty_col, "tabstore")
    \/ StoreCol("tabstore", reg + 4 - (reg % 4), "wrap")
    \/ Load("cell", Cell(tty_row, tty_col), "write")
    \/ WriteCell
    \/ Load("incload", tty_col, "incstore")
    \/ StoreCol("incstore", reg + 1, "wrap")
    \/ Test("wrap", tty_col >= VGA_WIDTH \/ ch = Newline, "newline", "bottom")
    \/ StoreCol("newline", 0, "rowload")
    \/ Load("rowload", tty_row, "rowstore")
    \/ StoreRow("rowstore", reg + 1, "bottom")
    \/ Test("bottom", AtBottom, "setrow", "out")
    \/ StoreRow("setrow", VGA_HEIGHT - 1, "out")

\* tty_clear: its two stores; filling the screen stays inside it.
tty_clear ==
    /\ at = "out" /\ at' = "home" /\ tty_row' = 0
    /\ UNCHANGED <<tty_col, ch, reg>>
Home == StoreCol("home", 0, "out")

-----------------------------------------------------------------------------
(* Properties *)

\* However the network handler's printing cuts into it, when tty_putchar_t is over the
\* cursor is on the screen again.
CursorSettles == at = "out" => tty_row < VGA_HEIGHT /\ tty_col < VGA_WIDTH

\* Nothing is written outside the screen: not the character of the task, and nor the one
\* a handler would print now. (When the task has moved to the next row and not yet
\* scrolled, the handler's goes below it.)
WritesOnScreen == ~Outside(Cell(tty_row, tty_col)) /\ (at = "write" => ~Outside(reg))
=============================================================================
