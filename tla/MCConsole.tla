------------------------------ MODULE MCConsole ------------------------------
(***************************************************************************)
(* Console for TLC: a screen of 2 rows and 4 columns, a shell whose lines  *)
(* are one character long, a warning of one character and a newline, and   *)
(* commands that print a tab.                                              *)
(***************************************************************************)
EXTENDS Console

WarningText == <<87, 10>>
ReplyText == <<9>>
ClearLine == <<65>>
=============================================================================
