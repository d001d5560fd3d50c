-------------------------------- MODULE Ps2 --------------------------------
(***************************************************************************)
(* ps2_init of arch/i386/ps2.c and kbd_init of arch/i386/ps2_kbd.c against *)
(* the controller, which takes what is written to it, and answers, in its  *)
(* own time.  send_cmd and write_data wait until the input buffer is free; *)
(* ps2_read_data means to wait for an answer and does not (it tests        *)
(* status & !1, which is 0), so it may read what was there before.         *)
(*                                                                         *)
(* A byte is one of the values the code tells apart: 0, and not 0.         *)
(***************************************************************************)
EXTENDS Naturals, Sequences

CONSTANT Working  \* which of the ports 1 and 2 may pass their tests

ASSUME Ps2Assumption == Working \subseteq SUBSET {1, 2}

VARIABLES
    ps2,       \* where ps2_init and kbd_init are
    input,     \* the byte written to the controller, or "none"
    output,    \* the byte it holds for the CPU, or "none"
    last,      \* what the data port reads when it holds none: the last byte, at first the BIOS's
    answers,   \* bytes the controller and the devices are about to send
    enabled,   \* the ports that are enabled
    works      \* the ports that pass their test; it does not change

ps2Vars == <<ps2, input, output, last, answers, enabled, works>>

Zero == "0"
PS2_TESTPASS == "0x55"
Failed == "1"
Ack == "0xFA"

Ps2Init ==
    /\ ps2 = "disable1"
    /\ input = "none"
    /\ output = "none" /\ last \in {Zero, Ack}
    /\ answers = <<>>
    /\ enabled = {1}
    /\ works \in Working

-----------------------------------------------------------------------------
(* The controller (external) *)

Answer(byte) ==
    CASE byte = "selftest" -> <<PS2_TESTPASS>>
      [] byte = "test1" -> <<IF 1 \in works THEN Zero ELSE Failed>>
      [] byte = "test2" -> <<IF 2 \in works THEN Zero ELSE Failed>>
      [] byte \in {"reset", "leds", "data"} /\ 1 \in works -> <<Ack>>
      [] OTHER -> <<>>

ControllerTakes ==
    /\ input # "none"
    /\ input' = "none"
    /\ answers' = answers \o Answer(input)
    /\ enabled' = CASE input = "disable1" -> enabled \ {1}
                    [] input = "disable2" -> enabled \ {2}
                    [] input = "enable1" -> enabled \cup {1}
                    [] input = "enable2" -> enabled \cup {2}
                    [] OTHER -> enabled
    /\ UNCHANGED <<ps2, output, last, works>>

ControllerAnswers ==
    /\ answers # <<>> /\ output = "none"
    /\ output' = Head(answers)
    /\ answers' = Tail(answers)
    /\ UNCHANGED <<ps2, input, last, enabled, works>>

-----------------------------------------------------------------------------
(* The CPU *)

\* Mutant: the wait is for an empty output buffer.
MutSend(here, byte, there) ==
    /\ ps2 = here
    /\ output = "none"
    /\ input' = byte
    /\ ps2' = there
    /\ UNCHANGED <<output, last, answers, enabled, works>>

\* send_cmd and write_data: the loop on INBUFFULL, then the byte.
Send(here, byte, there) ==
    /\ ps2 = here
    /\ input = "none"
    /\ input' = byte
    /\ ps2' = there
    /\ UNCHANGED <<output, last, answers, enabled, works>>

\* What inb(PS2_DATA_PORT) reads.
DataPort == IF output = "none" THEN last ELSE output

\* ps2_read_data, and where the code goes on.
ps2_read_data(here, ifzero, ifnot) ==
    /\ ps2 = here
    /\ last' = DataPort
    /\ output' = "none"
    /\ ps2' = IF DataPort = Zero THEN ifzero ELSE ifnot
    /\ UNCHANGED <<input, answers, enabled, works>>

\* The flush reads the port whatever the controller is doing.
Flush ==
    /\ ps2 = "flush"
    /\ last' = DataPort
    /\ output' = "none"
    /\ ps2' = "selftest"
    /\ UNCHANGED <<input, answers, enabled, works>>

\* A self test that answers with 0 has failed; kbd_init follows all the same.
ps2_init ==
    \/ Send("disable1", "disable1", "disable2")
    \/ Send("disable2", "disable2", "flush")
    \/ Flush
    \/ Send("selftest", "selftest", "selfread")
    \/ ps2_read_data("selfread", "leds", "test1")
    \/ Send("test1", "test1", "read1")
    \/ ps2_read_data("read1", "enable1", "test2")
    \/ Send("enable1", "enable1", "reset1")
    \/ Send("reset1", "reset", "test2")
    \/ Send("test2", "test2", "read2")
    \/ ps2_read_data("read2", "enable2", "leds")
    \/ Send("enable2", "enable2", "write2")
    \/ Send("write2", "write2in", "reset2")
    \/ Send("reset2", "write2data", "leds")

\* The two bytes of update_leds.
kbd_init ==
    \/ Send("leds", "leds", "leddata")
    \/ Send("leddata", "data", "done")

\* kbd_isr takes one byte.
kbd_isr ==
    /\ output # "none"
    /\ last' = output
    /\ output' = "none"
    /\ UNCHANGED <<ps2, input, answers, enabled, works>>

-----------------------------------------------------------------------------
(* Properties *)

\* ps2.c:86, "test and enable ports": when ps2_init is over, the ports that are enabled
\* are the ones that passed their test. (An answer that comes late, or the acknowledgement
\* of the first device's reset, is taken for the answer to the next test.)
PortsAsTested ==
    (ps2 \in {"leds", "leddata", "done"} /\ input \notin {"enable1", "enable2", "reset", "write2data"})
        => enabled = works
=============================================================================
