--------------------------------- MODULE Irq ---------------------------------
(***************************************************************************)
(* Hardware interrupts: the two cascaded 8259 PICs as arch/i386/pic.c      *)
(* drives them, the handler table of arch/i386/isr.c, and a task that      *)
(* attaches and detaches drivers while interrupts arrive.                  *)
(*                                                                         *)
(* A handler runs through an interrupt gate, so isr_handler is one step    *)
(* after the PIC has been acknowledged.  request_irq and release_irq run   *)
(* in a task: an interrupt may arrive between their two halves.            *)
(***************************************************************************)
EXTENDS Integers, SequencesExt

CONSTANTS
    Lines,     \* the IRQ lines with a device
    Ids,       \* the drivers: the id argument of request_irq
    Glitches   \* the lines that may drop before the CPU acknowledges them

Cascade == 2
Timer == 0
InTask == -1
ASSUME LinesAssumption == Lines \subseteq (0 .. 15) \ {Cascade} /\ Timer \in Lines /\ Glitches \subseteq Lines

VARIABLES
    irr,       \* lines the PICs have latched
    isr,       \* lines the PICs hold in service, as 0..15; the slave's also hold 2
    mask,      \* masked lines
    handlers,  \* handlers[line + 32] and the chain behind it
    quiet,     \* lines whose last driver has told its device to be silent
    cpu,       \* the line whose vector isr_handler is called with, or InTask
    todo,      \* what request_irq or release_irq has still to do
    took15,    \* ghost: the vector of line 15 has been taken, for a device or spurious
    panic      \* "uncaught interrupt"

vars == <<irr, isr, mask, handlers, quiet, cpu, todo, took15, panic>>

MasterLine(l) == IF l < 8 THEN l ELSE Cascade

\* isr_init and pic_init: no handlers, everything masked but the cascade.
Init ==
    /\ irr = {}
    /\ isr = {}
    /\ mask = Lines
    /\ handlers = [l \in Lines |-> <<>>]
    /\ quiet = {}
    /\ cpu = InTask
    /\ todo = <<"nothing", Timer>>
    /\ took15 = FALSE
    /\ panic = FALSE

-----------------------------------------------------------------------------
(* The 8259s (external) *)

\* A non-specific EOI ends the line of highest priority that this PIC has in service.
EndHighest(s, pic) ==
    s \ {l \in s \cap pic : \A k \in s \cap pic : l <= k}

Master == 0 .. 7
Slave == 8 .. 15

Free(l) ==
    /\ \A s \in isr \cap Master : MasterLine(l) < s
    /\ l \in Slave => \A s \in isr \cap Slave : l < s

Deliverable(l) == l \in irr \ mask /\ Free(l)

\* Does line k come before line l?
Before(k, l) == MasterLine(k) < MasterLine(l) \/ (MasterLine(k) = MasterLine(l) /\ k < l)

Highest(l) == Deliverable(l) /\ \A k \in Lines : Deliverable(k) => ~Before(k, l)

\* A device pulls its line; the PIC latches it, masked or not.
Raise(l) ==
    /\ ~panic
    /\ l \notin quiet
    /\ irr' = irr \cup {l}
    /\ UNCHANGED <<isr, mask, handlers, quiet, cpu, todo, took15, panic>>

\* The CPU, outside a handler, takes the interrupt.
Acknowledge(l) ==
    /\ ~panic /\ cpu = InTask
    /\ Highest(l)
    /\ irr' = irr \ {l}
    /\ isr' = isr \cup {l, MasterLine(l)}
    /\ cpu' = l
    /\ took15' = (took15 \/ l = 15)
    /\ UNCHANGED <<mask, handlers, quiet, todo, panic>>

\* The line has dropped meanwhile: the vector is the PIC's lowest, nothing of that PIC
\* is in service (but the master does serve the slave).
AcknowledgeDropped(l) ==
    /\ ~panic /\ cpu = InTask
    /\ l \in Glitches
    /\ Highest(l)
    /\ irr' = irr \ {l}
    /\ isr' = IF l \in Slave THEN isr \cup {Cascade} ELSE isr
    /\ cpu' = IF l \in Slave THEN 15 ELSE 7
    /\ took15' = (took15 \/ l \in Slave)
    /\ UNCHANGED <<mask, handlers, quiet, todo, panic>>

-----------------------------------------------------------------------------
(* isr_handler *)

\* Mutant: the master is not told of the slave's interrupts.
MutSendEoi(s, l) == IF l \in Slave THEN EndHighest(s, Slave) ELSE EndHighest(s, Master)

pic_send_eoi(s, l) ==
    EndHighest(IF l \in Slave THEN EndHighest(s, Slave) ELSE s, Master)

Chain(l) == IF l \in Lines THEN handlers[l] ELSE <<>>

pic_is_spurious(l) == l \in {7, 15} /\ ~({7, 15} \subseteq isr)

\* It also tells the master, but only if line 7 is what is in service.
Spurious(l) ==
    /\ pic_is_spurious(l)
    /\ \/ 7 \notin isr /\ UNCHANGED isr
       \/ 7 \in isr /\ isr' = EndHighest(isr, Master)
    /\ UNCHANGED panic

\* Acknowledge the interrupt, then call the chain; no handler is a panic.
Dispatch(l) ==
    /\ ~pic_is_spurious(l)
    /\ isr' = pic_send_eoi(isr, l)
    /\ panic' = (Chain(l) = <<>>)

\* Mutant: every interrupt on 7 is dispatched, spurious or not.
MutIsrHandler ==
    /\ ~panic /\ cpu # InTask
    /\ isr' = pic_send_eoi(isr, cpu)
    /\ panic' = (Chain(cpu) = <<>>)
    /\ cpu' = InTask
    /\ UNCHANGED <<irr, mask, handlers, quiet, todo, took15>>

\* Mutant: the EOI comes after the handlers; the timer's switches to another task.
MutEoiLast ==
    /\ ~panic /\ cpu # InTask
    /\ isr' = IF cpu = Timer THEN isr ELSE pic_send_eoi(isr, cpu)
    /\ cpu' = InTask
    /\ UNCHANGED <<irr, mask, handlers, quiet, todo, took15, panic>>

isr_handler ==
    /\ ~panic /\ cpu # InTask
    /\ Spurious(cpu) \/ Dispatch(cpu)
    /\ cpu' = InTask
    /\ UNCHANGED <<irr, mask, handlers, quiet, todo, took15>>

-----------------------------------------------------------------------------
(* request_irq and release_irq, called by a task *)

TaskRuns == ~panic /\ cpu = InTask
Attached(id, l) == \E i \in DOMAIN handlers[l] : handlers[l][i] = id

\* request_isr: the table entry, or a new link at the end of the chain.
request_isr(id, l) ==
    /\ TaskRuns /\ todo[1] = "nothing"
    /\ ~Attached(id, l)
    /\ handlers' = [handlers EXCEPT ![l] = Append(@, id)]
    /\ quiet' = quiet \ {l}
    /\ todo' = <<"unmask", l>>
    /\ UNCHANGED <<irr, isr, mask, cpu, took15, panic>>

\* The device is told to be silent before its driver detaches: its line drops.
Silence(l) ==
    /\ TaskRuns /\ todo[1] = "nothing"
    /\ Len(handlers[l]) = 1
    /\ quiet' = quiet \cup {l}
    /\ irr' = irr \ {l}
    /\ UNCHANGED <<isr, mask, handlers, cpu, todo, took15, panic>>

\* release_isr: the next one moves into the table, or the link is taken out.
release_isr(id, l) ==
    /\ TaskRuns /\ todo[1] = "nothing"
    /\ Len(handlers[l]) = 1 => l \in quiet
    /\ \E i \in DOMAIN handlers[l] :
         /\ handlers[l][i] = id /\ \A k \in 1 .. i - 1 : handlers[l][k] # id
         /\ handlers' = [handlers EXCEPT ![l] = RemoveAt(@, i)]
    /\ todo' = <<"mask", l>>
    /\ UNCHANGED <<irr, isr, mask, quiet, cpu, took15, panic>>

\* Mutant: release_irq masks a line that other drivers still use.
MutFinish ==
    /\ TaskRuns /\ todo[1] # "nothing"
    /\ mask' = IF todo[1] = "unmask" THEN mask \ {todo[2]} ELSE mask \cup {todo[2]}
    /\ todo' = <<"nothing", Timer>>
    /\ UNCHANGED <<irr, isr, handlers, quiet, cpu, took15, panic>>

\* pic_unmask_irq, or pic_mask_irq when no handler is left.
Finish ==
    /\ TaskRuns
    /\ \/ todo[1] = "unmask" /\ mask' = mask \ {todo[2]}
       \/ todo[1] = "mask" /\ handlers[todo[2]] = <<>> /\ mask' = mask \cup {todo[2]}
       \/ todo[1] = "mask" /\ handlers[todo[2]] # <<>> /\ mask' = mask
    /\ todo' = <<"nothing", Timer>>
    /\ UNCHANGED <<irr, isr, handlers, quiet, cpu, took15, panic>>

Next ==
    \/ isr_handler
    \/ Finish
    \/ \E l \in Lines :
         \/ Raise(l) \/ Acknowledge(l) \/ AcknowledgeDropped(l) \/ Silence(l)
         \/ \E id \in Ids : request_isr(id, l) \/ release_isr(id, l)

Spec == Init /\ [][Next]_vars

\* Interrupts are enabled outside handlers and every handler returns.
FairSpec == Spec /\ WF_vars(isr_handler) /\ WF_vars(Acknowledge(Timer))

-----------------------------------------------------------------------------
(* Properties *)

\* Every interrupt taken is ended at every PIC that holds it in service, so that no line
\* stays blocked, until the vector of line 15 is taken: pic_is_spurious then returns
\* before the master's EOI, or before both (pic.c:115-126, isr.c:84-93). What stays in
\* service is never more than line 15 and the cascade, whatever is taken afterwards.
StuckOnlyBy15 ==
    cpu = InTask /\ ~panic => IF took15 THEN isr \subseteq {Cascade, 15} ELSE isr = {}

\* isr.c:89-91: every interrupt is acknowledged "so that the timer interrupt can happen
\* again"; nothing is left in service.
NoneStuck == cpu = InTask /\ ~panic => isr = {}

\* The kpanic("uncaught interrupt") of isr_handler (isr.c:106) never fires: a line is
\* unmasked only after it has a handler and loses its last one only when silent.
NoUncaught == ~panic

\* Between two calls a line is masked exactly when no driver is attached to it:
\* release_irq never cuts off a driver that shares the line (isr.c:185-190).
MaskFollowsHandlers ==
    todo[1] = "nothing" => \A l \in Lines : l \in mask <=> handlers[l] = <<>>

\* The handlers of every genuine interrupt are called; only spurious ones are dropped.
GenuineServed == cpu \in isr => ~pic_is_spurious(cpu)

\* A timer tick that the PIC lets through is taken, whatever the other lines do.
TimerServed == (Timer \in irr /\ Timer \notin mask) ~> (Timer \notin irr \/ panic)
=============================================================================
