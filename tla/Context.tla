------------------------------ MODULE Context ------------------------------
(***************************************************************************)
(* What is on the stacks: the interrupt wrappers of isr_wrappers.s, the    *)
(* image that setup_stack of kernel/task.c prepares for a new task, and    *)
(* the registers that switch_task of kernel/sched.c saves and loads.       *)
(*                                                                         *)
(* One step is a stretch that cannot be interrupted.  switch_task sets the *)
(* interrupt flag before it jumps into the next task, so the rest of a     *)
(* tick's handler, down to its iret, can itself be interrupted.  Sleeping  *)
(* and the timing of ticks are in Sched; here a tick may come at any time. *)
(*                                                                         *)
(* A word is a record: one for the three the CPU pushes, one for pushal,   *)
(* one for the frames of C functions up to the next return.                *)
(*                                                                         *)
(* switch_task keeps only eip, esp and ebp.  What a task computes with     *)
(* survives a call of it, as it survives any call in C, because the        *)
(* compiler saves the registers it uses in frames on the stack, which is   *)
(* resumed at the same word.  The model takes the compiler at its word: a  *)
(* return from switch_task finds the task's registers in the frame.        *)
(***************************************************************************)
EXTENDS Naturals, Sequences, SequencesExt

CONSTANTS
    Tasks, Idle,  \* slots for tasks; the one that kmain becomes
    Values,       \* contents of the registers a task computes with
    Vectors,      \* the interrupts and exceptions that happen
    MaxNest       \* how many interrupted places a stack may hold

Timer == 32
IrqVectors == (32 .. 47) \ {34}
HasErrorCode == {8, 10, 11, 12, 13, 14, 17, 30}

\* The vectors isr_init gives the IDT a wrapper for.
Wrapped == ((0 .. 20) \ {9, 15}) \cup {30} \cup IrqVectors

ASSUME ContextAssumption ==
    /\ Idle \in Tasks /\ Vectors \subseteq Wrapped
    /\ MaxNest \in Nat

VARIABLES
    running_task,
    ready,       \* the ready queue
    doomed,      \* the tasks in state TASK_DESTROY
    live,        \* the tasks that are allocated
    saved,       \* task_t: eip and esp
    stack,       \* the words of each task's stack; esp points to the last one
    eip, int_flag,     \* of the CPU
    regs,        \* its other registers: a task's value, and where eax and ecx say to go
    report,      \* what dump_regs says before a kpanic, or <<>>
    cause,       \* ghost: the exception it is about
    trail        \* ghost: the places each task has been taken away from

vars == <<running_task, ready, doomed, live, saved, stack, eip, int_flag, regs, report, cause, trail>>

Regs(v, to) == [value |-> v, to |-> to]
Word(kind, n, at, r) == [kind |-> kind, n |-> n, at |-> at, regs |-> r]
NoRegs == Regs("none", "none")
Ret(at, r) == Word("ret", 0, at, r)
Top == Last(stack[running_task])
Place(p, r) == [eip |-> p, regs |-> r]
Push(words) == stack' = [stack EXCEPT ![running_task] = @ \o words]
Drop(n) == stack' = [stack EXCEPT ![running_task] = SubSeq(@, 1, Len(@) - n)]
Leave(p, r) == trail' = [trail EXCEPT ![running_task] = Append(@, Place(p, r))]
Back == trail' = [trail EXCEPT ![running_task] = Front(@)]
At(p) == report = <<>> /\ eip = p

scheduler == <<running_task, ready, doomed, live, saved>>

\* sched_init: kmain goes on, on the boot stack, as the idle task.
Init ==
    /\ running_task = Idle
    /\ ready = <<>> /\ doomed = {} /\ live = {Idle}
    /\ saved = [t \in Tasks |-> [eip |-> "none", esp |-> 0]]
    /\ stack = [t \in Tasks |-> <<>>]
    /\ eip = "code" /\ int_flag = TRUE
    /\ regs \in {Regs(v, "none") : v \in Values}
    /\ report = <<>> /\ cause = <<>>
    /\ trail = [t \in Tasks |-> <<>>]

-----------------------------------------------------------------------------
(* isr_wrappers.s *)

\* Mutant: the page fault's wrapper pushes a dummy too.
MutPushesDummy(v) == v \notin HasErrorCode \ {14}

\* The wrappers that push a dummy where the CPU pushes no error code.
PushesDummy(v) == v \in (0 .. 7) \cup {16, 18, 19, 20} \cup IrqVectors

\* regs_t, from the top of the stack down: pushal, the number, the error code, the eip.
int_no(s) == s[Len(s) - 1].n
err_eip(s) == s[Len(s) - 3].at

\* The CPU's frame, then the wrapper's words.
Entry(v) ==
    <<Word("iret", 0, eip, NoRegs)>>
    \o (IF v \in HasErrorCode THEN <<Word("error", 0, "none", NoRegs)>> ELSE <<>>)
    \o (IF PushesDummy(v) THEN <<Word("dummy", 0, "none", NoRegs)>> ELSE <<>>)
    \o <<Word("number", v, "none", NoRegs), Word("pushal", 0, "none", regs)>>

\* The timer's handler calls switch_task; what it returns to is common's popal.
Tick(s) ==
    /\ int_no(s) = Timer
    /\ stack' = [stack EXCEPT ![running_task] = Append(s, Ret("popal", regs))]
    /\ eip' = "switch_task"
    /\ UNCHANGED <<regs, report, cause>>

\* Any other handler overwrites the registers and returns.
Handler(s) ==
    /\ int_no(s) \in IrqVectors \ {Timer}
    /\ stack' = [stack EXCEPT ![running_task] = s]
    /\ eip' = "popal"
    /\ regs' = NoRegs
    /\ UNCHANGED <<report, cause>>

\* An exception: no handler but the page fault's, and all end in dump_regs and kpanic.
Fatal(v, s) ==
    /\ int_no(s) \notin IrqVectors
    /\ report' = <<int_no(s), err_eip(s)>>
    /\ cause' = <<v, eip>>
    /\ UNCHANGED <<stack, eip, regs>>

Nested == Len(SelectSeq(stack[running_task], LAMBDA w : w.kind = "iret"))

\* Through an interrupt gate, which clears the interrupt flag; exceptions come anywhere.
Interrupt(v) ==
    LET s == stack[running_task] \o Entry(v) IN
    /\ report = <<>> /\ (v \in IrqVectors => int_flag) /\ Nested < MaxNest
    /\ Tick(s) \/ Handler(s) \/ Fatal(v, s)
    /\ int_flag' = FALSE
    /\ Leave(eip, regs)
    /\ UNCHANGED scheduler

\* The rest of common: popal, addl $8, iret. The sti before the iret takes effect after it.
Popal ==
    /\ At("popal")
    /\ regs' = Top.regs
    /\ Drop(1)
    /\ eip' = "addl"
    /\ UNCHANGED <<scheduler, int_flag, report, cause, trail>>

\* Mutant: the number is dropped and not the error code.
MutAddl ==
    /\ At("addl")
    /\ Drop(1)
    /\ eip' = "iret"
    /\ UNCHANGED <<scheduler, int_flag, regs, report, cause, trail>>

Addl ==
    /\ At("addl")
    /\ Drop(2)
    /\ eip' = "iret"
    /\ UNCHANGED <<scheduler, int_flag, regs, report, cause, trail>>

Iret ==
    /\ At("iret")
    /\ eip' = Top.at
    /\ int_flag' = TRUE
    /\ Drop(1)
    /\ Back
    /\ UNCHANGED <<scheduler, regs, report, cause>>

-----------------------------------------------------------------------------
(* switch_task *)

\* read_eip returns the place after its call, where a task comes back to.
SaveContext == [saved EXCEPT ![running_task] = [eip |-> "resumed", esp |-> Len(stack[running_task])]]

\* The sti before the jump lets interrupts in with the next task's stack loaded and the
\* way into it in ecx; eax says that it has been resumed.
switch_task ==
    LET q == Append(ready, running_task)
        i == CHOOSE j \in DOMAIN q : q[j] \notin doomed /\ \A k \in 1 .. j - 1 : q[k] \in doomed
        freed == {q[j] : j \in 1 .. i - 1}
        next == SaveContext[q[i]]
    IN
    /\ At("switch_task")
    /\ running_task' = q[i]
    /\ ready' = SubSeq(q, i + 1, Len(q))
    /\ doomed' = doomed \ freed /\ live' = live \ freed
    /\ saved' = [t \in Tasks |-> IF t \in freed THEN [eip |-> "none", esp |-> 0] ELSE SaveContext[t]]
    /\ stack' = [t \in Tasks |-> IF t \in freed THEN <<>>
                                 ELSE IF t = q[i] THEN SubSeq(stack[t], 1, next.esp) ELSE stack[t]]
    /\ regs' = Regs("none", next.eip)
    /\ eip' = "jmp" /\ int_flag' = TRUE
    /\ trail' = [t \in Tasks |-> IF t \in freed THEN <<>> ELSE trail[t]]
    /\ UNCHANGED <<report, cause>>

Jump ==
    /\ At("jmp")
    /\ eip' = regs.to
    /\ UNCHANGED <<scheduler, stack, int_flag, regs, report, cause, trail>>

\* switch_task finds 0x12345 in eax and returns, to sched_yield's caller or to the handler.
Resumed ==
    /\ At("resumed")
    /\ eip' = Top.at /\ regs' = Top.regs
    /\ Drop(1)
    /\ IF Top.at = "code" THEN Back ELSE UNCHANGED trail
    /\ UNCHANGED <<scheduler, int_flag, report, cause>>

-----------------------------------------------------------------------------
(* What a task does *)

Compute ==
    /\ At("code")
    /\ regs' \in {Regs(v, "none") : v \in Values}
    /\ UNCHANGED <<scheduler, stack, eip, int_flag, report, cause, trail>>

\* The call of switch_task, up to its cli.
sched_yield ==
    /\ At("code")
    /\ Push(<<Ret("code", regs)>>)
    /\ Leave("code", regs)
    /\ eip' = "switch_task"
    /\ UNCHANGED <<scheduler, int_flag, regs, report, cause>>

\* setup_stack: a frame that nothing uses, and the address the task's function returns to.
Image == <<Word("unused", 0, "none", NoRegs), Ret("sched_kill", NoRegs)>>

\* new_task and create_kernel_task: the first jump goes to the function. kmalloc may fail.
create_kernel_task(t) ==
    /\ At("code") /\ t \notin live
    /\ live' = live \cup {t}
    /\ saved' = [saved EXCEPT ![t] = [eip |-> "code", esp |-> Len(Image)]]
    /\ stack' = [stack EXCEPT ![t] = Image]
    /\ ready' = Append(ready, t)
    /\ UNCHANGED <<running_task, doomed, eip, int_flag, regs, report, cause, trail>>

\* The task's function returns.
Return ==
    /\ At("code") /\ running_task # Idle
    /\ eip' = Top.at
    /\ Drop(1)
    /\ UNCHANGED <<scheduler, int_flag, regs, report, cause, trail>>

sched_kill ==
    /\ At("sched_kill")
    /\ doomed' = doomed \cup {running_task}
    /\ Push(<<Ret("sched_kill", regs)>>)
    /\ eip' = "switch_task"
    /\ UNCHANGED <<running_task, ready, live, saved, int_flag, regs, report, cause, trail>>

Next ==
    \/ Popal \/ Addl \/ Iret \/ switch_task \/ Jump \/ Resumed
    \/ Compute \/ sched_yield \/ Return \/ sched_kill
    \/ \E v \in Vectors : Interrupt(v)
    \/ \E t \in Tasks : create_kernel_task(t)

Spec == Init /\ [][Next]_vars

-----------------------------------------------------------------------------
(* Properties *)

\* Whenever a task gets back to where an interrupt or its sched_yield took it away, it is
\* at that place and has the registers it had there, however many ticks, handlers and
\* switches came between and wherever they landed.
ResumesWhereLeft ==
    [][\A t \in Tasks :
         t \in live' /\ Len(trail'[t]) < Len(trail[t]) =>
             Last(trail[t]) = Place(eip', regs')]_vars

\* dump_regs, which reads regs_t off the stack, names the exception that happened and the
\* place where it happened, for every wrapper and on every stack.
ReportsFault == report = cause
=============================================================================
