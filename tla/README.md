# A TLA+ model of the DeimOS kernel

DeimOS is a small preemptive kernel for one i386 CPU, written in C: boot code, a
frame allocator and paging, a heap, interrupts, a round-robin scheduler with
sleeping tasks, a PS/2 keyboard and text screen, a shell, and drivers for the
RTL8139 network card and ATA disks. This directory models the parts whose
correctness depends on the order in which things happen, checks them with TLC on
small instances, and proves the safety results for every size with TLAPS.

Paths below are relative to `src/`.

## The system: inventory

| component | state | operations | who interferes | correct when |
|---|---|---|---|---|
| scheduler, `kernel/sched.c` | running task, ready queue, sleep queue (deltas) | `create_kernel_task`, `sleep`, `usleep`, `sched_yield`, `sched_kill`, `kill`, `switch_task`, `do_scheduling` | the timer tick, between any two stores of a call | every task is in exactly one place; none wakes early; all ready tasks run; a task is never freed while its stack is in use |
| tasks and contexts, `kernel/task.c`, `sched.c`, `arch/i386/isr_wrappers.s` | `task_t`, stacks, registers | `new_task`, `free_task`, the wrappers, the switch | interrupts, exceptions, nested | a task gets back to where it was with what it had |
| heap, `kernel/kalloc.c` | list of block headers in the region itself | `kmalloc`, `kmalloc_a`, `kcalloc`, `kfree` | preemption and handlers: there is no lock | blocks tile the region, live blocks are left alone, free neighbours are merged |
| frames, `arch/i386/frame.c` | bitmap, three counters | `frame_init`, `alloc_frame`, `free_frame` | boot only | no frame has two owners |
| boot and paging, `arch/i386/boot.s`, `arch.c`, `mm.c`, `paging.c`, `kernel/kernel.c` | page directories, descriptor and handler tables | once, in a fixed order | ticks and keys, from `arch_init` on | every access is mapped and every interrupt expected at each step; the shell starts |
| PS/2 controller, `arch/i386/ps2.c` | input and output buffer | `ps2_init`, polling | the controller, at its own pace | no wait lasts for ever |
| interrupts, `arch/i386/isr.c`, `pic.c` | handler table with chains, PIC masks | `isr_handler`, `request_irq`, `release_irq`, EOI, spurious test | devices, at any time | every interrupt is ended and reaches its handlers |
| timer, `arch/i386/pit.c` | - | calls `do_scheduling` | - | - |
| keyboard, `arch/i386/ps2_kbd.c`, `tty.c` | one-byte buffer, modifiers | `kbd_isr`, `tty_getchar` | the handler, between the reader's accesses | keys come in order and once |
| screen, `arch/i386/tty.c` | cursor, text buffer | `tty_putchar`, scroll, clear | handlers that print | the cursor is back on the screen after each character |
| network, `drivers/rtl8139.c`, `kernel/net.c`, `arp.c`, `ether.c`, `ip.c` | driver statics, device list, receive ring, ARP cache | start, stop, handler, receive | the card (DMA), the handler | only held memory is used; packets are found in the ring |
| disks, `drivers/ata_pio.c`, `kernel/disk.c` | drive and volume lists | start, stop, identify, read | - | lists hold only live structures |
| PCI, `arch/i386/pci.c` | device list, configuration registers | scan at boot, search, reads and writes | the heap, devices that set their status | the list is what is installed; a write stays in place |
| shell, `kernel/dsh.c` | line buffer | reads a line, calls the others | keyboard and network handlers | it runs what was typed |
| unused or stubs | `spinlock.c`, `acpi.c`, `vfs.c`, `ext2.c`, `ip.c` | | | |

How they interact: handlers run on the stack of whatever task they interrupt,
with interrupts off; the timer's handler calls the scheduler, which may switch to
another task before it returns. Tasks share the heap and every static variable
without locks. The shell's task is the only one that starts and stops drivers.

What is hard here: preemption between any two stores; a timer tick inside a call
of the scheduler; arithmetic on 32-bit counters that wrap; a card that writes
memory by itself; failure half way through a driver's start. `PROJECT.json` lists
these hazards with their lines and the properties aimed at them.

## Modules

`Sched` is the scheduler. One step is one uninterruptible stretch of code:
`switch_task` and `do_scheduling` run with interrupts off and are one step each,
while `sleep`, `usleep`, `sched_kill`, `kill` and `create_kernel_task` are cut wherever a
tick can land (`pc` says where each task is). Queues are sequences of tasks and
`sleep_ticks` keeps the deltas in unsigned arithmetic modulo `M`. The ready queue is what
the code reaches from `ready_queue_head`, with `ready_queue_tail` beside it:
`create_kernel_task` calls `enqueue_ready_task` with interrupts enabled, so its test, its
load of the tail and its stores are steps (`TestEmpty`, `SetHead`, `LoadTail`, `LinkTail`,
`SetTail`), and after a tick among them the tail may be a task that the head does not
lead to, null, or freed. Three ghosts: `owed`, the ticks the sleep in progress still has
to wait; `torn`, a tick has landed in that window; `leaked`, the tasks whose creator was
destroyed before it linked them. `panic` says why the kernel has stopped: the kpanic of
an empty ready queue, a store through a null pointer in `enqueue_sleep_task` or
`enqueue_ready_task`, or a store to a `task_t` that has moved or been freed since it was
looked up (`kill`, `create_kernel_task`), after which memory may hold anything.
`MCSched` adds the symmetry of the non-idle tasks.

`Heap` is the allocator with one step per call; blocks are records keyed by
address with the links of `header_t`. `HeapPreempt` is `split_block`, `kmalloc` and
`kfree` store by store, with any number of callers; `ImplementsHeap` shows that one
caller at a time implements `Heap`.

`Irq` is the pair of 8259s (external, as the code drives them) with the handler
table. An interrupt is acknowledged by the CPU, or drops just before (a glitch)
and becomes spurious; `isr_handler` is one step; `request_irq` and `release_irq`
are two, since an interrupt may arrive between table and mask. The ghost `took15` says that
the vector of line 15 has been taken, for a device or for a slave line that dropped.

`Context` is what is on the stacks: the words the CPU and the wrappers of
`isr_wrappers.s` push, the image `setup_stack` makes, the registers `switch_task`
saves and loads. A step is a stretch that cannot be interrupted; since `switch_task`
enables interrupts before its jump, that jump and the way back through `popal`,
`addl` and `iret` are steps of their own. `trail` is a ghost: the places each task
was taken away from. The code does not bound how deep interrupts nest; `MaxNest`
does. `switch_task` saves only `eip`, `esp` and `ebp`. What else a task computes with is back
when a `sched_yield` returns because the compiler keeps it in frames on the stack across
a call, as the calling convention says; the model assumes that much of the compiler
and restores all registers from the frame. An interrupted task does not rely on it:
its registers are in the wrapper's `pushal`.

`Boot` is the way from the boot loader to the shell: `boot.s`, `kmain`, `arch_init`,
`mm_init`, `sched_init`, one step for each call or for each store that matters, with
ticks and keyboard bytes between them as soon as `arch_init` has enabled interrupts. The
shell's `create_kernel_task` is three steps, `new_task`, which may fail, and the two stores
of `enqueue_ready_task`; a tick between those two faults and stops the kernel.
It extends the parts that boot starts and composes their actions with its own:

* `Frame`, the frame allocator, from a memory map chosen at boot;
* `Ps2`, `ps2_init` and `kbd_init` against a controller (external) that takes bytes and
  answers in its own time;
* `Pci`, configuration space down to the address and data ports, the scan of
  `pci_init` one probe at a time, `pci_search`, and a driver's writes afterwards.

After boot, frames are allocated and freed and a driver writes to its device.
`MCBoot` gives memory maps and machines shaped like a PC's.

`Console` is the shell's task at the console. It extends `Keyboard`, the way of a key
from the controller to `getchar` (the handler on one side, the reader's three
accesses on the other; keys are their 16-bit codes, since `kbd_get_key` cuts them to
eight bits; the codes of the `Extended` keys follow a prefix, which the handler throws
away, and the keyboard may send fake presses and releases of a shift key, as it does
around them), and `Screen`, the cursor: `tty_putchar_t` one access at a time for the
task, and whole for the network handler that prints in the middle of it. `dsh_loop`
reads a line, echoes it and runs it; the commands themselves are other modules'.
`MCConsole` gives the texts.

`Rtl8139` is the network driver: start and stop as sequences of steps of the
shell's task that may fail, the handler's receive loop, and the card that fills
the ring at any time. `cbr` is where the card writes next and `capr` what it was told has
been read: the driver writes that two-byte register with `outb`, so only the low byte
arrives (`Byte`), and card and handler may disagree about where the reading has got to. Three ghosts
say that the ring is out of step since the last reset: `early`, a frame was written before
RBSTART was set; `wrapped`, the card went round the ring; `lost`, the handler went on
past the last packet. `headers` are the packet headers in the memory the card has written.

`Disk` is the ATA driver and the drive list: one step per drive of each loop of
`ata_module_init` and `ata_module_kill`, with every failure of `identify`,
`parse_mbr` and `kmalloc`. `held` says which `drive_t`, `ata_priv_t` and `volume_t` are
allocated. When freed memory is used it may still be as it was left, or be
somebody else's by now (`wild`); nothing is said of what comes after that.

`SchedProofs`, `HeapProofs`, `IrqProofs`, `ContextProofs`, `Rtl8139Proofs`, `DiskProofs`,
`BootProofs` (with `Frame` and `Pci`) and `ConsoleProofs` (with `Keyboard` and `Screen`) hold the theorems
about the modules they are named after.

Abstractions common to all: names, messages, register contents and printing are
left out; memory addresses are kept only where arithmetic on them matters (`Heap`,
`HeapPreempt`, `Frame`, `Boot`, `Pci`, the ring of `Rtl8139`). Definitions whose names start with
`Mut` are deliberately wrong variants of the definition that follows them; each
shows that some property notices the mistake.

## Runs

| run | what it asks | bounds, and why they are enough |
|---|---|---|
| `sched_safety` | one place per task, none lost unless a tick tore the queue, nobody early, nobody disturbed by another's sleep | 4 tasks, so three sleepers: an insertion at the head, inside, at the end, and two creators at once; sleeps of 5 and 3 ticks; `M` = 16 so that deltas wrap; every task may be killed, the idle task too |
| `sched_live` | a task to run at all times, the stack in use never freed, ready tasks run, sleepers wake | 4 tasks, sleeps of 2 and 3 ticks, `M` = 4, so that a wrapped delta still runs out; one task can be killed, the idle task cannot. `CONSTRAINT Whole` cuts the behaviours off after a tick has landed inside `enqueue_ready_task`, where all four properties hold by their own wording (`torn`) |
| `sched_null_insert` (violated) | `enqueue_sleep_task` finds a task to insert after | 4 tasks, sleeps of 2, 3 and 5 ticks |
| `sched_never_empty` (violated) | "ready queue should never be empty" | 3 tasks that only create and yield |
| `heap` | tiling, merging, size, live blocks kept | 44 bytes with headers of 4 and pages of 16: up to five blocks, a page boundary inside, odd and zero sizes |
| `heap_stores` | the stores of one caller implement `heap` | 32 bytes: splits and merges on both sides |
| `irq` | every interrupt is ended but for what vector 15 leaves, none uncaught, masks follow handlers, the timer is served | lines 0, 7, 11 and 15: the timer, the two spurious vectors, a line of the slave; glitches on all four; two drivers, so chains |
| `context` | a task gets back to where it was taken away, with its registers; `dump_regs` reports the exception that happened | 2 tasks, so that one is created, run, destroyed and created again; every kind of wrapper; 2 nested interrupts, so that a tick lands inside the tail of another one's handler |
| `boot` | every access mapped, every interrupt expected, the shell starts; one owner per frame; the PCI scan complete and in order; register writes in place | memory of 4 frames and 2 large pages, with two maps and with none; PS/2 ports that both work or both fail; no memory for the shell, or a tick at any step of its creation; 2 machines: a bridge and two like cards, and a device with functions 0 and 2 beside one without function 0; one allocation of the scan fails; bytes of 8 values, enough for the bus master bit |
| `console` | keys in order, once, none in the buffer lost but to a later key; shift settles; cursor settles; lines run are lines typed | a screen of 2 by 4, so that lines wrap and it scrolls; lines of 1 character, so that they fill; 2 make codes among a letter, Enter, both shift keys and caps lock, with repeats, releases and, up to the last press, fake codes; Enter may be the keypad's, with a prefix; the memory past the key table harmless (`ShiftSettles` says nothing if a shift code is there, and the proofs cover any) |
| `rtl8139` | handler and card use held memory only; a stop or failed start leaves nothing; the handler finds the packets one after the other until it has caught up with the card or the ring wraps, and stays inside the buffer after | a ring of 32 bytes (several turns) with registers of 6 bits and `outb` of 3, so that the byte loses a part of the position within the first turn; packets of two sizes, three heap objects so that memory is reused, either allocation may fail |
| `disk` | the drive list holds live drives with different ids; a stopped driver holds nothing but what is lost for good; only an unregistered drive keeps it from stopping | 3 places, so that drives before, between and after a failed one are removed; 2 partitions; ids wrap at 4 |

Deadlock is not checked where the system may stop: after a panic (`Sched`'s
runs, `context`, and `boot` without a memory map or after a tick in `create_kernel_task`), after the shell's reboot
(`console`), with the heap full and only large requests left (`heap`), and where
memory is wild (`disk`).

### Fairness

* `sched_live`: weak fairness of `do_scheduling`. The timer is periodic and
  interrupts are enabled outside handlers and `switch_task`.
* `irq`: weak fairness of taking the timer's interrupt and of `isr_handler`. Handlers
  return, and interrupts are enabled when they do.
* `console`: weak fairness of the keyboard's handler and of the shell's next access: it
  polls in a loop and, by `ReadyRuns`, gets its share of the CPU.
* `boot`: weak fairness of the next step of the boot code, which goes on whenever no
  handler runs, and of the controller, which takes what it is sent. Interrupts have
  none.

Tasks, the card, the typist and the drivers' callers have no fairness: they may
stop.

## Proofs

`SchedProofs`, for any set of tasks, clock rate and word size:

* `SchedTypeOK`, `SchedOneQueue`: the type invariant and `OneQueue` hold always, the part
  that nobody is lost as long as not `torn`. The inductive invariant adds that a task
  under way in `create_kernel_task` holds a task of its own that is on no queue
  (`CreateInv`), and that until `torn` only the running task is inside `enqueue_ready_task`
  and head and tail are what its last test or store left (`TailInv`). The heart is
  `switch_task`: it is given queues and states that differ from the current ones, so the
  argument is made for its parameters (lemmas on `get_next_ready_task` and
  `enqueue_sleep_task`), once for a yield and once for a tick that has first moved the
  woken tasks.
* `SchedReadyNeverEmpty`, `SchedFreedStackNotInUse`: from the assumption that the
  idle task is not killable, and as long as not `torn`. The idle task never sleeps or
  exits, so it is running or ready and, nobody being lost, in the queue; and a destroyed
  task is freed only when popped, after it left the CPU. Without the condition the first
  is false: `sched_never_empty`.

`HeapProofs`, for any region, header size, page size and requests:

* `HeapInvariant` (inductive): blocks are keyed by their addresses; each one's next
  block starts where it ends, or it is the last and ends at the region's end; links
  of neighbours agree; no two free neighbours.
* `HeapTiled`, `HeapMerged`, `HeapWhole`, `HeapLiveBlocksKept` follow from it;
  `HeapPayloadFits` also assumes requests that do not wrap (`RequestsInRange`).

`SchedProofs` also says how long tasks sleep:

* `SchedOthersUndisturbed`: no step changes when another sleeper wakes, but for the
  tick all of them count, whatever wraps. It works on the unwrapped sums of the deltas
  (`Totals`; `HasTotals` and `SumIsTotal`, by induction over the queue): appending,
  removing the sleepers that are due and the tick leave every sum but the tick as it
  was; an insertion subtracts only where neither subtraction wraps, so the new delta
  and the one it is taken from add up to the old one.
* `SchedNeverEarly`, if the requested sleeps fit in the counter (`SleepsFit`). The
  invariant `SleepInv`: a sleeper's sum is at least what it still owes, and a task on no
  sleep queue owes nothing, or is between the stores of `sleep` and owes its ticks. A
  delta that wraps (the deviation `DeltasAddUp`) only makes a sum larger: it delays.

`IrqProofs`, for any lines and drivers: `NeverUncaught` and `MasksFollow`, from an
invariant that says that lines without a handler are masked or about to be, are silent
and not in service; `EndsEveryInterrupt`: until vector 15 is taken at most one interrupt is
in service, at the PICs its line goes through, and after it what `pic.c` leaves in service
is line 15 and the cascade at most, whatever is taken next. Vectors 39 and 47 and glitches
on every line are included.

`ContextProofs`, for any tasks, register contents, vectors and depth of nesting:

* `ContextResumes`: the stack of every task that will still run can be cut into one frame
  for each place of its trail, above what `setup_stack` made (`Layout`). What a frame
  still holds depends on how far the code above it has got: all of it at `popal`, no
  registers at `addl`, one word at `iret`, one more word inside `switch_task`; the frame
  of `sched_yield` is a single word. An interrupt pushes a frame, the way back replaces
  the top one and at last takes it off, and a switch leaves all of them. The idle task
  is never destroyed, so `switch_task` always finds a task.
* `ContextReportsFault`: every wrapper leaves exactly one word between the CPU's frame and
  the number.

`Rtl8139Proofs`, for any ring, packets and heap: `HandlerMemory`, `DmaMemory` and
`HeaderBounds` from what is allocated at each place of start and stop (`MemInv`);
`StopsClean` on a line of its own (`~Shared`, which excludes a deviation listed below);
`ReadsHeaders`, from the invariant that, until one of the three ghosts is set, the headers
between the handler's position and the card's lie one behind the other: whatever frames
come, whatever the card makes of the byte it is sent in CAPR.

`DiskProofs`, for any number of drives, partitions, starts and stops: `ListIsLive`,
`StoppedIsEmpty`, `KillStops`. The invariant says at each turn of the three loops which
drives are found, allocated and listed, and that the ids in the list are the last ones
given out, so that a wrapped `next_drive_id` meets no old one.

`BootProofs`, for any kernel size, load address, boot information, memory map and machine:

* `BootInterrupts`, `BootMapped`: from an invariant that says what is set up at each step,
  which no interrupt undoes, with the shell's creation succeeding, failing or cut by a tick. The fixed order (`Program`) is what makes it hold.
* `FramesHeldOnce`: what is held is marked used, and frame 0 always is.
* `PciScan`, `PciWrites`: the packed address has the fields it was made of, `pci_readb`
  cuts out the byte it means, and the three nested loops visit the successor of each
  slot; for bytes of 3 to 8 bits. They assume that no device has the vendor id 0xFFFF,
  which on PCI means that there is none.

`ConsoleProofs`, for any keyboard, screen and line buffer:

* `KeysInOrder`: the numbers of the presses in the queue, the buffer, the reader's local
  and the results follow each other, at each of the reader's three accesses.
* `ShiftFlag`: every shift press in the queue is of a key that is held or faked, or is
  followed by a release; and while neither two shift keys nor a fake code have mixed, the
  last shift code in the queue says whether its key is down, and the flag is what the
  last one read said.
* `CursorOnScreen`: how far off the screen the cursor may be at each access of
  `tty_putchar_t`, when the handler prints whole characters in between.
* `LinesAsTyped`: what `Kept` and `FlattenSeq` give when one character or line is
  appended. They are recursive functions, so their values are obtained by `Recursion`.

Induction over numbers is taken from the well-foundedness of `<` on `Nat` with sets in
the place of predicates (`Least`, `Induct`), since the library's own induction theorems
take an operator, which the provers cannot instantiate.

Assumptions on the constants are named in the modules that declare them and are
evaluated by TLC in every run.

Only model-checked: liveness (`ReadyRuns`, `SleeperWakes`, `TimerServed`,
`KeyReturned`, `ShellStarts`), which is out of the prover's reach; and the refinement
`ImplementsHeap`.

## Findings

Two runs end in a violation on purpose. `PROJECT.json` quotes what they contradict.

* `sched_null_insert`: a task that asks for less than the head of the sleep queue has left
  is inserted after no task, through a null pointer (`sched.c:137`).
* `sched_never_empty`: a tick between the stores of `sched.c:79` and 80, when
  `create_kernel_task` makes them, puts the running task behind the old tail and the tail
  beside the list; what is queued after that is lost, and the kernel stops at
  `sched.c:91`.

### Known deviations

These properties are stated in their modules and TLC refutes them; no
configuration is kept for them. To see one, put it into the named configuration.

| property | code | configuration |
|---|---|---|
| `Sched!DeltasAddUp` | `sched.c:134`: a task due at the same tick as one inside the queue is appended with a delta that wrapped ("change the sleep ticks to it's delta value", `sched.c:109`) | `SchedSafety.cfg` |
| `Sched!KillSticks` | `sched.c:202`: waking a killed sleeper makes it READY | `SchedSafety.cfg` |
| `Sched!NoWildStore` | `sched.c:383-386`, `sched.c:79`: `kill` marks, and `create_kernel_task` links a task behind, a `task_t` that may have been freed or moved to another queue since it was looked up | `SchedSafety.cfg` |
| `Heap!WordAligned` | `kalloc.c:96`: `size += size%4` does not "round up to nearest 4 bytes" | `Heap.cfg` |
| `Heap!SearchEnds` | `kalloc.c:121`: `continue` without advancing, against "move on" | `Heap.cfg` |
| `Heap!PayloadFits` | `kalloc.c:108`: the size wraps | `Heap.cfg`, `Sizes = {4, 124}` |
| `HeapPreempt!SanityCheck` | `kalloc.c:87`: the heap has no lock, and `heap_sanity_check` finds it broken by two callers | `HeapPreempt.cfg`, `Callers = {task, other}`, `Size = 36`, `CHECK_DEADLOCK FALSE` |
| `Irq!NoneStuck` | `pic.c:115`: a spurious IRQ15 returns before the master's EOI, so the cascade stays in service ("if the interrupt was an IRQ, tell the PIC we acknowledge it", `isr.c:89`) | `Irq.cfg` |
| `Irq!GenuineServed` | `pic.c:119`: a genuine IRQ7 is taken for a spurious IRQ15 | `Irq.cfg` |
| `Frame!KernelReserved` | `frame.c:76`: the test is inverted ("make sure the kernel's physical location is reserved") | `Boot.cfg` |
| `Frame!OnlyAvailable` | `frame.c:104`: an end address is passed for a size | `Boot.cfg` |
| `Boot!ShellAlwaysStarts` | `sched.c:376`, `kernel.c:59`: a tick between `sched.c:73` and 74 finds a head and no tail, and `sched.c:79` stores through address 0 | `Boot.cfg` |
| `Pci!StatusKept` | `pci.c:99-107`: writing the command writes the status back, which clears it | `Boot.cfg` |
| `Pci!LineKnown` | `pci.c:60`: a header type of 0 with the multifunction bit is not taken for 0, and `intline` stays 0 | `Boot.cfg` |
| `Ps2!PortsAsTested` | `ps2.c:106`: `status & !1` never waits, so an answer is taken for another ("test and enable ports", `ps2.c:86`) | `Boot.cfg` |
| `Screen!WritesOnScreen` | `tty.c:78-83`: what a handler prints before the scroll goes below the screen | `Console.cfg` |
| `Keyboard!OtherKeysSilent` | `ps2_kbd.c:179`: F8, F9 and F10 become characters | `Console.cfg`, `Keys = {97, 4106}`, `Extended = {}` |
| `Keyboard!ShiftFollowsKeys` | `ps2_kbd.c:66-72, 81-83, 99-101`: the E0 prefix is dropped, so a fake shift counts as a real one, and one flag serves two keys | `Console.cfg` |
| `Rtl8139!WrapsReadPointer` | `rtl8139.c:117-118`: the ring pointer is not wrapped as "wrap the read pointer" says | `Rtl8139.cfg` |
| `Rtl8139!CleanWhenStopped` | `rtl8139.c:241`: a failed `request_irq` frees a listed device | `Rtl8139.cfg`, `Shared = TRUE` |
| `Rtl8139!StopsAtLast` | `rtl8139.c:153`: `outb` gives the card the low byte of CAPR only, so the loop "while theres a packet in the buffer" (113) runs past the last packet | `Rtl8139.cfg` |
| `Rtl8139!DmaAlwaysHeld` | `rtl8139.c:172-174`: the receiver is on before RBSTART is set, and a frame goes to physical address 0 | `Rtl8139.cfg` |
| `Rtl8139!FreesWhatItHolds` | `rtl8139.c:251`: a restart whose first allocation fails frees the `rx_buf` of the last run again | `Rtl8139.cfg` |
| `Disk!RunsOnlyWithDrives` | `ata_pio.c:310`: a drive that could not be registered stays in `drives[]`, so the driver runs for ever with none ("if there's still a drive registered, continue running", `ata_pio.c:358`) | `Disk.cfg` |

Three more are plain in the source and need no model: `task.c:43` adds `STACK_SIZE` to
a pointer to `unsigned int` and so starts a new task's stack four times too far;
`pit.c:83` stops the beep with `& !0x03`, which clears the whole port; `dsh.c:86` does
not test what `kmalloc` returned.

## Plan

Done: the scheduler, heap and their theorems (`Sched`, `Heap`,
`HeapPreempt`); `Irq`, `Rtl8139`, `Disk`; `Context`; boot with its parts (`Boot`, `Frame`,
`Ps2`, `Pci`); the console with its parts (`Console`, `Keyboard`, `Screen`).

Done: a theorem for every safety property that a passing run checks, but the refinement.

Next: the refinement `ImplementsHeap`, step by step.

## Not modelled

* `arp.c`, `ether.c`, `ip.c`: everything above `net_rx_pkt`, and the insertion into the
  ARP cache, is commented out in the code; nothing reaches them but a flush of an
  empty list. Nothing is transmitted.
* `acpi.c`: its call is commented out in `kmain`; `spinlock.c`: called by nothing;
  `vfs.c`, `ext2.c`, `clone_pd`, `map_phys`, `request_frame`: stubs.
* The register protocol of the ATA drives: `ata_lba48_read` is a read that may fail.
  It polls without a timeout, and no fairness of the kernel bounds the drive.
* The bits of segment and gate descriptors, the timer's reload value, the speaker, the
  LEDs, the hardware cursor, colours, the reset line: written and never read.
* The C library: pure functions on strings and numbers; and the commands that only
  print what others keep.
