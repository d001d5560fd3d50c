-------------------------------- MODULE Boot --------------------------------
(***************************************************************************)
(* From the boot loader to the shell: boot.s, kmain, arch_init, mm_init    *)
(* with paging_init, sched_init, and the composition of the parts they     *)
(* start: the frame allocator (Frame), the PS/2 controller (Ps2) and the   *)
(* PCI scan (Pci).  arch_init enables interrupts first of all, so ticks    *)
(* and keyboard bytes come between any two of the later steps.             *)
(*                                                                         *)
(* The boot loader starts the kernel at its physical address; it is linked *)
(* at KERNEL_VMA above that.  A base of 0 or KERNEL_VMA says which of the  *)
(* two an address is.                                                      *)
(***************************************************************************)
EXTENDS Frame, Ps2, Pci

CONSTANTS
    KERNEL_VMA,
    BigPage,      \* the 4 MiB that one directory entry maps
    KernelEnd,    \* KERNEL_END - KERNEL_VMA, where the heap starts
    mbt           \* where the boot loader left its information

ASSUME BootAssumption ==
    /\ BigPage \in Nat \ {0}
    /\ KERNEL_VMA \in 1 .. M - BigPage /\ KERNEL_VMA % BigPage = 0
    /\ KERNEL_PMA + KERNEL_SIZE <= BigPage /\ M % BigPage = 0
    /\ KernelEnd \in KERNEL_PMA .. KERNEL_PMA + KERNEL_SIZE - 1
    /\ mbt \in 0 .. BigPage - 1

VARIABLES
    step,                \* the position in Program
    has_map,             \* MULTIBOOT_INFO_MEM_MAP is set
    stopped,             \* by kpanic: no memory map, or a page fault
    eip_base, esp_base,  \* of the CPU
    cr3,                 \* the directory paging uses, or "off"
    directory,           \* the two page directories
    current_pd,
    gdt, idt,            \* loaded; "none", "null" or "wrappers"
    pic,                 \* the PICs have their vectors
    handlers,            \* the vectors with a handler
    open,                \* the IRQs that are not masked
    int_flag,
    heap,                \* the addresses kheap_init was given
    page_dir,            \* of the tasks; "none": no such task
    state,               \* of the running task
    running_task, ready, \* the task that runs and the ready queue
    scheduling_enabled

memVars == <<eip_base, esp_base, cr3, directory, current_pd, heap>>
intVars == <<gdt, idt, pic, handlers, open, int_flag>>
taskVars == <<page_dir, state, running_task, ready, scheduling_enabled>>
bootVars == <<step, has_map, stopped>>
bootAll == <<bootVars, memVars, intVars, taskVars, frameVars, ps2Vars, pciVars>>

Pages == 0 .. (M \div BigPage) - 1
Absent == [present |-> FALSE, writable |-> FALSE, big |-> FALSE, frame |-> 0]
Mapping0 == [present |-> TRUE, writable |-> TRUE, big |-> TRUE, frame |-> 0]

Init ==
    /\ FrameInit /\ Ps2Init /\ PciInit
    /\ step = 1 /\ has_map \in BOOLEAN /\ stopped = FALSE
    /\ eip_base = 0 /\ esp_base = 0
    /\ cr3 = "off" /\ current_pd = "none"
    /\ directory = [d \in {"boot", "kernel"} |-> [p \in Pages |-> Absent]]
    /\ gdt = FALSE /\ idt = "none" /\ pic = FALSE
    /\ handlers = {} /\ open = {} /\ int_flag = FALSE
    /\ heap = {}
    /\ page_dir = [t \in {"idle", "shell"} |-> "none"]
    /\ state = "none" /\ running_task = "none" /\ ready = <<>> /\ scheduling_enabled = FALSE

-----------------------------------------------------------------------------
(* The order of things *)

boot == <<"identity", "higher", "paging", "jump", "adjust">>

\* Mutant: the timer is set up before isr_init clears the handler table.
MutArchInit ==
    <<"gdt_init", "idt_init", "pic_init", "pit_init", "isr_init", "ps2_init", "kbd_init", "enable_interrupts">>

arch_init ==
    <<"gdt_init", "idt_init", "pic_init", "isr_init", "pit_init", "ps2_init", "kbd_init", "enable_interrupts">>

\* Mutant: the memory map is read once the identity mapping is gone.
MutMmInit == <<"check_map", "paging_init", "write_cr3", "request_isr", "frame_init", "kheap_init">>

mm_init == <<"check_map", "frame_init", "paging_init", "write_cr3", "request_isr", "kheap_init">>

sched_init == <<"new_task", "set_running", "enable_scheduling">>

kmain ==
    <<"tty_init">> \o arch_init \o mm_init \o sched_init
    \o <<"pci_init", "create_kernel_task", "set_head", "set_tail", "sched_yield">>

Program == boot \o kmain

\* The CPU is at this step: kmain goes on as the idle task once there are others.
At(s) == ~stopped /\ running_task \in {"none", "idle"} /\ Program[step] = s
Proceed == step' = step + 1 /\ UNCHANGED <<has_map, stopped>>

-----------------------------------------------------------------------------
(* Addresses *)

\* What the CPU makes of an address; M stands for a page fault.
Translate(addr) ==
    IF cr3 = "off" THEN addr
    ELSE LET e == directory[cr3][addr \div BigPage]
         IN  IF e.present THEN e.frame + (addr % BigPage) ELSE M

\* paging.c's own translation, for the addresses given to devices. There are no small pages.
pd_lookup(pd, addr) == directory[pd][addr \div BigPage]
virt_to_phys(addr) ==
    IF pd_lookup(current_pd, addr).present THEN pd_lookup(current_pd, addr).frame + (addr % BigPage) ELSE 0

-----------------------------------------------------------------------------
(* boot.s *)

parts == <<frameVars, ps2Vars, pciVars>>

MapBootPage ==
    /\ \/ At("identity") /\ directory' = [directory EXCEPT !["boot"][0] = Mapping0]
       \/ At("higher") /\ directory' = [directory EXCEPT !["boot"][KERNEL_VMA \div BigPage] = Mapping0]
    /\ Proceed
    /\ UNCHANGED <<eip_base, esp_base, cr3, current_pd, heap, intVars, taskVars, parts>>

EnablePaging ==
    /\ At("paging")
    /\ cr3' = "boot"
    /\ Proceed
    /\ UNCHANGED <<eip_base, esp_base, directory, current_pd, heap, intVars, taskVars, parts>>

\* The jump to higherhalfboot, and the stack that follows.
HigherHalf ==
    /\ \/ At("jump") /\ eip_base' = KERNEL_VMA /\ UNCHANGED esp_base
       \/ At("adjust") /\ esp_base' = KERNEL_VMA /\ UNCHANGED eip_base
    /\ Proceed
    /\ UNCHANGED <<cr3, directory, current_pd, heap, intVars, taskVars, parts>>

-----------------------------------------------------------------------------
(* arch_init *)

\* The screen's state is in Console.
tty_init == At("tty_init") /\ Proceed /\ UNCHANGED <<memVars, intVars, taskVars, parts>>

gdt_init == At("gdt_init") /\ gdt' = TRUE /\ UNCHANGED <<idt, pic, handlers, open, int_flag>>
idt_init == At("idt_init") /\ idt' = "null" /\ UNCHANGED <<gdt, pic, handlers, open, int_flag>>
pic_init == At("pic_init") /\ pic' = TRUE /\ open' = {2} /\ UNCHANGED <<gdt, idt, handlers, int_flag>>
isr_init == At("isr_init") /\ idt' = "wrappers" /\ handlers' = {} /\ UNCHANGED <<gdt, pic, open, int_flag>>
enable_interrupts ==
    At("enable_interrupts") /\ int_flag' = TRUE /\ UNCHANGED <<gdt, idt, pic, handlers, open>>

Tables ==
    /\ gdt_init \/ idt_init \/ pic_init \/ isr_init \/ enable_interrupts
    /\ Proceed
    /\ UNCHANGED <<memVars, taskVars, parts>>

\* request_irq, on a line nobody has.
request_irq(irq) == handlers' = handlers \cup {32 + irq} /\ open' = open \cup {irq}

pit_init ==
    /\ At("pit_init") /\ request_irq(0)
    /\ Proceed
    /\ UNCHANGED <<gdt, idt, pic, int_flag, memVars, taskVars, parts>>

\* The steps of ps2_init, then those of kbd_init, which ends with its request_irq.
Ps2Step ==
    /\ \/ At("ps2_init") /\ ps2_init /\ (IF ps2' = "leds" THEN Proceed ELSE UNCHANGED bootVars)
          /\ UNCHANGED <<handlers, open>>
       \/ At("kbd_init") /\ kbd_init
          /\ IF ps2' = "done" THEN Proceed /\ request_irq(1) ELSE UNCHANGED <<bootVars, handlers, open>>
    /\ UNCHANGED <<gdt, idt, pic, int_flag, memVars, taskVars, frameVars, pciVars>>

-----------------------------------------------------------------------------
(* mm_init *)

check_map ==
    /\ At("check_map")
    /\ IF has_map THEN Proceed ELSE stopped' = TRUE /\ UNCHANGED <<step, has_map>>
    /\ UNCHANGED <<memVars, intVars, taskVars, parts>>

InitFrames ==
    /\ At("frame_init") /\ frame_init
    /\ Proceed
    /\ UNCHANGED <<memVars, intVars, taskVars, ps2Vars, pciVars>>

\* The new directory, without the identity mapping, and the switch to it.
paging_init ==
    /\ \/ /\ At("paging_init")
          /\ directory' = [directory EXCEPT !["kernel"] =
                              [p \in Pages |-> IF p = KERNEL_VMA \div BigPage THEN Mapping0 ELSE Absent]]
          /\ current_pd' = "kernel" /\ UNCHANGED <<cr3, handlers>>
       \/ At("write_cr3") /\ cr3' = current_pd /\ UNCHANGED <<directory, current_pd, handlers>>
       \/ At("request_isr") /\ handlers' = handlers \cup {14} /\ UNCHANGED <<directory, current_pd, cr3>>
    /\ Proceed
    /\ UNCHANGED <<eip_base, esp_base, heap, gdt, idt, pic, open, int_flag, taskVars, parts>>

kheap_init ==
    /\ At("kheap_init")
    /\ heap' = (KERNEL_VMA + KernelEnd) .. (KERNEL_VMA + KERNEL_PMA + KERNEL_SIZE - 1)
    /\ Proceed
    /\ UNCHANGED <<eip_base, esp_base, cr3, directory, current_pd, intVars, taskVars, parts>>

-----------------------------------------------------------------------------
(* Tasks *)

\* kmain becomes the idle task. The heap is fresh: new_task does not fail.
SchedInit ==
    /\ \/ /\ At("new_task")
          /\ page_dir' = [page_dir EXCEPT !["idle"] = current_pd]
          /\ running_task' = "idle" /\ state' = "stopped" /\ UNCHANGED scheduling_enabled
       \/ At("set_running") /\ state' = "running" /\ UNCHANGED <<page_dir, running_task, scheduling_enabled>>
       \/ At("enable_scheduling") /\ scheduling_enabled' = TRUE /\ UNCHANGED <<page_dir, running_task, state>>
    /\ Proceed
    /\ UNCHANGED <<ready, memVars, intVars, parts>>

pci_init ==
    /\ At("pci_init") /\ Probe
    /\ IF scan' = <<>> THEN Proceed ELSE UNCHANGED bootVars
    /\ UNCHANGED <<memVars, intVars, taskVars, frameVars, ps2Vars>>

\* create_kernel_task: new_task, then the two stores of enqueue_ready_task, which finds the
\* queue empty, with interrupts enabled. If there is no memory the boot goes on without the shell.
StartShell ==
    /\ \/ /\ At("create_kernel_task")
          /\ page_dir' = [page_dir EXCEPT !["shell"] = current_pd]
          /\ Proceed /\ UNCHANGED ready
       \/ /\ At("create_kernel_task")
          /\ step' = step + 3 /\ UNCHANGED <<has_map, stopped, page_dir, ready>>
       \/ At("set_head") /\ ready' = <<"shell">> /\ Proceed /\ UNCHANGED page_dir
       \/ At("set_tail") /\ Proceed /\ UNCHANGED <<page_dir, ready>>
    /\ UNCHANGED <<state, running_task, scheduling_enabled, memVars, intVars, parts>>

\* To the next ready task and its page directory.
switch_task ==
    LET q == Append(ready, running_task) IN
    /\ running_task' = Head(q) /\ ready' = Tail(q)
    /\ current_pd' = page_dir[Head(q)] /\ cr3' = page_dir[Head(q)]
    /\ UNCHANGED <<page_dir, state, scheduling_enabled, eip_base, esp_base, directory, heap>>

\* kmain's last loop.
sched_yield == At("sched_yield") /\ switch_task /\ UNCHANGED <<bootVars, intVars, parts>>

-----------------------------------------------------------------------------
(* Interrupts, and what happens after boot *)

Raised(irq) == ~stopped /\ int_flag /\ irq \in open

\* Between the two stores there is a head and no tail: the switch appends the running task
\* through address 0.
NullTail == At("set_tail")

Tick ==
    /\ Raised(0)
    /\ \/ ~scheduling_enabled /\ UNCHANGED <<bootVars, memVars, taskVars, int_flag>>
       \/ scheduling_enabled /\ ~NullTail /\ switch_task /\ UNCHANGED <<bootVars, int_flag>>
       \/ /\ scheduling_enabled /\ NullTail /\ Translate(0) = M
          /\ stopped' = TRUE /\ int_flag' = FALSE /\ state' = "ready"
          /\ UNCHANGED <<step, has_map, page_dir, running_task, ready, scheduling_enabled, memVars>>
    /\ UNCHANGED <<gdt, idt, pic, handlers, open, parts>>

KeyboardByte ==
    /\ Raised(1) /\ kbd_isr
    /\ UNCHANGED <<bootVars, memVars, intVars, taskVars, frameVars, pciVars>>

Controller ==
    /\ ControllerTakes \/ ControllerAnswers
    /\ UNCHANGED <<bootVars, memVars, intVars, taskVars, frameVars, pciVars>>

Booted == ~stopped /\ Program[step] = "sched_yield"

UseFrames ==
    /\ Booted
    /\ \E b \in AllFrames : alloc_frame(b) \/ free_frame(b)
    /\ UNCHANGED <<bootVars, memVars, intVars, taskVars, ps2Vars, pciVars>>

UsePci ==
    /\ Booted /\ running_task = "shell"
    /\ DriverWrites \/ DeviceStatus
    /\ UNCHANGED <<bootVars, memVars, intVars, taskVars, frameVars, ps2Vars>>

BootStep ==
    \/ MapBootPage \/ EnablePaging \/ HigherHalf
    \/ tty_init \/ Tables \/ pit_init \/ Ps2Step
    \/ check_map \/ InitFrames \/ paging_init \/ kheap_init
    \/ SchedInit \/ pci_init \/ StartShell \/ sched_yield

Next == BootStep \/ Tick \/ KeyboardByte \/ Controller \/ UseFrames \/ UsePci

\* The CPU goes on with the boot code whenever it is not in a handler, and the controller
\* takes what it is sent.
Spec == Init /\ [][Next]_bootAll /\ WF_bootAll(BootStep) /\ WF_bootAll(Controller)

-----------------------------------------------------------------------------
(* Properties *)

\* The physical addresses a step reads at their place in memory: the boot loader's
\* information and its memory map.
ReadsAt == IF Program[step] \in {"check_map", "frame_init"} THEN {mbt} ELSE {}

\* At every step of the boot, and whatever task an interrupt switched to, the code, the
\* stack, the boot loader's data when it is read and the whole heap are mapped to where
\* they are; and what virt_to_phys tells a device of the heap is what the CPU sees.
EveryAccessMapped ==
    ~stopped =>
        /\ Translate(eip_base + KERNEL_PMA) = KERNEL_PMA
        /\ Translate(esp_base + KERNEL_PMA) = KERNEL_PMA
        /\ \A a \in ReadsAt : Translate(a) = a
        /\ \A a \in heap : Translate(a) = a - KERNEL_VMA /\ virt_to_phys(a) = a - KERNEL_VMA
        /\ Program[step] \in {"new_task", "pci_init", "create_kernel_task"} => heap # {}

\* From the moment arch_init enables interrupts, long before there is a heap or a task,
\* every interrupt that can come finds its vector, wrapper and handler, and a tick that
\* switches finds a running task and page directories that are set up. (Whether it finds the
\* ready queue whole is said by ShellStarts.)
InterruptsReady ==
    int_flag =>
        /\ gdt /\ idt = "wrappers" /\ pic
        /\ \A irq \in open \ {2} : 32 + irq \in handlers
        /\ scheduling_enabled =>
              /\ state = "running"
              /\ \A t \in {running_task} \cup {ready[i] : i \in DOMAIN ready} : page_dir[t] = "kernel"

\* How create_kernel_task can go wrong: there is no memory for the shell, or a tick comes
\* between the two stores that link it.
NoMemory == Booted /\ page_dir["shell"] = "none"
TornQueue == stopped /\ Program[step] = "set_tail"

\* If the boot loader gave a memory map, the shell comes to run: no wait of ps2_init, no
\* interrupt and no failed allocation of the PCI scan keeps the boot from its end; only
\* create_kernel_task can, in those two ways.
ShellStarts == has_map ~> (running_task = "shell" \/ NoMemory \/ TornQueue)

\* Not true of the code: nothing keeps the timer out of create_kernel_task.
ShellAlwaysStarts == has_map ~> (running_task = "shell" \/ NoMemory)
=============================================================================
