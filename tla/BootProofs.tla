----------------------------- MODULE BootProofs -----------------------------
(***************************************************************************)
(* Proofs about booting, for every memory layout, memory map, machine and  *)
(* controller.                                                             *)
(***************************************************************************)
EXTENDS Boot, SequenceTheorems, TLAPS

-----------------------------------------------------------------------------
(* The order of the steps *)

LEMMA Order ==
    /\ Program[1] = "identity" /\ Program[2] = "higher" /\ Program[3] = "paging"
    /\ Program[4] = "jump" /\ Program[5] = "adjust" /\ Program[6] = "tty_init"
    /\ Program[7] = "gdt_init" /\ Program[8] = "idt_init" /\ Program[9] = "pic_init"
    /\ Program[10] = "isr_init" /\ Program[11] = "pit_init" /\ Program[12] = "ps2_init"
    /\ Program[13] = "kbd_init" /\ Program[14] = "enable_interrupts"
    /\ Program[15] = "check_map" /\ Program[16] = "frame_init" /\ Program[17] = "paging_init"
    /\ Program[18] = "write_cr3" /\ Program[19] = "request_isr" /\ Program[20] = "kheap_init"
    /\ Program[21] = "new_task" /\ Program[22] = "set_running"
    /\ Program[23] = "enable_scheduling" /\ Program[24] = "pci_init"
    /\ Program[25] = "create_kernel_task" /\ Program[26] = "set_head"
    /\ Program[27] = "set_tail" /\ Program[28] = "sched_yield"
  BY DEF Program, boot, kmain, arch_init, mm_init, sched_init

\* Every step occurs once: being at it says where in the program the CPU is.
LEMMA Place ==
  ASSUME NEW k \in 1 .. 28
  PROVE  /\ Program[k] = "identity" => k = 1
         /\ Program[k] = "higher" => k = 2
         /\ Program[k] = "paging" => k = 3
         /\ Program[k] = "jump" => k = 4
         /\ Program[k] = "adjust" => k = 5
         /\ Program[k] = "tty_init" => k = 6
         /\ Program[k] = "gdt_init" => k = 7
         /\ Program[k] = "idt_init" => k = 8
         /\ Program[k] = "pic_init" => k = 9
         /\ Program[k] = "isr_init" => k = 10
         /\ Program[k] = "pit_init" => k = 11
         /\ Program[k] = "ps2_init" => k = 12
         /\ Program[k] = "kbd_init" => k = 13
         /\ Program[k] = "enable_interrupts" => k = 14
         /\ Program[k] = "check_map" => k = 15
         /\ Program[k] = "frame_init" => k = 16
         /\ Program[k] = "paging_init" => k = 17
         /\ Program[k] = "write_cr3" => k = 18
         /\ Program[k] = "request_isr" => k = 19
         /\ Program[k] = "kheap_init" => k = 20
         /\ Program[k] = "new_task" => k = 21
         /\ Program[k] = "set_running" => k = 22
         /\ Program[k] = "enable_scheduling" => k = 23
         /\ Program[k] = "pci_init" => k = 24
         /\ Program[k] = "create_kernel_task" => k = 25
         /\ Program[k] = "set_head" => k = 26
         /\ Program[k] = "set_tail" => k = 27
         /\ Program[k] = "sched_yield" => k = 28
  BY Order

-----------------------------------------------------------------------------
(* The inductive invariants: what is set up at each step *)

\* The two directories, the registers of the CPU and the heap.
Memory ==
    /\ DOMAIN directory = {"boot", "kernel"}
    /\ \A d \in {"boot", "kernel"} : DOMAIN directory[d] = Pages
    /\ step > 1 => directory["boot"][0] = Mapping0
    /\ step > 2 => directory["boot"][KERNEL_VMA \div BigPage] = Mapping0
    /\ step > 17 => directory["kernel"][KERNEL_VMA \div BigPage] = Mapping0
    /\ cr3 = IF step <= 3 THEN "off" ELSE IF step <= 18 THEN "boot" ELSE "kernel"
    /\ current_pd = IF step <= 17 THEN "none" ELSE "kernel"
    /\ eip_base = IF step <= 4 THEN 0 ELSE KERNEL_VMA
    /\ esp_base = IF step <= 5 THEN 0 ELSE KERNEL_VMA
    /\ heap = IF step <= 20 THEN {}
              ELSE (KERNEL_VMA + KernelEnd) .. (KERNEL_VMA + KERNEL_PMA + KERNEL_SIZE - 1)

\* No line is opened before isr_init has cleared the table.
Interrupts ==
    /\ step > 7 => gdt
    /\ step > 10 => idt = "wrappers"
    /\ step > 9 => pic
    /\ step <= 11 => open \subseteq {2}
    /\ \A irq \in open \ {2} : 32 + irq \in handlers
    /\ int_flag => step > 14

\* At the end of the boot: without memory for the shell, and with it.
Alone == ready = <<>> /\ running_task = "idle"
Both ==
    /\ ready \in Seq({"idle", "shell"}) /\ Len(ready) = 1
    /\ running_task \in {"idle", "shell"} /\ page_dir["shell"] = "kernel"

\* kmain becomes the idle task; a switch changes who runs only once there are two.
Tasks ==
    /\ DOMAIN page_dir = {"idle", "shell"}
    /\ step <= 21 => running_task = "none"
    /\ step \in 22 .. 27 => running_task = "idle"
    /\ step <= 26 => ready = <<>>
    /\ step = 27 => ready = <<"shell">>
    /\ step = 28 => Alone \/ Both
    /\ step > 21 => page_dir["idle"] = "kernel"
    /\ step > 22 /\ int_flag => state = "running"
    /\ step \in 26 .. 27 => page_dir["shell"] = "kernel"
    /\ scheduling_enabled => step > 23

BootInv == step \in 1 .. 28 /\ Memory /\ Interrupts /\ Tasks

-----------------------------------------------------------------------------
(* Addresses *)

\* An address of a large page: its directory entry and its offset.
LEMMA Offset ==
  ASSUME NEW b \in Nat \ {0}, NEW v \in Nat, v % b = 0, NEW x \in 0 .. b - 1
  PROVE  (v + x) \div b = v \div b /\ (v + x) % b = x
  OBVIOUS

\* KERNEL_VMA has an entry of its own, other than 0.
LEMMA KernelEntry ==
    /\ BigPage \in Nat \ {0} /\ KERNEL_VMA \in Nat /\ KERNEL_VMA % BigPage = 0
    /\ 0 \in Pages /\ KERNEL_VMA \div BigPage \in Pages
<1>1. /\ BigPage \in Nat \ {0} /\ KERNEL_VMA \in 1 .. M - BigPage
      /\ KERNEL_VMA % BigPage = 0 /\ M % BigPage = 0 /\ M \in Nat
  BY BootAssumption, FrameAssumption
<1>2. ASSUME NEW b \in Nat \ {0}, NEW v \in Nat, NEW m \in Nat, v % b = 0, m % b = 0, v <= m - b
      PROVE  v \div b \in 0 .. (m \div b) - 1
  BY <1>2
<1>3. KERNEL_VMA \div BigPage \in 0 .. (M \div BigPage) - 1
  BY <1>1, <1>2
<1>4. ASSUME NEW q, NEW z \in Int, q \in 0 .. z - 1 PROVE 0 \in 0 .. z - 1
  BY <1>4
<1>5. M \div BigPage \in Int
  BY <1>1
<1> QED BY <1>1, <1>3, <1>4, <1>5 DEF Pages

-----------------------------------------------------------------------------
(* Each step of the boot *)

LEMMA InitBoot == Init => BootInv
  BY KernelEntry DEF Init, FrameInit, Ps2Init, PciInit, BootInv, Memory, Interrupts, Tasks

\* The steps of create_kernel_task.
LEMMA ShellPlace ==
  ASSUME step \in 1 .. 28, StartShell
  PROVE  /\ step \in 25 .. 27 /\ (step' = step + 1 \/ (step = 25 /\ step' = 28))
         /\ step = 25 <=> Program[step] = "create_kernel_task"
         /\ step = 26 <=> Program[step] = "set_head"
         /\ step = 27 <=> Program[step] = "set_tail"
<1>1. \/ Program[step] = "create_kernel_task" /\ step' = step + 1
      \/ Program[step] = "create_kernel_task" /\ step' = step + 3
      \/ Program[step] = "set_head" /\ step' = step + 1
      \/ Program[step] = "set_tail" /\ step' = step + 1
  BY DEF StartShell, At, Proceed
<1>2. /\ Program[25] = "create_kernel_task" /\ Program[26] = "set_head"
      /\ Program[27] = "set_tail"
  BY Order
<1>3. /\ Program[step] = "create_kernel_task" => step = 25
      /\ Program[step] = "set_head" => step = 26
      /\ Program[step] = "set_tail" => step = 27
  BY Place
<1> QED BY <1>1, <1>2, <1>3

\* A queue with another task behind it.
LEMMA Behind ==
  ASSUME NEW T, NEW q \in Seq(T), NEW t \in T
  PROVE  /\ Append(q, t) \in Seq(T) /\ Append(q, t) # <<>> /\ Len(Append(q, t)) = Len(q) + 1
         /\ \A i \in 1 .. Len(q) : Append(q, t)[i] = q[i]
  BY AppendProperties

\* A queue of one, rotated.
LEMMA Rotate ==
  ASSUME NEW T, NEW q \in Seq(T), Len(q) = 1, NEW t \in T
  PROVE  /\ Head(Append(q, t)) = q[1] /\ q[1] \in T
         /\ Tail(Append(q, t)) \in Seq(T) /\ Len(Tail(Append(q, t))) = 1
<1> DEFINE p == Append(q, t)
<1>1. p \in Seq(T) /\ p # <<>> /\ Len(p) = Len(q) + 1 /\ \A i \in 1 .. Len(q) : p[i] = q[i]
  BY Behind
<1> HIDE DEF p
<1>2. p[1] = q[1] /\ q[1] \in T
  BY <1>1, ElementOfSeq
<1>3. Tail(p) \in Seq(T) /\ Len(Tail(p)) = 1
  BY <1>1, HeadTailProperties
<1>4. Head(p) = p[1]
  BY <1>1
<1> QED BY <1>2, <1>3, <1>4 DEF p

\* A switch between kernel tasks: the directory stays the kernel's.
LEMMA Switch ==
  ASSUME BootInv, switch_task, step \in {24, 25, 26, 28}, step' = step, int_flag' = int_flag
  PROVE  Memory' /\ Tasks'
<1>1. /\ UNCHANGED <<page_dir, state, scheduling_enabled, eip_base, esp_base, directory, heap>>
      /\ running_task' = Head(Append(ready, running_task))
      /\ ready' = Tail(Append(ready, running_task))
      /\ current_pd' = page_dir[Head(Append(ready, running_task))]
      /\ cr3' = page_dir[Head(Append(ready, running_task))]
  BY DEF switch_task
<1>2. CASE Alone
  <2>1. page_dir["idle"] = "kernel"
    BY DEF BootInv, Tasks
  <2>2. running_task' = "idle" /\ ready' = <<>> /\ current_pd' = "kernel" /\ cr3' = "kernel"
    BY <1>1, <1>2, <2>1 DEF Alone
  <2>3. Memory'
    BY <1>1, <2>2 DEF BootInv, Memory
  <2>4. Alone'
    BY <2>2 DEF Alone
  <2> QED BY <1>1, <2>2, <2>3, <2>4 DEF BootInv, Tasks
<1>3. CASE step = 28 /\ Both
  <2>1. page_dir["idle"] = "kernel" /\ page_dir["shell"] = "kernel"
    BY <1>3 DEF BootInv, Tasks, Both
  <2>2. /\ ready \in Seq({"idle", "shell"}) /\ Len(ready) = 1 /\ running_task \in {"idle", "shell"}
    BY <1>3 DEF Both
  <2>3. /\ running_task' = ready[1] /\ ready[1] \in {"idle", "shell"}
        /\ ready' \in Seq({"idle", "shell"}) /\ Len(ready') = 1
    BY <1>1, <2>2, Rotate
  <2>4. current_pd' = "kernel" /\ cr3' = "kernel" /\ running_task' \in {"idle", "shell"}
    BY <1>1, <2>1, <2>2, <2>3
  <2>5. Both'
    BY <1>1, <2>1, <2>3, <2>4 DEF Both
  <2>6. Memory'
    BY <1>1, <1>3, <2>4 DEF BootInv, Memory
  <2> QED BY <1>1, <1>3, <2>5, <2>6 DEF BootInv, Tasks
<1>4. Alone \/ (step = 28 /\ Both)
  BY DEF BootInv, Tasks, Alone
<1> QED BY <1>2, <1>3, <1>4

\* Steps that leave the memory alone: they go on at most to the next position, which
\* none of the stores of Memory separates.
LEMMA NextMemory ==
  ASSUME BootInv, BootStep PROVE Memory'
<1> USE DEF Proceed, At
<1>0. step \in 1 .. 28
  BY DEF BootInv
<1>1. CASE MapBootPage
  <2>1. CASE Program[step] = "identity" /\ directory' = [directory EXCEPT !["boot"][0] = Mapping0]
    <3>1. step = 1 /\ step' = 2
      BY <1>0, <1>1, <2>1, Place DEF MapBootPage
    <3>2. /\ directory' = [directory EXCEPT !["boot"] = [directory["boot"] EXCEPT ![0] = Mapping0]]
          /\ DOMAIN directory = {"boot", "kernel"}
          /\ \A d \in {"boot", "kernel"} : DOMAIN directory[d] = Pages
      BY <2>1 DEF BootInv, Memory
    <3>3. /\ DOMAIN directory' = {"boot", "kernel"} /\ directory'["boot"][0] = Mapping0
          /\ \A d \in {"boot", "kernel"} : DOMAIN directory'[d] = Pages
      BY <3>2, KernelEntry
    <3> QED BY <1>1, <3>1, <3>3 DEF MapBootPage, BootInv, Memory
  <2>2. CASE Program[step] = "higher"
             /\ directory' = [directory EXCEPT !["boot"][KERNEL_VMA \div BigPage] = Mapping0]
    <3>1. step = 2 /\ step' = 3
      BY <1>0, <1>1, <2>2, Place DEF MapBootPage
    <3>2. /\ directory' = [directory EXCEPT !["boot"] =
                             [directory["boot"] EXCEPT ![KERNEL_VMA \div BigPage] = Mapping0]]
          /\ DOMAIN directory = {"boot", "kernel"}
          /\ \A d \in {"boot", "kernel"} : DOMAIN directory[d] = Pages
          /\ directory["boot"][0] = Mapping0
      BY <2>2, <3>1 DEF BootInv, Memory
    <3>3. /\ DOMAIN directory' = {"boot", "kernel"} /\ directory'["boot"][0] = Mapping0
          /\ directory'["boot"][KERNEL_VMA \div BigPage] = Mapping0
          /\ \A d \in {"boot", "kernel"} : DOMAIN directory'[d] = Pages
      BY <3>2, KernelEntry
    <3> QED BY <1>1, <3>1, <3>3 DEF MapBootPage, BootInv, Memory
  <2> QED BY <1>1, <2>1, <2>2 DEF MapBootPage
<1>2. CASE EnablePaging
  <2>0. Program[step] = "paging" /\ step' = step + 1
    BY <1>2 DEF EnablePaging
  <2>1. step = 3 /\ step' = 4
    BY <1>0, <2>0, Place
  <2> QED BY <1>2, <2>1 DEF EnablePaging, BootInv, Memory
<1>3. CASE HigherHalf
  <2>1. \/ step = 4 /\ step' = 5 /\ eip_base' = KERNEL_VMA /\ UNCHANGED esp_base
        \/ step = 5 /\ step' = 6 /\ esp_base' = KERNEL_VMA /\ UNCHANGED eip_base
    BY <1>0, <1>3, Place DEF HigherHalf
  <2> QED BY <1>3, <2>1 DEF HigherHalf, BootInv, Memory
<1>4. CASE paging_init
  <2>1. CASE Program[step] = "paging_init"
    <3>1. step = 17 /\ step' = 18 /\ current_pd' = "kernel" /\ cr3' = cr3
      BY <1>0, <1>4, <2>1, Place DEF paging_init
    <3>2. directory' = [directory EXCEPT !["kernel"] =
                          [p \in Pages |-> IF p = KERNEL_VMA \div BigPage THEN Mapping0 ELSE Absent]]
      BY <1>0, <1>4, <2>1 DEF paging_init
    <3>3. /\ DOMAIN directory' = {"boot", "kernel"}
          /\ directory'["boot"] = directory["boot"]
          /\ directory'["kernel"] = [p \in Pages |-> IF p = KERNEL_VMA \div BigPage THEN Mapping0 ELSE Absent]
      BY <3>2 DEF BootInv, Memory
    <3> QED BY <1>4, <3>1, <3>3, KernelEntry DEF paging_init, BootInv, Memory
  <2>2. CASE Program[step] = "write_cr3"
    <3>1. step = 18 /\ step' = 19 /\ cr3' = current_pd /\ UNCHANGED <<directory, current_pd>>
      BY <1>0, <1>4, <2>2, Place DEF paging_init
    <3> QED BY <1>4, <3>1 DEF paging_init, BootInv, Memory
  <2>3. CASE Program[step] = "request_isr"
    <3>1. step = 19 /\ step' = 20 /\ UNCHANGED <<directory, current_pd, cr3>>
      BY <1>0, <1>4, <2>3, Place DEF paging_init
    <3> QED BY <1>4, <3>1 DEF paging_init, BootInv, Memory
  <2> QED BY <1>4, <2>1, <2>2, <2>3 DEF paging_init
<1>5. CASE kheap_init
  <2>0. Program[step] = "kheap_init" /\ step' = step + 1
    BY <1>5 DEF kheap_init
  <2>1. step = 20 /\ step' = 21
    BY <1>0, <2>0, Place
  <2> QED BY <1>5, <2>1 DEF kheap_init, BootInv, Memory
<1>6. CASE sched_yield
  <2>1. step = 28 /\ step' = step /\ switch_task /\ int_flag' = int_flag
    BY <1>0, <1>6, Place DEF sched_yield, bootVars, intVars
  <2> QED BY <2>1, Switch
<1>7. ASSUME UNCHANGED memVars, step' \in {step, step + 1} \/ (step = 25 /\ step' = 28),
             step \notin {1, 2, 3, 4, 5, 17, 18, 20}
      PROVE  Memory'
  BY <1>0, <1>7 DEF BootInv, Memory, memVars
<1>8. CASE tty_init
  BY <1>0, <1>7, <1>8, Place DEF tty_init
<1>9. CASE Tables
  BY <1>0, <1>7, <1>9, Place
  DEF Tables, gdt_init, idt_init, pic_init, isr_init, enable_interrupts
<1>10. CASE pit_init
  BY <1>0, <1>7, <1>10, Place DEF pit_init
<1>11. CASE Ps2Step
  BY <1>0, <1>7, <1>11, Place DEF Ps2Step, bootVars
<1>12. CASE check_map
  BY <1>0, <1>7, <1>12, Place DEF check_map
<1>13. CASE InitFrames
  BY <1>0, <1>7, <1>13, Place DEF InitFrames
<1>14. CASE SchedInit
  BY <1>0, <1>7, <1>14, Place DEF SchedInit
<1>15. CASE pci_init
  <2>1. Program[step] = "pci_init" /\ step' \in {step, step + 1} /\ UNCHANGED memVars
    BY <1>0, <1>15 DEF pci_init, bootVars
  <2> QED BY <1>0, <1>7, <2>1, Place
<1>16. CASE StartShell
  <2>1. step \in 25 .. 27 /\ (step' = step + 1 \/ (step = 25 /\ step' = 28))
    BY <1>0, <1>16, ShellPlace
  <2> QED BY <1>7, <1>16, <2>1 DEF StartShell
<1> QED
  BY <1>1, <1>2, <1>3, <1>4, <1>5, <1>6, <1>8, <1>9, <1>10, <1>11, <1>12, <1>13, <1>14,
     <1>15, <1>16 DEF BootStep

\* No step goes past the end: the last one stays where it is.
LEMMA NextPlace ==
  ASSUME BootInv, BootStep PROVE step' \in 1 .. 28
<1> USE DEF Proceed, At
<1>0. step \in 1 .. 28
  BY DEF BootInv
<1>1. ASSUME step' \in {step, step + 1}, step # 28 \/ step' = step PROVE step' \in 1 .. 28
  BY <1>0, <1>1
<1>2. step = 28 => Program[step] = "sched_yield"
  BY Order
<1>3. CASE MapBootPage \/ EnablePaging \/ HigherHalf \/ tty_init
  BY <1>1, <1>2, <1>3 DEF MapBootPage, EnablePaging, HigherHalf, tty_init
<1>4. CASE Tables
  BY <1>1, <1>2, <1>4 DEF Tables, gdt_init, idt_init, pic_init, isr_init, enable_interrupts
<1>5. CASE pit_init \/ check_map \/ InitFrames
  BY <1>1, <1>2, <1>5 DEF pit_init, check_map, InitFrames
<1>6. CASE Ps2Step
  BY <1>1, <1>2, <1>6 DEF Ps2Step, bootVars
<1>7. CASE paging_init \/ SchedInit
  BY <1>1, <1>2, <1>7 DEF paging_init, SchedInit
<1>8. CASE kheap_init
  <2>1. Program[step] = "kheap_init" /\ step' = step + 1
    BY <1>8 DEF kheap_init
  <2> QED BY <1>1, <1>2, <2>1
<1>9. CASE pci_init
  BY <1>1, <1>2, <1>9 DEF pci_init, bootVars
<1>10. CASE StartShell
  BY <1>0, <1>10, ShellPlace
<1>11. CASE sched_yield
  BY <1>0, <1>11 DEF sched_yield, bootVars
<1> QED
  BY <1>3, <1>4, <1>5, <1>6, <1>7, <1>8, <1>9, <1>10, <1>11 DEF BootStep

LEMMA NextInterrupts ==
  ASSUME BootInv, BootStep PROVE Interrupts'
<1> USE DEF Proceed, At
<1>0. step \in 1 .. 28
  BY DEF BootInv
<1>1. CASE Tables
  <2>0. CASE gdt_init
    <3>1. step = 7 /\ step' = 8
      BY <1>0, <1>1, <2>0, Place DEF Tables, gdt_init
    <3> QED BY <2>0, <3>1 DEF gdt_init, BootInv, Interrupts
  <2>1. CASE idt_init
    <3>1. step = 8 /\ step' = 9
      BY <1>0, <1>1, <2>1, Place DEF Tables, idt_init
    <3> QED BY <2>1, <3>1 DEF idt_init, BootInv, Interrupts
  <2>2. CASE pic_init
    <3>1. step = 9 /\ step' = 10
      BY <1>0, <1>1, <2>2, Place DEF Tables, pic_init
    <3> QED BY <2>2, <3>1 DEF pic_init, BootInv, Interrupts
  <2>3. CASE isr_init
    <3>1. step = 10 /\ step' = 11
      BY <1>0, <1>1, <2>3, Place DEF Tables, isr_init
    <3> QED BY <2>3, <3>1 DEF isr_init, BootInv, Interrupts
  <2>4. CASE enable_interrupts
    <3>1. step = 14 /\ step' = 15
      BY <1>0, <1>1, <2>4, Place DEF Tables, enable_interrupts
    <3> QED BY <2>4, <3>1 DEF enable_interrupts, BootInv, Interrupts
  <2> QED BY <1>1, <2>0, <2>1, <2>2, <2>3, <2>4 DEF Tables
<1>2. CASE pit_init
  <2>1. step = 11 /\ step' = 12
    BY <1>0, <1>2, Place DEF pit_init
  <2> QED BY <1>2, <2>1 DEF pit_init, request_irq, BootInv, Interrupts
<1>3. CASE Ps2Step
  <2>1. step \in {12, 13} /\ step' \in {step, step + 1}
    BY <1>0, <1>3, Place DEF Ps2Step, bootVars
  <2>2. UNCHANGED <<handlers, open>> \/ request_irq(1)
    BY <1>3 DEF Ps2Step
  <2> QED BY <1>3, <2>1, <2>2 DEF Ps2Step, request_irq, BootInv, Interrupts
<1>4. CASE paging_init
  <2>1. step \in {17, 18, 19} /\ step' = step + 1
    BY <1>0, <1>4, Place DEF paging_init
  <2>2. handlers \subseteq handlers' /\ UNCHANGED <<gdt, idt, pic, open, int_flag>>
    BY <1>4 DEF paging_init
  <2> QED BY <2>1, <2>2 DEF BootInv, Interrupts
<1>5. ASSUME UNCHANGED intVars, step' \in {step, step + 1} \/ (step = 25 /\ step' = 28),
             step \notin 7 .. 14
      PROVE  Interrupts'
  BY <1>0, <1>5 DEF BootInv, Interrupts, intVars
<1>6. CASE MapBootPage \/ EnablePaging \/ HigherHalf \/ tty_init
  BY <1>0, <1>5, <1>6, Place DEF MapBootPage, EnablePaging, HigherHalf, tty_init
<1>7. CASE check_map \/ InitFrames
  BY <1>0, <1>5, <1>7, Place DEF check_map, InitFrames
<1>8. CASE kheap_init
  <2>1. Program[step] = "kheap_init" /\ step' = step + 1 /\ UNCHANGED intVars
    BY <1>8 DEF kheap_init
  <2> QED BY <1>0, <1>5, <2>1, Place
<1>9. CASE SchedInit
  BY <1>0, <1>5, <1>9, Place DEF SchedInit
<1>10. CASE pci_init
  <2>1. Program[step] = "pci_init" /\ step' \in {step, step + 1} /\ UNCHANGED intVars
    BY <1>0, <1>10 DEF pci_init, bootVars
  <2> QED BY <1>0, <1>5, <2>1, Place
<1>11. CASE StartShell
  <2>1. step \in 25 .. 27 /\ (step' = step + 1 \/ (step = 25 /\ step' = 28)) /\ UNCHANGED intVars
    BY <1>0, <1>11, ShellPlace DEF StartShell
  <2> QED BY <1>5, <2>1
<1>12. CASE sched_yield
  BY <1>0, <1>5, <1>12, Place DEF sched_yield, bootVars
<1> QED
  BY <1>1, <1>2, <1>3, <1>4, <1>6, <1>7, <1>8, <1>9, <1>10, <1>11, <1>12 DEF BootStep

LEMMA NextTasks ==
  ASSUME BootInv, BootStep PROVE Tasks'
<1> USE DEF Proceed, At
<1>0. step \in 1 .. 28
  BY DEF BootInv
<1>1. CASE SchedInit
  <2>1. CASE Program[step] = "new_task"
    <3>1. step = 21 /\ step' = 22
      BY <1>0, <1>1, <2>1, Place DEF SchedInit
    <3>2. /\ page_dir' = [page_dir EXCEPT !["idle"] = current_pd] /\ running_task' = "idle"
          /\ UNCHANGED <<scheduling_enabled, ready>>
      BY <1>1, <2>1 DEF SchedInit
    <3>3. current_pd = "kernel" /\ DOMAIN page_dir = {"idle", "shell"} /\ ready = <<>>
          /\ ~scheduling_enabled
      BY <3>1 DEF BootInv, Memory, Tasks
    <3> QED BY <3>1, <3>2, <3>3 DEF Tasks
  <2>2. CASE Program[step] = "set_running"
    <3>1. step = 22 /\ step' = 23
      BY <1>0, <1>1, <2>2, Place DEF SchedInit
    <3>2. state' = "running" /\ UNCHANGED <<page_dir, running_task, scheduling_enabled, ready>>
      BY <1>1, <2>2 DEF SchedInit
    <3> QED BY <3>1, <3>2 DEF BootInv, Tasks
  <2>3. CASE Program[step] = "enable_scheduling"
    <3>1. step = 23 /\ step' = 24
      BY <1>0, <1>1, <2>3, Place DEF SchedInit
    <3>2. UNCHANGED <<page_dir, running_task, state, ready, int_flag>>
      BY <1>1, <2>3 DEF SchedInit, intVars
    <3> QED BY <3>1, <3>2 DEF BootInv, Tasks
  <2> QED BY <1>1, <2>1, <2>2, <2>3 DEF SchedInit
<1>2. CASE StartShell
  <2>1. /\ step \in 25 .. 27 /\ (step' = step + 1 \/ (step = 25 /\ step' = 28))
        /\ step = 25 <=> Program[step] = "create_kernel_task"
        /\ step = 26 <=> Program[step] = "set_head"
        /\ step = 27 <=> Program[step] = "set_tail"
    BY <1>0, <1>2, ShellPlace
  <2>2. UNCHANGED <<state, running_task, scheduling_enabled, int_flag>>
    BY <1>2 DEF StartShell, intVars
  <2>3. /\ current_pd = "kernel" /\ DOMAIN page_dir = {"idle", "shell"} /\ running_task = "idle"
        /\ page_dir["idle"] = "kernel" /\ (int_flag => state = "running")
    BY <2>1 DEF BootInv, Memory, Tasks
  <2>4. CASE step = 25
    <3>1. ready = <<>>
      BY <2>4 DEF BootInv, Tasks
    <3>2. \/ step' = 26 /\ UNCHANGED ready /\ page_dir' = [page_dir EXCEPT !["shell"] = current_pd]
          \/ step' = 28 /\ UNCHANGED <<page_dir, ready>>
      BY <1>2, <2>1, <2>4 DEF StartShell
    <3>3. CASE step' = 26 /\ UNCHANGED ready /\ page_dir' = [page_dir EXCEPT !["shell"] = current_pd]
      <4>1. page_dir'["shell"] = "kernel" /\ page_dir'["idle"] = "kernel"
            /\ DOMAIN page_dir' = {"idle", "shell"}
        BY <2>3, <3>3
      <4> QED BY <2>2, <2>3, <3>1, <3>3, <4>1 DEF Tasks
    <3>4. CASE step' = 28 /\ UNCHANGED <<page_dir, ready>>
      <4>1. Alone'
        BY <2>2, <2>3, <3>1, <3>4 DEF Alone
      <4> QED BY <2>2, <2>3, <3>4, <4>1 DEF Tasks
    <3> QED BY <3>2, <3>3, <3>4
  <2>5. CASE step = 26
    <3>1. ready' = <<"shell">> /\ UNCHANGED page_dir /\ step' = 27
      BY <1>2, <2>1, <2>5 DEF StartShell
    <3>2. page_dir["shell"] = "kernel"
      BY <2>5 DEF BootInv, Tasks
    <3> QED BY <2>2, <2>3, <3>1, <3>2 DEF Tasks
  <2>6. CASE step = 27
    <3>1. UNCHANGED <<page_dir, ready>> /\ step' = 28
      BY <1>2, <2>1, <2>6 DEF StartShell
    <3>2. page_dir["shell"] = "kernel" /\ ready = <<"shell">>
      BY <2>6 DEF BootInv, Tasks
    <3>3. Both'
      BY <2>2, <2>3, <3>1, <3>2 DEF Both
    <3> QED BY <2>2, <2>3, <3>1, <3>2, <3>3 DEF Tasks
  <2> QED BY <2>1, <2>4, <2>5, <2>6
<1>3. CASE sched_yield
  <2>1. step = 28 /\ step' = step /\ switch_task /\ int_flag' = int_flag
    BY <1>0, <1>3, Place DEF sched_yield, bootVars, intVars
  <2> QED BY <2>1, Switch
<1>4. ASSUME UNCHANGED taskVars, step' \in {step, step + 1},
             step < 21 \/ (step \in {23, 24} /\ UNCHANGED int_flag)
      PROVE  Tasks'
  <2>1. step' < 22 \/ (step' \in 23 .. 25 /\ step \in 23 .. 24 /\ UNCHANGED int_flag)
    BY <1>0, <1>4
  <2> QED BY <1>0, <1>4, <2>1 DEF BootInv, Tasks, taskVars
<1>5. CASE MapBootPage \/ EnablePaging \/ HigherHalf \/ tty_init
  BY <1>0, <1>4, <1>5, Place DEF MapBootPage, EnablePaging, HigherHalf, tty_init
<1>6. CASE Tables
  BY <1>0, <1>4, <1>6, Place
  DEF Tables, gdt_init, idt_init, pic_init, isr_init, enable_interrupts
<1>7. CASE pit_init \/ check_map \/ InitFrames
  BY <1>0, <1>4, <1>7, Place DEF pit_init, check_map, InitFrames
<1>8. CASE Ps2Step
  BY <1>0, <1>4, <1>8, Place DEF Ps2Step, bootVars
<1>9. CASE paging_init
  BY <1>0, <1>4, <1>9, Place DEF paging_init
<1>10. CASE kheap_init
  <2>1. Program[step] = "kheap_init" /\ step' = step + 1 /\ UNCHANGED taskVars
    BY <1>10 DEF kheap_init
  <2> QED BY <1>0, <1>4, <2>1, Place
<1>11. CASE pci_init
  <2>1. /\ Program[step] = "pci_init" /\ step' \in {step, step + 1}
        /\ UNCHANGED taskVars /\ UNCHANGED int_flag
    BY <1>0, <1>11 DEF pci_init, bootVars, intVars
  <2> QED BY <1>0, <1>4, <2>1, Place
<1> QED
  BY <1>1, <1>2, <1>3, <1>5, <1>6, <1>7, <1>8, <1>9, <1>10, <1>11 DEF BootStep

-----------------------------------------------------------------------------
(* Interrupts and the time after boot *)

LEMMA NextOther ==
  ASSUME BootInv, Tick \/ KeyboardByte \/ Controller \/ UseFrames \/ UsePci \/ UNCHANGED bootAll
  PROVE  BootInv'
<1>1. ASSUME UNCHANGED <<step, memVars, intVars, taskVars>> PROVE BootInv'
  BY <1>1 DEF BootInv, Memory, Interrupts, Tasks, Alone, Both, memVars, intVars, taskVars
<1>2. CASE Tick
  <2>0. UNCHANGED <<gdt, idt, pic, handlers, open>>
    BY <1>2 DEF Tick
  <2>1. CASE ~scheduling_enabled /\ UNCHANGED <<bootVars, memVars, taskVars, int_flag>>
    BY <1>1, <2>0, <2>1 DEF bootVars, intVars
  <2>2. CASE scheduling_enabled /\ ~NullTail /\ switch_task /\ UNCHANGED <<bootVars, int_flag>>
    <3>1. step' = step /\ step \in 24 .. 28 /\ UNCHANGED intVars
      BY <2>0, <2>2 DEF bootVars, BootInv, Tasks, intVars
    <3>2. step # 27
      <4> SUFFICES ASSUME step = 27 PROVE FALSE
        OBVIOUS
      <4>1. Program[27] = "set_tail" /\ running_task = "idle" /\ ~stopped
        BY <1>2, Order DEF BootInv, Tasks, Tick, Raised
      <4> QED BY <2>2, <4>1 DEF NullTail, At
    <3>3. Memory' /\ Tasks'
      BY <2>2, <3>1, <3>2, Switch DEF intVars
    <3>4. Interrupts'
      BY <3>1 DEF BootInv, Interrupts, intVars
    <3> QED BY <3>1, <3>3, <3>4 DEF BootInv
  <2>3. CASE /\ scheduling_enabled /\ NullTail /\ int_flag' = FALSE
             /\ UNCHANGED <<step, page_dir, running_task, ready, scheduling_enabled, memVars>>
    <3>1. Memory'
      BY <2>3 DEF BootInv, Memory, memVars
    <3>2. Interrupts'
      BY <2>0, <2>3 DEF BootInv, Interrupts
    <3>3. Alone' = Alone /\ Both' = Both
      BY <2>3 DEF Alone, Both
    <3>4. Tasks'
      BY <2>3, <3>3 DEF BootInv, Tasks
    <3> QED BY <2>3, <3>1, <3>2, <3>4 DEF BootInv
  <2> QED BY <1>2, <2>1, <2>2, <2>3 DEF Tick
<1>3. CASE KeyboardByte \/ Controller \/ UseFrames \/ UsePci
  BY <1>1, <1>3 DEF KeyboardByte, Controller, UseFrames, UsePci, bootVars
<1>4. CASE UNCHANGED bootAll
  BY <1>1, <1>4 DEF bootAll, bootVars
<1> QED BY <1>2, <1>3, <1>4

\* What boot.s, arch_init, mm_init and sched_init have set up at each position of the boot
\* is there, whatever interrupts come between: no tick undoes a directory or a table.
THEOREM BootInvariant == Spec => []BootInv
<1>1. ASSUME BootInv, [Next]_bootAll PROVE BootInv'
  <2>1. CASE BootStep
    BY <1>1, <2>1, NextPlace, NextMemory, NextInterrupts, NextTasks DEF BootInv
  <2>2. CASE ~BootStep
    BY <1>1, <2>2, NextOther DEF Next
  <2> QED BY <2>1, <2>2
<1> QED BY InitBoot, <1>1, PTL DEF Spec

\* From the moment arch_init enables interrupts (arch.c) every interrupt that can come finds
\* its vector, its wrapper and its handler, and a tick that switches finds tasks to switch to.
THEOREM BootInterrupts == Spec => []InterruptsReady
<1>1. ASSUME BootInv PROVE InterruptsReady
  <2> SUFFICES ASSUME int_flag PROVE InterruptsReady
    BY DEF InterruptsReady
  <2>1. /\ gdt /\ idt = "wrappers" /\ pic
        /\ \A irq \in open \ {2} : 32 + irq \in handlers
    BY <1>1 DEF BootInv, Interrupts
  <2>2. ASSUME scheduling_enabled
        PROVE  /\ state = "running"
               /\ \A t \in {running_task} \cup {ready[i] : i \in DOMAIN ready} : page_dir[t] = "kernel"
    <3>1. step \in 24 .. 28 /\ state = "running" /\ page_dir["idle"] = "kernel"
      BY <1>1, <2>2 DEF BootInv, Tasks
    <3>2. CASE Alone
      BY <3>1, <3>2 DEF Alone
    <3>3. CASE step = 27
      BY <1>1, <3>1, <3>3 DEF BootInv, Tasks
    <3>4. CASE Both
      <4>1. \A t \in {running_task} \cup {ready[i] : i \in DOMAIN ready} : t \in {"idle", "shell"}
        BY <3>4 DEF Both
      <4> QED BY <3>1, <3>4, <4>1 DEF Both
    <3>5. Alone \/ step = 27 \/ Both
      BY <1>1, <3>1 DEF BootInv, Tasks, Alone
    <3> QED BY <3>1, <3>2, <3>3, <3>4, <3>5
  <2> QED BY <2>1, <2>2 DEF InterruptsReady
<1> QED BY <1>1, BootInvariant, PTL

-----------------------------------------------------------------------------
(* The memory the kernel uses *)

\* With the kernel's entry in the directory in use, an address of the kernel's first large
\* page is found where it is.
LEMMA Higher ==
  ASSUME NEW x \in 0 .. BigPage - 1, cr3 \in {"boot", "kernel"},
         directory[cr3][KERNEL_VMA \div BigPage] = Mapping0
  PROVE  Translate(KERNEL_VMA + x) = x
<1>1. (KERNEL_VMA + x) \div BigPage = KERNEL_VMA \div BigPage /\ (KERNEL_VMA + x) % BigPage = x
  BY KernelEntry, Offset
<1>2. x \in Int
  BY KernelEntry
<1> QED BY <1>1, <1>2 DEF Translate, Mapping0

\* With the identity mapping the first large page is where it is.
LEMMA Identity ==
  ASSUME NEW x \in 0 .. BigPage - 1, cr3 = "boot", directory["boot"][0] = Mapping0
  PROVE  Translate(x) = x
<1>1. x \div BigPage = 0 /\ x % BigPage = x
  BY KernelEntry
<1>2. x \in Int
  BY KernelEntry
<1> QED BY <1>1, <1>2 DEF Translate, Mapping0

\* In every state of the boot and after it the code, the stack, the boot loader's data where
\* mm_init reads it and the heap are mapped to where they are, and virt_to_phys (paging.c)
\* agrees with the CPU: for any kernel size, load address and information of the boot loader.
THEOREM BootMapped == Spec => []EveryAccessMapped
<1>1. ASSUME BootInv PROVE EveryAccessMapped
  <2>1. /\ KERNEL_PMA \in 0 .. BigPage - 1 /\ mbt \in 0 .. BigPage - 1 /\ KERNEL_PMA \in Nat
        /\ KERNEL_VMA \in Nat /\ BigPage \in Nat
    BY BootAssumption, FrameAssumption, KernelEntry
  <2>2. step \in 1 .. 28
    BY <1>1 DEF BootInv
  <2>3. Translate(eip_base + KERNEL_PMA) = KERNEL_PMA
    <3>1. CASE step <= 3
      BY <1>1, <2>1, <2>2, <3>1 DEF BootInv, Memory, Translate
    <3>2. CASE step = 4
      <4>1. eip_base + KERNEL_PMA = KERNEL_PMA /\ cr3 = "boot" /\ directory["boot"][0] = Mapping0
        BY <1>1, <2>1, <3>2 DEF BootInv, Memory
      <4> QED BY <2>1, <4>1, Identity
    <3>3. CASE step > 4
      <4>1. /\ eip_base = KERNEL_VMA /\ cr3 \in {"boot", "kernel"}
            /\ directory[cr3][KERNEL_VMA \div BigPage] = Mapping0
        BY <1>1, <2>2, <3>3 DEF BootInv, Memory
      <4> QED BY <2>1, <4>1, Higher
    <3> QED BY <2>2, <3>1, <3>2, <3>3
  <2>4. Translate(esp_base + KERNEL_PMA) = KERNEL_PMA
    <3>1. CASE step <= 3
      BY <1>1, <2>1, <2>2, <3>1 DEF BootInv, Memory, Translate
    <3>2. CASE step \in 4 .. 5
      <4>1. esp_base + KERNEL_PMA = KERNEL_PMA /\ cr3 = "boot" /\ directory["boot"][0] = Mapping0
        BY <1>1, <2>1, <3>2 DEF BootInv, Memory
      <4> QED BY <2>1, <4>1, Identity
    <3>3. CASE step > 5
      <4>1. /\ esp_base = KERNEL_VMA /\ cr3 \in {"boot", "kernel"}
            /\ directory[cr3][KERNEL_VMA \div BigPage] = Mapping0
        <5>0. Memory /\ step > 2
          BY <1>1, <2>2, <3>3 DEF BootInv
        <5>1. directory["boot"][KERNEL_VMA \div BigPage] = Mapping0
          BY <5>0 DEF Memory
        <5>2. step > 18 => directory["kernel"][KERNEL_VMA \div BigPage] = Mapping0
          BY <1>1, <2>2 DEF BootInv, Memory
        <5>3. esp_base = KERNEL_VMA
          BY <1>1, <2>2, <3>3 DEF BootInv, Memory
        <5>4. cr3 = "boot" \/ (cr3 = "kernel" /\ step > 18)
          BY <1>1, <2>2, <3>3 DEF BootInv, Memory
        <5> QED BY <5>1, <5>2, <5>3, <5>4
      <4> QED BY <2>1, <4>1, Higher
    <3> QED BY <2>2, <3>1, <3>2, <3>3
  <2>5. ASSUME NEW a \in ReadsAt PROVE Translate(a) = a
    <3>1. a = mbt /\ Program[step] \in {"check_map", "frame_init"}
      BY <2>5 DEF ReadsAt
    <3>2. step \in {15, 16}
      BY <2>2, <3>1, Place
    <3>3. cr3 = "boot" /\ directory["boot"][0] = Mapping0
      BY <1>1, <3>2 DEF BootInv, Memory
    <3> QED BY <2>1, <3>1, <3>3, Identity
  <2>6. ASSUME NEW a \in heap
        PROVE  Translate(a) = a - KERNEL_VMA /\ virt_to_phys(a) = a - KERNEL_VMA
    <3>1. /\ step > 20 /\ cr3 = "kernel" /\ current_pd = "kernel"
          /\ directory["kernel"][KERNEL_VMA \div BigPage] = Mapping0
          /\ a \in (KERNEL_VMA + KernelEnd) .. (KERNEL_VMA + KERNEL_PMA + KERNEL_SIZE - 1)
      BY <1>1, <2>2, <2>6 DEF BootInv, Memory
    <3>2. a - KERNEL_VMA \in 0 .. BigPage - 1 /\ a = KERNEL_VMA + (a - KERNEL_VMA)
      BY <2>1, <3>1, BootAssumption, FrameAssumption
    <3>3. /\ a \div BigPage = KERNEL_VMA \div BigPage /\ a % BigPage = a - KERNEL_VMA
      <4>1. PICK x \in 0 .. BigPage - 1 : x = a - KERNEL_VMA /\ a = KERNEL_VMA + x
        BY <3>2
      <4>2. (KERNEL_VMA + x) \div BigPage = KERNEL_VMA \div BigPage /\ (KERNEL_VMA + x) % BigPage = x
        BY KernelEntry, Offset
      <4> QED BY <4>1, <4>2
    <3>4. Translate(a) = a - KERNEL_VMA
      BY <3>1, <3>2, Higher
    <3>5. a - KERNEL_VMA \in Int
      BY <3>2, <2>1
    <3> QED BY <3>1, <3>3, <3>4, <3>5 DEF virt_to_phys, pd_lookup, Mapping0
  <2>7. Program[step] \in {"new_task", "pci_init", "create_kernel_task"} => heap # {}
    <3> SUFFICES ASSUME step \in {21, 24, 25} PROVE heap # {}
      BY <2>2, Place
    <3>1. heap = (KERNEL_VMA + KernelEnd) .. (KERNEL_VMA + KERNEL_PMA + KERNEL_SIZE - 1)
      BY <1>1 DEF BootInv, Memory
    <3>2. KERNEL_VMA + KernelEnd \in heap
      BY <2>1, <3>1, BootAssumption, FrameAssumption
    <3> QED BY <3>2
  <2> QED BY <2>3, <2>4, <2>5, <2>6, <2>7 DEF EveryAccessMapped
<1> QED BY <1>1, BootInvariant, PTL

-----------------------------------------------------------------------------
(* Frames *)

\* Frame 0 is never freed, what is held is marked used, and nothing is held before the
\* bitmap is set up.
FrameInv == 0 \in used /\ held \subseteq used /\ (~booted => held = {})

\* No frame has two owners, and frame 0 has none (frame.c), for any memory map, although
\* free_region is passed end addresses for sizes.
THEOREM FramesHeldOnce == Spec => []HeldOnce
<1> DEFINE IInv == FrameInv /\ HeldOnce
<1>1. Init => IInv
  BY FrameAssumption DEF Init, FrameInit, FrameInv, HeldOnce, AllFrames
<1>2. ASSUME IInv, [Next]_bootAll PROVE IInv'
  <2>1. CASE frame_init
    <3>1. 0 \notin Freed(memory)
      BY DEF Freed, free_region
    <3>2. 0 \in used' /\ held' = {}
      BY <1>2, <2>1, <3>1, FrameAssumption DEF frame_init, FrameInv, AllFrames
    <3> QED BY <2>1, <3>2 DEF FrameInv, HeldOnce
  <2>2. CASE \E b \in AllFrames : alloc_frame(b) \/ free_frame(b)
    BY <1>2, <2>2 DEF alloc_frame, free_frame, FrameInv, HeldOnce
  <2>3. CASE UNCHANGED frameVars
    BY <1>2, <2>3 DEF FrameInv, HeldOnce, frameVars
  <2>4. frame_init \/ (\E b \in AllFrames : alloc_frame(b) \/ free_frame(b)) \/ UNCHANGED frameVars
    <3>1. CASE UNCHANGED bootAll
      BY <3>1 DEF bootAll
    <3>2. CASE Tick \/ KeyboardByte \/ Controller \/ UseFrames \/ UsePci
      BY <3>2 DEF Tick, KeyboardByte, Controller, UseFrames, UsePci, parts
    <3>3. CASE BootStep
      <4>1. CASE InitFrames
        BY <4>1 DEF InitFrames
      <4>2. CASE MapBootPage \/ EnablePaging \/ HigherHalf \/ tty_init \/ Tables \/ pit_init
        BY <4>2 DEF MapBootPage, EnablePaging, HigherHalf, tty_init, Tables, pit_init, parts
      <4>3. CASE Ps2Step \/ check_map \/ paging_init
        BY <4>3 DEF Ps2Step, check_map, paging_init, parts
      <4>4. CASE kheap_init
        BY <4>4 DEF kheap_init, parts
      <4>5. CASE SchedInit \/ pci_init \/ sched_yield
        BY <4>5 DEF SchedInit, pci_init, sched_yield, parts
      <4>6. CASE StartShell
        BY <4>6 DEF StartShell, parts
      <4> QED BY <3>3, <4>1, <4>2, <4>3, <4>4, <4>5, <4>6 DEF BootStep
    <3> QED BY <1>2, <3>1, <3>2, <3>3 DEF Next
  <2> QED BY <2>1, <2>2, <2>3, <2>4
<1> QED BY <1>1, <1>2, PTL DEF Spec

-----------------------------------------------------------------------------
(* Configuration space *)

\* The installed functions, with registers of one byte each; 0xFFFF is no vendor.
Space ==
    /\ DOMAIN space \subseteq Slots
    /\ \A s \in DOMAIN space : /\ space[s] \in [Registers -> 0 .. Base - 1]
                               /\ space[s][0] # Base - 1 \/ space[s][1] # Base - 1

LEMMA Powers ==
    /\ Base \in {8, 16, 32, 64, 128, 256}
    /\ Base ^ 0 = 1 /\ Base ^ 1 = Base /\ Base ^ 2 = Base * Base
    /\ Base ^ 3 = Base * Base * Base /\ Base ^ 4 = Base * Base * Base * Base
<1>1. Base \in {8, 16, 32, 64, 128, 256}
  BY PciAssumption
<1>2. CASE Base = 8
  BY <1>2
<1>3. CASE Base = 16
  BY <1>3
<1>4. CASE Base = 32
  BY <1>4
<1>5. CASE Base = 64
  BY <1>5
<1>6. CASE Base = 128
  BY <1>6
<1>7. CASE Base = 256
  BY <1>7
<1> QED BY <1>1, <1>2, <1>3, <1>4, <1>5, <1>6, <1>7

\* Four bytes in a word of four, and how one or two are cut from it.
Bases == {8, 16, 32, 64, 128, 256}
Byte(B) == 0 .. B - 1
Long(B, a, b, c, d) == a + B * (b + B * (c + B * d))

LEMMA Bytes ==
  ASSUME NEW B \in Bases,
         NEW a \in Byte(B), NEW b \in Byte(B), NEW c \in Byte(B), NEW d \in Byte(B)
  PROVE  LET long == Long(B, a, b, c, d) IN
         /\ (long \div 1) % (B * B) = a + B * b /\ (long \div (B * B)) % (B * B) = c + B * d
         /\ (long \div 1) % B = a /\ (long \div B) % B = b
         /\ (long \div (B * B)) % B = c /\ (long \div (B * B * B)) % B = d
  BY SMTT(20) DEF Bases, Byte, Long

LEMMA Shifts ==
    /\ WordShift(0) = 1 /\ WordShift(2) = Base * Base /\ WordShift(4) = 1
    /\ ByteShift(5) = Base /\ ByteShift(10) = Base * Base
    /\ ByteShift(11) = Base * Base * Base /\ ByteShift(14) = Base * Base /\ ByteShift(60) = 1
<1>1. 2 * ((0 \div 2) % 2) = 0 /\ 2 * ((2 \div 2) % 2) = 2 /\ 2 * ((4 \div 2) % 2) = 0
  OBVIOUS
<1>2. 5 % 4 = 1 /\ 10 % 4 = 2 /\ 11 % 4 = 3 /\ 14 % 4 = 2 /\ 60 % 4 = 0
  OBVIOUS
<1> QED BY <1>1, <1>2, Powers DEF WordShift, ByteShift

\* The host bridge takes apart what calc_pci_addr put together.
Numbers == (0 .. 255) \X (0 .. 31) \X (0 .. 7) \X (0 .. 255)
Packed(b, d, f, r) == b * 65536 + d * 2048 + f * 256 + r

LEMMA Address ==
  ASSUME NEW b, NEW d, NEW f, NEW r, <<b, d, f, r>> \in Numbers
  PROVE  LET x == Packed(b, d, f, r) IN
         x \div 65536 = b /\ (x \div 2048) % 32 = d /\ (x \div 256) % 8 = f /\ x % 256 = r
<1>0. b \in 0 .. 255 /\ d \in 0 .. 31 /\ f \in 0 .. 7 /\ r \in 0 .. 255
  BY DEF Numbers
<1> DEFINE x == b * 65536 + d * 2048 + f * 256 + r
<1>1. x \div 65536 = b
  BY <1>0
<1>2. x \div 2048 = b * 32 + d
  BY <1>0
<1>3. x \div 256 = b * 256 + d * 8 + f
  BY <1>0
<1>4. x % 256 = r
  BY <1>0
<1>5. (b * 32 + d) % 32 = d
  BY <1>0
<1>6. (b * 256 + d * 8 + f) % 8 = f
  BY <1>0
<1> QED BY <1>1, <1>2, <1>3, <1>4, <1>5, <1>6 DEF Packed

LEMMA Port ==
  ASSUME NEW s \in Slots, NEW offset \in 0 .. 255
  PROVE  /\ Selected(calc_pci_addr(s, offset)) = s
         /\ calc_pci_addr(s, offset) % 256 = offset - (offset % 4)
<1>1. /\ s = <<s[1], s[2], s[3]>>
      /\ s[1] \in 0 .. Buses - 1 /\ s[2] \in 0 .. Devs - 1 /\ s[3] \in 0 .. Funcs - 1
  BY DEF Slots
<1>2. s[1] \in 0 .. 255 /\ s[2] \in 0 .. 31 /\ s[3] \in 0 .. 7
  BY <1>1, PciAssumption
<1>3. offset - (offset % 4) \in 0 .. 255
  OBVIOUS
<1> DEFINE r == offset - (offset % 4)
           x == Packed(s[1], s[2], s[3], r)
<1>6. <<s[1], s[2], s[3], r>> \in Numbers
  BY <1>2, <1>3 DEF Numbers
<1> HIDE DEF r
<1>4. x \div 65536 = s[1] /\ (x \div 2048) % 32 = s[2] /\ (x \div 256) % 8 = s[3] /\ x % 256 = r
  BY <1>6, Address
<1>5. calc_pci_addr(s, offset) = x
  BY DEF calc_pci_addr, Packed, r
<1> HIDE DEF x
<1> QED BY <1>1, <1>4, <1>5 DEF Selected, r

LEMMA ReadLong ==
  ASSUME Space, NEW s \in Slots, NEW k \in {0, 4, 8, 12, 60}, NEW offset \in k .. k + 3
  PROVE  /\ s \in DOMAIN space =>
                pci_readl(s, offset) =
                    space[s][k] + Base * (space[s][k + 1] + Base * (space[s][k + 2] + Base * space[s][k + 3]))
         /\ s \notin DOMAIN space => pci_readl(s, offset) = Base ^ 4 - 1
<1>1. offset \in 0 .. 255 /\ offset - (offset % 4) = k
  OBVIOUS
<1>2. Selected(calc_pci_addr(s, offset)) = s /\ calc_pci_addr(s, offset) % 256 = k
  BY <1>1, Port
<1> QED BY <1>2 DEF pci_readl

\* What pci_readw and pci_readb make of the registers of a function that is there, and of
\* one that is not.
LEMMA Read ==
  ASSUME Space, NEW s \in Slots
  PROVE  /\ s \in DOMAIN space =>
                /\ pci_readw(s, 0) = space[s][0] + Base * space[s][1]
                /\ pci_readw(s, 2) = space[s][2] + Base * space[s][3]
                /\ pci_readb(s, 10) = space[s][10]
                /\ pci_readb(s, 11) = space[s][11]
                /\ pci_readb(s, 14) = space[s][14]
                /\ pci_readb(s, 60) = space[s][60]
         /\ s \notin DOMAIN space => pci_readw(s, 0) = Base * Base - 1
<1>1. CASE s \in DOMAIN space
  <2> DEFINE reg(r) == space[s][r]
             id == Long(Base, reg(0), reg(1), reg(2), reg(3))
             class == Long(Base, reg(8), reg(9), reg(10), reg(11))
             header == Long(Base, reg(12), reg(13), reg(14), reg(15))
             line == Long(Base, reg(60), reg(61), reg(62), reg(63))
  <2>1. /\ pci_readl(s, 0) = id /\ pci_readl(s, 2) = id
        /\ pci_readl(s, 10) = class /\ pci_readl(s, 11) = class /\ pci_readl(s, 14) = header
        /\ pci_readl(s, 60) = line
    BY <1>1, ReadLong DEF Long
  <2>2. \A r \in Registers : reg(r) \in Byte(Base)
    BY <1>1 DEF Space, Byte
  <2>3. Base \in Bases
    BY Powers DEF Bases
  <2> HIDE DEF reg
  <2>4. /\ (id \div 1) % (Base * Base) = reg(0) + Base * reg(1)
        /\ (id \div (Base * Base)) % (Base * Base) = reg(2) + Base * reg(3)
    <3>1. reg(0) \in Byte(Base) /\ reg(1) \in Byte(Base)
          /\ reg(2) \in Byte(Base) /\ reg(3) \in Byte(Base)
      BY <2>2 DEF Registers
    <3> QED BY <2>3, <3>1, Bytes
  <2>5. /\ (class \div (Base * Base)) % Base = reg(10)
        /\ (class \div (Base * Base * Base)) % Base = reg(11)
    <3>1. reg(8) \in Byte(Base) /\ reg(9) \in Byte(Base)
          /\ reg(10) \in Byte(Base) /\ reg(11) \in Byte(Base)
      BY <2>2 DEF Registers
    <3> QED BY <2>3, <3>1, Bytes
  <2>6. (header \div (Base * Base)) % Base = reg(14)
    <3>1. reg(12) \in Byte(Base) /\ reg(13) \in Byte(Base)
          /\ reg(14) \in Byte(Base) /\ reg(15) \in Byte(Base)
      BY <2>2 DEF Registers
    <3> QED BY <2>3, <3>1, Bytes
  <2>8. (line \div 1) % Base = reg(60)
    <3>1. reg(60) \in Byte(Base) /\ reg(61) \in Byte(Base)
          /\ reg(62) \in Byte(Base) /\ reg(63) \in Byte(Base)
      BY <2>2 DEF Registers
    <3> QED BY <2>3, <3>1, Bytes
  <2> HIDE DEF id, class, header, line
  <2>7. /\ pci_readw(s, 0) = reg(0) + Base * reg(1) /\ pci_readw(s, 2) = reg(2) + Base * reg(3)
        /\ pci_readb(s, 10) = reg(10) /\ pci_readb(s, 11) = reg(11) /\ pci_readb(s, 14) = reg(14)
        /\ pci_readb(s, 60) = reg(60)
    BY <2>1, <2>4, <2>5, <2>6, <2>8, Shifts, Powers DEF pci_readw, pci_readb
  <2> QED BY <1>1, <2>7 DEF reg
<1>2. CASE s \notin DOMAIN space
  <2>1. pci_readl(s, 0) = Base * Base * Base * Base - 1
    BY <1>2, ReadLong, Powers
  <2>2. ((Base * Base * Base * Base - 1) \div 1) % (Base * Base) = Base * Base - 1
    BY Powers
  <2> QED BY <1>2, <2>1, <2>2, Shifts, Powers DEF pci_readw
<1> QED BY <1>1, <1>2

LEMMA Present ==
  ASSUME Space, NEW s \in Slots PROVE Answers(s) <=> s \in DOMAIN space
<1>1. CASE s \in DOMAIN space
  <2>1. /\ space[s][0] \in 0 .. Base - 1 /\ space[s][1] \in 0 .. Base - 1
        /\ space[s][0] # Base - 1 \/ space[s][1] # Base - 1
    BY <1>1 DEF Space, Registers
  <2>2. ASSUME NEW a \in 0 .. Base - 1, NEW b \in 0 .. Base - 1, a # Base - 1 \/ b # Base - 1
        PROVE  a + Base * b # Base * Base - 1
    BY <2>2, Powers
  <2>3. space[s][0] + Base * space[s][1] # Base * Base - 1
    BY <2>1, <2>2
  <2> QED BY <1>1, <2>3, Read, Powers DEF Answers, CFG_W_VENDORID
<1>2. CASE s \notin DOMAIN space
  BY <1>2, Read, Powers DEF Answers, CFG_W_VENDORID
<1> QED BY <1>1, <1>2

-----------------------------------------------------------------------------
(* The scan *)

\* The device has function 0 and says that it has more.
Several(b, d) == <<b, d, 0>> \in DOMAIN space /\ space[<<b, d, 0>>][14] >= Base \div 2

\* The loops have passed t when they are about to probe s.
Passed(t, s) == s = <<>> \/ Before(t, s)

LEMMA More ==
  ASSUME Space, NEW s \in Slots
  PROVE  /\ <<s[1], s[2], 0>> \in Slots
         /\ (Answers(<<s[1], s[2], 0>>) /\ MultiFunction(<<s[1], s[2], 0>>)) <=> Several(s[1], s[2])
<1>1. <<s[1], s[2], 0>> \in Slots
  BY PciAssumption DEF Slots
<1> QED BY <1>1, Present, Read DEF MultiFunction, Several, CFG_B_HEADERTYPE

\* The next function probed is the one after s in the order of the loops, but for functions
\* that are not to be found.
LEMMA Successor ==
  ASSUME Space, NEW s \in Slots, s[3] # 0 => Several(s[1], s[2])
  PROVE  LET n == NextSlot(s) IN
         /\ n \in Slots \cup {<<>>}
         /\ n # <<>> => n[3] = 0 \/ Several(n[1], n[2])
         /\ \A t \in Slots : t = s \/ Before(t, s) => Passed(t, n)
         /\ \A t \in Installed : Passed(t, n) => t = s \/ Before(t, s)
<1> DEFINE b == s[1]
           d == s[2]
           f == s[3]
<1>1. /\ s = <<b, d, f>> /\ b \in 0 .. Buses - 1 /\ d \in 0 .. Devs - 1 /\ f \in 0 .. Funcs - 1
      /\ Buses \in Nat /\ Devs \in Nat /\ Funcs \in Nat /\ Funcs > 0 /\ Devs > 0 /\ Buses > 0
  BY PciAssumption DEF Slots
<1>2. ASSUME NEW t \in Slots
      PROVE  /\ t = <<t[1], t[2], t[3]>>
             /\ t[1] \in 0 .. Buses - 1 /\ t[2] \in 0 .. Devs - 1 /\ t[3] \in 0 .. Funcs - 1
  BY DEF Slots
<1>3. ASSUME NEW t \in Installed
      PROVE  t \in Slots /\ (t[3] = 0 \/ Several(t[1], t[2]))
  BY <1>3 DEF Installed, Space, Several, CFG_B_HEADERTYPE
<1> HIDE DEF b, d, f
<1>4. CASE Several(b, d) /\ f + 1 < Funcs
  <2>1. NextSlot(s) = <<b, d, f + 1>>
    BY <1>4, More DEF NextSlot, b, d, f
  <2>2. <<b, d, f + 1>> \in Slots
    BY <1>1, <1>4 DEF Slots
  <2>3. <<b, d, f + 1>> # <<>>
    OBVIOUS
  <2>4. ASSUME NEW t \in Slots PROVE Before(t, <<b, d, f + 1>>) <=> t = s \/ Before(t, s)
    BY <1>1, <1>2 DEF Before
  <2> QED BY <1>3, <1>4, <2>1, <2>2, <2>3, <2>4 DEF Passed
<1>5. CASE ~(Several(b, d) /\ f + 1 < Funcs)
  <2>1. NextSlot(s) = NextDevice(s)
    BY <1>5, More DEF NextSlot, b, d, f
  <2>2. ASSUME NEW t \in Installed, t[1] = b, t[2] = d PROVE t[3] <= f
    BY <1>1, <1>2, <1>3, <1>5, <2>2
  <2>3. CASE d + 1 < Devs
    <3>1. NextDevice(s) = <<b, d + 1, 0>>
      BY <1>1, <2>3 DEF NextDevice, b, d
    <3>2. <<b, d + 1, 0>> \in Slots /\ <<b, d + 1, 0>> # <<>>
      BY <1>1, <2>3 DEF Slots
    <3>3. ASSUME NEW t \in Slots, t = s \/ Before(t, s) PROVE Before(t, <<b, d + 1, 0>>)
      BY <1>1, <1>2, <3>3 DEF Before
    <3>4. ASSUME NEW t \in Installed, Before(t, <<b, d + 1, 0>>) PROVE t = s \/ Before(t, s)
      BY <1>1, <1>2, <1>3, <2>2, <3>4 DEF Before
    <3> QED BY <2>1, <3>1, <3>2, <3>3, <3>4 DEF Passed
  <2>4. CASE d + 1 = Devs /\ b + 1 < Buses
    <3>1. NextDevice(s) = <<b + 1, 0, 0>>
      BY <1>1, <2>4 DEF NextDevice, b, d
    <3>2. <<b + 1, 0, 0>> \in Slots /\ <<b + 1, 0, 0>> # <<>>
      BY <1>1, <2>4 DEF Slots
    <3>3. ASSUME NEW t \in Slots, t = s \/ Before(t, s) PROVE Before(t, <<b + 1, 0, 0>>)
      BY <1>1, <1>2, <3>3 DEF Before
    <3>4. ASSUME NEW t \in Installed, Before(t, <<b + 1, 0, 0>>) PROVE t = s \/ Before(t, s)
      BY <1>1, <1>2, <1>3, <2>2, <2>4, <3>4 DEF Before
    <3> QED BY <2>1, <3>1, <3>2, <3>3, <3>4 DEF Passed
  <2>5. CASE d + 1 = Devs /\ b + 1 = Buses
    <3>1. NextDevice(s) = <<>>
      BY <1>1, <2>5 DEF NextDevice, b, d
    <3>2. ASSUME NEW t \in Installed PROVE t = s \/ Before(t, s)
      BY <1>1, <1>2, <1>3, <2>2, <2>5 DEF Before
    <3> QED BY <2>1, <3>1, <3>2 DEF Passed
  <2> QED BY <1>1, <2>3, <2>4, <2>5
<1> QED BY <1>4, <1>5

Entries == [slot : Slots, vendorid : Nat, deviceid : Nat, class : Nat, subclass : Nat,
            headertype : Nat, intline : Nat]

\* A record of the list has the registers of the function it is for.
Own(e) ==
    /\ e.slot \in DOMAIN space
    /\ e.vendorid = space[e.slot][0] + Base * space[e.slot][1]
    /\ e.deviceid = space[e.slot][2] + Base * space[e.slot][3]
    /\ e.class = space[e.slot][11]
    /\ e.headertype = space[e.slot][14]

\* The list holds what the loops have passed, but for what there was no memory for.
Scanned ==
    /\ pci_dev_list \in Seq(Entries)
    /\ scan \in Slots \cup {<<>>}
    /\ scan # <<>> => scan[3] = 0 \/ Several(scan[1], scan[2])
    /\ \A t \in lost : t \in Slots /\ Passed(t, scan)
    /\ \A t \in Installed : Passed(t, scan) => t \in lost \/ \E p \in DOMAIN pci_dev_list : pci_dev_list[p].slot = t
    /\ \A p \in DOMAIN pci_dev_list :
          /\ Own(pci_dev_list[p]) /\ pci_dev_list[p].slot \in Installed \ lost
          /\ Passed(pci_dev_list[p].slot, scan)
    /\ \A p, q \in DOMAIN pci_dev_list : p < q => Before(pci_dev_list[p].slot, pci_dev_list[q].slot)

LEMMA RecordOwn ==
  ASSUME Space, NEW s \in DOMAIN space
  PROVE  Record(s) \in Entries /\ Own(Record(s)) /\ Record(s).slot = s
<1>1. s \in Slots
  BY DEF Space
<1>2. \A r \in Registers : space[s][r] \in Nat
  BY Powers DEF Space
<1>3. /\ pci_readw(s, 0) = space[s][0] + Base * space[s][1]
      /\ pci_readw(s, 2) = space[s][2] + Base * space[s][3]
      /\ pci_readb(s, 10) = space[s][10] /\ pci_readb(s, 11) = space[s][11]
      /\ pci_readb(s, 14) = space[s][14] /\ pci_readb(s, 60) = space[s][60]
  BY <1>1, Read
<1>4. /\ pci_readw(s, 0) \in Nat /\ pci_readw(s, 2) \in Nat /\ pci_readb(s, 10) \in Nat
      /\ pci_readb(s, 11) \in Nat /\ pci_readb(s, 14) \in Nat /\ pci_readb(s, 60) \in Nat
  BY <1>2, <1>3, Powers DEF Registers
<1>5. Record(s) =
        [slot |-> s, vendorid |-> pci_readw(s, 0), deviceid |-> pci_readw(s, 2),
         class |-> pci_readb(s, 11), subclass |-> pci_readb(s, 10),
         headertype |-> pci_readb(s, 14),
         intline |-> IF pci_readb(s, 14) = 0 THEN pci_readb(s, 60) ELSE 0]
  BY DEF Record, CFG_W_VENDORID, CFG_W_DEVICEID, CFG_B_CLASSID, CFG_B_SUBCLASSID,
         CFG_B_HEADERTYPE, CFG0_B_INTLINE
<1>6. (IF pci_readb(s, 14) = 0 THEN pci_readb(s, 60) ELSE 0) \in Nat
  BY <1>4
<1>7. Record(s) \in Entries
  BY <1>1, <1>4, <1>5, <1>6 DEF Entries
<1>8. Own(Record(s)) /\ Record(s).slot = s
  BY <1>3, <1>5 DEF Own
<1> QED BY <1>7, <1>8

LEMMA BeforeSelf == \A s \in Slots : ~Before(s, s)
  BY DEF Before, Slots

\* One probe.
LEMMA ProbeScanned ==
  ASSUME Space, Scanned, Probe PROVE Space' /\ Scanned'
<1> DEFINE s == scan
           n == NextSlot(s)
<1>1. /\ s \in Slots /\ (s[3] # 0 => Several(s[1], s[2])) /\ scan' = n /\ UNCHANGED space
      /\ s # <<>>
  BY DEF Probe, Scanned
<1>2. /\ n \in Slots \cup {<<>>}
      /\ n # <<>> => n[3] = 0 \/ Several(n[1], n[2])
      /\ \A t \in Slots : t = s \/ Before(t, s) => Passed(t, n)
      /\ \A t \in Installed : Passed(t, n) => t = s \/ Before(t, s)
  BY <1>1, Successor
<1> HIDE DEF n
<1>3. Space' /\ Installed' = Installed
  BY <1>1 DEF Space, Installed
<1>4. \A b, d : Several(b, d)' <=> Several(b, d)
  BY <1>1 DEF Several
<1>5. \A e : Own(e)' <=> Own(e)
  BY <1>1 DEF Own
<1>6. \A t : Passed(t, s) <=> Before(t, s)
  BY <1>1 DEF Passed
<1>7. Installed \subseteq Slots
  BY DEF Installed, Space
<1>8. CASE ~Answers(s)
  <2>1. s \notin Installed
    BY <1>1, <1>8, Present DEF Installed
  <2>2. UNCHANGED <<pci_dev_list, lost>>
    BY <1>8 DEF Probe
  <2> QED BY <1>1, <1>2, <1>3, <1>4, <1>5, <1>6, <1>7, <2>1, <2>2 DEF Scanned
<1>9. CASE Answers(s)
  <2>1. s \in DOMAIN space /\ s \in Installed
    BY <1>1, <1>9, Present DEF Installed, Several, CFG_B_HEADERTYPE
  <2>2. CASE lost' = lost \cup {s} /\ UNCHANGED pci_dev_list
    <3>1. \A p \in DOMAIN pci_dev_list : pci_dev_list[p].slot # s
      BY <1>1, <1>6, BeforeSelf DEF Scanned
    <3> QED BY <1>1, <1>2, <1>3, <1>4, <1>5, <1>6, <1>7, <2>1, <2>2, <3>1 DEF Scanned
  <2>3. CASE pci_dev_list' = Append(pci_dev_list, Record(s)) /\ UNCHANGED lost
    <3> DEFINE k == Len(pci_dev_list)
    <3>1. /\ pci_dev_list' \in Seq(Entries) /\ k \in Nat
          /\ DOMAIN pci_dev_list = 1 .. k /\ DOMAIN pci_dev_list' = 1 .. k + 1
          /\ \A p \in 1 .. k : pci_dev_list'[p] = pci_dev_list[p]
          /\ pci_dev_list'[k + 1] = Record(s)
      BY <2>1, <2>3, RecordOwn DEF Scanned
    <3>2. Own(Record(s)) /\ Record(s).slot = s
      BY <2>1, RecordOwn
    <3> HIDE DEF k
    <3>3. s \notin lost
      BY <1>1, <1>6, BeforeSelf DEF Scanned
    <3>4. \A p \in 1 .. k :
             /\ Own(pci_dev_list'[p]) /\ pci_dev_list'[p].slot \in Installed \ lost
             /\ Before(pci_dev_list'[p].slot, s)
      BY <1>6, <3>1 DEF Scanned
    <3>5. \A p \in 1 .. k + 1 :
             /\ Own(pci_dev_list'[p]) /\ pci_dev_list'[p].slot \in Installed \ lost
             /\ Passed(pci_dev_list'[p].slot, n)
      BY <1>1, <1>2, <1>7, <2>1, <3>1, <3>2, <3>3, <3>4
    <3>6. \A p, q \in 1 .. k + 1 :
             p < q => Before(pci_dev_list'[p].slot, pci_dev_list'[q].slot)
      <4> SUFFICES ASSUME NEW p \in 1 .. k + 1, NEW q \in 1 .. k + 1, p < q
                   PROVE  Before(pci_dev_list'[p].slot, pci_dev_list'[q].slot)
        OBVIOUS
      <4>1. CASE q = k + 1
        BY <3>1, <3>2, <3>4, <4>1
      <4>2. CASE q # k + 1
        BY <3>1, <4>2 DEF Scanned
      <4> QED BY <4>1, <4>2
    <3>7. \A t \in Installed : Passed(t, n) =>
             t \in lost \/ \E p \in 1 .. k + 1 : pci_dev_list'[p].slot = t
      <4> SUFFICES ASSUME NEW t \in Installed, Passed(t, n), t \notin lost
                   PROVE  \E p \in 1 .. k + 1 : pci_dev_list'[p].slot = t
        OBVIOUS
      <4>1. CASE t = s
        BY <3>1, <3>2, <4>1
      <4>2. CASE t # s
        <5>1. PICK p \in 1 .. k : pci_dev_list[p].slot = t
          BY <1>2, <1>6, <3>1, <4>2 DEF Scanned
        <5> QED BY <3>1, <5>1
      <4> QED BY <4>1, <4>2
    <3>8. \A t \in lost : t \in Slots /\ Passed(t, n)
      BY <1>2, <1>6 DEF Scanned
    <3> QED BY <1>1, <1>2, <1>3, <1>4, <1>5, <2>3, <3>1, <3>5, <3>6, <3>7, <3>8 DEF Scanned
  <2> QED BY <1>9, <2>2, <2>3 DEF Probe, add_pci_dev
<1> QED BY <1>8, <1>9

-----------------------------------------------------------------------------
(* Writes *)

\* Status bits that are written back as they were read are cleared.
LEMMA Cleared ==
  ASSUME NEW c \in 0 .. Base - 1, NEW r \in {6, 7} PROVE Stored(r, c, c) = 0
<1>1. 2 ^ 0 = 1 /\ 2 ^ 1 = 2 /\ 2 ^ 2 = 4 /\ 2 ^ 3 = 8 /\ 2 ^ 4 = 16 /\ 2 ^ 5 = 32 /\ 2 ^ 6 = 64 /\ 2 ^ 7 = 128
  OBVIOUS
<1>2. \A n \in Nat : \A k \in 0 .. 7 : Bit(n, k) \in {0, 1} /\ Bit(0, k) = 0
  <2>1. \A k \in 0 .. 7 : 2 ^ k \in Nat \ {0}
    <3> SUFFICES ASSUME NEW k \in 0 .. 7 PROVE 2 ^ k \in Nat \ {0}
      OBVIOUS
    <3>1. CASE k = 0
      BY <1>1, <3>1
    <3>2. CASE k = 1
      BY <1>1, <3>2
    <3>3. CASE k = 2
      BY <1>1, <3>3
    <3>4. CASE k = 3
      BY <1>1, <3>4
    <3>5. CASE k = 4
      BY <1>1, <3>5
    <3>6. CASE k = 5
      BY <1>1, <3>6
    <3>7. CASE k = 6
      BY <1>1, <3>7
    <3>8. CASE k = 7
      BY <1>1, <3>8
    <3> QED BY <3>1, <3>2, <3>3, <3>4, <3>5, <3>6, <3>7, <3>8
  <2>2. \A w \in Nat \ {0} : \A n \in Nat : (n \div w) % 2 \in {0, 1} /\ (0 \div w) % 2 = 0
    OBVIOUS
  <2> QED BY <2>1, <2>2 DEF Bit
<1>3. c \in Nat /\ 0 \in 0 .. Base - 1
  BY Powers
<1>4. \A k \in 0 .. 7 : (IF Bit(c, k) = 1 THEN 0 ELSE Bit(c, k)) = 0
  BY <1>2, <1>3
<1> DEFINE Q(n) == \A k \in 0 .. 7 : Bit(n, k) = (IF Bit(c, k) = 1 THEN 0 ELSE Bit(c, k))
<1>5. Q(0)
  BY <1>2, <1>4
<1>6. Stored(r, c, c) = CHOOSE n \in 0 .. Base - 1 : Q(n)
  BY DEF Stored, CFG_W_COMMAND, CFG0_B_INTLINE, CFG_W_STATUS
<1> DEFINE m == CHOOSE n \in 0 .. Base - 1 : Q(n)
<1>7. m \in 0 .. Base - 1 /\ Q(m)
  <2> HIDE DEF Q
  <2> QED BY <1>3, <1>5
<1> HIDE DEF m
<1>8. \A k \in 0 .. 7 : Bit(m, k) = 0
  BY <1>4, <1>7
<1>9. ASSUME NEW j \in 0 .. 255, \A k \in 0 .. 7 : Bit(j, k) = 0 PROVE j = 0
  BY <1>1, <1>9 DEF Bit
<1>10. m \in 0 .. 255
  BY <1>7, Powers
<1> QED BY <1>6, <1>8, <1>9, <1>10 DEF m

\* A write of four bytes from the command on: the command's are stored, the status's cleared.
LEMMA Wrote ==
  ASSUME Space, NEW s \in DOMAIN space, NEW x \in Byte(Base), NEW y \in Byte(Base),
         NEW offset \in {4, 5},
         pci_writel(s, offset, Long(Base, x, y, space[s][6], space[s][7]))
  PROVE  /\ DOMAIN space' = DOMAIN space
         /\ \A t \in DOMAIN space : t # s => space'[t] = space[t]
         /\ space'[s][4] = x /\ space'[s][5] = y /\ space'[s][6] = 0 /\ space'[s][7] = 0
         /\ \A r \in Registers : r \notin 4 .. 7 => space'[s][r] = space[s][r]
         /\ space'[s] \in [Registers -> 0 .. Base - 1]
<1> DEFINE c == space[s][6]
           d == space[s][7]
           value == Long(Base, x, y, c, d)
           stored == [r \in Registers |->
                        IF r \in 4 .. 7 THEN Stored(r, space[s][r], (value \div (Base ^ (r - 4))) % Base)
                        ELSE space[s][r]]
<1>1. s \in Slots /\ space[s] \in [Registers -> 0 .. Base - 1]
  BY DEF Space
<1>2. c \in Byte(Base) /\ d \in Byte(Base)
  BY <1>1 DEF Registers, Byte
<1>3. space' = [space EXCEPT ![s] = stored]
  <2>1. offset \in 0 .. 255 /\ offset - (offset % 4) = 4
    OBVIOUS
  <2>2. Selected(calc_pci_addr(s, offset)) = s /\ calc_pci_addr(s, offset) % 256 = 4
    BY <1>1, <2>1, Port
  <2> HIDE DEF c, d
  <2>3. pci_writel(s, offset, value)
    BY DEF c, d
  <2> HIDE DEF value
  <2> DEFINE f == Selected(calc_pci_addr(s, offset))
             a == calc_pci_addr(s, offset) % 256
             Four(g, b) == [r \in Registers |->
                             IF r \in b .. b + 3
                             THEN Stored(r, space[g][r], (value \div (Base ^ (r - b))) % Base)
                             ELSE space[g][r]]
  <2>4. space' = [space EXCEPT ![f] = Four(f, a)]
    BY <2>3 DEF pci_writel
  <2>5. f = s /\ a = 4
    BY <2>2
  <2> HIDE DEF f, a
  <2>6. space' = [space EXCEPT ![s] = Four(s, 4)]
    BY <2>4, <2>5
  <2>7. 4 + 3 = 7
    OBVIOUS
  <2> QED BY <2>6, <2>7
<1>4. /\ 4 - 4 = 0 /\ 5 - 4 = 1 /\ 6 - 4 = 2 /\ 7 - 4 = 3
  OBVIOUS
<1>5. /\ (value \div (Base ^ 0)) % Base = x /\ (value \div (Base ^ 1)) % Base = y
      /\ (value \div (Base ^ 2)) % Base = c /\ (value \div (Base ^ 3)) % Base = d
  <2>1. Base \in Bases
    BY Powers DEF Bases
  <2> HIDE DEF c, d
  <2>2. /\ (value \div 1) % Base = x /\ (value \div Base) % Base = y
        /\ (value \div (Base * Base)) % Base = c /\ (value \div (Base * Base * Base)) % Base = d
    BY <1>2, <2>1, Bytes
  <2> QED BY <2>2, Powers
<1> HIDE DEF value
<1>6. /\ stored[4] = Stored(4, space[s][4], x) /\ stored[5] = Stored(5, space[s][5], y)
      /\ stored[6] = Stored(6, c, c) /\ stored[7] = Stored(7, d, d)
      /\ \A r \in Registers : r \notin 4 .. 7 => stored[r] = space[s][r]
  BY <1>4, <1>5 DEF Registers
<1>7. stored[4] = x /\ stored[5] = y
  <2>1. ASSUME NEW old PROVE Stored(4, old, x) = x /\ Stored(5, old, y) = y
    BY DEF Stored, CFG_W_COMMAND, CFG_W_STATUS, CFG0_B_INTLINE
  <2> HIDE DEF stored
  <2> QED BY <1>6, <2>1
<1>8. stored[6] = 0 /\ stored[7] = 0
  BY <1>2, <1>6, Cleared DEF Byte
<1>9. stored \in [Registers -> 0 .. Base - 1]
  <2>1. x \in 0 .. Base - 1 /\ y \in 0 .. Base - 1 /\ 0 \in 0 .. Base - 1
    BY Powers DEF Byte
  <2>2. ASSUME NEW r \in Registers PROVE stored[r] \in 0 .. Base - 1
    <3>1. CASE r \in 4 .. 7
      <4>1. r = 4 \/ r = 5 \/ r = 6 \/ r = 7
        BY <3>1
      <4> HIDE DEF stored
      <4> QED BY <1>7, <1>8, <2>1, <4>1
    <3>2. CASE r \notin 4 .. 7
      <4>1. stored[r] = space[s][r]
        BY <1>6, <3>2
      <4> QED BY <1>1, <4>1
    <3> QED BY <3>1, <3>2
  <2>3. stored = [r \in Registers |-> stored[r]]
    OBVIOUS
  <2> HIDE DEF stored
  <2> QED BY <2>2, <2>3
<1> HIDE DEF stored
<1> QED BY <1>3, <1>6, <1>7, <1>8, <1>9

\* Merging one or two bytes into the four that were read.
LEMMA Merged ==
  ASSUME NEW B \in Bases,
         NEW a \in Byte(B), NEW b \in Byte(B), NEW c \in Byte(B), NEW d \in Byte(B),
         NEW x \in Byte(B), NEW y \in Byte(B)
  PROVE  /\ Merge(Long(B, a, b, c, d), 1, B * B, x + B * y) = Long(B, x, y, c, d)
         /\ Merge(Long(B, a, b, c, d), B, B, y) = Long(B, a, y, c, d)
<1>1. /\ (Long(B, a, b, c, d) \div 1) % (B * B) = a + B * b
      /\ (Long(B, a, b, c, d) \div B) % B = b
  BY Bytes
<1>2. /\ Long(B, a, b, c, d) - (a + B * b) * 1 + (x + B * y) * 1 = Long(B, x, y, c, d)
      /\ Long(B, a, b, c, d) - b * B + y * B = Long(B, a, y, c, d)
  BY DEF Bases, Byte, Long
<1> QED BY <1>1, <1>2 DEF Merge

\* A value of two bytes.
LEMMA Halves ==
  ASSUME NEW B \in Bases, NEW v \in 0 .. B * B - 1
  PROVE  \E x, y \in Byte(B) : v = x + B * y /\ (v \div 1) % B = x /\ (v \div B) % B = y
<1>1. B \in Nat \ {0} /\ v \in Nat
  BY DEF Bases
<1>2. PICK y \in Nat, x \in 0 .. B - 1 : v = x + B * y
  <2>1. v \div B \in Nat /\ v % B \in 0 .. B - 1 /\ v = (v % B) + B * (v \div B)
    BY <1>1
  <2> QED BY <2>1
<1>3. y \in 0 .. B - 1
  BY <1>1, <1>2 DEF Bases
<1>4. (v \div 1) % B = x /\ (v \div B) % B = y
  BY <1>2, <1>3 DEF Bases
<1> QED BY <1>2, <1>3, <1>4 DEF Byte

\* Setting bit 2 keeps a value of two bytes one of two bytes.
LEMMA BitTwo ==
  ASSUME NEW B \in Bases, NEW v \in 0 .. B * B - 1
  PROVE  (IF Bit(v, 2) = 1 THEN v ELSE v + 4) \in 0 .. B * B - 1
<1>1. 2 ^ 2 = 4
  OBVIOUS
<1> QED BY <1>1 DEF Bases, Bit

\* The four bytes from the command on, as they are read.
LEMMA Command ==
  ASSUME Space, NEW s \in DOMAIN space
  PROVE  /\ Base \in Bases
         /\ \A r \in 4 .. 7 : space[s][r] \in Byte(Base)
         /\ \A offset \in {4, 5} :
                pci_readl(s, offset) = Long(Base, space[s][4], space[s][5], space[s][6], space[s][7])
         /\ BusMaster(s) \in 0 .. Base * Base - 1
<1>1. Base \in Bases /\ \A r \in 4 .. 7 : space[s][r] \in Byte(Base)
  BY Powers DEF Space, Registers, Byte, Bases
<1>2. s \in Slots
  BY DEF Space
<1>3. \A offset \in {4, 5} :
         pci_readl(s, offset) = Long(Base, space[s][4], space[s][5], space[s][6], space[s][7])
  BY <1>2, ReadLong DEF Long
<1> DEFINE a == space[s][4]
           b == space[s][5]
           c == space[s][6]
           d == space[s][7]
<1>4. a \in Byte(Base) /\ b \in Byte(Base) /\ c \in Byte(Base) /\ d \in Byte(Base)
  BY <1>1
<1>5. pci_readl(s, 4) = Long(Base, a, b, c, d)
  BY <1>3
<1> HIDE DEF a, b, c, d
<1>6. (Long(Base, a, b, c, d) \div 1) % (Base * Base) = a + Base * b
  BY <1>1, <1>4, Bytes
<1>7. pci_readw(s, 4) = a + Base * b
  BY <1>5, <1>6, Shifts, Powers DEF pci_readw
<1>8. a + Base * b \in 0 .. Base * Base - 1
  BY <1>4, Powers DEF Byte
<1>9. BusMaster(s) \in 0 .. Base * Base - 1
  BY <1>1, <1>7, <1>8, BitTwo DEF BusMaster, CFG_W_COMMAND
<1> QED BY <1>1, <1>3, <1>9

\* What a write may change: nothing but the command and the status of the function.
Kept(s) ==
    /\ DOMAIN space' = DOMAIN space
    /\ \A t \in DOMAIN space : t # s => space'[t] = space[t]
    /\ \A r \in Registers : r \notin 4 .. 7 => space'[s][r] = space[s][r]
    /\ space'[s] \in [Registers -> 0 .. Base - 1]

LEMMA WroteWord ==
  ASSUME Space, NEW s \in DOMAIN space, pci_writew(s, CFG_W_COMMAND, BusMaster(s))
  PROVE  Kept(s) /\ Changes(s, CFG_W_COMMAND, 2, BusMaster(s))
<1> DEFINE v == BusMaster(s)
<1>1. Base \in Bases /\ v \in 0 .. Base * Base - 1
  BY Command
<1>2. PICK x, y \in Byte(Base) : v = x + Base * y /\ (v \div 1) % Base = x /\ (v \div Base) % Base = y
  BY <1>1, Halves
<1> DEFINE a == space[s][4]
           b == space[s][5]
           c == space[s][6]
           d == space[s][7]
<1>3. /\ a \in Byte(Base) /\ b \in Byte(Base) /\ c \in Byte(Base) /\ d \in Byte(Base)
      /\ pci_readl(s, 4) = Long(Base, a, b, c, d)
  BY Command
<1>4. pci_writel(s, 4, Merge(Long(Base, a, b, c, d), 1, Base * Base, v))
  <2> HIDE DEF a, b, c, d
  <2> QED BY <1>3, Shifts, Powers DEF pci_writew, CFG_W_COMMAND
<1>5. Merge(Long(Base, a, b, c, d), 1, Base * Base, x + Base * y) = Long(Base, x, y, c, d)
  <2> HIDE DEF a, b, c, d
  <2> QED BY <1>1, <1>3, Merged
<1>6. pci_writel(s, 4, Long(Base, x, y, c, d))
  BY <1>2, <1>4, <1>5
<1>7. /\ DOMAIN space' = DOMAIN space
      /\ \A t \in DOMAIN space : t # s => space'[t] = space[t]
      /\ space'[s][4] = x /\ space'[s][5] = y /\ space'[s][6] = 0 /\ space'[s][7] = 0
      /\ \A r \in Registers : r \notin 4 .. 7 => space'[s][r] = space[s][r]
      /\ space'[s] \in [Registers -> 0 .. Base - 1]
  BY <1>6, Wrote
<1>8. Kept(s)
  BY <1>7 DEF Kept
<1> HIDE DEF v
<1>9. \A z \in 0 .. 2 - 1 : space'[s][4 + z] = (v \div (Base ^ z)) % Base
  <2>1. space'[s][4 + 0] = (v \div (Base ^ 0)) % Base
    BY <1>2, <1>7, Powers
  <2>2. space'[s][4 + 1] = (v \div (Base ^ 1)) % Base
    BY <1>2, <1>7, Powers
  <2>3. \A z \in 0 .. 2 - 1 : z = 0 \/ z = 1
    OBVIOUS
  <2> QED BY <2>1, <2>2, <2>3
<1>10. ASSUME NEW t \in DOMAIN space, NEW r \in Registers, space'[t][r] # space[t][r]
       PROVE  /\ s = t
              /\ \/ r \in 4 .. 4 + 2 - 1
                 \/ r \in 6 .. 6 + 1 /\ space'[t][r] < space[t][r]
  <2>1. s = t /\ r \in 4 .. 7
    BY <1>7, <1>10
  <2>2. c \in Nat /\ d \in Nat
    BY <1>3, Powers DEF Byte
  <2>3. r = 4 \/ r = 5 \/ r = 6 \/ r = 7
    BY <2>1
  <2> QED BY <1>7, <1>10, <2>1, <2>2, <2>3
<1> QED BY <1>8, <1>9, <1>10 DEF Changes, CFG_W_COMMAND, CFG_W_STATUS, v

LEMMA WroteByte ==
  ASSUME Space, NEW s \in DOMAIN space, NEW v \in PciValues, pci_writeb(s, CFG_W_COMMAND + 1, v)
  PROVE  Kept(s) /\ Changes(s, CFG_W_COMMAND + 1, 1, v)
<1>1. Base \in Bases /\ v \in Byte(Base)
  BY Command, PciAssumption DEF Byte
<1> DEFINE a == space[s][4]
           b == space[s][5]
           c == space[s][6]
           d == space[s][7]
<1>2. /\ a \in Byte(Base) /\ b \in Byte(Base) /\ c \in Byte(Base) /\ d \in Byte(Base)
      /\ pci_readl(s, 5) = Long(Base, a, b, c, d)
  BY Command
<1>3. pci_writel(s, 5, Merge(Long(Base, a, b, c, d), Base, Base, v))
  <2>1. CFG_W_COMMAND + 1 = 5
    BY DEF CFG_W_COMMAND
  <2> HIDE DEF a, b, c, d
  <2> QED BY <1>2, <2>1, Shifts DEF pci_writeb
<1>4. Merge(Long(Base, a, b, c, d), Base, Base, v) = Long(Base, a, v, c, d)
  <2> HIDE DEF a, b, c, d
  <2> QED BY <1>1, <1>2, Merged
<1>5. pci_writel(s, 5, Long(Base, a, v, c, d))
  BY <1>3, <1>4
<1>6. /\ DOMAIN space' = DOMAIN space
      /\ \A t \in DOMAIN space : t # s => space'[t] = space[t]
      /\ space'[s][4] = a /\ space'[s][5] = v /\ space'[s][6] = 0 /\ space'[s][7] = 0
      /\ \A r \in Registers : r \notin 4 .. 7 => space'[s][r] = space[s][r]
      /\ space'[s] \in [Registers -> 0 .. Base - 1]
  BY <1>1, <1>2, <1>5, Wrote
<1>7. Kept(s)
  BY <1>6 DEF Kept
<1>8. \A z \in 0 .. 1 - 1 : space'[s][5 + z] = (v \div (Base ^ z)) % Base
  <2>1. (v \div 1) % Base = v
    BY <1>1, Powers DEF Byte
  <2>2. space'[s][5 + 0] = (v \div (Base ^ 0)) % Base
    BY <1>6, <2>1, Powers
  <2>3. \A z \in 0 .. 1 - 1 : z = 0
    OBVIOUS
  <2> QED BY <2>2, <2>3
<1>9. ASSUME NEW t \in DOMAIN space, NEW r \in Registers, space'[t][r] # space[t][r]
      PROVE  /\ s = t
             /\ \/ r \in 5 .. 5 + 1 - 1
                \/ r \in 6 .. 6 + 1 /\ space'[t][r] < space[t][r]
  <2>1. s = t /\ r \in 4 .. 7
    BY <1>6, <1>9
  <2>2. c \in Nat /\ d \in Nat
    BY <1>2, Powers DEF Byte
  <2>3. r = 4 \/ r = 5 \/ r = 6 \/ r = 7
    BY <2>1
  <2> QED BY <1>6, <1>9, <2>1, <2>2, <2>3
<1>10. 4 + 1 = 5
  OBVIOUS
<1> QED BY <1>7, <1>8, <1>9, <1>10 DEF Changes, CFG_W_COMMAND, CFG_W_STATUS

-----------------------------------------------------------------------------
(* The PCI part of the system *)

LEMMA InitPci == Init => Space /\ Scanned
<1> SUFFICES ASSUME Init PROVE Space /\ Scanned
  OBVIOUS
<1>1. /\ space \in Machines /\ pci_dev_list = <<>> /\ scan = <<0, 0, 0>> /\ lost = {}
  BY DEF Init, PciInit
<1>2. Space
  <2>1. /\ DOMAIN space \subseteq Slots
        /\ \A s \in DOMAIN space : /\ space[s] \in [Registers -> 0 .. Base - 1]
                                   /\ space[s][0] # Base - 1 \/ space[s][1] # Base - 1
    BY <1>1, PciAssumption
  <2> QED BY <2>1 DEF Space
<1>3. scan \in Slots /\ scan[3] = 0
  BY <1>1, PciAssumption DEF Slots
<1>4. \A t \in Slots : ~Passed(t, scan)
  BY <1>1 DEF Passed, Before, Slots
<1>5. Installed \subseteq Slots
  BY <1>2 DEF Space, Installed
<1> QED BY <1>1, <1>2, <1>3, <1>4, <1>5 DEF Scanned

\* A step of the system is for PCI a probe, a write, a device's event or nothing.
LEMMA PciSteps ==
  ASSUME [Next]_bootAll PROVE Probe \/ DriverWrites \/ DeviceStatus \/ UNCHANGED pciVars
<1>1. CASE UNCHANGED bootAll
  BY <1>1 DEF bootAll
<1>2. CASE Tick \/ KeyboardByte \/ Controller \/ UseFrames \/ UsePci
  BY <1>2 DEF Tick, KeyboardByte, Controller, UseFrames, UsePci, parts
<1>3. CASE BootStep
  <2>1. CASE MapBootPage \/ EnablePaging \/ HigherHalf \/ tty_init \/ Tables \/ pit_init
    BY <2>1 DEF MapBootPage, EnablePaging, HigherHalf, tty_init, Tables, pit_init, parts
  <2>2. CASE Ps2Step \/ check_map \/ paging_init
    BY <2>2 DEF Ps2Step, check_map, paging_init, parts
  <2>3. CASE kheap_init
    BY <2>3 DEF kheap_init, parts
  <2>4. CASE InitFrames \/ SchedInit \/ pci_init \/ sched_yield
    BY <2>4 DEF InitFrames, SchedInit, pci_init, sched_yield, parts
  <2>5. CASE StartShell
    BY <2>5 DEF StartShell, parts
  <2> QED BY <1>3, <2>1, <2>2, <2>3, <2>4, <2>5 DEF BootStep
<1> QED BY <1>1, <1>2, <1>3 DEF Next

\* A write keeps the registers the scan has read.
LEMMA KeptScanned ==
  ASSUME Space, Scanned, NEW s \in DOMAIN space, Kept(s), UNCHANGED <<pci_dev_list, scan, lost>>
  PROVE  Space' /\ Scanned'
<1>1. /\ DOMAIN space' = DOMAIN space
      /\ \A t \in DOMAIN space : /\ space'[t] \in [Registers -> 0 .. Base - 1]
                                 /\ \A r \in Registers : r \notin 4 .. 7 => space'[t][r] = space[t][r]
  BY DEF Kept, Space
<1>2. \A t \in DOMAIN space : \A r \in {0, 1, 2, 3, 11, 14} : space'[t][r] = space[t][r]
  BY <1>1 DEF Registers
<1>3. Space'
  BY <1>1, <1>2 DEF Space
<1>4. \A b, d : Several(b, d)' <=> Several(b, d)
  BY <1>1, <1>2 DEF Several
<1>5. \A e : Own(e)' <=> Own(e)
  BY <1>1, <1>2 DEF Own
<1>6. Installed' = Installed
  <2>1. ASSUME NEW t \in DOMAIN space
        PROVE  (<<t[1], t[2], 0>> \in DOMAIN space
                  /\ space[<<t[1], t[2], 0>>][14] >= Base \div 2)
               <=> (<<t[1], t[2], 0>> \in DOMAIN space'
                  /\ space'[<<t[1], t[2], 0>>][14] >= Base \div 2)
    BY <1>1, <1>2
  <2> QED BY <1>1, <2>1 DEF Installed, CFG_B_HEADERTYPE
<1> QED BY <1>3, <1>4, <1>5, <1>6 DEF Scanned

\* Before and after the scan, what the list holds is what is installed and passed, with the
\* registers of each function (pci.c), and writes to a device's command leave it so.
THEOREM PciInvariant == Spec => [](Space /\ Scanned)
<1>1. ASSUME Space, Scanned, [Next]_bootAll PROVE Space' /\ Scanned'
  <2>1. CASE Probe
    BY <1>1, <2>1, ProbeScanned
  <2>2. CASE DriverWrites
    <3>1. PICK p \in DOMAIN pci_dev_list :
             \/ pci_writew(pci_dev_list[p].slot, CFG_W_COMMAND, BusMaster(pci_dev_list[p].slot))
             \/ \E value \in PciValues : pci_writeb(pci_dev_list[p].slot, CFG_W_COMMAND + 1, value)
      BY <2>2 DEF DriverWrites, pci_search
    <3> DEFINE s == pci_dev_list[p].slot
    <3>2. s \in DOMAIN space
      BY <1>1 DEF Scanned, Own
    <3>3. UNCHANGED <<pci_dev_list, scan, lost>>
      BY <2>2 DEF DriverWrites
    <3>4. Kept(s)
      <4>1. CASE pci_writew(s, CFG_W_COMMAND, BusMaster(s))
        <5> HIDE DEF s
        <5> QED BY <1>1, <3>2, <4>1, WroteWord
      <4>2. CASE \E value \in PciValues : pci_writeb(s, CFG_W_COMMAND + 1, value)
        <5> HIDE DEF s
        <5> QED BY <1>1, <3>2, <4>2, WroteByte
      <4> QED BY <3>1, <4>1, <4>2
    <3> HIDE DEF s
    <3> QED BY <1>1, <3>2, <3>3, <3>4, KeptScanned
  <2>3. CASE DeviceStatus
    <3>1. PICK p \in DOMAIN pci_dev_list :
             space' = [space EXCEPT ![pci_dev_list[p].slot][CFG_W_STATUS + 1] = 1]
      BY <2>3 DEF DeviceStatus, pci_search
    <3> DEFINE s == pci_dev_list[p].slot
    <3>2. s \in DOMAIN space
      BY <1>1 DEF Scanned, Own
    <3>3. UNCHANGED <<pci_dev_list, scan, lost>>
      BY <2>3 DEF DeviceStatus
    <3>4. space' = [space EXCEPT ![s] = [space[s] EXCEPT ![7] = 1]]
      BY <3>1 DEF CFG_W_STATUS
    <3> HIDE DEF s
    <3>5. space[s] \in [Registers -> 0 .. Base - 1] /\ 1 \in 0 .. Base - 1
      BY <1>1, <3>2, Powers DEF Space
    <3>6. /\ DOMAIN space' = DOMAIN space /\ space'[s] = [space[s] EXCEPT ![7] = 1]
          /\ \A t \in DOMAIN space : t # s => space'[t] = space[t]
      BY <3>2, <3>4
    <3>7. /\ \A r \in Registers : r \notin 4 .. 7 => space'[s][r] = space[s][r]
          /\ space'[s] \in [Registers -> 0 .. Base - 1]
      <4>1. ASSUME NEW R, NEW V, NEW f \in [R -> V], NEW v \in V, NEW k
            PROVE  /\ [f EXCEPT ![k] = v] \in [R -> V]
                   /\ \A r \in R : r # k => [f EXCEPT ![k] = v][r] = f[r]
        OBVIOUS
      <4>2. space'[s] \in [Registers -> 0 .. Base - 1]
        BY <3>5, <3>6, <4>1
      <4>3. \A r \in Registers : r # 7 => space'[s][r] = space[s][r]
        BY <3>5, <3>6, <4>1
      <4> QED BY <4>2, <4>3
    <3>8. Kept(s)
      BY <3>6, <3>7 DEF Kept
    <3> QED BY <1>1, <3>2, <3>3, <3>8, KeptScanned
  <2>4. CASE UNCHANGED pciVars
    <3>1. UNCHANGED <<space, pci_dev_list, scan, lost>>
      BY <2>4 DEF pciVars
    <3>2. Installed' = Installed /\ \A b, d : Several(b, d)' <=> Several(b, d)
      BY <3>1 DEF Installed, Several
    <3>3. \A e : Own(e)' <=> Own(e)
      BY <3>1 DEF Own
    <3> QED BY <1>1, <3>1, <3>2, <3>3 DEF Space, Scanned
  <2> QED BY <1>1, <2>1, <2>2, <2>3, <2>4, PciSteps
<1> QED BY InitPci, <1>1, PTL DEF Spec

\* When the loops of pci_init are over, the list holds every installed function there was
\* memory for, once and in order, with its own registers: for any machine, any number of
\* buses, devices and functions, and any allocations that fail (pci.c).
THEOREM PciScan == Spec => []ScanFindsAll
<1>1. ASSUME Space, Scanned PROVE ScanFindsAll
  <2> DEFINE found == [p \in DOMAIN pci_dev_list |-> pci_dev_list[p].slot]
  <2>1. ASSUME scan = <<>> PROVE {found[p] : p \in DOMAIN found} = Installed \ lost
    <3>1. \A t \in Installed \ lost : \E p \in DOMAIN pci_dev_list : pci_dev_list[p].slot = t
      BY <1>1, <2>1 DEF Scanned, Passed
    <3>2. \A p \in DOMAIN pci_dev_list : pci_dev_list[p].slot \in Installed \ lost
      BY <1>1 DEF Scanned
    <3> QED BY <3>1, <3>2
  <2>2. \A p, q \in DOMAIN found : p < q => Before(found[p], found[q])
    BY <1>1 DEF Scanned
  <2>3. ASSUME NEW p \in DOMAIN found PROVE Own(pci_dev_list[p])
    BY <1>1 DEF Scanned
  <2>4. 0 + 1 = 1 /\ 2 + 1 = 3
    OBVIOUS
  <2> QED BY <2>1, <2>2, <2>3, <2>4
      DEF ScanFindsAll, Own, CFG_W_VENDORID, CFG_W_DEVICEID, CFG_B_CLASSID, CFG_B_HEADERTYPE
<1> QED BY <1>1, PciInvariant, PTL

\* pci_writew and pci_writeb change the register they name of the device they name and
\* disturb nothing but that device's status (pci.c:93-119), whatever the device, the value
\* and the width of a byte.
THEOREM PciWrites == Spec => WritesInPlace
<1>1. ASSUME Space, NEW s \in Installed \ lost, NEW v \in PciValues
      PROVE  /\ pci_writew(s, CFG_W_COMMAND, BusMaster(s)) => Changes(s, CFG_W_COMMAND, 2, BusMaster(s))
             /\ pci_writeb(s, CFG_W_COMMAND + 1, v) => Changes(s, CFG_W_COMMAND + 1, 1, v)
  <2>1. s \in DOMAIN space
    BY DEF Installed
  <2> QED BY <1>1, <2>1, WroteWord, WroteByte
<1>2. ASSUME Space
      PROVE  [space' # space => \A s \in Installed \ lost, v \in PciValues :
                /\ pci_writew(s, CFG_W_COMMAND, BusMaster(s)) => Changes(s, CFG_W_COMMAND, 2, BusMaster(s))
                /\ pci_writeb(s, CFG_W_COMMAND + 1, v) => Changes(s, CFG_W_COMMAND + 1, 1, v)]_pciVars
  BY <1>1, <1>2
<1> QED BY <1>2, PciInvariant, PTL DEF WritesInPlace
=============================================================================
