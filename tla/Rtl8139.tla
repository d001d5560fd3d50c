------------------------------- MODULE Rtl8139 -------------------------------
(***************************************************************************)
(* The network driver drivers/rtl8139.c: rtl_module_init and               *)
(* rtl_module_kill, which the shell calls, rtl_isr_handler, and the        *)
(* receive ring that the card fills by DMA meanwhile.                      *)
(*                                                                         *)
(* The card acts at any time.  A handler runs between two steps of the     *)
(* task and keeps it waiting until it returns.  A packet buffer is         *)
(* allocated, passed to net_rx_pkt and freed in one turn of the handler's  *)
(* loop, so it does not show in the state.  What net_rx_pkt and kwarn      *)
(* print is in Console.                                                    *)
(*                                                                         *)
(* The card takes the ring for read up to CAPR + Gap. The driver writes    *)
(* that 16-bit register with outb, so only its low byte reaches the card,  *)
(* and the two disagree about what is left to read.                        *)
(***************************************************************************)
EXTENDS Naturals, SequencesExt

CONSTANTS
    Objects,      \* what kmalloc may return to the driver
    Null,
    MayFail,      \* the allocations of rtl_module_init that may fail
    Shared,       \* the line has another driver: request_irq needs kmalloc and may fail
    A, B,         \* RX_BUF_SIZE is the text A*B: 32*1024
    Pad,          \* RX_BUF_PAD
    W,            \* 2^16, the modulus of unsigned short
    Byte,         \* 2^8, the modulus of what outb writes
    Gap,          \* 16: CAPR is that far behind the read pointer
    PktSizes      \* the sizes (with the CRC) the card writes into a header

RX_BUF_SIZE == A * B

ASSUME RtlAssumption ==
    /\ Null \notin Objects /\ MayFail \subseteq {"net_dev", "rx_buf"}
    /\ Shared \in BOOLEAN
    /\ A \in Nat \ {0} /\ B \in Nat \ {0} /\ B % 4 = 0
    /\ Pad \in Nat /\ Pad >= 4
    /\ W \in Nat /\ W > RX_BUF_SIZE /\ W % 4 = 0
    /\ Byte \in Nat \ {0} /\ Gap \in 0 .. W
    /\ PktSizes \subseteq Nat

VARIABLES
    started, rtl_net_dev, rx_buf, rx_ptr,    \* the driver's static variables
    net_dev_list,                            \* kernel/net.c's list of devices
    attached,      \* the handler is on its line, and the line unmasked
    held,          \* the driver's heap objects that are allocated
    stray_free,    \* ghost: kfree was given something that is not allocated
    task,          \* where the shell is
    isr,           \* where the handler is: "none" or in its loop, "rx"
    re, imr, flags, rbstart,    \* the card: receiver on, interrupts on, ISR, RBSTART
    cbr, capr,     \* where in the ring it writes next, and what it was told is read
    headers,       \* the packet headers that are in the memory it has written
    early, wrapped, lost    \* ghosts: since its reset a frame came before RBSTART was set,
                   \* the card went round the ring, the handler read past the last packet

driver == <<started, rtl_net_dev, rx_buf>>
ring == <<cbr, headers, early, wrapped>>
card == <<re, imr, flags, rbstart, capr, lost, ring>>
vars == <<driver, rx_ptr, net_dev_list, attached, held, stray_free, task, isr, card>>

Init ==
    /\ started = FALSE
    /\ rtl_net_dev = Null /\ rx_buf = Null /\ rx_ptr = 0
    /\ net_dev_list = <<>>
    /\ attached = FALSE
    /\ held = {}
    /\ stray_free = FALSE
    /\ task = "shell"
    /\ isr = "none"
    /\ re = FALSE /\ imr = FALSE /\ flags = {} /\ rbstart = Null
    /\ cbr = 0 /\ capr = W - Gap
    /\ headers = {}
    /\ early = FALSE /\ wrapped = FALSE /\ lost = FALSE

\* The task runs when no handler does.
TaskAt(place) == isr = "none" /\ task = place

kfree(objects) ==
    /\ held' = held \ objects
    /\ stray_free' = (stray_free \/ ~(objects \ {Null} \subseteq held))

-----------------------------------------------------------------------------
(* The card (external) *)

Align(n) == 4 * ((n + 3) \div 4)
Stored(size) == Align(size + 4)

\* Up to where the card takes the ring for read, the bytes in use, and BUFE.
ReadPos == (capr + Gap) % RX_BUF_SIZE
InUse == (cbr + RX_BUF_SIZE - ReadPos) % RX_BUF_SIZE
BufferEmpty == ReadPos = cbr

Header(size) == [base |-> rbstart, at |-> cbr, size |-> size]

\* A frame arrives. RX_CONFIG says WRAP: a packet at the end of the ring runs on into
\* the pad, and the next one starts where the wrapped position is.
Receive(size) ==
    LET end == cbr + Stored(size) IN
    /\ re
    /\ \/ /\ InUse + Stored(size) < RX_BUF_SIZE
          /\ headers' = {p \in headers : p.base = rbstart => p.at \notin cbr .. end - 1} \cup {Header(size)}
          /\ cbr' = end % RX_BUF_SIZE
          /\ wrapped' = (wrapped \/ end >= RX_BUF_SIZE)
          /\ early' = (early \/ rbstart = Null)
          /\ flags' = flags \cup {"ROK"}
       \/ /\ InUse + Stored(size) >= RX_BUF_SIZE
          /\ flags' = flags \cup {"RER"}
          /\ UNCHANGED ring
    /\ UNCHANGED <<driver, rx_ptr, net_dev_list, attached, held, stray_free, task, isr, re, imr, rbstart, capr, lost>>

-----------------------------------------------------------------------------
(* rtl_isr_handler *)

\* The line is raised: the flags are read and cleared. On an error rtl_rx_reset writes
\* back the command register it has read, so nothing changes.
rtl_isr_handler ==
    /\ isr = "none" /\ attached /\ imr /\ flags # {}
    /\ flags' = {}
    /\ isr' = IF "ROK" \in flags THEN "rx" ELSE "none"
    /\ UNCHANGED <<driver, rx_ptr, net_dev_list, attached, held, stray_free, task, re, imr, rbstart, capr, lost, ring>>

\* Mutant: the pointer is not wrapped.
MutReadAt == rx_ptr

\* rx_ptr % RX_BUF_SIZE is (rx_ptr % 32)*1024 once the macro is expanded.
ReadAt == IF rx_ptr > RX_BUF_SIZE THEN (rx_ptr % A) * B ELSE rx_ptr

\* The handler reads the header p.
Reads(p) == p.base = rx_buf /\ p.at = ReadAt

\* The read pointer after a packet.
Advance(ptr, size) == Align(ptr + size + 4) % W

\* outb to CAPR: the low byte.
WriteCapr(value) == capr' = (capr \div Byte) * Byte + (value % Byte)

\* One turn of the loop. What is read where there is no header leads anywhere.
RxPacket ==
    /\ isr = "rx" /\ ~BufferEmpty
    /\ \/ \E p \in headers : Reads(p) /\ rx_ptr' = Advance(ReadAt, p.size)
       \/ (\A p \in headers : ~Reads(p)) /\ rx_ptr' \in {n \in 0 .. W - 1 : n % 4 = 0}
    /\ WriteCapr(rx_ptr' + W - Gap)
    /\ lost' = (lost \/ ReadAt = cbr)
    /\ UNCHANGED <<driver, net_dev_list, attached, held, stray_free, task, isr, re, imr, flags, rbstart, ring>>

RxDone ==
    /\ isr = "rx" /\ BufferEmpty
    /\ isr' = "none"
    /\ UNCHANGED <<driver, rx_ptr, net_dev_list, attached, held, stray_free, task, card>>

-----------------------------------------------------------------------------
(* rtl_module_init *)

rtl_module_init ==
    /\ TaskAt("shell") /\ ~started
    /\ task' = "net_dev"
    /\ UNCHANGED <<driver, rx_ptr, net_dev_list, attached, held, stray_free, isr, card>>

AllocNetDev ==
    /\ TaskAt("net_dev")
    /\ \/ \E o \in Objects \ held : held' = held \cup {o} /\ rtl_net_dev' = o /\ task' = "rx_buf"
       \/ "net_dev" \in MayFail /\ rtl_net_dev' = Null /\ task' = "clean" /\ UNCHANGED held
    /\ UNCHANGED <<started, rx_buf, rx_ptr, net_dev_list, attached, stray_free, isr, card>>

\* Mutant: a restart goes on reading where the last one stopped.
MutAllocRxBuf ==
    /\ TaskAt("rx_buf")
    /\ \E o \in Objects \ held : held' = held \cup {o} /\ rx_buf' = o /\ task' = "register"
    /\ UNCHANGED <<rx_ptr, started, rtl_net_dev, net_dev_list, attached, stray_free, isr, card>>

AllocRxBuf ==
    /\ TaskAt("rx_buf")
    /\ \/ /\ \E o \in Objects \ held : held' = held \cup {o} /\ rx_buf' = o
          /\ rx_ptr' = 0
          /\ task' = "register"
       \/ /\ "rx_buf" \in MayFail
          /\ rx_buf' = Null
          /\ task' = "clean"
          /\ UNCHANGED <<held, rx_ptr>>
    /\ UNCHANGED <<started, rtl_net_dev, net_dev_list, attached, stray_free, isr, card>>

register_net_dev ==
    /\ TaskAt("register")
    /\ net_dev_list' = Append(net_dev_list, rtl_net_dev)
    /\ task' = "irq"
    /\ UNCHANGED <<driver, rx_ptr, attached, held, stray_free, isr, card>>

RequestIrq ==
    /\ TaskAt("irq")
    /\ \/ attached' = TRUE /\ task' = "reset"
       \/ Shared /\ task' = "clean" /\ UNCHANGED attached
    /\ UNCHANGED <<driver, rx_ptr, net_dev_list, held, stray_free, isr, card>>

\* Mutant: what was allocated is not freed.
MutClean ==
    /\ TaskAt("clean")
    /\ rtl_net_dev' = Null /\ rx_buf' = Null
    /\ task' = "shell"
    /\ UNCHANGED <<held, stray_free, started, rx_ptr, net_dev_list, attached, isr, card>>

\* cleanandfail. After a restart rx_buf still points to the buffer of the last run when
\* the first allocation fails.
CleanAndFail ==
    /\ TaskAt("clean")
    /\ kfree({rtl_net_dev, rx_buf})
    /\ rtl_net_dev' = Null /\ rx_buf' = Null
    /\ task' = "shell"
    /\ UNCHANGED <<started, rx_ptr, net_dev_list, attached, isr, card>>

\* rtl_hardware_init in the order of its port writes: the reset ...
HardwareReset ==
    /\ TaskAt("reset")
    /\ re' = FALSE /\ imr' = FALSE /\ flags' = {} /\ rbstart' = Null
    /\ cbr' = 0 /\ capr' = W - Gap
    /\ headers' = {}
    /\ early' = FALSE /\ wrapped' = FALSE /\ lost' = FALSE
    /\ task' = "enable"
    /\ UNCHANGED <<driver, rx_ptr, net_dev_list, attached, held, stray_free, isr>>

\* ... RE and RCR ...
EnableReceiver ==
    /\ TaskAt("enable")
    /\ re' = TRUE
    /\ task' = "rbstart"
    /\ UNCHANGED <<driver, rx_ptr, net_dev_list, attached, held, stray_free, isr, imr, flags, rbstart, capr, lost, ring>>

\* ... RBSTART ...
SetBuffer ==
    /\ TaskAt("rbstart")
    /\ rbstart' = rx_buf
    /\ task' = "imr"
    /\ UNCHANGED <<driver, rx_ptr, net_dev_list, attached, held, stray_free, isr, re, imr, flags, capr, lost, ring>>

\* ... and IMR; then started, which only the shell reads.
EnableIrqs ==
    /\ TaskAt("imr")
    /\ imr' = TRUE
    /\ started' = TRUE
    /\ task' = "shell"
    /\ UNCHANGED <<rtl_net_dev, rx_buf, rx_ptr, net_dev_list, attached, held, stray_free, isr, re, flags, rbstart, capr, lost, ring>>

-----------------------------------------------------------------------------
(* rtl_module_kill *)

\* Mutant: the card is not told to stop receiving.
MutKill ==
    /\ TaskAt("shell") /\ started
    /\ task' = "mask"
    /\ UNCHANGED <<driver, rx_ptr, net_dev_list, attached, held, stray_free, isr, card>>

rtl_module_kill ==
    /\ TaskAt("shell") /\ started
    /\ re' = FALSE
    /\ task' = "mask"
    /\ UNCHANGED <<driver, rx_ptr, net_dev_list, attached, held, stray_free, isr, imr, flags, rbstart, capr, lost, ring>>

MaskIrqs ==
    /\ TaskAt("mask")
    /\ imr' = FALSE
    /\ task' = "release"
    /\ UNCHANGED <<driver, rx_ptr, net_dev_list, attached, held, stray_free, isr, re, flags, rbstart, capr, lost, ring>>

\* Mutant: the handler stays on the line.
MutReleaseIrq ==
    /\ TaskAt("release")
    /\ task' = "remove"
    /\ UNCHANGED <<driver, rx_ptr, net_dev_list, attached, held, stray_free, isr, card>>

ReleaseIrq ==
    /\ TaskAt("release")
    /\ attached' = FALSE
    /\ task' = "remove"
    /\ UNCHANGED <<driver, rx_ptr, net_dev_list, held, stray_free, isr, card>>

Listed(i) == net_dev_list[i] = rtl_net_dev

\* remove_net_dev takes out the first link that is the device; the device is freed
\* whether it was in the list or not.
remove_net_dev ==
    /\ TaskAt("remove")
    /\ \/ \E i \in DOMAIN net_dev_list :
            /\ Listed(i) /\ \A k \in 1 .. i - 1 : ~Listed(k)
            /\ net_dev_list' = RemoveAt(net_dev_list, i)
       \/ (\A i \in DOMAIN net_dev_list : ~Listed(i)) /\ UNCHANGED net_dev_list
    /\ kfree({rtl_net_dev})
    /\ task' = "free"
    /\ UNCHANGED <<driver, rx_ptr, attached, isr, card>>

\* rtl_net_dev and rx_buf keep their values.
FreeRxBuf ==
    /\ TaskAt("free")
    /\ kfree({rx_buf})
    /\ started' = FALSE
    /\ task' = "shell"
    /\ UNCHANGED <<rtl_net_dev, rx_buf, rx_ptr, net_dev_list, attached, isr, card>>

Next ==
    \/ \E size \in PktSizes : Receive(size)
    \/ rtl_isr_handler \/ RxPacket \/ RxDone
    \/ rtl_module_init \/ AllocNetDev \/ AllocRxBuf \/ register_net_dev \/ RequestIrq
    \/ CleanAndFail
    \/ HardwareReset \/ EnableReceiver \/ SetBuffer \/ EnableIrqs
    \/ rtl_module_kill \/ MaskIrqs \/ ReleaseIrq \/ remove_net_dev \/ FreeRxBuf

Spec == Init /\ [][Next]_vars

-----------------------------------------------------------------------------
(* Properties *)

\* Whenever rtl_isr_handler can be called, or is running, the device and the buffer it
\* uses are allocated: request_irq comes after both allocations and release_irq before
\* both frees, whatever fails on the way.
IsrMemoryHeld == attached \/ isr = "rx" => {rtl_net_dev, rx_buf} \subseteq held

\* The card never writes into memory the driver has freed: it is stopped before rx_buf is
\* freed and reset before it is started again.
DmaTargetHeld == re /\ rbstart # Null => rbstart \in held

\* After rtl_module_kill or a failed rtl_module_init the driver holds no memory and none
\* of its devices is in net_dev_list. (With a line of its own: see Shared.)
CleanWhenStopped == task = "shell" /\ ~started => held = {} /\ net_dev_list = <<>>

\* The handler turns to another packet.
Turns == isr = "rx" /\ ~BufferEmpty

HeaderRead == \E p \in headers : Reads(p)

\* The handler reads the packets one after the other from the first, also after a stop that
\* left packets in the ring: what it takes for a header is one, until a frame came before
\* RBSTART was set, the card has gone round the ring, or the handler has got to where the
\* card will write next (and, the card not knowing that, read on).
HeadersReal == Turns /\ ~early /\ ~wrapped /\ ~lost /\ ReadAt # cbr => HeaderRead

\* Even after it has lost its place the handler reads its headers inside the buffer.
HeadersInBuffer == Turns => ReadAt + 4 <= RX_BUF_SIZE + Pad

\* rtl8139.c:113, "while theres a packet in the buffer": having read the last packet and
\* told the card, the handler leaves its loop. (CAPR is written with outb.)
StopsAtLast == Turns /\ ~early /\ ~wrapped => ReadAt # cbr

\* rtl8139.c:116, "wrap the read pointer": the handler finds the next packet after the
\* card has gone round the ring too.
WrapsReadPointer == Turns /\ ~early /\ ~lost /\ ReadAt # cbr => HeaderRead

\* No frame is written before the card knows where to.
DmaAlwaysHeld == re => rbstart \in held

\* kfree is only given what is allocated. (rtl_module_kill leaves rx_buf as it is, and a
\* restart whose first allocation fails frees it again.)
FreesWhatItHolds == ~stray_free
=============================================================================
