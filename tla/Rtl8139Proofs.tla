---------------------------- MODULE Rtl8139Proofs ----------------------------
(***************************************************************************)
(* Proofs about the network driver: memory that rtl_isr_handler and the    *)
(* card use, what a stop leaves behind, and the headers of the ring.       *)
(***************************************************************************)
EXTENDS Rtl8139, TLAPS

Packets == [base : Objects \cup {Null}, at : Nat, size : Nat]

Places ==
    {"shell", "net_dev", "rx_buf", "register", "irq", "clean", "reset", "enable",
     "rbstart", "imr", "mask", "release", "remove", "free"}

TypeOK ==
    /\ started \in BOOLEAN /\ attached \in BOOLEAN
    /\ re \in BOOLEAN /\ imr \in BOOLEAN
    /\ early \in BOOLEAN /\ wrapped \in BOOLEAN /\ lost \in BOOLEAN
    /\ rtl_net_dev \in Objects \cup {Null}
    /\ rx_buf \in Objects \cup {Null}
    /\ rbstart \in Objects \cup {Null}
    /\ held \subseteq Objects
    /\ rx_ptr \in Nat /\ cbr \in 0 .. RX_BUF_SIZE - 1
    /\ headers \subseteq Packets
    /\ task \in Places
    /\ isr \in {"none", "rx"}

-----------------------------------------------------------------------------
(* The inductive invariants *)

InShell == task = "shell" /\ started

\* The handler is on the line from the end of request_irq to release_irq.
Served == InShell \/ task \in {"reset", "enable", "rbstart", "imr", "mask", "release"}

\* What is allocated at each place of the task.
Memory ==
    /\ task \in {"mask", "release", "remove", "free"} => started
    /\ task \notin {"shell", "mask", "release", "remove", "free"} => ~started
    /\ attached <=> Served
    /\ Served \/ task \in {"register", "irq", "remove"} =>
         held = {rtl_net_dev, rx_buf} /\ rtl_net_dev # rx_buf
    /\ task = "net_dev" \/ (task = "shell" /\ ~started) => held = {}
    /\ task = "rx_buf" => held = {rtl_net_dev}
    /\ task = "free" => held = {rx_buf}
    /\ task = "clean" => held \subseteq {rtl_net_dev, rx_buf}

\* When the card may interrupt, receive and write.
Card ==
    /\ isr = "rx" => attached /\ imr
    /\ imr => InShell \/ task = "mask"
    /\ re => InShell \/ task \in {"rbstart", "imr"}
    /\ task \in {"enable", "rbstart"} => rbstart = Null
    /\ re /\ rbstart # Null => rbstart = rx_buf

\* The driver's device is in the list from register_net_dev to remove_net_dev.
DeviceList ==
    /\ Served \/ task \in {"irq", "remove"} => net_dev_list = <<rtl_net_dev>>
    /\ ~(Served \/ task \in {"irq", "remove"}) => net_dev_list = <<>>

Starts(at) == \E p \in headers : p.at = at

\* The packets of the ring lie before the card's position, each up to the next or to that
\* position, and the handler is at one of them or there.
Contiguous ==
    /\ cbr % 4 = 0
    /\ \A p \in headers :
         /\ p.base = rx_buf /\ p.at % 4 = 0
         /\ p.at + Stored(p.size) <= cbr
         /\ p.at + Stored(p.size) = cbr \/ Starts(p.at + Stored(p.size))
    /\ ~lost => rx_ptr = cbr \/ Starts(rx_ptr)

\* rtl_module_init starts to read where the reset card starts to write.
Ring ==
    /\ task \in {"register", "irq", "reset"} => rx_ptr = 0
    /\ (InShell \/ task \in {"enable", "rbstart", "imr", "mask"}) /\ ~wrapped /\ ~early => Contiguous

MemInv == TypeOK /\ Memory /\ Card

-----------------------------------------------------------------------------
(* Arithmetic *)

LEMMA Sizes ==
    /\ RX_BUF_SIZE \in Nat \ {0} /\ 0 \in 0 .. RX_BUF_SIZE - 1
    /\ W \in Nat \ {0} /\ RX_BUF_SIZE < W
<1>1. RX_BUF_SIZE \in Nat \ {0}
  BY RtlAssumption DEF RX_BUF_SIZE
<1>2. ASSUME NEW n \in Nat \ {0} PROVE 0 \in 0 .. n - 1
  OBVIOUS
<1> QED BY <1>1, <1>2, RtlAssumption

LEMMA ModSmall == \A w \in Nat \ {0} : \A x \in 0 .. w - 1 : x % w = x
OBVIOUS

LEMMA ModRange == \A w \in Nat \ {0} : \A x \in Nat : x % w \in 0 .. w - 1
OBVIOUS

LEMMA StoredType ==
    ASSUME NEW size \in Nat
    PROVE  Stored(size) \in Nat /\ Stored(size) % 4 = 0 /\ Stored(size) > 0
BY DEF Stored, Align

LEMMA ReadAtType == rx_ptr \in Nat => ReadAt \in Nat
BY RtlAssumption, Sizes DEF ReadAt

LEMMA AdvanceType ==
    ASSUME NEW ptr \in Nat, NEW size \in Nat
    PROVE  Advance(ptr, size) \in Nat
<1>1. Align(ptr + size + 4) \in Nat
  BY DEF Align
<1> QED BY <1>1, Sizes, ModRange DEF Advance

\* Advance adds what the card has stored, as long as it does not reach W.
LEMMA AdvanceByStored ==
    ASSUME NEW ptr \in Nat, ptr % 4 = 0, NEW size \in Nat, ptr + Stored(size) < RX_BUF_SIZE
    PROVE  Advance(ptr, size) = ptr + Stored(size)
<1>1. Align(ptr + size + 4) = ptr + Stored(size)
  BY DEF Align, Stored
<1>2. ptr + Stored(size) \in 0 .. W - 1
  BY Sizes, StoredType
<1> QED BY <1>1, <1>2, Sizes, ModSmall DEF Advance

LEMMA CardType ==
    ASSUME TypeOK, NEW size \in PktSizes
    PROVE  /\ size \in Nat /\ cbr \in Nat /\ Stored(size) \in Nat
           /\ (cbr + Stored(size)) % RX_BUF_SIZE \in 0 .. RX_BUF_SIZE - 1
           /\ Header(size) \in Packets
           /\ Header(size).base = rbstart /\ Header(size).at = cbr /\ Header(size).size = size
<1>1. size \in Nat
  BY RtlAssumption
<1>2. cbr \in Nat
  BY DEF TypeOK
<1>3. cbr + Stored(size) \in Nat /\ Stored(size) \in Nat
  BY <1>1, <1>2, StoredType
<1>4. rbstart \in Objects \cup {Null}
  BY DEF TypeOK
<1>5. (cbr + Stored(size)) % RX_BUF_SIZE \in 0 .. RX_BUF_SIZE - 1
  BY <1>3, Sizes, ModRange
<1> QED BY <1>1, <1>2, <1>3, <1>4, <1>5 DEF Packets, Header

-----------------------------------------------------------------------------
(* The memory of the handler and of the card, whatever else shares the line *)

LEMMA InitMem == Init => MemInv
<1> SUFFICES ASSUME Init PROVE MemInv
  OBVIOUS
<1>1. cbr \in 0 .. RX_BUF_SIZE - 1 /\ headers \subseteq Packets /\ rx_ptr \in Nat
  BY Sizes DEF Init
<1>2. TypeOK
  BY <1>1 DEF Init, TypeOK, Places
<1>3. Memory /\ Card
  BY DEF Init, Memory, Card, Served, InShell
<1> QED BY <1>2, <1>3 DEF MemInv

LEMMA NextType ==
    ASSUME TypeOK, Next
    PROVE  TypeOK'
<1> USE DEF TypeOK, Places
<1>1. ASSUME NEW size \in PktSizes, Receive(size) PROVE TypeOK'
  <2>1. headers' \subseteq Packets /\ cbr' \in 0 .. RX_BUF_SIZE - 1
    BY <1>1, CardType DEF Receive, ring
  <2>2. wrapped' \in BOOLEAN /\ early' \in BOOLEAN
    BY <1>1 DEF Receive, ring
  <2> QED BY <1>1, <2>1, <2>2 DEF Receive, driver
<1>2. CASE RxPacket
  <2>1. rx_ptr' \in Nat
    <3>1. ASSUME NEW p \in headers PROVE Advance(ReadAt, p.size) \in Nat
      <4>1. p.size \in Nat
        BY DEF Packets
      <4> QED BY <4>1, ReadAtType, AdvanceType
    <3>2. CASE rx_ptr' \in {n \in 0 .. W - 1 : n % 4 = 0}
      BY <3>2
    <3> QED BY <1>2, <3>1, <3>2 DEF RxPacket
  <2> QED BY <1>2, <2>1 DEF RxPacket, driver, ring
<1>3. CASE rtl_isr_handler
  BY <1>3 DEF rtl_isr_handler, driver, card, ring
<1>4. CASE RxDone
  BY <1>4 DEF RxDone, driver, card, ring
<1>5. CASE rtl_module_init
  BY <1>5 DEF rtl_module_init, TaskAt, driver, card, ring
<1>6. CASE AllocNetDev
  BY <1>6 DEF AllocNetDev, TaskAt, driver, card, ring
<1>7. CASE AllocRxBuf
  BY <1>7 DEF AllocRxBuf, TaskAt, driver, card, ring
<1>8. CASE register_net_dev
  BY <1>8 DEF register_net_dev, TaskAt, driver, card, ring
<1>9. CASE RequestIrq
  BY <1>9 DEF RequestIrq, TaskAt, driver, card, ring
<1>10. CASE CleanAndFail
  BY <1>10 DEF CleanAndFail, TaskAt, kfree, driver, card, ring
<1>11. CASE HardwareReset
  <2>1. headers' \subseteq Packets /\ cbr' \in 0 .. RX_BUF_SIZE - 1
    BY <1>11, Sizes DEF HardwareReset
  <2> QED BY <1>11, <2>1 DEF HardwareReset, TaskAt, driver, card, ring
<1>12. CASE EnableReceiver
  BY <1>12 DEF EnableReceiver, TaskAt, driver, card, ring
<1>13. CASE SetBuffer
  BY <1>13 DEF SetBuffer, TaskAt, driver, card, ring
<1>14. CASE EnableIrqs
  BY <1>14 DEF EnableIrqs, TaskAt, driver, card, ring
<1>15. CASE rtl_module_kill
  BY <1>15 DEF rtl_module_kill, TaskAt, driver, card, ring
<1>16. CASE MaskIrqs
  BY <1>16 DEF MaskIrqs, TaskAt, driver, card, ring
<1>17. CASE ReleaseIrq
  BY <1>17 DEF ReleaseIrq, TaskAt, driver, card, ring
<1>18. CASE remove_net_dev
  BY <1>18 DEF remove_net_dev, TaskAt, kfree, driver, card, ring
<1>19. CASE FreeRxBuf
  BY <1>19 DEF FreeRxBuf, TaskAt, kfree, driver, card, ring
<1> QED BY <1>1, <1>2, <1>3, <1>4, <1>5, <1>6, <1>7, <1>8, <1>9, <1>10, <1>11, <1>12, <1>13, <1>14, <1>15, <1>16, <1>17, <1>18, <1>19 DEF Next

LEMMA NextMem ==
    ASSUME TypeOK, Memory, Card, Next
    PROVE  Memory' /\ Card'
<1> USE RtlAssumption DEF TypeOK, Memory, Card, Served, InShell, Places
<1>1. ASSUME NEW size \in PktSizes, Receive(size) PROVE Memory' /\ Card'
  BY <1>1 DEF Receive, driver, ring
<1>2. CASE RxPacket
  BY <1>2 DEF RxPacket, driver, ring
<1>3. CASE rtl_isr_handler
  BY <1>3 DEF rtl_isr_handler, driver, card, ring
<1>4. CASE RxDone
  BY <1>4 DEF RxDone, driver, card, ring
<1>5. CASE rtl_module_init
  BY <1>5 DEF rtl_module_init, TaskAt, driver, card, ring
<1>6. CASE AllocNetDev
  BY <1>6 DEF AllocNetDev, TaskAt, driver, card, ring
<1>7. CASE AllocRxBuf
  BY <1>7 DEF AllocRxBuf, TaskAt, driver, card, ring
<1>8. CASE register_net_dev
  BY <1>8 DEF register_net_dev, TaskAt, driver, card, ring
<1>9. CASE RequestIrq
  BY <1>9 DEF RequestIrq, TaskAt, driver, card, ring
<1>10. CASE CleanAndFail
  BY <1>10 DEF CleanAndFail, TaskAt, kfree, driver, card, ring
<1>11. CASE HardwareReset
  BY <1>11 DEF HardwareReset, TaskAt, driver, card, ring
<1>12. CASE EnableReceiver
  BY <1>12 DEF EnableReceiver, TaskAt, driver, card, ring
<1>13. CASE SetBuffer
  BY <1>13 DEF SetBuffer, TaskAt, driver, card, ring
<1>14. CASE EnableIrqs
  BY <1>14 DEF EnableIrqs, TaskAt, driver, card, ring
<1>15. CASE rtl_module_kill
  BY <1>15 DEF rtl_module_kill, TaskAt, driver, card, ring
<1>16. CASE MaskIrqs
  BY <1>16 DEF MaskIrqs, TaskAt, driver, card, ring
<1>17. CASE ReleaseIrq
  BY <1>17 DEF ReleaseIrq, TaskAt, driver, card, ring
<1>18. CASE remove_net_dev
  BY <1>18 DEF remove_net_dev, TaskAt, kfree, driver, card, ring
<1>19. CASE FreeRxBuf
  BY <1>19 DEF FreeRxBuf, TaskAt, kfree, driver, card, ring
<1> QED BY <1>1, <1>2, <1>3, <1>4, <1>5, <1>6, <1>7, <1>8, <1>9, <1>10, <1>11, <1>12, <1>13, <1>14, <1>15, <1>16, <1>17, <1>18, <1>19 DEF Next

\* From request_irq to release_irq, and while rtl_isr_handler runs, the device and the
\* receive buffer are allocated; the card writes only into the buffer that is.
THEOREM MemorySafety == Spec => []MemInv
<1>1. ASSUME MemInv, [Next]_vars PROVE MemInv'
  <2>1. CASE Next
    BY <1>1, <2>1, NextType, NextMem DEF MemInv
  <2>2. CASE UNCHANGED vars
    BY <1>1, <2>2 DEF MemInv, TypeOK, Memory, Card, Served, InShell, vars, driver, card, ring
  <2> QED BY <1>1, <2>1, <2>2
<1> QED BY InitMem, <1>1, PTL DEF Spec

\* rtl_isr_handler never uses memory that is not allocated (rtl8139.c:219-246, 268-283).
THEOREM HandlerMemory == Spec => []IsrMemoryHeld
<1>1. MemInv => IsrMemoryHeld
  BY DEF MemInv, Memory, Card, Served, InShell, IsrMemoryHeld
<1> QED BY <1>1, MemorySafety, PTL

\* The card never writes by DMA into memory that has been freed (rtl8139.c:256-283).
THEOREM DmaMemory == Spec => []DmaTargetHeld
<1>1. MemInv => DmaTargetHeld
  BY DEF MemInv, Memory, Card, Served, InShell, DmaTargetHeld
<1> QED BY <1>1, MemorySafety, PTL

\* The handler reads a header inside the buffer and its pad wherever rx_ptr has got to.
THEOREM HeaderBounds == Spec => []HeadersInBuffer
<1>1. ASSUME NEW a \in Nat, NEW b \in Nat, NEW r \in Nat, r < a PROVE r * b <= a * b
  BY <1>1
<1>2. ASSUME TypeOK PROVE ReadAt <= RX_BUF_SIZE /\ ReadAt \in Nat
  <2>1. rx_ptr \in Nat
    BY <1>2 DEF TypeOK
  <2>2. rx_ptr % A \in Nat /\ rx_ptr % A < A
    BY <2>1, ModRange, RtlAssumption
  <2>3. (rx_ptr % A) * B <= RX_BUF_SIZE
    BY <1>1, <2>2, RtlAssumption DEF RX_BUF_SIZE
  <2> QED BY <2>1, <2>3, Sizes, ReadAtType DEF ReadAt
<1>3. ASSUME MemInv PROVE HeadersInBuffer
  <2>1. ReadAt <= RX_BUF_SIZE /\ ReadAt \in Nat
    BY <1>2, <1>3 DEF MemInv
  <2>2. \A r, n, p \in Nat : r <= n /\ p >= 4 => r + 4 <= n + p
    OBVIOUS
  <2> QED BY <2>1, <2>2, Sizes, RtlAssumption DEF HeadersInBuffer
<1> QED BY <1>3, MemorySafety, PTL

-----------------------------------------------------------------------------
(* What a stop leaves behind *)

LEMMA NextList ==
    ASSUME ~Shared, TypeOK, Memory, Card, DeviceList, Next
    PROVE  DeviceList'
<1> USE DEF TypeOK, Memory, Card, Served, InShell, Places, DeviceList
<1>1. ASSUME NEW size \in PktSizes, Receive(size) PROVE DeviceList'
  BY <1>1 DEF Receive, driver, ring
<1>2. CASE RxPacket
  BY <1>2 DEF RxPacket, driver, ring
<1>3. CASE rtl_isr_handler
  BY <1>3 DEF rtl_isr_handler, driver, card, ring
<1>4. CASE RxDone
  BY <1>4 DEF RxDone, driver, card, ring
<1>5. CASE rtl_module_init
  BY <1>5 DEF rtl_module_init, TaskAt, driver, card, ring
<1>6. CASE AllocNetDev
  BY <1>6 DEF AllocNetDev, TaskAt, driver, card, ring
<1>7. CASE AllocRxBuf
  BY <1>7 DEF AllocRxBuf, TaskAt, driver, card, ring
<1>8. CASE register_net_dev
  BY <1>8 DEF register_net_dev, TaskAt, driver, card, ring
<1>9. CASE RequestIrq
  BY <1>9 DEF RequestIrq, TaskAt, driver, card, ring
<1>10. CASE CleanAndFail
  BY <1>10 DEF CleanAndFail, TaskAt, kfree, driver, card, ring
<1>11. CASE HardwareReset
  BY <1>11 DEF HardwareReset, TaskAt, driver, card, ring
<1>12. CASE EnableReceiver
  BY <1>12 DEF EnableReceiver, TaskAt, driver, card, ring
<1>13. CASE SetBuffer
  BY <1>13 DEF SetBuffer, TaskAt, driver, card, ring
<1>14. CASE EnableIrqs
  BY <1>14 DEF EnableIrqs, TaskAt, driver, card, ring
<1>15. CASE rtl_module_kill
  BY <1>15 DEF rtl_module_kill, TaskAt, driver, card, ring
<1>16. CASE MaskIrqs
  BY <1>16 DEF MaskIrqs, TaskAt, driver, card, ring
<1>17. CASE ReleaseIrq
  BY <1>17 DEF ReleaseIrq, TaskAt, driver, card, ring
<1>18. CASE remove_net_dev
  <2>1. net_dev_list = <<rtl_net_dev>>
    BY <1>18 DEF remove_net_dev, TaskAt
  <2>2. net_dev_list' = RemoveAt(net_dev_list, 1)
    BY <1>18, <2>1 DEF remove_net_dev, Listed
  <2>3. net_dev_list' = <<>>
    BY <2>1, <2>2 DEF RemoveAt
  <2> QED BY <1>18, <2>3 DEF remove_net_dev, TaskAt, driver, card, ring
<1>19. CASE FreeRxBuf
  BY <1>19 DEF FreeRxBuf, TaskAt, kfree, driver, card, ring
<1> QED BY <1>1, <1>2, <1>3, <1>4, <1>5, <1>6, <1>7, <1>8, <1>9, <1>10, <1>11, <1>12, <1>13, <1>14, <1>15, <1>16, <1>17, <1>18, <1>19 DEF Next

\* On a line of its own a stopped driver holds no memory and has no device in the list,
\* also after a failed start (rtl8139.c:248-251, 272-279).
THEOREM StopsClean == ~Shared => (Spec => []CleanWhenStopped)
<1> SUFFICES ASSUME ~Shared PROVE Spec => []CleanWhenStopped
  OBVIOUS
<1>1. Init => MemInv /\ DeviceList
  BY InitMem DEF Init, DeviceList, Served, InShell
<1>2. ASSUME MemInv, DeviceList, [Next]_vars PROVE DeviceList'
  <2>1. CASE Next
    BY <1>2, <2>1, NextList DEF MemInv
  <2>2. CASE UNCHANGED vars
    BY <1>2, <2>2 DEF DeviceList, Served, InShell, vars, driver, card, ring
  <2> QED BY <1>2, <2>1, <2>2
<1>3. MemInv /\ DeviceList => CleanWhenStopped
  BY DEF MemInv, Memory, DeviceList, Served, InShell, CleanWhenStopped
<1> QED BY <1>1, <1>2, <1>3, MemorySafety, PTL DEF Spec

-----------------------------------------------------------------------------
(* The ring, until the card goes round it *)

\* While the handler has not lost its place it reads a header or is at the card's position.
LEMMA HandlerAt ==
    ASSUME TypeOK, Contiguous, ~lost
    PROVE  /\ ReadAt = rx_ptr
           /\ rx_ptr = cbr \/ \E p \in headers : Reads(p)
<1>1. cbr \in Nat /\ cbr < RX_BUF_SIZE /\ rx_ptr \in Nat /\ RX_BUF_SIZE \in Nat
  BY Sizes DEF TypeOK
<1>2. ASSUME NEW p \in headers PROVE p.at < cbr
  <2>1. p.at \in Nat /\ p.size \in Nat /\ p.at + Stored(p.size) <= cbr
    BY DEF TypeOK, Packets, Contiguous
  <2>2. Stored(p.size) \in Nat /\ Stored(p.size) > 0
    BY <2>1, StoredType
  <2> QED BY <1>1, <2>1, <2>2
<1>3. rx_ptr = cbr \/ \E p \in headers : p.at = rx_ptr
  BY DEF Contiguous, Starts
<1>4. rx_ptr < RX_BUF_SIZE
  BY <1>1, <1>2, <1>3
<1>5. ReadAt = rx_ptr
  BY <1>1, <1>4 DEF ReadAt
<1> QED BY <1>3, <1>5 DEF Contiguous, Reads

\* A packet that is read leads to the next one or to the card's position.
LEMMA ReadKeepsContiguous ==
    ASSUME TypeOK, Contiguous, RxPacket
    PROVE  Contiguous'
<1>1. UNCHANGED <<cbr, headers, rx_buf>>
  BY DEF RxPacket, ring, driver
<1>2. ASSUME ~lost' PROVE rx_ptr' = cbr \/ Starts(rx_ptr')
  <2>1. ~lost /\ ReadAt # cbr
    BY <1>2 DEF RxPacket
  <2>2. \E p \in headers : Reads(p)
    BY <2>1, HandlerAt
  <2>3. PICK p \in headers : Reads(p) /\ rx_ptr' = Advance(ReadAt, p.size)
    BY <2>2 DEF RxPacket
  <2>4. /\ p.at = ReadAt /\ p.at \in Nat /\ p.size \in Nat /\ p.at % 4 = 0
        /\ p.at + Stored(p.size) <= cbr
        /\ p.at + Stored(p.size) = cbr \/ Starts(p.at + Stored(p.size))
    BY <2>3 DEF TypeOK, Packets, Contiguous, Reads
  <2>5. p.at + Stored(p.size) < RX_BUF_SIZE
    <3>1. cbr \in Nat /\ cbr < RX_BUF_SIZE /\ RX_BUF_SIZE \in Nat /\ Stored(p.size) \in Nat
      BY <2>4, Sizes, StoredType DEF TypeOK
    <3> QED BY <2>4, <3>1
  <2>6. rx_ptr' = p.at + Stored(p.size)
    BY <2>3, <2>4, <2>5, AdvanceByStored
  <2> QED BY <2>4, <2>6
<1> QED BY <1>1, <1>2 DEF Contiguous, Starts

\* A packet the card adds follows the last one and overwrites none.
LEMMA StoreKeepsContiguous ==
    ASSUME TypeOK, Contiguous, rbstart = rx_buf, NEW size \in PktSizes,
           cbr + Stored(size) < RX_BUF_SIZE,
           headers' = {p \in headers : p.base = rbstart => p.at \notin cbr .. (cbr + Stored(size)) - 1}
                      \cup {Header(size)},
           cbr' = (cbr + Stored(size)) % RX_BUF_SIZE,
           UNCHANGED <<rx_ptr, rx_buf, lost>>
    PROVE  Contiguous'
<1>1. /\ cbr \in Nat /\ size \in Nat /\ Stored(size) \in Nat
      /\ Header(size).base = rx_buf /\ Header(size).at = cbr /\ Header(size).size = size
  BY CardType
<1>2. cbr' = cbr + Stored(size) /\ cbr % 4 = 0 /\ cbr' % 4 = 0
  <2>1. \A a, b, c \in Nat : a + b < c => a + b \in 0 .. c - 1
    OBVIOUS
  <2>2. cbr + Stored(size) \in 0 .. RX_BUF_SIZE - 1
    BY <1>1, <2>1, Sizes
  <2>3. cbr' = cbr + Stored(size) /\ cbr % 4 = 0
    BY <2>2, Sizes, ModSmall DEF Contiguous
  <2>4. \A a, b \in Nat : a % 4 = 0 /\ b % 4 = 0 => (a + b) % 4 = 0
    OBVIOUS
  <2> QED BY <1>1, <2>3, <2>4, StoredType
<1>3. ASSUME NEW p \in headers
      PROVE  p.at \in Nat /\ p.size \in Nat /\ Stored(p.size) \in Nat /\ p.at < cbr
  <2>1. p.at \in Nat /\ p.size \in Nat /\ p.at + Stored(p.size) <= cbr
    BY DEF TypeOK, Packets, Contiguous
  <2>2. Stored(p.size) \in Nat /\ Stored(p.size) > 0
    BY <2>1, StoredType
  <2> QED BY <1>1, <2>1, <2>2
<1>4. headers' = headers \cup {Header(size)}
  <2>1. ASSUME NEW p \in headers PROVE p.at \notin cbr .. (cbr + Stored(size)) - 1
    BY <1>1, <1>3
  <2> QED BY <2>1
<1>5. ASSUME NEW at PROVE Starts(at) \/ at = cbr => Starts(at)'
  BY <1>1, <1>4 DEF Starts
<1>6. ASSUME NEW p \in headers'
      PROVE  /\ p.base = rx_buf /\ p.at % 4 = 0
             /\ p.at + Stored(p.size) <= cbr'
             /\ p.at + Stored(p.size) = cbr' \/ Starts(p.at + Stored(p.size))'
  <2>1. CASE p = Header(size)
    BY <1>1, <1>2, <2>1
  <2>2. CASE p \in headers
    <3>1. /\ p.base = rx_buf /\ p.at % 4 = 0 /\ p.at + Stored(p.size) <= cbr
          /\ p.at + Stored(p.size) = cbr \/ Starts(p.at + Stored(p.size))
      BY <2>2 DEF Contiguous
    <3>2. p.at + Stored(p.size) <= cbr'
      <4>1. \A a, b, d \in Nat : a <= b => a <= b + d
        OBVIOUS
      <4>2. p.at + Stored(p.size) \in Nat
        BY <1>3, <2>2
      <4> QED BY <1>1, <1>2, <3>1, <4>1, <4>2
    <3> QED BY <1>5, <3>1, <3>2
  <2> QED BY <1>4, <2>1, <2>2
<1>7. ~lost' => rx_ptr' = cbr' \/ Starts(rx_ptr)'
  BY <1>5 DEF Contiguous, Starts
<1> QED BY <1>2, <1>6, <1>7 DEF Contiguous, Starts

LEMMA NextRing ==
    ASSUME TypeOK, Memory, Card, Ring, Next
    PROVE  Ring'
<1> DEFINE Same == UNCHANGED <<rx_ptr, headers, cbr, rx_buf, lost>>
<1>0. Contiguous /\ Same => Contiguous'
  BY DEF Contiguous, Starts
<1>1. ASSUME NEW size \in PktSizes, Receive(size) PROVE Ring'
  <2>1. re /\ UNCHANGED <<rx_ptr, rx_buf, task, started, lost>>
    BY <1>1 DEF Receive, driver
  <2>2. InShell \/ task \in {"rbstart", "imr"}
    BY <2>1 DEF Card
  <2>3. ASSUME Contiguous, ~wrapped', ~early' PROVE Contiguous'
    <3>1. CASE UNCHANGED ring
      BY <1>0, <2>1, <2>3, <3>1 DEF ring
    <3>2. CASE ~UNCHANGED ring
      <4> DEFINE end == cbr + Stored(size)
      <4>1. /\ headers' = {p \in headers : p.base = rbstart => p.at \notin cbr .. end - 1} \cup {Header(size)}
            /\ cbr' = end % RX_BUF_SIZE
            /\ wrapped' = (wrapped \/ end >= RX_BUF_SIZE)
            /\ early' = (early \/ rbstart = Null)
        BY <1>1, <3>2 DEF Receive
      <4>2. rbstart = rx_buf /\ ~(end >= RX_BUF_SIZE)
        BY <2>1, <2>3, <4>1 DEF Card
      <4>3. end < RX_BUF_SIZE
        <5>1. end \in Nat
          BY CardType
        <5>2. \A a, c \in Nat : ~(a >= c) => a < c
          OBVIOUS
        <5> QED BY <4>2, <5>1, <5>2, Sizes
      <4> QED BY <2>1, <2>3, <4>1, <4>2, <4>3, StoreKeepsContiguous
    <3> QED BY <3>1, <3>2
  <2>4. (~wrapped' => ~wrapped) /\ (~early' => ~early)
    <3>1. \/ UNCHANGED <<wrapped, early>>
          \/ /\ wrapped' = (wrapped \/ cbr + Stored(size) >= RX_BUF_SIZE)
             /\ early' = (early \/ rbstart = Null)
      BY <1>1 DEF Receive, ring
    <3>2. CASE UNCHANGED <<wrapped, early>>
      BY <3>2
    <3>3. CASE /\ wrapped' = (wrapped \/ cbr + Stored(size) >= RX_BUF_SIZE)
               /\ early' = (early \/ rbstart = Null)
      BY <3>3
    <3> QED BY <3>1, <3>2, <3>3
  <2> QED BY <2>1, <2>2, <2>3, <2>4 DEF Ring, InShell
<1>2. CASE RxPacket
  <2>1. InShell \/ task = "mask"
    BY <1>2 DEF RxPacket, Card
  <2>2. UNCHANGED <<started, task, wrapped, early>>
    BY <1>2 DEF RxPacket, driver, ring
  <2>3. Contiguous => Contiguous'
    BY <1>2, ReadKeepsContiguous
  <2> QED BY <2>1, <2>2, <2>3 DEF Ring, InShell
<1> USE DEF Ring, InShell, Memory, Card, Served
<1>3. CASE rtl_isr_handler
  BY <1>3, <1>0 DEF rtl_isr_handler, driver, card, ring
<1>4. CASE RxDone
  BY <1>4, <1>0 DEF RxDone, driver, card, ring
<1>5. CASE rtl_module_init
  BY <1>5, <1>0 DEF rtl_module_init, TaskAt, driver, card, ring
<1>6. CASE AllocNetDev
  BY <1>6, <1>0 DEF AllocNetDev, TaskAt, driver, card, ring
<1>7. CASE AllocRxBuf
  BY <1>7, <1>0 DEF AllocRxBuf, TaskAt, driver, card, ring
<1>8. CASE register_net_dev
  BY <1>8, <1>0 DEF register_net_dev, TaskAt, driver, card, ring
<1>9. CASE RequestIrq
  BY <1>9, <1>0 DEF RequestIrq, TaskAt, driver, card, ring
<1>10. CASE CleanAndFail
  BY <1>10, <1>0 DEF CleanAndFail, TaskAt, kfree, driver, card, ring
<1>11. CASE HardwareReset
  <2>1. rx_ptr' = 0 /\ cbr' = 0 /\ headers' = {} /\ task' = "enable"
    BY <1>11 DEF HardwareReset, TaskAt
  <2>2. Contiguous'
    BY <2>1 DEF Contiguous
  <2> QED BY <2>1, <2>2
<1>12. CASE EnableReceiver
  BY <1>12, <1>0 DEF EnableReceiver, TaskAt, driver, card, ring
<1>13. CASE SetBuffer
  BY <1>13, <1>0 DEF SetBuffer, TaskAt, driver, card, ring
<1>14. CASE EnableIrqs
  BY <1>14, <1>0 DEF EnableIrqs, TaskAt, driver, card, ring
<1>15. CASE rtl_module_kill
  BY <1>15, <1>0 DEF rtl_module_kill, TaskAt, driver, card, ring
<1>16. CASE MaskIrqs
  BY <1>16, <1>0 DEF MaskIrqs, TaskAt, driver, card, ring
<1>17. CASE ReleaseIrq
  BY <1>17, <1>0 DEF ReleaseIrq, TaskAt, driver, card, ring
<1>18. CASE remove_net_dev
  BY <1>18, <1>0 DEF remove_net_dev, TaskAt, kfree, driver, card, ring
<1>19. CASE FreeRxBuf
  BY <1>19, <1>0 DEF FreeRxBuf, TaskAt, kfree, driver, card, ring
<1> QED BY <1>1, <1>2, <1>3, <1>4, <1>5, <1>6, <1>7, <1>8, <1>9, <1>10, <1>11, <1>12, <1>13, <1>14, <1>15, <1>16, <1>17, <1>18, <1>19 DEF Next

\* What rtl_isr_handler takes for a header is one, packet after packet, until a frame came
\* before RBSTART was written, the card has gone round the ring, or the handler has got to
\* where the card writes next and read on (rtl8139.c:94-153): whatever the card makes of CAPR.
THEOREM ReadsHeaders == Spec => []HeadersReal
<1>1. Init => Ring
  BY DEF Init, Ring, InShell
<1>2. ASSUME MemInv, Ring, [Next]_vars PROVE Ring'
  <2>1. CASE Next
    BY <1>2, <2>1, NextRing DEF MemInv
  <2>2. CASE UNCHANGED vars
    BY <1>2, <2>2 DEF Ring, InShell, Contiguous, Starts, vars, driver, card, ring
  <2> QED BY <1>2, <2>1, <2>2
<1>3. ASSUME MemInv, Ring PROVE HeadersReal
  <2> SUFFICES ASSUME isr = "rx", ~early, ~wrapped, ~lost, ReadAt # cbr PROVE HeaderRead
    BY DEF HeadersReal, Turns
  <2>1. Contiguous /\ TypeOK
    BY <1>3 DEF MemInv, Card, Ring
  <2> QED BY <2>1, HandlerAt DEF HeaderRead
<1> QED BY <1>1, <1>2, <1>3, MemorySafety, PTL DEF Spec

=============================================================================
