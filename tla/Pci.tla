-------------------------------- MODULE Pci --------------------------------
(***************************************************************************)
(* PCI configuration space as arch/i386/pci.c reaches it: an address and a *)
(* data port, four bytes at a time, from which one- and two-byte registers *)
(* are cut; the scan of pci_init; and pci_search.                          *)
(*                                                                         *)
(* A function is <<bus, dev, func>>.  A byte has Base values, 256 on the   *)
(* machine; 0x80 is Base \div 2 and 0xFFFF is Base^2 - 1.  Bit 31 of the   *)
(* address, always set, is left out.                                       *)
(***************************************************************************)
EXTENDS Integers, Sequences, FiniteSets

CONSTANTS
    Base,                \* values of a byte
    Buses, Devs, Funcs,  \* 256, 32 and 8
    Machines,            \* what may be plugged in: for each function its registers
    Driven,              \* the vendor and device id a driver looks for
    PciValues,           \* bytes that it writes
    MaxLost              \* how many allocations of the scan may fail

CFG_W_VENDORID == 0
CFG_W_DEVICEID == 2
CFG_W_COMMAND == 4
CFG_W_STATUS == 6
CFG_B_SUBCLASSID == 10
CFG_B_CLASSID == 11
CFG_B_HEADERTYPE == 14
CFG0_B_INTLINE == 60
Registers == (0 .. 15) \cup (60 .. 63)

Slots == (0 .. Buses - 1) \X (0 .. Devs - 1) \X (0 .. Funcs - 1)

ASSUME PciAssumption ==
    /\ Base \in {8, 16, 32, 64, 128, 256}
    /\ Buses \in 1 .. 256 /\ Devs \in 1 .. 32 /\ Funcs \in 1 .. 8
    /\ \A space \in Machines : /\ DOMAIN space \subseteq Slots
                               /\ \A s \in DOMAIN space :  \* 0xFFFF is nobody's vendor id
                                     /\ space[s] \in [Registers -> 0 .. Base - 1]
                                     /\ space[s][0] # Base - 1 \/ space[s][1] # Base - 1
    /\ MaxLost \in Nat /\ PciValues \subseteq 0 .. Base - 1

VARIABLES
    space,         \* the registers of the functions that are there
    pci_dev_list,
    scan,          \* the function pci_init probes next, or <<>>
    lost           \* ghost: the functions there was no memory for

pciVars == <<space, pci_dev_list, scan, lost>>

PciInit ==
    /\ space \in Machines
    /\ pci_dev_list = <<>>
    /\ scan = <<0, 0, 0>>
    /\ lost = {}

-----------------------------------------------------------------------------
(* The ports *)

calc_pci_addr(s, offset) == s[1] * 65536 + s[2] * 2048 + s[3] * 256 + (offset - (offset % 4))

\* How the host bridge reads the address.
Selected(addr) == <<addr \div 65536, (addr \div 2048) % 32, (addr \div 256) % 8>>

\* Nobody answering reads as all ones.
pci_readl(s, offset) ==
    LET f == Selected(calc_pci_addr(s, offset))
        r == calc_pci_addr(s, offset) % 256
    IN  IF f \in DOMAIN space
        THEN space[f][r] + Base * (space[f][r + 1] + Base * (space[f][r + 2] + Base * space[f][r + 3]))
        ELSE Base ^ 4 - 1

WordShift(offset) == Base ^ (2 * ((offset \div 2) % 2))
ByteShift(offset) == Base ^ (offset % 4)

pci_readw(s, offset) == (pci_readl(s, offset) \div WordShift(offset)) % (Base ^ 2)
pci_readb(s, offset) == (pci_readl(s, offset) \div ByteShift(offset)) % Base

\* What a device does with a byte: it keeps the command and the interrupt line, clears
\* the bits of the status that are written as ones, and ignores the rest.
Bit(n, k) == (n \div (2 ^ k)) % 2
Stored(r, old, byte) ==
    CASE r \in {CFG_W_COMMAND, CFG_W_COMMAND + 1, CFG0_B_INTLINE} -> byte
      [] r \in {CFG_W_STATUS, CFG_W_STATUS + 1} ->
            CHOOSE n \in 0 .. Base - 1 :
                \A k \in 0 .. 7 : Bit(n, k) = (IF Bit(byte, k) = 1 THEN 0 ELSE Bit(old, k))
      [] OTHER -> old

pci_writel(s, offset, value) ==
    LET f == Selected(calc_pci_addr(s, offset))
        r == calc_pci_addr(s, offset) % 256
    IN  space' = [space EXCEPT ![f] = [x \in Registers |->
                    IF x \in r .. r + 3 THEN Stored(x, @[x], (value \div (Base ^ (x - r))) % Base) ELSE @[x]]]

\* Mutant: the bytes that are not meant are written as zeroes.
MutMerge(t, shift, width, value) == value * shift

\* (t & mask) | s.
Merge(t, shift, width, value) == t - ((t \div shift) % width) * shift + value * shift

pci_writew(s, offset, value) ==
    pci_writel(s, offset, Merge(pci_readl(s, offset), WordShift(offset), Base ^ 2, value))
pci_writeb(s, offset, value) ==
    pci_writel(s, offset, Merge(pci_readl(s, offset), ByteShift(offset), Base, value))

-----------------------------------------------------------------------------
(* The scan *)

Record(s) ==
    [slot |-> s,
     vendorid |-> pci_readw(s, CFG_W_VENDORID), deviceid |-> pci_readw(s, CFG_W_DEVICEID),
     class |-> pci_readb(s, CFG_B_CLASSID), subclass |-> pci_readb(s, CFG_B_SUBCLASSID),
     headertype |-> pci_readb(s, CFG_B_HEADERTYPE),
     intline |-> IF pci_readb(s, CFG_B_HEADERTYPE) = 0 THEN pci_readb(s, CFG0_B_INTLINE) ELSE 0]

Answers(s) == pci_readw(s, CFG_W_VENDORID) # Base ^ 2 - 1
MultiFunction(s) == pci_readb(s, CFG_B_HEADERTYPE) >= Base \div 2

NextDevice(s) ==
    CASE s[2] + 1 < Devs -> <<s[1], s[2] + 1, 0>>
      [] s[2] + 1 = Devs /\ s[1] + 1 < Buses -> <<s[1] + 1, 0, 0>>
      [] OTHER -> <<>>

\* Mutant: the other functions are probed only if the device has a function 1.
MutNextSlot(s) ==
    IF Answers(s) /\ MultiFunction(<<s[1], s[2], 0>>) /\ s[3] + 1 < Funcs
    THEN <<s[1], s[2], s[3] + 1>>
    ELSE NextDevice(s)

\* The other functions are probed only if function 0 answers and says it has more.
NextSlot(s) ==
    IF Answers(<<s[1], s[2], 0>>) /\ MultiFunction(<<s[1], s[2], 0>>) /\ s[3] + 1 < Funcs
    THEN <<s[1], s[2], s[3] + 1>>
    ELSE NextDevice(s)

\* kmalloc may fail, and the function is passed over.
add_pci_dev(s) ==
    \/ pci_dev_list' = Append(pci_dev_list, Record(s)) /\ UNCHANGED lost
    \/ Cardinality(lost) < MaxLost /\ lost' = lost \cup {s} /\ UNCHANGED pci_dev_list

\* One probe of the loops of pci_init.
Probe ==
    /\ scan # <<>>
    /\ scan' = NextSlot(scan)
    /\ IF Answers(scan) THEN add_pci_dev(scan) ELSE UNCHANGED <<pci_dev_list, lost>>
    /\ UNCHANGED space

pci_search(vendorid, deviceid) ==
    {p \in DOMAIN pci_dev_list :
        /\ pci_dev_list[p].vendorid = vendorid /\ pci_dev_list[p].deviceid = deviceid
        /\ \A q \in 1 .. p - 1 : pci_dev_list[q].vendorid # vendorid \/ pci_dev_list[q].deviceid # deviceid}

-----------------------------------------------------------------------------
(* After boot *)

\* c | 0x04.
BusMaster(s) ==
    LET c == pci_readw(s, CFG_W_COMMAND) IN IF Bit(c, 2) = 1 THEN c ELSE c + 4

\* A driver finds its device, if it is there, and makes it a bus master; or writes one
\* byte, for which the interface is there and no driver uses it yet.
DriverWrites ==
    /\ \E p \in pci_search(Driven[1], Driven[2]) :
         \/ pci_writew(pci_dev_list[p].slot, CFG_W_COMMAND, BusMaster(pci_dev_list[p].slot))
         \/ \E value \in PciValues : pci_writeb(pci_dev_list[p].slot, CFG_W_COMMAND + 1, value)
    /\ UNCHANGED <<pci_dev_list, scan, lost>>

\* The device reports an event in the high byte of its status.
DeviceStatus ==
    /\ \E p \in pci_search(Driven[1], Driven[2]) :
          space' = [space EXCEPT ![pci_dev_list[p].slot][CFG_W_STATUS + 1] = 1]
    /\ UNCHANGED <<pci_dev_list, scan, lost>>

-----------------------------------------------------------------------------
(* Properties *)

\* The functions a PCI scan must find: function 0 of each device, and the others of a
\* device whose function 0 has the multifunction bit.
Installed ==
    {s \in DOMAIN space :
        s[3] = 0 \/ (<<s[1], s[2], 0>> \in DOMAIN space
                     /\ space[<<s[1], s[2], 0>>][CFG_B_HEADERTYPE] >= Base \div 2)}

Before(s, t) ==
    \/ s[1] < t[1]
    \/ s[1] = t[1] /\ (s[2] < t[2] \/ (s[2] = t[2] /\ s[3] < t[3]))

\* When the loops of pci_init end, the list holds every installed function there was
\* memory for, once, in the order of bus, device and function (pci_search takes the first
\* match), with the function's own registers in the record.
ScanFindsAll ==
    LET found == [p \in DOMAIN pci_dev_list |-> pci_dev_list[p].slot]
        own(s, r) == space[s][r]
        ownw(s, r) == own(s, r) + Base * own(s, r + 1)
    IN  /\ scan = <<>> => {found[p] : p \in DOMAIN found} = Installed \ lost
        /\ \A p, q \in DOMAIN found : p < q => Before(found[p], found[q])
        /\ \A p \in DOMAIN found :
              /\ found[p] \in DOMAIN space
              /\ pci_dev_list[p].vendorid = ownw(found[p], CFG_W_VENDORID)
              /\ pci_dev_list[p].deviceid = ownw(found[p], CFG_W_DEVICEID)
              /\ pci_dev_list[p].class = own(found[p], CFG_B_CLASSID)
              /\ pci_dev_list[p].headertype = own(found[p], CFG_B_HEADERTYPE)

\* The registers of s from offset on hold value, and nothing else of any device has
\* changed, but that status bits of s may have been cleared.
Changes(s, offset, width, value) ==
    /\ \A x \in 0 .. width - 1 : space'[s][offset + x] = (value \div (Base ^ x)) % Base
    /\ \A t \in DOMAIN space : \A r \in Registers :
          space'[t][r] # space[t][r] =>
              /\ s = t
              /\ \/ r \in offset .. offset + width - 1
                 \/ r \in CFG_W_STATUS .. CFG_W_STATUS + 1 /\ space'[t][r] < space[t][r]

\* A one- or two-byte write, made of a read and a write of four bytes, changes the
\* register it names on the device it names, and disturbs only that device's status.
WritesInPlace ==
    [][space' # space => \A s \in Installed \ lost, v \in PciValues :
         /\ pci_writew(s, CFG_W_COMMAND, BusMaster(s)) => Changes(s, CFG_W_COMMAND, 2, BusMaster(s))
         /\ pci_writeb(s, CFG_W_COMMAND + 1, v) => Changes(s, CFG_W_COMMAND + 1, 1, v)]_pciVars

\* pci.c:99, pci_writew(pdev, offset, value): the bytes of the register and no others.
\* (A write of the command writes the status back, which clears it.)
StatusKept ==
    [][\A s \in DOMAIN space :
          space'[s][CFG_W_STATUS + 1] < space[s][CFG_W_STATUS + 1] =>
              space'[s][CFG_W_COMMAND] = space[s][CFG_W_COMMAND]]_pciVars

\* pci.c:62: a device with a header of type 0 has its interrupt line in its record. (The
\* test leaves out those with the multifunction bit.)
LineKnown ==
    \A p \in DOMAIN pci_dev_list :
        pci_dev_list[p].headertype % (Base \div 2) = 0 =>
            pci_dev_list[p].intline = space[pci_dev_list[p].slot][CFG0_B_INTLINE]
=============================================================================
