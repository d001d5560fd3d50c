------------------------------- MODULE MCBoot -------------------------------
(***************************************************************************)
(* Boot for TLC.  Memory is 4 frames of 4 bytes, a large page is two       *)
(* frames, and the kernel is in frame 1.  The memory maps are shaped like  *)
(* a PC's: low memory and extended memory with a hole between, and one     *)
(* region that is all of memory.                                           *)
(***************************************************************************)
EXTENDS Boot

Region(addr, len) == [addr |-> addr, len |-> len]

PCMaps ==
    { {Region(0, 3), Region(4, 4)},
      {Region(0, 16)} }

\* The registers of a function: its ids, class, header type and line.
Function(vendor, device, header, line) ==
    [r \in Registers |-> CASE r = 0 -> vendor [] r = 2 -> device [] r = 10 -> 1 [] r = 11 -> 2
                           [] r = 14 -> header [] r = 60 -> line [] OTHER -> 0]

\* A bridge, and two network cards on different buses.
Machine1 == [s \in {<<0, 0, 0>>, <<0, 1, 0>>, <<1, 1, 0>>} |->
                IF s = <<0, 0, 0>> THEN Function(1, 1, 1, 0) ELSE Function(1, 2, 0, 1 + s[1])]

\* A device with functions 0 and 2, and one that has no function 0.
Machine2 == [s \in {<<0, 1, 0>>, <<0, 1, 2>>, <<1, 0, 1>>} |->
                IF s = <<0, 1, 0>> THEN Function(2, 1, Base \div 2, 1) ELSE Function(1, 2, 0, 2)]

PCMachines == {Machine1, Machine2}
NetworkCard == <<1, 2>>
=============================================================================
