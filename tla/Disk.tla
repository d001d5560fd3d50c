-------------------------------- MODULE Disk --------------------------------
(***************************************************************************)
(* Disks: the ATA driver drivers/ata_pio.c, started and stopped by the     *)
(* shell, and the drive and volume lists of kernel/disk.c it registers     *)
(* with.  The owners of heap memory are what matters: a drive_t, its       *)
(* private structure and its volumes are <<slot, kind>> in held.           *)
(*                                                                         *)
(* One step is one turn of a loop over the drives.  Nothing else runs in   *)
(* this code; what varies is what the hardware answers and which           *)
(* allocations fail.  volume_t.mounted is set by nothing in the code.      *)
(* Once memory that was freed has been reused, nothing more is said.       *)
(***************************************************************************)
EXTENDS Naturals, SequencesExt

CONSTANTS
    Slots,    \* the places identify looks at; the rest of drives[] is always 0
    Parts,    \* the partitions of an MBR
    M         \* 2^32, the modulus of next_drive_id

ASSUME DiskAssumption == Slots \in Nat \ {0} /\ M \in Nat /\ M >= Slots

Slot == 1 .. Slots

VARIABLES
    started,
    drives,         \* drives[i] is not null
    lba48,          \* drives[i]->readcallback is ata_lba48_read
    child_volumes,  \* drives[i]->child_volumes, as the set of their partitions
    drive_list,     \* the registered drives: slot and drive_id
    next_drive_id,
    held,           \* what is allocated
    at,             \* the call in progress and the drive it has come to
    good, fail,     \* the locals of ata_module_init and ata_module_kill
    wild            \* freed memory that has a new owner, or none, was written or freed

vars == <<started, drives, lba48, child_volumes, drive_list, next_drive_id, held, at, good, fail, wild>>

Drive(i) == <<"drive_t", i>>
Priv(i) == <<"ata_priv_t", i>>
Lost(i) == <<"lost", i>>        \* an ata_priv_t that nothing points to
Volumes(i, parts) == {<<"volume_t", i, p>> : p \in parts}
Shell == <<"shell", 0>>

Init ==
    /\ started = FALSE
    /\ drives = [i \in Slot |-> FALSE]
    /\ lba48 = [i \in Slot |-> FALSE]
    /\ child_volumes = [i \in Slot |-> {}]
    /\ drive_list = <<>>
    /\ next_drive_id = 0
    /\ held = {}
    /\ at = Shell
    /\ good = FALSE /\ fail = FALSE /\ wild = FALSE

At(call, i) == ~wild /\ at = <<call, i>>

\* The next turn of a loop, or what comes after it.
Turn(call, i, after) == at' = IF i < Slots THEN <<call, i + 1>> ELSE after

-----------------------------------------------------------------------------
(* ata_module_init *)

ata_module_init ==
    /\ ~wild /\ at = Shell /\ ~started
    /\ at' = <<"identify", 1>>
    /\ good' = FALSE
    /\ UNCHANGED <<started, drives, lba48, child_volumes, drive_list, next_drive_id, held, fail, wild>>

\* No drive, not an ATA drive, no serial number, or no memory: all is freed, and 0.
NotFound(i) ==
    /\ At("identify", i)
    /\ drives' = [drives EXCEPT ![i] = FALSE]
    /\ UNCHANGED <<lba48, child_volumes, held>>

\* A drive_t and an ata_priv_t; LBA48, or CHS whose read callback always fails.
Found(i) ==
    /\ At("identify", i)
    /\ drives' = [drives EXCEPT ![i] = TRUE]
    /\ lba48' \in {[lba48 EXCEPT ![i] = b] : b \in BOOLEAN}
    /\ child_volumes' = [child_volumes EXCEPT ![i] = {}]
    /\ held' = held \cup {Drive(i), Priv(i)}

identify(i) ==
    /\ NotFound(i) \/ Found(i)
    /\ Turn("identify", i, <<"register", 1>>)
    /\ UNCHANGED <<started, drive_list, next_drive_id, good, fail, wild>>

-----------------------------------------------------------------------------
(* register_drive, and what ata_module_init does with its answer *)

\* kfree(drives[i]): the one pointer to its private structure is gone with it.
WithoutDrive(i, h) == (h \ {Drive(i), Priv(i)}) \cup {Lost(i)}

\* parse_mbr reads no sector, or one without the signature: no id, no volumes.
BadMbr(i) ==
    /\ held' = WithoutDrive(i, held)
    /\ UNCHANGED <<next_drive_id, child_volumes>>

\* Mutant: the volumes made before the failure are not freed.
MutNoMemory(i) ==
    /\ lba48[i]
    /\ \E parts \in SUBSET Parts \ {Parts} :
          /\ child_volumes' = [child_volumes EXCEPT ![i] = parts]
          /\ held' = WithoutDrive(i, held \cup Volumes(i, parts))
    /\ next_drive_id' = (next_drive_id + 1) % M

\* kmalloc fails for a volume: the ones before it are freed by register_drive, and the
\* drive by its caller; child_volumes and drives[i] keep pointing there.
NoMemory(i) ==
    /\ lba48[i]
    /\ \E parts \in SUBSET Parts \ {Parts} : child_volumes' = [child_volumes EXCEPT ![i] = parts]
    /\ held' = WithoutDrive(i, held)
    /\ next_drive_id' = (next_drive_id + 1) % M

\* Both fail: register_drive returns 1.
NotRegistered(i) ==
    /\ BadMbr(i) \/ NoMemory(i)
    /\ UNCHANGED <<drive_list, good>>

\* A volume for every partition in use; the drive goes to the end of the list.
Registered(i) ==
    /\ lba48[i]
    /\ \E parts \in SUBSET Parts :
          /\ child_volumes' = [child_volumes EXCEPT ![i] = parts]
          /\ held' = held \cup Volumes(i, parts)
    /\ drive_list' = Append(drive_list, [slot |-> i, id |-> next_drive_id])
    /\ next_drive_id' = (next_drive_id + 1) % M
    /\ good' = TRUE

NoDrive(i) ==
    /\ ~drives[i]
    /\ UNCHANGED <<child_volumes, held, next_drive_id, drive_list, good>>

register_drive(i) ==
    /\ At("register", i)
    /\ NoDrive(i) \/ (drives[i] /\ (NotRegistered(i) \/ Registered(i)))
    /\ Turn("register", i, <<"started", 0>>)
    /\ UNCHANGED <<started, drives, lba48, fail, wild>>

\* Fail if nothing was registered.
InitReturns ==
    /\ At("started", 0)
    /\ started' = good
    /\ at' = Shell
    /\ UNCHANGED <<drives, lba48, child_volumes, drive_list, next_drive_id, held, good, fail, wild>>

-----------------------------------------------------------------------------
(* ata_module_kill and remove_drive *)

ata_module_kill ==
    /\ ~wild /\ at = Shell /\ started
    /\ at' = <<"remove", 1>>
    /\ fail' = FALSE
    /\ UNCHANGED <<started, drives, lba48, child_volumes, drive_list, next_drive_id, held, good, wild>>

\* The drive is taken out of the list.
Unlink(i) ==
    \E k \in DOMAIN drive_list :
       /\ drive_list[k].slot = i /\ \A j \in 1 .. k - 1 : drive_list[j].slot # i
       /\ drive_list' = RemoveAt(drive_list, k)

\* Mutant: the drive is freed but stays in the list.
MutUnlinked(i) ==
    /\ Drive(i) \in held
    /\ held' = held \ (Volumes(i, child_volumes[i]) \cup {Drive(i), Priv(i)})
    /\ drives' = [drives EXCEPT ![i] = FALSE]
    /\ UNCHANGED <<drive_list, fail, wild>>

\* Mutant: drives[i] is not cleared.
MutCleared(i) ==
    /\ Drive(i) \in held
    /\ Unlink(i)
    /\ held' = held \ (Volumes(i, child_volumes[i]) \cup {Drive(i), Priv(i)})
    /\ UNCHANGED <<drives, fail, wild>>

\* The drive is registered: its volumes, private structure and itself are freed.
Removed(i) ==
    /\ Drive(i) \in held
    /\ Unlink(i)
    /\ held' = held \ (Volumes(i, child_volumes[i]) \cup {Drive(i), Priv(i)})
    /\ drives' = [drives EXCEPT ![i] = FALSE]
    /\ UNCHANGED <<fail, wild>>

\* The drive was not registered and drives[i] points to freed memory: remove_drive walks
\* what is there, which may be as it was left, and does not find the drive in the list.
NotRemoved(i) ==
    /\ Drive(i) \notin held
    /\ fail' = TRUE
    /\ wild' \in BOOLEAN
    /\ UNCHANGED <<drive_list, held, drives>>

remove_drive(i) ==
    /\ At("remove", i)
    /\ \/ ~drives[i] /\ UNCHANGED <<drive_list, held, drives, fail, wild>>
       \/ drives[i] /\ (Removed(i) \/ NotRemoved(i))
    /\ Turn("remove", i, <<"stopped", 0>>)
    /\ UNCHANGED <<started, lba48, child_volumes, next_drive_id, good>>

KillReturns ==
    /\ At("stopped", 0)
    /\ started' = fail
    /\ at' = Shell
    /\ UNCHANGED <<drives, lba48, child_volumes, drive_list, next_drive_id, held, good, fail, wild>>

Next ==
    \/ ata_module_init \/ InitReturns \/ ata_module_kill \/ KillReturns
    \/ \E i \in Slot : identify(i) \/ register_drive(i) \/ remove_drive(i)

Spec == Init /\ [][Next]_vars

-----------------------------------------------------------------------------
(* Properties *)

Listed == {drive_list[k].slot : k \in DOMAIN drive_list}

\* What disk_print_info walks is allocated: every drive in the list, its private structure
\* and its volumes; and no two drives in the list have the same id or place, across any
\* number of starts, failed registrations and stops.
ListedHeld ==
    /\ \A i \in Listed : {Drive(i), Priv(i)} \cup Volumes(i, child_volumes[i]) \subseteq held
    /\ \A j, k \in DOMAIN drive_list :
          j # k => /\ drive_list[j].slot # drive_list[k].slot
                   /\ drive_list[j].id # drive_list[k].id

\* While the driver is stopped no drive is registered and nothing is left allocated, however
\* its start failed, but what is already lost: ata_pio.c:310 frees the drive_t of a drive
\* that could not be registered and not its private structure.
StoppedHoldsNothing ==
    at = Shell /\ ~started => drive_list = <<>> /\ held \subseteq {Lost(i) : i \in Slot}

\* ata_module_kill stops the driver, unless drives[] holds a drive that it had failed to
\* register when it started (ata_pio.c:308-312).
StopsWhenRegistered ==
    [][KillReturns => started' = \E i \in Slot : drives[i] /\ Drive(i) \notin held]_vars

\* ata_pio.c:358, "if there's still a drive registered, continue running": and only then.
RunsOnlyWithDrives == started /\ at = Shell => drive_list # <<>>
=============================================================================
