----------------------------- MODULE DiskProofs -----------------------------
(***************************************************************************)
(* Proofs about the ATA driver and the drive list, for every number of     *)
(* drives and partitions and every width of next_drive_id.                 *)
(***************************************************************************)
EXTENDS Disk, TLAPS

Calls == {"shell", "identify", "register", "started", "remove", "stopped"}
Entries == [slot : Slot, id : 0 .. M - 1]

TypeOK ==
    /\ started \in BOOLEAN /\ good \in BOOLEAN /\ fail \in BOOLEAN
    /\ drives \in [Slot -> BOOLEAN]
    /\ child_volumes \in [Slot -> SUBSET Parts]
    /\ drive_list \in Seq(Entries)
    /\ next_drive_id \in 0 .. M - 1
    /\ at \in Calls \X (0 .. Slots)
    /\ at[1] \in {"identify", "register", "remove"} => at[2] \in Slot

-----------------------------------------------------------------------------
(* The inductive invariants *)

\* The places whose drive_t is allocated, and what belongs to one.
Live == {i \in Slot : Drive(i) \in held}
Mine(i) == {Drive(i), Priv(i)} \cup Volumes(i, child_volumes[i])

\* Everything allocated belongs to an allocated drive_t or is lost.
Owned ==
    /\ \A x \in held : (\E i \in Slot : x = Lost(i)) \/ (\E i \in Live : x \in Mine(i))
    /\ \A i \in Live : drives[i] /\ Mine(i) \subseteq held

\* Which drives are in the list, at each place of the task.
Lists ==
    /\ at = Shell /\ ~started => drive_list = <<>> /\ Live = {}
    /\ at = Shell /\ started => Listed = Live
    /\ at[1] = "identify" =>
         /\ drive_list = <<>>
         /\ \A i \in Live : i < at[2] /\ child_volumes[i] = {}
         /\ \A i \in Slot : i < at[2] /\ drives[i] => i \in Live
    /\ at[1] = "register" =>
         /\ Listed = {i \in Live : i < at[2]}
         /\ \A i \in Slot : i >= at[2] /\ drives[i] => i \in Live /\ child_volumes[i] = {}
         /\ ~good => drive_list = <<>>
    /\ at[1] = "started" => Listed = Live /\ (~good => drive_list = <<>>)
    /\ at[1] = "remove" =>
         /\ Listed = Live
         /\ \A i \in Live : i >= at[2]
         /\ fail <=> \E i \in Slot : i < at[2] /\ drives[i]
    /\ at[1] = "stopped" => /\ Listed = {} /\ Live = {}
                            /\ fail <=> \E i \in Slot : drives[i]
    /\ at[1] = "shell" => at = Shell

\* How many ids parse_mbr has given out since it gave this one, if less than M.
Age(id, next) == IF id < next THEN next - id ELSE next + M - id

\* No two drives in the list have the same place or id.
Distinct ==
    \A j, k \in DOMAIN drive_list :
       j # k => drive_list[j].slot # drive_list[k].slot /\ drive_list[j].id # drive_list[k].id

\* The ids in the list are of this start, so they have not come round.
Recent ==
    at[1] = "register" => \A k \in DOMAIN drive_list : Age(drive_list[k].id, next_drive_id) < at[2]

IInv == TypeOK /\ Owned /\ Lists /\ Distinct /\ Recent

-----------------------------------------------------------------------------
(* The owners of memory *)

LEMMA Objects ==
    /\ \A i, j \in Slot : Drive(i) = Drive(j) => i = j
    /\ \A i, j \in Slot : Priv(i) = Priv(j) => i = j
    /\ \A i, j \in Slot : Drive(i) # Priv(j) /\ Drive(i) # Lost(j) /\ Priv(i) # Lost(j)
    /\ \A i, j \in Slot, s \in SUBSET Parts :
         Drive(i) \notin Volumes(j, s) /\ Priv(i) \notin Volumes(j, s) /\ Lost(i) \notin Volumes(j, s)
    /\ \A i, j \in Slot, s, t \in SUBSET Parts :
         i # j => Volumes(i, s) \cap Volumes(j, t) = {}
    /\ \A i \in Slot : Volumes(i, {}) = {}
BY DEF Drive, Priv, Lost, Volumes

LEMMA ListedDef ==
    ASSUME NEW i
    PROVE  i \in Listed <=> \E k \in DOMAIN drive_list : drive_list[k].slot = i
BY DEF Listed

LEMMA MineDisjoint ==
    ASSUME TypeOK, NEW i \in Slot, NEW j \in Slot, i # j
    PROVE  Mine(i) \cap Mine(j) = {} /\ Drive(i) \notin Mine(j)
<1>1. child_volumes[i] \in SUBSET Parts /\ child_volumes[j] \in SUBSET Parts
  BY DEF TypeOK
<1> QED BY <1>1, Objects DEF Mine

LEMMA LostNotMine ==
    ASSUME TypeOK, NEW i \in Slot, NEW j \in Slot
    PROVE  Lost(i) \notin Mine(j)
<1>1. child_volumes[j] \in SUBSET Parts
  BY DEF TypeOK
<1> QED BY <1>1, Objects DEF Mine

\* What belongs to one drive is freed, or lost; the others stay as they are.
LEMMA FreeOne ==
    ASSUME TypeOK, Owned, NEW i \in Slot,
           \A x \in held' : x \in held \ Mine(i) \/ x = Lost(i),
           held \ Mine(i) \subseteq held',
           \A j \in Slot \ {i} : child_volumes'[j] = child_volumes[j] /\ drives'[j] = drives[j]
    PROVE  Owned' /\ Live' = Live \ {i}
<1>1. \A j \in Slot \ {i} : Mine(j)' = Mine(j)
  BY DEF Mine
<1>2. \A j \in Slot \ {i} : Drive(j) \in held' <=> Drive(j) \in held
  BY MineDisjoint, Objects
<1>3. Drive(i) \notin held'
  BY Objects DEF Mine
<1>4. Live' = Live \ {i}
  BY <1>2, <1>3 DEF Live
<1>5. ASSUME NEW x \in held'
      PROVE  (\E j \in Slot : x = Lost(j)) \/ (\E j \in Live' : x \in Mine(j)')
  <2>1. CASE x = Lost(i)
    BY <2>1
  <2>2. CASE x \in held \ Mine(i)
    BY <1>1, <1>4, <2>2 DEF Owned, Live
  <2> QED BY <2>1, <2>2
<1>6. ASSUME NEW j \in Live' PROVE drives'[j] /\ Mine(j)' \subseteq held'
  <2>1. j \in Live /\ j \in Slot \ {i}
    BY <1>4, <1>6 DEF Live
  <2>2. drives[j] /\ Mine(j) \subseteq held /\ Mine(i) \cap Mine(j) = {}
    BY <2>1, MineDisjoint DEF Owned
  <2> QED BY <1>1, <2>1, <2>2
<1> QED BY <1>4, <1>5, <1>6 DEF Owned

\* One drive has been given more memory, all of it its own.
LEMMA GrowOne ==
    ASSUME TypeOK, Owned, NEW i \in Slot,
           held' = held \cup Mine(i)', drives'[i],
           i \in Live => Mine(i) \subseteq Mine(i)',
           child_volumes'[i] \in SUBSET Parts,
           \A j \in Slot \ {i} : child_volumes'[j] = child_volumes[j] /\ drives'[j] = drives[j]
    PROVE  Owned' /\ Live' = Live \cup {i}
<1>1. \A j \in Slot \ {i} : Mine(j)' = Mine(j)
  BY DEF Mine
<1>2. \A j \in Slot \ {i} : Drive(j) \notin Mine(i)'
  BY Objects DEF Mine
<1>3. Drive(i) \in Mine(i)'
  BY DEF Mine
<1>4. Live' = Live \cup {i}
  BY <1>2, <1>3 DEF Live
<1>5. ASSUME NEW x \in held'
      PROVE  (\E j \in Slot : x = Lost(j)) \/ (\E j \in Live' : x \in Mine(j)')
  <2>1. CASE x \in Mine(i)'
    BY <1>4, <2>1
  <2>2. CASE x \in held
    <3>1. CASE \E j \in Slot : x = Lost(j)
      BY <3>1
    <3>2. CASE \E j \in Live : x \in Mine(j)
      <4>1. PICK j \in Live : x \in Mine(j)
        BY <3>2
      <4>2. j \in Slot /\ j \in Live'
        BY <1>4 DEF Live
      <4>3. x \in Mine(j)'
        BY <1>1, <4>1, <4>2
      <4> QED BY <4>2, <4>3
    <3> QED BY <2>2, <3>1, <3>2 DEF Owned
  <2> QED BY <2>1, <2>2
<1>6. ASSUME NEW j \in Live' PROVE drives'[j] /\ Mine(j)' \subseteq held'
  <2>1. CASE j = i
    BY <2>1
  <2>2. CASE j # i
    <3>1. j \in Live /\ j \in Slot \ {i}
      BY <1>4, <1>6, <2>2 DEF Live
    <3> QED BY <1>1, <3>1 DEF Owned
  <2> QED BY <2>1, <2>2
<1> QED BY <1>4, <1>5, <1>6 DEF Owned

-----------------------------------------------------------------------------
(* The drive list *)

LEMMA RemoveAtFacts ==
    ASSUME NEW S, NEW q \in Seq(S), NEW k \in 1 .. Len(q)
    PROVE  /\ RemoveAt(q, k) \in Seq(S)
           /\ Len(RemoveAt(q, k)) = Len(q) - 1
           /\ \A j \in 1 .. Len(q) - 1 : RemoveAt(q, k)[j] = IF j < k THEN q[j] ELSE q[j + 1]
<1> DEFINE a == SubSeq(q, 1, k - 1)
           b == SubSeq(q, k + 1, Len(q))
<1>1. Len(q) \in Nat /\ k \in Nat
  OBVIOUS
<1>2. a \in Seq(S) /\ Len(a) = k - 1 /\ \A j \in 1 .. k - 1 : a[j] = q[j]
  BY <1>1
<1>3. b \in Seq(S) /\ Len(b) = Len(q) - k /\ \A j \in 1 .. Len(q) - k : b[j] = q[k + j]
  BY <1>1
<1>4. RemoveAt(q, k) = a \o b
  BY DEF RemoveAt
<1> HIDE DEF a, b
<1>5. a \o b \in Seq(S) /\ Len(a \o b) = Len(q) - 1
  <2>1. \A u, v \in Seq(S) : u \o v \in Seq(S) /\ Len(u \o v) = Len(u) + Len(v)
    OBVIOUS
  <2>2. Len(a \o b) = Len(a) + Len(b) /\ a \o b \in Seq(S)
    BY <1>2, <1>3, <2>1
  <2>3. (k - 1) + (Len(q) - k) = Len(q) - 1
    BY <1>1
  <2> QED BY <1>2, <1>3, <2>2, <2>3
<1>6. ASSUME NEW j \in 1 .. Len(q) - 1 PROVE (a \o b)[j] = IF j < k THEN q[j] ELSE q[j + 1]
  <2>1. CASE j < k
    <3>1. j \in 1 .. k - 1
      BY <1>1, <2>1
    <3>2. (a \o b)[j] = a[j]
      BY <1>2, <1>3, <3>1
    <3> QED BY <1>2, <2>1, <3>1, <3>2
  <2>2. CASE ~(j < k)
    <3>1. j - (k - 1) \in 1 .. Len(q) - k /\ k + (j - (k - 1)) = j + 1 /\ j > k - 1
      BY <1>1, <2>2
    <3>2. (a \o b)[j] = b[j - (k - 1)]
      BY <1>1, <1>2, <1>3, <3>1
    <3> QED BY <1>3, <2>2, <3>1, <3>2
  <2> QED BY <2>1, <2>2
<1> QED BY <1>4, <1>5, <1>6

LEMMA AppendList ==
    ASSUME TypeOK, Distinct, NEW i \in Slot, i \notin Listed, NEW n \in 0 .. M - 1,
           \A k \in DOMAIN drive_list : drive_list[k].id # n,
           drive_list' = Append(drive_list, [slot |-> i, id |-> n])
    PROVE  /\ Listed' = Listed \cup {i} /\ Distinct' /\ drive_list' \in Seq(Entries)
           /\ \A k \in DOMAIN drive_list' :
                drive_list'[k].id = n \/ \E j \in DOMAIN drive_list : drive_list'[k].id = drive_list[j].id
<1> DEFINE e == [slot |-> i, id |-> n]
<1>1. drive_list \in Seq(Entries) /\ Len(drive_list) \in Nat /\ DOMAIN drive_list = 1 .. Len(drive_list)
  BY DEF TypeOK
<1>2. e \in Entries /\ e.slot = i /\ e.id = n
  BY DEF Entries
<1> HIDE DEF e
<1>3. /\ drive_list' \in Seq(Entries) /\ DOMAIN drive_list' = 1 .. Len(drive_list) + 1
      /\ drive_list'[Len(drive_list) + 1] = e
      /\ \A k \in 1 .. Len(drive_list) : drive_list'[k] = drive_list[k]
  BY <1>1, <1>2 DEF e
<1>4. \A k \in DOMAIN drive_list' : drive_list'[k] = e \/ (k \in DOMAIN drive_list /\ drive_list'[k] = drive_list[k])
  BY <1>1, <1>3
<1>5. ASSUME NEW x PROVE x \in Listed' <=> x \in Listed \cup {i}
  <2>1. x \in Listed' <=> \E k \in DOMAIN drive_list' : drive_list'[k].slot = x
    BY DEF Listed
  <2>2. x \in Listed' => x \in Listed \cup {i}
    BY <1>2, <1>4, <2>1, ListedDef
  <2>3. x \in Listed => x \in Listed'
    <3>1. ASSUME NEW k \in DOMAIN drive_list PROVE k \in DOMAIN drive_list' /\ drive_list'[k] = drive_list[k]
      BY <1>1, <1>3
    <3> QED BY <2>1, <3>1, ListedDef
  <2>4. Len(drive_list) + 1 \in DOMAIN drive_list'
    BY <1>1, <1>3
  <2> QED BY <1>2, <1>3, <2>1, <2>2, <2>3, <2>4
<1>6. ASSUME NEW j \in DOMAIN drive_list', NEW k \in DOMAIN drive_list', j # k
      PROVE  drive_list'[j].slot # drive_list'[k].slot /\ drive_list'[j].id # drive_list'[k].id
  <2>1. CASE j \in DOMAIN drive_list /\ k \in DOMAIN drive_list
    BY <1>1, <1>3, <1>6, <2>1 DEF Distinct
  <2>2. CASE j \in DOMAIN drive_list /\ k = Len(drive_list) + 1
    BY <1>1, <1>2, <1>3, <2>2, ListedDef
  <2>3. CASE k \in DOMAIN drive_list /\ j = Len(drive_list) + 1
    BY <1>1, <1>2, <1>3, <2>3, ListedDef
  <2> QED BY <1>1, <1>3, <1>6, <2>1, <2>2, <2>3
<1>7. Distinct'
  BY <1>6 DEF Distinct
<1> QED BY <1>2, <1>3, <1>4, <1>5, <1>7

LEMMA RemoveList ==
    ASSUME TypeOK, Distinct, NEW i \in Slot, Unlink(i)
    PROVE  Listed' = Listed \ {i} /\ Distinct' /\ drive_list' \in Seq(Entries)
<1>1. drive_list \in Seq(Entries) /\ Len(drive_list) \in Nat /\ DOMAIN drive_list = 1 .. Len(drive_list)
  BY DEF TypeOK
<1>2. PICK k \in 1 .. Len(drive_list) : drive_list[k].slot = i /\ drive_list' = RemoveAt(drive_list, k)
  BY <1>1 DEF Unlink
<1> DEFINE At0(j) == IF j < k THEN j ELSE j + 1
<1>3. /\ drive_list' \in Seq(Entries) /\ DOMAIN drive_list' = 1 .. Len(drive_list) - 1
      /\ \A j \in 1 .. Len(drive_list) - 1 : drive_list'[j] = drive_list[At0(j)]
  <2>1. drive_list' \in Seq(Entries) /\ Len(drive_list') = Len(drive_list) - 1
    BY <1>1, <1>2, RemoveAtFacts
  <2>2. \A j \in 1 .. Len(drive_list) - 1 :
          drive_list'[j] = IF j < k THEN drive_list[j] ELSE drive_list[j + 1]
    BY <1>1, <1>2, RemoveAtFacts
  <2>3. DOMAIN drive_list' = 1 .. Len(drive_list')
    BY <2>1
  <2> QED BY <2>1, <2>2, <2>3
<1>4. \A j \in 1 .. Len(drive_list) - 1 : At0(j) \in 1 .. Len(drive_list) /\ At0(j) # k
  BY <1>1
<1>5. \A j, m \in 1 .. Len(drive_list) - 1 : j # m => At0(j) # At0(m)
  BY <1>1
<1>6. \A m \in 1 .. Len(drive_list) : m # k => \E j \in 1 .. Len(drive_list) - 1 : At0(j) = m
  <2> SUFFICES ASSUME NEW m \in 1 .. Len(drive_list), m # k
               PROVE  \E j \in 1 .. Len(drive_list) - 1 : At0(j) = m
    OBVIOUS
  <2>1. CASE m < k
    <3>1. m \in 1 .. Len(drive_list) - 1 /\ At0(m) = m
      BY <1>1, <2>1
    <3> QED BY <3>1
  <2>2. CASE m > k
    <3>1. m - 1 \in 1 .. Len(drive_list) - 1 /\ At0(m - 1) = m
      BY <1>1, <2>2
    <3> QED BY <3>1
  <2> QED BY <1>1, <2>1, <2>2
<1> HIDE DEF At0
<1>7. ASSUME NEW x PROVE x \in Listed' <=> x \in Listed \ {i}
  <2>1. x \in Listed' <=> \E j \in DOMAIN drive_list' : drive_list'[j].slot = x
    BY DEF Listed
  <2>2. ASSUME x \in Listed' PROVE x \in Listed /\ x # i
    <3>1. PICK j \in DOMAIN drive_list' : drive_list'[j].slot = x
      BY <2>1, <2>2
    <3>2. At0(j) \in DOMAIN drive_list /\ At0(j) # k
      BY <1>1, <1>3, <1>4, <3>1
    <3>3. drive_list[At0(j)].slot = x
      BY <1>3, <3>1
    <3>4. x # i
      BY <1>2, <3>2, <3>3 DEF Distinct
    <3> QED BY <3>2, <3>3, <3>4, ListedDef
  <2>3. ASSUME x \in Listed, x # i PROVE x \in Listed'
    <3>1. PICK m \in 1 .. Len(drive_list) : drive_list[m].slot = x
      BY <1>1, <2>3, ListedDef
    <3>2. PICK j \in 1 .. Len(drive_list) - 1 : At0(j) = m
      BY <1>2, <1>6, <2>3, <3>1
    <3> QED BY <1>3, <2>1, <3>1, <3>2
  <2> QED BY <2>2, <2>3
<1>8. ASSUME NEW j \in DOMAIN drive_list', NEW m \in DOMAIN drive_list', j # m
      PROVE  drive_list'[j].slot # drive_list'[m].slot /\ drive_list'[j].id # drive_list'[m].id
  <2>1. At0(j) \in DOMAIN drive_list /\ At0(m) \in DOMAIN drive_list /\ At0(j) # At0(m)
    BY <1>1, <1>3, <1>4, <1>5, <1>8
  <2> QED BY <1>3, <2>1 DEF Distinct
<1>9. Distinct'
  BY <1>8 DEF Distinct
<1> QED BY <1>3, <1>7, <1>9

-----------------------------------------------------------------------------
(* The ids *)

LEMMA NextId ==
    ASSUME NEW next \in 0 .. M - 1
    PROVE  /\ (next + 1) % M \in 0 .. M - 1
           /\ Age(next, next) = M /\ Age(next, (next + 1) % M) = 1
           /\ \A n \in 0 .. M - 1 :
                /\ Age(n, next) \in Nat
                /\ Age(n, next) < M => Age(n, (next + 1) % M) = Age(n, next) + 1
<1> DEFINE new == (next + 1) % M
<1>1. M \in Nat \ {0}
  BY DiskAssumption
<1>2. new = IF next = M - 1 THEN 0 ELSE next + 1
  <2>1. \A w \in Nat \ {0} : \A x \in 0 .. w - 1 : (x + 1) % w = IF x = w - 1 THEN 0 ELSE x + 1
    OBVIOUS
  <2> QED BY <1>1, <2>1
<1> HIDE DEF new
<1>3. new \in 0 .. M - 1
  BY <1>1, <1>2
<1>4. Age(next, next) = M
  BY <1>1 DEF Age
<1>5. ASSUME NEW n \in 0 .. M - 1 PROVE Age(n, next) \in Nat
  BY <1>1 DEF Age
<1>6. ASSUME NEW n \in 0 .. M - 1, Age(n, next) < M PROVE Age(n, new) = Age(n, next) + 1
  BY <1>1, <1>2, <1>6 DEF Age
<1>7. Age(next, new) = 1
  BY <1>1, <1>2 DEF Age
<1> QED BY <1>3, <1>4, <1>5, <1>6, <1>7 DEF new

LEMMA EntryFacts ==
    ASSUME NEW q \in Seq(Entries), NEW k \in DOMAIN q
    PROVE  q[k].slot \in Slot /\ q[k].id \in 0 .. M - 1
<1>1. q[k] \in Entries
  OBVIOUS
<1> QED BY <1>1 DEF Entries

-----------------------------------------------------------------------------
(* Invariance *)

LEMMA InitInv == Init => IInv
<1> SUFFICES ASSUME Init PROVE IInv
  OBVIOUS
<1>1. TypeOK
  <2>1. at \in Calls \X (0 .. Slots) /\ at[1] = "shell"
    BY DiskAssumption DEF Init, Shell, Calls
  <2>2. next_drive_id \in 0 .. M - 1
    BY DiskAssumption DEF Init
  <2>3. drives \in [Slot -> BOOLEAN] /\ child_volumes \in [Slot -> SUBSET Parts] /\ drive_list \in Seq(Entries)
    BY DEF Init
  <2> QED BY <2>1, <2>2, <2>3 DEF Init, TypeOK
<1>2. Owned /\ Distinct /\ Recent
  BY DEF Init, Owned, Live, Distinct, Recent
<1>3. Lists
  BY DEF Init, Lists, Live, Shell
<1> QED BY <1>1, <1>2, <1>3 DEF IInv

\* The calls that only move the task on.
LEMMA CallsInv ==
    ASSUME IInv, ata_module_init \/ InitReturns \/ ata_module_kill \/ KillReturns
    PROVE  IInv'
<1> USE DEF IInv
<1>1. UNCHANGED <<drives, child_volumes, drive_list, next_drive_id, held>>
  BY DEF ata_module_init, InitReturns, ata_module_kill, KillReturns
<1>2. Live' = Live /\ Listed' = Listed /\ Distinct'
  BY <1>1 DEF Live, Listed, Distinct
<1>3. Owned'
  BY <1>1, <1>2 DEF Owned, Mine
<1>4. TypeOK'
  <2>1. at' \in {<<"identify", 1>>, <<"remove", 1>>, Shell}
    BY DEF ata_module_init, InitReturns, ata_module_kill, KillReturns
  <2>2. 1 \in Slot /\ 1 \in 0 .. Slots /\ 0 \in 0 .. Slots
    BY DiskAssumption DEF Slot
  <2>3. at' \in Calls \X (0 .. Slots) /\ (at'[1] \in {"identify", "register", "remove"} => at'[2] \in Slot)
    BY <2>1, <2>2 DEF Shell, Calls
  <2>4. started' \in BOOLEAN /\ good' \in BOOLEAN /\ fail' \in BOOLEAN
    BY DEF TypeOK, ata_module_init, InitReturns, ata_module_kill, KillReturns
  <2> QED BY <1>1, <2>3, <2>4 DEF TypeOK
<1>5. Recent'
  BY DEF Recent, Shell, ata_module_init, InitReturns, ata_module_kill, KillReturns
<1>6. drive_list = <<>> => Listed = {}
  BY DEF Listed
<1>7. Listed = {} => drive_list = <<>>
  <2>1. \A q \in Seq(Entries) : q # <<>> => 1 \in DOMAIN q
    OBVIOUS
  <2> QED BY <2>1, ListedDef DEF TypeOK
<1>8. CASE ata_module_init
  <2>1. at' = <<"identify", 1>> /\ drive_list' = <<>> /\ Live' = {} /\ 1 \in Slot
    BY <1>1, <1>2, <1>8, DiskAssumption DEF ata_module_init, Lists, Slot
  <2>2. \A i \in Slot : ~(i < 1)
    BY DEF Slot
  <2>3. Lists'
    BY <2>1, <2>2 DEF Lists, Shell
  <2> QED BY <1>2, <1>3, <1>4, <1>5, <2>3
<1>9. CASE InitReturns
  <2>1. at[1] = "started" /\ at' = Shell /\ started' = good
    BY <1>9 DEF InitReturns, At
  <2>2. Listed = Live /\ (~good => drive_list = <<>>)
    BY <2>1 DEF Lists
  <2>3. Lists'
    BY <1>1, <1>2, <1>6, <2>1, <2>2 DEF Lists, Shell
  <2> QED BY <1>2, <1>3, <1>4, <1>5, <2>3
<1>10. CASE ata_module_kill
  <2>1. at' = <<"remove", 1>> /\ Listed = Live /\ fail' = FALSE
    BY <1>10 DEF ata_module_kill, Lists
  <2>2. \A i \in Slot : ~(i < 1) /\ i >= 1
    BY DEF Slot
  <2>3. Lists'
    BY <1>2, <2>1, <2>2 DEF Lists, Shell, Live
  <2> QED BY <1>2, <1>3, <1>4, <1>5, <2>3
<1>11. CASE KillReturns
  <2>1. at[1] = "stopped" /\ at' = Shell
    BY <1>11 DEF KillReturns, At
  <2>2. Listed = {} /\ Live = {} /\ drive_list = <<>>
    BY <1>7, <2>1 DEF Lists
  <2>3. Lists'
    BY <1>1, <1>2, <2>1, <2>2 DEF Lists, Shell
  <2> QED BY <1>2, <1>3, <1>4, <1>5, <2>3
<1> QED BY <1>8, <1>9, <1>10, <1>11

LEMMA TurnType ==
    ASSUME NEW call \in {"identify", "register", "remove"}, NEW i \in Slot,
           NEW after \in {"register", "started", "stopped"},
           NEW n \in {0, 1}, after = "register" => n = 1,
           Turn(call, i, <<after, n>>)
    PROVE  /\ at' \in Calls \X (0 .. Slots)
           /\ at'[1] \in {"identify", "register", "remove"} => at'[2] \in Slot
           /\ i < Slots => at' = <<call, i + 1>>
           /\ i >= Slots => at' = <<after, n>> /\ i = Slots
           /\ i \in Nat /\ i >= 1 /\ i <= Slots
<1>1. Slots \in Nat /\ Slots >= 1 /\ i \in Nat /\ i >= 1 /\ i <= Slots /\ 1 \in Slot
  BY DiskAssumption DEF Slot
<1>2. CASE i < Slots
  <2>1. at' = <<call, i + 1>> /\ i + 1 \in Slot /\ i + 1 \in 0 .. Slots
    BY <1>1, <1>2 DEF Turn, Slot
  <2> QED BY <1>1, <1>2, <2>1 DEF Calls
<1>3. CASE i >= Slots
  <2>1. at' = <<after, n>> /\ i = Slots /\ n \in 0 .. Slots
    BY <1>1, <1>3 DEF Turn
  <2> QED BY <1>1, <1>3, <2>1 DEF Calls
<1> QED BY <1>1, <1>2, <1>3

LEMMA IdentifyInv ==
    ASSUME IInv, NEW i \in Slot, identify(i)
    PROVE  IInv'
<1> USE DEF IInv
<1>1. /\ at = <<"identify", i>> /\ UNCHANGED <<started, drive_list, next_drive_id, good, fail>>
      /\ Turn("identify", i, <<"register", 1>>)
  BY DEF identify, NotFound, Found, At
<1>2. /\ drive_list = <<>> /\ Listed = {}
      /\ \A j \in Live : j < i /\ child_volumes[j] = {}
      /\ \A j \in Slot : j < i /\ drives[j] => j \in Live
  BY <1>1 DEF Lists, Listed
<1>3. i \notin Live
  BY <1>2 DEF Slot
<1>4. /\ at' \in Calls \X (0 .. Slots)
      /\ at'[1] \in {"identify", "register", "remove"} => at'[2] \in Slot
      /\ i < Slots => at' = <<"identify", i + 1>>
      /\ i >= Slots => at' = <<"register", 1>> /\ i = Slots
      /\ i \in Nat /\ i >= 1 /\ i <= Slots
  BY <1>1, TurnType
<1>5. /\ Owned'
      /\ \A j \in Live' : j <= i /\ child_volumes'[j] = {}
      /\ \A j \in Slot : j <= i /\ drives'[j] => j \in Live'
      /\ drives' \in [Slot -> BOOLEAN] /\ child_volumes' \in [Slot -> SUBSET Parts]
  <2>1. CASE NotFound(i)
    <3>1. /\ UNCHANGED <<child_volumes, held>> /\ drives' = [drives EXCEPT ![i] = FALSE]
          /\ drives \in [Slot -> BOOLEAN] /\ child_volumes \in [Slot -> SUBSET Parts]
      BY <2>1 DEF NotFound, TypeOK
    <3>2. Live' = Live
      BY <3>1 DEF Live
    <3>3. \A j \in Slot \ {i} : drives'[j] = drives[j]
      BY <3>1
    <3>4. Owned'
      BY <1>3, <3>1, <3>2, <3>3 DEF Owned, Mine, Live
    <3>5. \A j \in Live' : j <= i /\ child_volumes'[j] = {}
      BY <1>2, <1>4, <3>1, <3>2 DEF Live, Slot
    <3>6. \A j \in Slot : j <= i /\ drives'[j] => j \in Live'
      BY <1>2, <1>4, <3>1, <3>2 DEF Slot
    <3> QED BY <3>1, <3>4, <3>5, <3>6
  <2>2. CASE Found(i)
    <3>1. /\ drives' = [drives EXCEPT ![i] = TRUE]
          /\ child_volumes' = [child_volumes EXCEPT ![i] = {}]
          /\ held' = held \cup {Drive(i), Priv(i)}
          /\ drives \in [Slot -> BOOLEAN] /\ child_volumes \in [Slot -> SUBSET Parts]
      BY <2>2 DEF Found, TypeOK
    <3>2. /\ drives'[i] /\ child_volumes'[i] = {}
          /\ \A j \in Slot \ {i} : child_volumes'[j] = child_volumes[j] /\ drives'[j] = drives[j]
          /\ drives' \in [Slot -> BOOLEAN] /\ child_volumes' \in [Slot -> SUBSET Parts]
      BY <3>1
    <3>3. Mine(i)' = {Drive(i), Priv(i)}
      BY <3>2, Objects DEF Mine
    <3>4. Owned' /\ Live' = Live \cup {i}
      BY <1>3, <3>1, <3>2, <3>3, GrowOne
    <3>5. \A j \in Live' : j <= i /\ child_volumes'[j] = {}
      BY <1>2, <1>4, <3>2, <3>4 DEF Live, Slot
    <3>6. \A j \in Slot : j <= i /\ drives'[j] => j \in Live'
      BY <1>2, <1>4, <3>2, <3>4 DEF Slot
    <3> QED BY <3>2, <3>4, <3>5, <3>6
  <2> QED BY <2>1, <2>2 DEF identify
<1>6. TypeOK'
  BY <1>1, <1>4, <1>5 DEF TypeOK
<1>7. drive_list' = <<>> /\ Listed' = {} /\ Distinct' /\ Recent'
  BY <1>1, <1>2 DEF Listed, Distinct, Recent
<1>8. Lists'
  <2>1. CASE i < Slots
    <3>1. at' = <<"identify", i + 1>>
      BY <1>4, <2>1
    <3>2. \A j \in Slot : j <= i <=> j < i + 1
      BY <1>4 DEF Slot
    <3> QED BY <1>5, <1>7, <3>1, <3>2 DEF Lists, Shell, Live
  <2>2. CASE i >= Slots
    <3>1. at' = <<"register", 1>> /\ \A j \in Slot : j <= i /\ ~(j < 1)
      BY <1>4, <2>2 DEF Slot
    <3> QED BY <1>5, <1>7, <3>1 DEF Lists, Shell, Live
  <2> QED BY <1>4, <2>1, <2>2, DiskAssumption
<1> QED BY <1>5, <1>6, <1>7, <1>8

LEMMA RemoveInv ==
    ASSUME IInv, NEW i \in Slot, remove_drive(i)
    PROVE  IInv'
<1> USE DEF IInv
<1>1. /\ at = <<"remove", i>> /\ UNCHANGED <<started, child_volumes, next_drive_id, good>>
      /\ Turn("remove", i, <<"stopped", 0>>)
  BY DEF remove_drive, At
<1>2. /\ Listed = Live
      /\ \A j \in Live : j >= i
      /\ fail <=> \E j \in Slot : j < i /\ drives[j]
  BY <1>1 DEF Lists
<1>3. /\ at' \in Calls \X (0 .. Slots)
      /\ at'[1] \in {"identify", "register", "remove"} => at'[2] \in Slot
      /\ i < Slots => at' = <<"remove", i + 1>>
      /\ i >= Slots => at' = <<"stopped", 0>> /\ i = Slots
      /\ i \in Nat /\ i >= 1 /\ i <= Slots
  BY <1>1, TurnType
<1>4. /\ Owned' /\ Distinct' /\ drive_list' \in Seq(Entries)
      /\ drives' \in [Slot -> BOOLEAN] /\ fail' \in BOOLEAN
      /\ Listed' = Live' /\ Live' \subseteq Live \ {i}
      /\ fail' <=> \E j \in Slot : j <= i /\ drives'[j]
  <2>1. /\ drives \in [Slot -> BOOLEAN] /\ fail \in BOOLEAN /\ drive_list \in Seq(Entries)
        /\ \A j \in Slot : j <= i <=> (j < i \/ j = i)
    BY <1>3 DEF TypeOK, Slot
  <2>2. CASE ~drives[i] /\ UNCHANGED <<drive_list, held, drives, fail>>
    <3>1. Live' = Live /\ Listed' = Listed /\ Distinct' /\ i \notin Live
      BY <2>2 DEF Live, Listed, Distinct, Owned
    <3>2. Owned'
      BY <1>1, <2>2, <3>1 DEF Owned, Mine
    <3> QED BY <1>2, <2>1, <2>2, <3>1, <3>2
  <2>3. CASE drives[i] /\ Removed(i)
    <3>1. /\ Unlink(i) /\ held' = held \ Mine(i) /\ drives' = [drives EXCEPT ![i] = FALSE]
          /\ fail' = fail
      BY <2>3 DEF Removed, Mine
    <3>2. /\ ~drives'[i] /\ drives' \in [Slot -> BOOLEAN]
          /\ \A j \in Slot \ {i} : drives'[j] = drives[j]
      BY <2>1, <3>1
    <3>3. Owned' /\ Live' = Live \ {i}
      BY <1>1, <3>1, <3>2, FreeOne
    <3>4. Listed' = Listed \ {i} /\ Distinct' /\ drive_list' \in Seq(Entries)
      BY <3>1, RemoveList
    <3>5. fail' <=> \E j \in Slot : j <= i /\ drives'[j]
      <4>1. \A j \in Slot : j < i => j # i
        BY <1>3 DEF Slot
      <4> QED BY <1>2, <2>1, <3>1, <3>2, <4>1
    <3> QED BY <1>2, <2>1, <3>1, <3>2, <3>3, <3>4, <3>5
  <2>4. CASE drives[i] /\ NotRemoved(i)
    <3>1. i \notin Live /\ fail' = TRUE /\ UNCHANGED <<drive_list, held, drives>>
      BY <2>4 DEF NotRemoved, Live
    <3>2. Live' = Live /\ Listed' = Listed /\ Distinct'
      BY <3>1 DEF Live, Listed, Distinct
    <3>3. Owned'
      BY <1>1, <3>1, <3>2 DEF Owned, Mine
    <3>4. \E j \in Slot : j <= i /\ drives'[j]
      BY <1>3, <2>4, <3>1
    <3> QED BY <1>2, <2>1, <3>1, <3>2, <3>3, <3>4
  <2> QED BY <2>2, <2>3, <2>4 DEF remove_drive
<1>5. TypeOK'
  BY <1>1, <1>3, <1>4 DEF TypeOK
<1>6. Recent'
  BY <1>3, DiskAssumption DEF Recent
<1>7. Lists'
  <2>1. CASE i < Slots
    <3>1. at' = <<"remove", i + 1>>
      BY <1>3, <2>1
    <3>2. \A j \in Slot : (j <= i <=> j < i + 1) /\ (j >= i /\ j # i => j >= i + 1)
      BY <1>3 DEF Slot
    <3>3. \A j \in Live' : j \in Slot /\ j >= i + 1
      BY <1>2, <1>4, <3>2 DEF Live
    <3> QED BY <1>4, <3>1, <3>2, <3>3 DEF Lists, Shell
  <2>2. CASE i >= Slots
    <3>1. at' = <<"stopped", 0>> /\ \A j \in Slot : j <= i /\ (j >= i => j = i)
      BY <1>3, <2>2 DEF Slot
    <3>2. Live' = {}
      BY <1>2, <1>4, <3>1 DEF Live
    <3> QED BY <1>4, <3>1, <3>2 DEF Lists, Shell
  <2> QED BY <1>3, <2>1, <2>2, DiskAssumption
<1> QED BY <1>4, <1>5, <1>6, <1>7

LEMMA RegisterInv ==
    ASSUME IInv, NEW i \in Slot, register_drive(i)
    PROVE  IInv'
<1> USE DEF IInv
<1>1. /\ at = <<"register", i>> /\ UNCHANGED <<started, drives, fail>>
      /\ Turn("register", i, <<"started", 0>>)
  BY DEF register_drive, At
<1>2. /\ Listed = {j \in Live : j < i}
      /\ \A j \in Slot : j >= i /\ drives[j] => j \in Live /\ child_volumes[j] = {}
      /\ ~good => drive_list = <<>>
      /\ \A k \in DOMAIN drive_list : Age(drive_list[k].id, next_drive_id) < i
  BY <1>1 DEF Lists, Recent
<1>3. /\ at' \in Calls \X (0 .. Slots)
      /\ at'[1] \in {"identify", "register", "remove"} => at'[2] \in Slot
      /\ i < Slots => at' = <<"register", i + 1>>
      /\ i >= Slots => at' = <<"started", 0>> /\ i = Slots
      /\ i \in Nat /\ i >= 1 /\ i <= Slots
  BY <1>1, TurnType
<1>4. /\ drives \in [Slot -> BOOLEAN] /\ child_volumes \in [Slot -> SUBSET Parts] /\ good \in BOOLEAN
      /\ drive_list \in Seq(Entries) /\ next_drive_id \in 0 .. M - 1
      /\ \A k \in DOMAIN drive_list : drive_list[k].id \in 0 .. M - 1
  BY EntryFacts DEF TypeOK
<1>5. M \in Nat /\ Slots \in Nat /\ M >= Slots /\ i \notin Listed
  BY <1>2, <1>3, DiskAssumption
<1>6. ASSUME NEW k \in DOMAIN drive_list
      PROVE  LET a == Age(drive_list[k].id, next_drive_id)
                 b == Age(drive_list[k].id, (next_drive_id + 1) % M)
             IN  a \in Nat /\ a < M /\ a < i + 1 /\ b < i + 1
  <2> DEFINE a == Age(drive_list[k].id, next_drive_id)
             b == Age(drive_list[k].id, (next_drive_id + 1) % M)
  <2>1. a \in Nat /\ (a < M => b = a + 1)
    BY <1>4, <1>6, NextId
  <2>2. a < i
    BY <1>2, <1>6
  <2> HIDE DEF a, b
  <2>3. a \in Nat /\ a < M /\ a < i + 1 /\ b < i + 1
    BY <1>3, <1>5, <2>1, <2>2
  <2> QED BY <2>3 DEF a, b
<1> DEFINE After ==
        /\ Owned' /\ Distinct' /\ drive_list' \in Seq(Entries)
        /\ child_volumes' \in [Slot -> SUBSET Parts] /\ next_drive_id' \in 0 .. M - 1 /\ good' \in BOOLEAN
        /\ Listed' = {j \in Live' : j <= i}
        /\ \A j \in Slot : j > i /\ drives[j] => j \in Live' /\ child_volumes'[j] = {}
        /\ ~good' => drive_list' = <<>>
        /\ \A k \in DOMAIN drive_list' : Age(drive_list'[k].id, next_drive_id') < i + 1
<1>7. After
  <2>0. \A j \in Slot : (j <= i <=> (j < i \/ j = i)) /\ (j > i => j >= i /\ j # i) /\ (j < i => j # i)
    BY <1>3 DEF Slot
  <2>1. CASE NoDrive(i)
    <3>1. ~drives[i] /\ UNCHANGED <<child_volumes, held, next_drive_id, drive_list, good>>
      BY <2>1 DEF NoDrive
    <3>2. Live' = Live /\ Listed' = Listed /\ Distinct' /\ i \notin Live
      BY <3>1 DEF Live, Listed, Distinct, Owned
    <3>3. Owned'
      BY <1>1, <3>1, <3>2 DEF Owned, Mine
    <3>4. Listed' = {j \in Live' : j <= i}
      BY <1>2, <2>0, <3>2 DEF Live
    <3>5. \A k \in DOMAIN drive_list' : Age(drive_list'[k].id, next_drive_id') < i + 1
      BY <1>6, <3>1
    <3>6. \A j \in Slot : j > i /\ drives[j] => j \in Live' /\ child_volumes'[j] = {}
      BY <1>2, <2>0, <3>1, <3>2
    <3> QED BY <1>2, <1>4, <3>1, <3>2, <3>3, <3>4, <3>5, <3>6
  <2>2. CASE drives[i] /\ NotRegistered(i)
    <3>1. /\ i \in Live /\ child_volumes[i] = {} /\ Mine(i) = {Drive(i), Priv(i)}
      <4>1. i >= i
        BY <1>3
      <4> QED BY <1>2, <2>2, <4>1, Objects DEF Mine
    <3>2. /\ held' = WithoutDrive(i, held) /\ UNCHANGED <<drive_list, good>>
          /\ child_volumes' \in [Slot -> SUBSET Parts]
          /\ \A j \in Slot \ {i} : child_volumes'[j] = child_volumes[j]
      BY <1>4, <2>2 DEF NotRegistered, BadMbr, NoMemory
    <3>3. /\ \A x \in held' : x \in held \ Mine(i) \/ x = Lost(i)
          /\ held \ Mine(i) \subseteq held'
      BY <3>1, <3>2 DEF WithoutDrive
    <3>4. Owned' /\ Live' = Live \ {i}
      BY <1>1, <3>2, <3>3, FreeOne
    <3>5. Listed' = Listed /\ Distinct'
      BY <3>2 DEF Listed, Distinct
    <3>6. Listed' = {j \in Live' : j <= i}
      BY <1>2, <2>0, <3>4, <3>5 DEF Live
    <3>7. /\ next_drive_id' \in 0 .. M - 1
          /\ \A k \in DOMAIN drive_list' : Age(drive_list'[k].id, next_drive_id') < i + 1
      <4>1. CASE next_drive_id' = next_drive_id
        BY <1>4, <1>6, <3>2, <4>1
      <4>2. CASE next_drive_id' = (next_drive_id + 1) % M
        BY <1>4, <1>6, <3>2, <4>2, NextId
      <4> QED BY <2>2, <4>1, <4>2 DEF NotRegistered, BadMbr, NoMemory
    <3>8. \A j \in Slot : j > i /\ drives[j] => j \in Live' /\ child_volumes'[j] = {}
      BY <1>2, <2>0, <3>2, <3>4
    <3> QED BY <1>2, <1>4, <3>2, <3>4, <3>5, <3>6, <3>7, <3>8
  <2>3. CASE drives[i] /\ Registered(i)
    <3>1. i \in Live /\ child_volumes[i] = {} /\ Mine(i) = {Drive(i), Priv(i)} /\ Mine(i) \subseteq held
      <4>1. i >= i
        BY <1>3
      <4>2. i \in Live /\ child_volumes[i] = {}
        BY <1>2, <2>3, <4>1
      <4> QED BY <4>2, Objects DEF Mine, Owned
    <3>2. PICK parts \in SUBSET Parts :
             /\ child_volumes' = [child_volumes EXCEPT ![i] = parts]
             /\ held' = held \cup Volumes(i, parts)
      BY <2>3 DEF Registered
    <3>3. /\ drive_list' = Append(drive_list, [slot |-> i, id |-> next_drive_id])
          /\ next_drive_id' = (next_drive_id + 1) % M /\ good' = TRUE
      BY <2>3 DEF Registered
    <3>4. /\ child_volumes' \in [Slot -> SUBSET Parts] /\ child_volumes'[i] = parts
          /\ \A j \in Slot \ {i} : child_volumes'[j] = child_volumes[j]
      BY <1>4, <3>2
    <3>5. Mine(i)' = Mine(i) \cup Volumes(i, parts)
      BY <3>1, <3>4 DEF Mine
    <3>6. held' = held \cup Mine(i)' /\ Mine(i) \subseteq Mine(i)'
      BY <3>1, <3>2, <3>5
    <3>7. Owned' /\ Live' = Live
      <4>1. drives'[i]
        BY <1>1, <2>3
      <4>2. Owned' /\ Live' = Live \cup {i}
        BY <1>1, <3>4, <3>6, <4>1, GrowOne
      <4> QED BY <3>1, <4>2
    <3>8. \A k \in DOMAIN drive_list : drive_list[k].id # next_drive_id
      <4>1. Age(next_drive_id, next_drive_id) = M
        BY <1>4, NextId
      <4>2. \A k \in DOMAIN drive_list : Age(drive_list[k].id, next_drive_id) # M
        BY <1>5, <1>6
      <4> QED BY <4>1, <4>2
    <3>9. /\ Listed' = Listed \cup {i} /\ Distinct' /\ drive_list' \in Seq(Entries)
          /\ \A k \in DOMAIN drive_list' : drive_list'[k].id = next_drive_id
               \/ \E j \in DOMAIN drive_list : drive_list'[k].id = drive_list[j].id
      BY <1>4, <1>5, <3>3, <3>8, AppendList
    <3>10. Listed' = {j \in Live' : j <= i}
      BY <1>2, <2>0, <3>1, <3>7, <3>9 DEF Live
    <3>11. ASSUME NEW k \in DOMAIN drive_list' PROVE Age(drive_list'[k].id, next_drive_id') < i + 1
      <4>1. CASE drive_list'[k].id = next_drive_id
        <5>1. Age(next_drive_id, next_drive_id') = 1
          BY <1>4, <3>3, NextId
        <5>2. 1 < i + 1
          BY <1>3
        <5> QED BY <4>1, <5>1, <5>2
      <4>2. CASE \E j \in DOMAIN drive_list : drive_list'[k].id = drive_list[j].id
        BY <1>6, <3>3, <4>2
      <4> QED BY <3>9, <4>1, <4>2
    <3>12. \A j \in Slot : j > i /\ drives[j] => j \in Live' /\ child_volumes'[j] = {}
      BY <1>2, <2>0, <3>4, <3>7
    <3>13. next_drive_id' \in 0 .. M - 1
      BY <1>4, <3>3, NextId
    <3> QED BY <3>3, <3>4, <3>7, <3>9, <3>10, <3>11, <3>12, <3>13
  <2> QED BY <2>1, <2>2, <2>3 DEF register_drive
<1>8. TypeOK'
  BY <1>1, <1>3, <1>4, <1>7 DEF TypeOK
<1>9. Lists' /\ Recent'
  <2>1. CASE i < Slots
    <3>1. at' = <<"register", i + 1>>
      BY <1>3, <2>1
    <3>2. \A j \in Slot : (j <= i <=> j < i + 1) /\ (j >= i + 1 => j > i)
      BY <1>3 DEF Slot
    <3>3. Listed' = {j \in Live' : j < i + 1}
      BY <1>7, <3>2 DEF Live
    <3>4. Lists'
      <4>1. \A j \in Slot : j >= i + 1 /\ drives'[j] => j \in Live' /\ child_volumes'[j] = {}
        BY <1>1, <1>7, <3>2
      <4> QED BY <1>7, <3>1, <3>3, <4>1 DEF Lists, Shell
    <3>5. Recent'
      BY <1>7, <3>1 DEF Recent
    <3> QED BY <3>4, <3>5
  <2>2. CASE i >= Slots
    <3>1. at' = <<"started", 0>> /\ \A j \in Slot : j <= i
      BY <1>3, <2>2 DEF Slot
    <3>2. Listed' = Live'
      BY <1>7, <3>1 DEF Live
    <3> QED BY <1>7, <3>1, <3>2 DEF Lists, Recent, Shell
  <2> QED BY <1>3, <1>5, <2>1, <2>2
<1> QED BY <1>7, <1>8, <1>9

\* In every state of ata_module_init and ata_module_kill the drives found and not yet removed
\* are allocated, the list holds those among them the loops have registered and not yet
\* removed (ata_pio.c:292-357), and their ids are the last ones given out (disk.c:70).
THEOREM Invariance == Spec => []IInv
<1>1. ASSUME IInv, [Next]_vars PROVE IInv'
  <2>1. CASE Next
    BY <1>1, <2>1, CallsInv, IdentifyInv, RegisterInv, RemoveInv DEF Next
  <2>2. CASE UNCHANGED vars
    BY <1>1, <2>2
    DEF IInv, TypeOK, Owned, Lists, Distinct, Recent, Live, Listed, Mine, Age, vars
  <2> QED BY <1>1, <2>1, <2>2
<1> QED BY InitInv, <1>1, PTL DEF Spec

\* Every drive in the list, its private structure and its volumes are allocated, and no two
\* have the same id (disk.c:42-185), however often the driver is started and stopped.
THEOREM ListIsLive == Spec => []ListedHeld
<1>1. ASSUME IInv PROVE ListedHeld
  <2>1. Listed \subseteq Live
    <3>1. CASE at[1] \in {"identify", "register", "started", "remove", "stopped"}
      <4>1. CASE at[1] = "identify"
        BY <1>1, <4>1 DEF IInv, Lists, Listed
      <4>2. CASE at[1] # "identify"
        BY <1>1, <3>1, <4>2 DEF IInv, Lists
      <4> QED BY <4>1, <4>2
    <3>2. CASE at[1] = "shell"
      BY <1>1, <3>2 DEF IInv, Lists, Listed, TypeOK
    <3>3. at[1] \in Calls
      BY <1>1 DEF IInv, TypeOK
    <3> QED BY <3>1, <3>2, <3>3 DEF Calls
  <2> QED BY <1>1, <2>1 DEF IInv, Owned, Mine, Distinct, ListedHeld
<1> QED BY <1>1, Invariance, PTL

\* A stopped driver has no drive in the list and nothing allocated but what ata_pio.c:310
\* has already lost.
THEOREM StoppedIsEmpty == Spec => []StoppedHoldsNothing
<1>1. IInv => StoppedHoldsNothing
  BY DEF IInv, Lists, Owned, StoppedHoldsNothing
<1> QED BY <1>1, Invariance, PTL

\* ata_module_kill stops the driver unless drives[] still has a drive that could not be
\* registered (ata_pio.c:342-365).
THEOREM KillStops == Spec => StopsWhenRegistered
<1>1. ASSUME IInv, KillReturns
      PROVE  started' = \E i \in Slot : drives[i] /\ Drive(i) \notin held
  <2>1. at[1] = "stopped" /\ started' = fail
    BY <1>1 DEF KillReturns, At
  <2>2. Live = {} /\ (fail <=> \E i \in Slot : drives[i]) /\ fail \in BOOLEAN
    BY <1>1, <2>1 DEF IInv, Lists, TypeOK
  <2> QED BY <2>1, <2>2 DEF Live
<1> QED BY <1>1, Invariance, PTL DEF StopsWhenRegistered

=============================================================================
