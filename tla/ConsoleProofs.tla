--------------------------- MODULE ConsoleProofs ---------------------------
(***************************************************************************)
(* Proofs about the console: what getchar returns and the shift flag, for  *)
(* any keys, prefixed or not, fake shift codes as Keyboard has them,       *)
(* whatever lies past xt_scan and any number of presses;                   *)
(* the cursor, for every screen and every text that handlers print; the    *)
(* lines that the shell runs, for every line length.                       *)
(***************************************************************************)
EXTENDS Console, WellFoundedInduction, TLAPS

-----------------------------------------------------------------------------
(* Induction over the natural numbers, with sets for predicates *)

LEMMA Least ==
  ASSUME NEW T \in SUBSET Nat, T # {}
  PROVE  \E x \in T : \A y \in T : x <= y
<1> DEFINE R == OpToRel(<, Nat)
<1>1. IsWellFoundedOn(R, Nat)
  BY NatLessThanWellFounded
<1>2. \A x, y \in Nat : x < y => <<x, y>> \in R
  BY DEF OpToRel
<1> HIDE DEF R
<1>3. PICK x \in T : \A y \in T : ~ (<<y, x>> \in R)
  BY <1>1, WFMin
<1>4. ASSUME NEW y \in T PROVE x <= y
  <2>1. x \in Nat /\ y \in Nat
    OBVIOUS
  <2>2. ~(y < x)
    BY <1>2, <1>3, <2>1
  <2> QED BY <2>1, <2>2
<1> QED BY <1>4

LEMMA Induct ==
  ASSUME NEW S \in SUBSET Nat, 0 \in S, \A n \in S : n + 1 \in S
  PROVE  S = Nat
<1> SUFFICES ASSUME Nat \ S # {} PROVE FALSE
  OBVIOUS
<1>1. PICK x \in Nat \ S : \A y \in Nat \ S : x <= y
  BY Least
<1>2. x \in Nat /\ x \notin S /\ x # 0
  OBVIOUS
<1>3. x - 1 \in Nat /\ (x - 1) + 1 = x
  BY <1>2
<1>4. x - 1 \in S
  BY <1>1, <1>3
<1> QED BY <1>2, <1>3, <1>4

LEMMA Largest ==
  ASSUME NEW m \in Nat, NEW q \in SUBSET (1 .. m), q # {}
  PROVE  Max(q) \in q /\ \A y \in q : y <= Max(q)
<1> DEFINE T == {m - y : y \in q}
<1>1. PICK x \in T : \A z \in T : x <= z
  <2>1. T \in SUBSET Nat
    <3>1. \A y \in q : m - y \in Nat
      OBVIOUS
    <3> QED BY <3>1
  <2>2. T # {}
    OBVIOUS
  <2> HIDE DEF T
  <2> QED BY <2>1, <2>2, Least
<1>2. PICK y \in q : x = m - y
  OBVIOUS
<1>3. ASSUME NEW z \in q PROVE y >= z
  <2>1. m - z \in T
    OBVIOUS
  <2>2. m - y <= m - z
    BY <1>1, <1>2, <2>1
  <2>3. y \in 1 .. m /\ z \in 1 .. m
    OBVIOUS
  <2> QED BY <2>2, <2>3
<1>4. \E w \in q : \A z \in q : w >= z
  BY <1>3
<1>5. Max(q) \in q /\ \A z \in q : Max(q) >= z
  BY <1>4 DEF Max
<1> QED BY <1>5

-----------------------------------------------------------------------------
(* The keyboard *)

Codes == UInt16 \cup {Off}
Scan == [code : Codes \cup {Prefix}, make : BOOLEAN, n : Nat]
Char == [char : Nat, n : Nat]

KeyType ==
    /\ past \in UInt16
    /\ queue \in Seq(Scan)
    /\ down \subseteq Keys
    /\ faked \subseteq Shifts \X BOOLEAN /\ mixed \in BOOLEAN
    /\ presses \in Nat
    /\ buf \in [code : Codes, n : Nat]
    /\ shift \in BOOLEAN /\ capslock \in BOOLEAN
    /\ pc \in {"out", "poll", "convert", "clear"}
    /\ key \in [code : Nat, n : Nat]
    /\ got \in Seq(Char)
    /\ c \in Nat

Reading == pc \in {"convert", "clear"}

\* The presses still to be read come after the one in the buffer, the one that getchar has
\* read and all that it has returned, in their order.
Waiting ==
    \A i \in 1 .. Len(queue) : queue[i].make =>
        /\ buf.n < queue[i].n /\ queue[i].n <= presses
        /\ \A j \in 1 .. Len(queue) : i < j /\ queue[j].make => queue[i].n < queue[j].n
        /\ \A k \in 1 .. Len(got) : got[k].n < queue[i].n
        /\ Reading => key.n < queue[i].n

\* The buffer holds nothing or a press later than all that getchar has returned.
Buffered ==
    /\ buf.n <= presses
    /\ buf.n = 0 => buf.code = KEY_UNKNOWN
    /\ buf.n > 0 => \A k \in 1 .. Len(got) : got[k].n < buf.n

\* What getchar has read is what the buffer holds or held: nothing, which it does not
\* return, or a press later than all that it has returned.
HasRead ==
    Reading =>
        /\ key.n <= buf.n
        /\ key.n = 0 => key.code = KEY_UNKNOWN /\ pc = "convert"
        /\ key.n > 0 => \A k \in 1 .. Len(got) : got[k].n < key.n

Returned ==
    /\ \A k \in 1 .. Len(got) : got[k].n <= presses
    /\ \A i, j \in 1 .. Len(got) : i < j => got[i].n < got[j].n

KeyInv == KeyType /\ Waiting /\ Buffered /\ HasRead /\ Returned

LEMMA KeyInit == Init => KeyInv
<1> SUFFICES ASSUME Init PROVE KeyInv
  OBVIOUS
<1>1. /\ past \in Strays /\ queue = <<>> /\ down = {} /\ faked = {} /\ mixed = FALSE
      /\ presses = 0 /\ buf = Cleared
      /\ shift = FALSE /\ capslock = FALSE /\ pc = "out" /\ key = [code |-> 0, n |-> 0]
      /\ c = 0 /\ got = <<>>
  BY DEF Init, KeyboardInit
<1>2. /\ buf \in [code : Codes, n : Nat] /\ buf.n = 0 /\ buf.code = KEY_UNKNOWN
      /\ key \in [code : Nat, n : Nat]
  BY <1>1 DEF Cleared, Codes, UInt16, KEY_UNKNOWN
<1>3. \A S : <<>> \in Seq(S) /\ Len(<<>>) = 0
  OBVIOUS
<1>4. KeyType
  <2>1. queue \in Seq(Scan) /\ got \in Seq(Char) /\ Len(queue) = 0
    BY <1>1, <1>3
  <2>2. past \in UInt16 /\ 0 \in Nat
    BY <1>1, KeyAssumption
  <2>3. faked \subseteq Shifts \X BOOLEAN /\ mixed \in BOOLEAN
    BY <1>1
  <2>4. down \subseteq Keys /\ presses \in Nat /\ c \in Nat /\ shift \in BOOLEAN /\ capslock \in BOOLEAN
    BY <1>1, <2>2
  <2> QED BY <1>1, <1>2, <2>1, <2>2, <2>3, <2>4 DEF KeyType
<1>5. Waiting /\ Buffered /\ HasRead /\ Returned
  BY <1>1, <1>2, <1>3 DEF Waiting, Buffered, HasRead, Returned, Reading
<1> QED BY <1>4, <1>5 DEF KeyInv

\* The numbers of the presses are numbers.
LEMMA KeyNumbers ==
  ASSUME KeyType
  PROVE  /\ Len(queue) \in Nat /\ Len(got) \in Nat
         /\ \A i \in 1 .. Len(queue) : queue[i] \in Scan /\ queue[i].n \in Nat /\ queue[i].make \in BOOLEAN
         /\ \A i \in 1 .. Len(got) : got[i].n \in Nat
         /\ buf.n \in Nat /\ key.n \in Nat /\ presses \in Nat
<1>1. ASSUME NEW S, NEW q \in Seq(S) PROVE Len(q) \in Nat /\ \A i \in 1 .. Len(q) : q[i] \in S
  OBVIOUS
<1>2. queue \in Seq(Scan) /\ got \in Seq(Char)
  BY DEF KeyType
<1>3. /\ Len(queue) \in Nat /\ Len(got) \in Nat
      /\ \A i \in 1 .. Len(queue) : queue[i] \in Scan
      /\ \A i \in 1 .. Len(got) : got[i] \in Char
  BY <1>1, <1>2
<1> QED BY <1>3 DEF KeyType, Scan, Char

\* A scan code at the end of the queue, perhaps after a prefix.
LEMMA Sent ==
  ASSUME KeyType, NEW k \in Keys \cup Shifts, NEW make \in BOOLEAN, NEW prefixed \in BOOLEAN,
         Send(k, make, prefixed)
  PROVE  /\ queue' \in Seq(Scan) /\ Len(queue) \in Nat /\ Len(queue') \in Nat /\ Len(queue) < Len(queue')
         /\ \A i \in 1 .. Len(queue) : queue'[i] = queue[i]
         /\ \A i \in 1 .. Len(queue') :
               i \in 1 .. Len(queue) \/ i = Len(queue') \/ queue'[i] = Break(Prefix)
         /\ queue'[Len(queue')].code = k /\ queue'[Len(queue')].make = make
         /\ make => queue'[Len(queue')].n = presses + 1
         /\ presses' \in Nat /\ presses' = (IF make THEN presses + 1 ELSE presses)
<1> DEFINE p == IF prefixed THEN <<Break(Prefix)>> ELSE <<>>
           e == Code(k, make)
<1>1. queue' = (queue \o p) \o <<e>> /\ presses' = (IF make THEN presses + 1 ELSE presses)
  BY DEF Send
<1>2. queue \in Seq(Scan) /\ presses \in Nat
  BY DEF KeyType
<1>3. k \in Codes
  <2>1. Shifts \subseteq UInt16
    BY DEF Shifts, KEY_LSHIFT, KEY_RSHIFT, UInt16
  <2> QED BY <2>1, KeyAssumption DEF Codes
<1>4. e \in Scan /\ e.code = k /\ e.make = make /\ (make => e.n = presses + 1)
  <2>1. CASE make
    BY <1>2, <1>3, <2>1 DEF Code, Make, Scan
  <2>2. CASE ~make
    BY <1>3, <2>2 DEF Code, Break, Scan
  <2> QED BY <2>1, <2>2
<1>5. p \in Seq(Scan) /\ \A i \in 1 .. Len(p) : p[i] = Break(Prefix)
  <2>1. Break(Prefix) \in Scan
    BY DEF Break, Scan
  <2>2. ASSUME NEW x \in Scan PROVE <<x>> \in Seq(Scan) /\ \A i \in 1 .. Len(<<x>>) : <<x>>[i] = x
    OBVIOUS
  <2>3. <<>> \in Seq(Scan) /\ Len(<<>>) = 0
    OBVIOUS
  <2> QED BY <2>1, <2>2, <2>3
<1> HIDE DEF p, e
<1>6. ASSUME NEW f \in Seq(Scan), NEW g \in Seq(Scan), NEW x \in Scan
      PROVE  /\ (f \o g) \o <<x>> \in Seq(Scan) /\ Len(f) \in Nat /\ Len(g) \in Nat
             /\ Len((f \o g) \o <<x>>) = Len(f) + Len(g) + 1
             /\ \A i \in 1 .. Len(f) : ((f \o g) \o <<x>>)[i] = f[i]
             /\ \A i \in 1 .. Len(g) : ((f \o g) \o <<x>>)[Len(f) + i] = g[i]
             /\ ((f \o g) \o <<x>>)[Len(f) + Len(g) + 1] = x
  OBVIOUS
<1>7. /\ queue' \in Seq(Scan) /\ Len(queue) \in Nat /\ Len(p) \in Nat
      /\ Len(queue') = Len(queue) + Len(p) + 1
      /\ \A i \in 1 .. Len(queue) : queue'[i] = queue[i]
      /\ \A i \in 1 .. Len(p) : queue'[Len(queue) + i] = p[i]
      /\ queue'[Len(queue) + Len(p) + 1] = e
  BY <1>1, <1>2, <1>4, <1>5, <1>6
<1>8. ASSUME NEW i \in 1 .. Len(queue'), i \notin 1 .. Len(queue), i # Len(queue')
      PROVE  queue'[i] = Break(Prefix)
  <2>1. i - Len(queue) \in 1 .. Len(p) /\ Len(queue) + (i - Len(queue)) = i
    BY <1>7, <1>8
  <2> QED BY <1>5, <1>7, <2>1
<1>9. presses' \in Nat
  BY <1>1, <1>2
<1> QED BY <1>1, <1>4, <1>7, <1>8, <1>9

LEMMA SendKeepsKeyInv ==
  ASSUME KeyInv, NEW k \in Keys \cup Shifts, NEW make \in BOOLEAN, NEW prefixed \in BOOLEAN,
         Send(k, make, prefixed),
         down' \subseteq Keys, faked' \subseteq Shifts \X BOOLEAN, mixed' \in BOOLEAN
  PROVE  KeyInv'
<1> DEFINE n == Len(queue')
<1>1. /\ queue' \in Seq(Scan) /\ Len(queue) \in Nat /\ n \in Nat /\ Len(queue) < n
      /\ \A i \in 1 .. Len(queue) : queue'[i] = queue[i]
      /\ \A i \in 1 .. n : i \in 1 .. Len(queue) \/ i = n \/ queue'[i] = Break(Prefix)
      /\ queue'[n].make = make /\ (make => queue'[n].n = presses + 1)
      /\ presses' \in Nat /\ presses' = (IF make THEN presses + 1 ELSE presses)
  BY Sent DEF KeyInv
<1>2. UNCHANGED <<past, driver, reader>>
  BY DEF Send
<1>3. KeyType'
  BY <1>1, <1>2 DEF KeyInv, KeyType, driver, reader
<1>4. presses <= presses' /\ presses \in Nat
  BY <1>1, KeyNumbers DEF KeyInv
<1>5. ASSUME NEW i \in 1 .. n, queue'[i].make
      PROVE  \/ i \in 1 .. Len(queue) /\ queue'[i] = queue[i] /\ queue[i].make
             \/ i = n /\ make /\ queue'[i].n = presses + 1 /\ presses' = presses + 1
  <2>1. ~Break(Prefix).make
    BY DEF Break
  <2> QED BY <1>1, <1>5, <2>1
<1> HIDE DEF n
<1>6. ASSUME NEW i \in 1 .. n, queue'[i].make
      PROVE  /\ buf.n < queue'[i].n /\ queue'[i].n <= presses'
             /\ \A j \in 1 .. n : i < j /\ queue'[j].make => queue'[i].n < queue'[j].n
             /\ \A m \in 1 .. Len(got) : got[m].n < queue'[i].n
             /\ Reading => key.n < queue'[i].n
  <2>1. CASE i = n /\ queue'[i].n = presses + 1 /\ presses' = presses + 1
    <3>1. \A j \in 1 .. n : ~(i < j)
      BY <1>1, <2>1 DEF n
    <3> QED BY <2>1, <3>1, KeyNumbers DEF KeyInv, Buffered, HasRead, Returned, Reading
  <2>2. CASE i \in 1 .. Len(queue) /\ queue'[i] = queue[i] /\ queue[i].make
    <3>1. queue[i].n <= presses /\ queue[i].n \in Nat
      BY <2>2, KeyNumbers DEF KeyInv, Waiting
    <3>2. ASSUME NEW j \in 1 .. n, i < j, queue'[j].make PROVE queue[i].n < queue'[j].n
      <4>1. CASE j \in 1 .. Len(queue) /\ queue'[j] = queue[j] /\ queue[j].make
        BY <2>2, <3>2, <4>1 DEF KeyInv, Waiting
      <4>2. CASE queue'[j].n = presses + 1
        BY <1>4, <3>1, <4>2
      <4> QED BY <1>5, <3>2, <4>1, <4>2
    <3>3. /\ buf.n < queue[i].n /\ \A m \in 1 .. Len(got) : got[m].n < queue[i].n
          /\ Reading => key.n < queue[i].n
      BY <2>2 DEF KeyInv, Waiting
    <3>4. queue[i].n <= presses'
      BY <1>1, <1>4, <3>1
    <3> QED BY <2>2, <3>2, <3>3, <3>4
  <2> QED BY <1>5, <1>6, <2>1, <2>2
<1>7. Waiting'
  BY <1>2, <1>6 DEF Waiting, Reading, driver, reader, n
<1>8. UNCHANGED <<buf, pc, key, got>>
  BY <1>2 DEF driver, reader
<1>9. /\ presses' \in Nat /\ presses \in Nat /\ presses <= presses' /\ buf.n \in Nat
      /\ \A m \in 1 .. Len(got) : got[m].n \in Nat
  BY <1>1, <1>4, KeyNumbers DEF KeyInv
<1>10. Buffered' /\ HasRead'
  <2>1. buf.n <= presses'
    BY <1>9 DEF KeyInv, Buffered
  <2> QED BY <1>8, <2>1 DEF KeyInv, Buffered, HasRead, Reading
<1>11. Returned'
  <2>1. \A m \in 1 .. Len(got) : got[m].n <= presses'
    BY <1>9 DEF KeyInv, Returned
  <2> QED BY <1>8, <2>1 DEF KeyInv, Returned
<1> QED BY <1>3, <1>7, <1>10, <1>11 DEF KeyInv

LEMMA TypistKeepsKeyInv ==
  ASSUME KeyInv, Typist
  PROVE  KeyInv'
<1>1. down \subseteq Keys /\ faked \subseteq Shifts \X BOOLEAN
  BY DEF KeyInv, KeyType
<1>2. Mixes => mixed' \in BOOLEAN
  BY DEF Mixes
<1>3. ASSUME NEW k \in Keys, Press(k) \/ Release(k) PROVE KeyInv'
  <2>1. PICK make \in BOOLEAN : Send(k, make, k \in Extended)
    BY <1>3 DEF Press, Release
  <2>2. (k \in Extended) \in BOOLEAN
    OBVIOUS
  <2>3. down' \subseteq Keys /\ faked' \subseteq Shifts \X BOOLEAN /\ mixed' \in BOOLEAN
    BY <1>1, <1>2, <1>3 DEF Press, Release
  <2> QED BY <2>1, <2>2, <2>3, SendKeepsKeyInv
<1>4. ASSUME NEW s \in Shifts, NEW make \in BOOLEAN, Fake(s, make) \/ Undo(s, make) PROVE KeyInv'
  <2>1. PICK m \in BOOLEAN : Send(s, m, TRUE)
    BY <1>4 DEF Fake, Undo
  <2>2. down' \subseteq Keys /\ mixed' \in BOOLEAN
    BY <1>1, <1>2, <1>4 DEF Fake, Undo
  <2>3. faked' \subseteq Shifts \X BOOLEAN
    <3>1. <<s, make>> \in Shifts \X BOOLEAN
      OBVIOUS
    <3>2. faked' = faked \cup {<<s, make>>} \/ faked' = faked \ {<<s, make>>}
      BY <1>4 DEF Fake, Undo
    <3> QED BY <1>1, <3>1, <3>2
  <2> QED BY <2>1, <2>2, <2>3, SendKeepsKeyInv
<1> QED BY <1>3, <1>4 DEF Typist

\* One scan code is taken from the queue, and perhaps two acknowledgements follow.
LEMMA Dequeue ==
  ASSUME KeyType, kbd_isr
  PROVE  /\ queue # <<>> /\ Len(queue) \in Nat \ {0}
         /\ queue' \in Seq(Scan) /\ Len(queue') >= Len(queue) - 1
         /\ \A i \in 1 .. Len(queue) - 1 : queue'[i] = queue[i + 1]
         /\ \A i \in 1 .. Len(queue') : i \notin 1 .. Len(queue) - 1 => queue'[i] = Break(Off)
         /\ Head(queue) = queue[1] /\ queue[1] \in Scan
<1>1. queue \in Seq(Scan) /\ queue # <<>>
  BY DEF KeyType, kbd_isr
<1>2. Break(Off) \in Scan
  BY DEF Break, Scan, Codes
<1> DEFINE end == IF /\ Head(queue).code # Prefix
                     /\ Head(queue).make /\ xt_scan(Head(queue).code) = KEY_CAPSLOCK
                  THEN <<Break(Off), Break(Off)>> ELSE <<>>
<1>3. queue' = Tail(queue) \o end
  <2>1. CASE Head(queue).code = Prefix
    <3>1. Tail(queue) \in Seq(Scan) /\ queue' = Tail(queue) /\ end = <<>>
      BY <1>1, <2>1 DEF kbd_isr
    <3> QED BY <3>1
  <2>2. CASE Head(queue).code # Prefix
    BY <2>2 DEF kbd_isr, Handle
  <2> QED BY <2>1, <2>2
<1>4. end \in Seq(Scan) /\ \A i \in 1 .. Len(end) : end[i] = Break(Off)
  <2>1. ASSUME NEW x \in Scan
        PROVE  <<x, x>> \in Seq(Scan) /\ \A i \in 1 .. Len(<<x, x>>) : <<x, x>>[i] = x
    OBVIOUS
  <2> QED BY <1>2, <2>1
<1> HIDE DEF end
<1>5. /\ Tail(queue) \in Seq(Scan) /\ Len(Tail(queue)) = Len(queue) - 1 /\ Len(queue) \in Nat \ {0}
      /\ \A i \in 1 .. Len(queue) - 1 : Tail(queue)[i] = queue[i + 1]
      /\ Head(queue) = queue[1] /\ queue[1] \in Scan
  BY <1>1
<1>6. ASSUME NEW p \in Seq(Scan), NEW q \in Seq(Scan)
      PROVE  /\ p \o q \in Seq(Scan) /\ Len(p \o q) = Len(p) + Len(q) /\ Len(q) \in Nat
             /\ \A i \in 1 .. Len(p) : (p \o q)[i] = p[i]
             /\ \A i \in 1 .. Len(p \o q) : i \notin 1 .. Len(p) =>
                   i - Len(p) \in 1 .. Len(q) /\ (p \o q)[i] = q[i - Len(p)]
  OBVIOUS
<1>7. /\ queue' \in Seq(Scan) /\ Len(queue') = (Len(queue) - 1) + Len(end) /\ Len(end) \in Nat
      /\ \A i \in 1 .. Len(queue) - 1 : queue'[i] = Tail(queue)[i]
      /\ \A i \in 1 .. Len(queue') : i \notin 1 .. Len(queue) - 1 =>
            i - (Len(queue) - 1) \in 1 .. Len(end) /\ queue'[i] = end[i - (Len(queue) - 1)]
  BY <1>3, <1>4, <1>5, <1>6
<1>8. \A i \in 1 .. Len(queue') : i \notin 1 .. Len(queue) - 1 => queue'[i] = Break(Off)
  BY <1>4, <1>7
<1>9. Len(queue') >= Len(queue) - 1
  BY <1>5, <1>7
<1> QED BY <1>1, <1>5, <1>7, <1>8, <1>9

LEMMA IsrKeepsKeyInv ==
  ASSUME KeyInv, kbd_isr
  PROVE  KeyInv'
<1> DEFINE head == queue[1]
<1>1. /\ Len(queue) \in Nat \ {0} /\ queue' \in Seq(Scan)
      /\ \A i \in 1 .. Len(queue) - 1 : queue'[i] = queue[i + 1]
      /\ \A i \in 1 .. Len(queue') : i \notin 1 .. Len(queue) - 1 => queue'[i] = Break(Off)
      /\ head \in Scan
  BY Dequeue DEF KeyInv
<1> DEFINE fills == head.make /\ head.code # Prefix
<1>2. /\ buf' = (IF fills THEN [code |-> head.code, n |-> head.n] ELSE buf)
      /\ shift' \in BOOLEAN /\ capslock' \in BOOLEAN
      /\ UNCHANGED <<past, down, faked, mixed, presses, reader>>
  <2>1. head = Head(queue) /\ head \in Scan /\ shift \in BOOLEAN /\ capslock \in BOOLEAN
    BY Dequeue DEF KeyInv, KeyType
  <2>2. UNCHANGED <<past, down, faked, mixed, presses, reader>>
    BY DEF kbd_isr
  <2>3. CASE head.code = Prefix
    BY <2>1, <2>2, <2>3 DEF kbd_isr, driver
  <2>4. CASE head.code # Prefix
    BY <2>1, <2>2, <2>4 DEF kbd_isr, Handle, Scan
  <2> QED BY <2>3, <2>4
<1>3. ASSUME NEW i \in 1 .. Len(queue'), queue'[i].make
      PROVE  i + 1 \in 1 .. Len(queue) /\ queue'[i] = queue[i + 1] /\ queue[i + 1].make
  BY <1>1, <1>3 DEF Break
<1>4. KeyType'
  <2>1. buf' \in [code : Codes, n : Nat]
    BY <1>1, <1>2 DEF KeyInv, KeyType, Scan
  <2> QED BY <1>1, <1>2, <2>1 DEF KeyInv, KeyType, reader
<1>5. Waiting'
  <2>1. ASSUME NEW i \in 1 .. Len(queue'), queue'[i].make
        PROVE  /\ buf'.n < queue'[i].n /\ queue'[i].n <= presses
               /\ \A j \in 1 .. Len(queue') : i < j /\ queue'[j].make => queue'[i].n < queue'[j].n
               /\ \A m \in 1 .. Len(got) : got[m].n < queue'[i].n
               /\ Reading => key.n < queue'[i].n
    <3>1. i + 1 \in 1 .. Len(queue) /\ queue'[i] = queue[i + 1] /\ queue[i + 1].make
      BY <1>3, <2>1
    <3>2. \A j \in 1 .. Len(queue') : i < j /\ queue'[j].make => queue'[i].n < queue'[j].n
      BY <1>3, <3>1 DEF KeyInv, Waiting
    <3>3. buf'.n < queue'[i].n
      <4>1. CASE fills
        <5>1. 1 < i + 1 /\ 1 \in 1 .. Len(queue) /\ buf'.n = head.n
          BY <1>1, <1>2, <4>1
        <5> QED BY <3>1, <4>1, <5>1 DEF KeyInv, Waiting
      <4>2. CASE ~fills
        BY <1>2, <3>1, <4>2 DEF KeyInv, Waiting
      <4> QED BY <4>1, <4>2
    <3> QED BY <3>1, <3>2, <3>3 DEF KeyInv, Waiting
  <2> QED BY <1>2, <2>1 DEF Waiting, Reading, reader
<1>6. Buffered' /\ HasRead' /\ Returned'
  <2>1. CASE fills
    <3>1. /\ buf'.n = head.n /\ buf.n < head.n /\ head.n <= presses
          /\ \A k \in 1 .. Len(got) : got[k].n < head.n
      BY <1>1, <1>2, <2>1 DEF KeyInv, Waiting
    <3>2. head.n \in Nat /\ buf.n \in Nat /\ key.n \in Nat
      BY <1>1, KeyNumbers DEF KeyInv
    <3> QED BY <1>2, <3>1, <3>2 DEF KeyInv, Buffered, HasRead, Returned, Reading, reader
  <2>2. CASE ~fills
    BY <1>2, <2>2 DEF KeyInv, Buffered, HasRead, Returned, Reading, reader
  <2> QED BY <2>1, <2>2
<1> QED BY <1>4, <1>5, <1>6 DEF KeyInv

LEMMA GetcharKeepsKeyInv ==
  ASSUME KeyInv, tty_getchar \/ GetcharStep
  PROVE  KeyInv'
<1>1. CASE tty_getchar
  BY <1>1 DEF tty_getchar, KeyInv, KeyType, Waiting, Buffered, HasRead, Returned, Reading, typist, driver
<1>2. CASE kbd_get_key
  <2>1. /\ pc = "poll" /\ pc' = "convert" /\ key' = [code |-> xt_scan(buf.code) % 256, n |-> buf.n]
        /\ UNCHANGED <<past, typist, driver, c, got>>
    BY <1>2 DEF kbd_get_key
  <2>2. /\ xt_scan(buf.code) \in UInt16
        /\ buf.code = KEY_UNKNOWN => xt_scan(buf.code) = 0
    <3>1. past \in UInt16 /\ buf.code \in UInt16 \cup {Off}
      BY DEF KeyInv, KeyType, Codes
    <3>2. KEY_UNKNOWN = 0 /\ KEY_UNKNOWN \in UInt16
      BY DEF KEY_UNKNOWN, UInt16
    <3>3. Off \notin UInt16
      BY KeyAssumption
    <3> QED BY <3>1, <3>2, <3>3 DEF xt_scan
  <2>3. \A x \in UInt16 : x % 256 \in Nat
    <3>1. \A x \in UInt16 : x \in Nat
      BY DEF UInt16
    <3>2. \A x \in Nat : x % 256 \in Nat
      OBVIOUS
    <3> QED BY <3>1, <3>2
  <2>4. xt_scan(buf.code) % 256 \in Nat /\ (xt_scan(buf.code) = 0 => xt_scan(buf.code) % 256 = 0)
    <3>1. 0 % 256 = 0
      OBVIOUS
    <3> HIDE DEF xt_scan
    <3> QED BY <2>2, <2>3, <3>1
  <2>5. key' \in [code : Nat, n : Nat] /\ key'.n = buf.n /\ (buf.n = 0 => key'.code = KEY_UNKNOWN)
    BY <2>1, <2>2, <2>4, KeyNumbers DEF KeyInv, Buffered, KEY_UNKNOWN
  <2>6. KeyType'
    BY <2>1, <2>5 DEF KeyInv, KeyType, typist, driver
  <2>7. Waiting' /\ Buffered' /\ Returned'
    BY <2>1, <2>5 DEF KeyInv, Waiting, Buffered, Returned, Reading, typist, driver
  <2>8. HasRead'
    BY <2>1, <2>5, KeyNumbers DEF KeyInv, Buffered, HasRead, Reading, typist, driver
  <2> QED BY <2>6, <2>7, <2>8 DEF KeyInv
<1>3. CASE Convert
  <2>1. /\ pc = "convert" /\ c' = kbd_key_to_ascii(key.code) /\ pc' = (IF c' = 0 THEN "poll" ELSE "clear")
        /\ UNCHANGED <<past, typist, driver, key, got>>
    BY <1>3 DEF Convert
  <2>2. kbd_key_to_ascii(key.code) \in Nat /\ kbd_key_to_ascii(KEY_UNKNOWN) = 0
    <3>1. key.code \in Nat
      BY DEF KeyInv, KeyType
    <3>2. Shifted(key.code) \in Nat
      BY <3>1 DEF Shifted
    <3> QED BY <3>1, <3>2 DEF kbd_key_to_ascii, kbd_is_ascii_printable, KEY_UNKNOWN
  <2>3. KeyType'
    BY <2>1, <2>2 DEF KeyInv, KeyType, typist, driver
  <2>4. Waiting' /\ Buffered' /\ Returned'
    BY <2>1 DEF KeyInv, Waiting, Buffered, Returned, Reading, typist, driver
  <2>5. HasRead'
    BY <2>1, <2>2 DEF KeyInv, HasRead, Reading, driver
  <2> QED BY <2>3, <2>4, <2>5 DEF KeyInv
<1>4. CASE kbd_clr_key
  <2> DEFINE new == [char |-> c, n |-> key.n]
  <2>1. /\ pc = "clear" /\ buf' = Cleared /\ got' = Append(got, new) /\ pc' = "out"
        /\ key' = [code |-> 0, n |-> 0]
        /\ UNCHANGED <<past, typist, shift, capslock, c>>
    BY <1>4 DEF kbd_clr_key
  <2>2. new \in Char /\ new.n = key.n
    BY DEF KeyInv, KeyType, Char
  <2>3. /\ got' \in Seq(Char) /\ Len(got) \in Nat /\ Len(got') = Len(got) + 1
        /\ \A k \in 1 .. Len(got) : got'[k] = got[k]
        /\ got'[Len(got) + 1] = new
    <3>1. got \in Seq(Char)
      BY DEF KeyInv, KeyType
    <3> HIDE DEF new
    <3> QED BY <2>1, <2>2, <3>1
  <2>4. KeyType'
    <3>1. Cleared \in [code : Codes, n : Nat] /\ [code |-> 0, n |-> 0] \in [code : Nat, n : Nat]
      BY DEF Cleared, Codes, UInt16, KEY_UNKNOWN
    <3>2. /\ buf' \in [code : Codes, n : Nat] /\ key' \in [code : Nat, n : Nat]
          /\ pc' \in {"out", "poll", "convert", "clear"}
      BY <2>1, <3>1
    <3> HIDE DEF new
    <3> QED BY <2>1, <2>3, <3>2 DEF KeyInv, KeyType, typist
  <2>5. key.n <= buf.n /\ key.n > 0 /\ (\A k \in 1 .. Len(got) : got[k].n < key.n) /\ buf.n <= presses
    BY <2>1, KeyNumbers DEF KeyInv, HasRead, Reading, Buffered
  <2>6. Waiting'
    <3>1. Cleared.n = 0
      BY DEF Cleared
    <3> QED BY <2>1, <2>2, <2>3, <2>5, <3>1, KeyNumbers DEF KeyInv, Waiting, Reading, typist
  <2>7. Buffered' /\ HasRead'
    BY <2>1, KeyNumbers DEF KeyInv, Buffered, HasRead, Reading, Cleared, typist
  <2>8. Returned'
    BY <2>1, <2>2, <2>3, <2>5, KeyNumbers DEF KeyInv, Returned, typist
  <2> QED BY <2>4, <2>6, <2>7, <2>8 DEF KeyInv
<1> QED BY <1>1, <1>2, <1>3, <1>4 DEF GetcharStep

\* The rest of the console leaves the keyboard alone.
LEMMA StepKeyInv ==
  ASSUME KeyInv, [Next]_vars
  PROVE  KeyInv'
<1>1. ASSUME UNCHANGED keyVars PROVE KeyInv'
  BY <1>1 DEF keyVars, KeyInv, KeyType, Waiting, Buffered, HasRead, Returned, Reading
<1>2. CASE Typist
  BY <1>2, TypistKeepsKeyInv
<1>3. CASE KeyInterrupt
  BY <1>3, IsrKeepsKeyInv DEF KeyInterrupt
<1>4. CASE NetInterrupt
  BY <1>1, <1>4 DEF NetInterrupt
<1>5. CASE ShellStep
  BY <1>1, <1>5, GetcharKeepsKeyInv DEF ShellStep, printf, Read, Echo, Store, Full, Run, Inside
<1>6. CASE UNCHANGED vars
  BY <1>1, <1>6 DEF vars
<1> QED BY <1>2, <1>3, <1>4, <1>5, <1>6 DEF Next

\* The numbers of the presses that wait, are buffered, are being read by getchar (tty.c) and
\* were returned follow each other in that order, wherever kbd_isr (ps2_kbd.c) comes in.
THEOREM KeyInvariant == Spec => []KeyInv
<1>1. KeyInv /\ [Next]_vars => KeyInv'
  BY StepKeyInv
<1> QED BY <1>1, KeyInit, PTL DEF Spec

\* getchar (tty.c) returns the keys in the order they were pressed and no press twice: for
\* any keys, any number of presses and any interleaving of kbd_isr with its read,
\* conversion and clear of the buffer.
THEOREM KeysInOrder == Spec => []InOrder
<1>1. KeyInv => InOrder
  <2>1. ASSUME KeyInv PROVE DOMAIN got = 1 .. Len(got)
    BY <2>1 DEF KeyInv, KeyType
  <2> QED BY <2>1 DEF KeyInv, Returned, InOrder
<1> QED BY <1>1, KeyInvariant, PTL

-----------------------------------------------------------------------------
(* The shift flag *)

\* What is expected of the flag when a shift key's code has last set it to v.
Settled(v, d, f, x) ==
    /\ v => \E s \in Shifts : s \in d \/ <<s, TRUE>> \in f
    /\ ~x => (v <=> \E s \in Shifts : s \in d)

LastShift(i) ==
    queue[i].code \in Shifts /\ \A j \in 1 .. Len(queue) : i < j => queue[j].code \notin Shifts

NoneWaits == \A i \in 1 .. Len(queue) : queue[i].code \notin Shifts

\* The last code of a shift key that is still to be read, or the flag if there is none, is
\* what is expected.
Settles ==
    /\ \A i \in 1 .. Len(queue) : LastShift(i) => Settled(queue[i].make, down, faked, mixed)
    /\ NoneWaits => Settled(shift, down, faked, mixed)

\* What the ghost says, and which fake releases are in force.
Mixture ==
    /\ Shifts \subseteq down => mixed
    /\ faked # {} => mixed
    /\ mixed => faked # {} \/ \E s \in Shifts : s \in down
    /\ \A s \in Shifts : <<s, FALSE>> \in faked => s \in down

ShiftInv == Mixture /\ (past \notin Shifts => Settles)

\* A code of a shift key that sets the flag as expected, or one of another key.
LEMMA SendKeepsSettles ==
  ASSUME KeyInv, Settles, NEW k \in Keys \cup Shifts, NEW make \in BOOLEAN, NEW prefixed \in BOOLEAN,
         Send(k, make, prefixed),
         k \in Shifts => Settled(make, down', faked', mixed'),
         k \notin Shifts => /\ \A s \in Shifts : s \in down' <=> s \in down
                            /\ faked' = faked /\ mixed' = mixed
  PROVE  Settles'
<1> DEFINE n == Len(queue')
<1>1. /\ Len(queue) \in Nat /\ n \in Nat /\ Len(queue) < n
      /\ \A i \in 1 .. Len(queue) : queue'[i] = queue[i]
      /\ \A i \in 1 .. n : i \in 1 .. Len(queue) \/ i = n \/ queue'[i] = Break(Prefix)
      /\ queue'[n].code = k /\ queue'[n].make = make
  BY Sent DEF KeyInv
<1>2. Break(Prefix).code \notin Shifts
  <2>1. Shifts \subseteq UInt16
    BY DEF Shifts, KEY_LSHIFT, KEY_RSHIFT, UInt16
  <2> QED BY <2>1, KeyAssumption DEF Break
<1>3. shift' = shift
  BY DEF Send, driver
<1>4. CASE k \in Shifts
  <2>1. ASSUME NEW i \in 1 .. n, LastShift(i)' PROVE i = n
    <3>1. n \in 1 .. n /\ (i < n \/ i = n)
      BY <1>1
    <3> QED BY <1>1, <1>4, <2>1, <3>1 DEF LastShift, n
  <2>2. ~NoneWaits'
    <3>1. n \in 1 .. n
      BY <1>1
    <3> QED BY <1>1, <1>4, <3>1 DEF NoneWaits, n
  <2>3. Settled(queue'[n].make, down', faked', mixed')
    BY <1>1, <1>4
  <2> QED BY <2>1, <2>2, <2>3 DEF Settles
<1>5. CASE k \notin Shifts
  <2>1. ASSUME NEW v PROVE Settled(v, down, faked, mixed) => Settled(v, down', faked', mixed')
    BY <1>5 DEF Settled
  <2>2. ASSUME NEW i \in 1 .. n, LastShift(i)' PROVE Settled(queue'[i].make, down', faked', mixed')
    <3>1. queue'[i].code \in Shifts /\ \A j \in 1 .. n : i < j => queue'[j].code \notin Shifts
      BY <2>2 DEF LastShift
    <3>2. i \in 1 .. Len(queue) /\ queue'[i] = queue[i]
      BY <1>1, <1>2, <1>5, <3>1
    <3>3. LastShift(i)
      BY <1>1, <3>1, <3>2 DEF LastShift
    <3> QED BY <2>1, <3>2, <3>3 DEF Settles
  <2>3. NoneWaits' => NoneWaits
    BY <1>1 DEF NoneWaits
  <2>4. NoneWaits' => Settled(shift', down', faked', mixed')
    BY <1>3, <2>1, <2>3 DEF Settles
  <2> QED BY <2>2, <2>4 DEF Settles
<1> QED BY <1>4, <1>5

\* The right shift key and the left one are all there are.
LEMMA TwoShifts ==
  ASSUME NEW s \in Shifts, NEW t \in Shifts, NEW S, s \in S, t \in S, s # t
  PROVE  Shifts \subseteq S
BY DEF Shifts

LEMMA TypistKeepsShift ==
  ASSUME KeyInv, ShiftInv, Typist
  PROVE  ShiftInv'
<1>1. /\ down \subseteq Keys /\ faked \subseteq Shifts \X BOOLEAN /\ mixed \in BOOLEAN
  BY DEF KeyInv, KeyType
<1>2. past' = past
  BY DEF Typist, Press, Release, Fake, Undo, Send
<1>3. ASSUME Mixes PROVE mixed' = /\ faked' # {} \/ Shifts \subseteq down' \/ mixed
                                  /\ faked' # {} \/ \E s \in Shifts : s \in down'
  BY <1>3 DEF Mixes
<1>4. ASSUME NEW k \in Keys, Press(k) PROVE ShiftInv'
  <2>1. /\ Send(k, TRUE, k \in Extended)
        /\ down' = down \cup {k} /\ faked' = faked /\ Mixes
    BY <1>4 DEF Press
  <2>2. Mixture'
    BY <1>3, <2>1 DEF ShiftInv, Mixture
  <2>3. k \in Shifts => Settled(TRUE, down', faked', mixed')
    BY <2>1 DEF Settled
  <2>4. ASSUME k \notin Shifts
        PROVE  (\A s \in Shifts : s \in down' <=> s \in down) /\ faked' = faked /\ mixed' = mixed
    <3>1. (\A s \in Shifts : s \in down' <=> s \in down) /\ faked' = faked
      BY <2>1, <2>4
    <3>2. Shifts \subseteq down' <=> Shifts \subseteq down
      BY <3>1
    <3> QED BY <1>1, <1>3, <2>1, <3>1, <3>2 DEF ShiftInv, Mixture
  <2>5. (k \in Extended) \in BOOLEAN
    OBVIOUS
  <2>6. past \notin Shifts => Settles'
    BY <2>1, <2>3, <2>4, <2>5, SendKeepsSettles DEF ShiftInv
  <2> QED BY <1>2, <2>2, <2>6 DEF ShiftInv
<1>5. ASSUME NEW k \in Keys, Release(k) PROVE ShiftInv'
  <2>1. /\ Send(k, FALSE, k \in Extended)
        /\ k \in down /\ down' = down \ {k} /\ faked' = faked \ {<<k, FALSE>>} /\ Mixes
    BY <1>5 DEF Release
  <2>2. Mixture'
    <3>1. Shifts \subseteq down' => mixed'
      BY <1>3, <2>1, TwoShifts DEF Shifts
    <3>2. faked' # {} => mixed'
      BY <1>3, <2>1
    <3>3. mixed' => faked' # {} \/ \E s \in Shifts : s \in down'
      BY <1>3, <2>1
    <3>4. \A s \in Shifts : <<s, FALSE>> \in faked' => s \in down'
      BY <2>1 DEF ShiftInv, Mixture
    <3> QED BY <3>1, <3>2, <3>3, <3>4 DEF Mixture
  <2>3. ASSUME k \in Shifts PROVE Settled(FALSE, down', faked', mixed')
    <3>1. ASSUME NEW s \in Shifts, s \in down' PROVE mixed'
      <4>1. Shifts \subseteq down
        BY <2>1, <2>3, <3>1, TwoShifts
      <4> QED BY <1>3, <2>1, <3>1, <4>1 DEF ShiftInv, Mixture
    <3> QED BY <3>1 DEF Settled
  <2>4. ASSUME k \notin Shifts
        PROVE  (\A s \in Shifts : s \in down' <=> s \in down) /\ faked' = faked /\ mixed' = mixed
    <3>1. \A s \in Shifts : s \in down' <=> s \in down
      BY <2>1, <2>4
    <3>2. faked' = faked
      <4>1. <<k, FALSE>> \notin faked
        BY <1>1, <2>4
      <4> QED BY <2>1, <4>1
    <3>3. Shifts \subseteq down' <=> Shifts \subseteq down
      BY <3>1
    <3> QED BY <1>1, <1>3, <2>1, <3>1, <3>2, <3>3 DEF ShiftInv, Mixture
  <2>5. (k \in Extended) \in BOOLEAN
    OBVIOUS
  <2>6. past \notin Shifts => Settles'
    BY <2>1, <2>3, <2>4, <2>5, SendKeepsSettles DEF ShiftInv
  <2> QED BY <1>2, <2>2, <2>6 DEF ShiftInv
<1>6. ASSUME NEW s \in Shifts, NEW make \in BOOLEAN, Fake(s, make) PROVE ShiftInv'
  <2>1. /\ Send(s, make, TRUE) /\ down' = down /\ faked' = faked \cup {<<s, make>>} /\ Mixes
        /\ ~make => s \in down
    BY <1>6 DEF Fake
  <2>2. <<s, make>> \in faked' /\ faked' # {} /\ mixed'
    BY <1>3, <2>1
  <2>3. Mixture'
    BY <2>1, <2>2 DEF ShiftInv, Mixture
  <2>4. Settled(make, down', faked', mixed')
    BY <2>2 DEF Settled
  <2>5. past \notin Shifts => Settles'
    BY <2>1, <2>4, SendKeepsSettles DEF ShiftInv
  <2> QED BY <1>2, <2>3, <2>5 DEF ShiftInv
<1>7. ASSUME NEW s \in Shifts, NEW make \in BOOLEAN, Undo(s, make) PROVE ShiftInv'
  <2>1. /\ Send(s, ~make, TRUE) /\ (~make) \in BOOLEAN
        /\ down' = down /\ <<s, make>> \in faked /\ faked' = faked \ {<<s, make>>} /\ Mixes
    BY <1>7 DEF Undo
  <2>2. Mixture'
    BY <1>3, <2>1 DEF ShiftInv, Mixture
  <2>3. ~make => s \in down'
    BY <2>1 DEF ShiftInv, Mixture
  <2>4. (\E t \in Shifts : t \in down') => mixed'
    BY <1>3, <2>1 DEF ShiftInv, Mixture
  <2>5. Settled(~make, down', faked', mixed')
    BY <2>3, <2>4 DEF Settled
  <2>6. past \notin Shifts => Settles'
    BY <2>1, <2>5, SendKeepsSettles DEF ShiftInv
  <2> QED BY <1>2, <2>2, <2>6 DEF ShiftInv
<1> QED BY <1>4, <1>5, <1>6, <1>7 DEF Typist

LEMMA IsrKeepsShift ==
  ASSUME KeyInv, ShiftInv, kbd_isr
  PROVE  ShiftInv'
<1>1. UNCHANGED <<past, down, faked, mixed>>
  BY DEF kbd_isr
<1>2. Mixture'
  BY <1>1 DEF ShiftInv, Mixture
<1> SUFFICES ASSUME past \notin Shifts, Settles PROVE Settles'
  BY <1>1, <1>2 DEF ShiftInv
<1> DEFINE head == queue[1]
<1>3. /\ Len(queue) \in Nat \ {0} /\ Len(queue') \in Nat /\ Len(queue') >= Len(queue) - 1
      /\ \A i \in 1 .. Len(queue) - 1 : queue'[i] = queue[i + 1]
      /\ \A i \in 1 .. Len(queue') : i \notin 1 .. Len(queue) - 1 => queue'[i] = Break(Off)
      /\ head \in Scan /\ head = Head(queue)
  BY Dequeue DEF KeyInv
<1>4. Off \notin Shifts /\ Prefix \notin Shifts /\ Break(Off).code = Off
  <2>1. Shifts \subseteq UInt16
    BY DEF Shifts, KEY_LSHIFT, KEY_RSHIFT, UInt16
  <2> QED BY <2>1, KeyAssumption DEF Break
<1>5. shift' = (IF head.code \in Shifts THEN head.make ELSE shift)
  <2>1. CASE head.code = Prefix
    BY <1>3, <1>4, <2>1 DEF kbd_isr, driver
  <2>2. CASE head.code # Prefix
    <3>1. shift' = IF xt_scan(head.code) \in Shifts THEN head.make ELSE shift
      BY <1>3, <2>2 DEF kbd_isr, Handle
    <3> QED BY <1>4, <3>1 DEF xt_scan
  <2> QED BY <2>1, <2>2
<1>6. ASSUME NEW j \in 1 .. Len(queue), 1 < j
      PROVE  j - 1 \in 1 .. Len(queue') /\ queue'[j - 1] = queue[j]
  <2>1. j - 1 \in 1 .. Len(queue) - 1 /\ (j - 1) + 1 = j
    BY <1>3, <1>6
  <2> QED BY <1>3, <2>1
<1>7. ASSUME NEW i \in 1 .. Len(queue'), LastShift(i)' PROVE Settled(queue'[i].make, down', faked', mixed')
  <2>1. queue'[i].code \in Shifts /\ \A j \in 1 .. Len(queue') : i < j => queue'[j].code \notin Shifts
    BY <1>7 DEF LastShift
  <2>2. i + 1 \in 1 .. Len(queue) /\ queue'[i] = queue[i + 1]
    BY <1>3, <1>4, <2>1
  <2>3. ASSUME NEW j \in 1 .. Len(queue), i + 1 < j PROVE queue[j].code \notin Shifts
    <3>1. 1 < j /\ i < j - 1
      BY <2>3
    <3> QED BY <1>6, <2>1, <3>1
  <2>4. LastShift(i + 1)
    BY <2>1, <2>2, <2>3 DEF LastShift
  <2>5. Settled(queue[i + 1].make, down, faked, mixed)
    BY <2>2, <2>4 DEF Settles
  <2> QED BY <1>1, <2>2, <2>5
<1>8. ASSUME NoneWaits' PROVE Settled(shift', down', faked', mixed')
  <2>1. ASSUME NEW j \in 1 .. Len(queue), 1 < j PROVE queue[j].code \notin Shifts
    BY <1>6, <1>8, <2>1 DEF NoneWaits
  <2>2. CASE head.code \in Shifts
    <3>1. 1 \in 1 .. Len(queue) /\ LastShift(1)
      BY <1>3, <2>1, <2>2 DEF LastShift
    <3> QED BY <1>1, <1>5, <2>2, <3>1 DEF Settles
  <2>3. CASE head.code \notin Shifts
    <3>1. NoneWaits
      BY <1>3, <2>1, <2>3 DEF NoneWaits
    <3> QED BY <1>1, <1>5, <2>3, <3>1 DEF Settles
  <2> QED BY <2>2, <2>3
<1> QED BY <1>7, <1>8 DEF Settles

LEMMA StepShift ==
  ASSUME KeyInv, ShiftInv, [Next]_vars
  PROVE  ShiftInv'
<1>1. ASSUME UNCHANGED <<past, queue, down, faked, mixed, shift>> PROVE ShiftInv'
  BY <1>1 DEF ShiftInv, Mixture, Settles, LastShift, NoneWaits
<1>2. CASE Typist
  BY <1>2, TypistKeepsShift
<1>3. CASE KeyInterrupt
  BY <1>3, IsrKeepsShift DEF KeyInterrupt
<1>4. CASE GetcharStep \/ tty_getchar
  BY <1>1, <1>4 DEF GetcharStep, tty_getchar, kbd_get_key, Convert, kbd_clr_key, typist, driver
<1>5. ASSUME UNCHANGED keyVars PROVE ShiftInv'
  BY <1>1, <1>5 DEF keyVars
<1>6. CASE NetInterrupt
  BY <1>5, <1>6 DEF NetInterrupt
<1>7. CASE ShellStep
  BY <1>4, <1>5, <1>7 DEF ShellStep, printf, Read, Echo, Store, Full, Run, Inside
<1>8. CASE UNCHANGED vars
  BY <1>5, <1>8 DEF vars
<1> QED BY <1>2, <1>3, <1>6, <1>7, <1>8 DEF Next

\* Once kbd_isr (ps2_kbd.c) has read every scan code, its shift flag is on only while a
\* shift key is held or the keyboard's fake press of one is in force, and it follows the one
\* shift key that is held as long as no two were together and no fake code came: for any
\* keys, any of them prefixed, and every order of presses, releases, fakes and interrupts.
THEOREM ShiftFlag == Spec => []ShiftSettles
<1>1. Init => ShiftInv
  <2> SUFFICES ASSUME Init PROVE ShiftInv
    OBVIOUS
  <2>1. queue = <<>> /\ Len(queue) = 0 /\ down = {} /\ faked = {} /\ mixed = FALSE /\ shift = FALSE
    BY DEF Init, KeyboardInit
  <2>2. Mixture
    BY <2>1 DEF Mixture, Shifts
  <2>3. Settles
    BY <2>1 DEF Settles, Settled
  <2> QED BY <2>2, <2>3 DEF ShiftInv
<1>2. KeyInv /\ ShiftInv /\ [Next]_vars => ShiftInv'
  BY StepShift
<1>3. ShiftInv => ShiftSettles
  <2> SUFFICES ASSUME ShiftInv, queue = <<>>, past \notin Shifts
               PROVE  /\ shift => down \cap Shifts # {} \/ \E s \in Shifts : <<s, TRUE>> \in faked
                      /\ ~mixed => (shift <=> down \cap Shifts # {})
    BY DEF ShiftSettles
  <2>1. Len(queue) = 0
    OBVIOUS
  <2>2. Settled(shift, down, faked, mixed)
    BY <2>1 DEF ShiftInv, Settles, NoneWaits
  <2> QED BY <2>2 DEF Settled
<1> QED BY <1>1, <1>2, <1>3, KeyInvariant, PTL DEF Spec

-----------------------------------------------------------------------------
(* The cursor *)

Spots == [row : Nat, col : Nat]
OnScreen(s) == s.row < VGA_HEIGHT /\ s.col < VGA_WIDTH

LEMMA PutOnScreen ==
  ASSUME NEW s \in Spots, NEW char \in Nat
  PROVE  Put(s, char) \in Spots /\ (Put(s, char) = s \/ OnScreen(Put(s, char)))
<1>1. Advance(s, char) \in Spots /\ (char = Newline => Advance(s, char) = s)
  BY DEF Advance, Spots, Tab, Newline
<1>2. ASSUME NEW a \in Spots
      PROVE  /\ Wrap(a, char) \in Spots
             /\ Wrap(a, char).col < VGA_WIDTH
  <2>1. a.row \in Nat /\ a.col \in Nat /\ VGA_WIDTH \in Nat \ {0}
    BY ScreenAssumption DEF Spots
  <2>2. CASE a.col >= VGA_WIDTH \/ char = Newline
    <3>1. Wrap(a, char) = [row |-> a.row + 1, col |-> 0]
      BY <2>2 DEF Wrap, Spots
    <3> QED BY <2>1, <3>1 DEF Spots
  <2>3. CASE ~(a.col >= VGA_WIDTH \/ char = Newline)
    BY <2>1, <2>3 DEF Wrap
  <2> QED BY <2>2, <2>3
<1>3. ASSUME NEW a \in Spots, a.col < VGA_WIDTH
      PROVE  Bottom(a) \in Spots /\ OnScreen(Bottom(a))
  BY <1>3, ScreenAssumption DEF Bottom, Spots, OnScreen
<1> QED BY <1>1, <1>2, <1>3 DEF Put

\* What a handler prints: FoldLeft's function on the sets of positions of the text exists,
\* and takes its values on the screen but for the cursor where it starts.
LEMMA Printed ==
  ASSUME NEW s \in Spots, NEW txt \in Seq(Nat)
  PROVE  LET p == FoldLeft(Put, s, txt) IN p \in Spots /\ (p = s \/ OnScreen(p))
<1> DEFINE Rec(f, m) == f = [q \in SUBSET (1 .. m) |->
                               IF q = {} THEN s ELSE Put(f[q \ {Max(q)}], txt[Max(q)])]
           Exists == {m \in Nat : \E f : Rec(f, m)}
<1>1. 0 \in Exists
  <2>1. 1 .. 0 = {} /\ SUBSET {} = {{}}
    OBVIOUS
  <2>2. Rec([q \in SUBSET (1 .. 0) |-> s], 0)
    BY <2>1
  <2> QED BY <2>2
<1>2. ASSUME NEW m \in Exists PROVE m + 1 \in Exists
  <2>1. PICK f : Rec(f, m)
    OBVIOUS
  <2> DEFINE g == [q \in SUBSET (1 .. m + 1) |->
                     IF m + 1 \in q THEN Put(f[q \ {m + 1}], txt[m + 1]) ELSE f[q]]
  <2>2. ASSUME NEW q \in SUBSET (1 .. m + 1)
        PROVE  g[q] = IF q = {} THEN s ELSE Put(g[q \ {Max(q)}], txt[Max(q)])
    <3>1. CASE m + 1 \in q
      <4>1. Max(q) = m + 1
        <5>1. m + 1 \in Nat /\ q # {}
          BY <3>1
        <5>2. Max(q) \in q /\ m + 1 <= Max(q)
          BY <3>1, <5>1, Largest
        <5>3. Max(q) \in 1 .. m + 1
          BY <5>2
        <5> QED BY <5>2, <5>3
      <4>2. q \ {m + 1} \in SUBSET (1 .. m + 1) /\ m + 1 \notin q \ {m + 1}
        OBVIOUS
      <4> HIDE DEF Rec
      <4>3. g[q \ {m + 1}] = f[q \ {m + 1}]
        BY <4>2
      <4>4. g[q] = Put(f[q \ {m + 1}], txt[m + 1])
        BY <3>1
      <4> QED BY <3>1, <4>1, <4>3, <4>4
    <3>2. CASE m + 1 \notin q /\ q # {}
      <4>1. q \in SUBSET (1 .. m)
        BY <3>2
      <4>2. q \ {Max(q)} \in SUBSET (1 .. m + 1) /\ m + 1 \notin q \ {Max(q)}
        BY <3>2
      <4>3. f[q] = Put(f[q \ {Max(q)}], txt[Max(q)])
        BY <2>1, <3>2, <4>1
      <4> HIDE DEF Rec
      <4>4. g[q \ {Max(q)}] = f[q \ {Max(q)}] /\ g[q] = f[q]
        BY <3>2, <4>2
      <4> QED BY <3>2, <4>3, <4>4
    <3>3. CASE q = {}
      <4>1. {} \in SUBSET (1 .. m) /\ f[{}] = s
        BY <2>1
      <4> QED BY <3>3, <4>1
    <3> QED BY <3>1, <3>2, <3>3
  <2>3. Rec(g, m + 1)
    BY <2>2
  <2> HIDE DEF g, Rec
  <2> QED BY <2>3
<1> HIDE DEF Rec
<1>3. Exists = Nat
  BY <1>1, <1>2, Induct
<1> DEFINE n == Len(txt)
           it == CHOOSE f : Rec(f, n)
<1>4. n \in Nat /\ DOMAIN txt = 1 .. n /\ \A i \in 1 .. n : txt[i] \in Nat
  OBVIOUS
<1>5. Rec(it, n)
  BY <1>3, <1>4
<1>6. FoldLeft(Put, s, txt) = it[1 .. n]
  BY <1>4 DEF FoldLeft, MapThenFoldSet, Rec
<1> HIDE DEF n, it
<1> DEFINE Good(p) == p \in Spots /\ (p = s \/ OnScreen(p))
           Goods == {m \in Nat : \A q \in SUBSET (1 .. n) : q \subseteq 1 .. m => Good(it[q])}
<1>7. \A q \in SUBSET (1 .. n) : it[q] = IF q = {} THEN s ELSE Put(it[q \ {Max(q)}], txt[Max(q)])
  BY <1>5 DEF Rec
<1>8. 0 \in Goods
  <2>1. ASSUME NEW q \in SUBSET (1 .. n), q \subseteq 1 .. 0 PROVE Good(it[q])
    <3>1. q = {}
      BY <2>1
    <3> QED BY <1>7, <3>1
  <2> HIDE DEF Good
  <2> QED BY <2>1
<1>9. ASSUME NEW m \in Goods PROVE m + 1 \in Goods
  <2>1. ASSUME NEW q \in SUBSET (1 .. n), q \subseteq 1 .. m + 1 PROVE Good(it[q])
    <3>1. CASE q = {}
      BY <1>7, <3>1
    <3>2. CASE q # {}
      <4>1. Max(q) \in q /\ \A y \in q : y <= Max(q)
        BY <1>4, <3>2, Largest
      <4>2. q \ {Max(q)} \in SUBSET (1 .. n) /\ q \ {Max(q)} \subseteq 1 .. m
        <5>1. ASSUME NEW y \in q, y # Max(q) PROVE y \in 1 .. m
          <6>1. y \in 1 .. m + 1 /\ Max(q) \in 1 .. m + 1 /\ y <= Max(q)
            BY <2>1, <4>1
          <6> QED BY <5>1, <6>1
        <5> QED BY <2>1, <5>1
      <4>3. Good(it[q \ {Max(q)}])
        BY <4>2
      <4>4. txt[Max(q)] \in Nat
        BY <1>4, <4>1
      <4>5. it[q] = Put(it[q \ {Max(q)}], txt[Max(q)])
        BY <1>7, <3>2
      <4> QED BY <4>3, <4>4, <4>5, PutOnScreen
    <3> QED BY <3>1, <3>2
  <2> HIDE DEF Good
  <2> QED BY <2>1
<1>10. Goods = Nat
  BY <1>8, <1>9, Induct
<1>11. Good(it[1 .. n])
  BY <1>4, <1>10
<1> QED BY <1>6, <1>11

Places == {"out", "tab", "tabstore", "cell", "write", "incload", "incstore", "wrap", "newline",
           "rowload", "rowstore", "bottom", "setrow", "home"}

\* Between the task's accesses the column is past the line's end only before the test for it
\* and the new line, and the row below the screen only before the scroll; what the task has
\* loaded was on the screen.
CursorInv ==
    /\ tty_row \in Nat /\ tty_col \in Nat /\ reg \in Nat /\ at \in Places
    /\ at \notin {"wrap", "newline"} => tty_col < VGA_WIDTH
    /\ at \notin {"bottom", "setrow"} => tty_row < VGA_HEIGHT
    /\ at \in {"tabstore", "incstore"} => reg < VGA_WIDTH
    /\ at = "rowstore" => reg < VGA_HEIGHT

LEMMA PutStepCursor ==
  ASSUME CursorInv, PutStep
  PROVE  CursorInv'
<1> USE ScreenAssumption DEF CursorInv, Places
<1>1. CASE Load("tab", tty_col, "tabstore")
  BY <1>1 DEF Load
<1>2. CASE StoreCol("tabstore", reg + 4 - (reg % 4), "wrap")
  <2>1. reg + 4 - (reg % 4) \in Nat
    OBVIOUS
  <2> QED BY <1>2, <2>1 DEF StoreCol
<1>3. CASE Load("cell", Cell(tty_row, tty_col), "write")
  <2>1. tty_row * VGA_WIDTH \in Nat
    OBVIOUS
  <2>2. Cell(tty_row, tty_col) \in Nat
    BY <2>1 DEF Cell
  <2> QED BY <1>3, <2>2 DEF Load
<1>4. CASE WriteCell
  BY <1>4 DEF WriteCell
<1>5. CASE Load("incload", tty_col, "incstore")
  BY <1>5 DEF Load
<1>6. CASE StoreCol("incstore", reg + 1, "wrap")
  BY <1>6 DEF StoreCol
<1>7. CASE Test("wrap", tty_col >= VGA_WIDTH \/ ch = Newline, "newline", "bottom")
  BY <1>7 DEF Test
<1>8. CASE StoreCol("newline", 0, "rowload")
  BY <1>8 DEF StoreCol
<1>9. CASE Load("rowload", tty_row, "rowstore")
  BY <1>9 DEF Load
<1>10. CASE StoreRow("rowstore", reg + 1, "bottom")
  BY <1>10 DEF StoreRow
<1>11. CASE Test("bottom", AtBottom, "setrow", "out")
  BY <1>11 DEF Test, AtBottom
<1>12. CASE StoreRow("setrow", VGA_HEIGHT - 1, "out")
  BY <1>12 DEF StoreRow
<1> QED BY <1>1, <1>2, <1>3, <1>4, <1>5, <1>6, <1>7, <1>8, <1>9, <1>10, <1>11, <1>12 DEF PutStep

LEMMA CallCursor ==
  ASSUME CursorInv
  PROVE  /\ \A char : tty_putchar(char) => CursorInv'
         /\ tty_clear => CursorInv'
         /\ Home => CursorInv'
<1> USE ScreenAssumption DEF CursorInv, Places
<1>1. ASSUME NEW char, tty_putchar(char) PROVE CursorInv'
  <2>1. at = "out" /\ at' \in {"tab", "out", "wrap", "cell"} /\ UNCHANGED <<tty_row, tty_col, reg>>
    BY <1>1 DEF tty_putchar
  <2> QED BY <2>1
<1>2. ASSUME tty_clear PROVE CursorInv'
  BY <1>2 DEF tty_clear
<1>3. ASSUME Home PROVE CursorInv'
  BY <1>3 DEF Home, StoreCol
<1> QED BY <1>1, <1>2, <1>3

\* The printing of a handler leaves the cursor where it is or on the screen.
LEMMA PrintsCursor ==
  ASSUME CursorInv, NEW txt \in Seq(Nat), Prints(txt)
  PROVE  CursorInv'
<1> DEFINE s == [row |-> tty_row, col |-> tty_col]
           p == FoldLeft(Put, s, txt)
<1>1. s \in Spots
  BY DEF CursorInv, Spots
<1>2. p \in Spots /\ (p = s \/ OnScreen(p))
  BY <1>1, Printed
<1>3. tty_row' = p.row /\ tty_col' = p.col /\ UNCHANGED <<at, ch, reg>>
  BY DEF Prints
<1> HIDE DEF p
<1>4. /\ tty_row' \in Nat /\ tty_col' \in Nat
      /\ \/ tty_row' = tty_row /\ tty_col' = tty_col
         \/ tty_row' < VGA_HEIGHT /\ tty_col' < VGA_WIDTH
  BY <1>2, <1>3 DEF Spots, OnScreen
<1> QED BY <1>3, <1>4 DEF CursorInv

LEMMA StepCursor ==
  ASSUME CursorInv, [Next]_vars
  PROVE  CursorInv'
<1>1. ASSUME UNCHANGED screenVars PROVE CursorInv'
  BY <1>1 DEF screenVars, CursorInv
<1>2. CASE NetInterrupt
  <2>1. <<46>> \in Seq(Nat) /\ Warning \in Seq(Nat)
    BY ScreenAssumption
  <2> QED BY <1>2, <2>1, PrintsCursor DEF NetInterrupt, net_rx_pkt, kwarn
<1>3. CASE ShellStep
  BY <1>1, <1>3, PutStepCursor, CallCursor DEF ShellStep, printf, Read, Echo, Store, Full, Run, Inside
<1>4. CASE KeyInterrupt \/ Typist
  BY <1>1, <1>4 DEF KeyInterrupt, Typist
<1>5. CASE UNCHANGED vars
  BY <1>1, <1>5 DEF vars
<1> QED BY <1>2, <1>3, <1>4, <1>5 DEF Next

\* When tty_putchar_t (tty.c) is over, the cursor is on the screen, wherever the network
\* handler's printing cut into it: for every screen and every text of kwarn.
THEOREM CursorOnScreen == Spec => []CursorSettles
<1>1. Init => CursorInv
  BY ScreenAssumption DEF Init, ScreenInit, CursorInv, Places
<1>2. CursorInv /\ [Next]_vars => CursorInv'
  BY StepCursor
<1>3. CursorInv => CursorSettles
  BY DEF CursorInv, CursorSettles
<1> QED BY <1>1, <1>2, <1>3, PTL DEF Spec

-----------------------------------------------------------------------------
(* The lines *)

Iterations(V) == [V \X Nat -> V]
Iterates(f, V, b, G, n) ==
    f \in [0 .. n -> V] /\ f[0] = b /\ \A i \in 1 .. n : f[i] = G[<<f[i - 1], i>>]

\* A recursion of n steps from b has a solution.
LEMMA Recursion ==
  ASSUME NEW V, NEW b \in V, NEW G \in Iterations(V), NEW n \in Nat
  PROVE  \E f : Iterates(f, V, b, G, n)
<1> USE DEF Iterations
<1> DEFINE Sol(f, m) == f \in [0 .. m -> V] /\ f[0] = b /\ \A i \in 1 .. m : f[i] = G[<<f[i - 1], i>>]
           S == {m \in Nat : \E f : Sol(f, m)}
<1>1. 0 \in S
  <2>1. Sol([i \in 0 .. 0 |-> b], 0)
    OBVIOUS
  <2> QED BY <2>1
<1>2. ASSUME NEW m \in S PROVE m + 1 \in S
  <2>1. PICK f : Sol(f, m)
    OBVIOUS
  <2> DEFINE g == [i \in 0 .. m + 1 |-> IF i = m + 1 THEN G[<<f[m], m + 1>>] ELSE f[i]]
  <2>2. f[m] \in V /\ G[<<f[m], m + 1>>] \in V
    BY <2>1
  <2>3. g \in [0 .. m + 1 -> V] /\ g[0] = b
    BY <2>1, <2>2
  <2>4. ASSUME NEW i \in 1 .. m + 1 PROVE g[i] = G[<<g[i - 1], i>>]
    <3>1. g[i - 1] = f[i - 1]
      OBVIOUS
    <3>2. CASE i = m + 1
      <4>1. i - 1 = m /\ g[m + 1] = G[<<f[m], m + 1>>]
        BY <3>2
      <4> HIDE DEF g
      <4>2. g[i] = G[<<f[m], i>>] /\ f[m] = g[i - 1]
        BY <3>1, <3>2, <4>1
      <4> QED BY <4>2
    <3>3. CASE i \in 1 .. m
      <4>1. g[i] = f[i] /\ f[i] = G[<<f[i - 1], i>>]
        BY <2>1, <3>3
      <4> QED BY <3>1, <4>1
    <3> QED BY <3>2, <3>3
  <2> HIDE DEF g
  <2>5. Sol(g, m + 1)
    BY <2>3, <2>4
  <2> HIDE DEF Sol
  <2> QED BY <2>5
<1> HIDE DEF Sol
<1>3. S = Nat
  BY <1>1, <1>2, Induct
<1>4. PICK f : Sol(f, n)
  BY <1>3
<1> QED BY <1>4 DEF Sol, Iterates

\* Two solutions of the same recursion agree.
SameSteps(f, g, n) == f[0] = g[0] /\ \A i \in 1 .. n : f[i - 1] = g[i - 1] => f[i] = g[i]
SameValues(f, g, n) == \A i \in 0 .. n : f[i] = g[i]
LEMMA Agree ==
  ASSUME NEW n \in Nat, NEW f, NEW g, SameSteps(f, g, n)
  PROVE  SameValues(f, g, n)
<1> USE DEF SameSteps, SameValues
<1> DEFINE S == {m \in Nat : m <= n => f[m] = g[m]}
<1>1. 0 \in S
  OBVIOUS
<1>2. ASSUME NEW m \in S PROVE m + 1 \in S
  <2>1. ASSUME m + 1 <= n PROVE f[m + 1] = g[m + 1]
    <3>1. m + 1 \in 1 .. n /\ (m + 1) - 1 = m /\ f[m] = g[m]
      BY <2>1
    <3> QED BY <3>1
  <2> QED BY <2>1
<1>3. S = Nat
  BY <1>1, <1>2, Induct
<1> QED BY <1>3

Line == Seq(Nat)

\* One more character that getchar returns goes to the end of the line, or into none.
LEMMA KeptGrows ==
  /\ Kept(<<>>) = <<>>
  /\ \A s \in Line : Kept(s) \in Line
  /\ \A s \in Line, x \in Nat :
        Kept(Append(s, x)) = IF x \in {Newline, Asterisk} THEN Kept(s) ELSE Append(Kept(s), x)
<1> DEFINE Next1(s, p, i) == IF s[i] \in {Newline, Asterisk} THEN p ELSE Append(p, s[i])
           Rec(f, s) == f = [i \in 0 .. Len(s) |-> IF i = 0 THEN <<>> ELSE Next1(s, f[i - 1], i)]
           K(s) == CHOOSE f : Rec(f, s)
<1>0. ASSUME NEW s, Len(s) \in Nat, NEW f, Rec(f, s)
      PROVE  /\ f[0] = <<>> /\ \A i \in 1 .. Len(s) : f[i] = Next1(s, f[i - 1], i)
             /\ f = [i \in 0 .. Len(s) |-> f[i]]
  <2>1. 0 \in 0 .. Len(s) /\ \A i \in 1 .. Len(s) : i \in 0 .. Len(s) /\ i # 0
    BY <1>0
  <2>2. \A i \in 0 .. Len(s) : f[i] = IF i = 0 THEN <<>> ELSE Next1(s, f[i - 1], i)
    BY <1>0
  <2>3. DOMAIN f = 0 .. Len(s) /\ f = [i \in DOMAIN f |-> f[i]]
    BY <1>0
  <2> HIDE DEF Next1
  <2> QED BY <2>1, <2>2, <2>3
<1>1. ASSUME NEW s \in Line PROVE Rec(K(s), s) /\ K(s) \in [0 .. Len(s) -> Line]
  <2> DEFINE G == [t \in Line \X Nat |-> IF t[2] \in 1 .. Len(s) THEN Next1(s, t[1], t[2]) ELSE <<>>]
  <2>1. Len(s) \in Nat /\ \A i \in 1 .. Len(s) : s[i] \in Nat
    BY DEF Line
  <2>2. <<>> \in Line /\ \A p \in Line, x \in Nat : Append(p, x) \in Line
    BY DEF Line
  <2>3. G \in Iterations(Line)
    BY <2>1, <2>2 DEF Iterations
  <2>4. \A p \in Line, i \in 1 .. Len(s) : G[<<p, i>>] = Next1(s, p, i)
    BY <2>1
  <2> HIDE DEF G, Next1
  <2>5. PICK f \in [0 .. Len(s) -> Line] : f[0] = <<>> /\ \A i \in 1 .. Len(s) : f[i] = G[<<f[i - 1], i>>]
    <3> DEFINE b == <<>>
               m == Len(s)
    <3>1. b \in Line /\ m \in Nat
      BY <2>1, <2>2
    <3> HIDE DEF b, m
    <3>2. \E f : Iterates(f, Line, b, G, m)
      BY <2>3, <3>1, Recursion
    <3> QED BY <3>2 DEF b, m, Iterates
  <2>6. \A i \in 1 .. Len(s) : f[i] = Next1(s, f[i - 1], i)
    <3>1. \A i \in 1 .. Len(s) : i - 1 \in 0 .. Len(s)
      BY <2>1
    <3>2. \A i \in 1 .. Len(s) : f[i - 1] \in Line
      BY <2>5, <3>1
    <3> QED BY <2>4, <2>5, <3>2
  <2>7. Rec(f, s)
    BY <2>1, <2>5, <2>6
  <2>8. Rec(K(s), s)
    BY <2>7
  <2> DEFINE k == K(s)
  <2> HIDE DEF K
  <2>9. /\ k[0] = <<>> /\ \A i \in 1 .. Len(s) : k[i] = Next1(s, k[i - 1], i)
        /\ k = [i \in 0 .. Len(s) |-> k[i]]
    BY <2>1, <2>8, <1>0
  <2> HIDE DEF k, Rec
  <2>10. \A i \in 0 .. Len(s) : k[i] = f[i]
    <3>1. k[0] = f[0]
      BY <2>5, <2>9
    <3>2. \A i \in 1 .. Len(s) : k[i - 1] = f[i - 1] => k[i] = f[i]
      BY <2>6, <2>9
    <3>3. SameSteps(k, f, Len(s))
      BY <3>1, <3>2 DEF SameSteps
    <3>4. SameValues(k, f, Len(s))
      BY <2>1, <3>3, Agree
    <3> QED BY <3>4 DEF SameValues
  <2>11. k \in [0 .. Len(s) -> Line]
    BY <2>1, <2>5, <2>9, <2>10
  <2> QED BY <2>8, <2>11 DEF k
<1>2. ASSUME NEW s \in Line PROVE Kept(s) = K(s)[Len(s)]
  BY DEF Kept
<1>3. ASSUME NEW s \in Line
      PROVE  /\ K(s) \in [0 .. Len(s) -> Line] /\ K(s)[0] = <<>>
             /\ \A i \in 1 .. Len(s) : K(s)[i] = Next1(s, K(s)[i - 1], i)
             /\ Len(s) \in Nat
  <2> DEFINE k == K(s)
  <2>1. Rec(k, s) /\ k \in [0 .. Len(s) -> Line]
    BY <1>1
  <2>2. Len(s) \in Nat
    BY DEF Line
  <2> HIDE DEF k
  <2>3. k[0] = <<>> /\ \A i \in 1 .. Len(s) : k[i] = Next1(s, k[i - 1], i)
    BY <1>0, <2>1, <2>2
  <2> QED BY <2>1, <2>2, <2>3 DEF k
<1> HIDE DEF K, Rec
<1>4. Kept(<<>>) = <<>>
  <2>1. <<>> \in Line /\ Len(<<>>) = 0
    BY DEF Line
  <2> QED BY <1>2, <1>3, <2>1
<1>5. ASSUME NEW s \in Line PROVE Kept(s) \in Line
  BY <1>2, <1>3
<1>6. ASSUME NEW s \in Line, NEW x \in Nat
      PROVE  Kept(Append(s, x)) = IF x \in {Newline, Asterisk} THEN Kept(s) ELSE Append(Kept(s), x)
  <2> DEFINE t == Append(s, x)
             n == Len(s)
  <2>1. /\ t \in Line /\ n \in Nat /\ Len(t) = n + 1 /\ t[n + 1] = x
        /\ \A i \in 1 .. n : t[i] = s[i]
    BY DEF Line
  <2> HIDE DEF t, n
  <2>2. \A i \in 0 .. n : K(t)[i] = K(s)[i]
    <3> DEFINE f == K(t)
               g == K(s)
    <3>1. f[0] = g[0]
      BY <1>3, <2>1
    <3>2. ASSUME NEW i \in 1 .. n, f[i - 1] = g[i - 1] PROVE f[i] = g[i]
      <4>1. /\ \A j \in 1 .. Len(t) : f[j] = Next1(t, f[j - 1], j)
            /\ \A j \in 1 .. Len(s) : g[j] = Next1(s, g[j - 1], j)
        BY <1>3, <2>1
      <4> HIDE DEF f, g
      <4>2. f[i] = Next1(t, f[i - 1], i) /\ g[i] = Next1(s, g[i - 1], i)
        BY <2>1, <4>1 DEF n
      <4> QED BY <2>1, <3>2, <4>2
    <3> HIDE DEF f, g
    <3>3. SameSteps(f, g, n)
      BY <3>1, <3>2 DEF SameSteps
    <3>4. SameValues(f, g, n)
      BY <2>1, <3>3, Agree
    <3> QED BY <3>4 DEF f, g, SameValues
  <2>3. K(t)[n + 1] = Next1(t, K(t)[n], n + 1)
    <3>1. n + 1 \in 1 .. Len(t) /\ (n + 1) - 1 = n
      BY <2>1
    <3> QED BY <1>3, <2>1, <3>1
  <2>4. K(t)[n] = Kept(s)
    BY <1>2, <2>1, <2>2 DEF n
  <2>5. Kept(t) = K(t)[n + 1]
    BY <1>2, <2>1
  <2>6. Next1(t, Kept(s), n + 1) = IF x \in {Newline, Asterisk} THEN Kept(s) ELSE Append(Kept(s), x)
    BY <2>1
  <2> QED BY <2>3, <2>4, <2>5, <2>6 DEF t
<1> QED BY <1>4, <1>5, <1>6

\* FlattenSeq's function on 1 .. n is the recursion that appends the sequences to <<>>.
LEMMA FlatIterates ==
  ASSUME NEW ss \in Seq(Line), NEW n \in Nat, n = Len(ss), n # 0
  PROVE  \E f \in [0 .. n -> Line] :
            /\ f[0] = <<>> /\ \A i \in 1 .. n : f[i] = f[i - 1] \o ss[i]
            /\ FlattenSeq(ss) = f[n]
<1> DEFINE Rec(f) == f = [i \in 1 .. n |-> IF i = 1 THEN ss[i] ELSE f[i - 1] \o ss[i]]
           k == CHOOSE f : Rec(f)
           G == [t \in Line \X Nat |-> IF t[2] \in 1 .. n THEN t[1] \o ss[t[2]] ELSE <<>>]
           b == <<>>
<1>1. \A i \in 1 .. n : ss[i] \in Line
  OBVIOUS
<1>2. b \in Line /\ (\A p, q \in Line : p \o q \in Line) /\ \A p \in Line : b \o p = p
  BY DEF Line
<1>3. G \in Iterations(Line)
  BY <1>1, <1>2 DEF Iterations
<1>4. ASSUME NEW p \in Line, NEW i \in 1 .. n PROVE G[<<p, i>>] = p \o ss[i]
  <2>1. <<p, i>> \in Line \X Nat
    OBVIOUS
  <2>2. G[<<p, i>>] = IF <<p, i>>[2] \in 1 .. n THEN <<p, i>>[1] \o ss[<<p, i>>[2]] ELSE <<>>
    BY <2>1
  <2> HIDE DEF G
  <2> QED BY <2>2
<1> HIDE DEF G, b
<1>5. PICK f : Iterates(f, Line, b, G, n)
  BY <1>2, <1>3, Recursion
<1>6. /\ f \in [0 .. n -> Line] /\ f[0] = b
      /\ \A i \in 1 .. n : f[i] = G[<<f[i - 1], i>>]
  BY <1>5 DEF Iterates
<1>7. \A i \in 1 .. n : f[i - 1] \in Line /\ f[i] = f[i - 1] \o ss[i]
  <2>1. \A i \in 1 .. n : i - 1 \in 0 .. n
    OBVIOUS
  <2>2. \A i \in 1 .. n : f[i - 1] \in Line
    BY <1>6, <2>1
  <2> QED BY <1>4, <1>6, <2>2
<1>8. Rec(k)
  <2> DEFINE h == [i \in 1 .. n |-> f[i]]
  <2>1. ASSUME NEW i \in 1 .. n PROVE h[i] = IF i = 1 THEN ss[i] ELSE h[i - 1] \o ss[i]
    <3>1. CASE i = 1
      <4>1. 1 \in 1 .. n /\ 1 - 1 = 0
        BY <3>1
      <4>2. f[1] = b \o ss[1]
        BY <1>6, <1>7, <4>1
      <4> QED BY <1>1, <1>2, <3>1, <4>1, <4>2
    <3>2. CASE i # 1
      <4>1. i - 1 \in 1 .. n
        BY <3>2
      <4> QED BY <1>7, <3>2, <4>1
    <3> QED BY <3>1, <3>2
  <2>2. Rec(h)
    BY <2>1
  <2> HIDE DEF h, Rec
  <2> QED BY <2>2
<1> HIDE DEF k
<1>9. \A i \in 1 .. n : k[i] = IF i = 1 THEN ss[i] ELSE k[i - 1] \o ss[i]
  BY <1>8
<1> DEFINE g == [i \in 0 .. n |-> IF i = 0 THEN b ELSE k[i]]
<1>10. \A i \in 0 .. n : f[i] = g[i]
  <2>1. f[0] = g[0]
    BY <1>6
  <2>2. ASSUME NEW i \in 1 .. n, f[i - 1] = g[i - 1] PROVE f[i] = g[i]
    <3>1. f[i] = f[i - 1] \o ss[i] /\ g[i] = k[i]
      BY <1>7
    <3>2. CASE i = 1
      <4>1. f[i - 1] = b /\ k[i] = ss[i]
        BY <1>6, <1>9, <3>2
      <4> QED BY <1>1, <1>2, <3>1, <4>1
    <3>3. CASE i # 1
      <4>1. g[i - 1] = k[i - 1] /\ k[i] = k[i - 1] \o ss[i]
        BY <1>9, <3>3
      <4> QED BY <2>2, <3>1, <4>1
    <3> QED BY <3>2, <3>3
  <2> HIDE DEF g
  <2>3. SameSteps(f, g, n)
    BY <2>1, <2>2 DEF SameSteps
  <2>4. SameValues(f, g, n)
    BY <2>3, Agree
  <2> QED BY <2>4 DEF SameValues
<1>11. f[n] = k[n]
  BY <1>10
<1>12. FlattenSeq(ss) = k[n]
  BY DEF FlattenSeq, k
<1> QED BY <1>6, <1>7, <1>11, <1>12 DEF b

\* The lines that have been run and the one being read.
LEMMA FlatGrows ==
  ASSUME NEW ss \in Seq(Line), NEW x \in Line
  PROVE  /\ FlattenSeq(Append(ss, x)) \in Line
         /\ ss = <<>> => FlattenSeq(Append(ss, x)) = x
         /\ \A y \in Nat : FlattenSeq(Append(ss, Append(x, y))) = Append(FlattenSeq(Append(ss, x)), y)
         /\ FlattenSeq(Append(Append(ss, x), <<>>)) = FlattenSeq(Append(ss, x))
<1> DEFINE n == Len(ss)
<1>1. n \in Nat /\ n + 1 \in Nat /\ n + 1 # 0 /\ n + 2 \in Nat /\ n + 2 # 0
  OBVIOUS
<1>2. ASSUME NEW z \in Line
      PROVE  /\ Append(ss, z) \in Seq(Line) /\ n + 1 = Len(Append(ss, z)) /\ Append(ss, z)[n + 1] = z
             /\ \A i \in 1 .. n : Append(ss, z)[i] = ss[i]
  OBVIOUS
<1>3. PICK f \in [0 .. n + 1 -> Line] :
        /\ f[0] = <<>> /\ \A i \in 1 .. n + 1 : f[i] = f[i - 1] \o Append(ss, x)[i]
        /\ FlattenSeq(Append(ss, x)) = f[n + 1]
  BY <1>1, <1>2, FlatIterates
<1> HIDE DEF n
<1>4. /\ f[n] \in Line /\ f[n + 1] \in Line /\ f[n + 1] = f[n] \o x
      /\ \A i \in 1 .. n : f[i] = f[i - 1] \o ss[i]
  <2>1. n \in 0 .. n + 1 /\ n + 1 \in 1 .. n + 1 /\ (n + 1) - 1 = n
    BY <1>1
  <2>2. f[n] \in Line /\ f[n + 1] \in Line
    BY <1>1, <1>3, <2>1
  <2>3. f[n + 1] = f[n] \o x
    BY <1>2, <1>3, <2>1
  <2>4. ASSUME NEW i \in 1 .. n PROVE f[i] = f[i - 1] \o ss[i]
    <3>1. i \in 1 .. n + 1
      BY <1>1
    <3> QED BY <1>2, <1>3, <3>1
  <2> QED BY <2>2, <2>3, <2>4
<1>5. ASSUME NEW z \in Line
      PROVE  FlattenSeq(Append(ss, z)) = f[n] \o z
  <2>1. PICK g \in [0 .. n + 1 -> Line] :
          /\ g[0] = <<>> /\ \A i \in 1 .. n + 1 : g[i] = g[i - 1] \o Append(ss, z)[i]
          /\ FlattenSeq(Append(ss, z)) = g[n + 1]
    BY <1>1, <1>2, FlatIterates
  <2>2. \A i \in 0 .. n : f[i] = g[i]
    <3>1. ASSUME NEW i \in 1 .. n, f[i - 1] = g[i - 1] PROVE f[i] = g[i]
      <4>1. i \in 1 .. n + 1
        BY <1>1
      <4>2. g[i] = g[i - 1] \o ss[i]
        BY <1>2, <2>1, <4>1
      <4> QED BY <1>4, <3>1, <4>2
    <3>2. SameSteps(f, g, n)
      BY <1>3, <2>1, <3>1 DEF SameSteps
    <3>3. SameValues(f, g, n)
      BY <1>1, <3>2, Agree
    <3> QED BY <3>3 DEF SameValues
  <2>3. n + 1 \in 1 .. n + 1 /\ (n + 1) - 1 = n /\ n \in 0 .. n
    BY <1>1
  <2>4. g[n + 1] = g[n] \o z
    BY <1>2, <2>1, <2>3
  <2> QED BY <2>1, <2>2, <2>3, <2>4
<1>6. ASSUME NEW y \in Nat
      PROVE  FlattenSeq(Append(ss, Append(x, y))) = Append(FlattenSeq(Append(ss, x)), y)
  <2>1. ASSUME NEW p \in Line, NEW q \in Line
        PROVE Append(q, y) \in Line /\ p \o Append(q, y) = Append(p \o q, y)
    BY DEF Line
  <2>2. Append(x, y) \in Line /\ f[n] \o Append(x, y) = Append(f[n] \o x, y)
    BY <1>4, <2>1
  <2> QED BY <1>5, <2>2
<1>7. ss = <<>> => FlattenSeq(Append(ss, x)) = x
  <2> SUFFICES ASSUME ss = <<>> PROVE FlattenSeq(Append(ss, x)) = x
    OBVIOUS
  <2>1. n = 0
    BY DEF n
  <2>2. f[n] = <<>>
    BY <1>3, <2>1
  <2>3. <<>> \o x = x
    BY DEF Line
  <2> QED BY <1>5, <2>2, <2>3
<1>8. FlattenSeq(Append(Append(ss, x), <<>>)) = FlattenSeq(Append(ss, x))
  <2> DEFINE tt == Append(ss, x)
             e == <<>>
             uu == Append(tt, e)
  <2>1. /\ tt \in Seq(Line) /\ n + 1 = Len(tt) /\ tt[n + 1] = x
        /\ \A i \in 1 .. n : tt[i] = ss[i]
    BY <1>2
  <2>2. e \in Line /\ \A p \in Line : p \o e = p
    BY DEF Line
  <2> HIDE DEF tt, e
  <2>3. uu \in Seq(Line) /\ Len(uu) = Len(tt) + 1 /\ uu[Len(tt) + 1] = e /\ \A i \in 1 .. Len(tt) : uu[i] = tt[i]
    BY <2>1, <2>2
  <2> HIDE DEF uu
  <2>4. n + 2 = Len(uu) /\ uu[n + 2] = e /\ \A i \in 1 .. n + 1 : uu[i] = tt[i]
    <3>1. Len(tt) + 1 = n + 2
      BY <1>1, <2>1
    <3> QED BY <2>1, <2>3, <3>1
  <2>5. PICK g \in [0 .. n + 2 -> Line] :
          /\ g[0] = <<>> /\ \A i \in 1 .. n + 2 : g[i] = g[i - 1] \o uu[i]
          /\ FlattenSeq(uu) = g[n + 2]
    BY <1>1, <2>3, <2>4, FlatIterates
  <2>6. \A i \in 0 .. n + 1 : f[i] = g[i]
    <3>1. ASSUME NEW i \in 1 .. n + 1, f[i - 1] = g[i - 1] PROVE f[i] = g[i]
      <4>1. i \in 1 .. n + 2
        BY <1>1
      <4>2. g[i] = g[i - 1] \o tt[i]
        BY <2>4, <2>5, <4>1
      <4>3. f[i] = f[i - 1] \o tt[i]
        BY <1>3 DEF tt
      <4> QED BY <3>1, <4>2, <4>3
    <3>2. SameSteps(f, g, n + 1)
      BY <1>3, <2>5, <3>1 DEF SameSteps
    <3>3. SameValues(f, g, n + 1)
      BY <1>1, <3>2, Agree
    <3> QED BY <3>3 DEF SameValues
  <2>7. n + 2 \in 1 .. n + 2 /\ (n + 2) - 1 = n + 1 /\ n + 1 \in 0 .. n + 1
    BY <1>1
  <2>8. g[n + 2] = f[n + 1] \o e
    BY <2>4, <2>5, <2>6, <2>7
  <2>9. FlattenSeq(uu) = f[n + 1]
    BY <1>4, <2>2, <2>5, <2>8
  <2> QED BY <1>3, <2>9 DEF uu, tt, e
<1> QED BY <1>3, <1>4, <1>6, <1>7, <1>8

\* The characters that getchar has returned when one of them has not yet been looked at.
Typed == IF sh \in {"echo", "store"} /\ pc = "out" /\ got # <<>> THEN Front(got) ELSE got

LineInv ==
    /\ ran \in Seq(Line) /\ \A i \in 1 .. Len(ran) : Len(ran[i]) <= LineMax
    /\ line \in Line /\ Len(line) <= LineMax
    /\ sh \in {"print", "read", "echo", "store", "run", "reboot"}
    /\ pc # "out" => sh = "echo"
    /\ sh \in {"echo", "store"} => Len(line) < LineMax
    /\ sh \in {"echo", "store"} /\ pc = "out" => got # <<>> /\ Last(got).char = c
    /\ FlattenSeq(Append(ran, line)) = Kept(Chars(Typed))

\* One character more.
LEMMA CharsGrow ==
  ASSUME NEW s \in Seq(Char), NEW x \in Char
  PROVE  /\ Chars(s) \in Line /\ x.char \in Nat
         /\ Chars(Append(s, x)) = Append(Chars(s), x.char)
         /\ Append(s, x) # <<>> /\ Front(Append(s, x)) = s /\ Last(Append(s, x)) = x
<1>1. x.char \in Nat /\ \A i \in 1 .. Len(s) : s[i].char \in Nat
  <2>1. \A i \in 1 .. Len(s) : s[i] \in Char
    OBVIOUS
  <2> QED BY <2>1 DEF Char
<1>2. /\ Append(s, x) \in Seq(Char) /\ Len(s) \in Nat /\ Len(Append(s, x)) = Len(s) + 1
      /\ Append(s, x)[Len(s) + 1] = x /\ \A i \in 1 .. Len(s) : Append(s, x)[i] = s[i]
      /\ DOMAIN s = 1 .. Len(s) /\ DOMAIN Append(s, x) = 1 .. Len(s) + 1
  OBVIOUS
<1>3. Chars(s) \in Line /\ Len(Chars(s)) = Len(s)
  BY <1>1, <1>2 DEF Chars, Line
<1>4. Chars(Append(s, x)) = Append(Chars(s), x.char)
  <2> DEFINE u == Chars(Append(s, x))
             v == Append(Chars(s), x.char)
  <2>1. u = [i \in 1 .. Len(s) + 1 |-> Append(s, x)[i].char]
    BY <1>2 DEF Chars
  <2>2. DOMAIN v = 1 .. Len(s) + 1 /\ v = [i \in 1 .. Len(s) + 1 |-> v[i]]
    BY <1>1, <1>3 DEF Line
  <2>3. v[Len(s) + 1] = x.char /\ \A i \in 1 .. Len(s) : v[i] = s[i].char
    <3>1. ASSUME NEW t \in Line, NEW y \in Nat
          PROVE  Append(t, y)[Len(t) + 1] = y /\ \A i \in 1 .. Len(t) : Append(t, y)[i] = t[i]
      BY DEF Line
    <3>2. \A i \in 1 .. Len(s) : Chars(s)[i] = s[i].char
      BY <1>2 DEF Chars
    <3> QED BY <1>1, <1>3, <3>1, <3>2
  <2> HIDE DEF v
  <2>4. ASSUME NEW i \in 1 .. Len(s) + 1 PROVE Append(s, x)[i].char = v[i]
    <3>1. CASE i = Len(s) + 1
      BY <1>2, <2>3, <3>1
    <3>2. CASE i \in 1 .. Len(s)
      BY <1>2, <2>3, <3>2
    <3> QED BY <1>2, <3>1, <3>2
  <2> QED BY <2>1, <2>2, <2>4 DEF v
<1>5. Append(s, x) # <<>> /\ Last(Append(s, x)) = x
  BY <1>2 DEF Last
<1>6. Front(Append(s, x)) = s
  <2> DEFINE t == Append(s, x)
  <2>1. Front(t) = SubSeq(t, 1, Len(s))
    BY <1>2 DEF Front
  <2>2. SubSeq(t, 1, Len(s)) = [i \in 1 .. Len(s) |-> t[i]]
    BY <1>2
  <2>3. s = [i \in 1 .. Len(s) |-> s[i]]
    OBVIOUS
  <2> QED BY <1>2, <2>1, <2>2, <2>3
<1> QED BY <1>1, <1>3, <1>4, <1>5, <1>6

LEMMA SplitLast ==
  ASSUME NEW s \in Seq(Char), s # <<>>
  PROVE  /\ Front(s) \in Seq(Char) /\ Last(s) \in Char
         /\ s = Append(Front(s), Last(s))
<1>1. Len(s) \in Nat \ {0} /\ Len(s) - 1 \in Nat /\ \A i \in 1 .. Len(s) : s[i] \in Char
  OBVIOUS
<1> DEFINE f == Front(s)
<1>2. f \in Seq(Char) /\ Len(f) = Len(s) - 1 /\ \A i \in 1 .. Len(s) - 1 : f[i] = s[i]
  <2>1. ASSUME NEW n \in Nat, n <= Len(s)
        PROVE  /\ SubSeq(s, 1, n) \in Seq(Char) /\ Len(SubSeq(s, 1, n)) = n
               /\ \A i \in 1 .. n : SubSeq(s, 1, n)[i] = s[i]
    BY <1>1, <2>1
  <2>2. Len(s) - 1 <= Len(s)
    BY <1>1
  <2> QED BY <1>1, <2>1, <2>2 DEF Front
<1>3. Last(s) \in Char /\ Last(s) = s[Len(s)]
  BY <1>1 DEF Last
<1> HIDE DEF f
<1>4. /\ Append(f, Last(s)) \in Seq(Char) /\ Len(Append(f, Last(s))) = Len(s)
      /\ \A i \in 1 .. Len(s) : Append(f, Last(s))[i] = s[i]
  BY <1>1, <1>2, <1>3
<1>5. s = Append(f, Last(s))
  BY <1>4
<1> QED BY <1>2, <1>3, <1>5 DEF f

LEMMA StepLine ==
  ASSUME KeyInv, LineInv, [Next]_vars
  PROVE  LineInv'
<1>1. got \in Seq(Char) /\ c \in Nat /\ pc \in {"out", "poll", "convert", "clear"}
  BY DEF KeyInv, KeyType
<1>2. ASSUME UNCHANGED <<shellVars, pc, c, got>> PROVE LineInv'
  BY <1>2 DEF LineInv, Typed, shellVars
<1>3. CASE KeyInterrupt \/ NetInterrupt \/ Typist \/ UNCHANGED vars
  <2>1. CASE KeyInterrupt \/ NetInterrupt \/ UNCHANGED vars
    BY <1>2, <2>1 DEF KeyInterrupt, NetInterrupt, kbd_isr, reader, keyVars, vars
  <2>2. CASE Typist
    <3>1. UNCHANGED reader /\ UNCHANGED shellVars
      BY <2>2 DEF Typist, Press, Release, Fake, Undo, Send
    <3> QED BY <1>2, <3>1 DEF reader
  <2> QED BY <1>3, <2>1, <2>2
<1>4. CASE printf
  <2>1. /\ sh = "print" /\ sh' \in {"print", "read"} /\ UNCHANGED <<pc, c, got, line, ran>>
    BY <1>4 DEF printf, keyVars
  <2> QED BY <2>1 DEF LineInv, Typed
<1>5. CASE Read
  <2>1. /\ sh = "read" /\ Len(line) < LineMax /\ pc = "out" /\ pc' = "poll" /\ sh' = "echo"
        /\ UNCHANGED <<c, got, line, ran>>
    BY <1>5 DEF Read, Room, tty_getchar
  <2> QED BY <2>1 DEF LineInv, Typed
<1>6. CASE Echo
  <2>1. sh = "echo" /\ pc = "out" /\ sh' = "store" /\ UNCHANGED <<pc, c, got, line, ran>>
    BY <1>6 DEF Echo, keyVars
  <2> QED BY <2>1 DEF LineInv, Typed
<1>7. CASE Store
  <2>1. /\ sh = "store" /\ sh' = (CASE c = Newline -> "run" [] c = Asterisk -> "reboot" [] OTHER -> "read")
        /\ line' = (IF sh' = "read" THEN Append(line, c) ELSE line)
        /\ UNCHANGED <<pc, c, got, ran>>
    BY <1>7 DEF Store, keyVars
  <2>2. /\ pc = "out" /\ got # <<>> /\ Last(got).char = c /\ Typed = Front(got) /\ Typed' = got
        /\ Len(line) < LineMax /\ line \in Line /\ ran \in Seq(Line)
        /\ FlattenSeq(Append(ran, line)) = Kept(Chars(Front(got)))
    <3>1. pc = "out"
      BY <2>1 DEF LineInv
    <3>2. sh' \notin {"echo", "store"}
      BY <2>1
    <3> QED BY <2>1, <3>1, <3>2 DEF LineInv, Typed
  <2>3. Kept(Chars(got)) = IF c \in {Newline, Asterisk} THEN Kept(Chars(Front(got)))
                           ELSE Append(Kept(Chars(Front(got))), c)
    <3>1. /\ Front(got) \in Seq(Char) /\ Last(got) \in Char /\ got = Append(Front(got), Last(got))
      BY <1>1, <2>2, SplitLast
    <3>2. Chars(Front(got)) \in Line /\ Chars(got) = Append(Chars(Front(got)), c)
      <4> DEFINE f == Front(got)
                 x == Last(got)
      <4> HIDE DEF f, x
      <4>1. f \in Seq(Char) /\ x \in Char /\ got = Append(f, x) /\ x.char = c
        BY <2>2, <3>1 DEF f, x
      <4>2. Chars(f) \in Line /\ Chars(Append(f, x)) = Append(Chars(f), x.char)
        BY <4>1, CharsGrow
      <4> QED BY <4>1, <4>2 DEF f
    <3> QED BY <1>1, <3>2, KeptGrows
  <2>4. CASE c \in {Newline, Asterisk}
    <3>1. sh' \in {"run", "reboot"} /\ line' = line
      BY <2>1, <2>4 DEF Newline, Asterisk
    <3> QED BY <2>1, <2>2, <2>3, <2>4, <3>1 DEF LineInv
  <2>5. CASE c \notin {Newline, Asterisk}
    <3>1. sh' = "read" /\ line' = Append(line, c)
      BY <2>1, <2>5
    <3>2. line' \in Line /\ Len(line') = Len(line) + 1 /\ Len(line) \in Nat
      BY <1>1, <2>2, <3>1 DEF Line
    <3>3. Len(line') <= LineMax
      BY <2>2, <3>2, ConsoleAssumption
    <3>4. FlattenSeq(Append(ran, line')) = Append(FlattenSeq(Append(ran, line)), c)
      BY <1>1, <2>2, <3>1, FlatGrows
    <3> QED BY <2>1, <2>2, <2>3, <2>5, <3>1, <3>2, <3>3, <3>4 DEF LineInv
  <2> QED BY <2>4, <2>5
<1>8. CASE Full
  <2>1. sh = "read" /\ sh' = "run" /\ UNCHANGED <<pc, c, got, line, ran>>
    BY <1>8 DEF Full, keyVars
  <2> QED BY <2>1 DEF LineInv, Typed
<1>9. CASE Run
  <2>1. sh = "run" /\ sh' = "print" /\ line' = <<>> /\ ran' = Append(ran, line) /\ UNCHANGED <<pc, c, got>>
    BY <1>9 DEF Run, keyVars
  <2>2. ran \in Seq(Line) /\ line \in Line /\ Len(line) <= LineMax
    BY DEF LineInv
  <2>3. /\ ran' \in Seq(Line) /\ Len(ran) \in Nat /\ Len(ran') = Len(ran) + 1 /\ ran'[Len(ran) + 1] = line
        /\ \A i \in 1 .. Len(ran) : ran'[i] = ran[i]
    BY <2>1, <2>2
  <2>4. \A i \in 1 .. Len(ran') : Len(ran'[i]) <= LineMax
    BY <2>2, <2>3 DEF LineInv
  <2>5. line' \in Line /\ Len(line') <= LineMax
    BY <2>1, ConsoleAssumption DEF Line
  <2>6. FlattenSeq(Append(ran', line')) = FlattenSeq(Append(ran, line))
    BY <2>1, <2>2, FlatGrows
  <2> QED BY <2>1, <2>3, <2>4, <2>5, <2>6 DEF LineInv, Typed
<1>10. CASE Inside
  <2>1. CASE kbd_get_key \/ Convert
    <3>1. /\ pc \in {"poll", "convert"} /\ pc' # "out" /\ UNCHANGED <<got, sh, line, text, ran>>
      BY <2>1, <1>10 DEF kbd_get_key, Convert, Inside, GetcharStep, kbd_clr_key, PutStep, Home, keyVars, shellVars
    <3> QED BY <3>1 DEF LineInv, Typed
  <2>2. CASE kbd_clr_key
    <3> DEFINE x == [char |-> c, n |-> key.n]
    <3>1. /\ pc = "clear" /\ pc' = "out" /\ got' = Append(got, x)
          /\ UNCHANGED <<c, sh, line, ran>>
      BY <1>10, <2>2 DEF kbd_clr_key, Inside, keyVars, shellVars
    <3>2. x \in Char /\ x.char = c
      BY DEF KeyInv, KeyType, Char
    <3> HIDE DEF x
    <3>3. got' # <<>> /\ Front(got') = got /\ Last(got').char = c
      BY <1>1, <3>1, <3>2, CharsGrow
    <3>4. sh = "echo" /\ Typed = got /\ Typed' = got
      BY <3>1, <3>3 DEF LineInv, Typed
    <3> QED BY <3>1, <3>3, <3>4 DEF LineInv
  <2>3. CASE UNCHANGED <<keyVars, shellVars>>
    BY <1>2, <2>3 DEF keyVars
  <2> QED BY <1>10, <2>1, <2>2, <2>3 DEF Inside, GetcharStep
<1> QED BY <1>3, <1>4, <1>5, <1>6, <1>7, <1>8, <1>9, <1>10 DEF Next, ShellStep

\* The lines that dsh_loop (dsh.c) has run, with the one it is reading, are the characters
\* that getchar returned, in their order, without the Enters, and no line is longer than
\* its buffer: for every length of the buffer and every interleaving with the handlers.
THEOREM LinesAsTyped == Spec => []RunsWhatWasTyped
<1>1. Init => LineInv
  <2> SUFFICES ASSUME Init PROVE LineInv
    OBVIOUS
  <2>1. sh = "print" /\ line = <<>> /\ ran = <<>> /\ pc = "out" /\ got = <<>>
    BY DEF Init, KeyboardInit
  <2>2. <<>> \in Line /\ <<>> \in Seq(Line) /\ Len(<<>>) = 0
    BY DEF Line
  <2>3. FlattenSeq(Append(ran, line)) = <<>>
    BY <2>1, <2>2, FlatGrows
  <2>4. Chars(<<>>) = <<>>
    BY DEF Chars
  <2>5. Kept(Chars(Typed)) = <<>>
    BY <2>1, <2>4, KeptGrows DEF Typed
  <2> QED BY <2>1, <2>2, <2>3, <2>5, ConsoleAssumption DEF LineInv
<1>2. KeyInv /\ LineInv /\ [Next]_vars => LineInv'
  BY StepLine
<1>3. LineInv => RunsWhatWasTyped
  <2> SUFFICES ASSUME LineInv PROVE RunsWhatWasTyped
    OBVIOUS
  <2>1. DOMAIN ran = 1 .. Len(ran)
    BY DEF LineInv
  <2> QED BY <2>1 DEF LineInv, RunsWhatWasTyped, Typed
<1> QED BY <1>1, <1>2, <1>3, KeyInvariant, PTL DEF Spec
=============================================================================
