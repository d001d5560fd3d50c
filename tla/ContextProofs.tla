--------------------------- MODULE ContextProofs ---------------------------
(***************************************************************************)
(* Proofs about Context, for any tasks, register contents, set of vectors  *)
(* and depth of nesting.                                                   *)
(*                                                                         *)
(* A task's trail says where it was taken away; its stack says how it gets *)
(* back.  The invariant cuts the stack into one frame for each place of    *)
(* the trail, above what setup_stack made: what is left of a frame depends *)
(* on how far the code above it has got on its way back.                   *)
(***************************************************************************)
EXTENDS Context, WellFoundedInduction, TLAPS

Names == {"none", "code", "sched_kill", "switch_task", "jmp", "resumed", "popal", "addl", "iret"}
Kinds == {"iret", "error", "dummy", "number", "pushal", "ret", "unused"}
Registers == [value : Values \cup {"none"}, to : Names]
Spots == [eip : Names, regs : Registers]
Words == [kind : Kinds, n : Nat, at : Names, regs : Registers]

TypeOK ==
    /\ ready \in Seq(Tasks)
    /\ saved \in [Tasks -> [eip : Names, esp : Nat]]
    /\ stack \in [Tasks -> Seq(Words)]
    /\ trail \in [Tasks -> Seq(Spots)]
    /\ eip \in Names /\ regs \in Registers

\* Every live task runs or is in the ready queue, once; the idle task stays.
Queue ==
    /\ \A i, j \in 1 .. Len(ready) : i # j => ready[i] # ready[j]
    /\ \A i \in 1 .. Len(ready) : ready[i] # running_task
    /\ live = {running_task} \cup {ready[i] : i \in 1 .. Len(ready)}
    /\ running_task \in Tasks /\ Idle \in live /\ Idle \notin doomed

\* What lies under the first place p of a task: words 1 to b of its stack s.
Base(t, s, b, p, dying) ==
    \/ p.eip = "code" /\ (t # Idle => b = 2 /\ s[2].at = "sched_kill")
    \/ p.eip = "jmp" /\ p.regs.to = "code" /\ t # Idle /\ b = 2 /\ s[2].at = "sched_kill"
    \/ p.eip = "sched_kill" /\ t # Idle /\ b = 1
    \/ p.eip = "switch_task" /\ dying /\ b = 2

\* The words a + 1 to b of s lead from p back to the place q that was left.
Frame(s, a, b, q, p) ==
    \/ p.eip = "popal" /\ b = a + 4 /\ s[a + 1].at = q.eip /\ s[a + 4].regs = q.regs
    \/ p.eip = "addl" /\ b = a + 3 /\ s[a + 1].at = q.eip /\ p.regs = q.regs
    \/ p.eip = "iret" /\ b = a + 1 /\ s[a + 1].at = q.eip /\ p.regs = q.regs
    \/ /\ p.eip \in {"switch_task", "jmp", "resumed"}
       /\ p.eip = "jmp" => p.regs.to = "resumed"
       /\ \/ b = a + 5 /\ s[a + 1].at = q.eip /\ s[a + 4].regs = q.regs /\ s[a + 5].at = "popal"
          \/ b = a + 1 /\ q.eip = "code" /\ s[a + 1].at = "code" /\ s[a + 1].regs = q.regs

\* The place above the k-th of the trail w, when the task is at p.
Above(w, p, k) == IF k < Len(w) THEN w[k + 1] ELSE p

\* cut[k] is the number of words below the k-th frame of the stack s.
Layout(t, s, w, p, dying, cut) ==
    /\ cut \in [1 .. Len(w) + 1 -> 0 .. Len(s)]
    /\ cut[Len(w) + 1] = Len(s)
    /\ \A j, k \in 1 .. Len(w) + 1 : j <= k => cut[j] <= cut[k]
    /\ Base(t, s, cut[1], Above(w, p, 0), dying)
    /\ \A k \in 1 .. Len(w) : Frame(s, cut[k], cut[k + 1], w[k], Above(w, p, k))

Laid(t, s, w, p, dying) == \E cut \in [1 .. Len(w) + 1 -> 0 .. Len(s)] : Layout(t, s, w, p, dying, cut)

\* Where a task is; one in the ready queue goes on where switch_task jumps.
Spot(t) == IF t = running_task THEN Place(eip, regs) ELSE Place("jmp", Regs("none", saved[t].eip))

\* The tasks that will still run.
Goes(t) == t = running_task \/ t \notin doomed

Stacks ==
    /\ \A t \in live : Goes(t) => Laid(t, stack[t], trail[t], Spot(t), t \in doomed)
    /\ \A t \in live : t # running_task => saved[t].esp = Len(stack[t])
    /\ \A t \in Tasks : t \notin live => trail[t] = <<>>

\* After a kpanic nothing goes on.
ContextInv == report = <<>> => TypeOK /\ Queue /\ Stacks

-----------------------------------------------------------------------------
(* Stacks *)

\* What is left of a sequence without its end.
LEMMA DropFacts ==
    ASSUME NEW S, NEW s \in Seq(S), NEW k \in 0 .. Len(s)
    PROVE  /\ SubSeq(s, 1, k) \in Seq(S) /\ Len(SubSeq(s, 1, k)) = k
           /\ \A j \in 1 .. k : SubSeq(s, 1, k)[j] = s[j]
<1>1. k \in Nat /\ Len(s) \in Nat /\ \A j \in 1 .. k : s[j] \in S
  OBVIOUS
<1>2. Len(SubSeq(s, 1, k)) = k /\ \A j \in 1 .. k : SubSeq(s, 1, k)[j] = s[j]
  BY <1>1
<1> QED BY <1>1, <1>2

LEMMA FrontFacts ==
    ASSUME NEW S, NEW s \in Seq(S), s # <<>>
    PROVE  /\ Front(s) \in Seq(S) /\ Len(Front(s)) = Len(s) - 1
           /\ \A j \in 1 .. Len(s) - 1 : Front(s)[j] = s[j]
<1>1. Len(s) - 1 \in 0 .. Len(s)
  OBVIOUS
<1> QED BY <1>1, DropFacts DEF Front

\* The top frame; without one, what is under the task's first place.
LEMMA TopFrame ==
    ASSUME NEW t, NEW s \in Seq(Words), NEW w \in Seq(Spots), NEW p, NEW dying \in BOOLEAN,
           NEW cut, Layout(t, s, w, p, dying, cut)
    PROVE  /\ w = <<>> => Base(t, s, Len(s), p, dying)
           /\ w # <<>> => /\ cut[Len(w)] \in 0 .. Len(s)
                          /\ Frame(s, cut[Len(w)], Len(s), w[Len(w)], p)
<1>1. Len(w) \in Nat /\ Len(s) \in Nat
  OBVIOUS
<1>2. ASSUME w = <<>> PROVE Base(t, s, Len(s), p, dying)
  <2>1. Len(w) = 0
    BY <1>2
  <2>2. Above(w, p, 0) = p /\ cut[1] = Len(s)
    BY <2>1 DEF Above, Layout
  <2> QED BY <2>2 DEF Layout
<1>3. ASSUME w # <<>>
      PROVE  cut[Len(w)] \in 0 .. Len(s) /\ Frame(s, cut[Len(w)], Len(s), w[Len(w)], p)
  <2>1. Len(w) \in 1 .. Len(w) /\ Len(w) \in 1 .. Len(w) + 1
    BY <1>1, <1>3
  <2>2. Above(w, p, Len(w)) = p
    BY DEF Above
  <2>3. Frame(s, cut[Len(w)], cut[Len(w) + 1], w[Len(w)], Above(w, p, Len(w))) /\ cut[Len(w) + 1] = Len(s)
    BY <2>1 DEF Layout
  <2>4. cut[Len(w)] \in 0 .. Len(s)
    BY <2>1 DEF Layout
  <2> QED BY <2>2, <2>3, <2>4
<1> QED BY <1>2, <1>3

LEMMA Alone ==
    ASSUME NEW t, NEW s \in Seq(Words), NEW w \in Seq(Spots), NEW p, NEW dying \in BOOLEAN,
           Laid(t, s, w, p, dying), w = <<>>
    PROVE  Base(t, s, Len(s), p, dying)
BY TopFrame DEF Laid

\* A frame is what its words are.
LEMMA FrameKept ==
    ASSUME NEW s, NEW r, NEW a \in Nat, NEW b \in Nat, NEW q, NEW p, Frame(s, a, b, q, p),
           \A j \in 1 .. b : r[j] = s[j]
    PROVE  Frame(r, a, b, q, p)
<1>1. b \in {a + 1, a + 3, a + 4, a + 5}
  BY DEF Frame
<1>2. r[a + 1] = s[a + 1]
  BY <1>1
<1>3. b >= a + 4 => r[a + 4] = s[a + 4]
  BY <1>1
<1>4. b >= a + 5 => r[a + 5] = s[a + 5]
  BY <1>1
<1> QED BY <1>2, <1>3, <1>4 DEF Frame

LEMMA BaseKept ==
    ASSUME NEW t, NEW s, NEW r, NEW b \in Nat, NEW p, NEW dying \in BOOLEAN, Base(t, s, b, p, dying),
           \A j \in 1 .. b : r[j] = s[j]
    PROVE  Base(t, r, b, p, dying)
<1>1. b = 2 => r[2] = s[2]
  OBVIOUS
<1> QED BY <1>1 DEF Base

\* The top frame is replaced: the task goes on from p to q in the same place of its trail.
LEMMA Replaced ==
    ASSUME NEW t, NEW s \in Seq(Words), NEW w \in Seq(Spots), NEW p, NEW dying \in BOOLEAN,
           NEW cut, Layout(t, s, w, p, dying, cut), w # <<>>,
           NEW r \in Seq(Words), NEW q, cut[Len(w)] <= Len(r),
           \A j \in 1 .. cut[Len(w)] : r[j] = s[j],
           Frame(r, cut[Len(w)], Len(r), w[Len(w)], q)
    PROVE  Laid(t, r, w, q, dying)
<1> DEFINE n == Len(w)
           new == [k \in 1 .. n + 1 |-> IF k <= n THEN cut[k] ELSE Len(r)]
<1>1. n \in Nat /\ n >= 1 /\ Len(s) \in Nat /\ Len(r) \in Nat
  OBVIOUS
<1>2. /\ \A k \in 1 .. n + 1 : cut[k] \in 0 .. Len(s)
      /\ \A j, k \in 1 .. n + 1 : j <= k => cut[j] <= cut[k]
  BY DEF Layout
<1>3. ASSUME NEW k \in 1 .. n PROVE cut[k] \in Nat /\ cut[k] <= cut[n]
  <2>1. k \in 1 .. n + 1 /\ n \in 1 .. n + 1 /\ k <= n
    BY <1>1
  <2> QED BY <1>2, <2>1
<1>4. ASSUME NEW k \in 1 .. n PROVE new[k] = cut[k] /\ new[k] \in 0 .. Len(r)
  <2>1. k \in 1 .. n + 1 /\ k <= n
    BY <1>1
  <2>2. new[k] = cut[k]
    BY <2>1
  <2>3. cut[k] \in Nat /\ cut[k] <= cut[n] /\ cut[n] \in Nat /\ cut[n] <= Len(r)
    BY <1>1, <1>3
  <2> HIDE DEF new
  <2> QED BY <1>1, <2>2, <2>3
<1>5. new[n + 1] = Len(r) /\ new \in [1 .. n + 1 -> 0 .. Len(r)]
  BY <1>1, <1>3
<1>6. \A j, k \in 1 .. n + 1 : j <= k => new[j] <= new[k]
  BY <1>1, <1>2, <1>3
<1>7. Base(t, r, new[1], Above(w, q, 0), dying)
  <2>1. Above(w, q, 0) = Above(w, p, 0) /\ new[1] = cut[1] /\ cut[1] \in Nat /\ cut[1] <= cut[n]
    BY <1>1, <1>3, <1>4 DEF Above
  <2>2. Base(t, s, cut[1], Above(w, p, 0), dying)
    BY DEF Layout
  <2>3. \A j \in 1 .. cut[1] : r[j] = s[j]
    BY <1>2, <2>1
  <2> QED BY <2>1, <2>2, <2>3, BaseKept
<1>8. ASSUME NEW k \in 1 .. n PROVE Frame(r, new[k], new[k + 1], w[k], Above(w, q, k))
  <2>1. CASE k = n
    <3>1. new[k + 1] = Len(r) /\ new[k] = cut[n] /\ Above(w, q, k) = q
      BY <1>1, <1>4, <1>5, <2>1 DEF Above
    <3> QED BY <2>1, <3>1
  <2>2. CASE k < n
    <3>1. /\ new[k] = cut[k] /\ new[k + 1] = cut[k + 1] /\ Above(w, q, k) = Above(w, p, k)
          /\ cut[k] \in Nat /\ cut[k + 1] \in Nat /\ cut[k + 1] <= cut[n]
      BY <1>1, <1>3, <1>4, <2>2 DEF Above
    <3>2. Frame(s, cut[k], cut[k + 1], w[k], Above(w, p, k))
      BY <1>8 DEF Layout
    <3>3. \A j \in 1 .. cut[k + 1] : r[j] = s[j]
      BY <1>1, <1>2, <3>1
    <3> QED BY <3>1, <3>2, <3>3, FrameKept
  <2> QED BY <1>1, <2>1, <2>2
<1> HIDE DEF new
<1> QED BY <1>5, <1>6, <1>7, <1>8 DEF Laid, Layout

\* A frame is pushed: the task is taken away from p and goes on at q.
LEMMA Pushed ==
    ASSUME NEW t, NEW s \in Seq(Words), NEW w \in Seq(Spots), NEW p \in Spots, NEW dying \in BOOLEAN,
           Laid(t, s, w, p, dying),
           NEW r \in Seq(Words), NEW q, Len(s) <= Len(r),
           \A j \in 1 .. Len(s) : r[j] = s[j],
           Frame(r, Len(s), Len(r), p, q)
    PROVE  Laid(t, r, Append(w, p), q, dying)
<1>0. PICK cut : Layout(t, s, w, p, dying, cut)
  BY DEF Laid
<1> DEFINE n == Len(w)
           v == Append(w, p)
           new == [k \in 1 .. n + 2 |-> IF k <= n + 1 THEN cut[k] ELSE Len(r)]
<1>1. n \in Nat /\ Len(s) \in Nat /\ Len(r) \in Nat
  OBVIOUS
<1>v. v \in Seq(Spots) /\ Len(v) = n + 1 /\ v[n + 1] = p /\ \A k \in 1 .. n : v[k] = w[k]
  OBVIOUS
<1>2. /\ \A k \in 1 .. n + 1 : cut[k] \in 0 .. Len(s)
      /\ \A j, k \in 1 .. n + 1 : j <= k => cut[j] <= cut[k]
      /\ cut[n + 1] = Len(s)
  BY <1>0 DEF Layout
<1>4. \A k \in 1 .. n + 1 : new[k] = cut[k] /\ new[k] \in 0 .. Len(r)
  BY <1>1, <1>2
<1>5. new[n + 2] = Len(r) /\ new \in [1 .. n + 2 -> 0 .. Len(r)]
  BY <1>1, <1>2
<1>6. \A j, k \in 1 .. n + 2 : j <= k => new[j] <= new[k]
  BY <1>1, <1>2
<1>a. ASSUME NEW k \in 0 .. n PROVE Above(v, q, k) = Above(w, p, k)
  <2>1. CASE k = n
    BY <1>1, <1>v, <2>1 DEF Above
  <2>2. CASE k < n
    BY <1>1, <1>v, <2>2 DEF Above
  <2> QED BY <1>1, <2>1, <2>2
<1> HIDE DEF v
<1>7. Base(t, r, new[1], Above(v, q, 0), dying)
  <2>1. Above(v, q, 0) = Above(w, p, 0) /\ new[1] = cut[1] /\ cut[1] \in 0 .. Len(s)
    BY <1>1, <1>2, <1>4, <1>a
  <2>2. Base(t, s, cut[1], Above(w, p, 0), dying)
    BY <1>0 DEF Layout
  <2>3. \A j \in 1 .. cut[1] : r[j] = s[j]
    BY <1>1, <2>1
  <2> QED BY <2>1, <2>2, <2>3, BaseKept
<1>8. ASSUME NEW k \in 1 .. n + 1 PROVE Frame(r, new[k], new[k + 1], v[k], Above(v, q, k))
  <2>1. CASE k = n + 1
    <3>1. new[k + 1] = Len(r) /\ new[k] = Len(s) /\ Above(v, q, k) = q
      BY <1>1, <1>2, <1>4, <1>5, <1>v, <2>1 DEF Above
    <3> QED BY <1>v, <2>1, <3>1
  <2>2. CASE k <= n
    <3>1. /\ new[k] = cut[k] /\ new[k + 1] = cut[k + 1] /\ Above(v, q, k) = Above(w, p, k)
          /\ cut[k] \in Nat /\ cut[k + 1] \in 0 .. Len(s) /\ v[k] = w[k]
      BY <1>1, <1>2, <1>4, <1>a, <1>v, <2>2
    <3>2. Frame(s, cut[k], cut[k + 1], w[k], Above(w, p, k))
      BY <1>0, <1>8, <2>2 DEF Layout
    <3>3. \A j \in 1 .. cut[k + 1] : r[j] = s[j]
      BY <1>1, <3>1
    <3>4. Frame(r, cut[k], cut[k + 1], w[k], Above(w, p, k))
      <4>1. cut[k] \in Nat /\ cut[k + 1] \in Nat
        BY <1>1, <3>1
      <4> QED BY <3>2, <3>3, <4>1, FrameKept
    <3> QED BY <3>1, <3>4
  <2>3. k = n + 1 \/ k <= n
    BY <1>1
  <2> QED BY <2>1, <2>2, <2>3
<1> HIDE DEF new
<1>9. new \in [1 .. Len(v) + 1 -> 0 .. Len(r)] /\ new[Len(v) + 1] = Len(r)
  BY <1>1, <1>5, <1>v
<1>10. \A j, k \in 1 .. Len(v) + 1 : j <= k => new[j] <= new[k]
  BY <1>1, <1>6, <1>v
<1>11. \A k \in 1 .. Len(v) : Frame(r, new[k], new[k + 1], v[k], Above(v, q, k))
  BY <1>8, <1>v
<1>12. Laid(t, r, v, q, dying)
  BY <1>7, <1>9, <1>10, <1>11 DEF Laid, Layout
<1> QED BY <1>12 DEF v

\* The top frame is gone: the task is back at the last place of its trail.
LEMMA Popped ==
    ASSUME NEW t, NEW s \in Seq(Words), NEW w \in Seq(Spots), NEW p, NEW dying \in BOOLEAN,
           NEW cut, Layout(t, s, w, p, dying, cut), w # <<>>,
           NEW r \in Seq(Words), Len(r) = cut[Len(w)],
           \A j \in 1 .. Len(r) : r[j] = s[j]
    PROVE  Laid(t, r, Front(w), w[Len(w)], dying)
<1> DEFINE n == Len(w) - 1
           v == Front(w)
           q == w[Len(w)]
           new == [k \in 1 .. n + 1 |-> cut[k]]
<1>1. n \in Nat /\ Len(s) \in Nat /\ Len(r) \in Nat /\ Len(w) = n + 1
  OBVIOUS
<1>v. v \in Seq(Spots) /\ Len(v) = n /\ \A k \in 1 .. n : v[k] = w[k]
  BY <1>1, FrontFacts
<1>2. /\ \A k \in 1 .. n + 1 : cut[k] \in 0 .. Len(s)
      /\ \A j, k \in 1 .. n + 1 : j <= k => cut[j] <= cut[k]
  <2>1. \A k \in 1 .. n + 1 : k \in 1 .. Len(w) + 1
    BY <1>1
  <2>2. /\ \A k \in 1 .. Len(w) + 1 : cut[k] \in 0 .. Len(s)
        /\ \A j, k \in 1 .. Len(w) + 1 : j <= k => cut[j] <= cut[k]
    BY DEF Layout
  <2> QED BY <2>1, <2>2
<1>3. \A k \in 1 .. n + 1 : cut[k] \in Nat /\ cut[k] <= Len(r)
  BY <1>1, <1>2
<1>5. new \in [1 .. n + 1 -> 0 .. Len(r)] /\ new[n + 1] = Len(r)
  BY <1>1, <1>3
<1>6. \A j, k \in 1 .. n + 1 : j <= k => new[j] <= new[k]
  BY <1>1, <1>2
<1>a. ASSUME NEW k \in 0 .. n PROVE Above(v, q, k) = Above(w, p, k)
  <2>1. CASE k = n
    BY <1>1, <1>v, <2>1 DEF Above
  <2>2. CASE k < n
    BY <1>1, <1>v, <2>2 DEF Above
  <2> QED BY <1>1, <2>1, <2>2
<1> HIDE DEF v, q
<1>7. Base(t, r, new[1], Above(v, q, 0), dying)
  <2>0. 0 \in 0 .. n /\ 1 \in 1 .. n + 1
    BY <1>1
  <2>1. Above(v, q, 0) = Above(w, p, 0) /\ new[1] = cut[1] /\ cut[1] \in Nat /\ cut[1] <= Len(r)
    BY <1>3, <1>a, <2>0
  <2>2. Base(t, s, cut[1], Above(w, p, 0), dying)
    BY DEF Layout
  <2>3. \A j \in 1 .. cut[1] : r[j] = s[j]
    BY <1>1, <2>1
  <2> QED BY <2>1, <2>2, <2>3, BaseKept
<1>8. ASSUME NEW k \in 1 .. n PROVE Frame(r, new[k], new[k + 1], v[k], Above(v, q, k))
  <2>0. k \in 1 .. n + 1 /\ k + 1 \in 1 .. n + 1 /\ k \in 0 .. n
    BY <1>1
  <2>1. /\ new[k] = cut[k] /\ new[k + 1] = cut[k + 1] /\ Above(v, q, k) = Above(w, p, k)
        /\ cut[k] \in Nat /\ cut[k + 1] \in Nat /\ cut[k + 1] <= Len(r) /\ v[k] = w[k]
    BY <1>3, <1>a, <1>v, <2>0
  <2>2. Frame(s, cut[k], cut[k + 1], w[k], Above(w, p, k))
    BY <1>1, <1>8 DEF Layout
  <2>3. \A j \in 1 .. cut[k + 1] : r[j] = s[j]
    BY <1>1, <2>1
  <2> QED BY <2>1, <2>2, <2>3, FrameKept
<1> HIDE DEF new, n
<1>9. Laid(t, r, v, q, dying)
  BY <1>5, <1>6, <1>7, <1>8, <1>v DEF Laid, Layout
<1> QED BY <1>9 DEF v, q

\* A task that was never taken away stands on what setup_stack made.
LEMMA Bottom ==
    ASSUME NEW t, NEW r \in Seq(Words), NEW q, NEW dying \in BOOLEAN, Base(t, r, Len(r), q, dying)
    PROVE  Laid(t, r, <<>>, q, dying)
<1> DEFINE v == <<>>
           new == [k \in 1 .. Len(v) + 1 |-> Len(r)]
<1>1. Len(v) = 0 /\ Len(r) \in Nat
  OBVIOUS
<1>2. Above(v, q, 0) = q
  BY <1>1 DEF Above
<1>3. new \in [1 .. Len(v) + 1 -> 0 .. Len(r)] /\ new[Len(v) + 1] = Len(r) /\ new[1] = Len(r)
  BY <1>1
<1>4. \A j, k \in 1 .. Len(v) + 1 : j <= k => new[j] <= new[k]
  BY <1>1
<1>5. \A k \in 1 .. Len(v) : FALSE
  BY <1>1
<1> HIDE DEF v, new
<1>6. Laid(t, r, v, q, dying)
  BY <1>2, <1>3, <1>4, <1>5 DEF Laid, Layout
<1> QED BY <1>6 DEF v

\* r has the first a words of s.
Shares(r, s, a) == r \in Seq(Words) /\ a <= Len(r) /\ \A j \in 1 .. a : r[j] = s[j]

\* The top frame of s begins above word a: it may be replaced, and it may be taken off.
TopCut(t, s, w, p, dying, a) ==
    /\ a <= Len(s)
    /\ Frame(s, a, Len(s), w[Len(w)], p)
    /\ \A r, q : Shares(r, s, a) /\ Frame(r, a, Len(r), w[Len(w)], q) => Laid(t, r, w, q, dying)
    /\ \A r : Shares(r, s, a) /\ Len(r) = a => Laid(t, r, Front(w), w[Len(w)], dying)

LEMMA OnTop ==
    ASSUME NEW t, NEW s \in Seq(Words), NEW w \in Seq(Spots), NEW p, NEW dying \in BOOLEAN,
           Laid(t, s, w, p, dying), w # <<>>
    PROVE  \E a \in Nat : TopCut(t, s, w, p, dying, a)
<1>1. PICK cut : Layout(t, s, w, p, dying, cut)
  BY DEF Laid
<1> DEFINE a == cut[Len(w)]
<1>2. a \in 0 .. Len(s) /\ Frame(s, a, Len(s), w[Len(w)], p)
  BY <1>1, TopFrame
<1>3. ASSUME NEW r, NEW q, Shares(r, s, a), Frame(r, a, Len(r), w[Len(w)], q)
      PROVE  Laid(t, r, w, q, dying)
  BY <1>1, <1>3, Replaced DEF Shares
<1>4. ASSUME NEW r, Shares(r, s, a), Len(r) = a PROVE Laid(t, r, Front(w), w[Len(w)], dying)
  BY <1>1, <1>4, Popped DEF Shares
<1> HIDE DEF a
<1>5. TopCut(t, s, w, p, dying, a)
  BY <1>2, <1>3, <1>4 DEF TopCut
<1> QED BY <1>2, <1>5

-----------------------------------------------------------------------------
(* Steps of the running task *)

LEMMA Records ==
    /\ \A p, r : Place(p, r).eip = p /\ Place(p, r).regs = r
    /\ \A v, to : Regs(v, to).value = v /\ Regs(v, to).to = to
    /\ \A p \in Names, r \in Registers : Place(p, r) \in Spots
    /\ \A to \in Names : Regs("none", to) \in Registers
    /\ NoRegs \in Registers
BY DEF Place, Regs, Spots, Registers, NoRegs, Names

\* What the invariant says of the task that runs.
LEMMA Here ==
    ASSUME TypeOK, Queue, Stacks
    PROVE  /\ running_task \in Tasks /\ running_task \in live
           /\ stack[running_task] \in Seq(Words) /\ trail[running_task] \in Seq(Spots)
           /\ Place(eip, regs) \in Spots
           /\ (running_task \in doomed) \in BOOLEAN
           /\ Laid(running_task, stack[running_task], trail[running_task], Place(eip, regs),
                   running_task \in doomed)
<1>1. running_task \in Tasks /\ running_task \in live
  BY DEF Queue
<1>2. stack[running_task] \in Seq(Words) /\ trail[running_task] \in Seq(Spots)
  BY <1>1 DEF TypeOK
<1>3. Place(eip, regs) \in Spots
  BY Records DEF TypeOK
<1>4. Goes(running_task) /\ Spot(running_task) = Place(eip, regs)
  BY DEF Goes, Spot
<1>5. Laid(running_task, stack[running_task], trail[running_task], Spot(running_task),
           running_task \in doomed)
  BY <1>1, <1>4 DEF Stacks
<1> QED BY <1>1, <1>2, <1>3, <1>4, <1>5

LEMMA LiveTasks ==
    ASSUME TypeOK, Queue
    PROVE  live \subseteq Tasks /\ running_task \in live /\ running_task \in Tasks
<1>1. running_task \in Tasks /\ live = {running_task} \cup {ready[i] : i \in 1 .. Len(ready)}
  BY DEF Queue
<1>2. \A i \in 1 .. Len(ready) : ready[i] \in Tasks
  BY DEF TypeOK
<1> QED BY <1>1, <1>2

\* A step of the running task leaves the stacks and trails of the others.
LEMMA Moved ==
    ASSUME TypeOK, Queue, Stacks, NEW r \in Seq(Words), NEW v \in Seq(Spots),
           stack' = [stack EXCEPT ![running_task] = r],
           trail' = [trail EXCEPT ![running_task] = v],
           eip' \in Names, regs' \in Registers, UNCHANGED scheduler,
           Laid(running_task, r, v, Place(eip', regs'), running_task \in doomed)
    PROVE  TypeOK' /\ Queue' /\ Stacks'
<1>1. UNCHANGED <<running_task, ready, doomed, live, saved>>
  BY DEF scheduler
<1>2. running_task \in Tasks /\ stack \in [Tasks -> Seq(Words)] /\ trail \in [Tasks -> Seq(Spots)]
  BY DEF TypeOK, Queue
<1>3. /\ stack' \in [Tasks -> Seq(Words)] /\ trail' \in [Tasks -> Seq(Spots)]
      /\ stack'[running_task] = r /\ trail'[running_task] = v
      /\ \A t \in Tasks : t # running_task => stack'[t] = stack[t] /\ trail'[t] = trail[t]
  BY <1>2
<1>4. TypeOK'
  BY <1>1, <1>3 DEF TypeOK
<1>5. Queue'
  BY <1>1 DEF Queue
<1>6. live \subseteq Tasks /\ running_task \in live
  BY LiveTasks
<1>7. ASSUME NEW t \in live, Goes(t)' PROVE Laid(t, stack'[t], trail'[t], Spot(t)', t \in doomed')
  <2>1. CASE t = running_task
    <3>1. Spot(t)' = Place(eip', regs')
      BY <1>1, <2>1 DEF Spot
    <3> QED BY <1>1, <1>3, <2>1, <3>1
  <2>2. CASE t # running_task
    <3>1. Spot(t)' = Spot(t) /\ Goes(t)
      BY <1>1, <1>7, <2>2 DEF Spot, Goes
    <3>2. Laid(t, stack[t], trail[t], Spot(t), t \in doomed)
      BY <3>1 DEF Stacks
    <3> QED BY <1>1, <1>3, <1>6, <2>2, <3>1, <3>2
  <2> QED BY <2>1, <2>2
<1>8. ASSUME NEW t \in live, t # running_task PROVE saved'[t].esp = Len(stack'[t])
  BY <1>1, <1>3, <1>6, <1>8 DEF Stacks
<1>9. ASSUME NEW t \in Tasks, t \notin live PROVE trail'[t] = <<>>
  BY <1>1, <1>3, <1>6, <1>9 DEF Stacks
<1>10. Stacks'
  BY <1>1, <1>7, <1>8, <1>9 DEF Stacks
<1> QED BY <1>4, <1>5, <1>10

\* A step that leaves the running task's trail as it is.
LEMMA Stayed ==
    ASSUME TypeOK, Queue, UNCHANGED trail
    PROVE  trail' = [trail EXCEPT ![running_task] = trail[running_task]]
BY DEF TypeOK, Queue

\* popal (isr_wrappers.s): the registers come back.
LEMMA PopalStep ==
    ASSUME TypeOK, Queue, Stacks, Popal
    PROVE  TypeOK' /\ Queue' /\ Stacks'
<1> DEFINE s == stack[running_task]
           w == trail[running_task]
           r == SubSeq(s, 1, Len(s) - 1)
<1>1. /\ s \in Seq(Words) /\ w \in Seq(Spots) /\ (running_task \in doomed) \in BOOLEAN
      /\ Laid(running_task, s, w, Place(eip, regs), running_task \in doomed)
  BY Here
<1>2. /\ eip = "popal" /\ regs' = s[Len(s)].regs /\ eip' = "addl"
      /\ stack' = [stack EXCEPT ![running_task] = r]
  BY DEF Popal, At, Top, Drop, Last
<1>3. trail' = [trail EXCEPT ![running_task] = w]
  BY Stayed DEF Popal
<1> HIDE DEF s, w
<1>4. w # <<>>
  <2>1. ~Base(running_task, s, Len(s), Place(eip, regs), running_task \in doomed)
    BY <1>2, Records DEF Base
  <2> QED BY <1>1, <2>1, Alone
<1>p. PICK a \in Nat : TopCut(running_task, s, w, Place(eip, regs), running_task \in doomed, a)
  BY <1>1, <1>4, OnTop
<1>5. /\ a <= Len(s) /\ Frame(s, a, Len(s), w[Len(w)], Place(eip, regs))
      /\ \A x, q : Shares(x, s, a) /\ Frame(x, a, Len(x), w[Len(w)], q)
                     => Laid(running_task, x, w, q, running_task \in doomed)
      /\ \A x : Shares(x, s, a) /\ Len(x) = a
                  => Laid(running_task, x, Front(w), w[Len(w)], running_task \in doomed)
  BY <1>p DEF TopCut
<1>6. Len(s) = a + 4 /\ s[a + 1].at = w[Len(w)].eip /\ s[a + 4].regs = w[Len(w)].regs
  BY <1>2, <1>5, Records DEF Frame
<1>7. r \in Seq(Words) /\ Len(r) = a + 3 /\ \A j \in 1 .. a + 3 : r[j] = s[j]
  <2>1. Len(s) - 1 \in 0 .. Len(s) /\ Len(s) - 1 = a + 3
    BY <1>5, <1>6
  <2> QED BY <1>1, <2>1, DropFacts
<1> HIDE DEF r
<1>8. regs' \in Registers /\ eip' \in Names
  <2>1. s[Len(s)] \in Words
    BY <1>1, <1>5, <1>6
  <2> QED BY <1>2, <2>1 DEF Words, Names
<1>9. Shares(r, s, a) /\ r[a + 1] = s[a + 1]
  BY <1>5, <1>7 DEF Shares
<1>10. Frame(r, a, Len(r), w[Len(w)], Place(eip', regs'))
  BY <1>2, <1>6, <1>7, <1>9, Records DEF Frame
<1>11. Laid(running_task, r, w, Place(eip', regs'), running_task \in doomed)
  BY <1>5, <1>9, <1>10
<1>12. UNCHANGED scheduler
  BY DEF Popal
<1> QED BY <1>1, <1>2, <1>3, <1>7, <1>8, <1>11, <1>12, Moved

\* addl $8: the number and the error code go.
LEMMA AddlStep ==
    ASSUME TypeOK, Queue, Stacks, Addl
    PROVE  TypeOK' /\ Queue' /\ Stacks'
<1> DEFINE s == stack[running_task]
           w == trail[running_task]
<1>1. /\ s \in Seq(Words) /\ w \in Seq(Spots) /\ (running_task \in doomed) \in BOOLEAN
      /\ Laid(running_task, s, w, Place(eip, regs), running_task \in doomed)
      /\ Place(eip, regs) \in Spots /\ eip \in Names /\ regs \in Registers
  BY Here DEF TypeOK
<1> DEFINE r == SubSeq(s, 1, Len(s) - 2)
<1>2. /\ eip = "addl" /\ regs' = regs /\ eip' = "iret"
      /\ stack' = [stack EXCEPT ![running_task] = r]
  BY DEF Addl, At, Drop
<1>3. trail' = [trail EXCEPT ![running_task] = w]
  BY Stayed DEF Addl
<1> HIDE DEF s, w
<1>4. w # <<>>
  <2>1. ~Base(running_task, s, Len(s), Place(eip, regs), running_task \in doomed)
    BY <1>2, Records DEF Base
  <2> QED BY <1>1, <2>1, Alone
<1>p. PICK a \in Nat : TopCut(running_task, s, w, Place(eip, regs), running_task \in doomed, a)
  BY <1>1, <1>4, OnTop
<1>5. /\ a <= Len(s) /\ Frame(s, a, Len(s), w[Len(w)], Place(eip, regs))
      /\ \A x, q : Shares(x, s, a) /\ Frame(x, a, Len(x), w[Len(w)], q)
                     => Laid(running_task, x, w, q, running_task \in doomed)
      /\ \A x : Shares(x, s, a) /\ Len(x) = a
                  => Laid(running_task, x, Front(w), w[Len(w)], running_task \in doomed)
  BY <1>p DEF TopCut
<1>6. Len(s) = a + 3 /\ s[a + 1].at = w[Len(w)].eip /\ regs = w[Len(w)].regs
  BY <1>2, <1>5, Records DEF Frame
<1>7. r \in Seq(Words) /\ Len(r) = a + 1 /\ \A j \in 1 .. a + 1 : r[j] = s[j]
  <2>1. Len(s) - 2 \in 0 .. Len(s) /\ Len(s) - 2 = a + 1
    BY <1>5, <1>6
  <2> QED BY <1>1, <2>1, DropFacts
<1> HIDE DEF r
<1>8. regs' \in Registers /\ eip' \in Names
  BY <1>1, <1>2 DEF Names
<1>9. Shares(r, s, a) /\ r[a + 1] = s[a + 1]
  BY <1>5, <1>7 DEF Shares
<1>10. Frame(r, a, Len(r), w[Len(w)], Place(eip', regs'))
  BY <1>2, <1>6, <1>7, <1>9, Records DEF Frame
<1>11. Laid(running_task, r, w, Place(eip', regs'), running_task \in doomed)
  BY <1>5, <1>9, <1>10
<1>12. UNCHANGED scheduler
  BY DEF Addl
<1> QED BY <1>1, <1>2, <1>3, <1>7, <1>8, <1>11, <1>12, Moved

LEMMA SamePlace ==
    ASSUME NEW x \in Spots, NEW p, NEW r, x.eip = p, x.regs = r
    PROVE  x = Place(p, r)
BY DEF Spots, Place

\* iret: back to the place that was interrupted, with the registers it had.
LEMMA IretStep ==
    ASSUME TypeOK, Queue, Stacks, Iret
    PROVE  /\ TypeOK' /\ Queue' /\ Stacks'
           /\ Last(trail[running_task]) = Place(eip', regs')
           /\ trail' = [trail EXCEPT ![running_task] = Front(trail[running_task])]
<1> DEFINE s == stack[running_task]
           w == trail[running_task]
<1>1. /\ s \in Seq(Words) /\ w \in Seq(Spots) /\ (running_task \in doomed) \in BOOLEAN
      /\ Laid(running_task, s, w, Place(eip, regs), running_task \in doomed)
      /\ Place(eip, regs) \in Spots /\ eip \in Names /\ regs \in Registers
  BY Here DEF TypeOK
<1> DEFINE r == SubSeq(s, 1, Len(s) - 1)
<1>2. /\ eip = "iret" /\ regs' = regs /\ eip' = s[Len(s)].at
      /\ stack' = [stack EXCEPT ![running_task] = r]
  BY DEF Iret, At, Drop, Top, Last
<1>3. trail' = [trail EXCEPT ![running_task] = Front(w)]
  BY DEF Iret, Back
<1> HIDE DEF s, w
<1>4. w # <<>>
  <2>1. ~Base(running_task, s, Len(s), Place(eip, regs), running_task \in doomed)
    BY <1>2, Records DEF Base
  <2> QED BY <1>1, <2>1, Alone
<1>p. PICK a \in Nat : TopCut(running_task, s, w, Place(eip, regs), running_task \in doomed, a)
  BY <1>1, <1>4, OnTop
<1>5. /\ a <= Len(s) /\ Frame(s, a, Len(s), w[Len(w)], Place(eip, regs))
      /\ \A x, q : Shares(x, s, a) /\ Frame(x, a, Len(x), w[Len(w)], q)
                     => Laid(running_task, x, w, q, running_task \in doomed)
      /\ \A x : Shares(x, s, a) /\ Len(x) = a
                  => Laid(running_task, x, Front(w), w[Len(w)], running_task \in doomed)
  BY <1>p DEF TopCut
<1>6. Len(s) = a + 1 /\ s[a + 1].at = w[Len(w)].eip /\ regs = w[Len(w)].regs
  BY <1>2, <1>5, Records DEF Frame
<1>7. r \in Seq(Words) /\ Len(r) = a /\ \A j \in 1 .. a : r[j] = s[j]
  <2>1. Len(s) - 1 \in 0 .. Len(s) /\ Len(s) - 1 = a
    BY <1>5, <1>6
  <2> QED BY <1>1, <2>1, DropFacts
<1> HIDE DEF r
<1>8. w[Len(w)] \in Spots
  BY <1>1, <1>4
<1>9. w[Len(w)] = Place(eip', regs')
  BY <1>2, <1>6, <1>8, SamePlace
<1>10. regs' \in Registers /\ eip' \in Names
  BY <1>2, <1>6, <1>8 DEF Spots
<1>11. Laid(running_task, r, Front(w), Place(eip', regs'), running_task \in doomed)
  <2>1. Shares(r, s, a)
    BY <1>5, <1>7 DEF Shares
  <2> QED BY <1>5, <1>7, <1>9, <2>1
<1>12. UNCHANGED scheduler
  BY DEF Iret
<1>13. Front(w) \in Seq(Spots)
  BY <1>1, <1>4, FrontFacts
<1>14. Last(w) = Place(eip', regs')
  BY <1>9 DEF Last
<1>15. TypeOK' /\ Queue' /\ Stacks'
  BY <1>2, <1>3, <1>7, <1>10, <1>11, <1>12, <1>13, Moved
<1> QED BY <1>3, <1>14, <1>15 DEF w

\* The jump of switch_task, into a new task's function or to where the task was.
LEMMA JumpStep ==
    ASSUME TypeOK, Queue, Stacks, Jump
    PROVE  TypeOK' /\ Queue' /\ Stacks'
<1> DEFINE s == stack[running_task]
           w == trail[running_task]
<1>1. /\ s \in Seq(Words) /\ w \in Seq(Spots) /\ (running_task \in doomed) \in BOOLEAN
      /\ Laid(running_task, s, w, Place(eip, regs), running_task \in doomed)
      /\ Place(eip, regs) \in Spots /\ eip \in Names /\ regs \in Registers
  BY Here DEF TypeOK
<1>2. eip = "jmp" /\ eip' = regs.to /\ regs' = regs
  BY DEF Jump, At
<1>3. trail' = [trail EXCEPT ![running_task] = w] /\ stack' = [stack EXCEPT ![running_task] = s]
  BY Stayed DEF Jump, TypeOK
<1> HIDE DEF s, w
<1>4. regs' \in Registers /\ eip' \in Names
  BY <1>1, <1>2 DEF Registers
<1>5. Laid(running_task, s, w, Place(eip', regs'), running_task \in doomed)
  <2>1. CASE w = <<>>
    <3>1. Base(running_task, s, Len(s), Place(eip, regs), running_task \in doomed)
      BY <1>1, <2>1, Alone
    <3>2. Base(running_task, s, Len(s), Place(eip', regs'), running_task \in doomed)
      BY <1>2, <3>1, Records DEF Base
    <3> QED BY <1>1, <2>1, <3>2, Bottom
  <2>2. CASE w # <<>>
    <3>p. PICK a \in Nat : TopCut(running_task, s, w, Place(eip, regs), running_task \in doomed, a)
      BY <1>1, <2>2, OnTop
    <3>1. /\ a <= Len(s) /\ Frame(s, a, Len(s), w[Len(w)], Place(eip, regs))
          /\ \A x, q : Shares(x, s, a) /\ Frame(x, a, Len(x), w[Len(w)], q)
                         => Laid(running_task, x, w, q, running_task \in doomed)
          /\ \A x : Shares(x, s, a) /\ Len(x) = a
                      => Laid(running_task, x, Front(w), w[Len(w)], running_task \in doomed)
      BY <3>p DEF TopCut
    <3>2. Frame(s, a, Len(s), w[Len(w)], Place(eip', regs'))
      BY <1>2, <3>1, Records DEF Frame
    <3>3. Shares(s, s, a)
      BY <1>1, <3>1 DEF Shares
    <3> QED BY <3>1, <3>2, <3>3
  <2> QED BY <2>1, <2>2
<1>6. UNCHANGED scheduler
  BY DEF Jump
<1> QED BY <1>1, <1>3, <1>4, <1>5, <1>6, Moved

\* The return of a resumed switch_task, to the timer's handler or to sched_yield's caller.
LEMMA ResumedStep ==
    ASSUME TypeOK, Queue, Stacks, Resumed
    PROVE  /\ TypeOK' /\ Queue' /\ Stacks'
           /\ \/ UNCHANGED trail
              \/ /\ Last(trail[running_task]) = Place(eip', regs')
                 /\ trail' = [trail EXCEPT ![running_task] = Front(trail[running_task])]
<1> DEFINE s == stack[running_task]
           w == trail[running_task]
<1>1. /\ s \in Seq(Words) /\ w \in Seq(Spots) /\ (running_task \in doomed) \in BOOLEAN
      /\ Laid(running_task, s, w, Place(eip, regs), running_task \in doomed)
      /\ Place(eip, regs) \in Spots /\ eip \in Names /\ regs \in Registers
  BY Here DEF TypeOK
<1> DEFINE r == SubSeq(s, 1, Len(s) - 1)
<1>2. /\ eip = "resumed" /\ regs' = s[Len(s)].regs /\ eip' = s[Len(s)].at
      /\ stack' = [stack EXCEPT ![running_task] = r]
  BY DEF Resumed, At, Drop, Top, Last
<1>3. IF s[Len(s)].at = "code" THEN trail' = [trail EXCEPT ![running_task] = Front(w)] ELSE UNCHANGED trail
  BY DEF Resumed, Back, Top, Last
<1>12. UNCHANGED scheduler
  BY DEF Resumed
<1>13. UNCHANGED trail => trail' = [trail EXCEPT ![running_task] = w]
  BY Stayed
<1> HIDE DEF s, w
<1>4. w # <<>>
  <2>1. ~Base(running_task, s, Len(s), Place(eip, regs), running_task \in doomed)
    BY <1>2, Records DEF Base
  <2> QED BY <1>1, <2>1, Alone
<1>p. PICK a \in Nat : TopCut(running_task, s, w, Place(eip, regs), running_task \in doomed, a)
  BY <1>1, <1>4, OnTop
<1>5. /\ a <= Len(s) /\ Frame(s, a, Len(s), w[Len(w)], Place(eip, regs))
      /\ \A x, q : Shares(x, s, a) /\ Frame(x, a, Len(x), w[Len(w)], q)
                     => Laid(running_task, x, w, q, running_task \in doomed)
      /\ \A x : Shares(x, s, a) /\ Len(x) = a
                  => Laid(running_task, x, Front(w), w[Len(w)], running_task \in doomed)
  BY <1>p DEF TopCut
<1>6. Len(s) - 1 \in 0 .. Len(s) /\ s[Len(s)] \in Words
  <2>1. Len(s) \in {a + 1, a + 5}
    BY <1>2, <1>5, Records DEF Frame
  <2> QED BY <1>1, <1>5, <2>1
<1>7. r \in Seq(Words) /\ Len(r) = Len(s) - 1 /\ \A j \in 1 .. Len(s) - 1 : r[j] = s[j]
  BY <1>1, <1>6, DropFacts
<1>8. regs' \in Registers /\ eip' \in Names
  BY <1>2, <1>6 DEF Words
<1> HIDE DEF r
<1>9. CASE /\ Len(s) = a + 5 /\ s[a + 1].at = w[Len(w)].eip /\ s[a + 4].regs = w[Len(w)].regs
           /\ s[a + 5].at = "popal"
  <2>1. /\ Shares(r, s, a) /\ r[a + 1] = s[a + 1] /\ r[a + 4] = s[a + 4] /\ Len(r) = a + 4
        /\ eip' = "popal"
    BY <1>2, <1>5, <1>7, <1>9 DEF Shares
  <2>2. Frame(r, a, Len(r), w[Len(w)], Place(eip', regs'))
    BY <1>9, <2>1, Records DEF Frame
  <2>3. Laid(running_task, r, w, Place(eip', regs'), running_task \in doomed)
    BY <1>5, <2>1, <2>2
  <2>4. UNCHANGED trail
    BY <1>3, <1>9
  <2> QED BY <1>1, <1>2, <1>7, <1>8, <1>12, <1>13, <2>3, <2>4, Moved
<1>10. CASE /\ Len(s) = a + 1 /\ w[Len(w)].eip = "code" /\ s[a + 1].at = "code"
            /\ s[a + 1].regs = w[Len(w)].regs
  <2>1. Shares(r, s, a) /\ Len(r) = a
    BY <1>5, <1>7, <1>10 DEF Shares
  <2>2. w[Len(w)] \in Spots
    BY <1>1, <1>4
  <2>3. w[Len(w)] = Place(eip', regs')
    BY <1>2, <1>10, <2>2, SamePlace
  <2>4. Laid(running_task, r, Front(w), Place(eip', regs'), running_task \in doomed)
    BY <1>5, <2>1, <2>3
  <2>5. Front(w) \in Seq(Spots)
    BY <1>1, <1>4, FrontFacts
  <2>6. trail' = [trail EXCEPT ![running_task] = Front(w)]
    BY <1>3, <1>10
  <2>7. TypeOK' /\ Queue' /\ Stacks'
    BY <1>2, <1>7, <1>8, <1>12, <2>4, <2>5, <2>6, Moved
  <2> QED BY <2>3, <2>6, <2>7 DEF w, Last
<1> QED BY <1>2, <1>5, <1>9, <1>10, Records DEF Frame

\* In its own code, or on the way out of it, a task has not been taken away.
LEMMA InCode ==
    ASSUME TypeOK, Queue, Stacks, eip \in {"code", "sched_kill"}
    PROVE  /\ trail[running_task] = <<>>
           /\ Base(running_task, stack[running_task], Len(stack[running_task]), Place(eip, regs),
                   running_task \in doomed)
<1> DEFINE s == stack[running_task]
           w == trail[running_task]
<1>1. /\ s \in Seq(Words) /\ w \in Seq(Spots) /\ (running_task \in doomed) \in BOOLEAN
      /\ Laid(running_task, s, w, Place(eip, regs), running_task \in doomed)
      /\ Place(eip, regs) \in Spots /\ eip \in Names /\ regs \in Registers
  BY Here DEF TypeOK
<1> HIDE DEF s, w
<1>2. w = <<>>
  <2> SUFFICES ASSUME w # <<>> PROVE FALSE
    OBVIOUS
  <2>1. PICK a \in Nat : TopCut(running_task, s, w, Place(eip, regs), running_task \in doomed, a)
    BY <1>1, OnTop
  <2>2. Frame(s, a, Len(s), w[Len(w)], Place(eip, regs))
    BY <2>1 DEF TopCut
  <2> QED BY <2>2, Records DEF Frame
<1>3. Base(running_task, s, Len(s), Place(eip, regs), running_task \in doomed)
  BY <1>1, <1>2, Alone
<1> QED BY <1>2, <1>3 DEF s, w

LEMMA ComputeStep ==
    ASSUME TypeOK, Queue, Stacks, Compute
    PROVE  TypeOK' /\ Queue' /\ Stacks'
<1> DEFINE s == stack[running_task]
           w == trail[running_task]
<1>1. /\ s \in Seq(Words) /\ w \in Seq(Spots) /\ (running_task \in doomed) \in BOOLEAN
      /\ Laid(running_task, s, w, Place(eip, regs), running_task \in doomed)
      /\ Place(eip, regs) \in Spots /\ eip \in Names /\ regs \in Registers
  BY Here DEF TypeOK
<1>2. eip = "code" /\ eip' = "code" /\ regs' \in {Regs(v, "none") : v \in Values}
  BY DEF Compute, At
<1>3. trail' = [trail EXCEPT ![running_task] = w] /\ stack' = [stack EXCEPT ![running_task] = s]
  BY Stayed DEF Compute, TypeOK
<1>4. w = <<>> /\ Base(running_task, s, Len(s), Place(eip, regs), running_task \in doomed)
  BY <1>2, InCode
<1> HIDE DEF s, w
<1>5. eip' \in Names /\ regs' \in Registers
  BY <1>2 DEF Names, Registers, Regs
<1>6. Base(running_task, s, Len(s), Place(eip', regs'), running_task \in doomed)
  BY <1>2, <1>4, Records DEF Base
<1>7. Laid(running_task, s, w, Place(eip', regs'), running_task \in doomed)
  BY <1>1, <1>4, <1>6, Bottom
<1>8. UNCHANGED scheduler
  BY DEF Compute
<1> QED BY <1>1, <1>3, <1>5, <1>7, <1>8, Moved

LEMMA Rets ==
    /\ \A at \in Names, r \in Registers : Ret(at, r) \in Words /\ Ret(at, r).at = at /\ Ret(at, r).regs = r
    /\ \A kind, n, at, r : /\ Word(kind, n, at, r).at = at /\ Word(kind, n, at, r).regs = r
                           /\ Word(kind, n, at, r).n = n
    /\ \A kind \in Kinds, n \in Nat, at \in Names, r \in Registers : Word(kind, n, at, r) \in Words
BY DEF Ret, Word, Words, Kinds

LEMMA Joined ==
    ASSUME NEW s \in Seq(Words), NEW x \in Seq(Words)
    PROVE  /\ s \o x \in Seq(Words) /\ Len(s \o x) = Len(s) + Len(x)
           /\ \A j \in 1 .. Len(s) : (s \o x)[j] = s[j]
OBVIOUS

LEMMA JoinedAt ==
    ASSUME NEW s \in Seq(Words), NEW x \in Seq(Words), NEW j \in 1 .. Len(x)
    PROVE  (s \o x)[Len(s) + j] = x[j]
OBVIOUS

\* The call of sched_yield.
LEMMA YieldStep ==
    ASSUME TypeOK, Queue, Stacks, sched_yield
    PROVE  TypeOK' /\ Queue' /\ Stacks'
<1> DEFINE s == stack[running_task]
           w == trail[running_task]
<1>1. /\ s \in Seq(Words) /\ w \in Seq(Spots) /\ (running_task \in doomed) \in BOOLEAN
      /\ Laid(running_task, s, w, Place(eip, regs), running_task \in doomed)
      /\ Place(eip, regs) \in Spots /\ eip \in Names /\ regs \in Registers
  BY Here DEF TypeOK
<1> DEFINE x == <<Ret("code", regs)>>
           r == s \o x
           v == Append(w, Place(eip, regs))
<1>2. /\ eip = "code" /\ eip' = "switch_task" /\ regs' = regs
      /\ stack' = [stack EXCEPT ![running_task] = r]
      /\ trail' = [trail EXCEPT ![running_task] = v]
  BY DEF sched_yield, At, Push, Leave
<1> HIDE DEF s, w
<1>3. x \in Seq(Words) /\ Len(x) = 1 /\ x[1] = Ret("code", regs)
  BY <1>1, Rets DEF Names
<1> HIDE DEF x
<1>4. /\ r \in Seq(Words) /\ Len(r) = Len(s) + 1 /\ r[Len(s) + 1] = Ret("code", regs)
      /\ \A j \in 1 .. Len(s) : r[j] = s[j]
  <2>1. 1 \in 1 .. Len(x)
    BY <1>3
  <2>2. r \in Seq(Words) /\ Len(r) = Len(s) + Len(x) /\ \A j \in 1 .. Len(s) : r[j] = s[j]
    BY <1>1, <1>3, Joined
  <2>3. r[Len(s) + 1] = x[1]
    BY <1>1, <1>3, <2>1, JoinedAt
  <2> HIDE DEF r
  <2> QED BY <1>3, <2>2, <2>3
<1> HIDE DEF r
<1>5. Frame(r, Len(s), Len(r), Place(eip, regs), Place(eip', regs'))
  BY <1>1, <1>2, <1>4, Records, Rets DEF Frame
<1>6. Len(s) <= Len(r)
  BY <1>1, <1>4
<1>7. Laid(running_task, r, v, Place(eip', regs'), running_task \in doomed)
  BY <1>1, <1>4, <1>5, <1>6, Pushed
<1>8. v \in Seq(Spots)
  BY <1>1
<1>9. eip' \in Names /\ regs' \in Registers
  BY <1>1, <1>2 DEF Names
<1>10. UNCHANGED scheduler
  BY DEF sched_yield
<1> HIDE DEF v
<1> QED BY <1>2, <1>4, <1>7, <1>8, <1>9, <1>10, Moved

\* The return of a task's function goes to the address setup_stack left for it.
LEMMA ReturnStep ==
    ASSUME TypeOK, Queue, Stacks, Return
    PROVE  TypeOK' /\ Queue' /\ Stacks'
<1> DEFINE s == stack[running_task]
           w == trail[running_task]
<1>1. /\ s \in Seq(Words) /\ w \in Seq(Spots) /\ (running_task \in doomed) \in BOOLEAN
      /\ Laid(running_task, s, w, Place(eip, regs), running_task \in doomed)
      /\ Place(eip, regs) \in Spots /\ eip \in Names /\ regs \in Registers
  BY Here DEF TypeOK
<1> DEFINE r == SubSeq(s, 1, Len(s) - 1)
<1>2. /\ eip = "code" /\ running_task # Idle /\ eip' = s[Len(s)].at /\ regs' = regs
      /\ stack' = [stack EXCEPT ![running_task] = r]
  BY DEF Return, At, Drop, Top, Last
<1>3. trail' = [trail EXCEPT ![running_task] = w]
  BY Stayed DEF Return
<1>4. w = <<>> /\ Base(running_task, s, Len(s), Place(eip, regs), running_task \in doomed)
  BY <1>2, InCode
<1> HIDE DEF s, w
<1>5. Len(s) = 2 /\ s[2].at = "sched_kill"
  BY <1>2, <1>4, Records DEF Base
<1>6. r \in Seq(Words) /\ Len(r) = 1
  <2>1. Len(s) - 1 \in 0 .. Len(s) /\ Len(s) - 1 = 1
    BY <1>5
  <2>2. r \in Seq(Words) /\ Len(r) = Len(s) - 1
    <3> DEFINE k == Len(s) - 1
    <3>1. k \in 0 .. Len(s)
      BY <2>1
    <3> HIDE DEF k
    <3>2. SubSeq(s, 1, k) \in Seq(Words) /\ Len(SubSeq(s, 1, k)) = k
      BY <1>1, <3>1, DropFacts
    <3> QED BY <3>2 DEF k
  <2> HIDE DEF r
  <2> QED BY <2>1, <2>2
<1> HIDE DEF r
<1>7. Base(running_task, r, Len(r), Place(eip', regs'), running_task \in doomed)
  BY <1>2, <1>5, <1>6, Records DEF Base
<1>8. Laid(running_task, r, w, Place(eip', regs'), running_task \in doomed)
  BY <1>1, <1>4, <1>6, <1>7, Bottom
<1>9. eip' \in Names /\ regs' \in Registers
  BY <1>1, <1>2, <1>5 DEF Names
<1>10. UNCHANGED scheduler
  BY DEF Return
<1> QED BY <1>1, <1>2, <1>3, <1>6, <1>8, <1>9, <1>10, Moved

-----------------------------------------------------------------------------
(* Interrupts *)

LEMMA FourWords ==
    ASSUME NEW x \in Seq(Words), NEW c \in Words, NEW d \in Words, Len(x) = 2
    PROVE  /\ x \o <<c, d>> \in Seq(Words) /\ Len(x \o <<c, d>>) = 4
           /\ (x \o <<c, d>>)[1] = x[1] /\ (x \o <<c, d>>)[3] = c /\ (x \o <<c, d>>)[4] = d
<1> DEFINE y == <<c, d>>
<1>1. y \in Seq(Words) /\ Len(y) = 2 /\ y[1] = c /\ y[2] = d
  OBVIOUS
<1> HIDE DEF y
<1>2. 1 \in 1 .. Len(x) /\ 1 \in 1 .. Len(y) /\ 2 \in 1 .. Len(y)
  BY <1>1
<1>3. /\ x \o y \in Seq(Words) /\ Len(x \o y) = Len(x) + Len(y) /\ (x \o y)[1] = x[1]
      /\ (x \o y)[Len(x) + 1] = y[1] /\ (x \o y)[Len(x) + 2] = y[2]
  <2>1. x \o y \in Seq(Words) /\ Len(x \o y) = Len(x) + Len(y) /\ (x \o y)[1] = x[1]
    BY <1>1, <1>2, Joined
  <2>2. (x \o y)[Len(x) + 1] = y[1]
    BY <1>1, <1>2, JoinedAt
  <2>3. (x \o y)[Len(x) + 2] = y[2]
    BY <1>1, <1>2, JoinedAt
  <2> QED BY <2>1, <2>2, <2>3
<1>4. Len(x) + Len(y) = 4 /\ Len(x) + 1 = 3 /\ Len(x) + 2 = 4
  BY <1>1
<1>5. x \o y \in Seq(Words) /\ Len(x \o y) = 4 /\ (x \o y)[1] = x[1] /\ (x \o y)[3] = c /\ (x \o y)[4] = d
  BY <1>1, <1>3, <1>4
<1> QED BY <1>5 DEF y

\* For every wrapper there is one word between the CPU's frame and the number.
LEMMA EntryWords ==
    ASSUME NEW v \in Vectors, eip \in Names, regs \in Registers
    PROVE  /\ v \in Nat /\ Entry(v) \in Seq(Words) /\ Len(Entry(v)) = 4
           /\ Entry(v)[1].at = eip /\ Entry(v)[3].n = v /\ Entry(v)[4].regs = regs
<1>1. v \in Wrapped /\ v \in Nat
  BY ContextAssumption DEF Wrapped, IrqVectors
<1>2. v \in HasErrorCode <=> ~PushesDummy(v)
  BY <1>1 DEF Wrapped, HasErrorCode, PushesDummy, IrqVectors
<1> DEFINE first == Word("iret", 0, eip, NoRegs)
           number == Word("number", v, "none", NoRegs)
           last == Word("pushal", 0, "none", regs)
           error == Word("error", 0, "none", NoRegs)
           dummy == Word("dummy", 0, "none", NoRegs)
<1>3. /\ first \in Words /\ number \in Words /\ last \in Words /\ error \in Words /\ dummy \in Words
      /\ first.at = eip /\ number.n = v /\ last.regs = regs
  <2>1. "none" \in Names /\ {"iret", "number", "pushal", "error", "dummy"} \subseteq Kinds /\ NoRegs \in Registers
    BY Records DEF Names, Kinds
  <2>2. first \in Words /\ error \in Words /\ dummy \in Words
    BY <2>1, Rets
  <2>3. number \in Words /\ last \in Words
    BY <1>1, <2>1, Rets
  <2>4. first.at = eip /\ number.n = v /\ last.regs = regs
    BY Rets
  <2> QED BY <2>2, <2>3, <2>4
<1>4. Entry(v) = <<first>> \o (IF v \in HasErrorCode THEN <<error>> ELSE <<>>)
                   \o (IF PushesDummy(v) THEN <<dummy>> ELSE <<>>) \o <<number, last>>
  BY DEF Entry
<1> HIDE DEF first, number, last, error, dummy
<1>5. CASE v \in HasErrorCode
  <2>1. Entry(v) = (<<first>> \o <<error>>) \o <<>> \o <<number, last>>
    BY <1>2, <1>4, <1>5
  <2>2. (<<first>> \o <<error>>) \o <<>> \in Seq(Words) /\ Len((<<first>> \o <<error>>) \o <<>>) = 2 /\ ((<<first>> \o <<error>>) \o <<>>)[1] = first
    BY <1>3
  <2> QED BY <1>1, <1>3, <2>1, <2>2, FourWords
<1>6. CASE v \notin HasErrorCode
  <2>1. Entry(v) = (<<first>> \o <<>>) \o <<dummy>> \o <<number, last>>
    BY <1>2, <1>4, <1>6
  <2>2. (<<first>> \o <<>>) \o <<dummy>> \in Seq(Words) /\ Len((<<first>> \o <<>>) \o <<dummy>>) = 2 /\ ((<<first>> \o <<>>) \o <<dummy>>)[1] = first
    BY <1>3
  <2> QED BY <1>1, <1>3, <2>1, <2>2, FourWords
<1> QED BY <1>5, <1>6

\* What isr_handler finds in regs_t.
LEMMA Registered ==
    ASSUME TypeOK, Queue, Stacks, NEW v \in Vectors
    PROVE  int_no(stack[running_task] \o Entry(v)) = v /\ err_eip(stack[running_task] \o Entry(v)) = eip
<1> DEFINE s == stack[running_task]
           w == trail[running_task]
<1>1. /\ s \in Seq(Words) /\ w \in Seq(Spots) /\ (running_task \in doomed) \in BOOLEAN
      /\ Laid(running_task, s, w, Place(eip, regs), running_task \in doomed)
      /\ Place(eip, regs) \in Spots /\ eip \in Names /\ regs \in Registers
  BY Here DEF TypeOK
<1> DEFINE e == Entry(v)
           r == s \o e
<1>2. /\ v \in Nat /\ e \in Seq(Words) /\ Len(e) = 4
      /\ e[1].at = eip /\ e[3].n = v /\ e[4].regs = regs
  BY <1>1, EntryWords
<1> HIDE DEF s, w, e
<1>3. Len(r) = Len(s) + 4 /\ r[Len(s) + 1] = e[1] /\ r[Len(s) + 3] = e[3]
  <2>1. 1 \in 1 .. Len(e) /\ 3 \in 1 .. Len(e)
    BY <1>2
  <2>2. Len(r) = Len(s) + Len(e)
    BY <1>1, <1>2, Joined
  <2>3. r[Len(s) + 1] = e[1] /\ r[Len(s) + 3] = e[3]
    BY <1>1, <1>2, <2>1, JoinedAt
  <2> HIDE DEF r
  <2> QED BY <1>2, <2>2, <2>3
<1>4. Len(s) \in Nat
  BY <1>1
<1> HIDE DEF r
<1>5. int_no(r) = v /\ err_eip(r) = eip
  <2>1. Len(r) - 1 = Len(s) + 3 /\ Len(r) - 3 = Len(s) + 1
    BY <1>3, <1>4
  <2> QED BY <1>2, <1>3, <2>1 DEF int_no, err_eip
<1> QED BY <1>5 DEF r, s, e

\* An interrupt, down to the call of switch_task or the end of its handler.
LEMMA InterruptStep ==
    ASSUME TypeOK, Queue, Stacks, NEW v \in Vectors, Interrupt(v), report' = <<>>
    PROVE  TypeOK' /\ Queue' /\ Stacks'
<1> DEFINE s == stack[running_task]
           w == trail[running_task]
<1>1. /\ s \in Seq(Words) /\ w \in Seq(Spots) /\ (running_task \in doomed) \in BOOLEAN
      /\ Laid(running_task, s, w, Place(eip, regs), running_task \in doomed)
      /\ Place(eip, regs) \in Spots /\ eip \in Names /\ regs \in Registers
  BY Here DEF TypeOK
<1> DEFINE e == Entry(v)
           r == s \o e
           u == Append(w, Place(eip, regs))
<1>2. Tick(r) \/ Handler(r)
  <2>1. Fatal(v, r) => report' # <<>>
    BY DEF Fatal
  <2> QED BY <2>1 DEF Interrupt
<1>3. trail' = [trail EXCEPT ![running_task] = u] /\ UNCHANGED scheduler
  BY DEF Interrupt, Leave
<1>4. e \in Seq(Words) /\ Len(e) = 4 /\ e[1].at = eip /\ e[4].regs = regs
  BY <1>1, EntryWords
<1> HIDE DEF s, w, e
<1>5. /\ r \in Seq(Words) /\ Len(r) = Len(s) + 4 /\ \A j \in 1 .. Len(s) : r[j] = s[j]
      /\ r[Len(s) + 1] = e[1] /\ r[Len(s) + 4] = e[4]
  <2>1. 1 \in 1 .. Len(e) /\ 4 \in 1 .. Len(e)
    BY <1>4
  <2>2. r \in Seq(Words) /\ Len(r) = Len(s) + Len(e) /\ \A j \in 1 .. Len(s) : r[j] = s[j]
    BY <1>1, <1>4, Joined
  <2>3. r[Len(s) + 1] = e[1] /\ r[Len(s) + 4] = e[4]
    BY <1>1, <1>4, <2>1, JoinedAt
  <2> HIDE DEF r
  <2> QED BY <1>4, <2>2, <2>3
<1>6. u \in Seq(Spots)
  BY <1>1
<1>7. CASE Handler(r)
  <2>1. eip' = "popal" /\ regs' = NoRegs /\ stack' = [stack EXCEPT ![running_task] = r]
    BY <1>7 DEF Handler
  <2> HIDE DEF r
  <2>2. Frame(r, Len(s), Len(r), Place(eip, regs), Place(eip', regs'))
    BY <1>4, <1>5, <2>1, Records DEF Frame
  <2>3. Len(s) <= Len(r)
    BY <1>1, <1>5
  <2>4. Laid(running_task, r, u, Place(eip', regs'), running_task \in doomed)
    BY <1>1, <1>5, <2>2, <2>3, Pushed
  <2>5. eip' \in Names /\ regs' \in Registers
    BY <2>1, Records DEF Names
  <2> HIDE DEF u
  <2> QED BY <1>3, <1>5, <1>6, <2>1, <2>4, <2>5, Moved
<1>8. CASE Tick(r)
  <2> DEFINE z == Append(r, Ret("popal", regs))
  <2>1. eip' = "switch_task" /\ regs' = regs /\ stack' = [stack EXCEPT ![running_task] = z]
    BY <1>8 DEF Tick
  <2> HIDE DEF r
  <2>2. Ret("popal", regs) \in Words /\ Ret("popal", regs).at = "popal"
    BY <1>1, Rets DEF Names
  <2>3. /\ z \in Seq(Words) /\ Len(z) = Len(r) + 1 /\ z[Len(r) + 1] = Ret("popal", regs)
        /\ \A j \in 1 .. Len(r) : z[j] = r[j]
    BY <1>5, <2>2
  <2> HIDE DEF z
  <2>4. /\ Len(z) = Len(s) + 5 /\ \A j \in 1 .. Len(s) + 4 : z[j] = r[j]
        /\ z[Len(s) + 5] = Ret("popal", regs)
    <3>1. Len(s) \in Nat
      BY <1>1
    <3>2. Len(r) + 1 = Len(s) + 5
      BY <1>5, <3>1
    <3> QED BY <1>5, <2>3, <3>2
  <2>5. Len(s) \in Nat /\ Len(s) + 1 \in 1 .. Len(s) + 4 /\ Len(s) + 4 \in 1 .. Len(s) + 4
    BY <1>1
  <2>6. Frame(z, Len(s), Len(z), Place(eip, regs), Place(eip', regs'))
    <3>1. z[Len(s) + 1].at = eip /\ z[Len(s) + 4].regs = regs /\ z[Len(s) + 5].at = "popal"
      BY <1>4, <1>5, <2>2, <2>4, <2>5
    <3> QED BY <2>1, <2>4, <3>1, Records DEF Frame
  <2>7. Len(s) <= Len(z) /\ \A j \in 1 .. Len(s) : z[j] = s[j]
    BY <1>5, <2>4, <2>5
  <2>8. Laid(running_task, z, u, Place(eip', regs'), running_task \in doomed)
    BY <1>1, <2>3, <2>6, <2>7, Pushed
  <2>9. eip' \in Names /\ regs' \in Registers
    BY <1>1, <2>1 DEF Names
  <2> HIDE DEF u
  <2> QED BY <1>3, <1>6, <2>1, <2>3, <2>8, <2>9, Moved
<1> QED BY <1>2, <1>7, <1>8

-----------------------------------------------------------------------------
(* Tasks come and go *)

\* create_kernel_task: the image of setup_stack, and a first jump to the task's function.
LEMMA CreateStep ==
    ASSUME TypeOK, Queue, Stacks, NEW new \in Tasks, create_kernel_task(new)
    PROVE  TypeOK' /\ Queue' /\ Stacks'
<1>1. /\ new \notin live /\ live' = live \cup {new} /\ ready' = Append(ready, new)
      /\ saved' = [saved EXCEPT ![new] = [eip |-> "code", esp |-> Len(Image)]]
      /\ stack' = [stack EXCEPT ![new] = Image]
      /\ UNCHANGED <<running_task, doomed, eip, regs, trail>>
  BY DEF create_kernel_task
<1>2. Image \in Seq(Words) /\ Len(Image) = 2 /\ Image[2].at = "sched_kill"
  <2>1. "sched_kill" \in Names /\ "none" \in Names /\ "unused" \in Kinds /\ NoRegs \in Registers
    BY Records DEF Names, Kinds
  <2>2. Word("unused", 0, "none", NoRegs) \in Words /\ Ret("sched_kill", NoRegs) \in Words
    BY <2>1, Rets
  <2>3. Ret("sched_kill", NoRegs).at = "sched_kill"
    BY <2>1, Rets
  <2> QED BY <2>2, <2>3 DEF Image
<1>3. /\ ready \in Seq(Tasks) /\ saved \in [Tasks -> [eip : Names, esp : Nat]]
      /\ stack \in [Tasks -> Seq(Words)] /\ trail \in [Tasks -> Seq(Spots)]
  BY DEF TypeOK
<1>4. /\ ready' \in Seq(Tasks) /\ Len(ready') = Len(ready) + 1 /\ ready'[Len(ready) + 1] = new
      /\ \A i \in 1 .. Len(ready) : ready'[i] = ready[i]
  BY <1>1, <1>3
<1>5. TypeOK'
  <2>1. saved' \in [Tasks -> [eip : Names, esp : Nat]]
    BY <1>1, <1>2, <1>3 DEF Names
  <2>2. stack' \in [Tasks -> Seq(Words)]
    BY <1>1, <1>2, <1>3
  <2> QED BY <1>1, <1>4, <2>1, <2>2 DEF TypeOK
<1>6. live \subseteq Tasks /\ running_task \in live /\ new # running_task
  BY <1>1, LiveTasks
<1>7. Queue'
  <2>1. \A i \in 1 .. Len(ready) : ready[i] # new /\ ready[i] # running_task
    BY <1>1 DEF Queue
  <2>2. \A i \in 1 .. Len(ready') : i = Len(ready) + 1 \/ i \in 1 .. Len(ready)
    BY <1>3, <1>4
  <2>3. \A i, j \in 1 .. Len(ready') : i # j => ready'[i] # ready'[j]
    BY <1>4, <2>1, <2>2 DEF Queue
  <2>4. \A i \in 1 .. Len(ready') : ready'[i] # running_task
    BY <1>4, <1>6, <2>1, <2>2
  <2>5. {ready'[i] : i \in 1 .. Len(ready')} = {ready[i] : i \in 1 .. Len(ready)} \cup {new}
    <3>1. Len(ready) + 1 \in 1 .. Len(ready') /\ 1 .. Len(ready) \subseteq 1 .. Len(ready')
      BY <1>3, <1>4
    <3> QED BY <1>4, <2>2, <3>1
  <2>6. live' = {running_task'} \cup {ready'[i] : i \in 1 .. Len(ready')}
    BY <1>1, <2>5 DEF Queue
  <2> QED BY <1>1, <2>3, <2>4, <2>6 DEF Queue
<1>8. ASSUME NEW t \in live', Goes(t)' PROVE Laid(t, stack'[t], trail'[t], Spot(t)', t \in doomed')
  <2>1. CASE t = new
    <3>1. Spot(t)' = Place("jmp", Regs("none", "code")) /\ trail'[t] = <<>> /\ stack'[t] = Image
      <4>1. saved'[new].eip = "code"
        BY <1>1, <1>3
      <4> QED BY <1>1, <1>3, <1>6, <2>1, <4>1 DEF Spot, Stacks
    <3>2. t # Idle
      BY <1>1, <2>1 DEF Queue
    <3>3. Base(t, Image, Len(Image), Place("jmp", Regs("none", "code")), t \in doomed')
      BY <1>2, <3>2, Records DEF Base
    <3>4. (t \in doomed') \in BOOLEAN
      OBVIOUS
    <3> QED BY <1>2, <3>1, <3>3, <3>4, Bottom
  <2>2. CASE t # new
    <3>1. t \in live /\ t \in Tasks
      BY <1>1, <1>6, <2>2
    <3>2. /\ Spot(t)' = Spot(t) /\ Goes(t) /\ stack'[t] = stack[t] /\ trail'[t] = trail[t]
          /\ (t \in doomed') = (t \in doomed)
      BY <1>1, <1>3, <1>8, <2>2, <3>1 DEF Spot, Goes
    <3>3. Laid(t, stack[t], trail[t], Spot(t), t \in doomed)
      BY <3>1, <3>2 DEF Stacks
    <3> QED BY <3>2, <3>3
  <2> QED BY <2>1, <2>2
<1>9. ASSUME NEW t \in live', t # running_task' PROVE saved'[t].esp = Len(stack'[t])
  BY <1>1, <1>2, <1>3, <1>6, <1>9 DEF Stacks
<1>10. ASSUME NEW t \in Tasks, t \notin live' PROVE trail'[t] = <<>>
  BY <1>1, <1>10 DEF Stacks
<1>11. Stacks'
  BY <1>8, <1>9, <1>10 DEF Stacks
<1> QED BY <1>5, <1>7, <1>11

\* sched_kill marks the task for destruction and calls switch_task.
LEMMA KillStep ==
    ASSUME TypeOK, Queue, Stacks, sched_kill
    PROVE  TypeOK' /\ Queue' /\ Stacks'
<1> DEFINE s == stack[running_task]
           w == trail[running_task]
<1>1. /\ s \in Seq(Words) /\ w \in Seq(Spots) /\ (running_task \in doomed) \in BOOLEAN
      /\ Laid(running_task, s, w, Place(eip, regs), running_task \in doomed)
      /\ Place(eip, regs) \in Spots /\ eip \in Names /\ regs \in Registers
  BY Here DEF TypeOK
<1> DEFINE x == <<Ret("sched_kill", regs)>>
           r == s \o x
<1>2. /\ eip = "sched_kill" /\ eip' = "switch_task" /\ regs' = regs
      /\ doomed' = doomed \cup {running_task}
      /\ stack' = [stack EXCEPT ![running_task] = r]
      /\ UNCHANGED <<running_task, ready, live, saved, trail>>
  BY DEF sched_kill, At, Push
<1>3. w = <<>> /\ Base(running_task, s, Len(s), Place(eip, regs), running_task \in doomed)
  BY <1>2, InCode
<1>t. trail[running_task] = <<>>
  BY <1>3
<1> HIDE DEF s, w
<1>4. Len(s) = 1 /\ running_task # Idle
  BY <1>2, <1>3, Records DEF Base
<1>5. x \in Seq(Words) /\ Len(x) = 1
  BY <1>1, Rets DEF Names
<1> HIDE DEF x
<1>6. r \in Seq(Words) /\ Len(r) = 2
  <2>1. r \in Seq(Words) /\ Len(r) = Len(s) + Len(x)
    BY <1>1, <1>5, Joined
  <2> QED BY <1>4, <1>5, <2>1
<1> HIDE DEF r
<1>7. Base(running_task, r, Len(r), Place(eip', regs'), TRUE)
  BY <1>2, <1>6, Records DEF Base
<1>8. Laid(running_task, r, <<>>, Place(eip', regs'), TRUE)
  BY <1>6, <1>7, Bottom
<1>9. /\ running_task \in Tasks /\ live \subseteq Tasks /\ stack \in [Tasks -> Seq(Words)]
      /\ trail \in [Tasks -> Seq(Spots)]
  BY LiveTasks DEF TypeOK
<1>10. /\ stack' \in [Tasks -> Seq(Words)] /\ stack'[running_task] = r
       /\ \A t \in Tasks : t # running_task => stack'[t] = stack[t]
  BY <1>2, <1>6, <1>9
<1>11. TypeOK'
  BY <1>1, <1>2, <1>10 DEF TypeOK, Names
<1>12. Queue'
  BY <1>2, <1>4 DEF Queue
<1>13. ASSUME NEW t \in live', Goes(t)' PROVE Laid(t, stack'[t], trail'[t], Spot(t)', t \in doomed')
  <2>1. CASE t = running_task
    <3>1. /\ Spot(t)' = Place(eip', regs') /\ stack'[t] = r /\ trail'[t] = <<>>
          /\ (t \in doomed') = TRUE
      BY <1>2, <1>t, <1>10, <2>1 DEF Spot
    <3> QED BY <1>8, <2>1, <3>1
  <2>2. CASE t # running_task
    <3>1. /\ Spot(t)' = Spot(t) /\ Goes(t) /\ stack'[t] = stack[t] /\ trail'[t] = trail[t]
          /\ (t \in doomed') = (t \in doomed) /\ t \in live
      BY <1>2, <1>9, <1>10, <1>13, <2>2 DEF Spot, Goes
    <3>2. Laid(t, stack[t], trail[t], Spot(t), t \in doomed)
      BY <3>1 DEF Stacks
    <3> QED BY <3>1, <3>2
  <2> QED BY <2>1, <2>2
<1>14. Stacks'
  BY <1>2, <1>9, <1>10, <1>13 DEF Stacks
<1> QED BY <1>11, <1>12, <1>14

-----------------------------------------------------------------------------
(* switch_task *)

LEMMA Smallest ==
    ASSUME NEW T \in SUBSET Nat, T # {}
    PROVE  \E x \in T : \A y \in T : x <= y
<1> DEFINE R == OpToRel(<, Nat)
<1>1. IsWellFoundedOn(R, Nat)
  BY NatLessThanWellFounded
<1>2. \A x, y \in Nat : x < y => <<x, y>> \in R
  BY DEF OpToRel
<1> HIDE DEF R
<1>3. PICK x \in T : \A y \in T : ~ (<<y, x>> \in R)
  BY <1>1, WFMin
<1>4. ASSUME NEW y \in T PROVE x <= y
  <2>1. x \in Nat /\ y \in Nat
    OBVIOUS
  <2>2. ~(y < x)
    BY <1>2, <1>3, <2>1
  <2> QED BY <2>1, <2>2
<1> QED BY <1>4

\* The ready queue with the task that gives up the CPU at its end.
Line == Append(ready, running_task)

\* The tasks that are freed when the one at i is the first to go on.
Before(i) == {Line[j] : j \in 1 .. i - 1}

\* switch_task when the task at i is the first in line that is not marked for destruction.
Switched(i) ==
    /\ Line[i] \notin doomed /\ \A k \in 1 .. i - 1 : Line[k] \in doomed
    /\ running_task' = Line[i]
    /\ ready' = SubSeq(Line, i + 1, Len(Line))
    /\ doomed' = doomed \ Before(i) /\ live' = live \ Before(i)
    /\ saved' = [t \in Tasks |-> IF t \in Before(i) THEN [eip |-> "none", esp |-> 0] ELSE SaveContext[t]]
    /\ stack' = [t \in Tasks |-> IF t \in Before(i) THEN <<>>
                                 ELSE IF t = Line[i] THEN SubSeq(stack[t], 1, SaveContext[Line[i]].esp)
                                 ELSE stack[t]]
    /\ trail' = [t \in Tasks |-> IF t \in Before(i) THEN <<>> ELSE trail[t]]
    /\ regs' = Regs("none", SaveContext[Line[i]].eip)
    /\ eip = "switch_task" /\ eip' = "jmp"

LEMMA LineFacts ==
    ASSUME TypeOK, Queue
    PROVE  /\ Line \in Seq(Tasks) /\ Len(Line) = Len(ready) + 1 /\ Len(ready) \in Nat
           /\ DOMAIN Line = 1 .. Len(Line) /\ Line[Len(Line)] = running_task
           /\ \A j \in 1 .. Len(Line) : Line[j] \in live /\ Line[j] \in Tasks
           /\ \A t \in live : \E j \in 1 .. Len(Line) : Line[j] = t
           /\ \A j, k \in 1 .. Len(Line) : j # k => Line[j] # Line[k]
<1>1. ready \in Seq(Tasks) /\ running_task \in Tasks
  BY DEF TypeOK, Queue
<1>2. /\ Line \in Seq(Tasks) /\ Len(Line) = Len(ready) + 1 /\ Len(ready) \in Nat
      /\ Line[Len(ready) + 1] = running_task /\ \A j \in 1 .. Len(ready) : Line[j] = ready[j]
  BY <1>1 DEF Line
<1>3. \A j \in 1 .. Len(Line) : j \in 1 .. Len(ready) \/ j = Len(ready) + 1
  BY <1>2
<1>4. \A j \in 1 .. Len(Line) : Line[j] \in live /\ Line[j] \in Tasks
  BY <1>1, <1>2, <1>3 DEF Queue
<1>5. ASSUME NEW t \in live PROVE \E j \in 1 .. Len(Line) : Line[j] = t
  <2>1. CASE t = running_task
    BY <1>2, <2>1
  <2>2. CASE t # running_task
    <3>1. PICK j \in 1 .. Len(ready) : ready[j] = t
      BY <2>2 DEF Queue
    <3>2. j \in 1 .. Len(Line) /\ Line[j] = t
      BY <1>2, <3>1
    <3> QED BY <3>2
  <2> QED BY <2>1, <2>2
<1>6. \A j, k \in 1 .. Len(Line) : j # k => Line[j] # Line[k]
  BY <1>2, <1>3 DEF Queue
<1>7. DOMAIN Line = 1 .. Len(Line)
  BY <1>2
<1> QED BY <1>2, <1>4, <1>5, <1>6, <1>7

\* The idle task is in line, so the loop of switch_task ends at some task.
LEMMA Picks ==
    ASSUME TypeOK, Queue, switch_task
    PROVE  \E i \in 1 .. Len(Line) : Switched(i)
<1> DEFINE First(j) == Line[j] \notin doomed /\ \A k \in 1 .. j - 1 : Line[k] \in doomed
           T == {j \in 1 .. Len(Line) : Line[j] \notin doomed}
           i == CHOOSE j \in DOMAIN Line : First(j)
<1>1. /\ Len(Line) \in Nat /\ DOMAIN Line = 1 .. Len(Line)
      /\ \A t \in live : \E j \in 1 .. Len(Line) : Line[j] = t
  BY LineFacts
<1>2. T \in SUBSET Nat /\ T # {}
  <2>1. Idle \in live /\ Idle \notin doomed
    BY DEF Queue
  <2> QED BY <1>1, <2>1
<1>3. PICK m \in T : \A y \in T : m <= y
  BY <1>2, Smallest
<1>4. m \in DOMAIN Line /\ First(m)
  <2>1. ASSUME NEW k \in 1 .. m - 1 PROVE Line[k] \in doomed
    <3>1. m \in 1 .. Len(Line) /\ m \in Nat
      BY <1>3
    <3>2. k \in 1 .. Len(Line) /\ ~(m <= k)
      BY <1>1, <3>1
    <3> QED BY <1>3, <3>2
  <2> QED BY <1>1, <1>3, <2>1
<1>5. i \in DOMAIN Line /\ First(i)
  BY <1>4
<1>6. switch_task => Switched(i)
  <2>1. First(i)
    BY <1>5
  <2>2. switch_task =>
          /\ running_task' = Line[i]
          /\ ready' = SubSeq(Line, i + 1, Len(Line))
          /\ doomed' = doomed \ Before(i) /\ live' = live \ Before(i)
          /\ saved' = [t \in Tasks |-> IF t \in Before(i) THEN [eip |-> "none", esp |-> 0] ELSE SaveContext[t]]
          /\ stack' = [t \in Tasks |-> IF t \in Before(i) THEN <<>>
                                       ELSE IF t = Line[i] THEN SubSeq(stack[t], 1, SaveContext[Line[i]].esp)
                                       ELSE stack[t]]
          /\ trail' = [t \in Tasks |-> IF t \in Before(i) THEN <<>> ELSE trail[t]]
          /\ regs' = Regs("none", SaveContext[Line[i]].eip)
          /\ eip = "switch_task" /\ eip' = "jmp"
    BY DEF switch_task, Before, Line, At
  <2> QED BY <2>1, <2>2 DEF Switched
<1> HIDE DEF i
<1> QED BY <1>1, <1>5, <1>6

\* What switch_task keeps and what it takes away.
LEMMA SwitchQueue ==
    ASSUME TypeOK, Queue, NEW i \in 1 .. Len(Line), Switched(i)
    PROVE  /\ Queue' /\ ready' \in Seq(Tasks)
           /\ \A t \in live' : t \in live /\ t \notin Before(i) /\ t \in Tasks
           /\ Before(i) \subseteq doomed
           /\ Line[i] \in live' /\ Line[i] \notin Before(i)
<1> DEFINE n == Len(Line)
<1>1. /\ Line \in Seq(Tasks) /\ n \in Nat /\ Line[n] = running_task
      /\ \A j \in 1 .. n : Line[j] \in live /\ Line[j] \in Tasks
      /\ \A t \in live : \E j \in 1 .. n : Line[j] = t
      /\ \A j, k \in 1 .. n : j # k => Line[j] # Line[k]
  BY LineFacts
<1>2. /\ Line[i] \notin doomed /\ running_task' = Line[i] /\ doomed' = doomed \ Before(i)
      /\ live' = live \ Before(i) /\ ready' = SubSeq(Line, i + 1, n)
  BY DEF Switched
<1>3. Before(i) \subseteq doomed
  BY DEF Switched, Before
<1>4. i \in Nat /\ i >= 1 /\ i <= n
  BY <1>1
<1> HIDE DEF n
<1>5. /\ ready' \in Seq(Tasks) /\ Len(ready') = n - i
      /\ \A j \in 1 .. n - i : ready'[j] = Line[i + j]
  <2>1. \A j \in i + 1 .. n : Line[j] \in Tasks
    BY <1>1, <1>4
  <2>2. Len(ready') = n - i /\ ready' \in Seq(Tasks)
    BY <1>1, <1>2, <1>4 DEF n
  <2>3. \A j \in 1 .. n - i : ready'[j] = Line[i + j]
    BY <1>1, <1>2, <1>4 DEF n
  <2> QED BY <2>2, <2>3
<1>6. \A j \in 1 .. n - i : i + j \in 1 .. n /\ i + j # i
  BY <1>1, <1>4
<1>7. \A j \in i .. n : Line[j] \notin Before(i)
  <2> SUFFICES ASSUME NEW j \in i .. n, NEW k \in 1 .. i - 1 PROVE Line[j] # Line[k]
    BY DEF Before
  <2>1. j \in 1 .. n /\ k \in 1 .. n /\ j # k
    BY <1>1, <1>4
  <2> QED BY <1>1, <2>1
<1>8. Line[i] \in live' /\ Line[i] \notin Before(i)
  <2>1. i \in i .. n /\ i \in 1 .. n
    BY <1>1, <1>4
  <2> QED BY <1>1, <1>2, <1>7, <2>1
<1>9. \A t \in live' : t \in live /\ t \notin Before(i) /\ t \in Tasks
  BY <1>1, <1>2
<1>10. \A j, k \in 1 .. Len(ready') : j # k => ready'[j] # ready'[k]
  <2> SUFFICES ASSUME NEW j \in 1 .. n - i, NEW k \in 1 .. n - i, j # k PROVE ready'[j] # ready'[k]
    BY <1>5
  <2>1. i + j \in 1 .. n /\ i + k \in 1 .. n /\ i + j # i + k
    BY <1>4, <1>6
  <2> QED BY <1>1, <1>5, <2>1
<1>11. \A j \in 1 .. Len(ready') : ready'[j] # running_task'
  <2> SUFFICES ASSUME NEW j \in 1 .. n - i PROVE ready'[j] # Line[i]
    BY <1>2, <1>5
  <2>1. i + j \in 1 .. n /\ i + j # i /\ i \in 1 .. n
    BY <1>4, <1>6
  <2> QED BY <1>1, <1>5, <2>1
<1>12. ASSUME NEW t PROVE t \in live' <=> t = running_task' \/ \E j \in 1 .. Len(ready') : ready'[j] = t
  <2>1. ASSUME t \in live' PROVE t = running_task' \/ \E j \in 1 .. Len(ready') : ready'[j] = t
    <3>1. PICK k \in 1 .. n : Line[k] = t
      BY <1>1, <1>2, <2>1
    <3>2. k >= i
      <4>1. k \notin 1 .. i - 1
        BY <1>2, <2>1, <3>1 DEF Before
      <4> QED BY <1>4, <4>1
    <3>3. CASE k = i
      BY <1>2, <3>1, <3>3
    <3>4. CASE k > i
      <4>1. k - i \in 1 .. n - i /\ i + (k - i) = k
        BY <1>1, <1>4, <3>4
      <4> QED BY <1>5, <3>1, <4>1
    <3> QED BY <1>4, <3>2, <3>3, <3>4
  <2>2. ASSUME NEW j \in 1 .. Len(ready'), ready'[j] = t PROVE t \in live'
    <3>1. i + j \in 1 .. n /\ i + j \in i .. n /\ t = Line[i + j]
      BY <1>4, <1>5, <1>6, <2>2
    <3> QED BY <1>1, <1>2, <1>7, <3>1
  <2> QED BY <1>2, <1>8, <2>1, <2>2
<1>13. live' = {running_task'} \cup {ready'[j] : j \in 1 .. Len(ready')}
  BY <1>12
<1>14. Idle \in live' /\ Idle \notin doomed'
  BY <1>2, <1>3 DEF Queue
<1>15. running_task' \in Tasks
  BY <1>2, <1>8, <1>9
<1>16. Queue'
  BY <1>10, <1>11, <1>13, <1>14, <1>15 DEF Queue
<1> QED BY <1>3, <1>5, <1>8, <1>9, <1>16

\* A task that gives up the CPU and is not marked for destruction can be jumped into.
LEMMA Suspended ==
    ASSUME TypeOK, Queue, Stacks, eip = "switch_task", running_task \notin doomed
    PROVE  Laid(running_task, stack[running_task], trail[running_task],
                Place("jmp", Regs("none", "resumed")), running_task \in doomed)
<1> DEFINE s == stack[running_task]
           w == trail[running_task]
<1>1. /\ s \in Seq(Words) /\ w \in Seq(Spots) /\ (running_task \in doomed) \in BOOLEAN
      /\ Laid(running_task, s, w, Place(eip, regs), running_task \in doomed)
      /\ Place(eip, regs) \in Spots /\ eip \in Names /\ regs \in Registers
  BY Here DEF TypeOK
<1> HIDE DEF s, w
<1>2. w # <<>>
  <2>1. ~Base(running_task, s, Len(s), Place(eip, regs), running_task \in doomed)
    BY Records DEF Base
  <2> QED BY <1>1, <2>1, Alone
<1>3. PICK a \in Nat : TopCut(running_task, s, w, Place(eip, regs), running_task \in doomed, a)
  BY <1>1, <1>2, OnTop
<1>4. /\ a <= Len(s) /\ Frame(s, a, Len(s), w[Len(w)], Place(eip, regs))
      /\ \A x, q : Shares(x, s, a) /\ Frame(x, a, Len(x), w[Len(w)], q)
                     => Laid(running_task, x, w, q, running_task \in doomed)
  BY <1>3 DEF TopCut
<1>5. Frame(s, a, Len(s), w[Len(w)], Place("jmp", Regs("none", "resumed")))
  BY <1>4, Records DEF Frame
<1>6. Shares(s, s, a)
  BY <1>1, <1>4 DEF Shares
<1>7. Laid(running_task, s, w, Place("jmp", Regs("none", "resumed")), running_task \in doomed)
  BY <1>4, <1>5, <1>6
<1> QED BY <1>7 DEF s, w

LEMMA SwitchStep ==
    ASSUME TypeOK, Queue, Stacks, switch_task
    PROVE  TypeOK' /\ Queue' /\ Stacks' /\ \A t \in live' : trail'[t] = trail[t]
<1>1. PICK i \in 1 .. Len(Line) : Switched(i)
  BY Picks
<1> DEFINE next == Line[i]
<1>2. /\ Queue' /\ ready' \in Seq(Tasks)
      /\ \A t \in live' : t \in live /\ t \notin Before(i) /\ t \in Tasks
      /\ Before(i) \subseteq doomed
      /\ next \in live' /\ next \notin Before(i)
  BY <1>1, SwitchQueue
<1>3. /\ ready \in Seq(Tasks) /\ saved \in [Tasks -> [eip : Names, esp : Nat]]
      /\ stack \in [Tasks -> Seq(Words)] /\ trail \in [Tasks -> Seq(Spots)]
      /\ running_task \in Tasks /\ live \subseteq Tasks
  BY LiveTasks DEF TypeOK
<1>4. /\ running_task' = next /\ next \notin doomed
      /\ doomed' = doomed \ Before(i) /\ live' = live \ Before(i)
      /\ saved' = [t \in Tasks |-> IF t \in Before(i) THEN [eip |-> "none", esp |-> 0] ELSE SaveContext[t]]
      /\ stack' = [t \in Tasks |-> IF t \in Before(i) THEN <<>>
                                   ELSE IF t = next THEN SubSeq(stack[t], 1, SaveContext[next].esp)
                                   ELSE stack[t]]
      /\ trail' = [t \in Tasks |-> IF t \in Before(i) THEN <<>> ELSE trail[t]]
      /\ regs' = Regs("none", SaveContext[next].eip)
      /\ eip = "switch_task" /\ eip' = "jmp"
  BY <1>1 DEF Switched
<1> HIDE DEF next
<1>5. /\ SaveContext \in [Tasks -> [eip : Names, esp : Nat]]
      /\ SaveContext[running_task] = [eip |-> "resumed", esp |-> Len(stack[running_task])]
      /\ \A t \in Tasks : t # running_task => SaveContext[t] = saved[t]
  <2>1. [eip |-> "resumed", esp |-> Len(stack[running_task])] \in [eip : Names, esp : Nat]
    BY <1>3 DEF Names
  <2> QED BY <1>3, <2>1 DEF SaveContext
<1>6. \A t \in live : SaveContext[t].esp = Len(stack[t])
  <2> SUFFICES ASSUME NEW t \in live PROVE SaveContext[t].esp = Len(stack[t])
    OBVIOUS
  <2>1. CASE t = running_task
    BY <1>5, <2>1
  <2>2. CASE t # running_task
    <3>1. SaveContext[t] = saved[t] /\ saved[t].esp = Len(stack[t])
      BY <1>3, <1>5, <2>2 DEF Stacks
    <3> QED BY <3>1
  <2> QED BY <2>1, <2>2
<1>7. ASSUME NEW t \in live'
      PROVE  stack'[t] = stack[t] /\ trail'[t] = trail[t] /\ saved'[t] = SaveContext[t]
  <2>1. t \in live /\ t \notin Before(i) /\ t \in Tasks
    BY <1>2
  <2>2. trail'[t] = trail[t] /\ saved'[t] = SaveContext[t]
    BY <1>4, <2>1
  <2>3. CASE t = next
    <3>1. stack'[t] = SubSeq(stack[t], 1, SaveContext[t].esp)
      BY <1>4, <2>1, <2>3
    <3>2. SaveContext[t].esp = Len(stack[t]) /\ stack[t] \in Seq(Words)
      BY <1>3, <1>6, <2>1
    <3>3. SubSeq(stack[t], 1, Len(stack[t])) = stack[t]
      BY <3>2
    <3> QED BY <2>2, <3>1, <3>2, <3>3
  <2>4. CASE t # next
    BY <1>4, <2>1, <2>2, <2>4
  <2> QED BY <2>3, <2>4
<1>8. TypeOK'
  <2>1. saved' \in [Tasks -> [eip : Names, esp : Nat]]
    <3>1. [eip |-> "none", esp |-> 0] \in [eip : Names, esp : Nat]
      BY DEF Names
    <3> QED BY <1>4, <1>5, <3>1
  <2>2. trail' \in [Tasks -> Seq(Spots)]
    <3>1. <<>> \in Seq(Spots)
      OBVIOUS
    <3> QED BY <1>3, <1>4, <3>1
  <2>3. stack' \in [Tasks -> Seq(Words)]
    <3>1. ASSUME NEW t \in Tasks PROVE stack'[t] \in Seq(Words)
      <4>1. CASE t \in Before(i)
        <5>1. stack'[t] = <<>>
          BY <1>4, <4>1
        <5> QED BY <5>1
      <4>2. CASE t \notin Before(i) /\ t # next
        <5>1. stack'[t] = stack[t]
          BY <1>4, <4>2
        <5> QED BY <1>3, <5>1
      <4>3. CASE t = next
        BY <1>2, <1>3, <1>7, <4>3
      <4> QED BY <4>1, <4>2, <4>3
    <3>2. stack' = [t \in Tasks |-> stack'[t]]
      BY <1>4
    <3> QED BY <3>1, <3>2
  <2>4. regs' \in Registers /\ eip' \in Names
    <3>1. SaveContext[next].eip \in Names
      BY <1>2, <1>5
    <3> QED BY <1>4, <3>1, Records DEF Names
  <2> QED BY <1>2, <2>1, <2>2, <2>3, <2>4 DEF TypeOK
<1>9. ASSUME NEW t \in live', Goes(t)' PROVE Laid(t, stack'[t], trail'[t], Spot(t)', t \in doomed')
  <2>1. t \in live /\ t \notin Before(i) /\ t \in Tasks
    BY <1>2
  <2>2. t \notin doomed
    <3>1. t = running_task' \/ t \notin doomed'
      BY <1>9 DEF Goes
    <3> QED BY <1>4, <2>1, <3>1
  <2>3. (t \in doomed') = (t \in doomed)
    BY <1>4, <2>1
  <2>4. Spot(t)' = Place("jmp", Regs("none", SaveContext[t].eip))
    <3>1. CASE t = next
      BY <1>4, <3>1 DEF Spot
    <3>2. CASE t # next
      BY <1>4, <1>7, <3>2 DEF Spot
    <3> QED BY <3>1, <3>2
  <2>5. Laid(t, stack[t], trail[t], Place("jmp", Regs("none", SaveContext[t].eip)), t \in doomed)
    <3>1. CASE t = running_task
      <4>1. SaveContext[t].eip = "resumed"
        BY <1>5, <3>1
      <4>2. Laid(running_task, stack[running_task], trail[running_task],
                 Place("jmp", Regs("none", "resumed")), running_task \in doomed)
        BY <1>4, <2>2, <3>1, Suspended
      <4> QED BY <3>1, <4>1, <4>2
    <3>2. CASE t # running_task
      <4>1. SaveContext[t] = saved[t] /\ Spot(t) = Place("jmp", Regs("none", saved[t].eip))
        BY <1>5, <2>1, <3>2 DEF Spot
      <4>2. Laid(t, stack[t], trail[t], Spot(t), t \in doomed)
        BY <2>1, <2>2 DEF Stacks, Goes
      <4> QED BY <4>1, <4>2
    <3> QED BY <3>1, <3>2
  <2> QED BY <1>7, <2>3, <2>4, <2>5
<1>10. ASSUME NEW t \in live' PROVE saved'[t].esp = Len(stack'[t])
  <2>1. t \in live
    BY <1>2
  <2> QED BY <1>6, <1>7, <2>1
<1>11. ASSUME NEW t \in Tasks, t \notin live' PROVE trail'[t] = <<>>
  <2>1. t \in Before(i) \/ t \notin live
    BY <1>4, <1>11
  <2>2. t \notin live => trail[t] = <<>>
    BY DEF Stacks
  <2>3. trail'[t] = IF t \in Before(i) THEN <<>> ELSE trail[t]
    BY <1>4
  <2> QED BY <2>1, <2>2, <2>3
<1>12. Stacks'
  BY <1>9, <1>10, <1>11 DEF Stacks
<1> QED BY <1>2, <1>7, <1>8, <1>12

-----------------------------------------------------------------------------
(* The theorems *)

LEMMA InitContext == Init => ContextInv
<1> SUFFICES ASSUME Init PROVE TypeOK /\ Queue /\ Stacks
  BY DEF ContextInv
<1>1. /\ running_task = Idle /\ ready = <<>> /\ doomed = {} /\ live = {Idle} /\ eip = "code"
      /\ saved = [t \in Tasks |-> [eip |-> "none", esp |-> 0]]
      /\ stack = [t \in Tasks |-> <<>>] /\ trail = [t \in Tasks |-> <<>>]
      /\ regs \in {Regs(v, "none") : v \in Values} /\ Idle \in Tasks
  BY ContextAssumption DEF Init
<1>2. TypeOK
  <2>1. regs \in Registers
    BY <1>1 DEF Regs, Registers, Names
  <2>2. saved \in [Tasks -> [eip : Names, esp : Nat]]
    BY <1>1 DEF Names
  <2>3. stack \in [Tasks -> Seq(Words)] /\ trail \in [Tasks -> Seq(Spots)] /\ ready \in Seq(Tasks)
    BY <1>1
  <2> QED BY <1>1, <2>1, <2>2, <2>3 DEF TypeOK, Names
<1>3. Queue
  BY <1>1 DEF Queue
<1>4. Laid(Idle, <<>>, <<>>, Place(eip, regs), FALSE)
  <2>1. Base(Idle, <<>>, Len(<<>>), Place(eip, regs), FALSE)
    BY <1>1, Records DEF Base
  <2>2. <<>> \in Seq(Words)
    OBVIOUS
  <2> QED BY <2>1, <2>2, Bottom
<1>5. Stacks
  <2>1. /\ stack[Idle] = <<>> /\ trail[Idle] = <<>> /\ Spot(Idle) = Place(eip, regs)
        /\ (Idle \in doomed) = FALSE /\ \A t \in live : t = Idle
    BY <1>1 DEF Spot
  <2>2. Laid(Idle, stack[Idle], trail[Idle], Spot(Idle), Idle \in doomed)
    BY <1>4, <2>1
  <2> QED BY <1>1, <2>1, <2>2 DEF Stacks
<1> QED BY <1>2, <1>3, <1>5

\* Nothing is done after a kpanic.
LEMMA Working == Next => report = <<>>
BY DEF Next, Popal, Addl, Iret, switch_task, Jump, Resumed, Compute, sched_yield, Return, sched_kill,
       Interrupt, create_kernel_task, At

LEMMA StepContext == ContextInv /\ [Next]_vars => ContextInv'
<1> SUFFICES ASSUME ContextInv, [Next]_vars, report' = <<>> PROVE TypeOK' /\ Queue' /\ Stacks'
  BY DEF ContextInv
<1>1. CASE Next
  <2>1. TypeOK /\ Queue /\ Stacks
    BY <1>1, Working DEF ContextInv
  <2>2. CASE Popal \/ Addl \/ Iret \/ switch_task \/ Jump \/ Resumed
    BY <2>1, <2>2, PopalStep, AddlStep, IretStep, SwitchStep, JumpStep, ResumedStep
  <2>3. CASE Compute \/ sched_yield \/ Return \/ sched_kill
    BY <2>1, <2>3, ComputeStep, YieldStep, ReturnStep, KillStep
  <2>4. ASSUME NEW v \in Vectors, Interrupt(v) PROVE TypeOK' /\ Queue' /\ Stacks'
    BY <2>1, <2>4, InterruptStep
  <2>5. ASSUME NEW t \in Tasks, create_kernel_task(t) PROVE TypeOK' /\ Queue' /\ Stacks'
    BY <2>1, <2>5, CreateStep
  <2> QED BY <1>1, <2>2, <2>3, <2>4, <2>5 DEF Next
<1>2. CASE UNCHANGED vars
  <2>1. TypeOK /\ Queue /\ Stacks
    BY <1>2 DEF ContextInv, vars
  <2>2. TypeOK'
    BY <1>2, <2>1 DEF TypeOK, vars
  <2>3. Queue'
    BY <1>2, <2>1 DEF Queue, vars
  <2>4. Stacks'
    BY <1>2, <2>1 DEF Stacks, Goes, Spot, vars
  <2> QED BY <2>2, <2>3, <2>4
<1> QED BY <1>1, <1>2

\* Until a kpanic, the stack of every task that will still run leads back through all the
\* places it was taken away from (isr_wrappers.s, sched.c, task.c).
THEOREM ContextInvariant == Spec => []ContextInv
BY InitContext, StepContext, PTL DEF Spec

\* dump_regs reports the exception that happened and where, for every wrapper of
\* isr_wrappers.s and whatever is on the stack it is raised on.
THEOREM ContextReportsFault == Spec => []ReportsFault
<1>1. Init => ReportsFault
  BY DEF Init, ReportsFault
<1>2. ContextInv /\ ReportsFault /\ [Next]_vars => ReportsFault'
  <2> SUFFICES ASSUME ContextInv, ReportsFault, [Next]_vars PROVE report' = cause'
    BY DEF ReportsFault
  <2>1. ASSUME NEW v \in Vectors, Interrupt(v) PROVE report' = cause'
    <3> DEFINE s == stack[running_task] \o Entry(v)
    <3>1. TypeOK /\ Queue /\ Stacks
      BY <2>1 DEF ContextInv, Interrupt
    <3>2. int_no(s) = v /\ err_eip(s) = eip
      BY <3>1, Registered
    <3>3. Tick(s) \/ Handler(s) \/ Fatal(v, s)
      BY <2>1 DEF Interrupt
    <3> HIDE DEF s
    <3> QED BY <3>2, <3>3 DEF Tick, Handler, Fatal, ReportsFault
  <2>2. CASE UNCHANGED <<report, cause>>
    BY <2>2 DEF ReportsFault
  <2>3. CASE Next
    BY <2>1, <2>2, <2>3 DEF Next, Popal, Addl, Iret, switch_task, Jump, Resumed, Compute, sched_yield, Return,
       sched_kill, create_kernel_task
  <2> QED BY <2>2, <2>3 DEF vars
<1> QED BY <1>1, <1>2, ContextInvariant, PTL DEF Spec

\* A task that gets back to where an interrupt or its own sched_yield took it away has the
\* registers it had there, for any number of tasks, any depth of nesting and wherever ticks,
\* handlers and switches landed in between (isr_wrappers.s, sched.c).
THEOREM ContextResumes == Spec => ResumesWhereLeft
<1> DEFINE Resumes == \A t \in Tasks : t \in live' /\ Len(trail'[t]) < Len(trail[t]) =>
                          Last(trail[t]) = Place(eip', regs')
<1>1. ASSUME ContextInv, [Next]_vars PROVE [Resumes]_vars
  <2> SUFFICES ASSUME Next PROVE Resumes
    BY <1>1
  <2>1. TypeOK /\ Queue /\ Stacks
    BY <1>1, Working DEF ContextInv
  <2>2. trail \in [Tasks -> Seq(Spots)] /\ running_task \in Tasks
    BY <2>1 DEF TypeOK, Queue
  <2>3. ASSUME \A t \in live' : trail'[t] = trail[t] PROVE Resumes
    BY <2>2, <2>3
  <2>4. ASSUME trail' = [trail EXCEPT ![running_task] = Front(trail[running_task])],
               Last(trail[running_task]) = Place(eip', regs')
        PROVE  Resumes
    BY <2>2, <2>4
  <2>5. ASSUME NEW p, NEW r, Leave(p, r), Place(p, r) \in Spots PROVE Resumes
    <3>1. ASSUME NEW t \in Tasks PROVE ~(Len(trail'[t]) < Len(trail[t]))
      <4>1. CASE t = running_task
        <5>1. trail'[t] = Append(trail[t], Place(p, r)) /\ trail[t] \in Seq(Spots)
          BY <2>2, <2>5, <4>1 DEF Leave
        <5>2. Len(trail'[t]) = Len(trail[t]) + 1 /\ Len(trail[t]) \in Nat
          BY <2>5, <5>1
        <5> QED BY <5>2
      <4>2. CASE t # running_task
        <5>1. trail'[t] = trail[t] /\ trail[t] \in Seq(Spots)
          BY <2>2, <2>5, <4>2 DEF Leave
        <5>2. Len(trail[t]) \in Nat
          BY <5>1
        <5> QED BY <5>1, <5>2
      <4> QED BY <4>1, <4>2
    <3> QED BY <3>1
  <2>6. Place(eip, regs) \in Spots
    BY <2>1, Here
  <2>7. CASE Popal \/ Addl \/ Jump \/ Compute \/ Return \/ sched_kill \/ \E t \in Tasks : create_kernel_task(t)
    <3>1. UNCHANGED trail
      BY <2>7 DEF Popal, Addl, Jump, Compute, Return, sched_kill, create_kernel_task
    <3> QED BY <2>3, <3>1
  <2>8. CASE Iret
    BY <2>1, <2>4, <2>8, IretStep
  <2>9. CASE Resumed
    BY <2>1, <2>3, <2>4, <2>9, ResumedStep
  <2>10. CASE switch_task
    BY <2>1, <2>3, <2>10, SwitchStep
  <2>11. CASE sched_yield
    BY <2>5, <2>6, <2>11 DEF sched_yield, At
  <2>12. ASSUME NEW v \in Vectors, Interrupt(v) PROVE Resumes
    BY <2>5, <2>6, <2>12 DEF Interrupt
  <2> HIDE DEF Resumes
  <2> QED BY <2>7, <2>8, <2>9, <2>10, <2>11, <2>12 DEF Next
<1> QED BY <1>1, ContextInvariant, PTL DEF Spec, ResumesWhereLeft
=============================================================================
