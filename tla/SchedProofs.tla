---------------------------- MODULE SchedProofs ----------------------------
(***************************************************************************)
(* Proofs about the scheduler, for every number of tasks, clock rate,      *)
(* word size and set of sleep arguments.                                   *)
(***************************************************************************)
EXTENDS Sched, WellFoundedInduction, TLAPS

-----------------------------------------------------------------------------
(* Sequences without repetition *)

LEMMA ElemsDef ==
    ASSUME NEW q \in Seq(Tasks)
    PROVE  /\ Elems(q) = {q[i] : i \in 1 .. Len(q)}
           /\ Elems(q) \subseteq Tasks
BY DEF Elems

LEMMA AppendElems ==
    ASSUME NEW q \in Seq(Tasks), NEW t \in Tasks
    PROVE  /\ Append(q, t) \in Seq(Tasks)
           /\ Elems(Append(q, t)) = Elems(q) \cup {t}
           /\ Injective(q) /\ t \notin Elems(q) => Injective(Append(q, t))
<1>1. Append(q, t) \in Seq(Tasks) /\ Len(Append(q, t)) = Len(q) + 1 /\ Len(q) \in Nat
  OBVIOUS
<1>2. /\ \A i \in 1 .. Len(q) : Append(q, t)[i] = q[i]
      /\ Append(q, t)[Len(q) + 1] = t
  OBVIOUS
<1>3. Elems(Append(q, t)) = Elems(q) \cup {t}
  <2>1. ASSUME NEW x \in Elems(Append(q, t)) PROVE x \in Elems(q) \cup {t}
    <3>1. PICK i \in 1 .. Len(q) + 1 : x = Append(q, t)[i]
      BY <1>1, ElemsDef, <2>1
    <3>2. CASE i = Len(q) + 1
      BY <1>2, <3>1, <3>2
    <3>3. CASE i \in 1 .. Len(q)
      BY <1>2, <3>1, <3>3, ElemsDef
    <3> QED BY <1>1, <3>2, <3>3
  <2>2. ASSUME NEW x \in Elems(q) PROVE x \in Elems(Append(q, t))
    <3>1. PICK i \in 1 .. Len(q) : x = q[i]
      BY ElemsDef, <2>2
    <3>2. i \in 1 .. Len(Append(q, t)) /\ Append(q, t)[i] = x
      BY <1>1, <1>2, <3>1
    <3> QED BY <1>1, <3>2, ElemsDef
  <2>3. t \in Elems(Append(q, t))
    <3>1. Len(q) + 1 \in 1 .. Len(Append(q, t))
      BY <1>1
    <3> QED BY <1>1, <1>2, <3>1, ElemsDef
  <2> QED BY <2>1, <2>2, <2>3
<1>4. ASSUME Injective(q), t \notin Elems(q) PROVE Injective(Append(q, t))
  <2>1. \A i \in 1 .. Len(q) : q[i] # t
    BY <1>4, ElemsDef
  <2> QED BY <1>1, <1>2, <1>4, <2>1 DEF Injective
<1> QED BY <1>1, <1>3, <1>4

LEMMA SplitElems ==
    ASSUME NEW q \in Seq(Tasks), NEW k \in 0 .. Len(q)
    PROVE  LET a == SubSeq(q, 1, k)
               b == SubSeq(q, k + 1, Len(q))
           IN  /\ a \in Seq(Tasks) /\ b \in Seq(Tasks)
               /\ Elems(a) = {q[i] : i \in 1 .. k}
               /\ Elems(b) = {q[i] : i \in k + 1 .. Len(q)}
               /\ Elems(q) = Elems(a) \cup Elems(b)
               /\ Injective(q) => /\ Injective(a) /\ Injective(b)
                                  /\ Elems(a) \cap Elems(b) = {}
<1> DEFINE a == SubSeq(q, 1, k)
           b == SubSeq(q, k + 1, Len(q))
<1>1. /\ a \in Seq(Tasks) /\ Len(a) = k /\ Len(q) \in Nat
      /\ \A i \in 1 .. k : a[i] = q[i]
  OBVIOUS
<1>2. /\ b \in Seq(Tasks) /\ Len(b) = Len(q) - k
      /\ \A i \in 1 .. Len(q) - k : b[i] = q[k + i]
  OBVIOUS
<1> HIDE DEF a, b
<1>3. Elems(a) = {q[i] : i \in 1 .. k}
  BY <1>1, ElemsDef
<1>4. Elems(b) = {q[i] : i \in k + 1 .. Len(q)}
  <2>1. Elems(b) = {b[i] : i \in 1 .. Len(q) - k}
    BY <1>2, ElemsDef
  <2>2. ASSUME NEW i \in k + 1 .. Len(q) PROVE q[i] \in Elems(b)
    <3>1. i - k \in 1 .. Len(q) - k /\ b[i - k] = q[i]
      BY <1>1, <1>2
    <3> QED BY <2>1, <3>1
  <2>3. ASSUME NEW x \in Elems(b) PROVE x \in {q[i] : i \in k + 1 .. Len(q)}
    <3>1. PICK i \in 1 .. Len(q) - k : x = b[i]
      BY <2>1, <2>3
    <3>2. k + i \in k + 1 .. Len(q) /\ x = q[k + i]
      BY <1>1, <1>2, <3>1
    <3> QED BY <3>2
  <2> QED BY <2>2, <2>3
<1>5. Elems(q) = Elems(a) \cup Elems(b)
  <2>1. ASSUME NEW x \in Elems(q) PROVE x \in Elems(a) \cup Elems(b)
    <3>1. PICK i \in 1 .. Len(q) : x = q[i]
      BY ElemsDef, <2>1
    <3>2. i \in 1 .. k \/ i \in k + 1 .. Len(q)
      BY <1>1
    <3> QED BY <1>3, <1>4, <3>1, <3>2
  <2>2. Elems(a) \subseteq Elems(q)
    BY <1>1, <1>3, ElemsDef
  <2>3. Elems(b) \subseteq Elems(q)
    BY <1>1, <1>4, ElemsDef
  <2> QED BY <2>1, <2>2, <2>3
<1>6. ASSUME Injective(q) PROVE Injective(a) /\ Injective(b) /\ Elems(a) \cap Elems(b) = {}
  <2>1. Injective(a)
    BY <1>1, <1>6 DEF Injective
  <2>2. Injective(b)
    BY <1>1, <1>2, <1>6 DEF Injective
  <2>3. \A i \in 1 .. k, j \in k + 1 .. Len(q) : q[i] # q[j]
    BY <1>1, <1>6 DEF Injective
  <2> QED BY <1>3, <1>4, <2>1, <2>2, <2>3
<1> QED BY <1>1, <1>2, <1>3, <1>4, <1>5, <1>6 DEF a, b

LEMMA ConcatElems ==
    ASSUME NEW p \in Seq(Tasks), NEW q \in Seq(Tasks)
    PROVE  /\ p \o q \in Seq(Tasks)
           /\ Elems(p \o q) = Elems(p) \cup Elems(q)
           /\ Injective(p) /\ Injective(q) /\ Elems(p) \cap Elems(q) = {} => Injective(p \o q)
<1> DEFINE c == p \o q
<1>1. /\ c \in Seq(Tasks) /\ Len(c) = Len(p) + Len(q) /\ Len(p) \in Nat /\ Len(q) \in Nat
      /\ \A i \in 1 .. Len(p) : c[i] = p[i]
      /\ \A i \in 1 .. Len(q) : c[Len(p) + i] = q[i]
  OBVIOUS
<1> HIDE DEF c
<1>2. ASSUME NEW x \in Elems(c) PROVE x \in Elems(p) \cup Elems(q)
  <2>1. PICK i \in 1 .. Len(p) + Len(q) : x = c[i]
    BY <1>1, <1>2, ElemsDef
  <2>2. CASE i \in 1 .. Len(p)
    BY <1>1, <2>1, <2>2, ElemsDef
  <2>3. CASE i \notin 1 .. Len(p)
    <3>1. i - Len(p) \in 1 .. Len(q) /\ Len(p) + (i - Len(p)) = i
      BY <1>1, <2>3
    <3>2. x = q[i - Len(p)]
      BY <1>1, <2>1, <3>1
    <3> QED BY <3>1, <3>2, ElemsDef
  <2> QED BY <2>2, <2>3
<1>3. ASSUME NEW x \in Elems(p) PROVE x \in Elems(c)
  <2>1. PICK i \in 1 .. Len(p) : x = p[i]
    BY <1>3, ElemsDef
  <2>2. i \in 1 .. Len(c) /\ c[i] = x
    BY <1>1, <2>1
  <2> QED BY <1>1, <2>2, ElemsDef
<1>4. ASSUME NEW x \in Elems(q) PROVE x \in Elems(c)
  <2>1. PICK i \in 1 .. Len(q) : x = q[i]
    BY <1>4, ElemsDef
  <2>2. Len(p) + i \in 1 .. Len(c) /\ c[Len(p) + i] = x
    BY <1>1, <2>1
  <2> QED BY <1>1, <2>2, ElemsDef
<1>5. ASSUME Injective(p), Injective(q), Elems(p) \cap Elems(q) = {} PROVE Injective(c)
  <2> SUFFICES ASSUME NEW i \in 1 .. Len(c), NEW j \in 1 .. Len(c), c[i] = c[j], i < j PROVE FALSE
    BY <1>1 DEF Injective
  <2>1. CASE j <= Len(p)
    BY <1>1, <1>5, <2>1 DEF Injective
  <2>2. CASE i > Len(p)
    <3>1. /\ i - Len(p) \in 1 .. Len(q) /\ Len(p) + (i - Len(p)) = i
          /\ j - Len(p) \in 1 .. Len(q) /\ Len(p) + (j - Len(p)) = j
      BY <1>1, <2>2
    <3>2. q[i - Len(p)] = q[j - Len(p)]
      BY <1>1, <3>1
    <3> QED BY <1>1, <1>5, <3>1, <3>2 DEF Injective
  <2>3. CASE i <= Len(p) /\ j > Len(p)
    <3>1. i \in 1 .. Len(p) /\ j - Len(p) \in 1 .. Len(q) /\ Len(p) + (j - Len(p)) = j
      BY <1>1, <2>3
    <3>2. c[i] = p[i] /\ c[j] = q[j - Len(p)]
      BY <1>1, <3>1
    <3>3. c[i] \in Elems(p) /\ c[i] \in Elems(q)
      BY <3>1, <3>2, ElemsDef
    <3> QED BY <1>5, <3>3
  <2> QED BY <1>1, <2>1, <2>2, <2>3
<1> QED BY <1>1, <1>2, <1>3, <1>4, <1>5 DEF c

LEMMA InsertElems ==
    ASSUME NEW q \in Seq(Tasks), NEW i \in 1 .. Len(q), NEW t \in Tasks
    PROVE  /\ InsertBefore(q, i, t) \in Seq(Tasks)
           /\ Elems(InsertBefore(q, i, t)) = Elems(q) \cup {t}
           /\ Injective(q) /\ t \notin Elems(q) => Injective(InsertBefore(q, i, t))
<1>0. PICK k \in 0 .. Len(q) : k = i - 1 /\ k + 1 = i
  <2>1. i - 1 \in 0 .. Len(q) /\ (i - 1) + 1 = i
    OBVIOUS
  <2> QED BY <2>1
<1> DEFINE a == SubSeq(q, 1, k)
           b == SubSeq(q, k + 1, Len(q))
           m == <<t>>
<1>2. /\ a \in Seq(Tasks) /\ b \in Seq(Tasks) /\ Elems(q) = Elems(a) \cup Elems(b)
      /\ Injective(q) => Injective(a) /\ Injective(b) /\ Elems(a) \cap Elems(b) = {}
  BY SplitElems
<1>3. /\ m \in Seq(Tasks) /\ Elems(m) = {t} /\ Injective(m)
  BY DEF Elems, Injective
<1>6. InsertBefore(q, i, t) = (a \o m) \o b
  BY <1>0 DEF InsertBefore
<1> HIDE DEF a, b, m
<1>4. /\ a \o m \in Seq(Tasks) /\ Elems(a \o m) = Elems(a) \cup {t}
      /\ Injective(a) /\ t \notin Elems(a) => Injective(a \o m)
  BY <1>2, <1>3, ConcatElems
<1>5. /\ (a \o m) \o b \in Seq(Tasks)
      /\ Elems((a \o m) \o b) = Elems(a) \cup {t} \cup Elems(b)
      /\ Injective(a \o m) /\ Injective(b) /\ (Elems(a) \cup {t}) \cap Elems(b) = {}
            => Injective((a \o m) \o b)
  BY <1>2, <1>4, ConcatElems
<1> QED BY <1>2, <1>4, <1>5, <1>6

-----------------------------------------------------------------------------
(* Linking behind the tail *)

\* The tail is the last task reached from the head.
Tidy(rq, tail) == tail = IF rq = <<>> THEN NoTask ELSE rq[Len(rq)]

LEMMA UpToElems ==
    ASSUME NEW q \in Seq(Tasks), NEW t \in Elems(q), Injective(q)
    PROVE  /\ UpTo(q, t) \in Seq(Tasks)
           /\ Elems(UpTo(q, t)) \subseteq Elems(q)
           /\ Injective(UpTo(q, t))
           /\ t = q[Len(q)] => UpTo(q, t) = q
<1> DEFINE i == CHOOSE i \in DOMAIN q : q[i] = t
<1>1. i \in DOMAIN q /\ q[i] = t
  BY DEF Elems
<1>2. Len(q) \in Nat /\ DOMAIN q = 1 .. Len(q)
  OBVIOUS
<1>3. UpTo(q, t) = SubSeq(q, 1, i)
  BY DEF UpTo
<1> HIDE DEF i
<1>4. i \in 0 .. Len(q)
  BY <1>1, <1>2
<1>5. /\ SubSeq(q, 1, i) \in Seq(Tasks) /\ Injective(SubSeq(q, 1, i))
      /\ Elems(SubSeq(q, 1, i)) \subseteq Elems(q)
  BY <1>4, SplitElems
<1>6. ASSUME t = q[Len(q)] PROVE SubSeq(q, 1, i) = q
  <2>1. Len(q) \in 1 .. Len(q)
    BY <1>1, <1>2
  <2>2. i = Len(q)
    BY <1>1, <1>2, <1>6, <2>1 DEF Injective
  <2> QED BY <2>2
<1> QED BY <1>3, <1>5, <1>6

\* enqueue_ready_task on the tasks of ts (sched.c:69-82) puts some of them, once, on the
\* ready queue, and all of them if the tail is the last task of the queue.
LEMMA LinkedElems ==
    ASSUME NEW rq \in Seq(Tasks), NEW ts \in Seq(Tasks), NEW tail \in Tasks \cup {NoTask},
           Injective(rq), Injective(ts), Elems(rq) \cap Elems(ts) = {}
    PROVE  /\ Linked(rq, tail, ts) \in Seq(Tasks)
           /\ Elems(Linked(rq, tail, ts)) \subseteq Elems(rq) \cup Elems(ts)
           /\ Injective(Linked(rq, tail, ts))
           /\ TailAfter(tail, ts) \in Tasks \cup {NoTask}
           /\ Tidy(rq, tail) => /\ Linked(rq, tail, ts) = rq \o ts
                                /\ Elems(Linked(rq, tail, ts)) = Elems(rq) \cup Elems(ts)
                                /\ Tidy(Linked(rq, tail, ts), TailAfter(tail, ts))
<1>1. /\ rq \o ts \in Seq(Tasks) /\ Elems(rq \o ts) = Elems(rq) \cup Elems(ts)
      /\ Injective(rq \o ts)
  BY ConcatElems
<1>2. ASSUME tail \in Elems(rq)
      PROVE  /\ UpTo(rq, tail) \o ts \in Seq(Tasks)
             /\ Elems(UpTo(rq, tail) \o ts) \subseteq Elems(rq) \cup Elems(ts)
             /\ Injective(UpTo(rq, tail) \o ts)
             /\ tail = rq[Len(rq)] => UpTo(rq, tail) = rq
  <2> DEFINE p == UpTo(rq, tail)
  <2>1. /\ p \in Seq(Tasks) /\ Elems(p) \subseteq Elems(rq) /\ Injective(p)
        /\ tail = rq[Len(rq)] => p = rq
    BY <1>2, UpToElems
  <2> HIDE DEF p
  <2>2. p \o ts \in Seq(Tasks) /\ Elems(p \o ts) = Elems(p) \cup Elems(ts) /\ Injective(p \o ts)
    BY <2>1, ConcatElems
  <2> QED BY <2>1, <2>2 DEF p
<1>3. NoTask \notin Elems(rq)
  BY ElemsDef, TasksAssumption
<1>4. /\ Linked(rq, tail, ts) \in Seq(Tasks)
      /\ Elems(Linked(rq, tail, ts)) \subseteq Elems(rq) \cup Elems(ts)
      /\ Injective(Linked(rq, tail, ts))
  <2>1. CASE ts = <<>> \/ tail = NoTask
    BY <1>1, <1>3, <2>1 DEF Linked
  <2>2. CASE ts # <<>> /\ tail \in Elems(rq)
    BY <1>2, <1>3, <2>2 DEF Linked
  <2>3. CASE ts # <<>> /\ tail # NoTask /\ tail \notin Elems(rq)
    BY <2>3 DEF Linked
  <2> QED BY <2>1, <2>2, <2>3
<1>5. Len(ts) \in Nat /\ Len(rq) \in Nat /\ (ts # <<>> => Len(ts) \in 1 .. Len(ts))
  OBVIOUS
<1>6. TailAfter(tail, ts) \in Tasks \cup {NoTask}
  BY <1>5 DEF TailAfter
<1>7. ASSUME Tidy(rq, tail) PROVE Linked(rq, tail, ts) = rq \o ts
  <2>1. CASE ts = <<>> \/ tail = NoTask
    BY <1>3, <2>1 DEF Linked
  <2>2. CASE ts # <<>> /\ tail # NoTask
    <3>1. rq # <<>> /\ tail = rq[Len(rq)]
      BY <1>7, <2>2 DEF Tidy
    <3>2. Len(rq) \in 1 .. Len(rq)
      BY <3>1
    <3>3. tail \in Elems(rq)
      BY <3>1, <3>2, ElemsDef
    <3> QED BY <1>2, <2>2, <3>1, <3>3 DEF Linked
  <2> QED BY <2>1, <2>2
<1>8. ASSUME Tidy(rq, tail) PROVE Tidy(rq \o ts, TailAfter(tail, ts))
  <2>1. CASE ts = <<>>
    <3>1. rq \o ts = rq
      BY <2>1
    <3> QED BY <1>8, <2>1, <3>1 DEF TailAfter
  <2>2. CASE ts # <<>>
    <3>1. /\ Len(rq \o ts) = Len(rq) + Len(ts) /\ rq \o ts # <<>>
          /\ (rq \o ts)[Len(rq) + Len(ts)] = ts[Len(ts)]
      BY <1>5, <2>2
    <3> QED BY <2>2, <3>1 DEF TailAfter, Tidy
  <2> QED BY <2>1, <2>2
<1> QED BY <1>1, <1>4, <1>6, <1>7, <1>8

LEMMA ConcatOne ==
    ASSUME NEW p \in Seq(Tasks), NEW q \in Seq(Tasks)
    PROVE  /\ Len(p) \in Nat
           /\ Len(q) = 1 => Len(p \o q) = Len(p) + 1 /\ (p \o q)[Len(p) + 1] = q[1]
<1>1. /\ Len(p \o q) = Len(p) + Len(q) /\ Len(p) \in Nat /\ Len(q) \in Nat
      /\ \A i \in 1 .. Len(q) : (p \o q)[Len(p) + i] = q[i]
  OBVIOUS
<1> QED BY <1>1

\* One task behind the tail.
LEMMA LinkedOne ==
    ASSUME NEW rq \in Seq(Tasks), NEW t \in Tasks, NEW tail \in Tasks \cup {NoTask},
           Injective(rq), t \notin Elems(rq)
    PROVE  /\ Linked(rq, tail, <<t>>) \in Seq(Tasks)
           /\ Elems(Linked(rq, tail, <<t>>)) \subseteq Elems(rq) \cup {t}
           /\ Injective(Linked(rq, tail, <<t>>))
           /\ Tidy(rq, tail) => /\ Elems(Linked(rq, tail, <<t>>)) = Elems(rq) \cup {t}
                                /\ Tidy(Linked(rq, tail, <<t>>), t)
                                /\ Linked(rq, tail, <<t>>) # <<>>
<1> DEFINE ts == <<t>>
<1>1. /\ ts \in Seq(Tasks) /\ Elems(ts) = {t} /\ Injective(ts)
      /\ TailAfter(tail, ts) = t /\ Len(ts) = 1
  BY DEF Elems, Injective, TailAfter
<1> HIDE DEF ts
<1>2. /\ Linked(rq, tail, ts) \in Seq(Tasks)
      /\ Elems(Linked(rq, tail, ts)) \subseteq Elems(rq) \cup Elems(ts)
      /\ Injective(Linked(rq, tail, ts))
      /\ Tidy(rq, tail) => /\ Linked(rq, tail, ts) = rq \o ts
                           /\ Elems(Linked(rq, tail, ts)) = Elems(rq) \cup Elems(ts)
                           /\ Tidy(Linked(rq, tail, ts), TailAfter(tail, ts))
  BY <1>1, LinkedElems
<1>3. Len(rq \o ts) = Len(rq) + Len(ts) /\ Len(rq) \in Nat
  <2>1. ts \in Seq(Tasks)
    BY <1>1
  <2> QED BY <2>1
<1>4. rq \o ts # <<>>
  BY <1>1, <1>3
<1> QED BY <1>1, <1>2, <1>4 DEF ts

-----------------------------------------------------------------------------
(* switch_task *)

\* What switch_task may be given, and what it has once the running task is put away: no
\* task is on two queues, or twice on one.
Types(rq, tail, sq, st, tk) ==
    /\ rq \in Seq(Tasks) /\ sq \in Seq(Tasks)
    /\ tail \in Tasks \cup {NoTask}
    /\ st \in [Tasks -> TaskStates]
    /\ tk \in [Tasks -> Word]

Queued(rq, sq, st) ==
    /\ Injective(rq) /\ Injective(sq)
    /\ \A t \in Elems(rq) : t \notin Elems(sq) /\ st[t] \in {"READY", "DESTROY"}
    /\ \A t \in Elems(sq) : st[t] \in {"SLEEPING", "DESTROY"}

\* The tasks no queue is answerable for: made and not linked yet, or never to be.
Pending == {ktask[c] : c \in Tasks} \cup leaked

\* And what holds until a tick lands inside create_kernel_task's enqueue_ready_task: the
\* tail is in order, and every live task is on one of the two queues, or is in 'others'.
Complete(rq, tail, sq, st, others) ==
    /\ Tidy(rq, tail)
    /\ \A t \in Tasks : st[t] # "FREE" => t \in Elems(rq) \cup Elems(sq) \cup others

\* The part of TypeOK that switch_task can change.
QueueTypes ==
    /\ running_task \in Tasks \cup {NoTask}
    /\ Types(ready_queue, ready_queue_tail, sleep_queue, state, sleep_ticks)
    /\ panic \in Panics

\* What switch_task does with tasks that were not in S: nothing.
Elsewhere(S, st) ==
    \A u \in Tasks : u \notin S =>
        /\ u \notin Elems(ready_queue)' \cup Elems(sleep_queue)' \cup {running_task'}
        /\ state'[u] = st[u]

Switched(S, st) ==
    /\ QueueTypes' /\ OneQueue'
    /\ ~torn' /\ panic' = "none" => Tidy(ready_queue, ready_queue_tail)'
    /\ \A u \in Tasks : st[u] = "FREE" => state'[u] = "FREE"
    /\ Elsewhere(S, st)

\* Choosing the next task (sched.c:85-106, 251-264).
LEMMA NextReady ==
    ASSUME NEW rq, NEW tail, NEW sq, NEW st, NEW tk,
           Types(rq, tail, sq, st, tk), Queued(rq, sq, st),
           ~torn' => Complete(rq, tail, sq, st, Pending), UNCHANGED <<ktask, leaked>>,
           panic \in Panics, get_next_ready_task(rq, tail, sq, st, tk)
    PROVE  Switched(Elems(rq) \cup Elems(sq), st)
<1>0. /\ rq \in Seq(Tasks) /\ sq \in Seq(Tasks) /\ tail \in Tasks \cup {NoTask}
      /\ st \in [Tasks -> TaskStates] /\ tk \in [Tasks -> Word]
  BY DEF Types
<1>1. ASSUME NEW i \in 1 .. Len(rq),
             st[rq[i]] # "DESTROY",
             \A j \in 1 .. i - 1 : st[rq[j]] = "DESTROY",
             running_task' = rq[i],
             ready_queue' = SubSeq(rq, i + 1, Len(rq)),
             ready_queue_tail' = IF tail = rq[i] THEN NoTask ELSE tail,
             state' = [Destroyed(st, {rq[j] : j \in 1 .. i - 1}) EXCEPT ![rq[i]] = "RUNNING"],
             sleep_queue' = sq, sleep_ticks' = tk, panic' = panic
      PROVE  Switched(Elems(rq) \cup Elems(sq), st)
  <2> DEFINE gone == {rq[j] : j \in 1 .. i - 1}
             rest == SubSeq(rq, i + 1, Len(rq))
  <2>0. i \in 0 .. Len(rq) /\ Len(rq) \in Nat
    BY <1>0
  <2>1. /\ rest \in Seq(Tasks) /\ Injective(rest)
        /\ Elems(rest) = {rq[j] : j \in i + 1 .. Len(rq)}
    BY <1>0, <2>0, SplitElems DEF Queued
  <2>2. rq[i] \in Tasks /\ rq[i] \in Elems(rq) /\ st[rq[i]] = "READY"
    <3>1. rq[i] \in Elems(rq)
      BY <1>0, ElemsDef
    <3> QED BY <1>0, <1>1, <3>1, ElemsDef DEF Queued
  <2>3. /\ Elems(rq) = gone \cup {rq[i]} \cup Elems(rest)
        /\ rq[i] \notin gone /\ rq[i] \notin Elems(rest) /\ gone \cap Elems(rest) = {}
    <3>1. Elems(rq) = {rq[j] : j \in 1 .. Len(rq)}
      BY <1>0, ElemsDef
    <3>2. \A j, k \in 1 .. Len(rq) : rq[j] = rq[k] => j = k
      BY DEF Queued, Injective
    <3>3. rq[i] \notin gone
      BY <1>1
    <3>4. ASSUME NEW j \in i + 1 .. Len(rq) PROVE rq[j] # rq[i] /\ rq[j] \notin gone
      BY <2>0, <3>2
    <3>5. ASSUME NEW j \in 1 .. Len(rq) PROVE rq[j] \in gone \cup {rq[i]} \cup Elems(rest)
      <4>1. j \in 1 .. i - 1 \/ j = i \/ j \in i + 1 .. Len(rq)
        BY <2>0
      <4> QED BY <2>1, <4>1
    <3>6. gone \subseteq Elems(rq) /\ Elems(rest) \subseteq Elems(rq)
      BY <2>0, <2>1, <3>1
    <3> QED BY <2>1, <2>2, <3>1, <3>3, <3>4, <3>5, <3>6
  <2>4. \A t \in gone : t \in Tasks /\ st[t] = "DESTROY"
    BY <1>0, <1>1, <2>3, ElemsDef
  <2>9. Tidy(rq, tail) => Tidy(rest, IF tail = rq[i] THEN NoTask ELSE tail)
    <3> SUFFICES ASSUME Tidy(rq, tail)
                 PROVE  Tidy(rest, IF tail = rq[i] THEN NoTask ELSE tail)
      OBVIOUS
    <3>1. rq # <<>> /\ tail = rq[Len(rq)] /\ Len(rq) \in 1 .. Len(rq)
      BY <2>0 DEF Tidy
    <3>2. CASE i = Len(rq)
      <4>1. rest = <<>>
        BY <2>0, <3>2
      <4> HIDE DEF rest
      <4> QED BY <3>1, <3>2, <4>1 DEF Tidy
    <3>3. CASE i # Len(rq)
      <4>1. tail # rq[i]
        BY <3>1, <3>3 DEF Queued, Injective
      <4>2. Len(rest) = Len(rq) - i /\ \A j \in 1 .. Len(rq) - i : rest[j] = rq[i + j]
        BY <1>0, <2>0
      <4> HIDE DEF rest
      <4>3. Len(rq) - i \in 1 .. Len(rq) - i /\ i + (Len(rq) - i) = Len(rq)
        BY <2>0, <3>1, <3>3
      <4>4. rest # <<>> /\ rest[Len(rest)] = rq[Len(rq)]
        BY <2>1, <4>2, <4>3
      <4> QED BY <3>1, <4>1, <4>4 DEF Tidy
    <3> QED BY <3>2, <3>3
  <2> HIDE DEF gone, rest
  <2>5. /\ state' \in [Tasks -> TaskStates]
        /\ state'[rq[i]] = "RUNNING"
        /\ \A t \in gone : state'[t] = "FREE"
        /\ \A t \in Tasks : t \notin gone /\ t # rq[i] => state'[t] = st[t]
    BY <1>0, <1>1, <2>2, <2>3, <2>4 DEF Destroyed, TaskStates, gone
  <2>6. ready_queue' = rest /\ sleep_queue' = sq /\ running_task' = rq[i]
    BY <1>1 DEF rest
  <2>7. QueueTypes'
    BY <1>0, <1>1, <2>1, <2>2, <2>5, <2>6 DEF QueueTypes, Types
  <2>8. OneQueue'
    <3>1. \A t \in Elems(sq) : t \in Tasks /\ t # rq[i] /\ t \notin gone
      BY <1>0, <2>2, <2>3, ElemsDef DEF Queued
    <3>2. Injective(ready_queue') /\ Injective(sleep_queue')
      BY <2>1, <2>6 DEF Queued
    <3>3. \A t \in Elems(rest) : /\ t \in Tasks /\ t # rq[i] /\ t \notin Elems(sq)
                                 /\ state'[t] \in {"READY", "DESTROY"}
      BY <1>0, <2>1, <2>3, <2>5, ElemsDef DEF Queued
    <3>4. \A t \in Elems(sq) : t # rq[i] /\ state'[t] \in {"SLEEPING", "DESTROY"}
      BY <2>5, <3>1 DEF Queued
    <3>5. ~torn' => \A t \in Tasks : state'[t] # "FREE" =>
                       t \in {rq[i]} \cup Elems(rest) \cup Elems(sq) \cup Pending
      BY <2>3, <2>5 DEF Complete
    <3> QED BY <2>2, <2>5, <2>6, <3>2, <3>3, <3>4, <3>5 DEF OneQueue, Pending
  <2>10. ~torn' /\ panic' = "none" => Tidy(ready_queue, ready_queue_tail)'
    BY <1>1, <2>6, <2>9 DEF Complete
  <2>11. \A u \in Tasks : st[u] = "FREE" => state'[u] = "FREE"
    BY <2>2, <2>5
  <2>12. Elsewhere(Elems(rq) \cup Elems(sq), st)
    BY <2>2, <2>3, <2>5, <2>6 DEF Elsewhere
  <2> QED BY <2>7, <2>8, <2>10, <2>11, <2>12 DEF Switched
<1>2. ASSUME \A i \in 1 .. Len(rq) : st[rq[i]] = "DESTROY",
             running_task' = NoTask, ready_queue' = <<>>,
             ready_queue_tail' = IF tail \in Elems(rq) THEN NoTask ELSE tail,
             state' = Destroyed(st, Elems(rq)),
             sleep_queue' = sq, sleep_ticks' = tk, panic' = "empty_ready_queue"
      PROVE  Switched(Elems(rq) \cup Elems(sq), st)
  <2>1. /\ state' \in [Tasks -> TaskStates]
        /\ \A t \in Tasks : state'[t] = IF t \in Elems(rq) THEN "FREE" ELSE st[t]
    BY <1>0, <1>2 DEF Destroyed, TaskStates
  <2>2. <<>> \in Seq(Tasks) /\ Elems(<<>>) = {} /\ Injective(<<>>)
    BY DEF Elems, Injective
  <2>3. QueueTypes'
    BY <1>0, <1>2, <2>1, <2>2 DEF QueueTypes, Types, Panics
  <2>4. \A t \in Elems(sq) : t \in Tasks /\ t # NoTask /\ state'[t] \in {"SLEEPING", "DESTROY"}
    BY <1>0, <2>1, ElemsDef, TasksAssumption DEF Queued
  <2>5. OneQueue'
    BY <1>2, <2>1, <2>2, <2>4, TasksAssumption DEF OneQueue, Queued, Complete, Pending
  <2>6. Elsewhere(Elems(rq) \cup Elems(sq), st)
    BY <1>2, <2>1, <2>2, TasksAssumption DEF Elsewhere
  <2> QED BY <1>2, <2>1, <2>3, <2>5, <2>6 DEF Switched
<1> QED BY <1>1, <1>2 DEF get_next_ready_task

\* What do_scheduling and the calls give to switch_task: the two queues, and the
\* running task on neither.
Switchable(rq, sq, st) ==
    /\ running_task \in Tasks
    /\ running_task \notin Elems(rq) \cup Elems(sq)
    /\ st[running_task] \in {"RUNNING", "SLEEPING", "DESTROY"}
    /\ Injective(rq) /\ Injective(sq)
    /\ \A t \in Elems(rq) : t \notin Elems(sq) /\ st[t] \in {"READY", "DESTROY"}
    /\ \A t \in Elems(sq) : st[t] \in {"SLEEPING", "DESTROY"}

LEMMA WordType == \A x \in Int : x % M \in Word
BY ClockAssumption DEF Word

LEMMA WordInt == \A x \in Word : x \in Int
BY ClockAssumption DEF Word

\* The ready queue and states after the running task was put on it in state v.
Readied(rq, tail, sq, st, tk, v, q, s) ==
    /\ Types(q, running_task, sq, s, tk)
    /\ Queued(q, sq, s)
    /\ Elems(q) \subseteq Elems(rq) \cup {running_task}
    /\ \A t \in Tasks : t # running_task => s[t] = st[t]
    /\ s[running_task] = v
    /\ Complete(rq, tail, sq, st, {running_task} \cup Pending)
          => /\ Complete(q, running_task, sq, s, Pending)
             /\ Elems(q) = Elems(rq) \cup {running_task}
             /\ running_task = q[Len(q)]

\* A task marked RUNNING or DESTROY goes behind the tail of the ready queue
\* (sched.c:233-240).
LEMMA SwitchReady ==
    ASSUME NEW rq, NEW tail, NEW sq, NEW st, NEW tk, NEW v \in {"READY", "DESTROY"},
           Types(rq, tail, sq, st, tk), Switchable(rq, sq, st)
    PROVE  Readied(rq, tail, sq, st, tk, v,
                   Linked(rq, tail, <<running_task>>), [st EXCEPT ![running_task] = v])
<1> DEFINE q == Linked(rq, tail, <<running_task>>)
           s == [st EXCEPT ![running_task] = v]
<1>1. /\ q \in Seq(Tasks) /\ Elems(q) \subseteq Elems(rq) \cup {running_task} /\ Injective(q)
      /\ Tidy(rq, tail) => /\ Elems(q) = Elems(rq) \cup {running_task}
                           /\ Tidy(q, running_task)
                           /\ q # <<>>
  BY LinkedOne DEF Types, Switchable
<1>2. Elems(rq) \subseteq Tasks /\ Elems(sq) \subseteq Tasks
  BY ElemsDef DEF Types
<1>3. /\ s \in [Tasks -> TaskStates] /\ s[running_task] = v
      /\ \A t \in Tasks : t # running_task => s[t] = st[t]
  BY DEF Types, Switchable, TaskStates
<1> HIDE DEF q, s
<1>4. Types(q, running_task, sq, s, tk)
  BY <1>1, <1>3 DEF Types, Switchable
<1>5. Queued(q, sq, s)
  BY <1>1, <1>2, <1>3 DEF Queued, Switchable
<1>6. ASSUME Complete(rq, tail, sq, st, {running_task} \cup Pending)
      PROVE  /\ Complete(q, running_task, sq, s, Pending)
             /\ Elems(q) = Elems(rq) \cup {running_task}
             /\ running_task = q[Len(q)]
  BY <1>1, <1>3, <1>6 DEF Complete, Tidy
<1>7. Readied(rq, tail, sq, st, tk, v, q, s)
  BY <1>1, <1>3, <1>4, <1>5, <1>6 DEF Readied
<1> QED BY <1>7 DEF q, s

\* enqueue_sleep_task (sched.c:111-156) faults, or adds the task to the sleep queue
\* somewhere and goes on with some deltas.
LEMMA SleepPositions ==
    ASSUME NEW rq, NEW tail, NEW sq, NEW st, NEW tk,
           Types(rq, tail, sq, st, tk), Switchable(rq, sq, st),
           enqueue_sleep_task(running_task, rq, tail, sq, st, tk)
    PROVE  \/ NullInsert(rq, tail, sq, st, tk)
           \/ \E q \in Seq(Tasks), k \in [Tasks -> Word] :
                /\ Injective(q) /\ Elems(q) = Elems(sq) \cup {running_task}
                /\ get_next_ready_task(rq, tail, q, st, k)
<1> DEFINE y == running_task
           Added(q, k) == /\ q \in Seq(Tasks) /\ k \in [Tasks -> Word]
                          /\ Injective(q) /\ Elems(q) = Elems(sq) \cup {y}
                          /\ get_next_ready_task(rq, tail, q, st, k)
<1>0. /\ y \in Tasks /\ y \notin Elems(sq) /\ sq \in Seq(Tasks) /\ tk \in [Tasks -> Word]
  BY DEF Types, Switchable
<1> SUFFICES NullInsert(rq, tail, sq, st, tk) \/ \E q, k : Added(q, k)
  OBVIOUS
<1>2. CASE sq = <<>> /\ get_next_ready_task(rq, tail, <<y>>, st, tk)
  <2>1. <<y>> \in Seq(Tasks) /\ Elems(<<y>>) = {y} /\ Injective(<<y>>) /\ Elems(<<>>) = {}
    BY <1>0 DEF Elems, Injective
  <2>2. Added(<<y>>, tk)
    BY <1>0, <1>2, <2>1
  <2> QED BY <2>2
<1>3. CASE InsertSleeper(y, rq, tail, sq, st, tk)
  <2>1. PICK i \in 1 .. Len(sq), sum \in Word :
          \/ NullInsert(rq, tail, sq, st, tk)
          \/ get_next_ready_task(rq, tail, InsertBefore(sq, i, y), st,
                [tk EXCEPT ![y] = (@ - sum) % M, ![sq[i]] = (@ - (tk[y] - sum)) % M])
    BY <1>3 DEF InsertSleeper
  <2> DEFINE k == [tk EXCEPT ![y] = (@ - sum) % M, ![sq[i]] = (@ - (tk[y] - sum)) % M]
  <2>2. CASE get_next_ready_task(rq, tail, InsertBefore(sq, i, y), st, k)
    <3>1. sq[i] \in Tasks /\ sq[i] # y
      BY <1>0, ElemsDef
    <3>2. (tk[y] - sum) % M \in Word /\ (tk[sq[i]] - (tk[y] - sum)) % M \in Word
      <4>1. tk[y] \in Int /\ tk[sq[i]] \in Int /\ sum \in Int
        BY <1>0, <3>1, WordInt
      <4> QED BY <4>1, WordType
    <3>3. k \in [Tasks -> Word]
      BY <1>0, <3>1, <3>2
    <3>4. /\ InsertBefore(sq, i, y) \in Seq(Tasks) /\ Injective(InsertBefore(sq, i, y))
          /\ Elems(InsertBefore(sq, i, y)) = Elems(sq) \cup {y}
      BY <1>0, InsertElems DEF Switchable
    <3> HIDE DEF k
    <3>5. Added(InsertBefore(sq, i, y), k)
      BY <2>2, <3>3, <3>4
    <3> QED BY <3>5
  <2> QED BY <2>1, <2>2
<1>4. CASE AppendSleeper(y, rq, tail, sq, st, tk)
  <2>1. PICK sum \in Word :
          get_next_ready_task(rq, tail, Append(sq, y), st, [tk EXCEPT ![y] = (@ - sum) % M])
    BY <1>4 DEF AppendSleeper
  <2> DEFINE k == [tk EXCEPT ![y] = (@ - sum) % M]
  <2>2. (tk[y] - sum) % M \in Word
    <3>1. tk[y] \in Int /\ sum \in Int
      BY <1>0, WordInt
    <3> QED BY <3>1, WordType
  <2>3. k \in [Tasks -> Word]
    BY <1>0, <2>2
  <2>4. /\ Append(sq, y) \in Seq(Tasks) /\ Injective(Append(sq, y))
        /\ Elems(Append(sq, y)) = Elems(sq) \cup {y}
    BY <1>0, AppendElems DEF Switchable
  <2>5. Added(Append(sq, y), k)
    BY <2>1, <2>3, <2>4
  <2> QED BY <2>5
<1> QED BY <1>2, <1>3, <1>4 DEF enqueue_sleep_task

\* A task that goes to sleep leaves the other tasks where they are (sched.c:241-245).
LEMMA SwitchSleeping ==
    ASSUME NEW rq, NEW tail, NEW sq, NEW st, NEW tk,
           Types(rq, tail, sq, st, tk), Switchable(rq, sq, st),
           ~torn' => Complete(rq, tail, sq, st, {running_task} \cup Pending),
           UNCHANGED <<ktask, leaked>>,
           panic \in Panics, st[running_task] = "SLEEPING",
           enqueue_sleep_task(running_task, rq, tail, sq, st, tk)
    PROVE  Switched(Elems(rq) \cup Elems(sq) \cup {running_task}, st)
<1>1. ASSUME NEW q \in Seq(Tasks), NEW k \in [Tasks -> Word], Injective(q),
             Elems(q) = Elems(sq) \cup {running_task}, get_next_ready_task(rq, tail, q, st, k)
      PROVE  Switched(Elems(rq) \cup Elems(sq) \cup {running_task}, st)
  <2>1. Types(rq, tail, q, st, k)
    BY DEF Types
  <2>2. Queued(rq, q, st)
    BY <1>1 DEF Queued, Switchable
  <2>3. ~torn' => Complete(rq, tail, q, st, Pending)
    BY <1>1 DEF Complete
  <2>4. Switched(Elems(rq) \cup Elems(q), st)
    BY <1>1, <2>1, <2>2, <2>3, NextReady
  <2>5. Elems(rq) \cup Elems(q) = Elems(rq) \cup Elems(sq) \cup {running_task}
    BY <1>1
  <2> QED BY <2>4, <2>5
<1>2. CASE NullInsert(rq, tail, sq, st, tk)
  <2>1. /\ running_task' = running_task /\ ready_queue' = rq /\ sleep_queue' = sq
        /\ ready_queue_tail' = tail
        /\ state' = st /\ sleep_ticks' = tk /\ panic' \in Panics
    BY <1>2 DEF NullInsert, Panics
  <2>2. QueueTypes'
    BY <2>1 DEF QueueTypes, Types, Switchable
  <2>3. OneQueue'
    BY <2>1 DEF OneQueue, Switchable, Complete, Pending
  <2>4. ~torn' => Tidy(ready_queue, ready_queue_tail)'
    BY <2>1 DEF Complete
  <2> QED BY <2>1, <2>2, <2>3, <2>4 DEF Switched, Elsewhere
<1> QED BY <1>1, <1>2, SleepPositions

\* switch_task keeps every task in one place (sched.c:208-291).
LEMMA SwitchTask ==
    ASSUME NEW rq, NEW tail, NEW sq, NEW st, NEW tk,
           Types(rq, tail, sq, st, tk), Switchable(rq, sq, st),
           ~torn' => Complete(rq, tail, sq, st, {running_task} \cup Pending),
           UNCHANGED <<ktask, leaked>>,
           panic \in Panics, switch_task(rq, tail, sq, st, tk)
    PROVE  Switched(Elems(rq) \cup Elems(sq) \cup {running_task}, st)
<1>1. ASSUME NEW v \in {"READY", "DESTROY"}, Requeue(rq, tail, sq, st, tk, v)
      PROVE  Switched(Elems(rq) \cup Elems(sq) \cup {running_task}, st)
  <2> DEFINE q == Linked(rq, tail, <<running_task>>)
             s == [st EXCEPT ![running_task] = v]
  <2>0. Readied(rq, tail, sq, st, tk, v, q, s)
    BY SwitchReady
  <2>2. get_next_ready_task(q, running_task, sq, s, tk)
    BY <1>1 DEF Requeue
  <2> HIDE DEF q, s
  <2>1. /\ Types(q, running_task, sq, s, tk) /\ Queued(q, sq, s)
        /\ Elems(q) \subseteq Elems(rq) \cup {running_task}
        /\ \A t \in Tasks : t # running_task => s[t] = st[t]
        /\ Complete(rq, tail, sq, st, {running_task} \cup Pending)
              => Complete(q, running_task, sq, s, Pending)
    BY <2>0 DEF Readied
  <2>3. Switched(Elems(q) \cup Elems(sq), s)
    BY <2>1, <2>2, NextReady
  <2>4. st[running_task] # "FREE"
    BY DEF Switchable
  <2>5. Elsewhere(Elems(rq) \cup Elems(sq) \cup {running_task}, st)
    BY <2>1, <2>3 DEF Switched, Elsewhere
  <2>6. \A u \in Tasks : st[u] = "FREE" => state'[u] = "FREE"
    BY <2>1, <2>3, <2>4 DEF Switched
  <2> QED BY <2>3, <2>5, <2>6 DEF Switched
<1>2. CASE st[running_task] = "SLEEPING"
  BY <1>2, SwitchSleeping DEF switch_task
<1> QED BY <1>1, <1>2 DEF switch_task

-----------------------------------------------------------------------------
(* The invariant of the scheduler *)

\* In create_kernel_task, up to the store that links the new task.
Creating == {"test", "set_head", "load", "link"}

\* The task a creator is about to link is on no queue, and nobody else's to link.
CreateInv ==
    \A c \in Tasks : state[c] # "FREE" =>
        /\ pc[c] \in Creating =>
              /\ ktask[c] \in Tasks
              /\ ktask[c] \notin Elems(ready_queue) \cup Elems(sleep_queue) \cup {running_task}
              /\ state[ktask[c]] \in {"READY", "DESTROY"}
              /\ \A u \in Tasks : u # c /\ state[u] # "FREE" /\ pc[u] \in Creating
                                    => ktask[u] # ktask[c]
        /\ pc[c] \notin Creating \cup {"set_tail"} => ktask[c] = NoTask

\* Until a tick lands inside it, only the running task is in enqueue_ready_task, and the
\* two pointers are what its last test or store made them.
TailInv ==
    ~torn /\ panic = "none" =>
        /\ \A c \in Tasks : state[c] # "FREE" /\ pc[c] \in Linking => c = running_task
        /\ pc[running_task] # "set_tail" => Tidy(ready_queue, ready_queue_tail)
        /\ pc[running_task] = "set_head" => ready_queue = <<>>
        /\ pc[running_task] \in {"load", "link"} => ready_queue # <<>>
        /\ pc[running_task] = "link" => last[running_task] = ready_queue_tail
        /\ pc[running_task] = "set_tail" => /\ ready_queue # <<>>
                                            /\ ktask[running_task] = ready_queue[Len(ready_queue)]

IInv == TypeOK /\ OneQueue /\ CreateInv /\ TailInv

\* The queues and states that update_sleep_queue (sched.c:184-205) leaves.
Woken(rq, tail, rest, st, tk) ==
    /\ Types(rq, tail, rest, st, tk)
    /\ Switchable(rq, rest, st)
    /\ ~torn /\ pc[running_task] \notin Linking
          => Complete(rq, tail, rest, st, {running_task} \cup Pending)
    /\ Elems(rq) \cup Elems(rest) \subseteq Elems(ready_queue) \cup Elems(sleep_queue)
    /\ \A t \in Tasks : /\ t \notin Elems(sleep_queue) => st[t] = state[t]
                        /\ state[t] = "FREE" => st[t] = "FREE"

LEMMA UpdateSleepQueue ==
    ASSUME IInv, panic = "none", NEW k \in 0 .. Len(sleep_queue)
    PROVE  LET woken == SubSeq(sleep_queue, 1, k)
           IN  Woken(Linked(ready_queue, ready_queue_tail, woken),
                     TailAfter(ready_queue_tail, woken),
                     SubSeq(sleep_queue, k + 1, Len(sleep_queue)),
                     [t \in Tasks |-> IF t \in Elems(woken) THEN "READY" ELSE state[t]],
                     DecrementHead(sleep_queue, sleep_ticks))
<1> DEFINE tk == DecrementHead(sleep_queue, sleep_ticks)
           woken == SubSeq(sleep_queue, 1, k)
           rest == SubSeq(sleep_queue, k + 1, Len(sleep_queue))
           st == [t \in Tasks |-> IF t \in Elems(woken) THEN "READY" ELSE state[t]]
           rq == Linked(ready_queue, ready_queue_tail, woken)
           tail == TailAfter(ready_queue_tail, woken)
<1>1. /\ ready_queue \in Seq(Tasks) /\ sleep_queue \in Seq(Tasks)
      /\ ready_queue_tail \in Tasks \cup {NoTask}
      /\ state \in [Tasks -> TaskStates] /\ sleep_ticks \in [Tasks -> Word]
      /\ Injective(ready_queue) /\ Injective(sleep_queue) /\ running_task \in Tasks
      /\ Elems(ready_queue) \cap Elems(sleep_queue) = {}
  BY DEF IInv, TypeOK, OneQueue
<1>2. tk \in [Tasks -> Word]
  <2>1. CASE sleep_queue = <<>>
    BY <1>1, <2>1 DEF DecrementHead
  <2>2. CASE sleep_queue # <<>>
    <3>1. sleep_queue[1] \in Tasks
      BY <1>1, <2>2
    <3>2. (sleep_ticks[sleep_queue[1]] - 1) % M \in Word
      <4>1. sleep_ticks[sleep_queue[1]] \in Int
        BY <1>1, <3>1, WordInt
      <4> QED BY <4>1, WordType
    <3> QED BY <1>1, <2>2, <3>1, <3>2 DEF DecrementHead
  <2> QED BY <2>1, <2>2
<1>3. /\ woken \in Seq(Tasks) /\ rest \in Seq(Tasks) /\ Injective(woken) /\ Injective(rest)
      /\ Elems(sleep_queue) = Elems(woken) \cup Elems(rest) /\ Elems(woken) \cap Elems(rest) = {}
  BY <1>1, SplitElems
<1> HIDE DEF woken, rest
<1>10. Elems(ready_queue) \cap Elems(woken) = {}
  BY <1>1, <1>3
<1>4. /\ rq \in Seq(Tasks) /\ Elems(rq) \subseteq Elems(ready_queue) \cup Elems(woken)
      /\ Injective(rq) /\ tail \in Tasks \cup {NoTask}
      /\ Tidy(ready_queue, ready_queue_tail) =>
            Elems(rq) = Elems(ready_queue) \cup Elems(woken) /\ Tidy(rq, tail)
  BY <1>1, <1>3, <1>10, LinkedElems
<1>5. /\ st \in [Tasks -> TaskStates]
      /\ \A t \in Tasks : st[t] = IF t \in Elems(woken) THEN "READY" ELSE state[t]
  BY <1>1 DEF TaskStates
<1>6. Elems(sleep_queue) \subseteq Tasks /\ Elems(ready_queue) \subseteq Tasks
  BY <1>1, ElemsDef
<1> HIDE DEF tk, st, rq, tail
<1>7. Types(rq, tail, rest, st, tk)
  BY <1>2, <1>3, <1>4, <1>5 DEF Types
<1>8. Switchable(rq, rest, st)
  <2>1. running_task \notin Elems(rq) \cup Elems(rest)
    BY <1>3, <1>4 DEF IInv, OneQueue
  <2>2. st[running_task] \in {"RUNNING", "SLEEPING", "DESTROY"}
    <3>1. running_task \notin Elems(woken)
      BY <1>3 DEF IInv, OneQueue
    <3> QED BY <1>1, <1>5, <3>1 DEF IInv, OneQueue
  <2>3. \A t \in Elems(rq) : t \notin Elems(rest) /\ st[t] \in {"READY", "DESTROY"}
    BY <1>1, <1>3, <1>4, <1>5, <1>6 DEF IInv, OneQueue
  <2>4. \A t \in Elems(rest) : st[t] \in {"SLEEPING", "DESTROY"}
    BY <1>3, <1>5, <1>6 DEF IInv, OneQueue
  <2> QED BY <1>1, <1>3, <1>4, <2>1, <2>2, <2>3, <2>4 DEF Switchable
<1>9. ASSUME ~torn, pc[running_task] \notin Linking
      PROVE  Complete(rq, tail, rest, st, {running_task} \cup Pending)
  <2>1. Tidy(ready_queue, ready_queue_tail)
    BY <1>9 DEF IInv, TailInv, Linking
  <2>2. \A t \in Tasks : st[t] # "FREE" =>
           t \in Elems(rq) \cup Elems(rest) \cup {running_task} \cup Pending
    BY <1>3, <1>4, <1>5, <1>9, <2>1 DEF IInv, OneQueue, Pending
  <2> QED BY <1>4, <2>1, <2>2 DEF Complete
<1>11. \A t \in Tasks : /\ t \notin Elems(sleep_queue) => st[t] = state[t]
                        /\ state[t] = "FREE" => st[t] = "FREE"
  BY <1>3, <1>5 DEF IInv, OneQueue
<1>12. Elems(rq) \cup Elems(rest) \subseteq Elems(ready_queue) \cup Elems(sleep_queue)
  BY <1>3, <1>4
<1>13. Woken(rq, tail, rest, st, tk)
  BY <1>7, <1>8, <1>9, <1>11, <1>12 DEF Woken
<1> QED BY <1>13 DEF tk, woken, rest, st, rq, tail

\* A switch leaves the tasks that are being created where they are; and it leaves the
\* tail in order unless it is the tick that finds enqueue_ready_task half done.
LEMMA SwitchCreating ==
    ASSUME IInv, panic = "none", NEW S, NEW st, Switched(S, st),
           S \subseteq Elems(ready_queue) \cup Elems(sleep_queue) \cup {running_task},
           \A t \in Tasks : /\ t \notin Elems(sleep_queue) => st[t] = state[t]
                            /\ state[t] = "FREE" => st[t] = "FREE",
           UNCHANGED <<ktask, leaked>>,
           ~torn' => ~torn /\ pc[running_task] \notin Linking,
           \A c \in Tasks : \/ pc'[c] = pc[c]
                            \/ /\ pc'[c] = "code"
                               /\ pc[c] \notin Creating \cup {"set_tail"}
    PROVE  CreateInv' /\ TailInv'
<1>1. \A c \in Tasks : state'[c] # "FREE" => state[c] # "FREE"
  BY DEF Switched
<1>2. \A c \in Tasks : pc'[c] \in Creating \cup {"set_tail"} => pc'[c] = pc[c]
  BY DEF Creating
<1>3. ASSUME NEW c \in Tasks, state'[c] # "FREE", pc'[c] \in Creating
      PROVE  /\ ktask'[c] \in Tasks
             /\ ktask'[c] \notin Elems(ready_queue)' \cup Elems(sleep_queue)' \cup {running_task'}
             /\ state'[ktask'[c]] \in {"READY", "DESTROY"}
             /\ \A u \in Tasks : u # c /\ state'[u] # "FREE" /\ pc'[u] \in Creating
                                   => ktask'[u] # ktask'[c]
  <2>1. state[c] # "FREE" /\ pc[c] \in Creating
    BY <1>1, <1>2, <1>3
  <2>2. /\ ktask[c] \in Tasks
        /\ ktask[c] \notin Elems(ready_queue) \cup Elems(sleep_queue) \cup {running_task}
        /\ state[ktask[c]] \in {"READY", "DESTROY"}
        /\ \A u \in Tasks : u # c /\ state[u] # "FREE" /\ pc[u] \in Creating
                              => ktask[u] # ktask[c]
    BY <2>1 DEF IInv, CreateInv
  <2>3. /\ ktask[c] \notin Elems(ready_queue)' \cup Elems(sleep_queue)' \cup {running_task'}
        /\ state'[ktask[c]] = state[ktask[c]]
    BY <2>2 DEF Switched, Elsewhere
  <2> QED BY <1>1, <1>2, <2>2, <2>3
<1>4. ASSUME NEW c \in Tasks, state'[c] # "FREE", pc'[c] \notin Creating \cup {"set_tail"}
      PROVE  ktask'[c] = NoTask
  BY <1>1, <1>4 DEF IInv, CreateInv
<1>5. CreateInv'
  BY <1>3, <1>4 DEF CreateInv
<1>6. ASSUME ~torn', panic' = "none" PROVE TailInv'
  <2>1. \A c \in Tasks : state'[c] # "FREE" => pc'[c] \notin Linking
    BY <1>1, <1>2, <1>6 DEF IInv, TailInv, Linking, Creating
  <2>2. running_task' \in Tasks /\ state'[running_task'] # "FREE"
    BY <1>6 DEF Switched, OneQueue
  <2> QED BY <1>6, <2>1, <2>2 DEF TailInv, Switched, Linking
<1> QED BY <1>5, <1>6 DEF TailInv

\* A step that moves no task between queues and writes a state that fits its queue.
LEMMA StateWrite ==
    ASSUME IInv, NEW t \in Tasks, NEW v \in TaskStates,
           state' = [state EXCEPT ![t] = v],
           v = "DESTROY" \/ (t = running_task /\ v = "SLEEPING"),
           state[t] # "FREE",
           UNCHANGED <<running_task, ready_queue, sleep_queue, ktask, leaked, torn, panic>>
    PROVE  OneQueue'
<1>1. /\ state \in [Tasks -> TaskStates]
      /\ Elems(ready_queue) \subseteq Tasks /\ Elems(sleep_queue) \subseteq Tasks
  BY ElemsDef DEF IInv, TypeOK
<1>2. /\ state'[t] = v
      /\ \A u \in Tasks : u # t => state'[u] = state[u]
  BY <1>1
<1> QED BY <1>1, <1>2 DEF IInv, OneQueue

\* A step of a task outside create_kernel_task.
LEMMA QuietCreating ==
    ASSUME IInv, panic = "none",
           UNCHANGED <<running_task, ready_queue, ready_queue_tail, sleep_queue, ktask, last, torn>>,
           \A c \in Tasks : \/ pc'[c] = pc[c]
                            \/ {pc[c], pc'[c]} \cap (Creating \cup {"set_tail"}) = {},
           \A c \in Tasks : /\ state'[c] = "FREE" <=> state[c] = "FREE"
                            /\ c # running_task => state'[c] \in {state[c], "DESTROY"}
    PROVE  CreateInv' /\ TailInv'
<1>1. CreateInv'
  <2>1. ASSUME NEW c \in Tasks, state'[c] # "FREE", pc'[c] \in Creating
        PROVE  /\ ktask[c] \in Tasks
               /\ ktask[c] \notin Elems(ready_queue) \cup Elems(sleep_queue) \cup {running_task}
               /\ state'[ktask[c]] \in {"READY", "DESTROY"}
               /\ \A u \in Tasks : u # c /\ state'[u] # "FREE" /\ pc'[u] \in Creating
                                     => ktask[u] # ktask[c]
    <3>1. state[c] # "FREE" /\ pc[c] \in Creating
      BY <2>1
    <3>2. \A u \in Tasks : state'[u] # "FREE" /\ pc'[u] \in Creating
                             => state[u] # "FREE" /\ pc[u] \in Creating
      OBVIOUS
    <3> QED BY <3>1, <3>2 DEF IInv, CreateInv
  <2>2. ASSUME NEW c \in Tasks, state'[c] # "FREE", pc'[c] \notin Creating \cup {"set_tail"}
        PROVE  ktask[c] = NoTask
    BY <2>2 DEF IInv, CreateInv
  <2> QED BY <2>1, <2>2 DEF CreateInv
<1>2. ASSUME ~torn, panic' = "none" PROVE TailInv'
  <2>1. running_task \in Tasks
    BY DEF IInv, OneQueue
  <2>2. \A c \in Tasks : pc'[c] \in Linking => pc'[c] = pc[c]
    BY DEF Linking, Creating
  <2>3. \A c \in Tasks : pc[c] = "set_tail" => pc'[c] = pc[c]
    OBVIOUS
  <2> QED BY <1>2, <2>1, <2>2, <2>3 DEF IInv, TailInv, Linking
<1> QED BY <1>1, <1>2 DEF TailInv

\* What sched_yield gives to switch_task.
LEMMA YieldSwitchable ==
    ASSUME IInv, NEW t \in Tasks, sched_yield(t)
    PROVE  /\ Types(ready_queue, ready_queue_tail, sleep_queue, state, sleep_ticks)
           /\ Switchable(ready_queue, sleep_queue, state)
           /\ pc[running_task] \notin Linking \cup Creating
           /\ ~torn => Complete(ready_queue, ready_queue_tail, sleep_queue, state,
                                {running_task} \cup Pending)
<1>1. panic = "none" /\ pc[running_task] \in {"code", "parked", "exiting"} /\ running_task = t
  BY DEF sched_yield, At
<1>2. Types(ready_queue, ready_queue_tail, sleep_queue, state, sleep_ticks)
  BY DEF IInv, TypeOK, Types
<1>3. Switchable(ready_queue, sleep_queue, state)
  BY <1>1 DEF IInv, OneQueue, Switchable
<1>4. pc[running_task] \notin Linking \cup Creating /\ pc[running_task] # "set_tail"
  BY <1>1 DEF Linking, Creating
<1>5. ~torn => Complete(ready_queue, ready_queue_tail, sleep_queue, state,
                        {running_task} \cup Pending)
  BY <1>1, <1>4 DEF IInv, TailInv, OneQueue, Complete, Pending
<1> QED BY <1>2, <1>3, <1>4, <1>5

LEMMA StepInv == IInv /\ [Next]_vars => IInv'
<1> SUFFICES ASSUME IInv, [Next]_vars PROVE IInv'
  OBVIOUS
<1>0. /\ TypeOK /\ OneQueue /\ CreateInv /\ TailInv
      /\ Elems(ready_queue) \subseteq Tasks /\ Elems(sleep_queue) \subseteq Tasks
  BY ElemsDef DEF IInv, TypeOK
<1> USE TasksAssumption
<1>1. CASE do_scheduling
  <2>0. /\ panic = "none" /\ pc' = pc /\ ktask' = ktask /\ last' = last /\ victim' = victim
        /\ leaked' = leaked /\ torn' \in BOOLEAN
        /\ ~torn' => ~torn /\ pc[running_task] \notin Linking
    BY <1>0, <1>1 DEF do_scheduling, locals, TypeOK
  <2>1. owed' \in [Tasks -> Nat]
    <3>1. \A t \in Tasks : owed[t] \in Nat
      BY <1>0 DEF TypeOK
    <3> QED BY <1>1, <3>1 DEF do_scheduling
  <2>2. CASE NullTail
    <3>1. /\ UNCHANGED <<running_task, ready_queue, ready_queue_tail, sleep_queue, state, sleep_ticks>>
          /\ panic' = "null_tail"
      BY <2>2 DEF NullTail, ready
    <3>2. TypeOK'
      BY <1>0, <2>0, <2>1, <3>1 DEF TypeOK, Panics
    <3>3. OneQueue'
      BY <1>0, <2>0, <3>1 DEF OneQueue
    <3>4. CreateInv' /\ TailInv'
      BY <1>0, <2>0, <3>1 DEF CreateInv, TailInv
    <3> QED BY <3>2, <3>3, <3>4 DEF IInv
  <2>3. CASE ~NullTail
    <3>1. PICK k \in 0 .. Len(sleep_queue) :
            LET tk == DecrementHead(sleep_queue, sleep_ticks)
                woken == SubSeq(sleep_queue, 1, k)
                st == [t \in Tasks |-> IF t \in Elems(woken) THEN "READY" ELSE state[t]]
            IN  switch_task(Linked(ready_queue, ready_queue_tail, woken),
                            TailAfter(ready_queue_tail, woken),
                            SubSeq(sleep_queue, k + 1, Len(sleep_queue)), st, tk)
      BY <1>1, <2>3 DEF do_scheduling
    <3> DEFINE tk == DecrementHead(sleep_queue, sleep_ticks)
               woken == SubSeq(sleep_queue, 1, k)
               rest == SubSeq(sleep_queue, k + 1, Len(sleep_queue))
               st == [t \in Tasks |-> IF t \in Elems(woken) THEN "READY" ELSE state[t]]
               rq == Linked(ready_queue, ready_queue_tail, woken)
               tail == TailAfter(ready_queue_tail, woken)
    <3>2. switch_task(rq, tail, rest, st, tk)
      BY <3>1
    <3>3. Woken(rq, tail, rest, st, tk)
      BY <2>0, UpdateSleepQueue
    <3> HIDE DEF tk, woken, rest, st, rq, tail
    <3>4. /\ Types(rq, tail, rest, st, tk) /\ Switchable(rq, rest, st)
          /\ ~torn' => Complete(rq, tail, rest, st, {running_task} \cup Pending)
          /\ panic \in Panics
      BY <2>0, <3>3 DEF Woken, Panics
    <3>5. Switched(Elems(rq) \cup Elems(rest) \cup {running_task}, st)
      BY <2>0, <3>2, <3>4, SwitchTask
    <3>6. CreateInv' /\ TailInv'
      BY <2>0, <3>3, <3>5, SwitchCreating DEF Woken
    <3>7. TypeOK'
      BY <1>0, <2>0, <2>1, <3>5 DEF TypeOK, Switched, QueueTypes, Types
    <3> QED BY <3>5, <3>6, <3>7 DEF IInv, Switched
  <2> QED BY <2>2, <2>3
<1>2. ASSUME NEW t \in Tasks, NEW new \in Tasks, create_kernel_task(t, new) PROVE IInv'
  <2>1. /\ running_task = t /\ pc[t] = "code" /\ state[new] = "FREE" /\ panic = "none"
        /\ t # new /\ state[t] # "FREE"
        /\ new \notin Elems(ready_queue) /\ new \notin Elems(sleep_queue)
    BY <1>0, <1>2 DEF create_kernel_task, At, OneQueue
  <2>2. /\ state' \in [Tasks -> TaskStates] /\ state'[new] = "READY"
        /\ \A u \in Tasks : u # new => state'[u] = state[u]
    BY <1>0, <1>2 DEF create_kernel_task, TypeOK, TaskStates
  <2>3. /\ UNCHANGED <<running_task, ready_queue, ready_queue_tail, sleep_queue, torn, panic>>
        /\ leaked' = leaked \cup ({ktask[new]} \ {NoTask})
    BY <1>2 DEF create_kernel_task, ready
  <2>4. /\ pc' \in [Tasks -> Places] /\ pc'[t] = "test" /\ pc'[new] = "code"
        /\ \A u \in Tasks : u # t /\ u # new => pc'[u] = pc[u]
    BY <1>0, <1>2, <2>1 DEF create_kernel_task, TypeOK, Places
  <2>5. /\ ktask' \in [Tasks -> Tasks \cup {NoTask}] /\ ktask'[t] = new /\ ktask'[new] = NoTask
        /\ \A u \in Tasks : u # t /\ u # new => ktask'[u] = ktask[u]
    BY <1>0, <1>2, <2>1 DEF create_kernel_task, TypeOK
  <2>6. /\ victim' \in [Tasks -> Tasks \cup {NoTask}] /\ last' \in [Tasks -> Tasks \cup {NoTask}]
        /\ owed' \in [Tasks -> Nat] /\ sleep_ticks' \in [Tasks -> Word]
    <3>1. 0 \in Word
      BY ClockAssumption DEF Word
    <3>2. /\ victim \in [Tasks -> Tasks \cup {NoTask}] /\ last \in [Tasks -> Tasks \cup {NoTask}]
          /\ owed \in [Tasks -> Nat] /\ sleep_ticks \in [Tasks -> Word]
      BY <1>0 DEF TypeOK
    <3>3. /\ victim' = [victim EXCEPT ![new] = NoTask] /\ last' = [last EXCEPT ![new] = NoTask]
          /\ owed' = [owed EXCEPT ![new] = 0] /\ sleep_ticks' = [sleep_ticks EXCEPT ![new] = 0]
      BY <1>2 DEF create_kernel_task
    <3> QED BY <3>1, <3>2, <3>3
  <2>7. leaked' \subseteq Tasks
    BY <1>0, <2>3 DEF TypeOK
  <2>8. TypeOK'
    BY <1>0, <2>2, <2>3, <2>4, <2>5, <2>6, <2>7 DEF TypeOK
  <2>9. OneQueue'
    <3>1. ktask[t] = NoTask
      BY <1>0, <2>1 DEF CreateInv, Creating
    <3>2. \A u \in Tasks : u \in {ktask[c] : c \in Tasks} \cup leaked =>
                           u \in {ktask'[c] : c \in Tasks} \cup leaked'
      BY <2>3, <2>5, <3>1
    <3>3. new \in {ktask'[c] : c \in Tasks}
      BY <2>5
    <3>4. ~torn' => \A u \in Tasks : state'[u] # "FREE" =>
              u \in {running_task'} \cup Elems(ready_queue') \cup Elems(sleep_queue')
                    \cup {ktask'[c] : c \in Tasks} \cup leaked'
      BY <1>0, <2>2, <2>3, <3>2, <3>3 DEF OneQueue
    <3> QED BY <1>0, <2>1, <2>2, <2>3, <3>4 DEF OneQueue
  <2>10. CreateInv'
    <3>1. ASSUME NEW c \in Tasks, state'[c] # "FREE", pc'[c] \in Creating, c # t
          PROVE  /\ state[c] # "FREE" /\ pc[c] \in Creating /\ ktask'[c] = ktask[c] /\ ktask[c] # new
                 /\ ktask[c] \in Tasks
                 /\ ktask[c] \notin Elems(ready_queue) \cup Elems(sleep_queue) \cup {running_task}
                 /\ state[ktask[c]] \in {"READY", "DESTROY"}
                 /\ \A u \in Tasks : u # c /\ state[u] # "FREE" /\ pc[u] \in Creating
                                       => ktask[u] # ktask[c]
      <4>1. c # new
        BY <2>4, <3>1 DEF Creating
      <4>2. state[c] # "FREE" /\ pc[c] \in Creating /\ ktask'[c] = ktask[c]
        BY <2>2, <2>4, <2>5, <3>1, <4>1
      <4> QED BY <1>0, <2>1, <4>2 DEF CreateInv
    <3>2. ASSUME NEW c \in Tasks, state'[c] # "FREE", pc'[c] \in Creating
          PROVE  /\ ktask'[c] \in Tasks
                 /\ ktask'[c] \notin Elems(ready_queue') \cup Elems(sleep_queue') \cup {running_task'}
                 /\ state'[ktask'[c]] \in {"READY", "DESTROY"}
                 /\ \A u \in Tasks : u # c /\ state'[u] # "FREE" /\ pc'[u] \in Creating
                                       => ktask'[u] # ktask'[c]
      <4>1. CASE c = t
        BY <2>1, <2>2, <2>3, <2>5, <3>1, <4>1
      <4>2. CASE c # t
        <5>1. \A u \in Tasks : u # c /\ state'[u] # "FREE" /\ pc'[u] \in Creating
                                 => ktask'[u] # ktask'[c]
          BY <2>5, <3>1, <3>2, <4>2
        <5> QED BY <2>2, <2>3, <3>1, <3>2, <4>2, <5>1
      <4> QED BY <4>1, <4>2
    <3>3. ASSUME NEW c \in Tasks, state'[c] # "FREE", pc'[c] \notin Creating \cup {"set_tail"}
          PROVE  ktask'[c] = NoTask
      BY <1>0, <2>2, <2>4, <2>5, <3>3 DEF CreateInv, Creating
    <3> QED BY <3>2, <3>3 DEF CreateInv
  <2>11. TailInv'
    <3>1. ~torn => /\ \A c \in Tasks : state[c] # "FREE" /\ pc[c] \in Linking => c = running_task
                   /\ Tidy(ready_queue, ready_queue_tail)
      BY <1>0, <2>1 DEF TailInv
    <3>2. \A c \in Tasks : state'[c] # "FREE" /\ pc'[c] \in Linking =>
                             state[c] # "FREE" /\ pc[c] \in Linking
      BY <2>2, <2>4 DEF Linking
    <3> QED BY <2>1, <2>3, <2>4, <3>1, <3>2 DEF TailInv
  <2> QED BY <2>8, <2>9, <2>10, <2>11 DEF IInv
<1>3. ASSUME NEW t \in Tasks, NEW ticks \in Word, NEW asked \in Nat, Arm(t, ticks, asked) PROVE IInv'
  <2>1. TypeOK'
    BY <1>0, <1>3 DEF Arm, Goto, TypeOK, Places, ready, locals
  <2>2. OneQueue'
    BY <1>0, <1>3 DEF Arm, OneQueue, ready, locals
  <2>3. \A c \in Tasks : pc'[c] = pc[c] \/ {pc[c], pc'[c]} \cap (Creating \cup {"set_tail"}) = {}
    BY <1>0, <1>3 DEF Arm, At, Goto, TypeOK, Creating
  <2>4. CreateInv' /\ TailInv'
    BY <1>3, <2>3, QuietCreating DEF Arm, At, ready, locals
  <2> QED BY <2>1, <2>2, <2>4 DEF IInv
<1>4. ASSUME NEW t \in Tasks, NEW s \in Seconds, sleep(t, s) PROVE IInv'
  <2>1. HZ * s + 1 \in Nat
    BY ClockAssumption
  <2>2. (HZ * s + 1) % M \in Word
    BY <2>1, WordType
  <2> QED BY <1>3, <1>4, <2>1, <2>2 DEF sleep
<1>5. ASSUME NEW t \in Tasks, NEW m \in Millis, usleep(t, m) PROVE IInv'
  <2>1. HZ * m \in Nat
    BY ClockAssumption
  <2>2. (HZ * m) % M \in Nat
    BY <2>1, WordType, ClockAssumption DEF Word
  <2>3. \A x \in Nat : x \div MS \in Nat
    BY ClockAssumption
  <2>4. (((HZ * m) % M) \div MS + 1) % M \in Word /\ (HZ * m) \div MS + 1 \in Nat
    BY <2>1, <2>2, <2>3, WordType
  <2> QED BY <1>3, <1>5, <2>4 DEF usleep
<1>6. ASSUME NEW t \in Tasks, Park(t) PROVE IInv'
  <2>1. TypeOK'
    BY <1>0, <1>6 DEF Park, Goto, TypeOK, Places, TaskStates, ready, locals, ghosts
  <2>2. state[t] # "FREE" /\ t = running_task /\ panic = "none"
    BY <1>0, <1>6 DEF Park, At, OneQueue
  <2>3. OneQueue'
    BY <1>6, <2>2, StateWrite DEF Park, TaskStates, ready, locals, ghosts
  <2>4. \A c \in Tasks : pc'[c] = pc[c] \/ {pc[c], pc'[c]} \cap (Creating \cup {"set_tail"}) = {}
    BY <1>0, <1>6 DEF Park, At, Goto, TypeOK, Creating
  <2>5. \A c \in Tasks : /\ state'[c] = "FREE" <=> state[c] = "FREE"
                         /\ c # running_task => state'[c] \in {state[c], "DESTROY"}
    BY <1>0, <1>6, <2>2 DEF Park, TypeOK
  <2>6. CreateInv' /\ TailInv'
    BY <1>6, <2>2, <2>4, <2>5, QuietCreating DEF Park, ready, locals, ghosts
  <2> QED BY <2>1, <2>3, <2>6 DEF IInv
<1>7. ASSUME NEW t \in Tasks, sched_kill(t) PROVE IInv'
  <2>1. TypeOK'
    BY <1>0, <1>7 DEF sched_kill, Goto, TypeOK, Places, TaskStates, ready, locals, ghosts
  <2>2. state[t] # "FREE" /\ t = running_task /\ panic = "none"
    BY <1>0, <1>7 DEF sched_kill, At, OneQueue
  <2>3. OneQueue'
    BY <1>7, <2>2, StateWrite DEF sched_kill, TaskStates, ready, locals, ghosts
  <2>4. \A c \in Tasks : pc'[c] = pc[c] \/ {pc[c], pc'[c]} \cap (Creating \cup {"set_tail"}) = {}
    BY <1>0, <1>7 DEF sched_kill, At, Goto, TypeOK, Creating
  <2>5. \A c \in Tasks : /\ state'[c] = "FREE" <=> state[c] = "FREE"
                         /\ c # running_task => state'[c] \in {state[c], "DESTROY"}
    BY <1>0, <1>7, <2>2 DEF sched_kill, TypeOK
  <2>6. CreateInv' /\ TailInv'
    BY <1>7, <2>2, <2>4, <2>5, QuietCreating DEF sched_kill, ready, locals, ghosts
  <2> QED BY <2>1, <2>3, <2>6 DEF IInv
<1>8. ASSUME NEW t \in Tasks, sched_yield(t) PROVE IInv'
  <2> DEFINE S == Elems(ready_queue) \cup Elems(sleep_queue) \cup {running_task}
  <2>0. /\ panic = "none" /\ running_task = t
        /\ UNCHANGED <<ktask, last, victim, owed, leaked, torn>>
        /\ pc' = [pc EXCEPT ![t] = "code"]
    BY <1>8 DEF sched_yield, At, Goto, locals, ghosts
  <2>1. /\ Types(ready_queue, ready_queue_tail, sleep_queue, state, sleep_ticks)
        /\ Switchable(ready_queue, sleep_queue, state)
        /\ pc[running_task] \notin Linking \cup Creating
        /\ ~torn => Complete(ready_queue, ready_queue_tail, sleep_queue, state,
                             {running_task} \cup Pending)
    BY <1>8, YieldSwitchable
  <2>2. switch_task(ready_queue, ready_queue_tail, sleep_queue, state, sleep_ticks)
    BY <1>8 DEF sched_yield
  <2>3. panic \in Panics
    BY <1>0 DEF TypeOK
  <2>4. Switched(S, state)
    BY <2>0, <2>1, <2>2, <2>3, SwitchTask
  <2>5. pc' \in [Tasks -> Places] /\ pc'[t] = "code" /\ \A c \in Tasks : c # t => pc'[c] = pc[c]
    BY <1>0, <2>0 DEF TypeOK, Places
  <2>6. pc[t] # "set_tail"
    BY <2>0, <2>1 DEF Linking
  <2>7. CreateInv' /\ TailInv'
    BY <2>0, <2>1, <2>4, <2>5, <2>6, SwitchCreating
  <2>8. TypeOK'
    BY <1>0, <2>0, <2>4, <2>5 DEF TypeOK, Switched, QueueTypes, Types
  <2> QED BY <2>4, <2>7, <2>8 DEF IInv, Switched
<1>9. ASSUME NEW t \in Tasks, NEW found \in Killable, KillFind(t, found) PROVE IInv'
  <2>1. TypeOK'
    BY <1>0, <1>9 DEF KillFind, Goto, TypeOK, Places, ready, ghosts
  <2>2. OneQueue'
    BY <1>0, <1>9 DEF KillFind, OneQueue, ready, ghosts
  <2>3. \A c \in Tasks : pc'[c] = pc[c] \/ {pc[c], pc'[c]} \cap (Creating \cup {"set_tail"}) = {}
    BY <1>0, <1>9 DEF KillFind, At, Goto, TypeOK, Creating
  <2>4. CreateInv' /\ TailInv'
    BY <1>9, <2>3, QuietCreating DEF KillFind, At, ready, ghosts
  <2> QED BY <2>1, <2>2, <2>4 DEF IInv
<1>10. ASSUME NEW t \in Tasks, KillMark(t) PROVE IInv'
  <2>1. /\ UNCHANGED <<running_task, ready_queue, ready_queue_tail, sleep_queue, sleep_ticks,
                       ktask, last, owed, leaked, torn>>
        /\ pc' \in [Tasks -> Places] /\ victim' \in [Tasks -> Tasks \cup {NoTask}]
        /\ panic = "none" /\ panic' \in Panics
    BY <1>0, <1>10 DEF KillMark, At, Goto, TypeOK, Places, Panics, ready, ghosts
  <2>2. \A c \in Tasks : pc'[c] = pc[c] \/ {pc[c], pc'[c]} \cap (Creating \cup {"set_tail"}) = {}
    BY <1>0, <1>10 DEF KillMark, At, Goto, TypeOK, Creating
  <2>3. CASE state' = state
    <3>1. TypeOK'
      BY <1>0, <2>1, <2>3 DEF TypeOK
    <3>2. OneQueue'
      BY <1>0, <2>1, <2>3 DEF OneQueue
    <3>3. CreateInv' /\ TailInv'
      BY <2>1, <2>2, <2>3, QuietCreating
    <3> QED BY <3>1, <3>2, <3>3 DEF IInv
  <2>4. CASE state' # state
    <3>1. /\ state[victim[t]] # "FREE" /\ state' = [state EXCEPT ![victim[t]] = "DESTROY"]
          /\ panic' = panic
      BY <1>10, <2>4 DEF KillMark
    <3>2. victim[t] \in Tasks
      BY <1>0, <2>4, <3>1 DEF TypeOK
    <3>3. TypeOK'
      BY <1>0, <2>1, <3>1, <3>2 DEF TypeOK, TaskStates
    <3>4. OneQueue'
      BY <2>1, <3>1, <3>2, StateWrite DEF TaskStates
    <3>5. \A c \in Tasks : /\ state'[c] = "FREE" <=> state[c] = "FREE"
                           /\ c # running_task => state'[c] \in {state[c], "DESTROY"}
      BY <1>0, <3>1, <3>2 DEF TypeOK
    <3>6. CreateInv' /\ TailInv'
      BY <2>1, <2>2, <3>1, <3>5, QuietCreating
    <3> QED BY <3>3, <3>4, <3>6 DEF IInv
  <2> QED BY <2>3, <2>4
<1>11. ASSUME NEW t \in Tasks, TestEmpty(t) PROVE IInv'
  <2>1. /\ running_task = t /\ pc[t] = "test" /\ panic = "none" /\ state[t] # "FREE"
        /\ UNCHANGED <<running_task, ready_queue, ready_queue_tail, sleep_queue, state,
                       sleep_ticks, victim, ktask, last, owed, leaked, torn, panic>>
    BY <1>0, <1>11 DEF TestEmpty, At, OneQueue, ready, locals, ghosts
  <2>2. /\ pc' \in [Tasks -> Places] /\ \A c \in Tasks : c # t => pc'[c] = pc[c]
        /\ pc'[t] = IF ready_queue = <<>> /\ ready_queue_tail = NoTask THEN "set_head" ELSE "load"
    BY <1>0, <1>11 DEF TestEmpty, Goto, TypeOK, Places, Linking
  <2>3. TypeOK' /\ OneQueue'
    BY <1>0, <2>1, <2>2 DEF TypeOK, OneQueue
  <2>4. \A c \in Tasks : pc'[c] \in Creating <=> pc[c] \in Creating
    BY <2>1, <2>2 DEF Creating
  <2>5. \A c \in Tasks : pc'[c] = "set_tail" <=> pc[c] = "set_tail"
    BY <2>1, <2>2
  <2>6. CreateInv'
    BY <1>0, <2>1, <2>4, <2>5 DEF CreateInv
  <2>7. TailInv'
    <3>1. ~torn => /\ Tidy(ready_queue, ready_queue_tail)
                   /\ \A c \in Tasks : state[c] # "FREE" /\ pc[c] \in Linking => c = running_task
      BY <1>0, <2>1 DEF TailInv
    <3> QED BY <2>1, <2>2, <3>1 DEF TailInv, Tidy
  <2> QED BY <2>3, <2>6, <2>7 DEF IInv
<1>12. ASSUME NEW t \in Tasks, SetHead(t) PROVE IInv'
  <2> DEFINE k == ktask[t]
  <2>1. /\ running_task = t /\ pc[t] = "set_head" /\ panic = "none" /\ state[t] # "FREE"
        /\ UNCHANGED <<running_task, ready_queue_tail, sleep_queue, state,
                       sleep_ticks, victim, ktask, last, owed, leaked, torn, panic>>
        /\ ready_queue' = <<k>>
    BY <1>0, <1>12 DEF SetHead, At, OneQueue, locals, ghosts
  <2>2. pc' \in [Tasks -> Places] /\ pc'[t] = "set_tail" /\ \A c \in Tasks : c # t => pc'[c] = pc[c]
    BY <1>0, <1>12 DEF SetHead, Goto, TypeOK, Places, Linking
  <2>3. /\ k \in Tasks /\ k \notin Elems(sleep_queue) \cup {running_task}
        /\ state[k] \in {"READY", "DESTROY"}
        /\ \A u \in Tasks : u # t /\ state[u] # "FREE" /\ pc[u] \in Creating => ktask[u] # k
    BY <1>0, <2>1 DEF CreateInv, Creating
  <2> HIDE DEF k
  <2>4. /\ ready_queue' \in Seq(Tasks) /\ Elems(ready_queue') = {k} /\ Injective(ready_queue')
        /\ ready_queue' # <<>> /\ ready_queue'[Len(ready_queue')] = k
    BY <2>1, <2>3 DEF Elems, Injective
  <2>5. TypeOK'
    BY <1>0, <2>1, <2>2, <2>4 DEF TypeOK
  <2>6. OneQueue'
    <3>1. ~torn => Elems(ready_queue) = {}
      BY <1>0, <2>1 DEF TailInv, Elems
    <3> QED BY <1>0, <2>1, <2>3, <2>4, <3>1 DEF OneQueue
  <2>7. CreateInv'
    <3>1. \A c \in Tasks : state'[c] # "FREE" /\ pc'[c] \in Creating =>
            c # t /\ state[c] # "FREE" /\ pc[c] \in Creating
      BY <2>1, <2>2 DEF Creating
    <3>2. \A c \in Tasks : pc'[c] \notin Creating \cup {"set_tail"} =>
            pc[c] \notin Creating \cup {"set_tail"}
      BY <2>1, <2>2
    <3> QED BY <1>0, <2>1, <2>3, <2>4, <3>1, <3>2 DEF CreateInv
  <2>8. TailInv'
    <3>1. ~torn => \A c \in Tasks : state[c] # "FREE" /\ pc[c] \in Linking => c = running_task
      BY <1>0, <2>1 DEF TailInv
    <3> QED BY <2>1, <2>2, <2>4, <3>1 DEF TailInv, k
  <2> QED BY <2>5, <2>6, <2>7, <2>8 DEF IInv
<1>13. ASSUME NEW t \in Tasks, LoadTail(t) PROVE IInv'
  <2>1. /\ running_task = t /\ pc[t] = "load" /\ panic = "none" /\ state[t] # "FREE"
        /\ UNCHANGED <<running_task, ready_queue, ready_queue_tail, sleep_queue, state,
                       sleep_ticks, victim, ktask, owed, leaked, torn, panic>>
        /\ last' = [last EXCEPT ![t] = ready_queue_tail]
    BY <1>0, <1>13 DEF LoadTail, At, OneQueue, ready, ghosts
  <2>2. pc' \in [Tasks -> Places] /\ pc'[t] = "link" /\ \A c \in Tasks : c # t => pc'[c] = pc[c]
    BY <1>0, <1>13 DEF LoadTail, Goto, TypeOK, Places, Linking
  <2>3. last' \in [Tasks -> Tasks \cup {NoTask}] /\ last'[t] = ready_queue_tail
    BY <1>0, <2>1 DEF TypeOK
  <2>4. TypeOK' /\ OneQueue'
    BY <1>0, <2>1, <2>2, <2>3 DEF TypeOK, OneQueue
  <2>5. \A c \in Tasks : pc'[c] \in Creating <=> pc[c] \in Creating
    BY <2>1, <2>2 DEF Creating
  <2>6. \A c \in Tasks : pc'[c] = "set_tail" <=> pc[c] = "set_tail"
    BY <2>1, <2>2
  <2>7. CreateInv'
    BY <1>0, <2>1, <2>5, <2>6 DEF CreateInv
  <2>8. TailInv'
    BY <1>0, <2>1, <2>2, <2>3 DEF TailInv
  <2> QED BY <2>4, <2>7, <2>8 DEF IInv
<1>14. ASSUME NEW t \in Tasks, LinkTail(t) PROVE IInv'
  <2> DEFINE k == ktask[t]
  <2>1. /\ running_task = t /\ pc[t] = "link" /\ panic = "none" /\ state[t] # "FREE"
        /\ UNCHANGED <<running_task, ready_queue_tail, sleep_queue, state,
                       sleep_ticks, victim, ktask, last, owed, leaked, torn>>
    BY <1>0, <1>14 DEF LinkTail, At, OneQueue, locals, ghosts
  <2>2. /\ k \in Tasks /\ k \notin Elems(ready_queue) \cup Elems(sleep_queue) \cup {running_task}
        /\ state[k] \in {"READY", "DESTROY"}
        /\ \A u \in Tasks : u # t /\ state[u] # "FREE" /\ pc[u] \in Creating => ktask[u] # k
    BY <1>0, <2>1 DEF CreateInv, Creating
  <2>3. ~torn => /\ ready_queue # <<>> /\ Tidy(ready_queue, ready_queue_tail)
                 /\ last[t] = ready_queue_tail
                 /\ \A c \in Tasks : state[c] # "FREE" /\ pc[c] \in Linking => c = running_task
    BY <1>0, <2>1 DEF TailInv
  <2>4. ~torn => last[t] \in Elems(ready_queue) /\ last[t] = ready_queue[Len(ready_queue)]
    <3>1. ready_queue # <<>> => Len(ready_queue) \in DOMAIN ready_queue
      BY <1>0 DEF TypeOK
    <3> QED BY <2>3, <3>1 DEF Tidy, Elems
  <2>5. CASE UNCHANGED <<ready_queue, pc>>
    <3>1. panic' \in Panics \ {"none"}
      BY <1>14, <2>1, <2>5, <1>0 DEF LinkTail, Panics, Goto, TypeOK
    <3>2. TypeOK' /\ OneQueue' /\ CreateInv' /\ TailInv'
      BY <1>0, <2>1, <2>5, <3>1 DEF TypeOK, OneQueue, CreateInv, TailInv
    <3> QED BY <3>2 DEF IInv
  <2>6. CASE pc' = [pc EXCEPT ![t] = "set_tail"] /\ panic' = "none"
    <3>1. pc' \in [Tasks -> Places] /\ pc'[t] = "set_tail" /\ \A c \in Tasks : c # t => pc'[c] = pc[c]
      BY <1>0, <2>6 DEF TypeOK, Places, Linking
    <3>2. \A c \in Tasks : state'[c] # "FREE" /\ pc'[c] \in Creating =>
            c # t /\ state[c] # "FREE" /\ pc[c] \in Creating
      BY <2>1, <3>1 DEF Creating
    <3>3. \A c \in Tasks : pc'[c] \notin Creating \cup {"set_tail"} =>
            pc[c] \notin Creating \cup {"set_tail"}
      BY <2>1, <3>1
    <3>4. CASE last[t] \in Elems(ready_queue)
               /\ ready_queue' = UpTo(ready_queue, last[t]) \o <<k>>
      <4> DEFINE p == UpTo(ready_queue, last[t])
                 one == <<k>>
      <4>1. /\ p \in Seq(Tasks) /\ Elems(p) \subseteq Elems(ready_queue) /\ Injective(p)
            /\ ~torn => p = ready_queue
        BY <1>0, <2>4, <3>4, UpToElems DEF TypeOK, OneQueue
      <4>2. one \in Seq(Tasks) /\ Elems(one) = {k} /\ Injective(one) /\ Len(one) = 1 /\ one[1] = k
        BY <2>2 DEF Elems, Injective
      <4>3. ready_queue' = p \o one
        BY <3>4
      <4> HIDE DEF p, one, k
      <4>4. /\ ready_queue' \in Seq(Tasks) /\ Elems(ready_queue') = Elems(p) \cup {k}
            /\ Injective(ready_queue')
        <5>1. Elems(p) \cap Elems(one) = {}
          BY <2>2, <4>1, <4>2
        <5> QED BY <4>1, <4>2, <4>3, <5>1, ConcatElems
      <4>5. ready_queue' # <<>> /\ ready_queue'[Len(ready_queue')] = k
        <5>1. p \in Seq(Tasks) /\ one \in Seq(Tasks) /\ Len(one) = 1 /\ one[1] = k
          BY <4>1, <4>2
        <5>2. Len(p \o one) = Len(p) + 1 /\ Len(p) \in Nat /\ (p \o one)[Len(p) + 1] = one[1]
          BY <5>1, ConcatOne
        <5> QED BY <4>3, <4>4, <5>1, <5>2
      <4>6. TypeOK'
        BY <1>0, <2>1, <2>6, <3>1, <4>4 DEF TypeOK
      <4>7. OneQueue'
        BY <1>0, <2>1, <2>2, <2>6, <4>1, <4>4 DEF OneQueue
      <4>8. CreateInv'
        <5>1. \A c \in Tasks : state'[c] # "FREE" /\ pc'[c] \in Creating =>
                ktask[c] \notin Elems(ready_queue')
          BY <1>0, <2>2, <3>2, <4>1, <4>4 DEF CreateInv
        <5> QED BY <1>0, <2>1, <3>2, <3>3, <5>1 DEF CreateInv
      <4>9. TailInv'
        BY <2>1, <2>3, <2>6, <3>1, <4>5 DEF TailInv, k
      <4> QED BY <4>6, <4>7, <4>8, <4>9 DEF IInv
    <3>5. CASE torn /\ ready_queue' = ready_queue
      <4>1. TypeOK' /\ OneQueue'
        BY <1>0, <2>1, <2>6, <3>1, <3>5 DEF TypeOK, OneQueue
      <4>2. CreateInv'
        BY <1>0, <2>1, <3>2, <3>3, <3>5 DEF CreateInv
      <4>3. TailInv'
        BY <2>1, <3>5 DEF TailInv
      <4> QED BY <4>1, <4>2, <4>3 DEF IInv
    <3>6. \/ last[t] \in Elems(ready_queue) /\ ready_queue' = UpTo(ready_queue, last[t]) \o <<k>>
          \/ last[t] \notin Elems(ready_queue) /\ ready_queue' = ready_queue
      BY <1>14, <2>6 DEF LinkTail
    <3> QED BY <2>4, <3>4, <3>5, <3>6
  <2>7. UNCHANGED <<ready_queue, pc>> \/ (pc' = [pc EXCEPT ![t] = "set_tail"] /\ panic' = "none")
    BY <1>14, <2>1 DEF LinkTail, Goto
  <2> QED BY <2>5, <2>6, <2>7
<1>15. ASSUME NEW t \in Tasks, SetTail(t) PROVE IInv'
  <2> DEFINE k == ktask[t]
  <2>1. /\ running_task = t /\ pc[t] = "set_tail" /\ panic = "none" /\ state[t] # "FREE"
        /\ UNCHANGED <<running_task, ready_queue, sleep_queue, state,
                       sleep_ticks, victim, owed, leaked, torn, panic>>
        /\ ready_queue_tail' = k
    BY <1>0, <1>15 DEF SetTail, At, OneQueue, ghosts
  <2>2. pc' \in [Tasks -> Places] /\ pc'[t] = "code" /\ \A c \in Tasks : c # t => pc'[c] = pc[c]
    BY <1>0, <1>15 DEF SetTail, Goto, TypeOK, Places
  <2>3. /\ ktask' \in [Tasks -> Tasks \cup {NoTask}] /\ ktask'[t] = NoTask
        /\ \A c \in Tasks : c # t => ktask'[c] = ktask[c]
        /\ last' \in [Tasks -> Tasks \cup {NoTask}]
    BY <1>0, <1>15 DEF SetTail, TypeOK
  <2>4. k \in Tasks \cup {NoTask}
    BY <1>0 DEF TypeOK
  <2>5. ~torn => /\ ready_queue # <<>> /\ k = ready_queue[Len(ready_queue)]
                 /\ \A c \in Tasks : state[c] # "FREE" /\ pc[c] \in Linking => c = running_task
    BY <1>0, <2>1 DEF TailInv
  <2>6. ~torn => k \in Elems(ready_queue)
    <3>1. ready_queue # <<>> => Len(ready_queue) \in DOMAIN ready_queue
      BY <1>0 DEF TypeOK
    <3> QED BY <2>5, <3>1 DEF Elems
  <2> HIDE DEF k
  <2>7. TypeOK'
    BY <1>0, <2>1, <2>2, <2>3, <2>4 DEF TypeOK
  <2>8. OneQueue'
    <3>1. \A u \in Tasks : u \in {ktask[c] : c \in Tasks} => u = k \/ u \in {ktask'[c] : c \in Tasks}
      BY <2>3 DEF k
    <3> QED BY <1>0, <2>1, <2>6, <3>1 DEF OneQueue
  <2>9. CreateInv'
    <3>1. \A c \in Tasks : state'[c] # "FREE" /\ pc'[c] \in Creating =>
            c # t /\ state[c] # "FREE" /\ pc[c] \in Creating
      BY <2>1, <2>2 DEF Creating
    <3>2. \A c \in Tasks : c # t /\ pc'[c] \notin Creating \cup {"set_tail"} =>
            pc[c] \notin Creating \cup {"set_tail"}
      BY <2>1, <2>2
    <3> QED BY <1>0, <2>1, <2>3, <3>1, <3>2 DEF CreateInv
  <2>10. TailInv'
    <3>1. ~torn => \A c \in Tasks : state'[c] # "FREE" => pc'[c] \notin Linking
      BY <2>1, <2>2, <2>5 DEF Linking
    <3> QED BY <2>1, <2>2, <2>5, <3>1 DEF TailInv, Tidy
  <2> QED BY <2>7, <2>8, <2>9, <2>10 DEF IInv
<1>16. CASE UNCHANGED vars
  BY <1>16 DEF vars, ready, locals, ghosts, IInv, TypeOK, OneQueue, CreateInv, TailInv
<1> QED BY <1>1, <1>2, <1>4, <1>5, <1>6, <1>7, <1>8, <1>9, <1>10, <1>11, <1>12, <1>13,
           <1>14, <1>15, <1>16 DEF Next

\* sched_init's state (sched.c:301-310) satisfies the invariant.
LEMMA InitInv == Init => IInv
<1> SUFFICES ASSUME Init PROVE IInv
  OBVIOUS
<1>1. <<>> \in Seq(Tasks) /\ Elems(<<>>) = {} /\ Injective(<<>>)
  BY DEF Elems, Injective
<1>2. TypeOK
  <2>1. 0 \in Word /\ Idle \in Tasks
    BY TasksAssumption, ClockAssumption DEF Word
  <2>2. /\ state \in [Tasks -> TaskStates] /\ pc \in [Tasks -> Places]
        /\ sleep_ticks \in [Tasks -> Word] /\ owed \in [Tasks -> Nat]
    BY <2>1 DEF Init, TaskStates, Places
  <2>3. /\ victim \in [Tasks -> Tasks \cup {NoTask}] /\ ktask \in [Tasks -> Tasks \cup {NoTask}]
        /\ last \in [Tasks -> Tasks \cup {NoTask}]
    BY DEF Init
  <2> QED BY <1>1, <2>1, <2>2, <2>3 DEF Init, TypeOK, Panics
<1>3. OneQueue
  BY <1>1, TasksAssumption DEF Init, OneQueue
<1>4. CreateInv /\ TailInv
  BY TasksAssumption DEF Init, CreateInv, TailInv, Tidy, Creating, Linking
<1> QED BY <1>2, <1>3, <1>4 DEF IInv

\* The scheduler's variables keep their types, for every set of tasks and every clock.
THEOREM SchedTypeOK == Spec => []TypeOK
<1>1. IInv /\ [Next]_vars => IInv'
  BY StepInv
<1>2. IInv => TypeOK
  BY DEF IInv
<1> QED BY InitInv, <1>1, <1>2, PTL DEF Spec

\* Whatever the tasks call and wherever the ticks land, no queue operation of sched.c puts
\* a task on two queues, or twice on one, or in a state that does not fit; and none loses
\* a task as long as no tick has landed inside create_kernel_task's enqueue_ready_task.
THEOREM SchedOneQueue == Spec => []OneQueue
<1>1. IInv /\ [Next]_vars => IInv'
  BY StepInv
<1>2. IInv => OneQueue
  BY DEF IInv
<1> QED BY InitInv, <1>1, <1>2, PTL DEF Spec

-----------------------------------------------------------------------------
(* The idle task is always ready to run, unless it can be killed. *)

IdleInv ==
    /\ state[Idle] \in {"READY", "RUNNING"}
    /\ pc[Idle] \notin {"armed", "parked", "exiting", "killing"}
    /\ \A t \in Tasks : victim[t] # Idle
    /\ Idle \notin Pending
    /\ ~torn => panic # "empty_ready_queue"

\* With the idle task in the queue, the loop that frees tasks (sched.c:253-263) stops at
\* a task that is not marked: it never frees the last one.
LEMMA NextReadyIdle ==
    ASSUME NEW rq, NEW tail, NEW sq, NEW st, NEW tk,
           Types(rq, tail, sq, st, tk), Queued(rq, sq, st),
           st[Idle] \in {"READY", "RUNNING"}, get_next_ready_task(rq, tail, sq, st, tk),
           NEW y \in Tasks, st[y] # "FREE", y \notin Elems(rq) \/ y = rq[Len(rq)]
    PROVE  /\ state'[Idle] \in {"READY", "RUNNING"}
           /\ Idle \in Elems(rq) => panic' = panic /\ state'[y] # "FREE"
<1>0. rq \in Seq(Tasks) /\ st \in [Tasks -> TaskStates] /\ Len(rq) \in Nat
  BY DEF Types
<1>1. ASSUME NEW i \in 1 .. Len(rq),
             st[rq[i]] # "DESTROY",
             \A j \in 1 .. i - 1 : st[rq[j]] = "DESTROY",
             state' = [Destroyed(st, {rq[j] : j \in 1 .. i - 1}) EXCEPT ![rq[i]] = "RUNNING"],
             panic' = panic
      PROVE  state'[Idle] \in {"READY", "RUNNING"} /\ panic' = panic /\ state'[y] # "FREE"
  <2>1. \A t \in Tasks : t \notin {rq[j] : j \in 1 .. i - 1} =>
          state'[t] = IF t = rq[i] THEN "RUNNING" ELSE st[t]
    BY <1>0, <1>1 DEF Destroyed
  <2>2. Idle \notin {rq[j] : j \in 1 .. i - 1}
    BY <1>1
  <2>3. y \notin {rq[j] : j \in 1 .. i - 1}
    <3>1. \A j \in 1 .. i - 1 : j \in 1 .. Len(rq) /\ j # Len(rq)
      BY <1>0
    <3>2. CASE y \notin Elems(rq)
      BY <1>0, <3>1, <3>2, ElemsDef
    <3>3. CASE y = rq[Len(rq)]
      <4>1. Len(rq) \in 1 .. Len(rq)
        BY <1>0
      <4>2. \A j, k \in 1 .. Len(rq) : rq[j] = rq[k] => j = k
        BY DEF Queued, Injective
      <4> QED BY <3>1, <3>3, <4>1, <4>2
    <3> QED BY <3>2, <3>3
  <2> QED BY <1>1, <2>1, <2>2, <2>3, TasksAssumption
<1>2. ASSUME \A i \in 1 .. Len(rq) : st[rq[i]] = "DESTROY", state' = Destroyed(st, Elems(rq))
      PROVE  state'[Idle] \in {"READY", "RUNNING"} /\ Idle \notin Elems(rq)
  <2>1. Idle \notin Elems(rq)
    BY <1>0, <1>2, ElemsDef
  <2> QED BY <1>0, <1>2, <2>1, TasksAssumption DEF Destroyed
<1> QED BY <1>1, <1>2 DEF get_next_ready_task

\* switch_task keeps the idle task ready and the stack it runs on allocated.
LEMMA SwitchTaskIdle ==
    ASSUME NEW rq, NEW tail, NEW sq, NEW st, NEW tk,
           Types(rq, tail, sq, st, tk), Switchable(rq, sq, st),
           ~torn' => Complete(rq, tail, sq, st, {running_task} \cup Pending), Idle \notin Pending,
           st[Idle] \in {"READY", "RUNNING"}, panic = "none", switch_task(rq, tail, sq, st, tk)
    PROVE  /\ state'[Idle] \in {"READY", "RUNNING"}
           /\ ~torn' => /\ panic' # "empty_ready_queue"
                        /\ state'[running_task] # "FREE"
<1> DEFINE y == running_task
<1>0. /\ y \in Tasks /\ rq \in Seq(Tasks) /\ sq \in Seq(Tasks)
      /\ st \in [Tasks -> TaskStates] /\ Idle \in Tasks /\ y \notin Elems(rq) \cup Elems(sq)
      /\ st[y] # "FREE"
  BY TasksAssumption DEF Types, Switchable
<1>1. Idle \notin Elems(sq)
  BY DEF Switchable
<1>2. ~torn' => Idle \in Elems(rq) \cup {y}
  BY <1>0, <1>1 DEF Complete
<1>3. ASSUME NEW v \in {"READY", "DESTROY"}, y = Idle => v = "READY", Requeue(rq, tail, sq, st, tk, v)
      PROVE  /\ state'[Idle] \in {"READY", "RUNNING"}
             /\ ~torn' => panic' # "empty_ready_queue" /\ state'[y] # "FREE"
  <2> DEFINE q == Linked(rq, tail, <<running_task>>)
             s == [st EXCEPT ![running_task] = v]
  <2>1. Readied(rq, tail, sq, st, tk, v, q, s)
    BY SwitchReady
  <2>2. get_next_ready_task(q, running_task, sq, s, tk)
    BY <1>3 DEF Requeue
  <2>10. Injective(q) /\ q \in Seq(Tasks)
    BY <2>1 DEF Readied, Types, Queued
  <2> HIDE DEF q, s
  <2>3. /\ Types(q, running_task, sq, s, tk) /\ Queued(q, sq, s)
        /\ s[Idle] \in {"READY", "RUNNING"} /\ s[y] # "FREE"
    BY <1>0, <1>3, <2>1 DEF Readied
  <2>4. ~torn' => Idle \in Elems(q) /\ y = q[Len(q)]
    BY <1>2, <2>1 DEF Readied
  <2>5. state'[Idle] \in {"READY", "RUNNING"}
    <3>1. CASE y \notin Elems(q)
      BY <1>0, <2>2, <2>3, <3>1, NextReadyIdle
    <3>2. CASE y \in Elems(q) /\ y # Idle
      <4>1. \/ \E z \in Tasks : s[z] # "FREE" /\ z \notin Elems(q)
            \/ \E z \in Tasks : s[z] # "FREE" /\ z = q[Len(q)]
        <5>1. q # <<>>
          BY <3>2 DEF Elems
        <5>2. Len(q) \in 1 .. Len(q)
          BY <2>10, <5>1
        <5>3. q[Len(q)] \in Elems(q) /\ q[Len(q)] \in Tasks
          BY <2>10, <5>2, ElemsDef
        <5>4. s[q[Len(q)]] # "FREE"
          BY <2>3, <5>3 DEF Queued
        <5> QED BY <5>3, <5>4
      <4> QED BY <2>2, <2>3, <4>1, NextReadyIdle
    <3>3. CASE y \in Elems(q) /\ y = Idle
      <4>1. q # <<>>
        BY <3>3 DEF Elems
      <4>2. Len(q) \in 1 .. Len(q)
        BY <2>10, <4>1
      <4>3. q[Len(q)] \in Elems(q) /\ q[Len(q)] \in Tasks
        BY <2>10, <4>2, ElemsDef
      <4>4. s[q[Len(q)]] # "FREE"
        BY <2>3, <4>3 DEF Queued
      <4> QED BY <2>2, <2>3, <4>3, <4>4, NextReadyIdle
    <3> QED BY <3>1, <3>2, <3>3
  <2>6. ASSUME ~torn' PROVE panic' # "empty_ready_queue" /\ state'[y] # "FREE"
    BY <1>0, <2>2, <2>3, <2>4, <2>6, NextReadyIdle
  <2> QED BY <2>5, <2>6
<1>4. CASE st[y] = "RUNNING"
  BY <1>3, <1>4 DEF switch_task
<1>5. CASE st[y] = "DESTROY"
  BY <1>3, <1>5 DEF switch_task
<1>6. CASE st[y] = "SLEEPING"
  <2>1. enqueue_sleep_task(y, rq, tail, sq, st, tk)
    BY <1>6 DEF switch_task
  <2>2. ~torn' => Idle \in Elems(rq)
    BY <1>2, <1>6
  <2>3. ASSUME NEW q \in Seq(Tasks), Injective(q), Elems(q) = Elems(sq) \cup {y},
               NEW k \in [Tasks -> Word], get_next_ready_task(rq, tail, q, st, k)
        PROVE  /\ state'[Idle] \in {"READY", "RUNNING"}
               /\ ~torn' => panic' # "empty_ready_queue" /\ state'[y] # "FREE"
    <3>1. Types(rq, tail, q, st, k)
      BY DEF Types
    <3>2. Queued(rq, q, st)
      BY <1>0, <1>6, <2>3 DEF Queued, Switchable
    <3> QED BY <1>0, <1>6, <2>2, <2>3, <3>1, <3>2, NextReadyIdle
  <2>4. \/ NullInsert(rq, tail, sq, st, tk)
        \/ \E q \in Seq(Tasks), k \in [Tasks -> Word] :
             /\ Injective(q) /\ Elems(q) = Elems(sq) \cup {y}
             /\ get_next_ready_task(rq, tail, q, st, k)
    BY <1>0, <2>1, SleepPositions
  <2>5. CASE NullInsert(rq, tail, sq, st, tk)
    BY <1>0, <2>5 DEF NullInsert
  <2> QED BY <2>3, <2>4, <2>5
<1> QED BY <1>4, <1>5, <1>6 DEF switch_task

\* Every step keeps the idle task ready and the running task's stack allocated.
LEMMA StepIdle ==
    ASSUME Idle \notin Killable, IInv, IdleInv, [Next]_vars
    PROVE  /\ IdleInv'
           /\ running_task \in Tasks /\ ~torn' => state'[running_task] # "FREE"
<1> DEFINE Kept == running_task \in Tasks /\ ~torn' => state'[running_task] # "FREE"
<1>0. /\ state \in [Tasks -> TaskStates] /\ pc \in [Tasks -> Places]
      /\ victim \in [Tasks -> Tasks \cup {NoTask}] /\ Idle \in Tasks /\ NoTask \notin Tasks
      /\ ktask \in [Tasks -> Tasks \cup {NoTask}]
  BY TasksAssumption DEF IInv, TypeOK
<1>1. running_task \in Tasks => state[running_task] # "FREE"
  BY DEF IInv, OneQueue
<1>2. CASE do_scheduling
  <2>0. /\ panic = "none" /\ pc' = pc /\ victim' = victim /\ Pending' = Pending
        /\ ~torn' => ~torn /\ pc[running_task] \notin Linking
    BY <1>2 DEF do_scheduling, locals, Pending
  <2>1. CASE NullTail
    BY <1>1, <2>0, <2>1 DEF NullTail, IdleInv
  <2>2. CASE ~NullTail
    <3>1. PICK k \in 0 .. Len(sleep_queue) :
            LET tk == DecrementHead(sleep_queue, sleep_ticks)
                woken == SubSeq(sleep_queue, 1, k)
                st == [t \in Tasks |-> IF t \in Elems(woken) THEN "READY" ELSE state[t]]
            IN  switch_task(Linked(ready_queue, ready_queue_tail, woken),
                            TailAfter(ready_queue_tail, woken),
                            SubSeq(sleep_queue, k + 1, Len(sleep_queue)), st, tk)
      BY <1>2, <2>2 DEF do_scheduling
    <3> DEFINE tk == DecrementHead(sleep_queue, sleep_ticks)
               woken == SubSeq(sleep_queue, 1, k)
               rest == SubSeq(sleep_queue, k + 1, Len(sleep_queue))
               st == [t \in Tasks |-> IF t \in Elems(woken) THEN "READY" ELSE state[t]]
               rq == Linked(ready_queue, ready_queue_tail, woken)
               tail == TailAfter(ready_queue_tail, woken)
    <3>2. switch_task(rq, tail, rest, st, tk)
      BY <3>1
    <3>3. Woken(rq, tail, rest, st, tk)
      BY <2>0, UpdateSleepQueue
    <3>4. st[Idle] \in {"READY", "RUNNING"}
      BY <1>0 DEF IdleInv
    <3> HIDE DEF tk, woken, rest, st, rq, tail
    <3>5. /\ Types(rq, tail, rest, st, tk) /\ Switchable(rq, rest, st)
          /\ ~torn' => Complete(rq, tail, rest, st, {running_task} \cup Pending)
          /\ Idle \notin Pending
      BY <2>0, <3>3 DEF Woken, IdleInv
    <3>6. /\ state'[Idle] \in {"READY", "RUNNING"}
          /\ ~torn' => panic' # "empty_ready_queue" /\ state'[running_task] # "FREE"
      BY <2>0, <3>2, <3>4, <3>5, SwitchTaskIdle
    <3> QED BY <2>0, <3>6 DEF IdleInv
  <2> QED BY <2>1, <2>2
<1>3. ASSUME NEW t \in Tasks, sched_yield(t) PROVE IdleInv' /\ Kept
  <2>1. /\ Types(ready_queue, ready_queue_tail, sleep_queue, state, sleep_ticks)
        /\ Switchable(ready_queue, sleep_queue, state)
        /\ ~torn => Complete(ready_queue, ready_queue_tail, sleep_queue, state,
                             {running_task} \cup Pending)
    BY <1>3, YieldSwitchable
  <2>2. /\ panic = "none" /\ victim' = victim /\ Pending' = Pending /\ torn' = torn
        /\ pc' = [pc EXCEPT ![t] = "code"]
        /\ switch_task(ready_queue, ready_queue_tail, sleep_queue, state, sleep_ticks)
    BY <1>3 DEF sched_yield, At, Goto, locals, ghosts, Pending
  <2>3. /\ state'[Idle] \in {"READY", "RUNNING"}
        /\ ~torn' => panic' # "empty_ready_queue" /\ state'[running_task] # "FREE"
    BY <2>1, <2>2, SwitchTaskIdle DEF IdleInv
  <2>4. pc'[Idle] \notin {"armed", "parked", "exiting", "killing"}
    BY <1>0, <2>2 DEF IdleInv
  <2> QED BY <2>2, <2>3, <2>4 DEF IdleInv
<1>4. ASSUME NEW t \in Tasks, NEW new \in Tasks, create_kernel_task(t, new)
      PROVE  IdleInv' /\ Kept
  <2>1. new # Idle /\ new # running_task
    BY <1>1, <1>4 DEF create_kernel_task, IdleInv
  <2>2. state'[Idle] = state[Idle] /\ panic' = panic /\ torn' = torn
    BY <1>0, <1>4, <2>1 DEF create_kernel_task
  <2>3. pc'[Idle] \notin {"armed", "parked", "exiting", "killing"}
    BY <1>0, <1>4, <2>1 DEF create_kernel_task, IdleInv
  <2>4. \A u \in Tasks : victim'[u] # Idle
    BY <1>0, <1>4 DEF create_kernel_task, IdleInv
  <2>5. running_task \in Tasks => state'[running_task] = state[running_task]
    BY <1>0, <1>4, <2>1 DEF create_kernel_task
  <2>6. Idle \notin Pending'
    <3>1. \A u \in Tasks : ktask[u] # Idle
      BY DEF IdleInv, Pending
    <3>2. ktask' = [ktask EXCEPT ![t] = new, ![new] = NoTask]
          /\ leaked' = leaked \cup ({ktask[new]} \ {NoTask})
      BY <1>4 DEF create_kernel_task
    <3>3. \A u \in Tasks : ktask'[u] \in {ktask[u], new, NoTask}
      BY <1>0, <3>2
    <3> QED BY <1>0, <2>1, <3>1, <3>2, <3>3 DEF IdleInv, Pending
  <2> QED BY <1>1, <2>2, <2>3, <2>4, <2>5, <2>6 DEF IdleInv
<1>5. ASSUME NEW t \in Tasks, NEW ticks, NEW asked, Arm(t, ticks, asked) PROVE IdleInv' /\ Kept
  BY <1>0, <1>1, <1>5 DEF Arm, Goto, IdleInv, Pending, locals
<1>6. ASSUME NEW t \in Tasks, Park(t) PROVE IdleInv' /\ Kept
  BY <1>0, <1>1, <1>6 DEF Park, At, Goto, IdleInv, Pending, locals, ghosts
<1>7. ASSUME NEW t \in Tasks, sched_kill(t) PROVE IdleInv' /\ Kept
  BY <1>0, <1>1, <1>7 DEF sched_kill, Goto, IdleInv, Pending, locals, ghosts
<1>8. ASSUME NEW t \in Tasks, NEW found \in Killable, KillFind(t, found) PROVE IdleInv' /\ Kept
  BY <1>0, <1>1, <1>8 DEF KillFind, Goto, IdleInv, Pending, ghosts
<1>9. ASSUME NEW t \in Tasks, KillMark(t) PROVE IdleInv' /\ Kept
  <2>1. \A u \in Tasks : u # victim[t] => state'[u] = state[u]
    BY <1>0, <1>9 DEF KillMark
  <2>2. \A u \in Tasks : state[u] # "FREE" => state'[u] # "FREE"
    BY <1>0, <1>9 DEF KillMark
  <2>3. victim[t] # Idle
    BY DEF IdleInv
  <2>4. /\ pc'[Idle] \notin {"armed", "parked", "exiting", "killing"}
        /\ panic' \in {panic, "wild_store"} /\ \A u \in Tasks : victim'[u] # Idle
        /\ Pending' = Pending /\ torn' = torn
    BY <1>0, <1>9 DEF KillMark, Goto, IdleInv, Pending, ghosts
  <2> QED BY <1>0, <1>1, <2>1, <2>2, <2>3, <2>4 DEF IdleInv
<1>10. ASSUME NEW t \in Tasks, TestEmpty(t) PROVE IdleInv' /\ Kept
  BY <1>0, <1>1, <1>10 DEF TestEmpty, Goto, IdleInv, Pending, locals, ghosts
<1>11. ASSUME NEW t \in Tasks, SetHead(t) PROVE IdleInv' /\ Kept
  BY <1>0, <1>1, <1>11 DEF SetHead, Goto, IdleInv, Pending, locals, ghosts
<1>12. ASSUME NEW t \in Tasks, LoadTail(t) PROVE IdleInv' /\ Kept
  BY <1>0, <1>1, <1>12 DEF LoadTail, Goto, IdleInv, Pending, ghosts
<1>13. ASSUME NEW t \in Tasks, LinkTail(t) PROVE IdleInv' /\ Kept
  <2>1. /\ state' = state /\ victim' = victim /\ Pending' = Pending /\ torn' = torn
        /\ panic' \in {panic, "null_tail", "wild_store"}
    BY <1>13 DEF LinkTail, locals, ghosts, Pending
  <2>2. pc'[Idle] \notin {"armed", "parked", "exiting", "killing"}
    BY <1>0, <1>13 DEF LinkTail, Goto, IdleInv
  <2> QED BY <1>1, <2>1, <2>2 DEF IdleInv
<1>14. ASSUME NEW t \in Tasks, SetTail(t) PROVE IdleInv' /\ Kept
  <2>1. \A u \in Tasks : ktask'[u] \in {ktask[u], NoTask}
    BY <1>0, <1>14 DEF SetTail
  <2>2. Idle \notin Pending'
    BY <1>0, <1>14, <2>1 DEF SetTail, IdleInv, Pending, ghosts
  <2> QED BY <1>0, <1>1, <1>14, <2>2 DEF SetTail, Goto, IdleInv, ghosts
<1>15. CASE UNCHANGED vars
  BY <1>1, <1>15 DEF vars, locals, ghosts, IdleInv, Pending
<1> QED BY <1>2, <1>3, <1>4, <1>5, <1>6, <1>7, <1>8, <1>9, <1>10, <1>11, <1>12, <1>13,
           <1>14, <1>15 DEF Next, sleep, usleep

LEMMA InitIdle == Init => IdleInv
BY TasksAssumption DEF Init, IdleInv, Pending

\* The kpanic of get_next_ready_task (sched.c:90-91) is unreachable as long as nobody
\* passes the idle task's pid to kill() and no tick has landed inside the
\* enqueue_ready_task of create_kernel_task (sched.c:376).
THEOREM SchedReadyNeverEmpty ==
    ASSUME Idle \notin Killable
    PROVE  Spec => []ReadyNeverEmpty
<1>1. IInv /\ IdleInv /\ [Next]_vars => IdleInv'
  BY StepIdle
<1>2. IInv /\ [Next]_vars => IInv'
  BY StepInv
<1>3. IdleInv => ReadyNeverEmpty
  BY DEF IdleInv, ReadyNeverEmpty
<1> QED BY InitInv, InitIdle, <1>1, <1>2, <1>3, PTL DEF Spec

\* switch_task does not free the stack it is executing on (sched.c:253-263), under the
\* same two conditions.
THEOREM SchedFreedStackNotInUse ==
    ASSUME Idle \notin Killable
    PROVE  Spec => FreedStackNotInUse
<1>1. IInv /\ IdleInv /\ [Next]_vars => IdleInv'
  BY StepIdle
<1>2. IInv /\ [Next]_vars => IInv'
  BY StepInv
<1>3. IInv /\ IdleInv /\ [Next]_vars =>
        [\A t \in Tasks : ~torn' /\ state[t] # "FREE" /\ state'[t] = "FREE" => t # running_task]_vars
  BY StepIdle
<1> QED BY InitInv, InitIdle, <1>1, <1>2, <1>3, PTL DEF Spec, FreedStackNotInUse


-----------------------------------------------------------------------------
(* Induction over the natural numbers, with sets for predicates *)

LEMMA Least ==
  ASSUME NEW T \in SUBSET Nat, T # {}
  PROVE  \E x \in T : \A y \in T : x <= y
<1> DEFINE R == OpToRel(<, Nat)
<1>1. IsWellFoundedOn(R, Nat)
  BY NatLessThanWellFounded
<1>2. \A x, y \in Nat : x < y => <<x, y>> \in R
  BY DEF OpToRel
<1> HIDE DEF R
<1>3. PICK x \in T : \A y \in T : ~ (<<y, x>> \in R)
  BY <1>1, WFMin
<1>4. ASSUME NEW y \in T PROVE x <= y
  <2>1. x \in Nat /\ y \in Nat
    OBVIOUS
  <2>2. ~(y < x)
    BY <1>2, <1>3, <2>1
  <2> QED BY <2>1, <2>2
<1> QED BY <1>4

LEMMA Induct ==
  ASSUME NEW S \in SUBSET Nat, 0 \in S, \A n \in S : n + 1 \in S
  PROVE  S = Nat
<1> SUFFICES ASSUME Nat \ S # {} PROVE FALSE
  OBVIOUS
<1>1. PICK x \in Nat \ S : \A y \in Nat \ S : x <= y
  BY Least
<1>2. x \in Nat /\ x \notin S /\ x # 0
  OBVIOUS
<1>3. x - 1 \in Nat /\ (x - 1) + 1 = x
  BY <1>2
<1>4. x - 1 \in S
  BY <1>1, <1>3
<1> QED BY <1>2, <1>3, <1>4

-----------------------------------------------------------------------------
(* Unsigned arithmetic *)

LEMMA DivMod ==
    ASSUME NEW m \in Nat, m > 0, NEW x \in Int
    PROVE  x = m * (x \div m) + (x % m)
BY SMT

LEMMA Remainder ==
    ASSUME NEW q \in Int, NEW r \in 0 .. M - 1
    PROVE  (M * q + r) % M = r
BY ClockAssumption, Z3

LEMMA Cut ==
    ASSUME NEW x \in Nat
    PROVE  x % M <= x /\ (x < M => x % M = x) /\ x % M \in 0 .. M - 1
BY ClockAssumption

\* Multiples of M do not count.
LEMMA Multiple ==
    ASSUME NEW x \in Int, NEW k \in Int
    PROVE  (x + M * k) % M = x % M
<1> DEFINE q == x \div M
           r == x % M
<1>1. q \in Int /\ r \in 0 .. M - 1 /\ x = M * q + r
  BY ClockAssumption, DivMod
<1> HIDE DEF q, r
<1>2. q + k \in Int /\ M \in Int /\ r \in Int
  BY <1>1, ClockAssumption
<1>3. M * (q + k) = M * q + M * k
  BY <1>1, <1>2, Z3
<1>4. x + M * k = M * (q + k) + r
  <2>1. M * q \in Int /\ M * k \in Int /\ M * (q + k) \in Int
    BY <1>1, <1>2
  <2> QED BY <1>1, <1>2, <1>3, <2>1
<1>5. (M * (q + k) + r) % M = r
  BY <1>1, <1>2, Remainder
<1> QED BY <1>4, <1>5 DEF r

LEMMA AddCut ==
    ASSUME NEW a \in Int, NEW b \in Int
    PROVE  ((a % M) + b) % M = (a + b) % M
<1> DEFINE q == a \div M
           r == a % M
<1>1. q \in Int /\ r \in 0 .. M - 1 /\ a = M * q + r
  BY ClockAssumption, DivMod
<1> HIDE DEF q, r
<1>2. M * q \in Int /\ r \in Int /\ r + b \in Int
  BY <1>1, ClockAssumption
<1>3. a + b = (r + b) + M * q
  BY <1>1, <1>2
<1>4. ((r + b) + M * q) % M = (r + b) % M
  BY <1>1, <1>2, Multiple
<1> QED BY <1>3, <1>4 DEF r

LEMMA DifferenceCut ==
    ASSUME NEW a \in Int, NEW b \in Int
    PROVE  ((a % M) - (b % M)) % M = (a - b) % M
<1> DEFINE q == b \div M
           r == b % M
<1>1. q \in Int /\ r \in 0 .. M - 1 /\ b = M * q + r
  BY ClockAssumption, DivMod
<1>0. a % M \in Int
  BY ClockAssumption
<1> HIDE DEF q, r
<1>2. M * q \in Int /\ r \in Int /\ -r \in Int /\ -q \in Int /\ a + (-r) \in Int
  BY <1>1, ClockAssumption
<1>3. ((a % M) + (-r)) % M = (a + (-r)) % M
  BY <1>2, AddCut
<1>4. M * (-q) = -(M * q)
  BY <1>1, <1>2, ClockAssumption, Z3
<1>5. a - b = (a + (-r)) + M * (-q)
  BY <1>1, <1>2, <1>4
<1>6. ((a + (-r)) + M * (-q)) % M = (a + (-r)) % M
  BY <1>2, Multiple
<1>7. (a % M) - r = (a % M) + (-r)
  BY <1>0, <1>2
<1> QED BY <1>3, <1>5, <1>6, <1>7 DEF r

-----------------------------------------------------------------------------
(* How long the sleepers wait *)

\* S[i] is the sum of the first i deltas of the queue, without wrapping.
Totals(S, q, tk) ==
    /\ S \in [0 .. Len(q) -> Nat]
    /\ S[0] = 0
    /\ \A i \in 1 .. Len(q) : S[i] = S[i - 1] + tk[q[i]]

LEMMA Delta ==
    ASSUME NEW q \in Seq(Tasks), NEW tk \in [Tasks -> Word], NEW i \in 1 .. Len(q)
    PROVE  q[i] \in Tasks /\ tk[q[i]] \in Word /\ tk[q[i]] \in Nat
BY ClockAssumption DEF Word

LEMMA HasTotals ==
    ASSUME NEW q \in Seq(Tasks), NEW tk \in [Tasks -> Word]
    PROVE  \E S : Totals(S, q, tk)
<1> DEFINE P(n, S) == /\ S \in [0 .. n -> Nat] /\ S[0] = 0
                      /\ \A i \in 1 .. n : S[i] = S[i - 1] + tk[q[i]]
           Good == {n \in Nat : n <= Len(q) => \E S : P(n, S)}
<1>0. Len(q) \in Nat
  OBVIOUS
<1>1. 0 \in Good
  <2>1. P(0, [i \in 0 .. 0 |-> 0])
    OBVIOUS
  <2> QED BY <2>1
<1>2. ASSUME NEW n \in Good PROVE n + 1 \in Good
  <2>1. CASE n + 1 <= Len(q)
    <3>0. n \in Nat /\ n <= Len(q) /\ n \in Good
      BY <1>0, <2>1
    <3>1. PICK S : P(n, S)
      BY <3>0
    <3>2. n + 1 \in 1 .. Len(q) /\ n \in 0 .. n
      BY <1>0, <2>1
    <3>3. tk[q[n + 1]] \in Nat /\ S[n] \in Nat
      BY <3>1, <3>2, Delta
    <3> DEFINE T == [i \in 0 .. n + 1 |-> IF i = n + 1 THEN S[n] + tk[q[n + 1]] ELSE S[i]]
    <3>4. T \in [0 .. n + 1 -> Nat]
      BY <3>1, <3>3
    <3>5. T[0] = 0
      BY <3>1
    <3>6. ASSUME NEW i \in 1 .. n + 1 PROVE T[i] = T[i - 1] + tk[q[i]]
      <4>1. CASE i = n + 1
        <5>1. T[i] = S[n] + tk[q[n + 1]] /\ T[n] = S[n] /\ i - 1 = n
          BY <4>1
        <5> QED BY <4>1, <5>1
      <4>2. CASE i \in 1 .. n
        <5>1. T[i] = S[i] /\ T[i - 1] = S[i - 1]
          BY <4>2
        <5> QED BY <3>1, <4>2, <5>1
      <4> QED BY <4>1, <4>2
    <3> HIDE DEF T
    <3>7. P(n + 1, T)
      BY <3>4, <3>5, <3>6
    <3> HIDE DEF P
    <3> QED BY <1>0, <3>7
  <2>2. n + 1 \in Nat
    OBVIOUS
  <2> QED BY <1>0, <2>1, <2>2
<1>3. Good = Nat
  <2>1. Good \in SUBSET Nat
    OBVIOUS
  <2>2. \A n \in Good : n + 1 \in Good
    BY <1>2
  <2> HIDE DEF Good
  <2> QED BY <1>1, <2>1, <2>2, Induct
<1>4. Len(q) \in Good
  BY <1>0, <1>3
<1>5. PICK S : P(Len(q), S)
  BY <1>0, <1>4
<1> QED BY <1>5 DEF Totals

\* The sum that enqueue_sleep_task keeps is the sum of the deltas, cut to the word.
LEMMA SumIsTotal ==
    ASSUME NEW q \in Seq(Tasks), NEW tk \in [Tasks -> Word], NEW S, Totals(S, q, tk),
           NEW n \in 0 .. Len(q)
    PROVE  SumThrough(q, tk, n) = S[n] % M
<1> DEFINE F(f) == [j \in 0 .. n |-> IF j = 0 THEN 0 ELSE (f[j - 1] + tk[q[j]]) % M]
           g == [j \in 0 .. n |-> S[j] % M]
           sum == CHOOSE f : f = F(f)
<1>0. Len(q) \in Nat /\ n \in Nat
  OBVIOUS
<1>1. ASSUME NEW j \in 1 .. n PROVE S[j] = S[j - 1] + tk[q[j]] /\ S[j - 1] \in Nat /\ tk[q[j]] \in Nat
  <2>1. j \in 1 .. Len(q) /\ j - 1 \in 0 .. Len(q)
    BY <1>0
  <2> QED BY <2>1, Delta DEF Totals
<1>2. S[0] % M = 0
  <2>1. S[0] = 0 /\ 0 < M
    BY ClockAssumption DEF Totals
  <2> QED BY <2>1, Cut
<1>3. ASSUME NEW j \in 1 .. n PROVE S[j] % M = ((S[j - 1] % M) + tk[q[j]]) % M
  <2>1. S[j - 1] \in Int /\ tk[q[j]] \in Int /\ S[j] = S[j - 1] + tk[q[j]]
    BY <1>1
  <2>2. ((S[j - 1] % M) + tk[q[j]]) % M = (S[j - 1] + tk[q[j]]) % M
    BY <2>1, AddCut
  <2> QED BY <2>1, <2>2
<1>4. g = F(g)
  <2>1. ASSUME NEW j \in 0 .. n PROVE g[j] = F(g)[j]
    <3>1. CASE j = 0
      BY <1>2, <3>1
    <3>2. CASE j \in 1 .. n
      <4>1. g[j - 1] = S[j - 1] % M
        BY <3>2
      <4> QED BY <1>3, <3>2, <4>1
    <3> QED BY <1>0, <3>1, <3>2
  <2> QED BY <2>1
<1>5. sum = F(sum)
  <2> HIDE DEF F, g
  <2>1. \E f : f = F(f)
    BY <1>4
  <2> QED BY <2>1
<1>6. SumThrough(q, tk, n) = sum[n]
  BY DEF SumThrough
<1>7. sum[0] = 0 /\ \A j \in 1 .. n : sum[j] = (sum[j - 1] + tk[q[j]]) % M
  <2> HIDE DEF sum
  <2>1. 0 \in 0 .. n
    BY <1>0
  <2>2. F(sum)[0] = 0
    BY <2>1
  <2>3. ASSUME NEW j \in 1 .. n PROVE F(sum)[j] = (sum[j - 1] + tk[q[j]]) % M
    <3>1. j \in 0 .. n /\ j # 0
      BY <1>0
    <3> QED BY <3>1
  <2> HIDE DEF F
  <2> QED BY <1>5, <2>2, <2>3
<1> HIDE DEF sum
<1> DEFINE Good == {j \in Nat : j <= n => sum[j] = S[j] % M}
<1>8. Good = Nat
  <2>1. 0 \in Good
    BY <1>2, <1>7
  <2>2. ASSUME NEW j \in Good PROVE j + 1 \in Good
    <3>1. CASE j + 1 <= n
      <4>1. j + 1 \in 1 .. n /\ (j + 1) - 1 = j /\ sum[j] = S[j] % M
        BY <1>0, <3>1
      <4> QED BY <1>3, <1>7, <4>1
    <3> QED BY <3>1
  <2>3. Good \in SUBSET Nat
    OBVIOUS
  <2>4. \A j \in Good : j + 1 \in Good
    BY <2>2
  <2> HIDE DEF Good
  <2> QED BY <2>1, <2>3, <2>4, Induct
<1> QED BY <1>0, <1>6, <1>8

\* The sums depend on the deltas of the queue's tasks only.
LEMMA SameDeltas ==
    ASSUME NEW q \in Seq(Tasks), NEW tk, NEW k, NEW S, Totals(S, q, tk),
           \A t \in Elems(q) : k[t] = tk[t]
    PROVE  Totals(S, q, k)
<1>1. \A i \in 1 .. Len(q) : k[q[i]] = tk[q[i]]
  BY ElemsDef
<1> QED BY <1>1 DEF Totals

\* The sum of p through a task is the sum of q through it.
SameSums(S, p, T, q) ==
    \A a \in 1 .. Len(p), b \in 1 .. Len(q) : p[a] = q[b] => T[b] = S[a]

LEMMA Itself ==
    ASSUME NEW q \in Seq(Tasks), Injective(q), NEW S
    PROVE  SameSums(S, q, S, q)
BY DEF SameSums, Injective

\* A task is put at place i of the queue with the delta w, which is taken off the delta
\* of the task after it.
PutAt(q, i, y, r) ==
    /\ Len(r) = Len(q) + 1
    /\ r[i] = y
    /\ \A j \in 1 .. i - 1 : r[j] = q[j]
    /\ \A j \in i + 1 .. Len(q) + 1 : r[j] = q[j - 1]

DeltaMoved(q, i, y, tk, k) ==
    /\ \A j \in 1 .. Len(q) : j # i => k[q[j]] = tk[q[j]]
    /\ i <= Len(q) => k[q[i]] = tk[q[i]] - k[y]

LEMMA GrowTotals ==
    ASSUME NEW q \in Seq(Tasks), NEW r \in Seq(Tasks), Injective(q),
           NEW i \in 1 .. Len(q) + 1, NEW y \in Tasks, y \notin Elems(q), PutAt(q, i, y, r),
           NEW tk \in [Tasks -> Word], NEW k \in [Tasks -> Word], DeltaMoved(q, i, y, tk, k),
           NEW S, Totals(S, q, tk)
    PROVE  \E T : /\ Totals(T, r, k)
                  /\ SameSums(S, q, T, r)
                  /\ T[i] = S[i - 1] + k[y]
<1> DEFINE T == [j \in 0 .. Len(q) + 1 |->
                   IF j < i THEN S[j] ELSE IF j = i THEN S[i - 1] + k[y] ELSE S[j - 1]]
<1>0. Len(q) \in Nat /\ i \in Nat /\ i - 1 \in 0 .. Len(q)
  OBVIOUS
<1>9. /\ Len(r) = Len(q) + 1 /\ r[i] = y
      /\ \A j \in 1 .. i - 1 : r[j] = q[j]
      /\ \A j \in i + 1 .. Len(q) + 1 : r[j] = q[j - 1]
      /\ \A j \in 1 .. Len(q) : j # i => k[q[j]] = tk[q[j]]
      /\ i <= Len(q) => k[q[i]] = tk[q[i]] - k[y]
  BY DEF PutAt, DeltaMoved
<1>1. k[y] \in Nat /\ \A j \in 0 .. Len(q) : S[j] \in Nat
  <2>1. \A x \in Word : x \in Nat
    BY ClockAssumption DEF Word
  <2>2. k[y] \in Word
    OBVIOUS
  <2>3. \A j \in 0 .. Len(q) : S[j] \in Nat
    BY DEF Totals
  <2> QED BY <2>1, <2>2, <2>3
<1> USE <1>9
<1>2. \A j \in 1 .. Len(q) : /\ tk[q[j]] \in Nat /\ k[q[j]] \in Nat
                            /\ S[j] = S[j - 1] + tk[q[j]]
  BY Delta DEF Totals
<1>3. T \in [0 .. Len(q) + 1 -> Nat]
  <2>1. ASSUME NEW j \in 0 .. Len(q) + 1
        PROVE  (IF j < i THEN S[j] ELSE IF j = i THEN S[i - 1] + k[y] ELSE S[j - 1]) \in Nat
    <3>1. CASE j < i
      <4>1. j \in 0 .. Len(q)
        BY <1>0, <3>1
      <4> QED BY <1>1, <3>1, <4>1
    <3>2. CASE j = i
      BY <1>0, <1>1, <3>2
    <3>3. CASE j > i
      <4>1. j - 1 \in 0 .. Len(q)
        BY <1>0, <3>3
      <4> QED BY <1>0, <1>1, <3>3, <4>1
    <3> QED BY <1>0, <3>1, <3>2, <3>3
  <2> QED BY <2>1
<1>4. /\ \A j \in 0 .. i - 1 : T[j] = S[j]
      /\ T[i] = S[i - 1] + k[y]
      /\ \A j \in i + 1 .. Len(q) + 1 : T[j] = S[j - 1]
  BY <1>0
<1> HIDE DEF T
<1>5. ASSUME NEW j \in 1 .. Len(q) + 1 PROVE T[j] = T[j - 1] + k[r[j]]
  <2>1. CASE j < i
    <3>1. j \in 0 .. i - 1 /\ j - 1 \in 0 .. i - 1 /\ j \in 1 .. Len(q) /\ j \in 1 .. i - 1
      BY <1>0, <2>1
    <3>2. r[j] = q[j] /\ k[q[j]] = tk[q[j]]
      BY <2>1, <3>1
    <3>3. T[j] = S[j] /\ T[j - 1] = S[j - 1] /\ S[j] = S[j - 1] + tk[q[j]]
      BY <1>2, <1>4, <3>1
    <3> QED BY <3>2, <3>3
  <2>2. CASE j = i
    <3>1. i - 1 \in 0 .. i - 1
      BY <1>0
    <3> QED BY <1>4, <2>2, <3>1
  <2>3. CASE j = i + 1
    <3>1. j \in i + 1 .. Len(q) + 1 /\ j - 1 = i /\ i \in 1 .. Len(q)
      BY <1>0, <2>3
    <3>2. T[j] = S[i] /\ T[j - 1] = S[i - 1] + k[y] /\ r[j] = q[i]
      BY <1>4, <3>1
    <3>3. k[q[i]] = tk[q[i]] - k[y] /\ S[i] = S[i - 1] + tk[q[i]]
      BY <1>0, <1>2, <3>1
    <3>4. S[i - 1] \in Nat /\ tk[q[i]] \in Nat
      BY <1>0, <1>1, <1>2, <3>1
    <3> QED BY <1>1, <3>2, <3>3, <3>4
  <2>4. CASE j > i + 1
    <3>1. /\ j \in i + 1 .. Len(q) + 1 /\ j - 1 \in i + 1 .. Len(q) + 1
          /\ j - 1 \in 1 .. Len(q) /\ j - 1 # i
      BY <1>0, <2>4
    <3>2. T[j] = S[j - 1] /\ T[j - 1] = S[(j - 1) - 1] /\ r[j] = q[j - 1]
      BY <1>4, <3>1
    <3> QED BY <1>2, <3>1, <3>2
  <2> QED BY <1>0, <2>1, <2>2, <2>3, <2>4
<1>6. T[0] = 0
  <2>1. 0 \in 0 .. i - 1
    BY <1>0
  <2> QED BY <1>4, <2>1 DEF Totals
<1>7. Totals(T, r, k)
  BY <1>3, <1>5, <1>6 DEF Totals
<1>8. SameSums(S, q, T, r)
  <2>1. ASSUME NEW a \in 1 .. Len(q), NEW b \in 1 .. Len(q) + 1, q[a] = r[b] PROVE T[b] = S[a]
    <3>1. CASE b < i
      <4>1. b \in 1 .. Len(q) /\ b \in 1 .. i - 1 /\ b \in 0 .. i - 1
        BY <1>0, <3>1
      <4>2. a = b
        BY <2>1, <4>1 DEF Injective
      <4> QED BY <1>4, <4>1, <4>2
    <3>2. CASE b = i
      BY <2>1, <3>2, ElemsDef
    <3>3. CASE b > i
      <4>1. b - 1 \in 1 .. Len(q) /\ b \in i + 1 .. Len(q) + 1
        BY <1>0, <3>3
      <4>2. a = b - 1
        BY <2>1, <4>1 DEF Injective
      <4> QED BY <1>4, <4>1, <4>2
    <3> QED BY <1>0, <3>1, <3>2, <3>3
  <2> QED BY <2>1 DEF SameSums
<1> QED BY <1>4, <1>7, <1>8

\* Tasks whose sum is 0 leave the queue.
LEMMA DropTotals ==
    ASSUME NEW q \in Seq(Tasks), Injective(q), NEW m \in 0 .. Len(q), NEW tk, NEW S,
           Totals(S, q, tk), S[m] = 0
    PROVE  \E T : /\ Totals(T, SubSeq(q, m + 1, Len(q)), tk)
                  /\ SameSums(S, q, T, SubSeq(q, m + 1, Len(q)))
<1> DEFINE r == SubSeq(q, m + 1, Len(q))
           T == [j \in 0 .. Len(q) - m |-> S[m + j]]
<1>0. /\ Len(q) \in Nat /\ m \in Nat /\ Len(r) = Len(q) - m
      /\ \A j \in 1 .. Len(q) - m : r[j] = q[m + j]
  OBVIOUS
<1> HIDE DEF r
<1>1. T \in [0 .. Len(q) - m -> Nat]
  <2>1. \A j \in 0 .. Len(q) - m : m + j \in 0 .. Len(q)
    BY <1>0
  <2> QED BY <2>1 DEF Totals
<1>2. \A j \in 0 .. Len(q) - m : T[j] = S[m + j]
  OBVIOUS
<1> HIDE DEF T
<1>3. T[0] = 0
  BY <1>0, <1>2
<1>4. ASSUME NEW j \in 1 .. Len(q) - m PROVE T[j] = T[j - 1] + tk[r[j]]
  <2>1. /\ m + j \in 1 .. Len(q) /\ (m + j) - 1 = m + (j - 1)
        /\ j \in 0 .. Len(q) - m /\ j - 1 \in 0 .. Len(q) - m
    BY <1>0
  <2>2. S[m + j] = S[m + (j - 1)] + tk[q[m + j]]
    BY <2>1 DEF Totals
  <2> QED BY <1>0, <1>2, <2>1, <2>2
<1>5. Totals(T, r, tk)
  BY <1>0, <1>1, <1>3, <1>4 DEF Totals
<1>6. SameSums(S, q, T, r)
  <2>1. ASSUME NEW a \in 1 .. Len(q), NEW b \in 1 .. Len(q) - m, q[a] = r[b] PROVE T[b] = S[a]
    <3>1. m + b \in 1 .. Len(q) /\ q[a] = q[m + b]
      BY <1>0, <2>1
    <3>2. a = m + b
      BY <3>1 DEF Injective
    <3>3. b \in 0 .. Len(q) - m
      BY <1>0
    <3> QED BY <1>2, <3>2, <3>3
  <2> QED BY <1>0, <2>1 DEF SameSums
<1> QED BY <1>5, <1>6 DEF r

LEMMA ZeroTotals ==
    ASSUME NEW q \in Seq(Tasks), NEW m \in 0 .. Len(q), NEW tk, NEW S, Totals(S, q, tk),
           \A j \in 1 .. m : tk[q[j]] = 0
    PROVE  \A j \in 0 .. m : S[j] = 0
<1> DEFINE Good == {j \in Nat : j <= m => S[j] = 0}
<1>0. Len(q) \in Nat /\ m \in Nat
  OBVIOUS
<1>1. Good = Nat
  <2>1. 0 \in Good
    BY DEF Totals
  <2>2. ASSUME NEW j \in Good PROVE j + 1 \in Good
    <3>1. CASE j + 1 <= m
      <4>1. /\ j + 1 \in 1 .. m /\ j + 1 \in 1 .. Len(q) /\ (j + 1) - 1 = j /\ S[j] = 0
        BY <1>0, <3>1
      <4>2. S[j + 1] = S[j] + tk[q[j + 1]] /\ tk[q[j + 1]] = 0
        BY <4>1 DEF Totals
      <4> QED BY <4>1, <4>2
    <3> QED BY <3>1
  <2>3. Good \in SUBSET Nat
    OBVIOUS
  <2>4. \A j \in Good : j + 1 \in Good
    BY <2>2
  <2> HIDE DEF Good
  <2> QED BY <2>1, <2>3, <2>4, Induct
<1> QED BY <1>0, <1>1

\* A tick takes one off all sums, unless the head's delta wraps: then it adds M - 1.
LEMMA TickTotals ==
    ASSUME NEW q \in Seq(Tasks), Injective(q), NEW tk \in [Tasks -> Word], NEW S,
           Totals(S, q, tk)
    PROVE  \E d \in {-1, M - 1} : \E T :
              /\ Totals(T, q, DecrementHead(q, tk))
              /\ \A j \in 1 .. Len(q) : T[j] = S[j] + d
<1>0. Len(q) \in Nat /\ M \in Nat
  BY ClockAssumption
<1>1. CASE q = <<>>
  <2>1. DecrementHead(q, tk) = tk /\ Len(q) = 0
    BY <1>1 DEF DecrementHead
  <2>2. \A j \in 1 .. Len(q) : S[j] = S[j] + (-1)
    BY <2>1
  <2> QED BY <2>1, <2>2
<1>2. CASE q # <<>>
  <2> DEFINE k == DecrementHead(q, tk)
             h == tk[q[1]]
             d == k[q[1]] - h
             T == [j \in 0 .. Len(q) |-> IF j = 0 THEN 0 ELSE S[j] + d]
  <2>1. 1 \in 1 .. Len(q) /\ q[1] \in Tasks /\ h \in Word
    BY <1>2
  <2>2. /\ k[q[1]] = (h - 1) % M
        /\ \A t \in Tasks : t # q[1] => k[t] = tk[t]
    BY <1>2, <2>1 DEF DecrementHead
  <2>3. d \in {-1, M - 1} /\ h + d \in Nat
    <3> HIDE DEF k, h
    <3>1. h \in 0 .. M - 1
      BY <2>1 DEF Word
    <3>2. CASE h = 0
      <4>1. (M * (-1) + (M - 1)) % M = M - 1
        BY <1>0, ClockAssumption, Remainder
      <4>2. h - 1 = M * (-1) + (M - 1)
        BY <1>0, <3>2
      <4> QED BY <1>0, <2>2, <3>2, <4>1, <4>2, ClockAssumption
    <3>3. CASE h # 0
      <4>1. h - 1 \in Nat /\ h - 1 < M
        BY <1>0, <3>1, <3>3
      <4>2. (h - 1) % M = h - 1
        BY <4>1, Cut
      <4> QED BY <1>0, <2>2, <3>1, <4>1, <4>2
    <3> QED BY <3>2, <3>3
  <2> HIDE DEF k, d
  <2>4. /\ S \in [0 .. Len(q) -> Nat] /\ S[0] = 0
        /\ \A j \in 1 .. Len(q) : S[j] = S[j - 1] + tk[q[j]] /\ tk[q[j]] \in Nat
    BY Delta DEF Totals
  <2>5. S[1] = h
    <3>1. S[1] = S[0] + tk[q[1]] /\ h \in Nat
      BY <2>1, <2>4
    <3> QED BY <2>4, <3>1
  <2>6. \A j \in 1 .. Len(q) : S[j] >= h
    <3> DEFINE Good == {j \in Nat : j + 1 <= Len(q) => S[j + 1] >= h}
    <3>1. h \in Nat
      BY <2>1, <2>4
    <3> HIDE DEF h
    <3>2. 0 \in Good
      BY <2>5, <3>1
    <3>3. ASSUME NEW j \in Good PROVE j + 1 \in Good
      <4>1. CASE (j + 1) + 1 <= Len(q)
        <5>1. /\ (j + 1) + 1 \in 1 .. Len(q) /\ ((j + 1) + 1) - 1 = j + 1 /\ j + 1 \in 0 .. Len(q)
              /\ S[j + 1] >= h
          BY <1>0, <4>1
        <5>2. /\ S[(j + 1) + 1] = S[j + 1] + tk[q[(j + 1) + 1]]
              /\ tk[q[(j + 1) + 1]] \in Nat /\ S[j + 1] \in Nat
          BY <2>4, <5>1
        <5> QED BY <3>1, <5>1, <5>2
      <4> QED BY <4>1
    <3>4. Good \in SUBSET Nat
      OBVIOUS
    <3>5. \A j \in Good : j + 1 \in Good
      BY <3>3
    <3> HIDE DEF Good
    <3>6. Good = Nat
      BY <3>2, <3>4, <3>5, Induct
    <3>7. ASSUME NEW j \in 1 .. Len(q) PROVE S[j] >= h
      <4>1. j - 1 \in Nat /\ (j - 1) + 1 = j /\ (j - 1) + 1 <= Len(q)
        BY <1>0
      <4> QED BY <3>6, <4>1 DEF Good
    <3> QED BY <3>7
  <2>7. T \in [0 .. Len(q) -> Nat]
    <3>1. ASSUME NEW j \in 1 .. Len(q) PROVE S[j] + d \in Nat
      <4>1. S[j] \in Nat /\ S[j] >= h /\ h \in Nat /\ d \in Int /\ h + d \in Nat
        BY <1>0, <2>1, <2>3, <2>4, <2>6
      <4> HIDE DEF h
      <4> QED BY <4>1
    <3> QED BY <1>0, <3>1
  <2>8. T[0] = 0 /\ \A j \in 1 .. Len(q) : T[j] = S[j] + d
    BY <1>0
  <2> HIDE DEF T
  <2>9. ASSUME NEW j \in 1 .. Len(q) PROVE T[j] = T[j - 1] + k[q[j]]
    <3>0. h \in Nat /\ d \in Int
      BY <1>0, <2>1, <2>3, <2>4
    <3>1. CASE j = 1
      <4>1. k[q[1]] = h + d
        <5>1. k[q[1]] \in Int
          BY <2>2, <2>1, ClockAssumption DEF Word
        <5> HIDE DEF h
        <5> QED BY <3>0, <5>1 DEF d
      <4>2. T[1] = S[1] + d
        BY <2>1, <2>8
      <4> HIDE DEF h
      <4> QED BY <2>5, <2>8, <3>0, <3>1, <4>1, <4>2
    <3>2. CASE j # 1
      <4>1. j - 1 \in 1 .. Len(q) /\ q[j] \in Tasks
        BY <1>0, <3>2
      <4>2. q[j] # q[1]
        BY <2>1, <3>2 DEF Injective
      <4>3. k[q[j]] = tk[q[j]]
        BY <2>2, <4>1, <4>2
      <4>4. T[j] = S[j] + d /\ T[j - 1] = S[j - 1] + d /\ S[j] = S[j - 1] + tk[q[j]]
        BY <2>4, <2>8, <4>1
      <4>5. tk[q[j]] \in Nat
        BY <2>4
      <4>6. S[j - 1] \in Nat
        <5>1. j - 1 \in 0 .. Len(q)
          BY <1>0, <4>1
        <5> QED BY <2>4, <5>1
      <4> QED BY <3>0, <4>3, <4>4, <4>5, <4>6
    <3> QED BY <3>1, <3>2
  <2>10. Totals(T, q, k)
    BY <2>7, <2>8, <2>9 DEF Totals
  <2> QED BY <2>3, <2>8, <2>10 DEF k
<1> QED BY <1>1, <1>2

-----------------------------------------------------------------------------
(* What switch_task does to the sleepers *)

LEMMA NextSleepers ==
    ASSUME NEW rq, NEW tail, NEW sq, NEW st, NEW tk, get_next_ready_task(rq, tail, sq, st, tk)
    PROVE  sleep_queue' = sq /\ sleep_ticks' = tk
BY DEF get_next_ready_task

\* The place of the task that has been put to sleep, and the sums around it.
Slept(y, sq, tk, S, q, k) ==
    /\ q \in Seq(Tasks) /\ k \in [Tasks -> Word]
    /\ Elems(q) = Elems(sq) \cup {y}
    /\ \A t \in Tasks \ Elems(q) : k[t] = tk[t]
    /\ \E T : /\ Totals(T, q, k) /\ SameSums(S, sq, T, q)
              /\ \A j \in 1 .. Len(q) : q[j] = y => T[j] >= tk[y]

LEMMA SleptAt ==
    ASSUME NEW q \in Seq(Tasks), NEW r \in Seq(Tasks), Injective(q),
           NEW i \in 1 .. Len(q) + 1, NEW y \in Tasks, y \notin Elems(q), PutAt(q, i, y, r),
           Injective(r), Elems(r) = Elems(q) \cup {y},
           NEW tk \in [Tasks -> Word], NEW k \in [Tasks -> Word],
           \A t \in Tasks : t # y /\ (i <= Len(q) => t # q[i]) => k[t] = tk[t],
           i <= Len(q) => k[q[i]] = tk[q[i]] - k[y],
           NEW S, Totals(S, q, tk), S[i - 1] + k[y] >= tk[y]
    PROVE  Slept(y, q, tk, S, r, k)
<1>0. Len(q) \in Nat /\ Len(r) = Len(q) + 1 /\ r[i] = y
  BY DEF PutAt
<1>1. \A j \in 1 .. Len(q) : j # i => k[q[j]] = tk[q[j]]
  <2>1. ASSUME NEW j \in 1 .. Len(q), j # i PROVE k[q[j]] = tk[q[j]]
    <3>1. q[j] \in Tasks /\ q[j] # y
      BY ElemsDef
    <3>2. i <= Len(q) => q[j] # q[i]
      <4>1. i <= Len(q) => i \in 1 .. Len(q)
        BY <1>0
      <4> QED BY <2>1, <4>1 DEF Injective
    <3> QED BY <3>1, <3>2
  <2> QED BY <2>1
<1>2. PICK T : Totals(T, r, k) /\ SameSums(S, q, T, r) /\ T[i] = S[i - 1] + k[y]
  <2>1. DeltaMoved(q, i, y, tk, k)
    BY <1>1 DEF DeltaMoved
  <2>2. \E T : Totals(T, r, k) /\ SameSums(S, q, T, r) /\ T[i] = S[i - 1] + k[y]
    BY <2>1, GrowTotals
  <2> QED BY <2>2
<1>3. \A j \in 1 .. Len(r) : r[j] = y => T[j] >= tk[y]
  <2>1. ASSUME NEW j \in 1 .. Len(r), r[j] = y PROVE T[j] >= tk[y]
    <3>1. i \in 1 .. Len(r)
      BY <1>0
    <3>2. j = i
      BY <1>0, <2>1, <3>1 DEF Injective
    <3> QED BY <1>2, <3>2
  <2> QED BY <2>1
<1>4. \A t \in Tasks \ Elems(r) : k[t] = tk[t]
  <2>1. ASSUME NEW t \in Tasks \ Elems(r) PROVE k[t] = tk[t]
    <3>1. i <= Len(q) => q[i] \in Elems(q)
      <4>1. i <= Len(q) => i \in 1 .. Len(q)
        BY <1>0
      <4> QED BY <4>1, ElemsDef
    <3> QED BY <3>1
  <2> QED BY <2>1
<1> QED BY <1>2, <1>3, <1>4 DEF Slept

\* The sum that enqueue_sleep_task has reached is not more than the sum of the deltas.
LEMMA SumBelow ==
    ASSUME NEW q \in Seq(Tasks), NEW tk \in [Tasks -> Word], NEW S, Totals(S, q, tk),
           NEW n \in 0 .. Len(q), NEW sum, sum = SumThrough(q, tk, n)
    PROVE  S[n] \in Nat /\ sum \in 0 .. M - 1 /\ sum <= S[n]
<1>1. S[n] \in Nat
  BY DEF Totals
<1>2. sum = S[n] % M
  BY SumIsTotal
<1> QED BY <1>1, <1>2, Cut

\* An insertion takes place only where neither subtraction wraps (sched.c:133-144).
LEMMA InsertDeltas ==
    ASSUME NEW a \in Word, NEW b \in Word, NEW sum \in 0 .. M - 1, GoesBefore(sum, b, a)
    PROVE  /\ (a - sum) % M = a - sum /\ a - sum \in Word
           /\ (b - (a - sum)) % M = b - (a - sum) /\ b - (a - sum) \in Word
<1>1. /\ M \in Nat /\ a \in Nat /\ b \in Nat /\ sum \in Nat /\ a < M /\ b < M
      /\ sum < a /\ (sum + b) % M > a
  BY ClockAssumption DEF Word, GoesBefore
<1>2. a - sum \in Nat /\ a - sum < M
  BY <1>1
<1>3. sum + b \in Nat
  BY <1>1
<1>4. (sum + b) % M <= sum + b /\ (sum + b) % M \in 0 .. M - 1
  BY <1>3, Cut
<1>5. a < sum + b
  <2> DEFINE c == (sum + b) % M
  <2>1. c <= sum + b /\ c > a /\ c \in Nat
    BY <1>1, <1>4
  <2> HIDE DEF c
  <2> QED BY <1>1, <2>1
<1>6. b - (a - sum) \in Nat /\ b - (a - sum) < M
  BY <1>1, <1>5
<1>7. (a - sum) % M = a - sum /\ (b - (a - sum)) % M = b - (a - sum)
  BY <1>2, <1>6, Cut
<1> QED BY <1>1, <1>2, <1>6, <1>7 DEF Word

\* enqueue_sleep_task (sched.c:111-156) leaves the sums of the others as they were, and
\* gives the task a sum that is not less than its ticks, whatever wraps.
LEMMA PutToSleep ==
    ASSUME NEW rq, NEW tail, NEW sq, NEW st, NEW tk,
           Types(rq, tail, sq, st, tk), Switchable(rq, sq, st),
           enqueue_sleep_task(running_task, rq, tail, sq, st, tk), NEW S, Totals(S, sq, tk)
    PROVE  \/ NullInsert(rq, tail, sq, st, tk)
           \/ \E q, k : Slept(running_task, sq, tk, S, q, k) /\ get_next_ready_task(rq, tail, q, st, k)
<1> DEFINE y == running_task
           Done == \E q, k : Slept(y, sq, tk, S, q, k) /\ get_next_ready_task(rq, tail, q, st, k)
<1> SUFFICES NullInsert(rq, tail, sq, st, tk) \/ Done
  OBVIOUS
<1>0. /\ y \in Tasks /\ y \notin Elems(sq) /\ sq \in Seq(Tasks) /\ tk \in [Tasks -> Word]
      /\ Injective(sq) /\ Len(sq) \in Nat /\ tk[y] \in Word /\ tk[y] \in Nat /\ M \in Nat \ {0}
  BY ClockAssumption DEF Types, Switchable, Word
<1>1. ASSUME NEW w \in Word, S[Len(sq)] + w >= tk[y],
             get_next_ready_task(rq, tail, Append(sq, y), st, [tk EXCEPT ![y] = w])
      PROVE  Done
  <2> DEFINE r == Append(sq, y)
             k == [tk EXCEPT ![y] = w]
  <2>1. /\ r \in Seq(Tasks) /\ Len(r) = Len(sq) + 1 /\ r[Len(sq) + 1] = y
        /\ \A j \in 1 .. Len(sq) : r[j] = sq[j]
    BY <1>0
  <2>2. Injective(r) /\ Elems(r) = Elems(sq) \cup {y}
    BY <1>0, AppendElems
  <2>3. k \in [Tasks -> Word] /\ k[y] = w /\ \A t \in Tasks : t # y => k[t] = tk[t]
    BY <1>0
  <2>4. get_next_ready_task(rq, tail, r, st, k)
    BY <1>1
  <2> HIDE DEF r, k
  <2> DEFINE i == Len(sq) + 1
  <2>5. /\ i \in 1 .. Len(sq) + 1 /\ i - 1 = Len(sq) /\ ~(i <= Len(sq))
    BY <1>0
  <2>6. r[i] = y
    BY <2>1
  <2>7. \A j \in 1 .. i - 1 : r[j] = sq[j]
    BY <2>1, <2>5
  <2>8. \A j \in i + 1 .. Len(sq) + 1 : r[j] = sq[j - 1]
    BY <1>0
  <2>9. S[i - 1] + k[y] >= tk[y]
    BY <1>1, <2>3, <2>5
  <2>11. PutAt(sq, i, y, r)
    BY <2>1, <2>6, <2>7, <2>8 DEF PutAt
  <2> HIDE DEF i
  <2>10. Slept(y, sq, tk, S, r, k)
    <3> HIDE DEF y
    <3> QED BY <1>0, <2>1, <2>2, <2>3, <2>5, <2>9, <2>11, SleptAt
  <2> QED BY <2>4, <2>10
<1>2. CASE sq = <<>> /\ get_next_ready_task(rq, tail, <<y>>, st, tk)
  <2>1. Append(sq, y) = <<y>> /\ Len(sq) = 0 /\ S[0] = 0
    BY <1>2 DEF Totals
  <2>2. tk = [tk EXCEPT ![y] = tk[y]]
    BY <1>0
  <2>3. S[Len(sq)] + tk[y] >= tk[y]
    BY <1>0, <2>1
  <2>4. get_next_ready_task(rq, tail, Append(sq, y), st, [tk EXCEPT ![y] = tk[y]])
    BY <1>2, <2>1, <2>2
  <2> HIDE DEF Done
  <2> QED BY <1>0, <1>1, <2>3, <2>4
<1>3. CASE AppendSleeper(y, rq, tail, sq, st, tk)
  <2>1. PICK sum \in Word :
          /\ sum = SumThrough(sq, tk, Len(sq))
          /\ get_next_ready_task(rq, tail, Append(sq, y), st, [tk EXCEPT ![y] = (@ - sum) % M])
    BY <1>3 DEF AppendSleeper
  <2> DEFINE w == (tk[y] - sum) % M
  <2>2. S[Len(sq)] \in Nat /\ sum \in 0 .. M - 1 /\ sum <= S[Len(sq)]
    BY <1>0, <2>1, SumBelow
  <2>3. w \in Word /\ w \in Nat
    <3>1. tk[y] - sum \in Int
      BY <1>0, <2>2
    <3>2. w \in Word
      BY <3>1, WordType
    <3> HIDE DEF w
    <3> QED BY <1>0, <3>2 DEF Word
  <2>4. w >= tk[y] - sum
    <3>1. CASE tk[y] >= sum
      <4>1. tk[y] - sum \in Nat /\ tk[y] - sum < M
        BY <1>0, <2>2, <3>1 DEF Word
      <4> QED BY <4>1, Cut
    <3>2. CASE tk[y] < sum
      BY <1>0, <2>2, <2>3, <3>2
    <3> QED BY <1>0, <2>2, <3>1, <3>2
  <2>5. get_next_ready_task(rq, tail, Append(sq, y), st, [tk EXCEPT ![y] = w])
    BY <2>1
  <2> HIDE DEF w, Done
  <2>6. S[Len(sq)] + w >= tk[y]
    BY <1>0, <2>2, <2>3, <2>4
  <2> QED BY <1>1, <2>3, <2>5, <2>6
<1>4. CASE InsertSleeper(y, rq, tail, sq, st, tk)
  <2>1. PICK i \in 1 .. Len(sq), sum \in Word :
          /\ InsertsAt(sq, tk, tk[y], i)
          /\ sum = SumThrough(sq, tk, i - 1)
          /\ \/ NullInsert(rq, tail, sq, st, tk)
             \/ get_next_ready_task(rq, tail, InsertBefore(sq, i, y), st,
                   [tk EXCEPT ![y] = (@ - sum) % M, ![sq[i]] = (@ - (tk[y] - sum)) % M])
    BY <1>4 DEF InsertSleeper
  <2> DEFINE z == sq[i]
             w == (tk[y] - sum) % M
             v == (tk[z] - (tk[y] - sum)) % M
             k == [tk EXCEPT ![y] = w, ![z] = v]
             r == InsertBefore(sq, i, y)
  <2>2. CASE get_next_ready_task(rq, tail, r, st, k)
    <3>1. z \in Tasks /\ z # y /\ tk[z] \in Word /\ tk[z] \in Nat
      BY <1>0, Delta, ElemsDef
    <3>2. /\ i - 1 \in 0 .. Len(sq) /\ i \in Nat
      BY <1>0
    <3>3. S[i - 1] \in Nat /\ sum \in 0 .. M - 1 /\ sum <= S[i - 1]
      BY <1>0, <2>1, <3>2, SumBelow
    <3>4. GoesBefore(sum, tk[z], tk[y])
      BY <2>1 DEF InsertsAt
    <3>13. /\ (tk[y] - sum) % M = tk[y] - sum /\ tk[y] - sum \in Word
           /\ (tk[z] - (tk[y] - sum)) % M = tk[z] - (tk[y] - sum)
           /\ tk[z] - (tk[y] - sum) \in Word
      <4> DEFINE a == tk[y]
                 b == tk[z]
      <4>1. a \in Word /\ b \in Word /\ sum \in 0 .. M - 1 /\ GoesBefore(sum, b, a)
        BY <1>0, <3>1, <3>3, <3>4
      <4> HIDE DEF a, b
      <4>2. /\ (a - sum) % M = a - sum /\ a - sum \in Word
            /\ (b - (a - sum)) % M = b - (a - sum) /\ b - (a - sum) \in Word
        BY <4>1, InsertDeltas
      <4> QED BY <4>2 DEF a, b
    <3>5. w = tk[y] - sum /\ w \in Word
      BY <3>13
    <3>6. v = tk[z] - (tk[y] - sum) /\ v \in Word
      BY <3>13
    <3>7. /\ k \in [Tasks -> Word] /\ k[y] = w /\ k[z] = v
          /\ \A t \in Tasks : t # y /\ t # z => k[t] = tk[t]
      <4> HIDE DEF z, w, v
      <4> QED BY <1>0, <3>1, <3>5, <3>6
    <3>8. /\ r \in Seq(Tasks) /\ Injective(r) /\ Elems(r) = Elems(sq) \cup {y}
      BY <1>0, InsertElems
    <3>9. PutAt(sq, i, y, r)
      <4> DEFINE a == SubSeq(sq, 1, i - 1)
                 b == SubSeq(sq, i, Len(sq))
      <4>1. /\ a \in Seq(Tasks) /\ Len(a) = i - 1 /\ \A j \in 1 .. i - 1 : a[j] = sq[j]
        BY <1>0
      <4>2. /\ b \in Seq(Tasks) /\ Len(b) = Len(sq) - i + 1
            /\ \A j \in 1 .. Len(sq) - i + 1 : b[j] = sq[(i - 1) + j]
        BY <1>0
      <4>3. r = a \o <<y>> \o b
        BY DEF InsertBefore
      <4> HIDE DEF a, b, r
      <4>4. Len(r) = Len(sq) + 1
        <5>1. a \o <<y>> \in Seq(Tasks) /\ Len(a \o <<y>>) = i
          BY <1>0, <3>2, <4>1
        <5>2. Len(r) = i + Len(b)
          <6> DEFINE c == a \o <<y>>
          <6>1. r = c \o b /\ c \in Seq(Tasks) /\ Len(c) = i
            BY <4>3, <5>1
          <6>2. ASSUME NEW p \in Seq(Tasks), NEW s \in Seq(Tasks)
                PROVE  Len(p \o s) = Len(p) + Len(s)
            OBVIOUS
          <6> HIDE DEF c
          <6>3. Len(c \o b) = Len(c) + Len(b)
            BY <4>2, <6>1, <6>2
          <6> QED BY <6>1, <6>3
        <5> QED BY <1>0, <3>2, <4>2, <5>2
      <4>5. r[i] = y
        BY <1>0, <3>2, <4>1, <4>2, <4>3
      <4>6. \A j \in 1 .. i - 1 : r[j] = sq[j]
        BY <1>0, <3>2, <4>1, <4>2, <4>3
      <4>7. ASSUME NEW j \in i + 1 .. Len(sq) + 1 PROVE r[j] = sq[j - 1]
        <5>1. j - i \in 1 .. Len(sq) - i + 1 /\ (i - 1) + (j - i) = j - 1
          BY <1>0, <3>2
        <5>2. r[j] = b[j - i]
          BY <1>0, <3>2, <4>1, <4>2, <4>3
        <5> QED BY <4>2, <5>1, <5>2
      <4> QED BY <4>4, <4>5, <4>6, <4>7 DEF PutAt
    <3>10. S[i - 1] + k[y] >= tk[y]
      <4>1. k[y] = tk[y] - sum
        BY <3>5, <3>7
      <4> HIDE DEF k
      <4> QED BY <1>0, <3>3, <4>1
    <3>11. k[sq[i]] = tk[sq[i]] - k[y] /\ i \in 1 .. Len(sq) + 1
      BY <1>0, <3>5, <3>6, <3>7
    <3>12. \A t \in Tasks : t # y /\ (i <= Len(sq) => t # sq[i]) => k[t] = tk[t]
      BY <1>0, <3>7
    <3> HIDE DEF z, w, v, k, r
    <3>14. Slept(y, sq, tk, S, r, k)
      <4> HIDE DEF y
      <4> QED BY <1>0, <3>7, <3>8, <3>9, <3>10, <3>11, <3>12, SleptAt
    <3> QED BY <2>2, <3>14
  <2> QED BY <2>1, <2>2
<1> QED BY <1>2, <1>3, <1>4 DEF enqueue_sleep_task

\* What switch_task leaves of the sleep queue sq and the deltas tk it is given, S being
\* their sums: the sums of the tasks in sq, and the running task if it goes to sleep.
SleepersKept(S, sq, st, tk) ==
    /\ Elems(sq) \subseteq Elems(sleep_queue')
    /\ \A t \in Tasks \ Elems(sleep_queue') : sleep_ticks'[t] = tk[t]
    /\ \E T : /\ Totals(T, sleep_queue', sleep_ticks')
              /\ SameSums(S, sq, T, sleep_queue')
              /\ \A j \in 1 .. Len(sleep_queue') :
                    \/ sleep_queue'[j] \in Elems(sq)
                    \/ /\ sleep_queue'[j] = running_task /\ st[running_task] = "SLEEPING"
                       /\ T[j] >= tk[running_task]
    /\ panic' = "none" /\ st[running_task] = "SLEEPING" => running_task \in Elems(sleep_queue')

\* The states it leaves: a task is READY or RUNNING only if it was one of these.
StatesKept(st) ==
    panic' = "none" =>
        /\ running_task' \in Tasks /\ state'[running_task'] = "RUNNING"
        /\ \A t \in Tasks : \/ state'[t] \in {"FREE", st[t]}
                            \/ st[t] \in {"READY", "RUNNING"} /\ state'[t] \in {"READY", "RUNNING"}

LEMMA NextStates ==
    ASSUME NEW rq, NEW tail, NEW sq, NEW st, NEW tk, Types(rq, tail, sq, st, tk),
           \A t \in Elems(rq) : st[t] \in {"READY", "DESTROY"},
           get_next_ready_task(rq, tail, sq, st, tk)
    PROVE  StatesKept(st)
<1> SUFFICES ASSUME panic' = "none"
             PROVE  /\ running_task' \in Tasks /\ state'[running_task'] = "RUNNING"
                    /\ \A t \in Tasks :
                         \/ state'[t] \in {"FREE", st[t]}
                         \/ st[t] \in {"READY", "RUNNING"} /\ state'[t] \in {"READY", "RUNNING"}
  BY DEF StatesKept
<1>0. rq \in Seq(Tasks) /\ st \in [Tasks -> TaskStates]
  BY DEF Types
<1>1. PICK i \in 1 .. Len(rq) :
        /\ st[rq[i]] # "DESTROY"
        /\ running_task' = rq[i]
        /\ state' = [Destroyed(st, {rq[j] : j \in 1 .. i - 1}) EXCEPT ![rq[i]] = "RUNNING"]
  BY DEF get_next_ready_task
<1>2. rq[i] \in Tasks /\ st[rq[i]] = "READY"
  <2>1. rq[i] \in Elems(rq)
    BY <1>0, ElemsDef
  <2> QED BY <1>0, <1>1, <2>1, ElemsDef
<1>3. /\ state'[rq[i]] = "RUNNING"
      /\ \A t \in Tasks : t # rq[i] => state'[t] \in {"FREE", st[t]}
  BY <1>1, <1>2 DEF Destroyed
<1> QED BY <1>1, <1>2, <1>3

LEMMA SwitchSleepers ==
    ASSUME NEW rq, NEW tail, NEW sq, NEW st, NEW tk,
           Types(rq, tail, sq, st, tk), Switchable(rq, sq, st),
           switch_task(rq, tail, sq, st, tk), NEW S, Totals(S, sq, tk)
    PROVE  SleepersKept(S, sq, st, tk) /\ StatesKept(st)
<1> DEFINE y == running_task
<1>0. /\ y \in Tasks /\ sq \in Seq(Tasks) /\ Injective(sq) /\ y \notin Elems(rq) \cup Elems(sq)
      /\ st \in [Tasks -> TaskStates] /\ tk \in [Tasks -> Word]
  BY DEF Types, Switchable
<1>1. ASSUME sleep_queue' = sq, sleep_ticks' = tk, st[y] = "SLEEPING" => panic' # "none"
      PROVE  SleepersKept(S, sq, st, tk)
  <2>1. SameSums(S, sq, S, sq)
    BY <1>0, Itself
  <2>2. \A j \in 1 .. Len(sq) : sq[j] \in Elems(sq)
    BY <1>0, ElemsDef
  <2> QED BY <1>1, <2>1, <2>2 DEF SleepersKept
<1>2. ASSUME NEW v \in {"READY", "DESTROY"},
             \/ st[y] = "RUNNING" /\ v = "READY"
             \/ st[y] = "DESTROY" /\ v = "DESTROY",
             Requeue(rq, tail, sq, st, tk, v)
      PROVE  SleepersKept(S, sq, st, tk) /\ StatesKept(st)
  <2> DEFINE s == [st EXCEPT ![running_task] = v]
             q == Linked(rq, tail, <<running_task>>)
  <2>1. Readied(rq, tail, sq, st, tk, v, q, s)
    BY SwitchReady
  <2>3. get_next_ready_task(q, running_task, sq, s, tk)
    BY <1>2 DEF Requeue
  <2> HIDE DEF s, q
  <2>2. /\ Types(q, running_task, sq, s, tk) /\ Queued(q, sq, s)
        /\ s[y] = v /\ \A t \in Tasks : t # y => s[t] = st[t]
    BY <2>1 DEF Readied
  <2>4. StatesKept(s)
    BY <2>2, <2>3, NextStates DEF Queued
  <2>5. StatesKept(st)
    <3> SUFFICES ASSUME panic' = "none", NEW t \in Tasks
                 PROVE  \/ state'[t] \in {"FREE", st[t]}
                        \/ st[t] \in {"READY", "RUNNING"} /\ state'[t] \in {"READY", "RUNNING"}
      BY <2>4 DEF StatesKept
    <3>1. \/ state'[t] \in {"FREE", s[t]}
          \/ s[t] \in {"READY", "RUNNING"} /\ state'[t] \in {"READY", "RUNNING"}
      BY <2>4 DEF StatesKept
    <3>2. CASE t = y
      BY <1>2, <2>2, <3>1, <3>2
    <3>3. CASE t # y
      BY <2>2, <3>1, <3>3
    <3> QED BY <3>2, <3>3
  <2>6. sleep_queue' = sq /\ sleep_ticks' = tk
    BY <2>3, NextSleepers
  <2> QED BY <1>1, <1>2, <2>5, <2>6
<1>3. CASE st[y] = "RUNNING"
  BY <1>2, <1>3 DEF switch_task
<1>4. CASE st[y] = "DESTROY"
  BY <1>2, <1>4 DEF switch_task
<1>5. CASE st[y] = "SLEEPING"
  <2>1. enqueue_sleep_task(y, rq, tail, sq, st, tk)
    BY <1>5 DEF switch_task
  <2>2. CASE NullInsert(rq, tail, sq, st, tk)
    BY <1>1, <2>2 DEF NullInsert, StatesKept
  <2>3. ASSUME NEW q, NEW k, Slept(y, sq, tk, S, q, k), get_next_ready_task(rq, tail, q, st, k)
        PROVE  SleepersKept(S, sq, st, tk) /\ StatesKept(st)
    <3>1. sleep_queue' = q /\ sleep_ticks' = k
      BY <2>3, NextSleepers
    <3>2. /\ q \in Seq(Tasks) /\ Elems(q) = Elems(sq) \cup {y}
          /\ \A t \in Tasks \ Elems(q) : k[t] = tk[t]
      BY <2>3 DEF Slept
    <3>3. PICK T : /\ Totals(T, q, k) /\ SameSums(S, sq, T, q)
                   /\ \A j \in 1 .. Len(q) : q[j] = y => T[j] >= tk[y]
      BY <2>3 DEF Slept
    <3>4. \A j \in 1 .. Len(q) : q[j] \in Elems(sq) \/ q[j] = y
      BY <3>2, ElemsDef
    <3>5. SleepersKept(S, sq, st, tk)
      BY <1>5, <3>1, <3>2, <3>3, <3>4 DEF SleepersKept
    <3>6. StatesKept(st)
      <4>1. \A t \in Elems(rq) : st[t] \in {"READY", "DESTROY"}
        BY DEF Switchable
      <4>2. Types(rq, tail, q, st, k)
        BY <2>3 DEF Types, Slept
      <4> QED BY <2>3, <4>1, <4>2, NextStates
    <3> QED BY <3>5, <3>6
  <2> QED BY <1>0, <2>1, <2>2, <2>3, PutToSleep
<1> QED BY <1>3, <1>4, <1>5 DEF switch_task

\* The sums S of the sleepers have changed by d, to 0 for the first k, who have left, and
\* with the deltas tk for the rest.
Ticked(S, k, d, T, rest, tk) ==
    /\ \A i \in 1 .. k : S[i] + d = 0
    /\ Totals(T, rest, tk)
    /\ \A i \in 1 .. Len(sleep_queue), j \in 1 .. Len(rest) :
          sleep_queue[i] = rest[j] => T[j] = S[i] + d

\* The tick: update_sleep_queue (sched.c:184-205) has taken d off the sums of all sleepers,
\* and woken those whose sum is then 0.
LEMMA TickSleepers ==
    ASSUME IInv, NEW S, Totals(S, sleep_queue, sleep_ticks),
           NEW k \in 0 .. Len(sleep_queue),
           Expired(sleep_queue, DecrementHead(sleep_queue, sleep_ticks), k)
    PROVE  \E d \in {-1, M - 1} : \E T :
              Ticked(S, k, d, T, SubSeq(sleep_queue, k + 1, Len(sleep_queue)),
                     DecrementHead(sleep_queue, sleep_ticks))
<1> DEFINE q == sleep_queue
           tk == DecrementHead(sleep_queue, sleep_ticks)
           rest == SubSeq(sleep_queue, k + 1, Len(sleep_queue))
<1>0. q \in Seq(Tasks) /\ sleep_ticks \in [Tasks -> Word] /\ Injective(q) /\ Len(q) \in Nat
  BY DEF IInv, TypeOK, OneQueue
<1>1. PICK d \in {-1, M - 1} : \E T : Totals(T, q, tk) /\ \A j \in 1 .. Len(q) : T[j] = S[j] + d
  BY <1>0, TickTotals
<1>2. PICK T : Totals(T, q, tk) /\ \A j \in 1 .. Len(q) : T[j] = S[j] + d
  BY <1>1
<1>3. \A j \in 1 .. k : tk[q[j]] = 0
  BY DEF Expired
<1> HIDE DEF tk
<1>4. \A j \in 0 .. k : T[j] = 0
  BY <1>0, <1>2, <1>3, ZeroTotals
<1>5. T[k] = 0 /\ \A j \in 1 .. k : S[j] + d = 0
  BY <1>0, <1>2, <1>4
<1>6. PICK R : Totals(R, rest, tk) /\ SameSums(T, q, R, rest)
  BY <1>0, <1>2, <1>5, DropTotals
<1> HIDE DEF rest
<1>7. \A i \in 1 .. Len(q), j \in 1 .. Len(rest) : q[i] = rest[j] => R[j] = S[i] + d
  BY <1>2, <1>6 DEF SameSums
<1>8. Ticked(S, k, d, R, rest, tk)
  BY <1>5, <1>6, <1>7 DEF Ticked
<1> QED BY <1>8 DEF tk, rest

\* A tick and the switch that follows it.
LEMMA TickStep ==
    ASSUME IInv, do_scheduling, ~NullTail, NEW S, Totals(S, sleep_queue, sleep_ticks)
    PROVE  \E k \in 0 .. Len(sleep_queue) : \E d \in {-1, M - 1} : \E T :
              LET rest == SubSeq(sleep_queue, k + 1, Len(sleep_queue))
                  tk == DecrementHead(sleep_queue, sleep_ticks)
                  st == [t \in Tasks |-> IF t \in Elems(SubSeq(sleep_queue, 1, k)) THEN "READY"
                                         ELSE state[t]]
              IN  Ticked(S, k, d, T, rest, tk) /\ SleepersKept(T, rest, st, tk) /\ StatesKept(st)
<1> DEFINE tk == DecrementHead(sleep_queue, sleep_ticks)
           Gone(k) == SubSeq(sleep_queue, 1, k)
           Rest(k) == SubSeq(sleep_queue, k + 1, Len(sleep_queue))
           St(k) == [t \in Tasks |-> IF t \in Elems(Gone(k)) THEN "READY" ELSE state[t]]
           Rq(k) == Linked(ready_queue, ready_queue_tail, Gone(k))
           Last(k) == TailAfter(ready_queue_tail, Gone(k))
<1>0. panic = "none"
  BY DEF do_scheduling
<1>1. PICK k \in 0 .. Len(sleep_queue) :
        /\ Expired(sleep_queue, tk, k)
        /\ switch_task(Rq(k), Last(k), Rest(k), St(k), tk)
  BY DEF do_scheduling
<1>2. Woken(Rq(k), Last(k), Rest(k), St(k), tk)
  BY <1>0, UpdateSleepQueue
<1>3. PICK d \in {-1, M - 1} : \E T : Ticked(S, k, d, T, Rest(k), tk)
  BY <1>1, TickSleepers
<1> HIDE DEF tk, Gone, Rest, St, Rq, Last
<1>4. PICK T : Ticked(S, k, d, T, Rest(k), tk)
  BY <1>3
<1>5. SleepersKept(T, Rest(k), St(k), tk) /\ StatesKept(St(k))
  BY <1>1, <1>2, <1>4, SwitchSleepers DEF Ticked, Woken
<1>6. Ticked(S, k, d, T, Rest(k), tk) /\ SleepersKept(T, Rest(k), St(k), tk) /\ StatesKept(St(k))
  BY <1>4, <1>5
<1> QED BY <1>6 DEF tk, Gone, Rest, St

\* A step changes the sums of all sleepers by d.
Alike(S, d, T) ==
    /\ Totals(T, sleep_queue', sleep_ticks')
    /\ \A i \in 1 .. Len(sleep_queue), j \in 1 .. Len(sleep_queue') :
          sleep_queue[i] = sleep_queue'[j] => T[j] = S[i] + d

LEMMA Disturbance ==
    ASSUME IInv, IInv', NEW S, NEW T, Totals(S, sleep_queue, sleep_ticks),
           NEW d \in {0, -1, M - 1}, Alike(S, d, T)
    PROVE  \E e \in {0, 1} :
              \A i \in DOMAIN sleep_queue, j \in DOMAIN sleep_queue' :
                 sleep_queue[i] = sleep_queue'[j] => (Due(i) - Due(j)') % M = e
<1>0. /\ sleep_queue \in Seq(Tasks) /\ sleep_ticks \in [Tasks -> Word]
      /\ sleep_queue' \in Seq(Tasks) /\ sleep_ticks' \in [Tasks -> Word] /\ M \in Nat \ {0}
  BY ClockAssumption DEF IInv, TypeOK
<1>1. PICK e \in {0, 1} : (0 - d) % M = e
  <2>1. CASE d = 0
    <3>1. 0 - d \in Nat /\ 0 - d < M
      BY <1>0, <2>1
    <3>2. (0 - d) % M = 0
      BY <2>1, <3>1, Cut
    <3> QED BY <3>2
  <2>2. CASE d = -1
    <3>1. 0 - d = 1
      <4>1. 0 - (-1) = 1
        OBVIOUS
      <4> QED BY <2>2, <4>1
    <3>2. CASE M = 1
      <4>1. 1 % M \in 0 .. 0
        BY <3>2, Cut
      <4> QED BY <3>1, <4>1
    <3>3. CASE M # 1
      <4>1. 1 % M = 1
        BY <1>0, <3>3, Cut
      <4> QED BY <3>1, <4>1
    <3> QED BY <3>2, <3>3
  <2>3. CASE d = M - 1
    <3>1. 0 - d = 1 + M * (-1)
      BY <1>0, <2>3
    <3>2. (1 + M * (-1)) % M = 1 % M
      BY Multiple
    <3>3. 1 % M <= 1 /\ 1 % M \in 0 .. M - 1
      BY Cut
    <3>4. 1 % M \in {0, 1}
      BY <1>0, <3>3
    <3> QED BY <3>1, <3>2, <3>4
  <2> QED BY <2>1, <2>2, <2>3
<1>2. ASSUME NEW i \in DOMAIN sleep_queue, NEW j \in DOMAIN sleep_queue',
             sleep_queue[i] = sleep_queue'[j]
      PROVE  (Due(i) - Due(j)') % M = e
  <2>1. i \in 0 .. Len(sleep_queue) /\ i \in 1 .. Len(sleep_queue)
    BY <1>0
  <2>2. j \in 0 .. Len(sleep_queue') /\ j \in 1 .. Len(sleep_queue')
    BY <1>0
  <2>3. Due(i) = S[i] % M
    BY <1>0, <2>1, SumIsTotal DEF Due
  <2>4. SumThrough(sleep_queue', sleep_ticks', j) = T[j] % M
    BY <1>0, <2>2, SumIsTotal DEF Alike
  <2>5. Due(j)' = T[j] % M
    BY <2>4 DEF Due
  <2>6. S[i] \in Int /\ T[j] \in Int /\ T[j] = S[i] + d
    BY <1>2, <2>1, <2>2 DEF Totals, Alike
  <2>7. ((S[i] % M) - (T[j] % M)) % M = (S[i] - T[j]) % M
    BY <2>6, DifferenceCut
  <2>8. S[i] - T[j] = 0 - d
    BY <1>0, <2>6
  <2> QED BY <1>1, <2>3, <2>5, <2>7, <2>8
<1> QED BY <1>2

\* What a step does to the sums of the sleepers.
LEMMA StepSums ==
    ASSUME IInv, [Next]_vars, NEW S, Totals(S, sleep_queue, sleep_ticks)
    PROVE  \E d \in {0, -1, M - 1} : \E T : Alike(S, d, T)
<1>0. /\ sleep_queue \in Seq(Tasks) /\ sleep_ticks \in [Tasks -> Word] /\ Injective(sleep_queue)
      /\ sleep_queue' \in Seq(Tasks)
      /\ \A i \in 1 .. Len(sleep_queue) : S[i] \in Nat
      /\ running_task \notin Elems(sleep_queue)
  <2>1. IInv'
    BY StepInv
  <2>2. sleep_queue' \in Seq(Tasks)
    BY <2>1 DEF IInv, TypeOK
  <2>3. \A i \in 1 .. Len(sleep_queue) : S[i] \in Nat
    BY DEF Totals
  <2> QED BY <2>2, <2>3, TasksAssumption DEF IInv, TypeOK, OneQueue
<1>1. CASE do_scheduling /\ ~NullTail
  <2> DEFINE Rest(k) == SubSeq(sleep_queue, k + 1, Len(sleep_queue))
             St(k) == [t \in Tasks |-> IF t \in Elems(SubSeq(sleep_queue, 1, k)) THEN "READY"
                                       ELSE state[t]]
             tk == DecrementHead(sleep_queue, sleep_ticks)
  <2>1. PICK k \in 0 .. Len(sleep_queue) : \E d \in {-1, M - 1} : \E T :
          Ticked(S, k, d, T, Rest(k), tk) /\ SleepersKept(T, Rest(k), St(k), tk)
    BY <1>1, TickStep
  <2>0. Rest(k) \in Seq(Tasks)
    BY <1>0
  <2> HIDE DEF Rest, St, tk
  <2>2. PICK d \in {-1, M - 1} : \E T :
          Ticked(S, k, d, T, Rest(k), tk) /\ SleepersKept(T, Rest(k), St(k), tk)
    BY <2>1
  <2>3. PICK R : Ticked(S, k, d, R, Rest(k), tk) /\ SleepersKept(R, Rest(k), St(k), tk)
    BY <2>2
  <2>4. PICK T : /\ Totals(T, sleep_queue', sleep_ticks')
                 /\ SameSums(R, Rest(k), T, sleep_queue')
                 /\ \A j \in 1 .. Len(sleep_queue') :
                      sleep_queue'[j] \in Elems(Rest(k)) \/ sleep_queue'[j] = running_task
    BY <2>3 DEF SleepersKept
  <2>5. ASSUME NEW i \in 1 .. Len(sleep_queue), NEW j \in 1 .. Len(sleep_queue'),
               sleep_queue[i] = sleep_queue'[j]
        PROVE  T[j] = S[i] + d
    <3>1. sleep_queue[i] \in Elems(sleep_queue)
      BY <1>0, ElemsDef
    <3>2. sleep_queue'[j] \in Elems(Rest(k))
      BY <1>0, <2>4, <2>5, <3>1
    <3>3. PICK b \in 1 .. Len(Rest(k)) : Rest(k)[b] = sleep_queue'[j]
      BY <2>0, <3>2, ElemsDef
    <3>4. T[j] = R[b]
      BY <2>4, <3>3 DEF SameSums
    <3>5. R[b] = S[i] + d
      BY <2>3, <2>5, <3>3 DEF Ticked
    <3> QED BY <3>4, <3>5
  <2>6. Alike(S, d, T) /\ d \in {0, -1, M - 1}
    BY <2>4, <2>5 DEF Alike
  <2> QED BY <2>6
<1>2. ASSUME NEW T, Totals(T, sleep_queue', sleep_ticks'),
             SameSums(S, sleep_queue, T, sleep_queue')
      PROVE  Alike(S, 0, T)
  BY <1>0, <1>2 DEF SameSums, Alike
<1>3. ASSUME NEW t \in Tasks, sched_yield(t) PROVE \E T : Alike(S, 0, T)
  <2>1. /\ Types(ready_queue, ready_queue_tail, sleep_queue, state, sleep_ticks)
        /\ Switchable(ready_queue, sleep_queue, state)
    BY <1>3, YieldSwitchable
  <2>2. switch_task(ready_queue, ready_queue_tail, sleep_queue, state, sleep_ticks)
    BY <1>3 DEF sched_yield
  <2>3. SleepersKept(S, sleep_queue, state, sleep_ticks)
    BY <2>1, <2>2, SwitchSleepers
  <2>4. PICK T : Totals(T, sleep_queue', sleep_ticks') /\ SameSums(S, sleep_queue, T, sleep_queue')
    BY <2>3 DEF SleepersKept
  <2> QED BY <1>2, <2>4
<1>4. ASSUME sleep_queue' = sleep_queue, NEW t, t \notin Elems(sleep_queue),
             \A u \in Tasks : u # t => sleep_ticks'[u] = sleep_ticks[u]
      PROVE  \E T : Alike(S, 0, T)
  <2>1. Totals(S, sleep_queue, sleep_ticks')
    <3>1. \A u \in Elems(sleep_queue) : sleep_ticks'[u] = sleep_ticks[u]
      BY <1>0, <1>4, ElemsDef
    <3> QED BY <1>0, <3>1, SameDeltas
  <2>2. SameSums(S, sleep_queue, S, sleep_queue)
    BY <1>0, Itself
  <2> QED BY <1>2, <1>4, <2>1, <2>2
<1>5. ASSUME NEW t \in Tasks, NEW new \in Tasks, create_kernel_task(t, new)
      PROVE  \E T : Alike(S, 0, T)
  <2>1. new \notin Elems(sleep_queue)
    BY <1>5 DEF create_kernel_task, IInv, OneQueue
  <2> QED BY <1>0, <1>4, <1>5, <2>1 DEF create_kernel_task
<1>6. ASSUME NEW t \in Tasks, NEW ticks, NEW asked, Arm(t, ticks, asked) PROVE \E T : Alike(S, 0, T)
  <2>1. t = running_task
    BY <1>6 DEF Arm, At
  <2> QED BY <1>0, <1>4, <1>6, <2>1 DEF Arm
<1>7. ASSUME UNCHANGED <<sleep_queue, sleep_ticks>> PROVE \E T : Alike(S, 0, T)
  BY <1>0, <1>4, <1>7
<1>8. CASE \E T : Alike(S, 0, T)
  <2>1. 0 \in {0, -1, M - 1}
    OBVIOUS
  <2> QED BY <1>8, <2>1
<1>9. CASE NullTail
  BY <1>7, <1>8, <1>9 DEF NullTail
<1> QED BY <1>1, <1>3, <1>5, <1>6, <1>7, <1>8, <1>9
        DEF Next, sleep, usleep, Park, sched_kill, KillFind, KillMark, TestEmpty, SetHead,
            LoadTail, LinkTail, SetTail, vars

\* Whoever goes to sleep, wherever in the queue, no other sleeper's wake-up moves, and a
\* tick brings all of them one tick nearer: in the unsigned arithmetic of enqueue_sleep_task
\* (sched.c:111-156), for any word size, whatever wraps.
THEOREM SchedOthersUndisturbed == Spec => OthersUndisturbed
<1>1. ASSUME IInv, [Next]_vars
      PROVE  [\E d \in {0, 1} :
                \A i \in DOMAIN sleep_queue, j \in DOMAIN sleep_queue' :
                   sleep_queue[i] = sleep_queue'[j] => (Due(i) - Due(j)') % M = d]_vars
  <2>1. IInv'
    BY <1>1, StepInv
  <2>2. sleep_queue \in Seq(Tasks) /\ sleep_ticks \in [Tasks -> Word]
    BY <1>1 DEF IInv, TypeOK
  <2>3. PICK S : Totals(S, sleep_queue, sleep_ticks)
    BY <2>2, HasTotals
  <2>4. PICK d \in {0, -1, M - 1} : \E T : Alike(S, d, T)
    BY <1>1, <2>3, StepSums
  <2>5. PICK T : Alike(S, d, T)
    BY <2>4
  <2> QED BY <1>1, <2>1, <2>3, <2>5, Disturbance
<1>2. IInv /\ [Next]_vars => IInv'
  BY StepInv
<1> QED BY InitInv, <1>1, <1>2, PTL DEF Spec, OthersUndisturbed

-----------------------------------------------------------------------------
(* Nobody returns early from a sleep that fits in the word. *)

\* The arguments of sleep() and usleep() whose ticks fit in an unsigned int.
SleepsFit == /\ \A s \in Seconds : HZ * s + 1 < M
             /\ \A m \in Millis : HZ * m + 1 < M

\* A task on no sleep queue owes nothing, unless it is on its way there: then it owes what
\* its ticks say.
Owes(t) ==
    \/ owed[t] = 0
    \/ /\ owed[t] <= sleep_ticks[t]
       /\ pc[t] = "armed" \/ (pc[t] = "parked" /\ state[t] = "SLEEPING")

\* A sleeper's sum is at least what it owes, and who is to sleep is on the queue, or is
\* running still.
SleepInv ==
    panic = "none" =>
        /\ \E S : /\ Totals(S, sleep_queue, sleep_ticks)
                  /\ \A i \in 1 .. Len(sleep_queue) : owed[sleep_queue[i]] <= S[i]
        /\ \A t \in Tasks \ Elems(sleep_queue) :
              /\ state[t] # "FREE" => Owes(t)
              /\ state[t] = "SLEEPING" => t = running_task

\* The ticks that sleep() and usleep() (sched.c:402-418) compute are the ticks asked for.
LEMMA TicksFit ==
    ASSUME SleepsFit
    PROVE  /\ \A s \in Seconds : (HZ * s + 1) % M = HZ * s + 1
           /\ \A m \in Millis : (((HZ * m) % M) \div MS + 1) % M = (HZ * m) \div MS + 1
<1>1. ASSUME NEW s \in Seconds PROVE (HZ * s + 1) % M = HZ * s + 1
  <2>1. HZ * s \in Nat /\ HZ * s + 1 < M
    BY ClockAssumption DEF SleepsFit
  <2> QED BY <2>1, Cut
<1>2. ASSUME NEW m \in Millis PROVE (((HZ * m) % M) \div MS + 1) % M = (HZ * m) \div MS + 1
  <2> DEFINE x == HZ * m
             y == x \div MS
  <2>1. x \in Nat /\ x + 1 < M
    BY ClockAssumption DEF SleepsFit
  <2> HIDE DEF x
  <2>2. x % M = x
    BY <2>1, Cut, ClockAssumption
  <2>3. y \in Nat /\ y <= x
    BY <2>1, ClockAssumption
  <2> HIDE DEF y
  <2>4. (y + 1) % M = y + 1
    BY <2>1, <2>3, Cut, ClockAssumption
  <2> QED BY <2>2, <2>4 DEF x, y
<1> QED BY <1>1, <1>2

\* A step on which no task moves and the sleepers owe what they owed.
LEMMA StillCovered ==
    ASSUME IInv, SleepInv, panic = "none", sleep_queue' = sleep_queue, NEW t \in Tasks,
           t \notin Elems(sleep_queue), running_task' = running_task,
           \A u \in Tasks \ Elems(sleep_queue) : u # running_task /\ state'[u] = "SLEEPING"
                                                 => state[u] = "SLEEPING",
           \A u \in Tasks : u # t => sleep_ticks'[u] = sleep_ticks[u] /\ owed'[u] = owed[u],
           \A u \in Tasks \ Elems(sleep_queue) : state'[u] # "FREE" => Owes(u)'
    PROVE  SleepInv'
<1>0. sleep_queue \in Seq(Tasks)
  BY DEF IInv, TypeOK
<1>1. PICK S : /\ Totals(S, sleep_queue, sleep_ticks)
               /\ \A i \in 1 .. Len(sleep_queue) : owed[sleep_queue[i]] <= S[i]
  BY DEF SleepInv
<1>2. \A u \in Elems(sleep_queue) : sleep_ticks'[u] = sleep_ticks[u] /\ owed'[u] = owed[u]
  BY <1>0, ElemsDef
<1>3. Totals(S, sleep_queue, sleep_ticks')
  BY <1>0, <1>1, <1>2, SameDeltas
<1>4. \A i \in 1 .. Len(sleep_queue) : owed'[sleep_queue[i]] <= S[i]
  BY <1>0, <1>1, <1>2, ElemsDef
<1>5. \A u \in Tasks \ Elems(sleep_queue') : state'[u] = "SLEEPING" => u = running_task'
  BY DEF SleepInv
<1> QED BY <1>3, <1>4, <1>5 DEF SleepInv

\* A tick keeps every sleeper covered, and wakes only those that owe nothing any more.
LEMMA TickCovered ==
    ASSUME IInv, IInv', SleepInv, do_scheduling, ~NullTail
    PROVE  SleepInv'
<1> SUFFICES ASSUME panic' = "none"
             PROVE  /\ \E T : /\ Totals(T, sleep_queue', sleep_ticks')
                              /\ \A j \in 1 .. Len(sleep_queue') : owed'[sleep_queue'[j]] <= T[j]
                    /\ \A t \in Tasks \ Elems(sleep_queue') :
                          /\ state'[t] # "FREE" => Owes(t)'
                          /\ state'[t] # "SLEEPING"
  BY DEF SleepInv
<1>0. /\ panic = "none" /\ pc' = pc /\ M \in Nat \ {0}
      /\ sleep_queue \in Seq(Tasks) /\ sleep_queue' \in Seq(Tasks) /\ Len(sleep_queue) \in Nat
      /\ state \in [Tasks -> TaskStates] /\ running_task \notin Elems(sleep_queue)
      /\ \A t \in Tasks : sleep_ticks[t] \in Nat /\ owed[t] \in Nat
      /\ Elems(sleep_queue) \subseteq Tasks
  <2>1. running_task \in Tasks /\ running_task \notin Elems(sleep_queue)
    BY DEF do_scheduling, IInv, OneQueue
  <2>2. /\ sleep_queue \in Seq(Tasks) /\ sleep_queue' \in Seq(Tasks)
        /\ state \in [Tasks -> TaskStates]
        /\ \A t \in Tasks : sleep_ticks[t] \in Nat /\ owed[t] \in Nat
    <3>1. /\ sleep_queue \in Seq(Tasks) /\ state \in [Tasks -> TaskStates]
          /\ sleep_ticks \in [Tasks -> Word] /\ owed \in [Tasks -> Nat]
      BY DEF IInv, TypeOK
    <3>2. sleep_queue' \in Seq(Tasks)
      BY DEF IInv, TypeOK
    <3>3. \A x \in Word : x \in Nat
      BY ClockAssumption DEF Word
    <3> QED BY <3>1, <3>2, <3>3
  <2> QED BY <2>1, <2>2, ElemsDef, ClockAssumption DEF do_scheduling
<1>1. \A t \in Tasks :
        owed'[t] = IF t \in Elems(sleep_queue) /\ owed[t] > 0 THEN owed[t] - 1 ELSE owed[t]
  BY DEF do_scheduling
<1>2. PICK S : /\ Totals(S, sleep_queue, sleep_ticks)
               /\ \A i \in 1 .. Len(sleep_queue) : owed[sleep_queue[i]] <= S[i]
  BY <1>0 DEF SleepInv
<1> DEFINE Gone(k) == SubSeq(sleep_queue, 1, k)
           Rest(k) == SubSeq(sleep_queue, k + 1, Len(sleep_queue))
           St(k) == [t \in Tasks |-> IF t \in Elems(Gone(k)) THEN "READY" ELSE state[t]]
           tk == DecrementHead(sleep_queue, sleep_ticks)
           Step(k, d, T) == /\ Ticked(S, k, d, T, Rest(k), tk)
                            /\ SleepersKept(T, Rest(k), St(k), tk) /\ StatesKept(St(k))
<1>3. PICK k \in 0 .. Len(sleep_queue) : \E d \in {-1, M - 1} : \E T : Step(k, d, T)
  BY <1>2, TickStep
<1>4. PICK d \in {-1, M - 1} : \E T : Step(k, d, T)
  BY <1>3
<1>5. PICK R : Step(k, d, R)
  BY <1>4
<1>6. /\ Rest(k) \in Seq(Tasks)
      /\ Elems(Gone(k)) = {sleep_queue[i] : i \in 1 .. k}
      /\ Elems(sleep_queue) = Elems(Gone(k)) \cup Elems(Rest(k))
  BY <1>0, SplitElems
<1>7. \A t \in Tasks \ Elems(sleep_queue) : tk[t] = sleep_ticks[t]
  <2>1. CASE sleep_queue = <<>>
    BY <2>1 DEF DecrementHead
  <2>2. CASE sleep_queue # <<>>
    <3>1. sleep_queue[1] \in Elems(sleep_queue)
      <4>1. 1 \in 1 .. Len(sleep_queue)
        BY <1>0, <2>2
      <4> QED BY <1>0, <4>1, ElemsDef
    <3> QED BY <1>0, <2>2, <3>1 DEF DecrementHead, IInv, TypeOK
  <2> QED BY <2>1, <2>2
<1>8. \A t \in Tasks \ Elems(sleep_queue) : St(k)[t] = state[t]
  BY <1>6
<1> HIDE DEF Gone, Rest, St, tk
<1>9. PICK T : /\ Totals(T, sleep_queue', sleep_ticks')
               /\ SameSums(R, Rest(k), T, sleep_queue')
               /\ \A j \in 1 .. Len(sleep_queue') :
                    \/ sleep_queue'[j] \in Elems(Rest(k))
                    \/ /\ sleep_queue'[j] = running_task /\ St(k)[running_task] = "SLEEPING"
                       /\ T[j] >= tk[running_task]
  BY <1>5 DEF SleepersKept
<1>10. \A i \in 1 .. Len(sleep_queue) : S[i] \in Nat /\ owed[sleep_queue[i]] \in Nat
  BY <1>0, <1>2, ElemsDef DEF Totals
<1>11. ASSUME NEW j \in 1 .. Len(sleep_queue') PROVE owed'[sleep_queue'[j]] <= T[j]
  <2>0. T[j] \in Nat
    BY <1>0, <1>9 DEF Totals
  <2>1. CASE sleep_queue'[j] \in Elems(Rest(k))
    <3>1. PICK b \in 1 .. Len(Rest(k)) : Rest(k)[b] = sleep_queue'[j]
      BY <1>6, <2>1, ElemsDef
    <3>2. PICK i \in 1 .. Len(sleep_queue) : sleep_queue[i] = sleep_queue'[j]
      BY <1>0, <1>6, <2>1, ElemsDef
    <3>3. T[j] = R[b]
      BY <1>9, <3>1 DEF SameSums
    <3>4. R[b] = S[i] + d
      BY <1>5, <3>1, <3>2 DEF Ticked
    <3>5. /\ S[i] \in Nat /\ owed[sleep_queue[i]] \in Nat /\ owed[sleep_queue[i]] <= S[i]
          /\ sleep_queue[i] \in Elems(sleep_queue) /\ sleep_queue[i] \in Tasks
      BY <1>0, <1>2, <1>10, ElemsDef
    <3>6. d \in Int /\ d >= -1
      BY <1>0
    <3>7. owed'[sleep_queue[i]] = IF owed[sleep_queue[i]] > 0 THEN owed[sleep_queue[i]] - 1
                                  ELSE owed[sleep_queue[i]]
      BY <1>1, <3>5
    <3>8. owed'[sleep_queue[i]] <= S[i] + d
      <4>1. ASSUME NEW o \in Nat, NEW x \in Nat, o <= x, x + d \in Nat
            PROVE  (IF o > 0 THEN o - 1 ELSE o) <= x + d
        BY <3>6, <4>1
      <4> QED BY <2>0, <3>3, <3>4, <3>5, <3>7, <4>1
    <3> QED BY <3>2, <3>3, <3>4, <3>8
  <2>2. CASE /\ sleep_queue'[j] = running_task /\ St(k)[running_task] = "SLEEPING"
             /\ T[j] >= tk[running_task]
    <3>1. running_task \in Tasks \ Elems(sleep_queue)
      BY <1>0, <2>2, ElemsDef
    <3>2. state[running_task] = "SLEEPING" /\ tk[running_task] = sleep_ticks[running_task]
      BY <1>7, <1>8, <2>2, <3>1
    <3>3. Owes(running_task)
      BY <1>0, <3>1, <3>2 DEF SleepInv
    <3>4. /\ owed[running_task] <= sleep_ticks[running_task]
          /\ owed'[running_task] = owed[running_task]
      BY <1>0, <1>1, <3>1, <3>3 DEF Owes
    <3>5. owed[running_task] \in Nat /\ sleep_ticks[running_task] \in Nat
      BY <1>0, <3>1
    <3> QED BY <2>0, <2>2, <3>2, <3>4, <3>5
  <2> QED BY <1>9, <2>1, <2>2
<1>12. ASSUME NEW t \in Tasks \ Elems(sleep_queue'), state'[t] # "FREE" PROVE Owes(t)'
  <2>0. t \notin Elems(Rest(k)) /\ sleep_ticks'[t] = tk[t]
    BY <1>5, <1>12 DEF SleepersKept
  <2>1. CASE t \in Elems(sleep_queue)
    <3>1. PICK i \in 1 .. k : t = sleep_queue[i]
      BY <1>6, <2>0, <2>1
    <3>2. i \in 1 .. Len(sleep_queue) /\ S[i] + d = 0
      BY <1>0, <1>5, <3>1 DEF Ticked
    <3>3. S[i] <= 1
      BY <1>0, <1>10, <3>2
    <3>4. owed[t] \in Nat /\ owed[t] <= 1
      BY <1>2, <1>10, <3>1, <3>2, <3>3
    <3>5. owed'[t] = 0
      BY <1>1, <2>1, <3>4
    <3> QED BY <3>5 DEF Owes
  <2>2. CASE t \notin Elems(sleep_queue)
    <3>1. \/ state'[t] \in {"FREE", state[t]}
          \/ state[t] \in {"READY", "RUNNING"} /\ state'[t] \in {"READY", "RUNNING"}
      BY <1>5, <1>8, <2>2 DEF StatesKept
    <3>2. state[t] # "FREE"
      BY <1>12, <3>1
    <3>3. Owes(t)
      BY <1>0, <2>2, <3>2 DEF SleepInv
    <3>4. owed'[t] = owed[t] /\ sleep_ticks'[t] = sleep_ticks[t]
      BY <1>1, <1>7, <2>0, <2>2
    <3>5. state[t] = "SLEEPING" => state'[t] = "SLEEPING"
      BY <1>12, <3>1
    <3> QED BY <1>0, <3>3, <3>4, <3>5 DEF Owes
  <2> QED BY <2>1, <2>2
<1>13. ASSUME NEW t \in Tasks \ Elems(sleep_queue'), state'[t] = "SLEEPING" PROVE FALSE
  <2>1. St(k)[t] = "SLEEPING"
    BY <1>5, <1>13 DEF StatesKept
  <2>2. t \notin Elems(Rest(k))
    BY <1>5, <1>13 DEF SleepersKept
  <2>3. t \notin Elems(Gone(k))
    BY <2>1 DEF St
  <2>4. t \notin Elems(sleep_queue) /\ state[t] = "SLEEPING"
    BY <1>6, <1>8, <2>1, <2>2, <2>3
  <2>5. t = running_task
    BY <1>0, <2>4 DEF SleepInv
  <2> QED BY <1>5, <1>13, <2>1, <2>5 DEF SleepersKept
<1> QED BY <1>9, <1>11, <1>12, <1>13

\* So does the switch that ends a call, whose task has owed nothing or is now asleep.
LEMMA YieldCovered ==
    ASSUME IInv, IInv', SleepInv, NEW t \in Tasks, sched_yield(t)
    PROVE  SleepInv'
<1> SUFFICES ASSUME panic' = "none"
             PROVE  /\ \E T : /\ Totals(T, sleep_queue', sleep_ticks')
                              /\ \A j \in 1 .. Len(sleep_queue') : owed'[sleep_queue'[j]] <= T[j]
                    /\ \A u \in Tasks \ Elems(sleep_queue') :
                          /\ state'[u] # "FREE" => Owes(u)'
                          /\ state'[u] # "SLEEPING"
  BY DEF SleepInv
<1>0. /\ panic = "none" /\ running_task = t /\ pc[t] \in {"code", "parked", "exiting"}
      /\ switch_task(ready_queue, ready_queue_tail, sleep_queue, state, sleep_ticks)
      /\ owed' = owed /\ pc' = [pc EXCEPT ![t] = "code"]
  BY DEF sched_yield, At, Goto, ghosts
<1>1. /\ sleep_queue \in Seq(Tasks) /\ sleep_queue' \in Seq(Tasks)
      /\ pc \in [Tasks -> Places]
      /\ \A u \in Tasks : sleep_ticks[u] \in Nat /\ owed[u] \in Nat
      /\ t \notin Elems(sleep_queue)
  <2>1. t \notin Elems(sleep_queue)
    BY <1>0 DEF IInv, OneQueue
  <2>2. /\ sleep_queue \in Seq(Tasks) /\ pc \in [Tasks -> Places]
        /\ sleep_ticks \in [Tasks -> Word] /\ owed \in [Tasks -> Nat]
    BY DEF IInv, TypeOK
  <2>3. sleep_queue' \in Seq(Tasks)
    BY DEF IInv, TypeOK
  <2>4. \A x \in Word : x \in Nat
    BY ClockAssumption DEF Word
  <2>5. \A u \in Tasks : sleep_ticks[u] \in Nat /\ owed[u] \in Nat
    BY <2>2, <2>4
  <2> QED BY <2>1, <2>2, <2>3, <2>5
<1>2. /\ Types(ready_queue, ready_queue_tail, sleep_queue, state, sleep_ticks)
      /\ Switchable(ready_queue, sleep_queue, state)
  BY YieldSwitchable
<1>3. PICK S : /\ Totals(S, sleep_queue, sleep_ticks)
               /\ \A i \in 1 .. Len(sleep_queue) : owed[sleep_queue[i]] <= S[i]
  BY <1>0 DEF SleepInv
<1>4. SleepersKept(S, sleep_queue, state, sleep_ticks) /\ StatesKept(state)
  BY <1>0, <1>2, <1>3, SwitchSleepers
<1>5. PICK T : /\ Totals(T, sleep_queue', sleep_ticks')
               /\ SameSums(S, sleep_queue, T, sleep_queue')
               /\ \A j \in 1 .. Len(sleep_queue') :
                    \/ sleep_queue'[j] \in Elems(sleep_queue)
                    \/ /\ sleep_queue'[j] = running_task /\ state[running_task] = "SLEEPING"
                       /\ T[j] >= sleep_ticks[running_task]
  BY <1>4 DEF SleepersKept
<1>6. state[t] # "FREE" /\ Owes(t)
  <2>1. state[t] # "FREE"
    BY <1>0 DEF IInv, OneQueue
  <2> QED BY <1>0, <1>1, <2>1 DEF SleepInv
<1>7. ASSUME NEW j \in 1 .. Len(sleep_queue') PROVE owed'[sleep_queue'[j]] <= T[j]
  <2>1. CASE sleep_queue'[j] \in Elems(sleep_queue)
    <3>1. PICK i \in 1 .. Len(sleep_queue) : sleep_queue[i] = sleep_queue'[j]
      BY <1>1, <2>1, ElemsDef
    <3>2. T[j] = S[i]
      BY <1>5, <3>1 DEF SameSums
    <3> QED BY <1>0, <1>3, <3>1, <3>2
  <2>2. CASE sleep_queue'[j] = t /\ T[j] >= sleep_ticks[t]
    <3>1. owed[t] <= sleep_ticks[t] /\ owed[t] \in Nat /\ sleep_ticks[t] \in Nat
      BY <1>1, <1>6 DEF Owes
    <3>2. T[j] \in Nat
      BY <1>1, <1>5 DEF Totals
    <3> QED BY <1>0, <2>2, <3>1, <3>2
  <2> QED BY <1>0, <1>5, <2>1, <2>2
<1>9. ASSUME NEW u \in Tasks \ Elems(sleep_queue'), state'[u] = "SLEEPING" PROVE FALSE
  <2>1. state[u] = "SLEEPING"
    BY <1>4, <1>9 DEF StatesKept
  <2>2. u \notin Elems(sleep_queue)
    BY <1>4, <1>9 DEF SleepersKept
  <2>3. u = running_task
    BY <1>0, <2>1, <2>2 DEF SleepInv
  <2> QED BY <1>4, <1>9, <2>1, <2>3 DEF SleepersKept
<1>8. ASSUME NEW u \in Tasks \ Elems(sleep_queue'), state'[u] # "FREE" PROVE Owes(u)'
  <2>0. u \notin Elems(sleep_queue) /\ sleep_ticks'[u] = sleep_ticks[u]
    BY <1>4, <1>8 DEF SleepersKept
  <2>1. /\ \/ state'[u] \in {"FREE", state[u]}
           \/ state[u] \in {"READY", "RUNNING"} /\ state'[u] \in {"READY", "RUNNING"}
        /\ running_task' \in Tasks /\ state'[running_task'] = "RUNNING"
    BY <1>4 DEF StatesKept
  <2>2. state[u] # "FREE" /\ (state[u] = "SLEEPING" => state'[u] = "SLEEPING")
    BY <1>8, <2>1
  <2>3. Owes(u)
    BY <1>0, <2>0, <2>2 DEF SleepInv
  <2>4. state'[u] # "SLEEPING"
    BY <1>8, <1>9
  <2>5. CASE u = t
    <3>1. owed[t] = 0
      BY <1>0, <2>2, <2>3, <2>4, <2>5 DEF Owes
    <3> QED BY <1>0, <2>5, <3>1 DEF Owes
  <2>6. CASE u # t
    <3>1. pc'[u] = pc[u] /\ owed'[u] = owed[u]
      BY <1>0, <1>1, <2>6
    <3> QED BY <2>0, <2>2, <2>3, <3>1 DEF Owes
  <2> QED BY <2>5, <2>6
<1> QED BY <1>5, <1>7, <1>8, <1>9

LEMMA StepSleep == SleepsFit /\ IInv /\ SleepInv /\ [Next]_vars => SleepInv'
<1> SUFFICES ASSUME SleepsFit, IInv, SleepInv, [Next]_vars PROVE SleepInv'
  OBVIOUS
<1>0. /\ IInv'
      /\ state \in [Tasks -> TaskStates] /\ pc \in [Tasks -> Places]
      /\ sleep_ticks \in [Tasks -> Word] /\ owed \in [Tasks -> Nat]
      /\ victim \in [Tasks -> Tasks \cup {NoTask}]
      /\ running_task \notin Elems(sleep_queue)
  <2>1. IInv'
    BY StepInv
  <2> QED BY <2>1, TasksAssumption DEF IInv, TypeOK, OneQueue
<1>1. CASE do_scheduling /\ ~NullTail
  BY <1>0, <1>1, TickCovered
<1>12. CASE NullTail
  BY <1>12 DEF NullTail, SleepInv
<1>2. ASSUME NEW t \in Tasks, sched_yield(t) PROVE SleepInv'
  BY <1>0, <1>2, YieldCovered
<1>3. ASSUME NEW t \in Tasks, NEW new \in Tasks, create_kernel_task(t, new) PROVE SleepInv'
  <2>1. new \notin Elems(sleep_queue) /\ panic = "none" /\ sleep_queue' = sleep_queue
        /\ running_task' = running_task /\ state'[new] = "READY"
    BY <1>0, <1>3 DEF create_kernel_task, At, IInv, OneQueue
  <2>2. owed'[new] = 0
    BY <1>0, <1>3 DEF create_kernel_task
  <2>3. \A u \in Tasks : u # new => /\ sleep_ticks'[u] = sleep_ticks[u] /\ owed'[u] = owed[u]
                                   /\ state'[u] = state[u]
                                   /\ (pc'[u] = pc[u] \/ pc[u] = "code")
    BY <1>0, <1>3 DEF create_kernel_task, At
  <2>4. ASSUME NEW u \in Tasks \ Elems(sleep_queue), state'[u] # "FREE" PROVE Owes(u)'
    <3>1. CASE u = new
      BY <2>2, <3>1 DEF Owes
    <3>2. CASE u # new
      <4>1. Owes(u) /\ state'[u] = state[u] /\ sleep_ticks'[u] = sleep_ticks[u] /\ owed'[u] = owed[u]
        BY <2>1, <2>3, <2>4, <3>2 DEF SleepInv
      <4>2. pc'[u] = pc[u] \/ pc[u] = "code"
        BY <2>3, <3>2
      <4> QED BY <4>1, <4>2 DEF Owes
    <3> QED BY <3>1, <3>2
  <2>5. \A u \in Tasks : state'[u] = "SLEEPING" => state[u] = "SLEEPING"
    BY <2>1, <2>3
  <2>6. \A u \in Tasks : u # new => sleep_ticks'[u] = sleep_ticks[u] /\ owed'[u] = owed[u]
    BY <2>3
  <2>7. \A u \in Tasks \ Elems(sleep_queue) : state'[u] # "FREE" => Owes(u)'
    BY <2>4
  <2> QED BY <2>1, <2>5, <2>6, <2>7, StillCovered
<1>4. ASSUME NEW t \in Tasks, NEW ticks, NEW asked, Arm(t, ticks, asked), asked <= ticks
      PROVE SleepInv'
  <2>1. /\ panic = "none" /\ t \notin Elems(sleep_queue) /\ sleep_queue' = sleep_queue
        /\ state' = state /\ running_task' = running_task
    BY <1>0, <1>4 DEF Arm, At
  <2>2. sleep_ticks'[t] = ticks /\ owed'[t] = asked /\ pc'[t] = "armed"
    BY <1>0, <1>4 DEF Arm, Goto
  <2>3. \A u \in Tasks : u # t => /\ sleep_ticks'[u] = sleep_ticks[u] /\ owed'[u] = owed[u]
                                 /\ pc'[u] = pc[u]
    BY <1>0, <1>4 DEF Arm, Goto
  <2>4. \A u \in Tasks \ Elems(sleep_queue) : state'[u] # "FREE" => Owes(u)'
    BY <1>4, <2>1, <2>2, <2>3 DEF SleepInv, Owes
  <2> QED BY <2>1, <2>3, <2>4, StillCovered
<1>5. ASSUME NEW t \in Tasks, NEW s \in Seconds, sleep(t, s) PROVE SleepInv'
  <2>1. HZ * s + 1 <= (HZ * s + 1) % M
    <3>1. HZ * s + 1 \in Nat
      BY ClockAssumption
    <3> QED BY <3>1, TicksFit
  <2> QED BY <1>4, <1>5, <2>1 DEF sleep
<1>6. ASSUME NEW t \in Tasks, NEW m \in Millis, usleep(t, m) PROVE SleepInv'
  <2>1. (HZ * m) \div MS + 1 <= (((HZ * m) % M) \div MS + 1) % M
    <3>1. (HZ * m) \div MS + 1 \in Int
      <4>1. HZ * m \in Nat
        BY ClockAssumption
      <4> QED BY <4>1, ClockAssumption
    <3> QED BY <3>1, TicksFit
  <2> QED BY <1>4, <1>6, <2>1 DEF usleep
<1>7. ASSUME NEW t \in Tasks, Park(t) PROVE SleepInv'
  <2>1. /\ panic = "none" /\ t \notin Elems(sleep_queue) /\ UNCHANGED <<sleep_queue, sleep_ticks, owed, running_task>>
        /\ running_task = t /\ pc[t] = "armed"
    BY <1>0, <1>7 DEF Park, At, ghosts
  <2>2. state[t] # "FREE" /\ state'[t] = "SLEEPING" /\ pc'[t] = "parked"
    BY <1>0, <1>7, <2>1 DEF Park, Goto, IInv, OneQueue
  <2>3. \A u \in Tasks : u # t => pc'[u] = pc[u] /\ state'[u] = state[u]
    BY <1>0, <1>7 DEF Park, Goto
  <2>4. \A u \in Tasks \ Elems(sleep_queue) : state'[u] # "FREE" => Owes(u)'
    BY <2>1, <2>2, <2>3 DEF SleepInv, Owes
  <2> QED BY <2>1, <2>2, <2>3, <2>4, StillCovered
<1>8. ASSUME NEW t \in Tasks, sched_kill(t) PROVE SleepInv'
  <2>1. /\ panic = "none" /\ t \notin Elems(sleep_queue) /\ UNCHANGED <<sleep_queue, sleep_ticks, owed, running_task>>
        /\ running_task = t /\ pc[t] = "code"
    BY <1>0, <1>8 DEF sched_kill, At, ghosts
  <2>2. state[t] # "FREE"
    BY <1>0, <2>1 DEF IInv, OneQueue
  <2>3. \A u \in Tasks : u # t => pc'[u] = pc[u] /\ state'[u] = state[u]
    BY <1>0, <1>8 DEF sched_kill, Goto
  <2>4. \A u \in Tasks \ Elems(sleep_queue) : state'[u] # "FREE" => Owes(u)'
    BY <2>1, <2>2, <2>3 DEF SleepInv, Owes
  <2> QED BY <2>1, <2>2, <2>3, <2>4, StillCovered
<1>9. ASSUME NEW t \in Tasks, NEW found \in Killable, KillFind(t, found) PROVE SleepInv'
  <2>1. /\ panic = "none" /\ t \notin Elems(sleep_queue)
        /\ UNCHANGED <<sleep_queue, sleep_ticks, owed, state, running_task>>
        /\ running_task = t /\ pc[t] = "code"
    BY <1>0, <1>9 DEF KillFind, At, ghosts
  <2>3. \A u \in Tasks : u # t => pc'[u] = pc[u]
    BY <1>0, <1>9 DEF KillFind, Goto
  <2>4. \A u \in Tasks \ Elems(sleep_queue) : state'[u] # "FREE" => Owes(u)'
    BY <2>1, <2>3 DEF SleepInv, Owes
  <2> QED BY <2>1, <2>4, StillCovered
<1>10. ASSUME NEW t \in Tasks, KillMark(t) PROVE SleepInv'
  <2>1. /\ panic = "none" /\ t \notin Elems(sleep_queue) /\ UNCHANGED <<sleep_queue, sleep_ticks, owed, running_task>>
        /\ running_task = t /\ pc[t] = "killing"
    BY <1>0, <1>10 DEF KillMark, At, ghosts
  <2>2. \A u \in Tasks : /\ state'[u] # "FREE" => state[u] # "FREE"
                         /\ state'[u] # state[u] => u = victim[t]
    BY <1>0, <1>10 DEF KillMark
  <2>3. \A u \in Tasks : u # t => pc'[u] = pc[u]
    BY <1>0, <1>10 DEF KillMark, Goto
  <2>4. \A u \in Tasks \ Elems(sleep_queue) : state[u] = "SLEEPING" => u = t
    BY <2>1 DEF SleepInv
  <2>5. \A u \in Tasks \ Elems(sleep_queue) : state'[u] # "FREE" => Owes(u)'
    BY <2>1, <2>2, <2>3, <2>4 DEF SleepInv, Owes
  <2>6. \A u \in Tasks : state'[u] = "SLEEPING" => state[u] = "SLEEPING"
    BY <1>0, <1>10 DEF KillMark
  <2> QED BY <2>1, <2>5, <2>6, StillCovered
<1>13. ASSUME NEW t \in Tasks, UNCHANGED <<running_task, sleep_queue, sleep_ticks, state, owed>>,
              At(t, "test") \/ At(t, "set_head") \/ At(t, "load") \/ At(t, "link") \/ At(t, "set_tail"),
              \A u \in Tasks : u # t => pc'[u] = pc[u]
       PROVE  SleepInv'
  <2>1. panic = "none" /\ t \notin Elems(sleep_queue) /\ pc[t] \notin {"armed", "parked"}
    BY <1>0, <1>13 DEF At
  <2>2. \A u \in Tasks \ Elems(sleep_queue) : state'[u] # "FREE" => Owes(u)'
    BY <1>13, <2>1 DEF SleepInv, Owes
  <2> QED BY <1>13, <2>1, <2>2, StillCovered
<1>14. ASSUME NEW t \in Tasks, TestEmpty(t) PROVE SleepInv'
  BY <1>0, <1>13, <1>14 DEF TestEmpty, Goto, ghosts
<1>15. ASSUME NEW t \in Tasks, SetHead(t) PROVE SleepInv'
  BY <1>0, <1>13, <1>15 DEF SetHead, Goto, ghosts
<1>16. ASSUME NEW t \in Tasks, LoadTail(t) PROVE SleepInv'
  BY <1>0, <1>13, <1>16 DEF LoadTail, Goto, ghosts
<1>17. ASSUME NEW t \in Tasks, LinkTail(t) PROVE SleepInv'
  BY <1>0, <1>13, <1>17 DEF LinkTail, Goto, ghosts
<1>18. ASSUME NEW t \in Tasks, SetTail(t) PROVE SleepInv'
  BY <1>0, <1>13, <1>18 DEF SetTail, Goto, ghosts
<1>11. CASE UNCHANGED vars
  BY <1>11 DEF vars, SleepInv, Owes, ghosts
<1> QED BY <1>1, <1>2, <1>3, <1>5, <1>6, <1>7, <1>8, <1>9, <1>10, <1>11, <1>12,
          <1>14, <1>15, <1>16, <1>17, <1>18 DEF Next

LEMMA InitSleep == Init => SleepInv
<1> SUFFICES ASSUME Init PROVE SleepInv
  OBVIOUS
<1>1. sleep_queue = <<>> /\ sleep_ticks \in [Tasks -> Word] /\ sleep_queue \in Seq(Tasks)
  BY InitInv DEF Init, IInv, TypeOK
<1>2. PICK S : Totals(S, sleep_queue, sleep_ticks)
  BY <1>1, HasTotals
<1>3. \A i \in 1 .. Len(sleep_queue) : owed[sleep_queue[i]] <= S[i]
  BY <1>1
<1>4. \A t \in Tasks : owed[t] = 0
  BY DEF Init
<1>5. \A t \in Tasks : state[t] # "SLEEPING"
  BY DEF Init
<1> QED BY <1>2, <1>3, <1>4, <1>5 DEF SleepInv, Owes

\* Nobody returns from sleep() or usleep() (sched.c:402-418) before the ticks asked for have
\* passed, whatever the others do and however the deltas wrap, as long as the ticks asked
\* for fit in an unsigned int.
THEOREM SchedNeverEarly ==
    ASSUME SleepsFit
    PROVE  Spec => []NeverEarly
<1>1. IInv /\ SleepInv /\ [Next]_vars => SleepInv'
  BY StepSleep
<1>2. IInv /\ [Next]_vars => IInv'
  BY StepInv
<1>3. SleepInv => NeverEarly
  BY DEF SleepInv, NeverEarly, Owes
<1> QED BY InitInv, InitSleep, <1>1, <1>2, <1>3, PTL DEF Spec
=============================================================================
