------------------------------- MODULE Sched -------------------------------
(***************************************************************************)
(* The scheduler of kernel/sched.c: the running task, the ready queue, the *)
(* delta-coded sleep queue, and the calls a task makes on them             *)
(* (create_kernel_task, sleep, usleep, sched_yield, sched_kill, kill),     *)
(* interleaved with the timer tick (do_scheduling).                        *)
(*                                                                         *)
(* switch_task runs with interrupts disabled and do_scheduling runs in the *)
(* timer ISR, so each is one step.  The calls are not atomic: a tick may   *)
(* land between any two of their accesses, and every such place is a value *)
(* of pc.  That goes for enqueue_ready_task too when create_kernel_task    *)
(* calls it, with interrupts enabled: the ready queue is therefore what    *)
(* the code reaches from ready_queue_head, and ready_queue_tail is kept    *)
(* beside it, since the two part when a tick lands between the stores.     *)
(*                                                                         *)
(* A task is a task_t structure: its slot is FREE until new_task allocates *)
(* it and FREE again after free_task.                                      *)
(***************************************************************************)
EXTENDS Integers, Sequences

CONSTANTS
    Tasks,     \* the task_t structures
    Idle,      \* the one sched_init makes: kmain's idle loop runs on it
    NoTask,    \* a null task_t*
    Killable,  \* the tasks whose pid may be passed to kill()
    Seconds,   \* the arguments of sleep()
    Millis,    \* the arguments of usleep()
    HZ,        \* KERNEL_SCHED_HZ
    MS,        \* milliseconds in a second: the divisor 1000 in usleep()
    M          \* 2^32, the modulus of unsigned int

ASSUME TasksAssumption == Idle \in Tasks /\ NoTask \notin Tasks /\ Killable \subseteq Tasks
ASSUME ClockAssumption == /\ HZ \in Nat \ {0} /\ MS \in Nat \ {0} /\ M \in Nat \ {0}
                          /\ Seconds \subseteq Nat /\ Millis \subseteq Nat
\* HZ and M are even, so HZ * seconds + 1 is odd and never wraps to 0.
ASSUME NoZeroSleep == \A s \in Seconds : (HZ * s + 1) % M # 0

VARIABLES
    running_task,  \* whose stack and registers the CPU is using
    ready_queue,   \* the tasks reached from ready_queue_head through next_task
    ready_queue_tail,
    sleep_queue,   \* sleep_queue_head .. sleep_queue_tail
    state,         \* task_t.state, and FREE
    sleep_ticks,   \* task_t.sleep_ticks: a total before enqueue_sleep_task, then a delta
    pc,            \* where each task is in the call it is making
    victim,        \* the local t of kill(), kept across a preemption
    ktask,         \* the local ktask of create_kernel_task
    last,          \* the register enqueue_ready_task loads ready_queue_tail into (line 79)
    owed,          \* ghost: ticks the sleep() in progress still has to wait
    leaked,        \* ghost: tasks whose creator was destroyed before it linked them
    torn,          \* ghost: a tick has landed inside create_kernel_task's enqueue_ready_task
    panic          \* why the kernel stopped, or "none"

ready == <<ready_queue, ready_queue_tail>>
locals == <<victim, ktask, last>>
ghosts == <<owed, leaked, torn>>
vars == <<running_task, ready, sleep_queue, state, sleep_ticks, pc, locals, ghosts, panic>>

Word == 0 .. M - 1
TaskStates == {"FREE", "READY", "RUNNING", "SLEEPING", "DESTROY"}
\* Inside enqueue_ready_task, after its test and before its last store.
Linking == {"set_head", "load", "link", "set_tail"}
Places == {"code", "armed", "parked", "exiting", "killing", "test"} \cup Linking
\* Page faults by a null pointer, and a store into memory that is not the list's.
Panics == {"none", "empty_ready_queue", "null_insert", "null_tail", "wild_store"}
Elems(q) == {q[i] : i \in DOMAIN q}

-----------------------------------------------------------------------------
(* The ready queue. *)

UpTo(q, t) == SubSeq(q, 1, CHOOSE i \in DOMAIN q : q[i] = t)

\* What is reached from the head once the tasks of ts have been linked behind tail, one
\* after the other. What hung behind tail is cut off; a tail that is not reached from
\* the head takes ts out of reach with it.
Linked(rq, tail, ts) ==
    CASE ts = <<>> \/ tail = NoTask -> rq \o ts
      [] ts # <<>> /\ tail \in Elems(rq) -> UpTo(rq, tail) \o ts
      [] OTHER -> rq

TailAfter(tail, ts) == IF ts = <<>> THEN tail ELSE ts[Len(ts)]

-----------------------------------------------------------------------------
(* The sleep queue. *)

\* 'sum' of enqueue_sleep_task after the i-th turn of its loop.
SumThrough(sq, tk, i) ==
    LET sum[j \in 0 .. i] == IF j = 0 THEN 0 ELSE (sum[j - 1] + tk[sq[j]]) % M
    IN  sum[i]

\* The test of the loop on the i-th task of the queue.
GoesBefore(sum, ticks, target) == sum < target /\ (sum + ticks) % M > target

\* i is the first turn on which the test holds.
InsertsAt(sq, tk, target, i) ==
    /\ GoesBefore(SumThrough(sq, tk, i - 1), tk[sq[i]], target)
    /\ \A j \in 1 .. i - 1 : ~GoesBefore(SumThrough(sq, tk, j - 1), tk[sq[j]], target)

InsertBefore(q, i, t) == SubSeq(q, 1, i - 1) \o <<t>> \o SubSeq(q, i, Len(q))

\* dequeue_sleep_task succeeds k times in a row and then fails.
Expired(sq, tk, k) ==
    /\ \A i \in 1 .. k : tk[sq[i]] = 0
    /\ k < Len(sq) => tk[sq[k + 1]] # 0

\* Mutant: the head's delta is not decremented.
MutDecrementHead(sq, tk) == tk

\* update_sleep_queue's decrement of the head's delta.
DecrementHead(sq, tk) ==
    IF sq = <<>> THEN tk ELSE [tk EXCEPT ![sq[1]] = (@ - 1) % M]

-----------------------------------------------------------------------------
(* switch_task, given the queues, states and ticks it starts from.         *)

\* x->next_task = y with x null: page_fault_handler stops the kernel.
NullInsert(rq, tail, sq, st, tk) ==
    /\ panic' = "null_insert"
    /\ ready_queue' = rq
    /\ ready_queue_tail' = tail
    /\ sleep_queue' = sq
    /\ state' = st
    /\ sleep_ticks' = tk
    /\ UNCHANGED running_task

\* ready_queue_tail->next_task = t with a null tail, likewise. The kernel is left as it
\* was: what a tick did before the fault is of no more use to anybody.
NullTail ==
    /\ panic' = "null_tail"
    /\ UNCHANGED <<running_task, ready, sleep_queue, state, sleep_ticks>>

\* free_task on every task of gone.
Destroyed(st, gone) == [t \in Tasks |-> IF t \in gone THEN "FREE" ELSE st[t]]

\* Pop tasks, freeing the ones marked DESTROY, until one can run. (Nothing is reached
\* behind tail here: the switch has put a task there, or none was being created.)
get_next_ready_task(rq, tail, sq, st, tk) ==
    \/ \E i \in 1 .. Len(rq) :
         /\ st[rq[i]] # "DESTROY"
         /\ \A j \in 1 .. i - 1 : st[rq[j]] = "DESTROY"
         /\ running_task' = rq[i]
         /\ ready_queue' = SubSeq(rq, i + 1, Len(rq))
         /\ ready_queue_tail' = IF tail = rq[i] THEN NoTask ELSE tail
         /\ state' = [Destroyed(st, {rq[j] : j \in 1 .. i - 1}) EXCEPT ![rq[i]] = "RUNNING"]
         /\ sleep_queue' = sq
         /\ sleep_ticks' = tk
         /\ panic' = panic
    \/ /\ \A i \in 1 .. Len(rq) : st[rq[i]] = "DESTROY"
       /\ running_task' = NoTask
       /\ ready_queue' = <<>>
       /\ ready_queue_tail' = IF tail \in Elems(rq) THEN NoTask ELSE tail
       /\ state' = Destroyed(st, Elems(rq))
       /\ sleep_queue' = sq
       /\ sleep_ticks' = tk
       /\ panic' = "empty_ready_queue"

\* Mutant: the task after the new one keeps its delta.
MutInsertSleeper(y, rq, tail, sq, st, tk) ==
    \E i \in 1 .. Len(sq), sum \in Word :
        /\ InsertsAt(sq, tk, tk[y], i)
        /\ sum = SumThrough(sq, tk, i - 1)
        /\ \/ i = 1 /\ NullInsert(rq, tail, sq, st, tk)
           \/ /\ i > 1
              /\ get_next_ready_task(rq, tail, InsertBefore(sq, i, y), st,
                                     [tk EXCEPT ![y] = (@ - sum) % M])

\* The insertion between x and z: x is null when z is the head.
InsertSleeper(y, rq, tail, sq, st, tk) ==
    \E i \in 1 .. Len(sq), sum \in Word :
        /\ InsertsAt(sq, tk, tk[y], i)
        /\ sum = SumThrough(sq, tk, i - 1)
        /\ \/ i = 1 /\ NullInsert(rq, tail, sq, st, tk)
           \/ /\ i > 1
              /\ get_next_ready_task(rq, tail, InsertBefore(sq, i, y), st,
                    [tk EXCEPT ![y] = (@ - sum) % M,
                               ![sq[i]] = (@ - (tk[y] - sum)) % M])

\* Mutant: sleep_ticks is signed.
MutAppendSleeper(y, rq, tail, sq, st, tk) ==
    \E sum \in Word :
        /\ sq # <<>>
        /\ \A i \in 1 .. Len(sq) : ~InsertsAt(sq, tk, tk[y], i)
        /\ sum = SumThrough(sq, tk, Len(sq))
        /\ get_next_ready_task(rq, tail, Append(sq, y), st, [tk EXCEPT ![y] = @ - sum])

AppendSleeper(y, rq, tail, sq, st, tk) ==
    \E sum \in Word :
        /\ sq # <<>>
        /\ \A i \in 1 .. Len(sq) : ~InsertsAt(sq, tk, tk[y], i)
        /\ sum = SumThrough(sq, tk, Len(sq))
        /\ get_next_ready_task(rq, tail, Append(sq, y), st, [tk EXCEPT ![y] = (@ - sum) % M])

enqueue_sleep_task(y, rq, tail, sq, st, tk) ==
    \/ sq = <<>> /\ get_next_ready_task(rq, tail, <<y>>, st, tk)
    \/ InsertSleeper(y, rq, tail, sq, st, tk)
    \/ AppendSleeper(y, rq, tail, sq, st, tk)

\* The running task goes behind the tail, in this state.
Requeue(rq, tail, sq, st, tk, v) ==
    get_next_ready_task(Linked(rq, tail, <<running_task>>), running_task, sq,
                        [st EXCEPT ![running_task] = v], tk)

\* Mutant: a missing break; a task going to sleep is put on the ready queue too.
MutSwitchFallThrough(rq, tail, sq, st, tk) ==
    LET t == running_task IN
    \/ st[t] = "RUNNING" /\ Requeue(rq, tail, sq, st, tk, "READY")
    \/ st[t] = "DESTROY" /\ Requeue(rq, tail, sq, st, tk, "DESTROY")
    \/ st[t] = "SLEEPING" /\ enqueue_sleep_task(t, Append(rq, t), t, sq, st, tk)

\* Mutant: a destroyed task is freed at once.
MutSwitchFreesRunning(rq, tail, sq, st, tk) ==
    LET t == running_task IN
    \/ st[t] = "RUNNING" /\ Requeue(rq, tail, sq, st, tk, "READY")
    \/ st[t] = "DESTROY" /\ get_next_ready_task(rq, tail, sq, Destroyed(st, {t}), tk)
    \/ st[t] = "SLEEPING" /\ enqueue_sleep_task(t, rq, tail, sq, st, tk)

\* Mutant: the running task is put at the head of the ready queue.
MutSwitchAtHead(rq, tail, sq, st, tk) ==
    LET t == running_task IN
    \/ st[t] = "RUNNING" /\ get_next_ready_task(<<t>> \o rq, TailAfter(t, rq), sq, [st EXCEPT ![t] = "READY"], tk)
    \/ st[t] = "DESTROY" /\ Requeue(rq, tail, sq, st, tk, "DESTROY")
    \/ st[t] = "SLEEPING" /\ enqueue_sleep_task(t, rq, tail, sq, st, tk)

\* Mutant: the running task is not put back on the ready queue.
MutSwitchDropsRunning(rq, tail, sq, st, tk) ==
    LET t == running_task IN
    \/ st[t] = "RUNNING" /\ get_next_ready_task(rq, tail, sq, [st EXCEPT ![t] = "READY"], tk)
    \/ st[t] = "DESTROY" /\ Requeue(rq, tail, sq, st, tk, "DESTROY")
    \/ st[t] = "SLEEPING" /\ enqueue_sleep_task(t, rq, tail, sq, st, tk)

switch_task(rq, tail, sq, st, tk) ==
    \/ /\ st[running_task] = "RUNNING"
       /\ Requeue(rq, tail, sq, st, tk, "READY")
    \/ /\ st[running_task] = "DESTROY"
       /\ Requeue(rq, tail, sq, st, tk, "DESTROY")
    \/ /\ st[running_task] = "SLEEPING"
       /\ enqueue_sleep_task(running_task, rq, tail, sq, st, tk)

-----------------------------------------------------------------------------
Init ==
    /\ running_task = Idle
    /\ ready_queue = <<>> /\ ready_queue_tail = NoTask
    /\ sleep_queue = <<>>
    /\ state = [t \in Tasks |-> IF t = Idle THEN "RUNNING" ELSE "FREE"]
    /\ sleep_ticks = [t \in Tasks |-> 0]
    /\ pc = [t \in Tasks |-> "code"]
    /\ victim = [t \in Tasks |-> NoTask]
    /\ ktask = [t \in Tasks |-> NoTask]
    /\ last = [t \in Tasks |-> NoTask]
    /\ owed = [t \in Tasks |-> 0]
    /\ leaked = {}
    /\ torn = FALSE
    /\ panic = "none"

\* t is on the CPU, at this place of its code.
At(t, place) == panic = "none" /\ running_task = t /\ pc[t] = place

Goto(t, place) == pc' = [pc EXCEPT ![t] = place]

-----------------------------------------------------------------------------
(* create_kernel_task: new_task (which changes nothing when it fails), the *)
(* test of enqueue_ready_task, and each of its accesses of the pointers.   *)

create_kernel_task(t, new) ==
    /\ At(t, "code")
    /\ state[new] = "FREE"
    /\ state' = [state EXCEPT ![new] = "READY"]
    /\ sleep_ticks' = [sleep_ticks EXCEPT ![new] = 0]
    /\ pc' = [pc EXCEPT ![t] = "test", ![new] = "code"]
    /\ victim' = [victim EXCEPT ![new] = NoTask]
    /\ ktask' = [ktask EXCEPT ![t] = new, ![new] = NoTask]
    /\ last' = [last EXCEPT ![new] = NoTask]
    /\ owed' = [owed EXCEPT ![new] = 0]
    /\ leaked' = leaked \cup ({ktask[new]} \ {NoTask})
    /\ UNCHANGED <<running_task, ready, sleep_queue, torn, panic>>

\* Of the two pointers the second read decides: when a tick comes between the reads it
\* makes both null or none.
TestEmpty(t) ==
    /\ At(t, "test")
    /\ Goto(t, IF ready_queue = <<>> /\ ready_queue_tail = NoTask THEN "set_head" ELSE "load")
    /\ UNCHANGED <<running_task, ready, sleep_queue, state, sleep_ticks, locals, ghosts, panic>>

SetHead(t) ==
    /\ At(t, "set_head")
    /\ ready_queue' = <<ktask[t]>>
    /\ Goto(t, "set_tail")
    /\ UNCHANGED <<running_task, ready_queue_tail, sleep_queue, state, sleep_ticks, locals, ghosts, panic>>

LoadTail(t) ==
    /\ At(t, "load")
    /\ last' = [last EXCEPT ![t] = ready_queue_tail]
    /\ Goto(t, "link")
    /\ UNCHANGED <<running_task, ready, sleep_queue, state, sleep_ticks, victim, ktask, ghosts, panic>>

\* A task that had been last and has since gone to sleep, been destroyed or come to run
\* is written to all the same, which is the end of what is modelled; one that is on no
\* list takes the new task out of reach with it.
LinkTail(t) ==
    /\ At(t, "link")
    /\ \/ /\ last[t] \in Elems(ready_queue)
          /\ ready_queue' = UpTo(ready_queue, last[t]) \o <<ktask[t]>>
          /\ Goto(t, "set_tail")
          /\ UNCHANGED panic
       \/ /\ last[t] = NoTask
          /\ panic' = "null_tail"
          /\ UNCHANGED <<ready_queue, pc>>
       \/ /\ last[t] \in Elems(sleep_queue) \cup {t} \cup {u \in Tasks : state[u] = "FREE"}
          /\ panic' = "wild_store"
          /\ UNCHANGED <<ready_queue, pc>>
       \/ /\ last[t] \notin Elems(ready_queue) \cup Elems(sleep_queue) \cup {t, NoTask}
          /\ state[last[t]] # "FREE"
          /\ Goto(t, "set_tail")
          /\ UNCHANGED <<ready_queue, panic>>
    /\ UNCHANGED <<running_task, ready_queue_tail, sleep_queue, state, sleep_ticks, locals, ghosts>>

SetTail(t) ==
    /\ At(t, "set_tail")
    /\ ready_queue_tail' = ktask[t]
    /\ ktask' = [ktask EXCEPT ![t] = NoTask]
    /\ last' = [last EXCEPT ![t] = NoTask]
    /\ Goto(t, "code")
    /\ UNCHANGED <<running_task, ready_queue, sleep_queue, state, sleep_ticks, victim, ghosts, panic>>

-----------------------------------------------------------------------------
(* The other calls *)

\* The first store of sleep() and usleep(): ticks is what the unsigned
\* arithmetic gives, asked what the caller asked for.
Arm(t, ticks, asked) ==
    /\ At(t, "code")
    /\ t # Idle
    /\ sleep_ticks' = [sleep_ticks EXCEPT ![t] = ticks]
    /\ owed' = [owed EXCEPT ![t] = asked]
    /\ Goto(t, "armed")
    /\ UNCHANGED <<running_task, ready, sleep_queue, state, locals, leaked, torn, panic>>

\* Mutant: no extra tick for the part of a tick already gone.
MutSleep(t, seconds) == Arm(t, (HZ * seconds) % M, HZ * seconds + 1)

sleep(t, seconds) == Arm(t, (HZ * seconds + 1) % M, HZ * seconds + 1)

\* The product wraps before the division.
usleep(t, millis) ==
    Arm(t, (((HZ * millis) % M) \div MS + 1) % M, (HZ * millis) \div MS + 1)

\* Their second store.
Park(t) ==
    /\ At(t, "armed")
    /\ state' = [state EXCEPT ![t] = "SLEEPING"]
    /\ Goto(t, "parked")
    /\ UNCHANGED <<running_task, ready, sleep_queue, sleep_ticks, locals, ghosts, panic>>

\* sched_kill's store.
sched_kill(t) ==
    /\ At(t, "code")
    /\ t # Idle
    /\ state' = [state EXCEPT ![t] = "DESTROY"]
    /\ Goto(t, "exiting")
    /\ UNCHANGED <<running_task, ready, sleep_queue, sleep_ticks, locals, ghosts, panic>>

\* The call of switch_task that ends sleep, usleep, sched_kill, or is sched_yield.
sched_yield(t) ==
    /\ \E place \in {"code", "parked", "exiting"} : At(t, place)
    /\ switch_task(ready_queue, ready_queue_tail, sleep_queue, state, sleep_ticks)
    /\ Goto(t, "code")
    /\ UNCHANGED <<locals, ghosts>>

\* kill: find_task returns a pointer to a task it meets on its walk ...
KillFind(t, found) ==
    /\ At(t, "code")
    /\ t # Idle
    /\ found \in {t} \cup Elems(ready_queue) \cup Elems(sleep_queue)
    /\ victim' = [victim EXCEPT ![t] = found]
    /\ Goto(t, "killing")
    /\ UNCHANGED <<running_task, ready, sleep_queue, state, sleep_ticks, ktask, last, ghosts, panic>>

\* ... and the task_t it points to is marked, whoever's it is by now. In memory that is
\* free the mark may hit nothing, or what somebody else keeps there.
KillMark(t) ==
    /\ At(t, "killing")
    /\ \/ state[victim[t]] # "FREE" /\ state' = [state EXCEPT ![victim[t]] = "DESTROY"] /\ UNCHANGED panic
       \/ state[victim[t]] = "FREE" /\ UNCHANGED <<state, panic>>
       \/ state[victim[t]] = "FREE" /\ panic' = "wild_store" /\ UNCHANGED state
    /\ victim' = [victim EXCEPT ![t] = NoTask]
    /\ Goto(t, "code")
    /\ UNCHANGED <<running_task, ready, sleep_queue, sleep_ticks, ktask, last, ghosts>>

\* Only the head of the list is set: enqueue_ready_task writes through a null tail.
HeadOnly == ready_queue # <<>> /\ ready_queue_tail = NoTask

\* The timer ISR: update_sleep_queue wakes k tasks, then switch_task.
do_scheduling ==
    /\ panic = "none"
    /\ \/ HeadOnly /\ NullTail
       \/ /\ ~HeadOnly
          /\ \E k \in 0 .. Len(sleep_queue) :
               LET tk == DecrementHead(sleep_queue, sleep_ticks)
                   woken == SubSeq(sleep_queue, 1, k)
                   st == [t \in Tasks |-> IF t \in Elems(woken) THEN "READY" ELSE state[t]]
               IN  /\ Expired(sleep_queue, tk, k)
                   /\ switch_task(Linked(ready_queue, ready_queue_tail, woken),
                                  TailAfter(ready_queue_tail, woken),
                                  SubSeq(sleep_queue, k + 1, Len(sleep_queue)), st, tk)
    /\ owed' = [t \in Tasks |-> IF t \in Elems(sleep_queue) /\ owed[t] > 0
                                THEN owed[t] - 1 ELSE owed[t]]
    /\ torn' = (torn \/ pc[running_task] \in Linking)
    /\ UNCHANGED <<pc, locals, leaked>>

Next ==
    \/ do_scheduling
    \/ \E t \in Tasks :
         \/ \E new \in Tasks : create_kernel_task(t, new)
         \/ TestEmpty(t)
         \/ SetHead(t)
         \/ LoadTail(t)
         \/ LinkTail(t)
         \/ SetTail(t)
         \/ \E s \in Seconds : sleep(t, s)
         \/ \E m \in Millis : usleep(t, m)
         \/ Park(t)
         \/ sched_kill(t)
         \/ sched_yield(t)
         \/ \E found \in Killable : KillFind(t, found)
         \/ KillMark(t)

Spec == Init /\ [][Next]_vars

\* The timer is periodic and interrupts are enabled outside the handlers.
FairSpec == Spec /\ WF_vars(do_scheduling)

-----------------------------------------------------------------------------
(* Properties *)

\* Type invariant: what the scheduler's variables and the task_t fields hold.
TypeOK ==
    /\ running_task \in Tasks \cup {NoTask}
    /\ ready_queue \in Seq(Tasks) /\ ready_queue_tail \in Tasks \cup {NoTask}
    /\ sleep_queue \in Seq(Tasks)
    /\ state \in [Tasks -> TaskStates]
    /\ sleep_ticks \in [Tasks -> Word]
    /\ pc \in [Tasks -> Places]
    /\ {victim, ktask, last} \subseteq [Tasks -> Tasks \cup {NoTask}]
    /\ leaked \subseteq Tasks /\ torn \in BOOLEAN
    /\ owed \in [Tasks -> Nat]
    /\ panic \in Panics

Injective(q) == \A i, j \in 1 .. Len(q) : q[i] = q[j] => i = j

\* task_t has one next_task link, so a task may be on one list only, once: nobody is in
\* two places, everybody's state agrees with where it is, and switch_task's default case
\* (sched.c:245-247, "how did you reach here???") is never taken. And nobody is nowhere:
\* as long as no tick has landed inside create_kernel_task's enqueue_ready_task
\* (sched.c:376, interrupts enabled), every live task is the running one, or in the ready
\* queue, or in the sleep queue, or about to be linked by the task that made it, or was
\* so when that task was destroyed.
OneQueue ==
    /\ Injective(ready_queue)
    /\ Injective(sleep_queue)
    /\ \A t \in Elems(ready_queue) : /\ t # running_task
                                     /\ t \notin Elems(sleep_queue)
                                     /\ state[t] \in {"READY", "DESTROY"}
    /\ \A t \in Elems(sleep_queue) : /\ t # running_task
                                     /\ state[t] \in {"SLEEPING", "DESTROY"}
    /\ panic = "none" => running_task \in Tasks
    /\ running_task \in Tasks => state[running_task] \in {"RUNNING", "SLEEPING", "DESTROY"}
    /\ ~torn => \A t \in Tasks : state[t] # "FREE" =>
          t \in {running_task} \cup Elems(ready_queue) \cup Elems(sleep_queue)
                \cup {ktask[c] : c \in Tasks} \cup leaked

\* The kpanic of get_next_ready_task (sched.c:91) never fires as long as no tick has
\* landed inside create_kernel_task's enqueue_ready_task: switch_task finds a task to
\* run, because the idle task is never asleep or destroyed.
ReadyNeverEmpty == ~torn => panic # "empty_ready_queue"

\* sched.c:91, "ready queue should never be empty!", whatever the ticks do.
NeverEmpty == panic # "empty_ready_queue"

\* switch_task executes on the stack of the task it switches from, so the tasks it
\* frees on its way (sched.c:253-263) never include that one, as long as no tick has
\* landed inside create_kernel_task's enqueue_ready_task.
FreedStackNotInUse ==
    [][\A t \in Tasks : ~torn' /\ state[t] # "FREE" /\ state'[t] = "FREE" => t # running_task]_vars

\* sleep() and usleep() never return before the ticks asked for have passed.
NeverEarly ==
    panic = "none" => \A t \in Tasks \ Elems(sleep_queue) :
        state[t] # "FREE" /\ pc[t] = "code" => owed[t] = 0

\* The ticks until the i-th sleeper wakes, if nothing wraps.
Due(i) == SumThrough(sleep_queue, sleep_ticks, i)

\* Putting a task to sleep (sched.c:111-156) keeps the wake-up time of every task
\* already asleep, and a tick brings all of them one tick nearer.
OthersUndisturbed ==
    [][\E d \in {0, 1} :
         \A i \in DOMAIN sleep_queue, j \in DOMAIN sleep_queue' :
            sleep_queue[i] = sleep_queue'[j] => (Due(i) - Due(j)') % M = d]_vars

\* Under a periodic tick a task in the ready queue is switched to, or destroyed, unless
\* one of the ticks lands inside create_kernel_task's enqueue_ready_task.
ReadyRuns ==
    \A t \in Tasks : t \in Elems(ready_queue) ~>
        (running_task = t \/ state[t] = "FREE" \/ torn \/ panic # "none")

\* Under a periodic tick every sleeper leaves the sleep queue, however many others are
\* put to sleep in front of it, with the same exception.
SleeperWakes ==
    \A t \in Tasks : t \in Elems(sleep_queue) ~>
        (t \notin Elems(sleep_queue) \/ torn \/ panic # "none")

\* kill() marks a task, and create_kernel_task links one behind another, only while that
\* one is where it was found (sched.c:383-386 and 79 keep pointers across ticks).
NoWildStore == panic # "wild_store"

\* sched.c:126-127: the loop finds a task 'x' for 'y' to be inserted after.
NoNullInsert == panic # "null_insert"

\* sched.c:108-110: sleep_ticks is changed to a delta, so the deltas up to a sleeper
\* add up to the ticks it still has to wait.
DeltasAddUp ==
    \A i \in DOMAIN sleep_queue :
        LET total[j \in 0 .. i] == IF j = 0 THEN 0
                                   ELSE total[j - 1] + sleep_ticks[sleep_queue[j]]
        IN  total[i] = owed[sleep_queue[i]]

\* sched.c:251-252: a task marked for destruction is destroyed; no step takes the
\* mark off a sleeping task.
KillSticks ==
    [][\A t \in Elems(sleep_queue) :
         state[t] = "DESTROY" => state'[t] \in {"DESTROY", "FREE"}]_vars
=============================================================================
