------------------------------ MODULE OsKernel ------------------------------
(***************************************************************************)
(* The kernel uC/OS-II as the gateway uses it: ready list, wait lists,      *)
(* message queues, semaphores, delays with timeouts, the scheduler lock,    *)
(* the tick interrupt and the context switch by PendSV.                     *)
(*                                                                         *)
(* A critical section is one step.  Between two of them an interrupt may    *)
(* come: the Ethernet interrupt at any time, even inside the tick, because  *)
(* PendSV and SysTick have the lowest priority (os_cpu_a.asm:28); of these  *)
(* two PendSV goes first.  A task is its priority.                          *)
(***************************************************************************)
EXTENDS Integers, Sequences, FiniteSets

CONSTANTS
  Task,       \* priorities of the tasks, Idle too
  Idle,       \* OS_TASK_IDLE_PRIO, the lowest priority (the largest number)
  TcbList,    \* the other tasks in the order of OSTCBList
  Queue, Sem, \* the event control blocks
  Pends, Posts,   \* the events each task pends on, posts to
  Sleepers,   \* tasks that call OSTimeDly
  Lockers,    \* tasks that lock the scheduler (delay_us)
  Suspenders, \* tasks that suspend themselves
  IsrPosts,   \* events the Ethernet interrupt posts to
  Ticks,      \* timeouts and delays in use, in ticks; 0: no timeout
  QSize,      \* size of each queue
  SemStart,   \* first count of each semaphore
  MaxMsg,     \* bound: messages posted
  MaxSignal   \* bound: OSSemPost calls

Event == Queue \cup Sem
Worker == Task \ {Idle}

ASSUME KernelAssumption ==
  /\ Task \subseteq 0..63 /\ Idle \in Task /\ \A t \in Task : t <= Idle
  /\ TcbList \in Seq(Worker) /\ \A t \in Worker : \E i \in DOMAIN TcbList : TcbList[i] = t
  /\ Queue \cap Sem = {} /\ Event \cap {"rdy", "suspend", "none"} = {}
  /\ Pends \in [Worker -> SUBSET Event] /\ Posts \in [Worker -> SUBSET Event]
  /\ Sleepers \subseteq Worker /\ Lockers \subseteq Worker /\ Suspenders \subseteq Worker
  /\ IsrPosts \subseteq Event /\ Ticks \subseteq Nat
  /\ QSize \in Nat /\ SemStart \in Nat
  /\ MaxMsg \in Nat /\ MaxSignal \in Nat

-----------------------------------------------------------------------------
(* A list of tasks: OSRdyGrp with OSRdyTbl, OSEventGrp with OSEventTbl.     *)
(* Group y holds the priorities 8y .. 8y + 7.                               *)

Group == 0..7
List == [grp : SUBSET Group, tbl : [Group -> SUBSET Task]]
Y(t) == t \div 8                                    \* OSTCBY
Empty == [grp |-> {}, tbl |-> [y \in Group |-> {}]]
Member(l) == {t \in Task : t \in l.tbl[Y(t)]}

Put(l, t) == [grp |-> l.grp \cup {Y(t)}, tbl |-> [l.tbl EXCEPT ![Y(t)] = @ \cup {t}]]

(* Faulty variant: the bit of the group is cleared with the task's bit.     *)
RemoveGroup(l, t) ==
  [grp |-> l.grp \ {Y(t)}, tbl |-> [l.tbl EXCEPT ![Y(t)] = @ \ {t}]]

Remove(l, t) ==
  [grp |-> IF l.tbl[Y(t)] \subseteq {t} THEN l.grp \ {Y(t)} ELSE l.grp,
   tbl |-> [l.tbl EXCEPT ![Y(t)] = @ \ {t}]]

Least(S) == CHOOSE x \in S : \A y \in S : x <= y
UnMap(S) == IF S = {} THEN 0 ELSE Least(S)          \* OSUnMapTbl
First(l) ==
  LET y == UnMap(l.grp) IN IF l.tbl[y] = {} THEN 8 * y ELSE Least(l.tbl[y])

-----------------------------------------------------------------------------
VARIABLES
  rdy,        \* OSRdyGrp, OSRdyTbl
  wait,       \* wait list of each event
  q,          \* messages in each queue
  cnt,        \* OSEventCnt of each semaphore
  stat,       \* OSTCBStat: "rdy", "suspend" or the event pended on
  dly,        \* OSTCBDly
  statPend,   \* OSTCBStatPend
  msg,        \* OSTCBMsg, 0 for none
  pc, ev,     \* place of each task in the kernel, the event of its OSxxxPend
  cur,        \* OSTCBCur, OSPrioCur
  high,       \* OSTCBHighRdy, OSPrioHighRdy
  pendsv,     \* PendSV is pending
  lock,       \* OSLockNesting
  tick,       \* place in the TCB list of the tick interrupt, 0 when it is not active
  nmsg,       \* history: messages OSQPost took, by queue; they are numbered
  got,        \* history: messages that OSQPend returned, by queue
  nsig, ntake \* history: signals taken by OSSemPost, semaphores OSSemPend gave

lists == <<rdy, wait>>
events == <<q, cnt>>
tcb == <<stat, dly, statPend, msg>>
place == <<pc, ev>>
switch == <<cur, high, pendsv, lock, tick>>
hist == <<nmsg, got, nsig, ntake>>
vars == <<lists, events, tcb, place, switch, hist>>

Nesting == IF tick = 0 THEN 0 ELSE 1                \* OSIntNesting

Init ==  \* OSStart: every task created, none has run; PendSV loads the first
  /\ rdy = [grp |-> {Y(t) : t \in Task}, tbl |-> [y \in Group |-> {t \in Task : Y(t) = y}]]
  /\ wait = [e \in Event |-> Empty]
  /\ q = [e \in Queue |-> <<>>] /\ cnt = [e \in Sem |-> SemStart]
  /\ stat = [t \in Task |-> "rdy"] /\ dly = [t \in Task |-> 0]
  /\ statPend = [t \in Task |-> "ok"] /\ msg = [t \in Task |-> 0]
  /\ pc = [t \in Task |-> "run"] /\ ev = [t \in Task |-> "none"]
  /\ cur = First(rdy) /\ high = First(rdy) /\ pendsv = TRUE /\ lock = 0 /\ tick = 0
  /\ nmsg = [e \in Queue |-> 0] /\ got = [e \in Queue |-> <<>>]
  /\ nsig = [e \in Sem |-> 0] /\ ntake = [e \in Sem |-> 0]

-----------------------------------------------------------------------------
(* The scheduler.                                                           *)

(* OS_Sched, and the end of OSIntExit, with ready list r                    *)
Reschedule(r) ==
  IF lock = 0
    THEN high' = First(r) /\ pendsv' = (pendsv \/ First(r) # cur)
    ELSE UNCHANGED <<high, pendsv>>

PendSV ==
  /\ pendsv /\ tick = 0
  /\ cur' = high /\ pendsv' = FALSE
  /\ UNCHANGED <<lists, events, tcb, place, high, lock, tick, hist>>

Runs(t) == cur = t /\ ~pendsv /\ tick = 0

(* The call of OS_Sched at the end of a pend, post, delay or unlock         *)
Schedule(t) ==
  /\ Runs(t) /\ pc[t] \in {"pended", "posted"}
  /\ Reschedule(rdy)
  /\ pc' = [pc EXCEPT ![t] = IF pc[t] = "pended" THEN "resume" ELSE "run"]
  /\ UNCHANGED <<lists, events, tcb, ev, cur, lock, tick, hist>>

-----------------------------------------------------------------------------
(* OSQPend and OSSemPend.                                                   *)

Available(e) == IF e \in Queue THEN q[e] # <<>> ELSE cnt[e] > 0

Take(e) ==
  \/ /\ e \in Queue
     /\ q' = [q EXCEPT ![e] = Tail(@)] /\ got' = [got EXCEPT ![e] = Append(@, Head(q[e]))]
     /\ UNCHANGED <<cnt, ntake>>
  \/ /\ e \in Sem
     /\ cnt' = [cnt EXCEPT ![e] = @ - 1] /\ ntake' = [ntake EXCEPT ![e] = @ + 1]
     /\ UNCHANGED <<q, got>>

Enter(t) == Runs(t) /\ pc[t] = "run" /\ lock = 0

PendTakes(t, e) ==
  /\ Enter(t) /\ e \in Pends[t] /\ Available(e)
  /\ Take(e)
  /\ UNCHANGED <<lists, tcb, place, switch, nmsg, nsig>>

PendWaits(t, e, n) ==  \* with OS_EventTaskWait
  /\ Enter(t) /\ e \in Pends[t] /\ ~Available(e)
  /\ stat' = [stat EXCEPT ![t] = e] /\ statPend' = [statPend EXCEPT ![t] = "ok"]
  /\ dly' = [dly EXCEPT ![t] = n]
  /\ wait' = [wait EXCEPT ![e] = Put(@, t)] /\ rdy' = Remove(rdy, t)
  /\ pc' = [pc EXCEPT ![t] = "pended"] /\ ev' = [ev EXCEPT ![t] = e]
  /\ UNCHANGED <<events, msg, switch, hist>>

Return(t) ==
  /\ stat' = [stat EXCEPT ![t] = "rdy"] /\ statPend' = [statPend EXCEPT ![t] = "ok"]
  /\ msg' = [msg EXCEPT ![t] = IF ev[t] \in Queue THEN 0 ELSE @]
  /\ pc' = [pc EXCEPT ![t] = "run"] /\ ev' = [ev EXCEPT ![t] = "none"]
  /\ UNCHANGED <<rdy, events, dly, switch, nmsg, nsig>>

PendOk(t) ==
  /\ Runs(t) /\ pc[t] = "resume" /\ statPend[t] = "ok"
  /\ got' = IF ev[t] \in Queue THEN [got EXCEPT ![ev[t]] = Append(@, msg[t])] ELSE got
  /\ ntake' = IF ev[t] \in Sem THEN [ntake EXCEPT ![ev[t]] = @ + 1] ELSE ntake
  /\ wait' = wait
  /\ Return(t)

PendTimeout(t) ==
  /\ Runs(t) /\ pc[t] = "resume" /\ statPend[t] = "to"
  /\ wait' = [wait EXCEPT ![ev[t]] = Remove(@, t)]
  /\ UNCHANGED <<got, ntake>>
  /\ Return(t)

-----------------------------------------------------------------------------
(* OSQPost and OSSemPost.                                                   *)

Readied(t) == IF stat[t] = "suspend" THEN rdy ELSE Put(rdy, t)

(* Faulty variant: a task that has timed out keeps OS_STAT_PEND_TO.         *)
EventTaskRdyKeepsStatus(e, m) ==
  LET t == First(wait[e]) IN
  /\ dly' = [dly EXCEPT ![t] = 0] /\ msg' = [msg EXCEPT ![t] = m]
  /\ stat' = [stat EXCEPT ![t] = IF @ = e THEN "rdy" ELSE @]
  /\ statPend' = statPend
  /\ rdy' = Readied(t) /\ wait' = [wait EXCEPT ![e] = Remove(@, t)]

EventTaskRdy(e, m) ==  \* OS_EventTaskRdy
  LET t == First(wait[e]) IN
  /\ dly' = [dly EXCEPT ![t] = 0] /\ msg' = [msg EXCEPT ![t] = m]
  /\ stat' = [stat EXCEPT ![t] = IF @ = e THEN "rdy" ELSE @]
  /\ statPend' = [statPend EXCEPT ![t] = "ok"]
  /\ rdy' = Readied(t) /\ wait' = [wait EXCEPT ![e] = Remove(@, t)]

Waiting(e) == wait[e].grp # {}

(* A call on a full queue is refused and changes nothing.                   *)
Accept(e) ==  \* the message or the signal itself
  \/ /\ e \in Queue /\ nmsg[e] < MaxMsg
     /\ nmsg' = [nmsg EXCEPT ![e] = @ + 1] /\ nsig' = nsig
  \/ /\ e \in Sem /\ nsig[e] < MaxSignal
     /\ nsig' = [nsig EXCEPT ![e] = @ + 1] /\ nmsg' = nmsg

Store(e) ==
  \/ /\ e \in Queue /\ Len(q[e]) < QSize
     /\ q' = [q EXCEPT ![e] = Append(@, nmsg[e] + 1)] /\ cnt' = cnt
  \/ /\ e \in Sem
     /\ cnt' = [cnt EXCEPT ![e] = @ + 1] /\ q' = q

(* Faulty variant: a waiting task is not looked for.                        *)
PostStores(e) ==
  /\ Accept(e) /\ Store(e) /\ UNCHANGED <<lists, tcb, got, ntake>>

Post(e) ==
  /\ Accept(e) /\ UNCHANGED <<got, ntake>>
  /\ \/ /\ Waiting(e)
        /\ EventTaskRdy(e, IF e \in Queue THEN nmsg[e] + 1 ELSE 0)
        /\ UNCHANGED events
     \/ ~Waiting(e) /\ Store(e) /\ UNCHANGED <<lists, tcb>>

TaskPost(t, e) ==
  /\ Enter(t) /\ e \in Posts[t]
  /\ Post(e)
  /\ pc' = IF Waiting(e) THEN [pc EXCEPT ![t] = "posted"] ELSE pc
  /\ UNCHANGED <<ev, switch>>

(* From ETH_IRQHandler, which calls neither OSIntEnter nor OSIntExit: the   *)
(* OS_Sched of the post itself asks for the switch, unless it is inside the *)
(* tick                                                                     *)
IsrPost(e) ==
  /\ e \in IsrPosts
  /\ Post(e)
  /\ IF Waiting(e) /\ Nesting = 0 THEN Reschedule(rdy') ELSE UNCHANGED <<high, pendsv>>
  /\ UNCHANGED <<place, cur, lock, tick>>

-----------------------------------------------------------------------------
(* Delays, the scheduler lock, suspension.                                  *)

OSTimeDly(t, n) ==
  /\ Enter(t) /\ t \in Sleepers /\ n > 0
  /\ rdy' = Remove(rdy, t) /\ dly' = [dly EXCEPT ![t] = n]
  /\ pc' = [pc EXCEPT ![t] = "posted"]
  /\ UNCHANGED <<wait, events, stat, statPend, msg, ev, switch, hist>>

OSSchedLock(t) ==  \* in delay_us; it then only reads the counter of SysTick
  /\ Enter(t) /\ t \in Lockers
  /\ lock' = 1
  /\ UNCHANGED <<lists, events, tcb, place, cur, high, pendsv, tick, hist>>

(* Faulty variant: OSSchedUnlock does not look for a readier task.          *)
OSSchedUnlockStays(t) ==
  /\ Runs(t) /\ pc[t] = "run" /\ lock = 1
  /\ lock' = 0 /\ pc' = pc
  /\ UNCHANGED <<lists, events, tcb, ev, cur, high, pendsv, tick, hist>>

OSSchedUnlock(t) ==
  /\ Runs(t) /\ pc[t] = "run" /\ lock = 1
  /\ lock' = 0 /\ pc' = [pc EXCEPT ![t] = "posted"]
  /\ UNCHANGED <<lists, events, tcb, ev, cur, high, pendsv, tick, hist>>

OSTaskSuspend(t) ==  \* of itself, as start_task and display_task do
  /\ Enter(t) /\ t \in Suspenders
  /\ rdy' = Remove(rdy, t) /\ stat' = [stat EXCEPT ![t] = "suspend"]
  /\ pc' = [pc EXCEPT ![t] = "posted"]
  /\ UNCHANGED <<wait, events, dly, statPend, msg, ev, switch, hist>>

(* delay_ms, called by USMART from TIM4's interrupt, which does not call    *)
(* OSIntEnter either: the task it interrupts is the one delayed             *)
UsmartDelayMs(n) ==
  /\ n > 0 /\ lock = 0 /\ Nesting = 0
  /\ rdy' = Remove(rdy, cur) /\ dly' = [dly EXCEPT ![cur] = n]
  /\ Reschedule(rdy')
  /\ UNCHANGED <<wait, events, stat, statPend, msg, place, cur, lock, tick, hist>>

-----------------------------------------------------------------------------
(* The tick: OSIntEnter, OSTimeTick, OSIntExit.                             *)

TickStart ==
  /\ tick = 0 /\ ~pendsv
  /\ tick' = 1
  /\ UNCHANGED <<lists, events, tcb, place, cur, high, pendsv, lock, hist>>

Expires(t) == dly[t] = 1

(* Faulty variant: the status of the task stays what it pends on.           *)
TickTaskKeepsStat ==
  /\ tick \in DOMAIN TcbList
  /\ LET t == TcbList[tick] IN
       IF Expires(t)
         THEN /\ statPend' = [statPend EXCEPT ![t] = IF stat[t] \in Event THEN "to" ELSE "ok"]
              /\ stat' = stat
              /\ dly' = [dly EXCEPT ![t] = 0] /\ rdy' = rdy
         ELSE /\ dly' = [dly EXCEPT ![t] = IF @ > 0 THEN @ - 1 ELSE 0]
              /\ UNCHANGED <<stat, statPend, rdy>>
  /\ tick' = tick + 1
  /\ UNCHANGED <<wait, events, msg, place, cur, high, pendsv, lock, hist>>

(* Faulty variant: a delay of zero is counted down too.                     *)
TickTaskUntested ==
  /\ tick \in DOMAIN TcbList
  /\ LET t == TcbList[tick] IN
       IF Expires(t)
         THEN /\ statPend' = [statPend EXCEPT ![t] = IF stat[t] \in Event THEN "to" ELSE "ok"]
              /\ stat' = [stat EXCEPT ![t] = IF @ \in Event THEN "rdy" ELSE @]
              /\ dly' = [dly EXCEPT ![t] = 0] /\ rdy' = Readied(t)
         ELSE /\ dly' = [dly EXCEPT ![t] = @ - 1] /\ UNCHANGED <<stat, statPend, rdy>>
  /\ tick' = tick + 1
  /\ UNCHANGED <<wait, events, msg, place, cur, high, pendsv, lock, hist>>

TickTask ==
  /\ tick \in DOMAIN TcbList
  /\ LET t == TcbList[tick] IN
       IF Expires(t)
         THEN /\ statPend' = [statPend EXCEPT ![t] = IF stat[t] \in Event THEN "to" ELSE "ok"]
              /\ stat' = [stat EXCEPT ![t] = IF @ \in Event THEN "rdy" ELSE @]
              /\ dly' = [dly EXCEPT ![t] = 0] /\ rdy' = Readied(t)
         ELSE /\ dly' = [dly EXCEPT ![t] = IF @ > 0 THEN @ - 1 ELSE 0]
              /\ UNCHANGED <<stat, statPend, rdy>>
  /\ tick' = tick + 1
  /\ UNCHANGED <<wait, events, msg, place, cur, high, pendsv, lock, hist>>

TickExit ==
  /\ tick = Len(TcbList) + 1
  /\ tick' = 0 /\ Reschedule(rdy)
  /\ UNCHANGED <<lists, events, tcb, place, cur, lock, hist>>

-----------------------------------------------------------------------------
Kernel(t) == Schedule(t) \/ PendOk(t) \/ PendTimeout(t) \/ OSSchedUnlock(t)
Call(t) ==
  \/ \E e \in Event : PendTakes(t, e) \/ TaskPost(t, e)
  \/ \E e \in Event, n \in Ticks : PendWaits(t, e, n)
  \/ \E n \in Ticks : OSTimeDly(t, n)
  \/ OSSchedLock(t) \/ OSTaskSuspend(t)
Tick == TickStart \/ TickTask \/ TickExit

Next ==
  \/ PendSV \/ Tick
  \/ \E t \in Worker : Kernel(t) \/ Call(t)
  \/ \E t \in {Idle} : Kernel(t)
  \/ \E e \in Event : IsrPost(e)

Spec == Init /\ [][Next]_vars

(* The same with delay_ms called from the serial console.                   *)
UsmartSpec == Init /\ [][Next \/ \E n \in Ticks : UsmartDelayMs(n)]_vars

(* Interrupts do not take all the time: PendSV runs when it is asked for,   *)
(* the tick comes every 5 ms, and a task that is current over and over      *)
(* between two ticks goes on with the kernel's code it is in.               *)
FairSpec ==
  /\ Spec
  /\ WF_vars(PendSV) /\ WF_vars(Tick)
  /\ \A t \in Worker : SF_vars(Kernel(t))

-----------------------------------------------------------------------------
(* Every variable has its type.                                             *)
TypeOK ==
  /\ rdy \in List /\ wait \in [Event -> List]
  /\ q \in [Queue -> Seq(Nat)] /\ cnt \in [Sem -> Nat]
  /\ stat \in [Task -> {"rdy", "suspend"} \cup Event] /\ dly \in [Task -> Nat]
  /\ statPend \in [Task -> {"ok", "to"}] /\ msg \in [Task -> Nat]
  /\ pc \in [Task -> {"run", "pended", "resume", "posted"}]
  /\ ev \in [Task -> {"none"} \cup Event]
  /\ cur \in Task /\ high \in Task /\ pendsv \in BOOLEAN /\ lock \in {0, 1}
  /\ tick \in 0..(Len(TcbList) + 1)
  /\ nmsg \in [Queue -> Nat] /\ got \in [Queue -> Seq(Nat)]
  /\ nsig \in [Sem -> Nat] /\ ntake \in [Sem -> Nat]

Exact(l) == \A y \in Group : /\ l.tbl[y] \subseteq {t \in Task : Y(t) = y}
                             /\ y \in l.grp <=> l.tbl[y] # {}

(* The bitmaps say what the TCBs say: a task is in the ready list exactly   *)
(* when it waits for nothing, in an event's wait list exactly when it pends *)
(* on the event or has timed out and has not run since.                     *)
ListsExact ==
  /\ Exact(rdy) /\ \A e \in Event : Exact(wait[e])
  /\ \A t \in Task : t \in Member(rdy) <=> (stat[t] = "rdy" /\ dly[t] = 0)
  /\ \A e \in Event, t \in Task :
       t \in Member(wait[e]) <=> ev[t] = e /\ (stat[t] = e \/ statPend[t] = "to")

InSwitch == pendsv \/ tick # 0 \/ lock # 0 \/ pc[cur] \in {"pended", "posted"}

(* Outside the windows in which a switch is on its way, no ready task has a *)
(* higher priority than the one that runs; and a task that runs on from the *)
(* kernel's code has what it waited for: it is never resumed while it still *)
(* pends or sleeps.                                                         *)
HighestRuns ==
  /\ ~InSwitch => cur \in Member(rdy) /\ \A t \in Member(rdy) : cur <= t
  /\ \A t \in Task : Runs(t) /\ pc[t] \in {"run", "resume"} => t \in Member(rdy)

(* Idle can always run, so there is always a task to switch to.             *)
IdleReady == Idle \in Member(rdy)

InHand(e) == {t \in Task : ev[t] = e /\ stat[t] = "rdy" /\ statPend[t] = "ok"}

Reader(e) == {t \in Worker : e \in Pends[t]}

(* A message accepted by OSQPost is returned by OSQPend, in the queue, or   *)
(* in the TCB of a task that will return it, even when the post meets the   *)
(* timeout of that task; the queue keeps the order of the posts, and one    *)
(* reader, as every mailbox of lwIP has, gets them in that order.  A signal *)
(* of a semaphore is taken, in the count, or handed to a task likewise.     *)
NoneLost ==
  /\ \A e \in Queue :
       LET out == nmsg[e] - Len(q[e]) IN
       /\ \A i \in DOMAIN q[e] : q[e][i] = out + i
       /\ {got[e][i] : i \in DOMAIN got[e]} \cup {msg[t] : t \in InHand(e)} = 1..out
       /\ Len(got[e]) + Cardinality(InHand(e)) = out
       /\ Cardinality(Reader(e)) = 1 => \A i \in DOMAIN got[e] : got[e][i] = i
  /\ \A e \in Sem : SemStart + nsig[e] = ntake[e] + cnt[e] + Cardinality(InHand(e))

(* No task waits for what is there.                                         *)
NoneWaitsInVain == \A e \in Event : Waiting(e) => ~Available(e)

(* A timeout or a delay ends: its task becomes ready.  The task of the      *)
(* highest priority then returns from OSQPend or OSSemPend, with its        *)
(* message, its semaphore or its timeout.                                   *)
Wakes ==
  /\ \A t \in Worker : dly[t] > 0 ~> t \in Member(rdy)
  /\ \A t \in {u \in Task : \A v \in Task : u <= v} :
       t \in Member(rdy) /\ pc[t] \in {"pended", "resume"} ~> pc[t] = "run"
=============================================================================
