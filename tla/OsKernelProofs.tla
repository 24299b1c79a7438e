--------------------------- MODULE OsKernelProofs ---------------------------
(***************************************************************************)
(* Proofs about OsKernel: the lists say what the TCBs say, the task of the  *)
(* highest priority runs, and no message and no signal is lost, for any     *)
(* tasks, events, timeouts and queue sizes.                                 *)
(***************************************************************************)
EXTENDS OsKernel, TLAPS, FiniteSetTheorems, SequenceTheorems

-----------------------------------------------------------------------------
(* Lists of tasks.                                                          *)

LEMMA Groups ==
  ASSUME NEW t \in Task
  PROVE  /\ t \in 0..63 /\ Y(t) \in Group
         /\ 8 * Y(t) <= t /\ t <= 8 * Y(t) + 7
BY KernelAssumption DEF Y, Group

LEMMA EmptyList == Empty \in List /\ Exact(Empty) /\ Member(Empty) = {}
BY Groups DEF Empty, List, Exact, Member

LEMMA PutList ==
  ASSUME NEW l \in List, Exact(l), NEW t \in Task
  PROVE  /\ Put(l, t) \in List /\ Exact(Put(l, t))
         /\ Member(Put(l, t)) = Member(l) \cup {t}
<1>1. Y(t) \in Group /\ l.tbl \in [Group -> SUBSET Task] /\ l.grp \in SUBSET Group
  BY Groups DEF List
<1> DEFINE g == l.grp \cup {Y(t)}
           b == [l.tbl EXCEPT ![Y(t)] = @ \cup {t}]
<1>2. /\ b \in [Group -> SUBSET Task] /\ g \in SUBSET Group
      /\ \A y \in Group : b[y] = IF y = Y(t) THEN l.tbl[y] \cup {t} ELSE l.tbl[y]
  BY <1>1
<1>3. Put(l, t) = [grp |-> g, tbl |-> b]
  BY DEF Put
<1> HIDE DEF g, b
<1>4. Put(l, t) \in List /\ Put(l, t).grp = g /\ Put(l, t).tbl = b
  BY <1>2, <1>3 DEF List
<1>5. Exact(Put(l, t))
  <2> SUFFICES ASSUME NEW y \in Group
               PROVE  b[y] \subseteq {u \in Task : Y(u) = y} /\ (y \in g <=> b[y] # {})
    BY <1>4 DEF Exact
  <2> QED
    BY <1>2 DEF Exact, g
<1>6. Member(Put(l, t)) = Member(l) \cup {t}
  <2> SUFFICES ASSUME NEW u \in Task PROVE u \in b[Y(u)] <=> u \in l.tbl[Y(u)] \/ u = t
    BY <1>4 DEF Member
  <2> QED
    BY <1>2, Groups
<1> QED
  BY <1>4, <1>5, <1>6

LEMMA RemoveList ==
  ASSUME NEW l \in List, Exact(l), NEW t \in Task
  PROVE  /\ Remove(l, t) \in List /\ Exact(Remove(l, t))
         /\ Member(Remove(l, t)) = Member(l) \ {t}
<1>1. Y(t) \in Group /\ l.tbl \in [Group -> SUBSET Task] /\ l.grp \in SUBSET Group
  BY Groups DEF List
<1> DEFINE g == IF l.tbl[Y(t)] \subseteq {t} THEN l.grp \ {Y(t)} ELSE l.grp
           b == [l.tbl EXCEPT ![Y(t)] = @ \ {t}]
<1>2. /\ b \in [Group -> SUBSET Task] /\ g \in SUBSET Group
      /\ \A y \in Group : b[y] = IF y = Y(t) THEN l.tbl[y] \ {t} ELSE l.tbl[y]
  BY <1>1
<1>3. Remove(l, t) = [grp |-> g, tbl |-> b]
  BY DEF Remove
<1> HIDE DEF b
<1>5. \A y \in Group : b[y] \subseteq {u \in Task : Y(u) = y} /\ (y \in g <=> b[y] # {})
  <2> SUFFICES ASSUME NEW y \in Group
               PROVE  b[y] \subseteq {u \in Task : Y(u) = y} /\ (y \in g <=> b[y] # {})
    OBVIOUS
  <2>1. CASE y = Y(t)
    <3>1. l.tbl[y] \ {t} = {} <=> l.tbl[y] \subseteq {t}
      OBVIOUS
    <3> QED
      BY <2>1, <3>1, <1>2 DEF Exact
  <2>2. CASE y # Y(t)
    BY <2>2, <1>2 DEF Exact
  <2> QED
    BY <2>1, <2>2
<1> HIDE DEF g
<1>4. Remove(l, t) \in List /\ Remove(l, t).grp = g /\ Remove(l, t).tbl = b
  BY <1>2, <1>3 DEF List
<1>6. Member(Remove(l, t)) = Member(l) \ {t}
  <2> SUFFICES ASSUME NEW u \in Task PROVE u \in b[Y(u)] <=> u \in l.tbl[Y(u)] /\ u # t
    BY <1>4 DEF Member
  <2> QED
    BY <1>2, Groups
<1> QED
  BY <1>4, <1>5, <1>6 DEF Exact

LEMMA GroupMember ==
  ASSUME NEW l \in List, Exact(l)
  PROVE  /\ l.grp # {} <=> Member(l) # {}
         /\ Member(l) \subseteq Task
         /\ \A t \in Member(l) : Y(t) \in l.grp /\ t \in l.tbl[Y(t)]
         /\ \A y \in l.grp : l.tbl[y] # {} /\ l.tbl[y] \subseteq {t \in Member(l) : Y(t) = y}
<1>1. \A t \in Member(l) : t \in Task /\ Y(t) \in l.grp /\ t \in l.tbl[Y(t)]
  BY Groups DEF Exact, Member
<1>2. \A y \in l.grp : l.tbl[y] # {} /\ l.tbl[y] \subseteq {t \in Member(l) : Y(t) = y}
  BY DEF Exact, Member, List
<1> QED
  BY <1>1, <1>2

(* The bits of a byte have a lowest one.                                    *)
LEMMA LeastOf ==
  ASSUME NEW a \in Nat, NEW S \in SUBSET (a..(a + 7)), S # {}
  PROVE  Least(S) \in S /\ \A y \in S : Least(S) <= y
<1>1. \E x \in S : \A y \in S : x <= y
  <2>1. CASE a \in S
    BY <2>1
  <2>2. CASE a \notin S /\ a + 1 \in S
    BY <2>2
  <2>3. CASE a \notin S /\ a + 1 \notin S /\ a + 2 \in S
    BY <2>3
  <2>4. CASE a \notin S /\ a + 1 \notin S /\ a + 2 \notin S /\ a + 3 \in S
    BY <2>4
  <2>5. CASE a \notin S /\ a + 1 \notin S /\ a + 2 \notin S /\ a + 3 \notin S
    <3>1. S \subseteq (a + 4)..(a + 7)
      BY <2>5
    <3>2. CASE a + 4 \in S
      BY <3>1, <3>2
    <3>3. CASE a + 4 \notin S /\ a + 5 \in S
      BY <3>1, <3>3
    <3>4. CASE a + 4 \notin S /\ a + 5 \notin S /\ a + 6 \in S
      BY <3>1, <3>4
    <3>5. CASE a + 4 \notin S /\ a + 5 \notin S /\ a + 6 \notin S
      <4>1. \A x \in S : x = a + 7
        BY <3>1, <3>5
      <4>2. PICK x : x \in S
        OBVIOUS
      <4>3. \A y \in S : x <= y
        BY <4>1, <4>2
      <4> QED
        BY <4>2, <4>3
    <3> QED
      BY <3>2, <3>3, <3>4, <3>5
  <2> QED
    BY <2>1, <2>2, <2>3, <2>4, <2>5
<1> QED
  BY <1>1 DEF Least

LEMMA FirstIs ==
  ASSUME NEW l \in List, Exact(l), Member(l) # {}
  PROVE  First(l) \in Member(l) /\ First(l) \in Task /\ \A t \in Member(l) : First(l) <= t
<1>1. l.grp # {} /\ l.grp \in SUBSET (0..(0 + 7))
  BY GroupMember DEF List, Group
<1> DEFINE y == UnMap(l.grp)
<1>2. y \in l.grp /\ \A z \in l.grp : y <= z
  BY <1>1, LeastOf DEF UnMap
<1> HIDE DEF y
<1>3. l.tbl[y] # {} /\ y \in 0..7 /\ l.tbl[y] \in SUBSET ((8 * y)..(8 * y + 7))
  BY <1>1, <1>2, GroupMember, Groups
<1>4. PICK a \in Nat : a = 8 * y
  BY <1>3
<1>5. First(l) = Least(l.tbl[y]) /\ First(l) \in l.tbl[y] /\ \A t \in l.tbl[y] : First(l) <= t
  BY <1>3, <1>4, LeastOf DEF First, y
<1>6. First(l) \in Member(l) /\ Y(First(l)) = y
  BY <1>2, <1>5, GroupMember
<1>7. \A t \in Member(l) : First(l) <= t
  <2> SUFFICES ASSUME NEW t \in Member(l) PROVE First(l) <= t
    OBVIOUS
  <2>1. t \in Task /\ Y(t) \in l.grp /\ t \in l.tbl[Y(t)]
    BY GroupMember
  <2>2. CASE Y(t) = y
    BY <1>5, <2>1, <2>2
  <2>3. CASE Y(t) # y
    <3>1. Y(t) \in 0..7 /\ 8 * Y(t) <= t /\ t \in Int
      BY <2>1, Groups DEF Group
    <3>2. First(l) <= 8 * y + 7 /\ First(l) \in Int
      BY <1>3, <1>5
    <3>3. y < Y(t)
      BY <2>1, <2>3, <1>2, <1>3, <3>1
    <3> QED
      BY <3>1, <3>2, <3>3, <1>3
  <2> QED
    BY <2>2, <2>3
<1> QED
  BY <1>6, <1>7, GroupMember
-----------------------------------------------------------------------------
(* The invariant.                                                           *)

(* A task in OSQPend or OSSemPend is blocked on the event or was made ready *)
(* with its delay cleared; only there does it carry a timeout in its status *)
TaskInv ==
  \A t \in Task :
    /\ ev[t] \in Event <=> pc[t] \in {"pended", "resume"}
    /\ ev[t] \in Event => stat[t] \in {"rdy", ev[t]}
    /\ stat[t] \in Event => ev[t] = stat[t] /\ statPend[t] = "ok"
    /\ statPend[t] = "to" => ev[t] \in Event /\ stat[t] = "rdy"
    /\ ev[t] \in Event /\ stat[t] = "rdy" => dly[t] = 0

IdleInv == pc[Idle] = "run" /\ ev[Idle] = "none" /\ stat[Idle] = "rdy" /\ dly[Idle] = 0

(* While a switch is asked for, OSTCBHighRdy follows the ready list; where  *)
(* none is asked for, the task that runs outside OS_Sched is ready, and the *)
(* highest unless the tick or the scheduler lock holds the switch back.     *)
SwitchInv ==
  /\ pendsv => high = First(rdy) /\ lock = 0 /\ tick = 0
  /\ lock = 1 => pc[cur] = "run" /\ cur # Idle
  /\ ~pendsv /\ pc[cur] \in {"run", "resume"} =>
       cur \in Member(rdy) /\ (lock = 0 /\ tick = 0 => cur = First(rdy))

Inv == TypeOK /\ ListsExact /\ TaskInv /\ IdleInv /\ SwitchInv

(* What OSQPost and OSSemPost do when a task waits.                         *)
HandsTo(e, t) ==
  /\ Waiting(e) /\ UNCHANGED events
  /\ rdy' = Put(rdy, t) /\ wait' = [wait EXCEPT ![e] = Remove(@, t)]
  /\ stat' = [stat EXCEPT ![t] = "rdy"] /\ dly' = [dly EXCEPT ![t] = 0]
  /\ statPend' = [statPend EXCEPT ![t] = "ok"]
  /\ msg' = [msg EXCEPT ![t] = IF e \in Queue THEN nmsg[e] + 1 ELSE 0]

StoresIn(e) == ~Waiting(e) /\ Store(e) /\ UNCHANGED <<lists, tcb>>

LEMMA EventNames == "rdy" \notin Event /\ "suspend" \notin Event /\ "none" \notin Event
BY KernelAssumption

(* OS_EventTaskRdy meets a task that pends on the event or has timed out    *)
LEMMA PostCases ==
  ASSUME Inv, NEW e \in Event, Post(e)
  PROVE  \/ \E t \in Task : /\ t \in Member(wait[e]) /\ ev[t] = e
                            /\ stat[t] = e \/ (statPend[t] = "to" /\ stat[t] = "rdy")
                            /\ HandsTo(e, t)
         \/ StoresIn(e)
<1>1. CASE StoresIn(e)
  BY <1>1
<1>2. CASE Waiting(e) /\ EventTaskRdy(e, IF e \in Queue THEN nmsg[e] + 1 ELSE 0) /\ UNCHANGED events
  <2>1. PICK t : t = First(wait[e])
    OBVIOUS
  <2>2. wait[e] \in List /\ Exact(wait[e])
    BY DEF Inv, TypeOK, ListsExact
  <2>3. t \in Member(wait[e]) /\ t \in Task
    BY <1>2, <2>1, <2>2, GroupMember, FirstIs DEF Waiting
  <2>4. ev[t] = e /\ (stat[t] = e \/ (statPend[t] = "to" /\ stat[t] = "rdy"))
    <3>1. ev[t] = e /\ (stat[t] = e \/ statPend[t] = "to")
      BY <2>3 DEF Inv, ListsExact
    <3>2. statPend[t] = "to" => stat[t] = "rdy"
      BY <2>3 DEF Inv, TaskInv
    <3> QED
      BY <3>1, <3>2
  <2>5. /\ dly' = [dly EXCEPT ![t] = 0]
        /\ msg' = [msg EXCEPT ![t] = IF e \in Queue THEN nmsg[e] + 1 ELSE 0]
        /\ stat' = [stat EXCEPT ![t] = IF @ = e THEN "rdy" ELSE @]
        /\ statPend' = [statPend EXCEPT ![t] = "ok"]
        /\ rdy' = Readied(t) /\ wait' = [wait EXCEPT ![e] = Remove(@, t)]
    BY <1>2, <2>1 DEF EventTaskRdy
  <2>6. Readied(t) = Put(rdy, t)
    BY <2>4, EventNames DEF Readied
  <2>7. stat' = [stat EXCEPT ![t] = "rdy"]
    BY <2>4, <2>5, EventNames
  <2> QED
    BY <1>2, <2>3, <2>4, <2>5, <2>6, <2>7 DEF HandsTo
<1> QED
  BY <1>1, <1>2 DEF Post, StoresIn

LEMMA RdyTypes ==
  ASSUME Inv
  PROVE  /\ rdy \in List /\ Exact(rdy)
         /\ \A e \in Event : wait[e] \in List /\ Exact(wait[e])
         /\ Idle \in Member(rdy)
         /\ First(rdy) \in Member(rdy) /\ First(rdy) \in Task
<1>1. /\ rdy \in List /\ Exact(rdy)
      /\ \A e \in Event : wait[e] \in List /\ Exact(wait[e])
  BY DEF Inv, TypeOK, ListsExact
<1>2. Idle \in Member(rdy)
  BY KernelAssumption DEF Inv, ListsExact, IdleInv
<1> QED
  BY <1>1, <1>2, FirstIs

(* The lists after a step.                                                  *)
ListTypes ==
  /\ rdy \in List /\ Exact(rdy)
  /\ wait \in [Event -> List] /\ \A e \in Event : Exact(wait[e])

LEMMA ListTypesHold == Inv => ListTypes
BY DEF Inv, TypeOK, ListsExact, ListTypes

LEMMA RdyPut ==
  ASSUME Inv, NEW t \in Task, rdy' = Put(rdy, t)
  PROVE  rdy' \in List /\ Exact(rdy') /\ Member(rdy') = Member(rdy) \cup {t}
BY RdyTypes, PutList

LEMMA RdyRemove ==
  ASSUME Inv, NEW t \in Task, rdy' = Remove(rdy, t)
  PROVE  rdy' \in List /\ Exact(rdy') /\ Member(rdy') = Member(rdy) \ {t}
BY RdyTypes, RemoveList

LEMMA WaitPut ==
  ASSUME Inv, NEW t \in Task, NEW e \in Event, wait' = [wait EXCEPT ![e] = Put(@, t)]
  PROVE  /\ wait' \in [Event -> List]
         /\ \A f \in Event : /\ Exact(wait'[f])
                             /\ Member(wait'[f]) = IF f = e THEN Member(wait[f]) \cup {t}
                                                            ELSE Member(wait[f])
<1>1. wait \in [Event -> List] /\ \A f \in Event : wait[f] \in List /\ Exact(wait[f])
  BY ListTypesHold DEF ListTypes
<1>2. PICK l : l = Put(wait[e], t)
  OBVIOUS
<1>3. l \in List /\ Exact(l) /\ Member(l) = Member(wait[e]) \cup {t}
  BY <1>1, <1>2, PutList
<1>4. wait' = [wait EXCEPT ![e] = l]
  BY <1>2
<1> QED
  BY <1>1, <1>3, <1>4

LEMMA WaitRemove ==
  ASSUME Inv, NEW t \in Task, NEW e \in Event, wait' = [wait EXCEPT ![e] = Remove(@, t)]
  PROVE  /\ wait' \in [Event -> List]
         /\ \A f \in Event : /\ Exact(wait'[f])
                             /\ Member(wait'[f]) = IF f = e THEN Member(wait[f]) \ {t}
                                                            ELSE Member(wait[f])
<1>1. wait \in [Event -> List] /\ \A f \in Event : wait[f] \in List /\ Exact(wait[f])
  BY ListTypesHold DEF ListTypes
<1>2. PICK l : l = Remove(wait[e], t)
  OBVIOUS
<1>3. l \in List /\ Exact(l) /\ Member(l) = Member(wait[e]) \ {t}
  BY <1>1, <1>2, RemoveList
<1>4. wait' = [wait EXCEPT ![e] = l]
  BY <1>2
<1> QED
  BY <1>1, <1>3, <1>4

LEMMA ListTypesStep ==
  ASSUME Inv, [Next]_vars
  PROVE  ListTypes'
<1> USE ListTypesHold DEF ListTypes
<1>1. ASSUME UNCHANGED lists PROVE ListTypes'
  BY <1>1 DEF lists
<1>2. ASSUME NEW e \in Event, Post(e) PROVE ListTypes'
  <2>1. ASSUME NEW t \in Task, HandsTo(e, t) PROVE ListTypes'
    BY <2>1, RdyPut, WaitRemove DEF HandsTo
  <2> QED
    BY <1>2, <2>1, <1>1, PostCases DEF StoresIn
<1>3. ASSUME NEW t \in Task, rdy' = Remove(rdy, t), UNCHANGED wait PROVE ListTypes'
  BY <1>3, RdyRemove
<1>4. ASSUME NEW t \in Task, Kernel(t) PROVE ListTypes'
  <2>1. CASE PendTimeout(t)
    <3>1. ev[t] \in Event
      BY <2>1 DEF PendTimeout, Inv, TaskInv
    <3>2. rdy' = rdy /\ wait' = [wait EXCEPT ![ev[t]] = Remove(@, t)]
      BY <2>1 DEF PendTimeout, Return
    <3> QED
      BY <3>1, <3>2, WaitRemove
  <2> QED
    BY <1>4, <2>1, <1>1 DEF Kernel, Schedule, PendOk, Return, OSSchedUnlock, lists
<1>5. ASSUME NEW t \in Worker, Call(t) PROVE ListTypes'
  <2> t \in Task
    BY DEF Worker
  <2>1. ASSUME NEW e \in Event, NEW n \in Ticks, PendWaits(t, e, n) PROVE ListTypes'
    BY <2>1, RdyRemove, WaitPut DEF PendWaits
  <2>2. ASSUME NEW e \in Event, PendTakes(t, e) PROVE ListTypes'
    BY <2>2, <1>1 DEF PendTakes
  <2>3. ASSUME NEW e \in Event, TaskPost(t, e) PROVE ListTypes'
    BY <2>3, <1>2 DEF TaskPost
  <2>4. ASSUME NEW n \in Ticks, OSTimeDly(t, n) PROVE ListTypes'
    BY <2>4, <1>3 DEF OSTimeDly
  <2>5. CASE OSSchedLock(t)
    BY <2>5, <1>1 DEF OSSchedLock
  <2>6. CASE OSTaskSuspend(t)
    BY <2>6, <1>3 DEF OSTaskSuspend
  <2> QED
    BY <1>5, <2>1, <2>2, <2>3, <2>4, <2>5, <2>6 DEF Call
<1>6. CASE TickTask
  <2>1. PICK t : t = TcbList[tick]
    OBVIOUS
  <2>2. t \in Task
    BY <1>6, <2>1, KernelAssumption, ElementOfSeq DEF TickTask, Worker
  <2>3. UNCHANGED wait /\ (rdy' = rdy \/ rdy' = Put(rdy, t))
    BY <1>6, <2>1 DEF TickTask, Readied
  <2> QED
    BY <2>2, <2>3, RdyPut
<1>7. CASE PendSV \/ TickStart \/ TickExit \/ UNCHANGED vars
  BY <1>7, <1>1 DEF PendSV, TickStart, TickExit, vars
<1>8. ASSUME NEW e \in Event, IsrPost(e) PROVE ListTypes'
  BY <1>8, <1>2 DEF IsrPost
<1>9. Worker \subseteq Task /\ Idle \in Task
  BY KernelAssumption DEF Worker
<1> QED
  BY <1>4, <1>5, <1>6, <1>7, <1>8, <1>9 DEF Next, Tick

(* The types of what is not a list.                                         *)
RestTypes ==
  /\ q \in [Queue -> Seq(Nat)] /\ cnt \in [Sem -> Nat]
  /\ stat \in [Task -> {"rdy", "suspend"} \cup Event] /\ dly \in [Task -> Nat]
  /\ statPend \in [Task -> {"ok", "to"}] /\ msg \in [Task -> Nat]
  /\ pc \in [Task -> {"run", "pended", "resume", "posted"}]
  /\ ev \in [Task -> {"none"} \cup Event]
  /\ cur \in Task /\ high \in Task /\ pendsv \in BOOLEAN /\ lock \in {0, 1}
  /\ tick \in 0..(Len(TcbList) + 1)
  /\ nmsg \in [Queue -> Nat] /\ got \in [Queue -> Seq(Nat)]
  /\ nsig \in [Sem -> Nat] /\ ntake \in [Sem -> Nat]

LEMMA RestTypesHold == Inv => RestTypes
BY DEF Inv, TypeOK, RestTypes

(* The next ready task exists, also after the step.                         *)
LEMMA RescheduleTypes ==
  ASSUME Inv, NEW r \in List, Exact(r), Member(r) # {}, Reschedule(r)
  PROVE  high' \in Task /\ pendsv' \in BOOLEAN
BY FirstIs DEF Reschedule, Inv, TypeOK

LEMMA PostTypes ==
  ASSUME Inv, NEW e \in Event, Post(e)
  PROVE  /\ q' \in [Queue -> Seq(Nat)] /\ cnt' \in [Sem -> Nat]
         /\ stat' \in [Task -> {"rdy", "suspend"} \cup Event] /\ dly' \in [Task -> Nat]
         /\ statPend' \in [Task -> {"ok", "to"}] /\ msg' \in [Task -> Nat]
         /\ nmsg' \in [Queue -> Nat] /\ got' \in [Queue -> Seq(Nat)]
         /\ nsig' \in [Sem -> Nat] /\ ntake' \in [Sem -> Nat]
         /\ Member(rdy) \subseteq Member(rdy')
<1> USE RestTypesHold DEF RestTypes
<1>1. nmsg' \in [Queue -> Nat] /\ nsig' \in [Sem -> Nat] /\ UNCHANGED <<got, ntake>>
  <2>1. UNCHANGED <<got, ntake>> /\ Accept(e)
    BY DEF Post
  <2>2. CASE e \in Queue /\ nmsg' = [nmsg EXCEPT ![e] = @ + 1] /\ nsig' = nsig
    BY <2>1, <2>2
  <2>3. CASE e \in Sem /\ nsig' = [nsig EXCEPT ![e] = @ + 1] /\ nmsg' = nmsg
    BY <2>1, <2>3
  <2> QED
    BY <2>1, <2>2, <2>3 DEF Accept
<1>2. ASSUME NEW t \in Task, HandsTo(e, t)
      PROVE  /\ UNCHANGED <<q, cnt>>
             /\ stat' \in [Task -> {"rdy", "suspend"} \cup Event] /\ dly' \in [Task -> Nat]
             /\ statPend' \in [Task -> {"ok", "to"}] /\ msg' \in [Task -> Nat]
             /\ Member(rdy) \subseteq Member(rdy')
  <2>1. (IF e \in Queue THEN nmsg[e] + 1 ELSE 0) \in Nat
    OBVIOUS
  <2> QED
    BY <1>2, <2>1, RdyPut DEF HandsTo, events
<1>3. CASE StoresIn(e)
  <2>1. q' \in [Queue -> Seq(Nat)] /\ cnt' \in [Sem -> Nat]
    <3>1. CASE e \in Queue /\ q' = [q EXCEPT ![e] = Append(@, nmsg[e] + 1)] /\ cnt' = cnt
      <4>1. Append(q[e], nmsg[e] + 1) \in Seq(Nat)
        BY <3>1, AppendProperties
      <4> QED
        BY <3>1, <4>1
    <3>2. CASE e \in Sem /\ cnt' = [cnt EXCEPT ![e] = @ + 1] /\ q' = q
      BY <3>2
    <3> QED
      BY <1>3, <3>1, <3>2 DEF StoresIn, Store
  <2> QED
    BY <1>1, <1>3, <2>1 DEF StoresIn, tcb, lists
<1> QED
  BY <1>1, <1>2, <1>3, PostCases

LEMMA CallTypes ==
  ASSUME Inv, NEW t \in Worker, Call(t)
  PROVE  RestTypes'
<1> USE RestTypesHold DEF RestTypes
<1> t \in Task
  BY DEF Worker
<1>1. ASSUME NEW e \in Event, NEW n \in Ticks, PendWaits(t, e, n) PROVE RestTypes'
  <2>1. n \in Nat
    BY KernelAssumption
  <2> QED
    BY <1>1, <2>1 DEF PendWaits, events, switch, hist
<1>2. ASSUME NEW e \in Event, PendTakes(t, e) PROVE RestTypes'
  <2>1. UNCHANGED <<stat, dly, statPend, msg, pc, ev, cur, high, pendsv, lock, tick, nmsg, nsig>>
    BY <1>2 DEF PendTakes, tcb, place, switch
  <2>2. /\ q' \in [Queue -> Seq(Nat)] /\ cnt' \in [Sem -> Nat]
        /\ got' \in [Queue -> Seq(Nat)] /\ ntake' \in [Sem -> Nat]
    <3>1. CASE e \in Queue
      <4>1. q[e] \in Seq(Nat) /\ q[e] # <<>> /\ got[e] \in Seq(Nat)
        BY <1>2, <3>1 DEF PendTakes, Available
      <4>2. Head(q[e]) \in Nat /\ Tail(q[e]) \in Seq(Nat)
        BY <4>1, HeadTailProperties
      <4>3. Append(got[e], Head(q[e])) \in Seq(Nat)
        BY <4>1, <4>2, AppendProperties
      <4>4. /\ q' = [q EXCEPT ![e] = Tail(@)] /\ got' = [got EXCEPT ![e] = Append(@, Head(q[e]))]
            /\ UNCHANGED <<cnt, ntake>>
        BY <1>2, <3>1, KernelAssumption DEF PendTakes, Take
      <4> QED
        BY <4>2, <4>3, <4>4
    <3>2. CASE e \notin Queue
      <4>1. /\ e \in Sem /\ cnt[e] > 0
            /\ cnt' = [cnt EXCEPT ![e] = @ - 1] /\ ntake' = [ntake EXCEPT ![e] = @ + 1]
            /\ UNCHANGED <<q, got>>
        BY <1>2, <3>2 DEF PendTakes, Available, Take, Event
      <4>2. cnt[e] - 1 \in Nat
        BY <4>1
      <4>3. cnt' \in [Sem -> Nat]
        BY <4>1, <4>2
      <4>4. ntake' \in [Sem -> Nat]
        BY <4>1
      <4> QED
        BY <4>1, <4>3, <4>4
    <3> QED
      BY <3>1, <3>2
  <2> QED
    BY <2>1, <2>2
<1>3. ASSUME NEW e \in Event, TaskPost(t, e) PROVE RestTypes'
  <2>1. UNCHANGED <<ev, cur, high, pendsv, lock, tick>>
    BY <1>3 DEF TaskPost, switch
  <2>2. pc' \in [Task -> {"run", "pended", "resume", "posted"}]
    BY <1>3 DEF TaskPost
  <2>3. Post(e)
    BY <1>3 DEF TaskPost
  <2> QED
    BY <2>1, <2>2, <2>3, PostTypes
<1>4. ASSUME NEW n \in Ticks, OSTimeDly(t, n) PROVE RestTypes'
  BY <1>4, KernelAssumption DEF OSTimeDly, events, switch, hist
<1>5. CASE OSSchedLock(t)
  BY <1>5 DEF OSSchedLock, events, tcb, place, hist
<1>6. CASE OSTaskSuspend(t)
  BY <1>6 DEF OSTaskSuspend, events, switch, hist
<1> QED
  BY <1>1, <1>2, <1>3, <1>4, <1>5, <1>6 DEF Call

LEMMA KernelTypes ==
  ASSUME Inv, NEW t \in Task, Kernel(t)
  PROVE  RestTypes'
<1> USE RestTypesHold DEF RestTypes
<1>1. CASE Schedule(t)
  <2>1. high' \in Task /\ pendsv' \in BOOLEAN
    BY <1>1, RescheduleTypes, RdyTypes DEF Schedule
  <2> QED
    BY <1>1, <2>1 DEF Schedule, events, tcb, hist
<1>2. CASE PendOk(t)
  <2>1. /\ UNCHANGED <<q, cnt, dly, cur, high, pendsv, lock, tick, nmsg, nsig>>
        /\ stat' \in [Task -> {"rdy", "suspend"} \cup Event] /\ statPend' \in [Task -> {"ok", "to"}]
        /\ pc' \in [Task -> {"run", "pended", "resume", "posted"}]
        /\ ev' \in [Task -> {"none"} \cup Event]
    BY <1>2 DEF PendOk, Return, events, switch
  <2>2. msg' \in [Task -> Nat]
    BY <1>2 DEF PendOk, Return
  <2>3. got' \in [Queue -> Seq(Nat)]
    <3>1. CASE ev[t] \in Queue
      <4>1. Append(got[ev[t]], msg[t]) \in Seq(Nat)
        BY <3>1, AppendProperties
      <4> QED
        BY <1>2, <3>1, <4>1 DEF PendOk
    <3>2. CASE ev[t] \notin Queue
      BY <1>2, <3>2 DEF PendOk
    <3> QED
      BY <3>1, <3>2
  <2>4. ntake' \in [Sem -> Nat]
    <3>1. CASE ntake' = [ntake EXCEPT ![ev[t]] = @ + 1] /\ ev[t] \in Sem
      BY <3>1
    <3>2. CASE ntake' = ntake
      BY <3>2
    <3> QED
      BY <1>2, <3>1, <3>2 DEF PendOk
  <2> QED
    BY <2>1, <2>2, <2>3, <2>4
<1>3. CASE PendTimeout(t)
  BY <1>3 DEF PendTimeout, Return, events, switch
<1>4. CASE OSSchedUnlock(t)
  BY <1>4 DEF OSSchedUnlock, events, tcb, hist
<1> QED
  BY <1>1, <1>2, <1>3, <1>4 DEF Kernel

LEMMA InterruptTypes ==
  ASSUME Inv, Tick \/ PendSV \/ (\E e \in Event : IsrPost(e))
  PROVE  RestTypes'
<1> USE RestTypesHold DEF RestTypes
<1>1. CASE TickTask
  <2>1. PICK t : t = TcbList[tick]
    OBVIOUS
  <2>2. t \in Task /\ tick + 1 \in 0..(Len(TcbList) + 1)
    BY <1>1, <2>1, KernelAssumption, ElementOfSeq, LenProperties DEF TickTask, Worker
  <2>3. UNCHANGED <<q, cnt, msg, pc, ev, cur, high, pendsv, lock, nmsg, got, nsig, ntake>> /\ tick' = tick + 1
    BY <1>1 DEF TickTask, events, place, hist
  <2>4. CASE Expires(t)
    <3>1. /\ statPend' = [statPend EXCEPT ![t] = IF stat[t] \in Event THEN "to" ELSE "ok"]
          /\ stat' = [stat EXCEPT ![t] = IF @ \in Event THEN "rdy" ELSE @]
          /\ dly' = [dly EXCEPT ![t] = 0]
      BY <1>1, <2>1, <2>4 DEF TickTask
    <3>2. stat' \in [Task -> {"rdy", "suspend"} \cup Event] /\ dly' \in [Task -> Nat]
      BY <3>1
    <3>3. statPend' \in [Task -> {"ok", "to"}]
      BY <3>1
    <3> QED
      BY <2>2, <2>3, <3>2, <3>3
  <2>5. CASE ~Expires(t)
    <3>1. (IF dly[t] > 0 THEN dly[t] - 1 ELSE 0) \in Nat
      BY <2>2
    <3> QED
      BY <1>1, <2>1, <2>2, <2>3, <2>5, <3>1 DEF TickTask
  <2> QED
    BY <2>4, <2>5
<1>2. CASE TickStart
  BY <1>2, KernelAssumption, LenProperties DEF TickStart, events, tcb, place, hist
<1>3. CASE TickExit
  <2>1. high' \in Task /\ pendsv' \in BOOLEAN
    BY <1>3, RescheduleTypes, RdyTypes DEF TickExit
  <2> QED
    <3>1. UNCHANGED <<q, cnt, stat, dly, statPend, msg, pc, ev, cur, lock, nmsg, got, nsig, ntake>>
      BY <1>3 DEF TickExit, events, tcb, place, hist
    <3>2. Len(TcbList) \in Nat /\ tick' = 0
      BY <1>3, KernelAssumption, LenProperties DEF TickExit
    <3> QED
      BY <2>1, <3>1, <3>2
<1>4. CASE PendSV
  BY <1>4 DEF PendSV, events, tcb, place, hist
<1>5. ASSUME NEW e \in Event, IsrPost(e) PROVE RestTypes'
  <2>1. Post(e) /\ UNCHANGED <<pc, ev, cur, lock, tick>>
    BY <1>5 DEF IsrPost, place
  <2>2. high' \in Task /\ pendsv' \in BOOLEAN
    <3>1. CASE Reschedule(rdy')
      <4>1. PICK r : r = rdy'
        OBVIOUS
      <4>2. r \in List /\ Exact(r) /\ Member(r) # {}
        <5>1. ListTypes'
          BY <1>5, ListTypesStep DEF Next
        <5> QED
          BY <5>1, <4>1, <2>1, PostTypes, RdyTypes DEF ListTypes
      <4>3. Reschedule(r)
        BY <3>1, <4>1
      <4> QED
        BY <4>2, <4>3, RescheduleTypes
    <3>2. CASE UNCHANGED <<high, pendsv>>
      BY <3>2
    <3> QED
      BY <1>5, <3>1, <3>2 DEF IsrPost
  <2> QED
    BY <2>1, <2>2, PostTypes
<1> QED
  BY <1>1, <1>2, <1>3, <1>4, <1>5 DEF Tick

LEMMA TypeStep ==
  ASSUME Inv, [Next]_vars
  PROVE  TypeOK'
<1>1. RestTypes'
  <2>1. CASE UNCHANGED vars
    BY <2>1, RestTypesHold DEF RestTypes, vars, lists, events, tcb, place, switch, hist
  <2>2. Worker \subseteq Task /\ Idle \in Task
    BY KernelAssumption DEF Worker
  <2> QED
    BY <2>1, <2>2, CallTypes, KernelTypes, InterruptTypes DEF Next
<1>2. ListTypes'
  BY ListTypesStep
<1> QED
  BY <1>1, <1>2 DEF TypeOK, RestTypes, ListTypes

-----------------------------------------------------------------------------
(* Lists and TCBs agree after every step.                                   *)

Listed ==
  /\ \A t \in Task : t \in Member(rdy) <=> (stat[t] = "rdy" /\ dly[t] = 0)
  /\ \A e \in Event, t \in Task :
       t \in Member(wait[e]) <=> (ev[t] = e /\ (stat[t] = e \/ statPend[t] = "to"))
Tasks == Listed /\ TaskInv /\ IdleInv

LEMMA TasksHold == Inv => Tasks /\ RestTypes
BY RestTypesHold DEF Inv, ListsExact, Tasks, Listed

(* Places of tasks change, but no task enters or leaves OSxxxPend.          *)
SamePlaces ==
  /\ UNCHANGED ev /\ pc'[Idle] = pc[Idle]
  /\ \A t \in Task : pc'[t] \in {"pended", "resume"} <=> pc[t] \in {"pended", "resume"}

LEMMA TasksSame ==
  ASSUME Tasks, UNCHANGED <<rdy, wait, stat, dly, statPend>>, SamePlaces
  PROVE  Tasks'
<1>1. Listed' /\ IdleInv'
  BY DEF Tasks, Listed, IdleInv, SamePlaces
<1>2. TaskInv'
  BY DEF Tasks, TaskInv, SamePlaces
<1> QED
  BY <1>1, <1>2 DEF Tasks

LEMMA PlaceKept == UNCHANGED place => SamePlaces
BY DEF SamePlaces, place

LEMMA PlaceMoved ==
  ASSUME RestTypes, NEW t \in Worker, NEW c, UNCHANGED ev, pc' = [pc EXCEPT ![t] = c],
         c \in {"pended", "resume"} <=> pc[t] \in {"pended", "resume"}
  PROVE  SamePlaces
BY KernelAssumption DEF SamePlaces, RestTypes, Worker

(* A task that runs in its own code or comes back into OSxxxPend is ready.  *)
LEMMA RunnerReady ==
  ASSUME Inv, NEW t \in Task, Runs(t), pc[t] \in {"run", "resume"}
  PROVE  t \in Member(rdy) /\ stat[t] = "rdy" /\ dly[t] = 0
BY DEF Inv, SwitchInv, Runs, ListsExact

LEMMA PostTasks ==
  ASSUME Inv, NEW e \in Event, Post(e), SamePlaces
  PROVE  Tasks'
<1> USE TasksHold, EventNames DEF RestTypes
<1>1. ASSUME NEW t \in Task, t \in Member(wait[e]), ev[t] = e, HandsTo(e, t) PROVE Tasks'
  <2>1. /\ Member(rdy') = Member(rdy) \cup {t}
        /\ \A f \in Event : Member(wait'[f]) = IF f = e THEN Member(wait[f]) \ {t} ELSE Member(wait[f])
    <3>1. rdy' = Put(rdy, t) /\ wait' = [wait EXCEPT ![e] = Remove(@, t)]
      BY <1>1 DEF HandsTo
    <3>2. Member(rdy') = Member(rdy) \cup {t}
      BY <3>1, RdyPut
    <3>3. \A f \in Event : Member(wait'[f]) = IF f = e THEN Member(wait[f]) \ {t} ELSE Member(wait[f])
      BY <3>1, WaitRemove
    <3> QED
      BY <3>2, <3>3
  <2>2. /\ stat' = [stat EXCEPT ![t] = "rdy"] /\ dly' = [dly EXCEPT ![t] = 0]
        /\ statPend' = [statPend EXCEPT ![t] = "ok"] /\ ev' = ev
    BY <1>1 DEF HandsTo, SamePlaces
  <2>3. \A u \in Task : u \in Member(rdy') <=> (stat'[u] = "rdy" /\ dly'[u] = 0)
    BY <2>1, <2>2 DEF Tasks, Listed
  <2>4. ASSUME NEW f \in Event, NEW u \in Task
        PROVE  u \in Member(wait'[f]) <=> (ev'[u] = f /\ (stat'[u] = f \/ statPend'[u] = "to"))
    <3>1. u \in Member(wait[f]) <=> (ev[u] = f /\ (stat[u] = f \/ statPend[u] = "to"))
      BY DEF Tasks, Listed
    <3>2. CASE u = t
      <4>1. stat'[u] = "rdy" /\ statPend'[u] = "ok"
        BY <2>2, <3>2
      <4>2. u \notin Member(wait'[f])
        BY <1>1, <2>1, <3>1, <3>2
      <4> QED
        BY <4>1, <4>2
    <3>3. CASE u # t
      <4>1. ev'[u] = ev[u] /\ stat'[u] = stat[u] /\ statPend'[u] = statPend[u]
        BY <2>2, <3>3
      <4>2. u \in Member(wait'[f]) <=> u \in Member(wait[f])
        BY <2>1, <3>3
      <4> QED
        BY <3>1, <4>1, <4>2
    <3> QED
      BY <3>2, <3>3
  <2>5. TaskInv'
    BY <1>1, <2>2 DEF Tasks, TaskInv, SamePlaces
  <2>6. IdleInv'
    BY <1>1, <2>2 DEF Tasks, IdleInv, SamePlaces
  <2> QED
    BY <2>3, <2>4, <2>5, <2>6 DEF Tasks, Listed
<1> QED
  BY <1>1, PostCases, TasksSame DEF StoresIn, lists, tcb

LEMMA CallTasks ==
  ASSUME Inv, NEW t \in Worker, Call(t)
  PROVE  Tasks'
<1> USE TasksHold, EventNames DEF RestTypes
<1>0. t \in Task /\ t # Idle /\ Idle \in Task
  BY KernelAssumption DEF Worker
<1>1. ASSUME NEW e \in Event, NEW n \in Ticks, PendWaits(t, e, n) PROVE Tasks'
  <2>1. pc[t] = "run" /\ stat[t] = "rdy" /\ dly[t] = 0 /\ t \in Member(rdy)
    BY <1>0, <1>1, RunnerReady DEF PendWaits, Enter
  <2>2. ev[t] \notin Event /\ ev[t] = "none" /\ statPend[t] = "ok"
    BY <1>0, <2>1 DEF Tasks, TaskInv
  <2>3. /\ stat' = [stat EXCEPT ![t] = e] /\ statPend' = [statPend EXCEPT ![t] = "ok"]
        /\ dly' = [dly EXCEPT ![t] = n] /\ pc' = [pc EXCEPT ![t] = "pended"] /\ ev' = [ev EXCEPT ![t] = e]
    BY <1>1 DEF PendWaits
  <2>4. /\ Member(rdy') = Member(rdy) \ {t}
        /\ \A f \in Event : Member(wait'[f]) = IF f = e THEN Member(wait[f]) \cup {t} ELSE Member(wait[f])
    BY <1>0, <1>1, RdyRemove, WaitPut DEF PendWaits
  <2>5. \A u \in Task : u \in Member(rdy') <=> (stat'[u] = "rdy" /\ dly'[u] = 0)
    BY <1>0, <2>3, <2>4 DEF Tasks, Listed
  <2>6. \A f \in Event, u \in Task :
          u \in Member(wait'[f]) <=> (ev'[u] = f /\ (stat'[u] = f \/ statPend'[u] = "to"))
    <3> SUFFICES ASSUME NEW f \in Event, NEW u \in Task
                 PROVE  u \in Member(wait'[f]) <=> (ev'[u] = f /\ (stat'[u] = f \/ statPend'[u] = "to"))
      OBVIOUS
    <3>1. u \in Member(wait[f]) <=> (ev[u] = f /\ (stat[u] = f \/ statPend[u] = "to"))
      BY DEF Tasks, Listed
    <3>2. CASE u = t
      <4>1. stat'[u] = e /\ statPend'[u] = "ok" /\ ev'[u] = e
        BY <1>0, <2>3, <3>2
      <4>2. u \notin Member(wait[f])
        BY <2>2, <3>1, <3>2
      <4>3. u \in Member(wait'[f]) <=> f = e
        BY <2>4, <3>2, <4>2
      <4> QED
        BY <4>1, <4>3
    <3>3. CASE u # t
      <4>1. ev'[u] = ev[u] /\ stat'[u] = stat[u] /\ statPend'[u] = statPend[u]
        BY <2>3, <3>3
      <4>2. u \in Member(wait'[f]) <=> u \in Member(wait[f])
        BY <2>4, <3>3
      <4> QED
        BY <3>1, <4>1, <4>2
    <3> QED
      BY <3>2, <3>3
  <2>7. TaskInv'
    BY <1>0, <2>3 DEF Tasks, TaskInv
  <2>8. IdleInv'
    BY <1>0, <2>3 DEF Tasks, IdleInv
  <2> QED
    BY <2>5, <2>6, <2>7, <2>8 DEF Tasks, Listed
<1>2. ASSUME NEW e \in Event, PendTakes(t, e) PROVE Tasks'
  BY <1>2, TasksSame, PlaceKept DEF PendTakes, lists, tcb
<1>3. ASSUME NEW e \in Event, TaskPost(t, e) PROVE Tasks'
  <2>1. Post(e) /\ pc[t] = "run" /\ ev' = ev
    BY <1>3 DEF TaskPost, Enter
  <2>2. SamePlaces
    BY <1>3, <2>1, PlaceKept, PlaceMoved DEF TaskPost, place
  <2> QED
    BY <2>1, <2>2, PostTasks
<1>4. ASSUME NEW n \in Ticks, OSTimeDly(t, n) PROVE Tasks'
  <2>1. /\ pc[t] = "run" /\ n \in Nat /\ n > 0
        /\ dly' = [dly EXCEPT ![t] = n] /\ pc' = [pc EXCEPT ![t] = "posted"]
        /\ UNCHANGED <<wait, stat, statPend, ev>>
        /\ Member(rdy') = Member(rdy) \ {t}
    BY <1>0, <1>4, RdyRemove, KernelAssumption DEF OSTimeDly, Enter
  <2>2. Listed'
    BY <1>0, <2>1 DEF Tasks, Listed
  <2>3. TaskInv' /\ IdleInv'
    BY <1>0, <2>1 DEF Tasks, TaskInv, IdleInv
  <2> QED
    BY <2>2, <2>3 DEF Tasks
<1>5. CASE OSSchedLock(t)
  BY <1>5, TasksSame, PlaceKept DEF OSSchedLock, lists, tcb
<1>6. CASE OSTaskSuspend(t)
  <2>1. /\ pc[t] = "run"
        /\ stat' = [stat EXCEPT ![t] = "suspend"] /\ pc' = [pc EXCEPT ![t] = "posted"]
        /\ UNCHANGED <<wait, dly, statPend, ev>>
        /\ Member(rdy') = Member(rdy) \ {t}
    BY <1>0, <1>6, RdyRemove DEF OSTaskSuspend, Enter
  <2>2. Listed'
    <3>1. ev[t] \notin Event
      BY <1>0, <2>1 DEF Tasks, TaskInv
    <3> QED
      BY <1>0, <2>1, <3>1 DEF Tasks, Listed
  <2>3. TaskInv' /\ IdleInv'
    BY <1>0, <2>1 DEF Tasks, TaskInv, IdleInv
  <2> QED
    BY <2>2, <2>3 DEF Tasks
<1> QED
  BY <1>1, <1>2, <1>3, <1>4, <1>5, <1>6 DEF Call

LEMMA KernelTasks ==
  ASSUME Inv, NEW t \in Task, Kernel(t)
  PROVE  Tasks'
<1> USE TasksHold, EventNames DEF RestTypes
<1>1. CASE Schedule(t)
  <2>1. t \in Worker
    BY <1>1 DEF Schedule, Tasks, IdleInv, Worker
  <2>2. SamePlaces
    BY <1>1, <2>1, PlaceMoved DEF Schedule
  <2> QED
    BY <1>1, <2>2, TasksSame DEF Schedule, lists, tcb
<1>2. CASE OSSchedUnlock(t)
  <2>1. t \in Worker
    BY <1>2 DEF OSSchedUnlock, Runs, Inv, SwitchInv, Worker
  <2>2. SamePlaces
    BY <1>2, <2>1, PlaceMoved DEF OSSchedUnlock
  <2> QED
    BY <1>2, <2>2, TasksSame DEF OSSchedUnlock, lists, tcb
<1>3. CASE PendOk(t) \/ PendTimeout(t)
  <2>1. /\ pc[t] = "resume" /\ stat[t] = "rdy" /\ dly[t] = 0 /\ t \in Member(rdy) /\ ev[t] \in Event
        /\ t # Idle
    BY <1>3, RunnerReady DEF PendOk, PendTimeout, Tasks, TaskInv, IdleInv
  <2>2. /\ stat' = [stat EXCEPT ![t] = "rdy"] /\ statPend' = [statPend EXCEPT ![t] = "ok"]
        /\ pc' = [pc EXCEPT ![t] = "run"] /\ ev' = [ev EXCEPT ![t] = "none"]
        /\ UNCHANGED <<rdy, dly>>
    BY <1>3 DEF PendOk, PendTimeout, Return
  <2>3. ASSUME NEW f \in Event
        PROVE  Member(wait'[f]) = Member(wait[f]) \ {t}
    <3>1. t \in Member(wait[f]) <=> (ev[t] = f /\ (stat[t] = f \/ statPend[t] = "to"))
      BY DEF Tasks, Listed
    <3>2. CASE PendOk(t)
      <4>1. wait' = wait /\ statPend[t] = "ok"
        BY <3>2 DEF PendOk
      <4> QED
        BY <2>1, <3>1, <4>1
    <3>3. CASE PendTimeout(t)
      <4>1. wait' = [wait EXCEPT ![ev[t]] = Remove(@, t)]
        BY <3>3 DEF PendTimeout
      <4>2. Member(wait'[f]) = IF f = ev[t] THEN Member(wait[f]) \ {t} ELSE Member(wait[f])
        BY <2>1, <4>1, WaitRemove
      <4> QED
        BY <3>1, <4>2
    <3> QED
      BY <1>3, <3>2, <3>3
  <2>4. \A u \in Task : u \in Member(rdy') <=> (stat'[u] = "rdy" /\ dly'[u] = 0)
    BY <2>1, <2>2 DEF Tasks, Listed
  <2>5. ASSUME NEW f \in Event, NEW u \in Task
        PROVE  u \in Member(wait'[f]) <=> (ev'[u] = f /\ (stat'[u] = f \/ statPend'[u] = "to"))
    <3>1. CASE u = t
      <4>1. ev'[u] = "none"
        BY <2>2, <3>1
      <4> QED
        BY <2>3, <3>1, <4>1
    <3>2. CASE u # t
      <4>1. ev'[u] = ev[u] /\ stat'[u] = stat[u] /\ statPend'[u] = statPend[u]
        BY <2>2, <3>2
      <4> QED
        <5>1. u \in Member(wait[f]) <=> (ev[u] = f /\ (stat[u] = f \/ statPend[u] = "to"))
          BY DEF Tasks, Listed
        <5>2. u \in Member(wait'[f]) <=> u \in Member(wait[f])
          BY <2>3, <3>2
        <5> QED
          BY <4>1, <5>1, <5>2
    <3> QED
      BY <3>1, <3>2
  <2>6. TaskInv'
    BY <2>2 DEF Tasks, TaskInv
  <2>7. IdleInv'
    BY <2>1, <2>2 DEF Tasks, IdleInv
  <2> QED
    BY <2>4, <2>5, <2>6, <2>7 DEF Tasks, Listed
<1> QED
  BY <1>1, <1>2, <1>3 DEF Kernel

LEMMA InterruptTasks ==
  ASSUME Inv, Tick \/ PendSV \/ (\E e \in Event : IsrPost(e))
  PROVE  Tasks'
<1> USE TasksHold, EventNames DEF RestTypes
<1>1. CASE TickTask
  <2>1. PICK t : t = TcbList[tick]
    OBVIOUS
  <2>2. t \in Task /\ t # Idle
    BY <1>1, <2>1, KernelAssumption, ElementOfSeq DEF TickTask, Worker
  <2>3. UNCHANGED <<wait, pc, ev>>
    BY <1>1 DEF TickTask, place
  <2>4. CASE ~Expires(t)
    <3>1. /\ dly' = [dly EXCEPT ![t] = IF @ > 0 THEN @ - 1 ELSE 0]
          /\ UNCHANGED <<stat, statPend, rdy>>
      BY <1>1, <2>1, <2>4 DEF TickTask
    <3>2. \A u \in Task : dly'[u] = 0 <=> dly[u] = 0
      BY <2>2, <2>4, <3>1 DEF Expires
    <3>3. Listed' /\ IdleInv'
      BY <2>2, <2>3, <3>1, <3>2 DEF Tasks, Listed, IdleInv
    <3>4. TaskInv'
      BY <2>3, <3>1, <3>2 DEF Tasks, TaskInv
    <3> QED
      BY <3>3, <3>4 DEF Tasks
  <2>5. CASE Expires(t)
    <3>1. /\ statPend' = [statPend EXCEPT ![t] = IF stat[t] \in Event THEN "to" ELSE "ok"]
          /\ stat' = [stat EXCEPT ![t] = IF @ \in Event THEN "rdy" ELSE @]
          /\ dly' = [dly EXCEPT ![t] = 0] /\ rdy' = Readied(t)
      BY <1>1, <2>1, <2>5 DEF TickTask
    <3>2. /\ stat'[t] = (IF stat[t] \in Event THEN "rdy" ELSE stat[t]) /\ dly'[t] = 0
          /\ statPend'[t] = (IF stat[t] \in Event THEN "to" ELSE "ok")
          /\ \A u \in Task : u # t => /\ stat'[u] = stat[u] /\ dly'[u] = dly[u]
                                      /\ statPend'[u] = statPend[u]
      BY <2>2, <3>1
    <3>3. dly[t] = 1 /\ (ev[t] \in Event => stat[t] = ev[t]) /\ statPend[t] # "to"
      <4>1. dly[t] = 1
        BY <2>5 DEF Expires
      <4> QED
        BY <2>2, <4>1 DEF Tasks, TaskInv
    <3>4. \A u \in Task : u \in Member(rdy') <=> (stat'[u] = "rdy" /\ dly'[u] = 0)
      <4>1. CASE stat[t] = "suspend"
        <5>1. rdy' = rdy
          BY <3>1, <4>1 DEF Readied
        <5> QED
          BY <2>2, <3>2, <3>3, <4>1, <5>1 DEF Tasks, Listed
      <4>2. CASE stat[t] # "suspend"
        <5>1. rdy' = Put(rdy, t)
          BY <3>1, <4>2 DEF Readied
        <5>2. Member(rdy') = Member(rdy) \cup {t} /\ stat'[t] = "rdy"
          BY <2>2, <3>2, <4>2, <5>1, RdyPut
        <5> QED
          BY <2>2, <3>2, <5>2 DEF Tasks, Listed
      <4> QED
        BY <4>1, <4>2
    <3>5. ASSUME NEW f \in Event, NEW u \in Task
          PROVE  u \in Member(wait'[f]) <=> (ev'[u] = f /\ (stat'[u] = f \/ statPend'[u] = "to"))
      <4>1. u \in Member(wait[f]) <=> (ev[u] = f /\ (stat[u] = f \/ statPend[u] = "to"))
        BY DEF Tasks, Listed
      <4>2. CASE u = t
        BY <2>3, <3>2, <3>3, <4>1, <4>2
      <4>3. CASE u # t
        BY <2>3, <3>2, <4>1, <4>3
      <4> QED
        BY <4>2, <4>3
    <3>6. TaskInv'
      <4> SUFFICES ASSUME NEW u \in Task
                   PROVE  /\ ev'[u] \in Event <=> pc'[u] \in {"pended", "resume"}
                          /\ ev'[u] \in Event => stat'[u] \in {"rdy", ev'[u]}
                          /\ stat'[u] \in Event => ev'[u] = stat'[u] /\ statPend'[u] = "ok"
                          /\ statPend'[u] = "to" => ev'[u] \in Event /\ stat'[u] = "rdy"
                          /\ ev'[u] \in Event /\ stat'[u] = "rdy" => dly'[u] = 0
        BY DEF TaskInv
      <4>1. CASE u = t
        BY <2>3, <3>2, <3>3, <4>1 DEF Tasks, TaskInv
      <4>2. CASE u # t
        BY <2>3, <3>2, <4>2 DEF Tasks, TaskInv
      <4> QED
        BY <4>1, <4>2
    <3>7. IdleInv'
      BY <2>2, <2>3, <3>2, KernelAssumption DEF Tasks, IdleInv
    <3> QED
      BY <3>4, <3>5, <3>6, <3>7 DEF Tasks, Listed
  <2> QED
    BY <2>4, <2>5
<1>2. CASE TickStart \/ TickExit \/ PendSV
  BY <1>2, TasksSame, PlaceKept DEF TickStart, TickExit, PendSV, lists, tcb
<1>3. ASSUME NEW e \in Event, IsrPost(e) PROVE Tasks'
  BY <1>3, PostTasks, PlaceKept DEF IsrPost
<1> QED
  BY <1>1, <1>2, <1>3 DEF Tick

LEMMA TasksStep ==
  ASSUME Inv, [Next]_vars
  PROVE  Tasks'
<1>1. CASE UNCHANGED vars
  BY <1>1, TasksHold, TasksSame, PlaceKept DEF vars, lists, tcb, place
<1>2. Worker \subseteq Task /\ Idle \in Task
  BY KernelAssumption DEF Worker
<1> QED
  BY <1>1, <1>2, CallTasks, KernelTasks, InterruptTasks DEF Next

-----------------------------------------------------------------------------
(* The right task runs.                                                     *)

(* OS_Sched and OSIntExit look at the list as it is then.                   *)
LEMMA RescheduleSwitch ==
  ASSUME Inv, tick' = 0, UNCHANGED <<cur, lock, pc>>, Reschedule(rdy'),
         lock = 0 \/ (~pendsv /\ (pc[cur] \in {"run", "resume"} => cur \in Member(rdy'))),
         First(rdy') \in Member(rdy')
  PROVE  SwitchInv'
<1>1. CASE lock = 0
  <2>1. high' = First(rdy') /\ (~pendsv' => First(rdy') = cur)
    BY <1>1 DEF Reschedule
  <2> QED
    BY <1>1, <2>1 DEF SwitchInv
<1>2. CASE lock # 0
  <2>1. UNCHANGED <<high, pendsv>>
    BY <1>2 DEF Reschedule
  <2> QED
    BY <1>2, <2>1 DEF SwitchInv, Inv
<1> QED
  BY <1>1, <1>2

(* The ready list after a step has its first task.                          *)
LEMMA FirstAfter ==
  ASSUME Inv, [Next]_vars
  PROVE  First(rdy') \in Member(rdy')
<1>1. PICK r : r = rdy'
  OBVIOUS
<1>2. r \in List /\ Exact(r)
  BY <1>1, ListTypesStep DEF ListTypes
<1>3. Idle \in Member(rdy')
  BY KernelAssumption, TasksStep DEF Tasks, Listed, IdleInv
<1> QED
  BY <1>1, <1>2, <1>3, FirstIs

LEMMA PostSwitch ==
  ASSUME Inv, NEW e \in Event, Post(e)
  PROVE  /\ Member(rdy) \subseteq Member(rdy')
         /\ ~Waiting(e) => rdy' = rdy
<1>1. ASSUME NEW t \in Task, HandsTo(e, t) PROVE Member(rdy) \subseteq Member(rdy') /\ Waiting(e)
  BY <1>1, RdyPut DEF HandsTo
<1> QED
  BY <1>1, PostCases DEF StoresIn, lists

LEMMA CallSwitch ==
  ASSUME Inv, NEW t \in Worker, Call(t)
  PROVE  SwitchInv'
<1>0. t \in Task /\ t # Idle /\ pc \in [Task -> {"run", "pended", "resume", "posted"}]
  BY DEF Worker, Inv, TypeOK
<1>1. t = cur /\ ~pendsv /\ tick = 0 /\ pc[t] = "run" /\ lock = 0
  BY DEF Call, PendTakes, TaskPost, PendWaits, OSTimeDly, OSSchedLock, OSTaskSuspend, Enter, Runs
<1>2. cur \in Member(rdy) /\ cur = First(rdy)
  BY <1>1 DEF Inv, SwitchInv
<1>3. ASSUME UNCHANGED switch, pc' = [pc EXCEPT ![t] = "pended"] \/ pc' = [pc EXCEPT ![t] = "posted"]
      PROVE  SwitchInv'
  BY <1>0, <1>1, <1>3 DEF SwitchInv, switch
<1>4. ASSUME UNCHANGED <<rdy, pc, cur, high, pendsv, tick>>, lock' \in {0, 1} PROVE SwitchInv'
  BY <1>0, <1>1, <1>2, <1>4 DEF SwitchInv
<1>5. ASSUME NEW e \in Event, PendTakes(t, e) PROVE SwitchInv'
  BY <1>1, <1>4, <1>5 DEF PendTakes, lists, place, switch
<1>6. ASSUME NEW e \in Event, TaskPost(t, e) PROVE SwitchInv'
  <2>1. CASE Waiting(e)
    BY <1>3, <1>6, <2>1 DEF TaskPost
  <2>2. CASE ~Waiting(e)
    BY <1>1, <1>4, <1>6, <2>2, PostSwitch DEF TaskPost, switch
  <2> QED
    BY <2>1, <2>2
<1>7. ASSUME NEW e \in Event, NEW n \in Ticks, PendWaits(t, e, n) PROVE SwitchInv'
  BY <1>3, <1>7 DEF PendWaits
<1>8. ASSUME NEW n \in Ticks, OSTimeDly(t, n) PROVE SwitchInv'
  BY <1>3, <1>8 DEF OSTimeDly
<1>9. CASE OSSchedLock(t)
  BY <1>4, <1>9 DEF OSSchedLock, lists, place
<1>10. CASE OSTaskSuspend(t)
  BY <1>3, <1>10 DEF OSTaskSuspend
<1> QED
  BY <1>5, <1>6, <1>7, <1>8, <1>9, <1>10 DEF Call

LEMMA KernelSwitch ==
  ASSUME Inv, NEW t \in Task, Kernel(t)
  PROVE  SwitchInv'
<1>0. pc \in [Task -> {"run", "pended", "resume", "posted"}] /\ lock \in {0, 1}
  BY DEF Inv, TypeOK
<1>1. t = cur /\ ~pendsv /\ tick = 0
  BY DEF Kernel, Schedule, PendOk, PendTimeout, OSSchedUnlock, Runs
<1>2. CASE Schedule(t)
  <2>1. lock = 0 /\ UNCHANGED <<rdy, cur, lock, tick>>
    BY <1>0, <1>1, <1>2 DEF Schedule, Inv, SwitchInv, lists
  <2>2. high' = First(rdy) /\ (~pendsv' => First(rdy) = cur)
    BY <1>1, <1>2, <2>1 DEF Schedule, Reschedule
  <2> QED
    BY <1>1, <2>1, <2>2, RdyTypes DEF SwitchInv
<1>3. CASE PendOk(t) \/ PendTimeout(t)
  <2>1. UNCHANGED <<rdy, switch>> /\ pc[t] = "resume" /\ pc' = [pc EXCEPT ![t] = "run"]
    BY <1>3 DEF PendOk, PendTimeout, Return
  <2>2. pc'[cur] = "run" /\ UNCHANGED <<rdy, cur, high, pendsv, lock, tick>>
    BY <1>0, <1>1, <2>1 DEF switch
  <2> QED
    BY <1>1, <2>1, <2>2 DEF Inv, SwitchInv
<1>4. CASE OSSchedUnlock(t)
  BY <1>0, <1>1, <1>4 DEF OSSchedUnlock, SwitchInv
<1> QED
  BY <1>2, <1>3, <1>4 DEF Kernel

LEMMA InterruptSwitch ==
  ASSUME Inv, Tick \/ PendSV \/ (\E e \in Event : IsrPost(e))
  PROVE  SwitchInv'
<1>0. lock \in {0, 1} /\ First(rdy') \in Member(rdy')
  BY FirstAfter DEF Inv, TypeOK, Next
<1>1. CASE TickStart
  BY <1>1 DEF TickStart, Inv, SwitchInv, lists, place
<1>2. CASE TickTask
  <2>1. PICK t : t = TcbList[tick]
    OBVIOUS
  <2>2. t \in Task
    BY <1>2, <2>1, KernelAssumption, ElementOfSeq DEF TickTask, Worker
  <2>3. rdy' = rdy \/ rdy' = Put(rdy, t)
    BY <1>2, <2>1 DEF TickTask, Readied
  <2>4. Member(rdy) \subseteq Member(rdy')
    BY <2>2, <2>3, RdyPut
  <2>5. tick # 0 /\ tick' # 0 /\ UNCHANGED <<pc, cur, high, pendsv, lock>>
    BY <1>2, KernelAssumption, LenProperties DEF TickTask, place
  <2> QED
    BY <2>4, <2>5 DEF Inv, SwitchInv
<1>3. CASE TickExit
  <2>1. tick # 0 /\ rdy' = rdy
    BY <1>3, KernelAssumption, LenProperties DEF TickExit, lists
  <2>2. ~pendsv /\ (pc[cur] \in {"run", "resume"} => cur \in Member(rdy'))
    BY <2>1 DEF Inv, SwitchInv
  <2> QED
    BY <1>0, <1>3, <2>1, <2>2, RescheduleSwitch DEF TickExit, place
<1>4. CASE PendSV
  <2>1. /\ high = First(rdy) /\ lock = 0 /\ tick = 0 /\ cur' = high /\ ~pendsv'
        /\ UNCHANGED <<rdy, pc, lock, tick>>
    BY <1>4 DEF PendSV, Inv, SwitchInv, lists, place
  <2> QED
    BY <1>0, <2>1 DEF SwitchInv
<1>5. ASSUME NEW e \in Event, IsrPost(e) PROVE SwitchInv'
  <2>1. Post(e) /\ UNCHANGED <<pc, cur, lock, tick>>
    BY <1>5 DEF IsrPost, place
  <2>2. Member(rdy) \subseteq Member(rdy') /\ (~Waiting(e) => rdy' = rdy)
    BY <2>1, PostSwitch
  <2>3. CASE Waiting(e) /\ tick = 0
    <3>1. Reschedule(rdy')
      BY <1>5, <2>3 DEF IsrPost, Nesting
    <3>2. lock = 0 \/ (~pendsv /\ (pc[cur] \in {"run", "resume"} => cur \in Member(rdy')))
      BY <1>0, <2>2 DEF Inv, SwitchInv
    <3> QED
      BY <1>0, <2>1, <2>3, <3>1, <3>2, RescheduleSwitch
  <2>4. CASE ~Waiting(e)
    <3>1. UNCHANGED <<rdy, high, pendsv>>
      BY <1>5, <2>2, <2>4 DEF IsrPost
    <3> QED
      BY <2>1, <3>1 DEF Inv, SwitchInv
  <2>5. CASE tick # 0
    <3>1. UNCHANGED <<high, pendsv>>
      BY <1>5, <2>5 DEF IsrPost, Nesting
    <3> QED
      BY <2>1, <2>2, <2>5, <3>1 DEF Inv, SwitchInv
  <2> QED
    BY <2>3, <2>4, <2>5
<1> QED
  BY <1>1, <1>2, <1>3, <1>4, <1>5 DEF Tick

LEMMA InvStep ==
  ASSUME Inv, [Next]_vars
  PROVE  Inv'
<1>1. TypeOK' /\ ListTypes' /\ Tasks'
  BY TypeStep, ListTypesStep, TasksStep
<1>2. ListsExact'
  BY <1>1 DEF ListsExact, ListTypes, Tasks, Listed
<1>3. SwitchInv'
  <2>1. CASE UNCHANGED vars
    BY <2>1 DEF vars, lists, place, switch, Inv, SwitchInv
  <2>2. Worker \subseteq Task /\ Idle \in Task
    BY KernelAssumption DEF Worker
  <2> QED
    BY <2>1, <2>2, CallSwitch, KernelSwitch, InterruptSwitch DEF Next
<1> QED
  BY <1>1, <1>2, <1>3 DEF Inv, Tasks

LEMMA InvInit == Init => Inv
<1> SUFFICES ASSUME Init PROVE Inv
  OBVIOUS
<1> USE EventNames DEF Init
<1>1. rdy \in List /\ Exact(rdy) /\ Member(rdy) = Task
  <2>1. /\ rdy.grp = {Y(t) : t \in Task}
        /\ rdy.tbl = [y \in Group |-> {t \in Task : Y(t) = y}]
        /\ rdy.grp \subseteq Group
    BY Groups
  <2>2. rdy \in List
    BY <2>1 DEF List
  <2>3. Exact(rdy)
    BY <2>1 DEF Exact
  <2>4. Member(rdy) = Task
    BY <2>1, Groups DEF Member
  <2> QED
    BY <2>2, <2>3, <2>4
<1>2. \A e \in Event : wait[e] \in List /\ Exact(wait[e]) /\ Member(wait[e]) = {}
  BY EmptyList
<1>3. First(rdy) \in Task /\ First(rdy) \in Member(rdy)
  BY <1>1, FirstIs, KernelAssumption
<1>4. TypeOK
  <2>1. /\ q \in [Queue -> Seq(Nat)] /\ got \in [Queue -> Seq(Nat)]
        /\ cnt \in [Sem -> Nat] /\ nmsg \in [Queue -> Nat] /\ nsig \in [Sem -> Nat] /\ ntake \in [Sem -> Nat]
    BY EmptySeq, KernelAssumption
  <2>2. /\ stat \in [Task -> {"rdy", "suspend"} \cup Event] /\ dly \in [Task -> Nat]
        /\ statPend \in [Task -> {"ok", "to"}] /\ msg \in [Task -> Nat]
        /\ pc \in [Task -> {"run", "pended", "resume", "posted"}]
        /\ ev \in [Task -> {"none"} \cup Event]
    OBVIOUS
  <2>3. /\ wait \in [Event -> List] /\ cur \in Task /\ high \in Task /\ pendsv \in BOOLEAN
        /\ lock \in {0, 1} /\ tick \in 0..(Len(TcbList) + 1)
    BY <1>2, <1>3, KernelAssumption, LenProperties
  <2> QED
    BY <1>1, <2>1, <2>2, <2>3 DEF TypeOK
<1>5. ListsExact
  BY <1>1, <1>2 DEF ListsExact
<1>6. TaskInv /\ IdleInv
  BY KernelAssumption DEF TaskInv, IdleInv
<1>7. SwitchInv
  BY DEF SwitchInv
<1> QED
  BY <1>4, <1>5, <1>6, <1>7 DEF Inv

-----------------------------------------------------------------------------
(* The lists, TCBs and the scheduler's variables satisfy the inductive      *)
(* invariant at every step of the tasks and of the interrupts.              *)
THEOREM InvCorrect == Spec => []Inv
<1>1. Init => Inv
  BY InvInit
<1>2. Inv /\ [Next]_vars => Inv'
  BY InvStep
<1> QED
  BY <1>1, <1>2, PTL DEF Spec

(* TypeOK: no priority leaves the bitmaps, no count becomes negative and    *)
(* the tick does not leave the TCB list, for any tasks, events and sizes.   *)
THEOREM TypeCorrect == Spec => []TypeOK
<1>1. Inv => TypeOK
  BY DEF Inv
<1> QED
  BY <1>1, InvCorrect, PTL

(* ListsExact: the bitmaps OSRdyTbl and OSEventTbl and their group bytes    *)
(* hold exactly the tasks whose TCBs say so, also when OSQPost meets the    *)
(* timeout of the task it wakes.                                            *)
THEOREM ListsExactCorrect == Spec => []ListsExact
<1>1. Inv => ListsExact
  BY DEF Inv
<1> QED
  BY <1>1, InvCorrect, PTL

(* IdleReady: without delay_ms in an interrupt the idle task is always in   *)
(* the ready list, so OS_SchedNew finds a task.                             *)
THEOREM IdleReadyCorrect == Spec => []IdleReady
<1>1. Inv => IdleReady
  BY RdyTypes DEF IdleReady
<1> QED
  BY <1>1, InvCorrect, PTL

(* HighestRuns: the task that runs is the ready task of the highest         *)
(* priority unless a switch is on its way, and none runs on from OSxxxPend  *)
(* or OSTimeDly before it is ready.                                         *)
THEOREM HighestRunsCorrect == Spec => []HighestRuns
<1>1. Inv => HighestRuns
  <2> SUFFICES ASSUME Inv PROVE HighestRuns
    OBVIOUS
  <2>1. /\ pc[cur] \in {"run", "pended", "resume", "posted"} /\ lock \in {0, 1}
        /\ \A t \in Member(rdy) : First(rdy) <= t
    BY RdyTypes, FirstIs DEF Inv, TypeOK
  <2>2. ~InSwitch => cur \in Member(rdy) /\ \A t \in Member(rdy) : cur <= t
    BY <2>1 DEF InSwitch, Inv, SwitchInv
  <2>3. \A t \in Task : Runs(t) /\ pc[t] \in {"run", "resume"} => t \in Member(rdy)
    BY DEF Runs, Inv, SwitchInv
  <2> QED
    BY <2>2, <2>3 DEF HighestRuns
<1> QED
  BY <1>1, InvCorrect, PTL

-----------------------------------------------------------------------------
(* Messages and signals.                                                    *)

LEMMA RemoveGroups ==
  ASSUME NEW l, NEW t
  PROVE  Remove(l, t).grp \subseteq l.grp
BY DEF Remove

(* Whether a task waits, and whether something is there, after a step that  *)
(* neither posts nor starts to wait                                         *)
LEMMA VainSame ==
  ASSUME Inv, NoneWaitsInVain,
         \A e \in Event : Waiting(e)' => Waiting(e),
         \A e \in Event : Available(e)' => Available(e)
  PROVE  NoneWaitsInVain'
BY DEF NoneWaitsInVain

LEMMA WaitKept ==
  UNCHANGED <<wait, events>> => \A e \in Event : (Waiting(e)' => Waiting(e)) /\ (Available(e)' => Available(e))
BY DEF Waiting, Available, events

LEMMA PostVain ==
  ASSUME Inv, NoneWaitsInVain, NEW e \in Event, Post(e)
  PROVE  NoneWaitsInVain'
<1> USE RestTypesHold, ListTypesHold DEF RestTypes, ListTypes
<1>1. ASSUME NEW t \in Task, HandsTo(e, t) PROVE NoneWaitsInVain'
  <2>1. UNCHANGED events /\ wait' = [wait EXCEPT ![e] = Remove(@, t)]
    BY <1>1 DEF HandsTo
  <2>2. \A f \in Event : Waiting(f)' => Waiting(f)
    BY <2>1, RemoveGroups DEF Waiting
  <2>3. \A f \in Event : Available(f)' => Available(f)
    BY <2>1 DEF Available, events
  <2> QED
    BY <2>2, <2>3, VainSame
<1>2. CASE StoresIn(e)
  <2>1. ~Waiting(e) /\ wait' = wait
    BY <1>2 DEF StoresIn, lists
  <2>2. \A f \in Event : f # e => (Available(f)' => Available(f))
    <3>1. CASE e \in Queue /\ q' = [q EXCEPT ![e] = Append(@, nmsg[e] + 1)] /\ cnt' = cnt
      BY <3>1 DEF Available
    <3>2. CASE e \in Sem /\ cnt' = [cnt EXCEPT ![e] = @ + 1] /\ q' = q
      <4>1. \A f \in Sem : f # e => cnt'[f] = cnt[f]
        BY <3>2
      <4> QED
        BY <3>2, <4>1 DEF Available, Event
    <3> QED
      BY <1>2, <3>1, <3>2 DEF StoresIn, Store
  <2> QED
    BY <2>1, <2>2 DEF NoneWaitsInVain, Waiting
<1> QED
  BY <1>1, <1>2, PostCases

LEMMA VainStep ==
  ASSUME Inv, NoneWaitsInVain, [Next]_vars
  PROVE  NoneWaitsInVain'
<1> USE RestTypesHold, ListTypesHold DEF RestTypes, ListTypes
<1>1. ASSUME UNCHANGED <<wait, events>> PROVE NoneWaitsInVain'
  BY <1>1, WaitKept, VainSame
<1>2. ASSUME NEW t \in Task, Kernel(t) PROVE NoneWaitsInVain'
  <2>1. CASE PendTimeout(t)
    <3>1. UNCHANGED events /\ wait' = [wait EXCEPT ![ev[t]] = Remove(@, t)]
      BY <2>1 DEF PendTimeout, Return
    <3>2. \A f \in Event : Waiting(f)' => Waiting(f)
      BY <3>1, RemoveGroups DEF Waiting
    <3>3. \A f \in Event : Available(f)' => Available(f)
      BY <3>1 DEF Available, events
    <3> QED
      BY <3>2, <3>3, VainSame
  <2> QED
    BY <1>1, <1>2, <2>1 DEF Kernel, Schedule, PendOk, Return, OSSchedUnlock, lists
<1>3. ASSUME NEW t \in Worker, Call(t) PROVE NoneWaitsInVain'
  <2>1. ASSUME NEW e \in Event, NEW n \in Ticks, PendWaits(t, e, n) PROVE NoneWaitsInVain'
    <3>1. UNCHANGED events /\ wait' = [wait EXCEPT ![e] = Put(@, t)] /\ ~Available(e)
      BY <2>1 DEF PendWaits
    <3>2. \A f \in Event : Available(f)' => Available(f)
      BY <3>1 DEF Available, events
    <3>3. \A f \in Event : f # e => (Waiting(f)' => Waiting(f))
      BY <3>1 DEF Waiting
    <3> QED
      BY <3>1, <3>2, <3>3 DEF NoneWaitsInVain
  <2>2. ASSUME NEW e \in Event, PendTakes(t, e) PROVE NoneWaitsInVain'
    <3>1. wait' = wait /\ Take(e) /\ Available(e)
      BY <2>2 DEF PendTakes, lists
    <3>2. ~Waiting(e)'
      BY <3>1 DEF NoneWaitsInVain, Waiting
    <3>3. \A f \in Event : f # e => (Available(f)' => Available(f))
      <4>1. CASE e \in Queue /\ q' = [q EXCEPT ![e] = Tail(@)] /\ cnt' = cnt
        BY <4>1 DEF Available
      <4>2. CASE e \in Sem /\ cnt' = [cnt EXCEPT ![e] = @ - 1] /\ q' = q
        <5>1. \A f \in Sem : f # e => cnt'[f] = cnt[f]
          BY <4>2
        <5> QED
          BY <4>2, <5>1 DEF Available, Event
      <4> QED
        BY <3>1, <4>1, <4>2 DEF Take
    <3> QED
      BY <3>1, <3>2, <3>3 DEF NoneWaitsInVain, Waiting
  <2>3. ASSUME NEW e \in Event, TaskPost(t, e) PROVE NoneWaitsInVain'
    BY <2>3, PostVain DEF TaskPost
  <2>4. ASSUME NEW n \in Ticks, OSTimeDly(t, n) PROVE NoneWaitsInVain'
    BY <2>4, <1>1 DEF OSTimeDly
  <2>5. CASE OSSchedLock(t)
    BY <2>5, <1>1 DEF OSSchedLock, lists
  <2>6. CASE OSTaskSuspend(t)
    BY <2>6, <1>1 DEF OSTaskSuspend
  <2> QED
    BY <1>3, <2>1, <2>2, <2>3, <2>4, <2>5, <2>6 DEF Call
<1>4. CASE Tick \/ PendSV \/ UNCHANGED vars
  BY <1>1, <1>4 DEF Tick, TickStart, TickTask, TickExit, PendSV, vars, lists
<1>5. ASSUME NEW e \in Event, IsrPost(e) PROVE NoneWaitsInVain'
  BY <1>5, PostVain DEF IsrPost
<1>6. Worker \subseteq Task /\ Idle \in Task
  BY KernelAssumption DEF Worker
<1> QED
  BY <1>2, <1>3, <1>4, <1>5, <1>6 DEF Next

(* NoneWaitsInVain: no task is in the wait list of a queue that holds a     *)
(* message or of a semaphore that is free.                                  *)
THEOREM NoneWaitsInVainCorrect == Spec => []NoneWaitsInVain
<1>1. Init => NoneWaitsInVain
  BY DEF Init, NoneWaitsInVain, Waiting, Empty
<1>2. Inv /\ NoneWaitsInVain /\ [Next]_vars => NoneWaitsInVain'
  BY VainStep
<1> QED
  BY <1>1, <1>2, InvCorrect, PTL DEF Spec

(* Who may be in OSxxxPend for an event.                                    *)
ReaderInv == \A t \in Task : ev[t] \in Event => t \in Reader(ev[t])

LEMMA ReaderStep ==
  ASSUME Inv, ReaderInv, [Next]_vars
  PROVE  ReaderInv'
<1> USE RestTypesHold, EventNames DEF RestTypes
<1>1. ASSUME UNCHANGED ev PROVE ReaderInv'
  BY <1>1 DEF ReaderInv, Reader
<1>2. ASSUME NEW t \in Task, ev' = [ev EXCEPT ![t] = "none"] PROVE ReaderInv'
  BY <1>2 DEF ReaderInv, Reader
<1>3. ASSUME NEW t \in Worker, NEW e \in Event, e \in Pends[t], ev' = [ev EXCEPT ![t] = e] PROVE ReaderInv'
  BY <1>3 DEF ReaderInv, Reader, Worker
<1>4. ASSUME NEW t \in Task, Kernel(t) PROVE ReaderInv'
  BY <1>1, <1>2, <1>4 DEF Kernel, Schedule, PendOk, PendTimeout, Return, OSSchedUnlock
<1>5. ASSUME NEW t \in Worker, Call(t) PROVE ReaderInv'
  <2>1. ASSUME NEW e \in Event, NEW n \in Ticks, PendWaits(t, e, n) PROVE ReaderInv'
    BY <1>3, <2>1 DEF PendWaits
  <2>2. ASSUME NEW e \in Event, PendTakes(t, e) \/ TaskPost(t, e) PROVE ReaderInv'
    BY <1>1, <2>2 DEF PendTakes, TaskPost, place
  <2>3. ASSUME NEW n \in Ticks, OSTimeDly(t, n) PROVE ReaderInv'
    BY <1>1, <2>3 DEF OSTimeDly
  <2>4. CASE OSSchedLock(t) \/ OSTaskSuspend(t)
    BY <1>1, <2>4 DEF OSSchedLock, OSTaskSuspend, place
  <2> QED
    BY <1>5, <2>1, <2>2, <2>3, <2>4 DEF Call
<1>6. CASE Tick \/ PendSV \/ (\E e \in Event : IsrPost(e)) \/ UNCHANGED vars
  BY <1>1, <1>6 DEF Tick, TickStart, TickTask, TickExit, PendSV, IsrPost, vars, place
<1>7. Worker \subseteq Task /\ Idle \in Task
  BY KernelAssumption DEF Worker
<1> QED
  BY <1>4, <1>5, <1>6, <1>7 DEF Next

LEMMA InHandFinite ==
  ASSUME NEW e
  PROVE  IsFiniteSet(InHand(e)) /\ Cardinality(InHand(e)) \in Nat
<1>0. 0 \in Int /\ 63 \in Int
  OBVIOUS
<1>1. IsFiniteSet(0..63)
  BY <1>0, FS_Interval, Zenon
<1>2. InHand(e) \subseteq 0..63
  BY KernelAssumption DEF InHand
<1> QED
  BY <1>1, <1>2, FS_Subset, FS_CardinalityType

LEMMA ReaderFinite ==
  ASSUME NEW e
  PROVE  IsFiniteSet(Reader(e))
<1>0. 0 \in Int /\ 63 \in Int
  OBVIOUS
<1>1. IsFiniteSet(0..63)
  BY <1>0, FS_Interval, Zenon
<1>2. Reader(e) \subseteq 0..63
  BY KernelAssumption DEF Reader, Worker
<1> QED
  BY <1>1, <1>2, FS_Subset

LEMMA InHandAdd ==
  ASSUME NEW e, NEW t, InHand(e)' = InHand(e) \cup {t}, t \notin InHand(e)
  PROVE  Cardinality(InHand(e))' = Cardinality(InHand(e)) + 1
BY InHandFinite, FS_AddElement

LEMMA InHandRemove ==
  ASSUME NEW e, NEW t \in InHand(e), InHand(e)' = InHand(e) \ {t}
  PROVE  /\ Cardinality(InHand(e))' = Cardinality(InHand(e)) - 1
         /\ Cardinality(InHand(e)) > 0
BY InHandFinite, FS_RemoveElement, FS_EmptySet

(* Of a queue: the parts of NoneLost.                                       *)
Out(e) == nmsg[e] - Len(q[e])
Returned(e) == {got[e][i] : i \in DOMAIN got[e]}
Held(e) == {msg[t] : t \in InHand(e)}
QueueInv(e) ==
  /\ \A i \in DOMAIN q[e] : q[e][i] = Out(e) + i
  /\ Returned(e) \cup Held(e) = 1..Out(e)
  /\ Len(got[e]) + Cardinality(InHand(e)) = Out(e)
  /\ Cardinality(Reader(e)) = 1 => \A i \in DOMAIN got[e] : got[e][i] = i
SemInv(e) == SemStart + nsig[e] = ntake[e] + cnt[e] + Cardinality(InHand(e))

LEMMA NoneLostParts ==
  NoneLost <=> (\A e \in Queue : QueueInv(e)) /\ (\A e \in Sem : SemInv(e))
BY DEF NoneLost, QueueInv, SemInv, Out, Returned, Held

(* A step that leaves the messages of a queue, and those of its tasks, alone *)
LEMMA QueueSame ==
  ASSUME NEW e \in Queue, QueueInv(e), q'[e] = q[e], got'[e] = got[e], nmsg'[e] = nmsg[e],
         InHand(e)' = InHand(e), \A t \in InHand(e) : msg'[t] = msg[t]
  PROVE  QueueInv(e)'
<1>1. Out(e)' = Out(e) /\ Returned(e)' = Returned(e) /\ Cardinality(InHand(e))' = Cardinality(InHand(e))
  BY DEF Out, Returned
<1>2. Held(e)' = Held(e)
  BY DEF Held
<1> QED
  BY <1>1, <1>2 DEF QueueInv, Reader

LEMMA SemSame ==
  ASSUME NEW e \in Sem, SemInv(e), UNCHANGED <<cnt, nsig, ntake>>, InHand(e)' = InHand(e)
  PROVE  SemInv(e)'
BY DEF SemInv

LEMMA QueueTypes ==
  ASSUME Inv, NEW e \in Queue
  PROVE  /\ q[e] \in Seq(Nat) /\ got[e] \in Seq(Nat) /\ nmsg[e] \in Nat
         /\ Len(q[e]) \in Nat /\ Len(got[e]) \in Nat
         /\ DOMAIN q[e] = 1..Len(q[e]) /\ DOMAIN got[e] = 1..Len(got[e])
         /\ Out(e) \in Int /\ e \in Event /\ e \notin Sem
<1>1. q[e] \in Seq(Nat) /\ got[e] \in Seq(Nat) /\ nmsg[e] \in Nat
  BY DEF Inv, TypeOK
<1>2. /\ Len(q[e]) \in Nat /\ Len(got[e]) \in Nat
      /\ DOMAIN q[e] = 1..Len(q[e]) /\ DOMAIN got[e] = 1..Len(got[e])
  BY <1>1, LenProperties
<1> QED
  BY <1>1, <1>2, KernelAssumption DEF Out, Event

(* A message more is returned.                                              *)
LEMMA ReturnedGrows ==
  ASSUME Inv, NEW e \in Queue, NEW m \in Nat, got'[e] = Append(got[e], m)
  PROVE  /\ Returned(e)' = Returned(e) \cup {m} /\ Len(got'[e]) = Len(got[e]) + 1
         /\ DOMAIN got'[e] = 1..(Len(got[e]) + 1)
         /\ got'[e][Len(got[e]) + 1] = m
         /\ \A i \in 1..Len(got[e]) : got'[e][i] = got[e][i]
<1>1. /\ got[e] \in Seq(Nat) /\ Len(got[e]) \in Nat /\ DOMAIN got[e] = 1..Len(got[e])
  BY QueueTypes
<1>2. PICK s : s = Append(got[e], m)
  OBVIOUS
<1>3. /\ s \in Seq(Nat) /\ Len(s) = Len(got[e]) + 1 /\ s[Len(got[e]) + 1] = m
      /\ \A i \in 1..Len(got[e]) : s[i] = got[e][i]
  BY <1>1, <1>2, AppendProperties
<1>4. DOMAIN s = 1..(Len(got[e]) + 1)
  BY <1>3, LenProperties
<1>5. got'[e] = s
  BY <1>2
<1>6. {s[i] : i \in DOMAIN s} = {got[e][i] : i \in DOMAIN got[e]} \cup {m}
  <2>1. \A i \in DOMAIN s : i = Len(got[e]) + 1 \/ i \in 1..Len(got[e])
    BY <1>1, <1>4
  <2>2. Len(got[e]) + 1 \in DOMAIN s /\ 1..Len(got[e]) \subseteq DOMAIN s
    BY <1>1, <1>4
  <2> QED
    BY <1>1, <1>3, <2>1, <2>2
<1>7. Returned(e)' = Returned(e) \cup {m}
  BY <1>5, <1>6 DEF Returned
<1> QED
  BY <1>3, <1>4, <1>5, <1>7

(* OSQPend takes the first message of the queue.                            *)
LEMMA TakeQueue ==
  ASSUME Inv, ReaderInv, NEW e \in Queue, QueueInv(e), NEW t \in Reader(e), ev[t] = "none",
         q[e] # <<>>, q'[e] = Tail(q[e]), got'[e] = Append(got[e], Head(q[e])),
         nmsg'[e] = nmsg[e], InHand(e)' = InHand(e), msg' = msg
  PROVE  QueueInv(e)'
<1>1. /\ q[e] \in Seq(Nat) /\ Len(q[e]) \in Nat /\ Out(e) \in Int /\ nmsg[e] \in Nat
      /\ DOMAIN q[e] = 1..Len(q[e]) /\ Len(got[e]) \in Nat /\ DOMAIN got[e] = 1..Len(got[e])
  BY QueueTypes
<1>2. /\ Head(q[e]) = q[e][1] /\ Head(q[e]) \in Nat /\ Len(Tail(q[e])) = Len(q[e]) - 1 /\ Len(q[e]) > 0
      /\ Tail(q[e]) \in Seq(Nat) /\ \A i \in 1..(Len(q[e]) - 1) : Tail(q[e])[i] = q[e][i + 1]
  BY <1>1, HeadTailProperties, EmptySeq
<1>3. DOMAIN Tail(q[e]) = 1..(Len(q[e]) - 1)
  BY <1>2, LenProperties
<1>4. Out(e)' = Out(e) + 1
  BY <1>1, <1>2 DEF Out
<1>5. Head(q[e]) = Out(e) + 1
  <2>1. 1 \in DOMAIN q[e]
    BY <1>1, <1>2
  <2> QED
    BY <1>2, <2>1 DEF QueueInv
<1>6. \A i \in DOMAIN q'[e] : q'[e][i] = Out(e)' + i
  <2> SUFFICES ASSUME NEW i \in 1..(Len(q[e]) - 1) PROVE q[e][i + 1] = Out(e) + 1 + i
    BY <1>2, <1>3, <1>4
  <2>1. i + 1 \in DOMAIN q[e]
    BY <1>1
  <2>2. q[e][i + 1] = Out(e) + (i + 1)
    BY <2>1 DEF QueueInv
  <2> QED
    BY <1>1, <2>2
<1>7. /\ Returned(e)' = Returned(e) \cup {Out(e) + 1} /\ Len(got'[e]) = Len(got[e]) + 1
      /\ DOMAIN got'[e] = 1..(Len(got[e]) + 1)
      /\ got'[e][Len(got[e]) + 1] = Out(e) + 1
      /\ \A i \in 1..Len(got[e]) : got'[e][i] = got[e][i]
  BY <1>2, <1>5, ReturnedGrows
<1>8. Cardinality(InHand(e)) \in Nat /\ Out(e) = Len(got[e]) + Cardinality(InHand(e)) /\ Out(e) \in Nat
  BY <1>1, InHandFinite DEF QueueInv
<1>9. Returned(e)' \cup Held(e)' = 1..Out(e)'
  <2>1. Held(e)' = Held(e)
    BY DEF Held
  <2>2. \A n \in Nat : 1..(n + 1) = (1..n) \cup {n + 1}
    OBVIOUS
  <2>3. 1..(Out(e) + 1) = (1..Out(e)) \cup {Out(e) + 1}
    BY <1>8, <2>2
  <2> QED
    BY <1>4, <1>7, <2>1, <2>3 DEF QueueInv
<1>10. Len(got'[e]) + Cardinality(InHand(e))' = Out(e)'
  BY <1>1, <1>4, <1>7, <1>8
<1>11. ASSUME Cardinality(Reader(e)) = 1 PROVE \A i \in DOMAIN got'[e] : got'[e][i] = i
  <2>1. IsFiniteSet(Reader(e))
    BY ReaderFinite
  <2>2. Reader(e) = {t}
    BY <1>11, <2>1, FS_Singleton
  <2>3. InHand(e) = {}
    <3>1. \A u \in InHand(e) : u \in Reader(e) /\ ev[u] = e
      BY QueueTypes DEF InHand, ReaderInv
    <3>2. e # "none"
      BY QueueTypes, EventNames
    <3> QED
      BY <2>2, <3>1, <3>2
  <2>4. Out(e) = Len(got[e])
    BY <1>1, <1>8, <2>3, FS_EmptySet
  <2>5. \A i \in 1..Len(got[e]) : got[e][i] = i
    BY <1>1, <1>11 DEF QueueInv
  <2> QED
    BY <1>1, <1>7, <2>4, <2>5
<1> QED
  BY <1>6, <1>9, <1>10, <1>11 DEF QueueInv, Reader

(* OSQPend returns the message it was handed.                               *)
LEMMA ReturnQueue ==
  ASSUME Inv, ReaderInv, NEW e \in Queue, QueueInv(e), NEW t \in InHand(e),
         q'[e] = q[e], got'[e] = Append(got[e], msg[t]), nmsg'[e] = nmsg[e],
         InHand(e)' = InHand(e) \ {t}, \A u \in InHand(e) \ {t} : msg'[u] = msg[u]
  PROVE  QueueInv(e)'
<1>1. /\ q[e] \in Seq(Nat) /\ Len(q[e]) \in Nat /\ Out(e) \in Int /\ nmsg[e] \in Nat /\ msg[t] \in Nat
      /\ Len(got[e]) \in Nat /\ DOMAIN got[e] = 1..Len(got[e]) /\ t \in Task /\ ev[t] = e
  BY QueueTypes DEF Inv, TypeOK, InHand
<1>2. Out(e)' = Out(e)
  BY DEF Out
<1>3. \A i \in DOMAIN q'[e] : q'[e][i] = Out(e)' + i
  BY <1>2 DEF QueueInv
<1>4. /\ Returned(e)' = Returned(e) \cup {msg[t]} /\ Len(got'[e]) = Len(got[e]) + 1
      /\ DOMAIN got'[e] = 1..(Len(got[e]) + 1)
      /\ got'[e][Len(got[e]) + 1] = msg[t]
      /\ \A i \in 1..Len(got[e]) : got'[e][i] = got[e][i]
  BY <1>1, ReturnedGrows
<1>5. /\ Cardinality(InHand(e)) \in Nat /\ Cardinality(InHand(e))' = Cardinality(InHand(e)) - 1
      /\ Out(e) = Len(got[e]) + Cardinality(InHand(e)) /\ Cardinality(InHand(e)) > 0
  BY <1>1, InHandFinite, InHandRemove DEF QueueInv
<1>6. Returned(e)' \cup Held(e)' = 1..Out(e)'
  <2>1. Held(e) = Held(e)' \cup {msg[t]}
    BY DEF Held
  <2> QED
    BY <1>2, <1>4, <2>1 DEF QueueInv
<1>7. Len(got'[e]) + Cardinality(InHand(e))' = Out(e)'
  BY <1>1, <1>2, <1>4, <1>5
<1>8. ASSUME Cardinality(Reader(e)) = 1 PROVE \A i \in DOMAIN got'[e] : got'[e][i] = i
  <2>1. IsFiniteSet(Reader(e))
    BY ReaderFinite
  <2>2. InHand(e) = {t}
    <3>1. PICK r : Reader(e) = {r}
      BY <1>8, <2>1, FS_Singleton
    <3>2. \A u \in InHand(e) : u \in Reader(e)
      BY QueueTypes DEF InHand, ReaderInv
    <3> QED
      BY <3>1, <3>2
  <2>3. Out(e) = Len(got[e]) + 1
    BY <1>1, <1>5, <2>2, FS_Singleton
  <2>4. \A i \in 1..Len(got[e]) : got[e][i] = i
    <3>1. \A i \in DOMAIN got[e] : got[e][i] = i
      BY <1>8 DEF QueueInv
    <3> QED
      BY <1>1, <3>1
  <2>5. Out(e) \in Returned(e) \cup Held(e)
    <3>1. Out(e) \in 1..Out(e)
      BY <1>1, <2>3
    <3> QED
      BY <3>1 DEF QueueInv
  <2>6. Out(e) \notin Returned(e)
    BY <1>1, <2>3, <2>4 DEF Returned
  <2>7. msg[t] = Out(e)
    BY <2>2, <2>5, <2>6 DEF Held
  <2> QED
    BY <1>1, <1>4, <2>3, <2>4, <2>7
<1> QED
  BY <1>3, <1>6, <1>7, <1>8 DEF QueueInv, Reader

(* OSQPost hands its message to a task.                                     *)
LEMMA HandQueue ==
  ASSUME Inv, NEW e \in Queue, QueueInv(e), q[e] = <<>>, NEW t \in Task, t \notin InHand(e),
         q'[e] = q[e], got'[e] = got[e], nmsg'[e] = nmsg[e] + 1,
         InHand(e)' = InHand(e) \cup {t}, msg' = [msg EXCEPT ![t] = nmsg[e] + 1]
  PROVE  QueueInv(e)'
<1>1. /\ Len(q[e]) = 0 /\ Out(e) = nmsg[e] /\ nmsg[e] \in Nat /\ Len(got[e]) \in Nat
      /\ msg \in [Task -> Nat] /\ InHand(e) \subseteq Task /\ DOMAIN q[e] = {}
  <2>1. Len(q[e]) = 0 /\ DOMAIN q[e] = {}
    BY QueueTypes, EmptySeq
  <2>2. Out(e) = nmsg[e]
    BY <2>1, QueueTypes DEF Out
  <2> QED
    BY <2>1, <2>2, QueueTypes DEF Inv, TypeOK, InHand
<1>2. Out(e)' = Out(e) + 1
  BY <1>1 DEF Out
<1>3. Returned(e)' = Returned(e)
  BY DEF Returned
<1>4. Held(e)' = Held(e) \cup {Out(e) + 1}
  <2>1. msg'[t] = Out(e) + 1 /\ \A u \in InHand(e) : msg'[u] = msg[u]
    BY <1>1
  <2> QED
    BY <2>1 DEF Held
<1>5. 1..(Out(e) + 1) = (1..Out(e)) \cup {Out(e) + 1}
  BY <1>1
<1>6. Cardinality(InHand(e)) \in Nat /\ Cardinality(InHand(e))' = Cardinality(InHand(e)) + 1
  BY InHandFinite, InHandAdd
<1>7. Returned(e)' \cup Held(e)' = 1..Out(e)'
  BY <1>2, <1>3, <1>4, <1>5 DEF QueueInv
<1>8. Len(got'[e]) + Cardinality(InHand(e))' = Out(e)'
  <2>1. Len(got[e]) + Cardinality(InHand(e)) = Out(e)
    BY DEF QueueInv
  <2>2. Len(got'[e]) + Cardinality(InHand(e))' = Len(got[e]) + (Cardinality(InHand(e)) + 1)
    BY <1>6
  <2> QED
    BY <1>1, <1>2, <1>6, <2>1, <2>2
<1> QED
  BY <1>1, <1>7, <1>8 DEF QueueInv, Reader

(* OSQPost puts its message behind the others.                              *)
LEMMA StoreQueue ==
  ASSUME Inv, NEW e \in Queue, QueueInv(e), q'[e] = Append(q[e], nmsg[e] + 1), got'[e] = got[e],
         nmsg'[e] = nmsg[e] + 1, InHand(e)' = InHand(e), msg' = msg
  PROVE  QueueInv(e)'
<1>1. /\ q[e] \in Seq(Nat) /\ Len(q[e]) \in Nat /\ Out(e) \in Int /\ nmsg[e] \in Nat
      /\ DOMAIN q[e] = 1..Len(q[e])
  BY QueueTypes
<1>2. PICK s : s = Append(q[e], nmsg[e] + 1)
  OBVIOUS
<1>3. /\ s \in Seq(Nat) /\ Len(s) = Len(q[e]) + 1 /\ s[Len(q[e]) + 1] = nmsg[e] + 1
      /\ \A i \in 1..Len(q[e]) : s[i] = q[e][i]
  BY <1>1, <1>2, AppendProperties
<1>4. DOMAIN s = 1..(Len(q[e]) + 1) /\ q'[e] = s
  BY <1>2, <1>3, LenProperties
<1>5. Out(e)' = Out(e)
  <2>1. Len(q'[e]) = Len(q[e]) + 1
    BY <1>3, <1>4
  <2>2. Out(e)' = nmsg'[e] - Len(q'[e])
    BY DEF Out
  <2> QED
    BY <1>1, <2>1, <2>2 DEF Out
<1>6. \A i \in DOMAIN q'[e] : q'[e][i] = Out(e)' + i
  <2> SUFFICES ASSUME NEW i \in DOMAIN s PROVE s[i] = Out(e) + i
    BY <1>4, <1>5
  <2>1. CASE i \in 1..Len(q[e])
    <3>1. q[e][i] = Out(e) + i
      BY <1>1, <2>1 DEF QueueInv
    <3> QED
      BY <1>3, <2>1, <3>1
  <2>2. CASE i = Len(q[e]) + 1
    <3>1. s[i] = nmsg[e] + 1
      BY <1>3, <2>2
    <3>2. Out(e) = nmsg[e] - Len(q[e])
      BY DEF Out
    <3> QED
      BY <1>1, <2>2, <3>1, <3>2
  <2> QED
    BY <1>1, <1>4, <2>1, <2>2
<1>7. Returned(e)' = Returned(e) /\ Held(e)' = Held(e) /\ Cardinality(InHand(e))' = Cardinality(InHand(e))
  BY DEF Returned, Held
<1> QED
  BY <1>5, <1>6, <1>7 DEF QueueInv, Reader

LostInv == (\A e \in Queue : QueueInv(e)) /\ (\A e \in Sem : SemInv(e))

LEMMA SemTypes ==
  ASSUME Inv, NEW e \in Sem
  PROVE  /\ cnt[e] \in Nat /\ nsig[e] \in Nat /\ ntake[e] \in Nat /\ SemStart \in Nat
         /\ e \in Event /\ e \notin Queue
BY KernelAssumption DEF Inv, TypeOK, Event

LEMMA SemMoves ==
  ASSUME Inv, NEW e \in Sem, SemInv(e), NEW a \in Int, NEW b \in Int, NEW c \in Int,
         nsig'[e] = nsig[e] + a, cnt'[e] = cnt[e] + b, ntake'[e] = ntake[e] + c,
         Cardinality(InHand(e))' = Cardinality(InHand(e)) + (a - b - c)
  PROVE  SemInv(e)'
<1>1. PICK k \in Nat : k = Cardinality(InHand(e))
  BY InHandFinite
<1>2. PICK l : l = Cardinality(InHand(e))'
  OBVIOUS
<1>3. SemStart + nsig[e] = ntake[e] + cnt[e] + k
  BY <1>1 DEF SemInv
<1>4. l = k + (a - b - c)
  BY <1>1, <1>2
<1>5. SemStart + nsig'[e] = ntake'[e] + cnt'[e] + l
  BY <1>3, <1>4, SemTypes
<1> QED
  BY <1>2, <1>5 DEF SemInv

LEMMA SemHanded ==
  ASSUME Inv, NEW e \in Sem, SemInv(e), nsig'[e] = nsig[e] + 1, cnt'[e] = cnt[e], ntake'[e] = ntake[e],
         Cardinality(InHand(e))' = Cardinality(InHand(e)) + 1
  PROVE  SemInv(e)'
<1>1. 1 - 0 - 0 = 1 /\ cnt[e] + 0 = cnt[e] /\ ntake[e] + 0 = ntake[e] /\ 0 \in Int /\ 1 \in Int
  BY SemTypes
<1> QED
  BY <1>1, SemMoves

LEMMA SemStored ==
  ASSUME Inv, NEW e \in Sem, SemInv(e), nsig'[e] = nsig[e] + 1, cnt'[e] = cnt[e] + 1, ntake'[e] = ntake[e],
         Cardinality(InHand(e))' = Cardinality(InHand(e))
  PROVE  SemInv(e)'
<1>1. PICK k \in Nat : k = Cardinality(InHand(e))
  BY InHandFinite
<1>2. k + (1 - 1 - 0) = k /\ ntake[e] + 0 = ntake[e] /\ 0 \in Int /\ 1 \in Int
  BY SemTypes
<1> QED
  BY <1>1, <1>2, SemMoves

(* A step that touches no event and takes no task in or out of OSxxxPend    *)
LEMMA LostSame ==
  ASSUME LostInv, UNCHANGED <<events, hist>>, \A e \in Event : InHand(e)' = InHand(e),
         \A e \in Event : \A t \in InHand(e) : msg'[t] = msg[t]
  PROVE  LostInv'
<1>1. UNCHANGED <<q, cnt, nmsg, got, nsig, ntake>>
  BY DEF events, hist
<1>2. ASSUME NEW e \in Queue PROVE QueueInv(e)'
  BY <1>1, QueueSame DEF LostInv, Event
<1>3. ASSUME NEW e \in Sem PROVE SemInv(e)'
  BY <1>1, SemSame DEF LostInv, Event
<1> QED
  BY <1>2, <1>3 DEF LostInv

LEMMA InHandSame == UNCHANGED <<stat, statPend, ev>> => \A e \in Event : InHand(e)' = InHand(e)
BY DEF InHand

LEMMA InHandOthers ==
  ASSUME NEW e, NEW t, t \notin InHand(e), t \notin InHand(e)',
         \A u \in Task : u # t => (u \in InHand(e)' <=> u \in InHand(e))
  PROVE  InHand(e)' = InHand(e)
<1>1. InHand(e) \subseteq Task /\ InHand(e)' \subseteq Task
  BY DEF InHand
<1> QED
  BY <1>1

(* The task whose TCB changes is in nobody's hand before and after.         *)
LEMMA InHandApart ==
  ASSUME NEW t \in Task, \A e \in Event : ev[t] # e \/ stat[t] # "rdy" \/ statPend[t] # "ok",
         \A e \in Event : ev'[t] # e \/ stat'[t] # "rdy" \/ statPend'[t] # "ok",
         \A u \in Task : u # t => ev'[u] = ev[u] /\ stat'[u] = stat[u] /\ statPend'[u] = statPend[u]
  PROVE  \A e \in Event : InHand(e)' = InHand(e) /\ t \notin InHand(e)
<1> SUFFICES ASSUME NEW e \in Event PROVE InHand(e)' = InHand(e) /\ t \notin InHand(e)
  OBVIOUS
<1>1. t \notin InHand(e) /\ t \notin InHand(e)'
  BY DEF InHand
<1>2. \A u \in Task : u # t => (u \in InHand(e)' <=> u \in InHand(e))
  BY DEF InHand
<1>3. InHand(e) \subseteq Task /\ InHand(e)' \subseteq Task
  BY DEF InHand
<1> QED
  BY <1>1, <1>2, <1>3

LEMMA PostLost ==
  ASSUME Inv, NoneWaitsInVain, LostInv, NEW e \in Event, Post(e), UNCHANGED ev
  PROVE  LostInv'
<1> USE RestTypesHold DEF RestTypes
<1>1. ASSUME NEW t \in Task, ev[t] = e, stat[t] = e \/ (statPend[t] = "to" /\ stat[t] = "rdy"), HandsTo(e, t)
      PROVE  LostInv'
  <2>1. /\ UNCHANGED <<q, cnt, got, ntake>> /\ Accept(e) /\ ~Available(e)
        /\ stat' = [stat EXCEPT ![t] = "rdy"] /\ statPend' = [statPend EXCEPT ![t] = "ok"]
        /\ msg' = [msg EXCEPT ![t] = IF e \in Queue THEN nmsg[e] + 1 ELSE 0]
    BY <1>1 DEF HandsTo, Post, events, NoneWaitsInVain
  <2>2. t \notin InHand(e)
    BY <1>1, EventNames DEF InHand
  <2>3. InHand(e)' = InHand(e) \cup {t}
    <3>1. t \in InHand(e)'
      BY <1>1, <2>1 DEF InHand
    <3>2. \A u \in Task : u # t => (u \in InHand(e)' <=> u \in InHand(e))
      BY <2>1 DEF InHand
    <3>3. InHand(e) \subseteq Task /\ InHand(e)' \subseteq Task
      BY DEF InHand
    <3> QED
      BY <3>1, <3>2, <3>3
  <2>4. ASSUME NEW f \in Event, f # e PROVE InHand(f)' = InHand(f) /\ t \notin InHand(f)
    <3>1. t \notin InHand(f) /\ t \notin InHand(f)'
      BY <1>1, <2>4 DEF InHand
    <3>2. \A u \in Task : u # t => (u \in InHand(f)' <=> u \in InHand(f))
      BY <2>1 DEF InHand
    <3>4. InHand(f)' = InHand(f)
      BY <3>1, <3>2, InHandOthers
    <3> QED
      BY <3>1, <3>4
  <2>5. ASSUME NEW f \in Queue PROVE QueueInv(f)'
    <3>1. CASE f = e
      <4>1. nmsg'[e] = nmsg[e] + 1
        BY <2>1, <3>1, QueueTypes DEF Accept
      <4>2. q[e] = <<>>
        BY <2>1, <3>1 DEF Available
      <4>3. msg' = [msg EXCEPT ![t] = nmsg[e] + 1]
        BY <2>1, <3>1
      <4> QED
        BY <2>1, <2>2, <2>3, <3>1, <4>1, <4>2, <4>3, HandQueue DEF LostInv
    <3>2. CASE f # e
      <4>1. nmsg'[f] = nmsg[f]
        BY <2>1, <3>2 DEF Accept
      <4>2. f \in Event
        BY DEF Event
      <4>3. \A u \in InHand(f) : msg'[u] = msg[u]
        BY <2>1, <2>4, <3>2, <4>2 DEF InHand
      <4> QED
        BY <2>1, <2>4, <3>2, <4>1, <4>2, <4>3, QueueSame DEF LostInv
    <3> QED
      BY <3>1, <3>2
  <2>6. ASSUME NEW f \in Sem PROVE SemInv(f)'
    <3>1. CASE f = e
      <4>1. nsig'[e] = nsig[e] + 1
        BY <2>1, <3>1, SemTypes DEF Accept
      <4>2. Cardinality(InHand(e)) \in Nat /\ Cardinality(InHand(e))' = Cardinality(InHand(e)) + 1
        BY <2>2, <2>3, InHandFinite, InHandAdd
      <4>3. SemInv(e) /\ e \in Sem /\ ntake'[e] = ntake[e] /\ cnt'[e] = cnt[e]
        BY <2>1, <3>1 DEF LostInv
      <4>4. SemInv(e)'
        BY <4>1, <4>2, <4>3, SemHanded
      <4> QED
        BY <3>1, <4>4
    <3>2. CASE f # e
      <4>1. nsig'[f] = nsig[f]
        BY <2>1, <3>2 DEF Accept
      <4>2. InHand(f)' = InHand(f)
        BY <2>4, <3>2 DEF Event
      <4> QED
        BY <2>1, <4>1, <4>2 DEF LostInv, SemInv
    <3> QED
      BY <3>1, <3>2
  <2> QED
    BY <2>5, <2>6 DEF LostInv
<1>2. CASE StoresIn(e)
  <2>1. UNCHANGED <<got, ntake, stat, statPend, msg>> /\ Accept(e) /\ Store(e)
    BY <1>2 DEF StoresIn, Post, tcb
  <2>2. \A f \in Event : InHand(f)' = InHand(f)
    BY <2>1, InHandSame
  <2>3. ASSUME NEW f \in Queue PROVE QueueInv(f)'
    <3>0. f \in Event
      BY DEF Event
    <3>1. CASE f = e
      <4>1. nmsg'[e] = nmsg[e] + 1 /\ q'[e] = Append(q[e], nmsg[e] + 1)
        BY <2>1, <3>1, QueueTypes DEF Accept, Store
      <4> QED
        BY <2>1, <2>2, <3>1, <4>1, StoreQueue DEF LostInv
    <3>2. CASE f # e
      <4>1. nmsg'[f] = nmsg[f] /\ q'[f] = q[f]
        BY <2>1, <3>2 DEF Accept, Store
      <4> QED
        BY <2>1, <2>2, <3>0, <4>1, QueueSame DEF LostInv
    <3> QED
      BY <3>1, <3>2
  <2>4. ASSUME NEW f \in Sem PROVE SemInv(f)'
    <3>1. CASE f = e
      <4>1. nsig'[e] = nsig[e] + 1 /\ cnt'[e] = cnt[e] + 1
        BY <2>1, <3>1, SemTypes DEF Accept, Store
      <4>2. Cardinality(InHand(e)) \in Nat /\ Cardinality(InHand(e))' = Cardinality(InHand(e))
        BY <2>2, InHandFinite
      <4>3. SemInv(e) /\ e \in Sem /\ ntake'[e] = ntake[e]
        BY <2>1, <3>1 DEF LostInv
      <4>4. SemInv(e)'
        BY <4>1, <4>2, <4>3, SemStored
      <4> QED
        BY <3>1, <4>4
    <3>2. CASE f # e
      <4>1. nsig'[f] = nsig[f] /\ cnt'[f] = cnt[f]
        BY <2>1, <3>2 DEF Accept, Store
      <4>2. InHand(f)' = InHand(f)
        BY <2>2 DEF Event
      <4> QED
        BY <2>1, <4>1, <4>2 DEF LostInv, SemInv
    <3> QED
      BY <3>1, <3>2
  <2> QED
    BY <2>3, <2>4 DEF LostInv
<1> QED
  BY <1>1, <1>2, PostCases

LEMMA SemTaken ==
  ASSUME Inv, NEW e \in Sem, SemInv(e), nsig'[e] = nsig[e], cnt'[e] = cnt[e] - 1, ntake'[e] = ntake[e] + 1,
         Cardinality(InHand(e))' = Cardinality(InHand(e))
  PROVE  SemInv(e)'
<1>1. PICK k \in Nat : k = Cardinality(InHand(e))
  BY InHandFinite
<1>2. k + (0 - (-1) - 1) = k /\ cnt[e] + (-1) = cnt[e] - 1 /\ nsig[e] + 0 = nsig[e] /\ 0 \in Int /\ 1 \in Int /\ -1 \in Int
  BY SemTypes
<1> QED
  BY <1>1, <1>2, SemMoves

LEMMA SemReturned ==
  ASSUME Inv, NEW e \in Sem, SemInv(e), nsig'[e] = nsig[e], cnt'[e] = cnt[e], ntake'[e] = ntake[e] + 1,
         Cardinality(InHand(e))' = Cardinality(InHand(e)) - 1
  PROVE  SemInv(e)'
<1>1. PICK k \in Nat : k = Cardinality(InHand(e))
  BY InHandFinite
<1>2. k + (0 - 0 - 1) = k - 1 /\ cnt[e] + 0 = cnt[e] /\ nsig[e] + 0 = nsig[e] /\ 0 \in Int /\ 1 \in Int
  BY SemTypes
<1> QED
  BY <1>1, <1>2, SemMoves

LEMMA PendTakesLost ==
  ASSUME Inv, ReaderInv, LostInv, NEW t \in Worker, NEW e \in Event, PendTakes(t, e)
  PROVE  LostInv'
<1>1. /\ Take(e) /\ Available(e) /\ pc[t] = "run" /\ t \in Task /\ t \in Reader(e)
      /\ UNCHANGED <<stat, statPend, msg, ev, nmsg, nsig>>
  BY DEF PendTakes, Enter, Worker, Reader, tcb, place
<1>2. ev[t] = "none"
  BY <1>1 DEF Inv, TypeOK, TaskInv
<1>3. \A f \in Event : InHand(f)' = InHand(f)
  BY <1>1, InHandSame
<1>4. \A f \in Event : Cardinality(InHand(f))' = Cardinality(InHand(f))
  BY <1>3
<1>5. CASE e \in Queue
  <2>1. /\ q' = [q EXCEPT ![e] = Tail(@)] /\ got' = [got EXCEPT ![e] = Append(@, Head(q[e]))]
        /\ UNCHANGED <<cnt, ntake>> /\ q[e] # <<>>
    BY <1>1, <1>5, QueueTypes DEF Take, Available
  <2>2. ASSUME NEW f \in Queue PROVE QueueInv(f)'
    <3>1. CASE f = e
      <4>1. q'[e] = Tail(q[e]) /\ got'[e] = Append(got[e], Head(q[e]))
        BY <1>5, <2>1 DEF Inv, TypeOK
      <4> QED
        BY <1>1, <1>2, <1>3, <1>5, <2>1, <3>1, <4>1, TakeQueue DEF LostInv
    <3>2. CASE f # e
      <4>1. q'[f] = q[f] /\ got'[f] = got[f] /\ f \in Event
        BY <2>1, <3>2 DEF Inv, TypeOK, Event
      <4> QED
        BY <1>1, <1>3, <4>1, QueueSame DEF LostInv
    <3> QED
      BY <3>1, <3>2
  <2>3. ASSUME NEW f \in Sem PROVE SemInv(f)'
    BY <1>1, <1>3, <2>1, SemSame DEF LostInv, Event
  <2> QED
    BY <2>2, <2>3 DEF LostInv
<1>6. CASE e \in Sem
  <2>1. /\ cnt' = [cnt EXCEPT ![e] = @ - 1] /\ ntake' = [ntake EXCEPT ![e] = @ + 1]
        /\ UNCHANGED <<q, got>>
    BY <1>1, <1>6, SemTypes DEF Take
  <2>2. ASSUME NEW f \in Queue PROVE QueueInv(f)'
    BY <1>1, <1>3, <2>1, QueueSame DEF LostInv, Event
  <2>3. ASSUME NEW f \in Sem PROVE SemInv(f)'
    <3>1. CASE f = e
      <4>1. cnt'[e] = cnt[e] - 1 /\ ntake'[e] = ntake[e] + 1 /\ nsig'[e] = nsig[e]
        BY <1>1, <1>6, <2>1 DEF Inv, TypeOK
      <4> QED
        BY <1>4, <1>6, <3>1, <4>1, SemTaken DEF LostInv
    <3>2. CASE f # e
      <4>1. cnt'[f] = cnt[f] /\ ntake'[f] = ntake[f] /\ nsig'[f] = nsig[f] /\ InHand(f)' = InHand(f)
        BY <1>1, <1>3, <2>1, <3>2 DEF Inv, TypeOK, Event
      <4> QED
        BY <4>1 DEF LostInv, SemInv
    <3> QED
      BY <3>1, <3>2
  <2> QED
    BY <2>2, <2>3 DEF LostInv
<1> QED
  BY <1>5, <1>6 DEF Event

LEMMA PendOkLost ==
  ASSUME Inv, ReaderInv, LostInv, NEW t \in Task, PendOk(t)
  PROVE  LostInv'
<1>1. /\ pc[t] = "resume" /\ statPend[t] = "ok" /\ UNCHANGED <<q, cnt, nmsg, nsig>>
      /\ stat' = [stat EXCEPT ![t] = "rdy"] /\ statPend' = [statPend EXCEPT ![t] = "ok"]
      /\ ev' = [ev EXCEPT ![t] = "none"]
  BY DEF PendOk, Return, events
<1>2. PICK e \in Event : ev[t] = e
  BY <1>1 DEF Inv, TaskInv
<1>3. stat[t] = "rdy"
  BY RunnerReady DEF PendOk
<1>4. /\ got' = IF e \in Queue THEN [got EXCEPT ![e] = Append(@, msg[t])] ELSE got
      /\ ntake' = IF e \in Sem THEN [ntake EXCEPT ![e] = @ + 1] ELSE ntake
      /\ msg' = [msg EXCEPT ![t] = IF e \in Queue THEN 0 ELSE @]
  BY <1>2 DEF PendOk, Return
<1>5. t \in InHand(e) /\ InHand(e)' = InHand(e) \ {t}
  <2>1. t \in InHand(e)
    BY <1>1, <1>2, <1>3 DEF InHand
  <2>2. t \notin InHand(e)'
    BY <1>1, EventNames DEF InHand, Inv, TypeOK
  <2>3. \A u \in Task : u # t => (u \in InHand(e)' <=> u \in InHand(e))
    BY <1>1 DEF InHand, Inv, TypeOK
  <2>4. InHand(e) \subseteq Task /\ InHand(e)' \subseteq Task
    BY DEF InHand
  <2> QED
    BY <2>1, <2>2, <2>3, <2>4
<1>6. ASSUME NEW f \in Event, f # e PROVE InHand(f)' = InHand(f) /\ t \notin InHand(f)
  <2>1. t \notin InHand(f)
    BY <1>2, <1>6 DEF InHand
  <2>2. t \notin InHand(f)'
    BY <1>1, EventNames DEF InHand, Inv, TypeOK
  <2>3. \A u \in Task : u # t => (u \in InHand(f)' <=> u \in InHand(f))
    BY <1>1 DEF InHand, Inv, TypeOK
  <2>4. InHand(f)' = InHand(f)
    BY <2>1, <2>2, <2>3, InHandOthers
  <2> QED
    BY <2>1, <2>4
<1>7. \A u \in Task : u # t => msg'[u] = msg[u]
  BY <1>4 DEF Inv, TypeOK
<1>8. ASSUME NEW f \in Queue PROVE QueueInv(f)'
  <2>0. f \in Event /\ f \notin Sem
    BY QueueTypes
  <2>1. CASE f = e
    <3>1. got'[f] = Append(got[f], msg[t]) /\ q'[f] = q[f] /\ nmsg'[f] = nmsg[f]
      BY <1>1, <1>4, <2>1 DEF Inv, TypeOK
    <3>2. \A u \in InHand(f) \ {t} : msg'[u] = msg[u]
      BY <1>7 DEF InHand
    <3> QED
      BY <1>5, <2>1, <3>1, <3>2, ReturnQueue DEF LostInv
  <2>2. CASE f # e
    <3>1. got'[f] = got[f] /\ q'[f] = q[f] /\ nmsg'[f] = nmsg[f]
      BY <1>1, <1>4, <2>2 DEF Inv, TypeOK
    <3>2. \A u \in InHand(f) : msg'[u] = msg[u]
      BY <1>6, <1>7, <2>0, <2>2 DEF InHand
    <3> QED
      BY <1>6, <2>0, <2>2, <3>1, <3>2, QueueSame DEF LostInv
  <2> QED
    BY <2>1, <2>2
<1>9. ASSUME NEW f \in Sem PROVE SemInv(f)'
  <2>0. f \in Event /\ f \notin Queue
    BY SemTypes
  <2>1. CASE f = e
    <3>1. ntake'[f] = ntake[f] + 1 /\ cnt'[f] = cnt[f] /\ nsig'[f] = nsig[f]
      BY <1>1, <1>4, <2>1 DEF Inv, TypeOK
    <3>2. Cardinality(InHand(f))' = Cardinality(InHand(f)) - 1
      BY <1>5, <2>1, InHandRemove
    <3> QED
      BY <3>1, <3>2, SemReturned DEF LostInv
  <2>2. CASE f # e
    <3>1. ntake'[f] = ntake[f] /\ cnt'[f] = cnt[f] /\ nsig'[f] = nsig[f] /\ InHand(f)' = InHand(f)
      BY <1>1, <1>4, <1>6, <2>0, <2>2 DEF Inv, TypeOK
    <3> QED
      BY <3>1 DEF LostInv, SemInv
  <2> QED
    BY <2>1, <2>2
<1> QED
  BY <1>8, <1>9 DEF LostInv

(* Every other step is apart from messages and signals.                     *)
LEMMA ApartLost ==
  ASSUME Inv, LostInv, UNCHANGED <<events, hist>>, NEW t \in Task,
         \A e \in Event : ev[t] # e \/ stat[t] # "rdy" \/ statPend[t] # "ok",
         \A e \in Event : ev'[t] # e \/ stat'[t] # "rdy" \/ statPend'[t] # "ok",
         \A u \in Task : u # t => /\ ev'[u] = ev[u] /\ stat'[u] = stat[u] /\ statPend'[u] = statPend[u]
                                  /\ msg'[u] = msg[u]
  PROVE  LostInv'
<1>1. \A e \in Event : InHand(e)' = InHand(e) /\ t \notin InHand(e)
  BY InHandApart
<1>2. \A e \in Event : \A u \in InHand(e) : msg'[u] = msg[u]
  BY <1>1 DEF InHand
<1> QED
  BY <1>1, <1>2, LostSame

LEMMA LostStep ==
  ASSUME Inv, NoneWaitsInVain, ReaderInv, LostInv, [Next]_vars
  PROVE  LostInv'
<1>1. ASSUME UNCHANGED <<events, hist, stat, statPend, ev, msg>> PROVE LostInv'
  BY <1>1, InHandSame, LostSame
<1>2. ASSUME NEW t \in Task, Kernel(t) PROVE LostInv'
  <2>1. CASE PendTimeout(t)
    <3>1. /\ statPend[t] = "to" /\ UNCHANGED <<q, cnt, nmsg, nsig, got, ntake>>
          /\ stat' = [stat EXCEPT ![t] = "rdy"] /\ statPend' = [statPend EXCEPT ![t] = "ok"]
          /\ ev' = [ev EXCEPT ![t] = "none"]
          /\ msg' = [msg EXCEPT ![t] = IF ev[t] \in Queue THEN 0 ELSE @]
      BY <2>1 DEF PendTimeout, Return, events
    <3>2. /\ ev'[t] = "none"
          /\ \A u \in Task : u # t => /\ ev'[u] = ev[u] /\ stat'[u] = stat[u] /\ statPend'[u] = statPend[u]
                                      /\ msg'[u] = msg[u]
      BY <3>1 DEF Inv, TypeOK
    <3>3. UNCHANGED <<events, hist>>
      BY <3>1 DEF events, hist
    <3> QED
      BY <3>1, <3>2, <3>3, ApartLost, EventNames
  <2>2. CASE Schedule(t) \/ OSSchedUnlock(t)
    BY <1>1, <2>2 DEF Schedule, OSSchedUnlock, tcb
  <2> QED
    BY <1>2, <2>1, <2>2, PendOkLost DEF Kernel
<1>3. ASSUME NEW t \in Worker, Call(t) PROVE LostInv'
  <2>0. t \in Task /\ pc[t] = "run" /\ ev[t] = "none"
    <3>1. t \in Task /\ pc[t] = "run"
      BY <1>3 DEF Worker, Call, PendTakes, TaskPost, PendWaits, OSTimeDly, OSSchedLock, OSTaskSuspend, Enter
    <3> QED
      BY <3>1 DEF Inv, TypeOK, TaskInv
  <2>1. ASSUME NEW e \in Event, NEW n \in Ticks, PendWaits(t, e, n) PROVE LostInv'
    <3>1. /\ stat' = [stat EXCEPT ![t] = e] /\ statPend' = [statPend EXCEPT ![t] = "ok"]
          /\ ev' = [ev EXCEPT ![t] = e] /\ UNCHANGED <<events, hist, msg>>
      BY <2>1 DEF PendWaits
    <3>2. /\ stat'[t] # "rdy"
          /\ \A u \in Task : u # t => /\ ev'[u] = ev[u] /\ stat'[u] = stat[u] /\ statPend'[u] = statPend[u]
                                      /\ msg'[u] = msg[u]
      BY <2>0, <3>1, EventNames DEF Inv, TypeOK
    <3> QED
      BY <2>0, <3>1, <3>2, ApartLost, EventNames
  <2>2. ASSUME NEW e \in Event, TaskPost(t, e) PROVE LostInv'
    BY <2>2, PostLost DEF TaskPost
  <2>3. ASSUME NEW n \in Ticks, OSTimeDly(t, n) PROVE LostInv'
    BY <1>1, <2>3 DEF OSTimeDly
  <2>4. CASE OSSchedLock(t)
    BY <1>1, <2>4 DEF OSSchedLock, tcb, place
  <2>5. CASE OSTaskSuspend(t)
    <3>1. stat' = [stat EXCEPT ![t] = "suspend"] /\ UNCHANGED <<events, hist, statPend, msg, ev>>
      BY <2>5 DEF OSTaskSuspend
    <3>2. \A u \in Task : u # t => stat'[u] = stat[u]
      BY <3>1 DEF Inv, TypeOK
    <3> QED
      BY <2>0, <3>1, <3>2, ApartLost, EventNames
  <2> QED
    BY <1>3, <2>1, <2>2, <2>3, <2>4, <2>5, PendTakesLost DEF Call
<1>4. CASE TickTask
  <2>1. PICK t : t = TcbList[tick]
    OBVIOUS
  <2>2. t \in Task
    BY <1>4, <2>1, KernelAssumption, ElementOfSeq DEF TickTask, Worker
  <2>3. UNCHANGED <<events, hist, msg, ev>>
    BY <1>4 DEF TickTask, place
  <2>4. CASE ~Expires(t)
    BY <1>1, <1>4, <2>1, <2>3, <2>4 DEF TickTask
  <2>5. CASE Expires(t)
    <3>1. /\ statPend' = [statPend EXCEPT ![t] = IF stat[t] \in Event THEN "to" ELSE "ok"]
          /\ stat' = [stat EXCEPT ![t] = IF @ \in Event THEN "rdy" ELSE @]
      BY <1>4, <2>1, <2>5 DEF TickTask
    <3>2. /\ statPend'[t] = (IF stat[t] \in Event THEN "to" ELSE "ok")
          /\ stat'[t] = (IF stat[t] \in Event THEN "rdy" ELSE stat[t])
          /\ \A u \in Task : u # t => stat'[u] = stat[u] /\ statPend'[u] = statPend[u]
      BY <2>2, <3>1 DEF Inv, TypeOK
    <3>3. dly[t] = 1
      BY <2>5 DEF Expires
    <3>4. \A e \in Event : ev[t] # e \/ stat[t] # "rdy"
      BY <2>2, <3>3 DEF Inv, TaskInv
    <3>5. \A e \in Event : ev'[t] # e \/ stat'[t] # "rdy" \/ statPend'[t] # "ok"
      BY <2>3, <3>2, <3>4
    <3> QED
      BY <2>2, <2>3, <3>2, <3>4, <3>5, ApartLost
  <2> QED
    BY <2>4, <2>5
<1>5. CASE TickStart \/ TickExit \/ PendSV \/ UNCHANGED vars
  BY <1>1, <1>5 DEF TickStart, TickExit, PendSV, vars, tcb, place
<1>6. ASSUME NEW e \in Event, IsrPost(e) PROVE LostInv'
  BY <1>6, PostLost DEF IsrPost, place
<1>7. Worker \subseteq Task /\ Idle \in Task
  BY KernelAssumption DEF Worker
<1> QED
  BY <1>2, <1>3, <1>4, <1>5, <1>6, <1>7 DEF Next, Tick

LEMMA LostInit == Init => ReaderInv /\ LostInv
<1> SUFFICES ASSUME Init PROVE ReaderInv /\ LostInv
  OBVIOUS
<1>1. ReaderInv
  BY EventNames DEF Init, ReaderInv
<1>2. ASSUME NEW e \in Event PROVE InHand(e) = {} /\ Cardinality(InHand(e)) = 0
  <2>1. InHand(e) = {}
    BY EventNames DEF Init, InHand
  <2> QED
    BY <2>1, FS_EmptySet
<1>3. ASSUME NEW e \in Queue PROVE QueueInv(e)
  <2>1. /\ e \in Event /\ q[e] = <<>> /\ got[e] = <<>> /\ nmsg[e] = 0
        /\ Len(q[e]) = 0 /\ Len(got[e]) = 0 /\ DOMAIN q[e] = {} /\ DOMAIN got[e] = {}
    BY EmptySeq DEF Init, Event
  <2>2. Out(e) = 0 /\ Returned(e) = {} /\ Held(e) = {} /\ 1..0 = {}
    <3>1. Out(e) = 0
      <4>1. nmsg[e] = 0 /\ Len(q[e]) = 0 /\ Out(e) = nmsg[e] - Len(q[e])
        BY <2>1 DEF Out
      <4> QED
        BY <4>1
    <3>2. Returned(e) = {}
      BY <2>1 DEF Returned
    <3>3. Held(e) = {}
      BY <1>2, <2>1 DEF Held
    <3>4. 1..0 = {}
      OBVIOUS
    <3> QED
      BY <3>1, <3>2, <3>3, <3>4
  <2> QED
    BY <1>2, <2>1, <2>2 DEF QueueInv
<1>4. ASSUME NEW e \in Sem PROVE SemInv(e)
  <2>1. cnt[e] = SemStart /\ nsig[e] = 0 /\ ntake[e] = 0 /\ SemStart \in Nat /\ Cardinality(InHand(e)) = 0
    BY <1>2, KernelAssumption DEF Init, Event
  <2> QED
    BY <2>1 DEF SemInv
<1> QED
  BY <1>1, <1>3, <1>4 DEF LostInv

(* NoneLost: every message that OSQPost took is in the queue, returned, or  *)
(* on its way in the TCB of a task, in order for a single reader, and every *)
(* signal is counted, taken or on its way: for any tasks and priorities,    *)
(* whatever interrupt comes between their steps.                            *)
THEOREM NoneLostCorrect == Spec => []NoneLost
<1>1. Init => ReaderInv /\ LostInv
  BY LostInit
<1>2. Inv /\ NoneWaitsInVain /\ ReaderInv /\ LostInv /\ [Next]_vars => ReaderInv' /\ LostInv'
  BY ReaderStep, LostStep
<1>3. LostInv => NoneLost
  BY NoneLostParts DEF LostInv
<1> QED
  BY <1>1, <1>2, <1>3, InvCorrect, NoneWaitsInVainCorrect, PTL DEF Spec
=============================================================================
