---------------------------- MODULE SysTimeouts ----------------------------
(***************************************************************************)
(* The timers of lwIP (core/timers.c) as tcpip_thread runs them on uC/OS-II *)
(* (sys_arch_mbox_fetch).  The thread waits for a message no longer than    *)
(* the first timer of a list allows; how long it waited for a message is    *)
(* computed from the tick counter and taken off that timer.  Each timer of  *)
(* the list holds its distance to the one before.                           *)
(*                                                                         *)
(* The thread is preempted by interrupts only: the tick, and the receive    *)
(* interrupt that posts packets.  Other tasks post while it waits.          *)
(***************************************************************************)
EXTENDS Integers, Sequences, FiniteSets

CONSTANTS
  tcpip_tcp_timer, ip_reass_timer, arp_timer,    \* the handlers
  TCP_TMR_INTERVAL, IP_TMR_INTERVAL, ARP_TMR_INTERVAL,
  MsPerSec, TicksPerSec,   \* 1000 and OS_TICKS_PER_SEC; only their ratio matters
  Word,                    \* size of u32_t
  MboxSize,                \* TCPIP_MBOX_SIZE
  MaxBusy                  \* bound: ticks while the thread is not waiting

Timer == {tcpip_tcp_timer, ip_reass_timer, arp_timer}
Interval ==
  [h \in Timer |-> CASE h = tcpip_tcp_timer -> TCP_TMR_INTERVAL
                     [] h = ip_reass_timer -> IP_TMR_INTERVAL
                     [] h = arp_timer -> ARP_TMR_INTERVAL]

ASSUME SysTimeoutsAssumption ==
  /\ Cardinality(Timer) = 3
  /\ MsPerSec \in Nat \ {0} /\ TicksPerSec \in Nat \ {0} /\ MsPerSec >= TicksPerSec
  /\ \A h \in Timer : Interval[h] \in Nat \ {0} /\ Interval[h] < Word
  /\ Word \in Nat /\ Word > 2 * MsPerSec /\ MboxSize \in Nat \ {0} /\ MaxBusy \in Nat

VARIABLES
  OSTime,      \* the kernel's tick counter
  mbox,        \* messages in the thread's mailbox
  pc,          \* place of the thread, see ThreadPC
  stamp,       \* OSTime when the wait was asked for, 0 when it is over
  dly,         \* OSTCBDly: ticks the wait may last
  timeouts,    \* the list next_timeout, each with its distance to the one before
  pcbs,        \* some TCP connection is active or in time-wait
  tcpip_tcp_timer_active,
  time_needed, \* what sys_arch_mbox_fetch reported, 0 after the message
  busy         \* ticks outside the wait since the last message or timer

vars == <<OSTime, mbox, pc, stamp, dly, timeouts, pcbs, tcpip_tcp_timer_active, time_needed, busy>>

ThreadPC == {"again", "pend", "wait", "got", "expired", "message"}

-----------------------------------------------------------------------------
(* The list.                                                                *)

(* Distance of the i-th timer from now.                                     *)
Due(list) ==
  LET d[i \in 0..Len(list)] == IF i = 0 THEN 0 ELSE d[i - 1] + list[i].time IN d

(* Faulty variant: the timer behind the new one keeps its distance. *)
InsertKeepsNext(list, h) ==
  LET due == Due(list)
      p == Cardinality({i \in 1..Len(list) : due[i] <= Interval[h]})
  IN SubSeq(list, 1, p) \o <<[h |-> h, time |-> Interval[h] - due[p]]>>
       \o SubSeq(list, p + 1, Len(list))

(* sys_timeout: behind every timer that is due no later.                    *)
Insert(list, h) ==
  LET due == Due(list)
      p == Cardinality({i \in 1..Len(list) : due[i] <= Interval[h]})
      time == Interval[h] - due[p]
      rest == SubSeq(list, p + 1, Len(list))
  IN SubSeq(list, 1, p) \o <<[h |-> h, time |-> time]>>
       \o [i \in DOMAIN rest |-> IF i = 1 THEN [rest[1] EXCEPT !.time = @ - time] ELSE rest[i]]

(* TCP_REG for the first connection calls tcp_timer_needed.                 *)
TcpTimerNeeded(list) ==
  IF tcpip_tcp_timer_active THEN list ELSE Insert(list, tcpip_tcp_timer)

-----------------------------------------------------------------------------
(* sys_arch_mbox_fetch.                                                     *)

Ticks(ms) ==
  LET n == (ms * TicksPerSec) \div MsPerSec IN IF n < 1 THEN 1 ELSE n

(* Faulty variant: the same tick counts as no time at all. *)
ElapsedNothing(old, new) ==
  LET ticks == IF new >= old THEN new - old ELSE Word - 1 - old + new
  IN ((ticks * MsPerSec) % Word) \div TicksPerSec

(* The milliseconds from one value of the counter to another, as computed.  *)
Elapsed(old, new) ==
  LET ticks == IF new > old THEN new - old ELSE Word - 1 - old + new
  IN ((ticks * MsPerSec) % Word) \div TicksPerSec + 1

Init ==
  /\ OSTime = 0 /\ mbox = 0 /\ pc = "again" /\ stamp = 0 /\ dly = 0
  /\ timeouts = Insert(Insert(<<>>, ip_reass_timer), arp_timer)
  /\ pcbs = FALSE /\ tcpip_tcp_timer_active = FALSE
  /\ time_needed = 0 /\ busy = 0

Fetch ==     \* with time left to the first timer
  /\ pc = "again" /\ Head(timeouts).time > 0
  /\ pc' = "pend" /\ stamp' = OSTime /\ dly' = Ticks(Head(timeouts).time)
  /\ UNCHANGED <<OSTime, mbox, timeouts, pcbs, tcpip_tcp_timer_active, time_needed, busy>>

Pend ==      \* OSQPend
  /\ pc = "pend"
  /\ IF mbox > 0 THEN mbox' = mbox - 1 /\ pc' = "got"
                 ELSE UNCHANGED mbox /\ pc' = "wait"
  /\ UNCHANGED <<OSTime, stamp, dly, timeouts, pcbs, tcpip_tcp_timer_active, time_needed, busy>>

(* Faulty variant: the time is subtracted even if it is the longer one. *)
ReportUnchecked ==
  /\ pc = "got" /\ pc' = "message"
  /\ time_needed' = Elapsed(stamp, OSTime)
  /\ timeouts' = [timeouts EXCEPT ![1].time = @ - time_needed']
  /\ dly' = 0
  /\ UNCHANGED <<OSTime, mbox, stamp, pcbs, tcpip_tcp_timer_active, busy>>

Report ==    \* a message: the time is taken off the first timer
  /\ pc = "got" /\ pc' = "message"
  /\ time_needed' = Elapsed(stamp, OSTime)
  /\ timeouts' = [timeouts EXCEPT ![1].time = IF time_needed' < @ THEN @ - time_needed' ELSE 0]
  /\ dly' = 0
  /\ UNCHANGED <<OSTime, mbox, stamp, pcbs, tcpip_tcp_timer_active, busy>>

-----------------------------------------------------------------------------
(* What the thread does with a message and with a timer.                    *)

(* A message may open connections, close them, or both.                     *)
Message ==
  /\ pc = "message" /\ pc' = "again" /\ busy' = 0
  /\ pcbs' \in BOOLEAN
  /\ \/ /\ pcbs' => pcbs
        /\ UNCHANGED <<timeouts, tcpip_tcp_timer_active>>
     \/ /\ timeouts' = TcpTimerNeeded(timeouts)
        /\ tcpip_tcp_timer_active' = TRUE
  /\ stamp' = 0 /\ time_needed' = 0
  /\ UNCHANGED <<OSTime, mbox, dly>>

(* Faulty variant: tcpip_tcp_timer_active is not cleared. *)
TimerStaysActive ==
  LET h == Head(timeouts).h
  IN /\ \/ pc = "again" /\ Head(timeouts).time = 0
        \/ pc = "expired"
     /\ pc' = "again" /\ busy' = 0
     /\ pcbs' \in {pcbs, FALSE} /\ (h # tcpip_tcp_timer => pcbs' = pcbs)
     /\ timeouts' = IF h = tcpip_tcp_timer /\ ~pcbs' THEN Tail(timeouts)
                    ELSE Insert(Tail(timeouts), h)
     /\ stamp' = 0
     /\ UNCHANGED <<OSTime, mbox, dly, tcpip_tcp_timer_active, time_needed>>

(* The first timer is taken off and its handler sets it again; the TCP      *)
(* timer only if a connection is left, and tcp_tmr may have ended the last. *)
RunTimer ==
  LET h == Head(timeouts).h
  IN /\ \/ pc = "again" /\ Head(timeouts).time = 0
        \/ pc = "expired"
     /\ pc' = "again" /\ busy' = 0
     /\ pcbs' \in {pcbs, FALSE} /\ (h # tcpip_tcp_timer => pcbs' = pcbs)
     /\ IF h = tcpip_tcp_timer /\ ~pcbs'
          THEN timeouts' = Tail(timeouts) /\ tcpip_tcp_timer_active' = FALSE
          ELSE timeouts' = Insert(Tail(timeouts), h) /\ UNCHANGED tcpip_tcp_timer_active
     /\ stamp' = 0
     /\ UNCHANGED <<OSTime, mbox, dly, time_needed>>

TcpipThread == Fetch \/ Pend \/ Report \/ Message \/ RunTimer

-----------------------------------------------------------------------------
(* The others.                                                              *)

(* OSQPost: a waiting thread gets the message at once, also when the tick    *)
(* has ended its wait but it has not run since.                              *)
Post ==
  /\ IF pc \in {"wait", "expired"} THEN pc' = "got" /\ UNCHANGED mbox
    ELSE mbox < MboxSize /\ mbox' = mbox + 1 /\ UNCHANGED pc
  /\ UNCHANGED <<OSTime, stamp, dly, timeouts, pcbs, tcpip_tcp_timer_active, time_needed, busy>>

Tick ==      \* OSTimeTick
  /\ OSTime' = (OSTime + 1) % Word
  /\ IF pc = "wait"
       THEN /\ dly' = dly - 1 /\ pc' = IF dly = 1 THEN "expired" ELSE "wait"
            /\ UNCHANGED busy
       ELSE /\ busy < MaxBusy /\ busy' = busy + 1
            /\ UNCHANGED <<pc, dly>>
  /\ UNCHANGED <<mbox, stamp, timeouts, pcbs, tcpip_tcp_timer_active, time_needed>>

Next == TcpipThread \/ Post \/ Tick

Spec == Init /\ [][Next]_vars

(* The thread has the highest priority, and the tick interrupt does not     *)
(* stop.  Nobody is obliged to post.                                        *)
FairSpec == Spec /\ WF_vars(TcpipThread) /\ WF_vars(Tick)

-----------------------------------------------------------------------------
Handlers == {timeouts[i].h : i \in DOMAIN timeouts}

(* The type invariant; in particular no distance in the list falls below    *)
(* zero, where u32_t would make it four billion.                            *)
TypeOK ==
  /\ OSTime \in 0..(Word - 1) /\ mbox \in 0..MboxSize /\ pc \in ThreadPC
  /\ stamp \in 0..(Word - 1) /\ dly \in 0..Ticks(Word)
  /\ timeouts \in Seq([h : Timer, time : 0..(Word - 1)])
  /\ pcbs \in BOOLEAN /\ tcpip_tcp_timer_active \in BOOLEAN
  /\ time_needed \in 0..Word /\ busy \in 0..MaxBusy

(* The TCP timer is in the list exactly while its flag says so, also when   *)
(* the last connection ends in its handler and the next begins at once, and *)
(* no handler is in the list twice.  An open connection has its timer.      *)
TcpTimerKept ==
  /\ tcpip_tcp_timer_active <=> tcpip_tcp_timer \in Handlers
  /\ Cardinality(Handlers) = Len(timeouts)
  /\ pcbs => tcpip_tcp_timer_active

(* On the stack's own clock the list of distances is a set of timers that   *)
(* run at their times, whatever is inserted, taken off or cut short by a    *)
(* message: TCP's fast timer, reassembly and ARP stay in proportion.        *)
W == INSTANCE TimerWheel WITH
  togo <- [h \in Timer |->
             IF h \in Handlers
               THEN Due(timeouts)[CHOOSE i \in DOMAIN timeouts : timeouts[i].h = h]
               ELSE -1]
Wheel == W!Spec

(* No stream of messages keeps the timers from running: a message that was  *)
(* waiting already is charged too.                                          *)
TimersRun ==
  \A h \in {ip_reass_timer, arp_timer} :
    []<><<Head(timeouts).h = h /\ RunTimer>>_vars
=============================================================================
