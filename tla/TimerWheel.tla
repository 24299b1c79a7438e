----------------------------- MODULE TimerWheel -----------------------------
(***************************************************************************)
(* What sys_timeout promises on the stack's own clock: a timer runs when    *)
(* the clock has come to its time, no timer runs before one that is due     *)
(* earlier, and none is left out.  How fast that clock runs compared to the *)
(* real one is not said here.                                              *)
(***************************************************************************)
EXTENDS Integers

CONSTANTS Timer, Interval      \* the handlers, and the period of each
VARIABLE togo                  \* milliseconds until a timer is due, Off if it is not set

Off == -1
On == {h \in Timer : togo[h] # Off}
Longest == CHOOSE n \in {Interval[h] : h \in Timer} : \A h \in Timer : Interval[h] <= n
Passes(d) == [h \in Timer |-> IF h \in On THEN togo[h] - d ELSE Off]

(* The clock goes on, not beyond the next timer.                            *)
Advance ==
  \E d \in 1..Longest :
    /\ \A h \in On : d <= togo[h]
    /\ togo' = Passes(d)

Set(h) == togo[h] = Off /\ togo' = [togo EXCEPT ![h] = Interval[h]]

(* The clock reaches the timer that is due first, whose handler sets it     *)
(* again or not.                                                            *)
Run(h) ==
  /\ h \in On /\ (\A g \in On : togo[h] <= togo[g])
  /\ \E next \in {Interval[h], Off} : togo' = [Passes(togo[h]) EXCEPT ![h] = next]

Init == togo \in {f \in [Timer -> {Off} \cup {Interval[h] : h \in Timer}] :
            \A h \in Timer : f[h] \in {Off, Interval[h]}}
Next == Advance \/ (\E h \in Timer : Set(h) \/ Run(h))
Spec == Init /\ [][Next]_togo
=============================================================================
