-------------------------- MODULE SysTimeoutsProofs --------------------------
(***************************************************************************)
(* What is proved of SysTimeouts.                                           *)
(*                                                                         *)
(* A list holds the timers of two or three different handlers, and each is  *)
(* due no later than its handler's period (ListInv); sys_timeout finds the   *)
(* place where this stays so.  That is what the lemma Inserted says, for    *)
(* the lists the code inserts into, which have two entries at the most: so  *)
(* the recursion of Due is unrolled and no induction is needed.             *)
(***************************************************************************)
EXTENDS SysTimeouts, SequenceTheorems, FiniteSetTheorems, TLAPS

Entry == [h : Timer, time : Nat]
HandlersOf(list) == {list[i].h : i \in 1..Len(list)}
Distinct(list) == \A i, j \in 1..Len(list) : list[i].h = list[j].h => i = j
InPeriod(list) == \A i \in 1..Len(list) : Due(list)[i] <= Interval[list[i].h]

(* A list of the stack, no longer than n. *)
Timers(n) ==
  {list \in Seq(Entry) : Len(list) \in 0..n /\ Distinct(list) /\ InPeriod(list)}

-----------------------------------------------------------------------------
(* The constants.                                                           *)

LEMMA Periods ==
  /\ \A h \in Timer : Interval[h] \in Nat /\ Interval[h] > 0 /\ Interval[h] < Word
  /\ Word \in Nat /\ Word > 0
BY SysTimeoutsAssumption

LEMMA PairSize ==
  ASSUME NEW a, NEW b
  PROVE  IsFiniteSet({a, b}) /\ Cardinality({a, b}) = IF a = b THEN 1 ELSE 2
<1>1. IsFiniteSet({a}) /\ Cardinality({a}) = 1
  BY FS_Singleton
<1>2. {a} \cup {b} = {a, b} /\ (b \in {a} <=> a = b)
  OBVIOUS
<1>3. /\ IsFiniteSet({a} \cup {b})
      /\ Cardinality({a} \cup {b}) = IF b \in {a} THEN Cardinality({a}) ELSE Cardinality({a}) + 1
  BY <1>1, FS_AddElement
<1> QED
  BY <1>1, <1>2, <1>3

LEMMA ThreeHandlers ==
  /\ tcpip_tcp_timer # ip_reass_timer /\ tcpip_tcp_timer # arp_timer
  /\ ip_reass_timer # arp_timer
  /\ Cardinality({ip_reass_timer, arp_timer}) = 2
<1>1. Cardinality(Timer) = 3
  BY SysTimeoutsAssumption
<1>2. ASSUME NEW a, NEW b, Timer = {a, b} PROVE FALSE
  <2>1. Cardinality({a, b}) = 1 \/ Cardinality({a, b}) = 2
    BY PairSize
  <2> QED
    BY <1>1, <1>2, <2>1
<1>3. tcpip_tcp_timer # ip_reass_timer
  BY <1>2 DEF Timer
<1>4. tcpip_tcp_timer # arp_timer
  BY <1>2 DEF Timer
<1>5. ip_reass_timer # arp_timer
  BY <1>2 DEF Timer
<1> QED
  BY <1>3, <1>4, <1>5, PairSize

-----------------------------------------------------------------------------
(* When the timers of a list are due.                                       *)

LEMMA EntriesOf ==
  ASSUME NEW list \in Seq(Entry)
  PROVE  /\ Len(list) \in Nat
         /\ \A i \in 1..Len(list) : list[i] \in Entry /\ list[i].time \in Nat /\ list[i].h \in Timer
<1>1. \A e \in Entry : e.time \in Nat /\ e.h \in Timer
  BY DEF Entry
<1>2. Len(list) \in Nat /\ \A i \in 1..Len(list) : list[i] \in Entry
  OBVIOUS
<1> QED
  BY <1>1, <1>2

LEMMA DueIs ==
  ASSUME NEW list \in Seq(Entry), Len(list) \in 0..3
  PROVE  /\ Due(list)[0] = 0
         /\ \A i \in 1..Len(list) : Due(list)[i] = Due(list)[i - 1] + list[i].time
<1> DEFINE n == Len(list)
           Is(f) == f = [i \in 0..n |-> IF i = 0 THEN 0 ELSE f[i - 1] + list[i].time]
           t1 == list[1].time
           t2 == list[2].time
           t3 == list[3].time
           g == [i \in 0..n |-> IF i = 0 THEN 0 ELSE IF i = 1 THEN t1 ELSE
                                IF i = 2 THEN t1 + t2 ELSE t1 + t2 + t3]
<1>1. n \in 0..3 /\ \A i \in 1..n : list[i].time \in Nat
  <2>1. n \in Nat /\ \A i \in 1..n : list[i].time \in Nat
    BY EntriesOf
  <2>2. n \in 0..3
    BY <2>1
  <2> QED
    BY <2>1, <2>2
<1>2. \A i \in 0..n : g[i] = IF i = 0 THEN 0 ELSE g[i - 1] + list[i].time
  <2> SUFFICES ASSUME NEW i \in 0..n PROVE g[i] = IF i = 0 THEN 0 ELSE g[i - 1] + list[i].time
    OBVIOUS
  <2>1. i = 0 \/ i = 1 \/ i = 2 \/ i = 3
    BY <1>1
  <2>2. CASE i = 0
    BY <1>1, <2>2
  <2>3. CASE i = 1
    BY <1>1, <2>3
  <2>4. CASE i = 2
    BY <1>1, <2>4
  <2>5. CASE i = 3
    BY <1>1, <2>5
  <2> QED
    BY <2>1, <2>2, <2>3, <2>4, <2>5
<1>3. Is(g)
  BY <1>2
<1>4. Due(list) = CHOOSE f : Is(f)
  BY DEF Due
<1> HIDE DEF g
<1>5. Is(Due(list))
  BY <1>3, <1>4
<1> HIDE DEF Is
<1>6. Due(list) = [i \in 0..n |-> IF i = 0 THEN 0 ELSE Due(list)[i - 1] + list[i].time]
  BY <1>5 DEF Is
<1>7. 0 \in 0..n /\ \A i \in 1..n : i \in 0..n /\ i # 0
  BY <1>1
<1> DEFINE d == Due(list)
<1>8. d = [i \in 0..n |-> IF i = 0 THEN 0 ELSE d[i - 1] + list[i].time]
  BY <1>6
<1> HIDE DEF d
<1>9. d[0] = 0 /\ \A i \in 1..n : d[i] = d[i - 1] + list[i].time
  BY <1>7, <1>8
<1> QED
  BY <1>9 DEF d

(* The same written out.                                                    *)
LEMMA DueUnrolled ==
  ASSUME NEW list \in Seq(Entry), Len(list) \in 0..3
  PROVE  /\ Len(list) \in 0..3 /\ Due(list)[0] = 0
         /\ \A i \in 1..Len(list) : Due(list)[i] \in Nat /\ list[i] \in Entry
                                    /\ list[i].time \in Nat /\ list[i].h \in Timer
         /\ Len(list) >= 1 => Due(list)[1] = list[1].time
         /\ Len(list) >= 2 => Due(list)[2] = list[1].time + list[2].time
         /\ Len(list) >= 3 => Due(list)[3] = list[1].time + list[2].time + list[3].time
<1> DEFINE d == Due(list)
<1>1. /\ Len(list) \in 0..3
      /\ \A i \in 1..Len(list) : list[i] \in Entry /\ list[i].time \in Nat /\ list[i].h \in Timer
  <2>1. Len(list) \in Nat
    BY EntriesOf
  <2>2. \A i \in 1..Len(list) : list[i] \in Entry /\ list[i].time \in Nat /\ list[i].h \in Timer
    BY EntriesOf
  <2> QED
    BY <2>1, <2>2
<1>2. d[0] = 0 /\ \A i \in 1..Len(list) : d[i] = d[i - 1] + list[i].time
  BY DueIs
<1> HIDE DEF d
<1>3. Len(list) >= 1 => d[1] = list[1].time
  BY <1>1, <1>2
<1>4. Len(list) >= 2 => d[2] = list[1].time + list[2].time
  BY <1>1, <1>2, <1>3
<1>5. Len(list) >= 3 => d[3] = list[1].time + list[2].time + list[3].time
  BY <1>1, <1>2, <1>4
<1>6. \A i \in 1..Len(list) : d[i] \in Nat
  <2> SUFFICES ASSUME NEW i \in 1..Len(list) PROVE d[i] \in Nat
    OBVIOUS
  <2>1. CASE i = 1
    BY <1>1, <1>3, <2>1
  <2>2. CASE i = 2
    BY <1>1, <1>4, <2>2
  <2>3. CASE i = 3
    BY <1>1, <1>5, <2>3
  <2> QED
    BY <1>1, <2>1, <2>2, <2>3
<1> QED
  BY <1>1, <1>2, <1>3, <1>4, <1>5, <1>6 DEF d

-----------------------------------------------------------------------------
(* sys_timeout.                                                             *)

(* The timers due no later than at time k are the first ones. *)
LEMMA DueFirst ==
  ASSUME NEW list \in Seq(Entry), Len(list) \in 0..2, NEW k \in Nat
  PROVE  \E p \in 0..Len(list) :
           /\ p = Cardinality({i \in 1..Len(list) : Due(list)[i] <= k})
           /\ Due(list)[p] \in Nat /\ Due(list)[p] <= k
           /\ p < Len(list) => Due(list)[p + 1] > k
<1> DEFINE n == Len(list)
           d == Due(list)
           S == {i \in 1..n : d[i] <= k}
<1>1. Len(list) \in 0..3
  OBVIOUS
<1>2. /\ n \in 0..2 /\ d[0] = 0 /\ \A i \in 1..n : d[i] \in Nat
      /\ n = 2 => d[1] <= d[2]
  <2>1. d[0] = 0 /\ \A i \in 1..n : d[i] \in Nat /\ list[i].time \in Nat
    BY <1>1, DueUnrolled
  <2>2. n = 2 => d[1] = list[1].time /\ d[2] = list[1].time + list[2].time
    BY <1>1, DueUnrolled
  <2>3. n = 2 => d[1] <= d[2]
    BY <2>1, <2>2
  <2> QED
    BY <2>1, <2>3
<1> HIDE DEF n, d
<1>3. \E p \in 0..n : S = 1..p /\ d[p] \in Nat /\ d[p] <= k /\ (p < n => d[p + 1] > k)
  <2>1. CASE n = 0 \/ (n > 0 /\ d[1] > k)
    <3>1. S = 1..0
      <4> SUFFICES ASSUME NEW i \in S PROVE FALSE
        OBVIOUS
      <4>1. i \in 1..n /\ d[i] <= k
        OBVIOUS
      <4>2. n = 1 \/ n = 2
        BY <1>2, <4>1
      <4> QED
        BY <1>2, <2>1, <4>1, <4>2
    <3>2. 0 \in 0..n /\ d[0] \in Nat /\ d[0] <= k
      BY <1>2
    <3>3. 0 < n => d[0 + 1] > k
      BY <2>1
    <3> QED
      BY <3>1, <3>2, <3>3
  <2>2. CASE n > 0 /\ d[1] <= k /\ (n = 2 => d[2] > k)
    <3>1. S = 1..1
      <4>1. \A i \in 1..n : i = 1 \/ (i = 2 /\ n = 2)
        BY <1>2
      <4>2. 1 \in 1..n
        BY <1>2, <2>2
      <4> QED
        BY <1>2, <2>2, <4>1, <4>2
    <3>2. 1 \in 0..n /\ d[1] \in Nat /\ d[1] <= k
      BY <1>2, <2>2
    <3>3. 1 < n => d[1 + 1] > k
      BY <1>2, <2>2
    <3> QED
      BY <3>1, <3>2, <3>3
  <2>3. CASE n = 2 /\ d[2] <= k
    <3>1. S = 1..2
      <4>1. \A i \in 1..n : i = 1 \/ i = 2
        BY <1>2
      <4> QED
        BY <1>2, <2>3, <4>1
    <3>2. 2 \in 0..n /\ d[2] \in Nat /\ d[2] <= k
      BY <1>2, <2>3
    <3> QED
      BY <2>3, <3>1, <3>2
  <2>4. \A i \in 1..n : d[i] <= k \/ d[i] > k
    BY <1>2
  <2> QED
    BY <1>2, <2>1, <2>2, <2>3, <2>4
<1>4. PICK p \in 0..n : S = 1..p /\ d[p] \in Nat /\ d[p] <= k /\ (p < n => d[p + 1] > k)
  BY <1>3
<1>5. p = Cardinality(S)
  <2>1. p \in Nat /\ p \in Int /\ 1 \in Int
    BY <1>2
  <2>2. Cardinality(1..p) = p
    BY <2>1, FS_Interval
  <2> QED
    BY <1>4, <2>2
<1> QED
  BY <1>4, <1>5 DEF n, d

LEMMA Shift ==
  ASSUME NEW n \in Nat, NEW p \in Nat, p <= n
  PROVE  /\ (IF p + 1 <= n THEN n - (p + 1) + 1 ELSE 0) = n - p /\ n - (p + 1) + 1 = n - p
         /\ \A i \in 1..(n - p) : /\ (p + 1) + i - 1 = p + i /\ p + i \in (p + 1)..n
                               /\ p + 1 + i \in 1..(n + 1) /\ ~(p + 1 + i <= p + 1)
                               /\ p + 1 + i - (p + 1) = i
         /\ \A i \in 1..p : i \in 1..(p + 1) /\ i \in 1..(n + 1) /\ i <= p + 1
         /\ p + 1 \in 1..(p + 1) /\ p + 1 \in 1..(n + 1)
<1>1. (IF p + 1 <= n THEN n - (p + 1) + 1 ELSE 0) = n - p /\ n - (p + 1) + 1 = n - p
  OBVIOUS
<1>2. ASSUME NEW i \in 1..(n - p)
      PROVE  /\ (p + 1) + i - 1 = p + i /\ p + i \in (p + 1)..n
             /\ p + 1 + i \in 1..(n + 1) /\ ~(p + 1 + i <= p + 1)
             /\ p + 1 + i - (p + 1) = i
  OBVIOUS
<1>3. \A i \in 1..p : i \in 1..(p + 1) /\ i \in 1..(n + 1) /\ i <= p + 1
  OBVIOUS
<1>4. p + 1 \in 1..(p + 1) /\ p + 1 \in 1..(n + 1)
  OBVIOUS
<1> QED
  BY <1>1, <1>2, <1>3, <1>4

LEMMA Shortened ==
  ASSUME NEW x \in Entry, NEW time \in Nat, x.time >= time
  PROVE  LET y == [x EXCEPT !.time = @ - time]
         IN y \in Entry /\ y.h = x.h /\ y.time = x.time - time
<1>1. x \in [h : Timer, time : Nat] /\ x.time \in Nat /\ x.h \in Timer
  BY DEF Entry
<1> DEFINE y == [x EXCEPT !.time = @ - time]
<1>2. y.h = x.h /\ y.time = x.time - time /\ y = [h |-> x.h, time |-> x.time - time]
  BY <1>1
<1>3. x.time - time \in Nat
  BY <1>1
<1> QED
  BY <1>1, <1>2, <1>3 DEF Entry

(* How many timers of the list go before a new one of handler h. *)
Before(list, h) == Cardinality({i \in 1..Len(list) : Due(list)[i] <= Interval[h]})

(* What the new list holds. *)
LEMMA InsertElements ==
  ASSUME NEW list \in Seq(Entry), NEW h \in Timer, NEW p \in 0..Len(list), p = Before(list, h),
         NEW time \in Nat, time = Interval[h] - Due(list)[p],
         p < Len(list) => list[p + 1].time >= time
  PROVE  /\ Insert(list, h) \in Seq(Entry) /\ Len(Insert(list, h)) = Len(list) + 1
         /\ \A i \in 1..p : Insert(list, h)[i] = list[i]
         /\ Insert(list, h)[p + 1] = [h |-> h, time |-> time]
         /\ \A i \in (p + 1)..Len(list) :
              /\ Insert(list, h)[i + 1].h = list[i].h
              /\ Insert(list, h)[i + 1].time = IF i = p + 1 THEN list[i].time - time ELSE list[i].time
<1> DEFINE n == Len(list)
           pre == SubSeq(list, 1, p)
           e == [h |-> h, time |-> time]
           rest == SubSeq(list, p + 1, n)
           aft == [i \in DOMAIN rest |-> IF i = 1 THEN [rest[1] EXCEPT !.time = @ - time] ELSE rest[i]]
           new == Insert(list, h)
<1>1. new = pre \o <<e>> \o aft
  BY DEF Insert, Before
<1>2. n \in Nat /\ p \in Nat /\ p <= n
  BY EntriesOf
<1>0. /\ (IF p + 1 <= n THEN n - (p + 1) + 1 ELSE 0) = n - p /\ n - (p + 1) + 1 = n - p
      /\ \A i \in 1..(n - p) : /\ (p + 1) + i - 1 = p + i /\ p + i \in (p + 1)..n
                            /\ p + 1 + i \in 1..(n + 1) /\ ~(p + 1 + i <= p + 1)
                            /\ p + 1 + i - (p + 1) = i
      /\ \A i \in 1..p : i \in 1..(p + 1) /\ i \in 1..(n + 1) /\ i <= p + 1
      /\ p + 1 \in 1..(p + 1) /\ p + 1 \in 1..(n + 1)
  <2> HIDE DEF n
  <2> QED
    BY ONLY <1>2, Shift
<1>3. pre \in Seq(Entry) /\ Len(pre) = p /\ \A i \in 1..p : pre[i] = list[i]
  <2>1. 1 \in Int /\ p \in Int
    BY <1>2
  <2>2. \A i \in 1..p : list[i] \in Entry
    BY <1>2, EntriesOf
  <2>3. /\ SubSeq(list, 1, p) \in Seq(Entry)
        /\ Len(SubSeq(list, 1, p)) = IF 1 <= p THEN p - 1 + 1 ELSE 0
        /\ \A i \in 1..(p - 1 + 1) : SubSeq(list, 1, p)[i] = list[1 + i - 1]
    BY ONLY <2>1, <2>2, SubSeqProperties
  <2>4. (IF 1 <= p THEN p - 1 + 1 ELSE 0) = p /\ p - 1 + 1 = p /\ \A i \in 1..p : 1 + i - 1 = i
    BY <1>2
  <2> QED
    BY <2>3, <2>4
<1>4. e \in Entry /\ e.h = h
  BY DEF Entry
<1>5. rest \in Seq(Entry) /\ Len(rest) = n - p /\ \A i \in 1..(n - p) : rest[i] = list[p + i]
  <2> DEFINE a == p + 1
  <2>1. a \in Int /\ n \in Int
    BY <1>2
  <2>2. \A i \in a..n : list[i] \in Entry
    BY <1>2, EntriesOf
  <2> HIDE DEF n, a
  <2>3. /\ SubSeq(list, a, n) \in Seq(Entry)
        /\ Len(SubSeq(list, a, n)) = IF a <= n THEN n - a + 1 ELSE 0
        /\ \A i \in 1..(n - a + 1) : SubSeq(list, a, n)[i] = list[a + i - 1]
    BY ONLY <2>1, <2>2, SubSeqProperties
  <2>4. /\ (IF a <= n THEN n - a + 1 ELSE 0) = n - p /\ n - a + 1 = n - p
        /\ \A i \in 1..(n - p) : a + i - 1 = p + i
    BY <1>0 DEF a
  <2>5. rest = SubSeq(list, a, n)
    BY DEF a
  <2> HIDE DEF rest
  <2>6. rest \in Seq(Entry) /\ Len(rest) = n - p
    BY <2>3, <2>4, <2>5
  <2>7. \A i \in 1..(n - p) : rest[i] = list[a + i - 1]
    BY <2>3, <2>4, <2>5
  <2> QED
    BY <2>4, <2>6, <2>7
<1>6. DOMAIN rest = 1..(n - p) /\ n - p \in Nat
  BY <1>2, <1>5
<1>7. \A i \in 1..(n - p) : /\ aft[i] \in Entry /\ aft[i].h = list[p + i].h
                           /\ aft[i].time = IF i = 1 THEN list[p + i].time - time ELSE list[p + i].time
  <2> SUFFICES ASSUME NEW i \in 1..(n - p)
               PROVE  /\ aft[i] \in Entry /\ aft[i].h = list[p + i].h
                      /\ aft[i].time = IF i = 1 THEN list[p + i].time - time ELSE list[p + i].time
    OBVIOUS
  <2>1. rest[i] = list[p + i] /\ rest[i] \in Entry /\ list[p + i] \in Entry
    <3> HIDE DEF rest, aft, n
    <3>1. rest[i] \in Entry
      BY ONLY <1>5, <1>6, i \in 1..(n - p)
    <3>2. rest[i] = list[p + i]
      BY ONLY <1>5, i \in 1..(n - p)
    <3> QED
      BY ONLY <3>1, <3>2
  <2>2. CASE i = 1
    <3>1. aft[i] = [rest[1] EXCEPT !.time = @ - time]
      BY <1>6, <2>2
    <3>2. p < n /\ list[p + 1].time >= time
      BY <1>2, <2>2
    <3>3. aft[i] = [list[p + 1] EXCEPT !.time = @ - time] /\ list[p + 1] \in Entry
      BY <2>1, <2>2, <3>1
    <3>4. LET y == [list[p + 1] EXCEPT !.time = @ - time]
          IN y \in Entry /\ y.h = list[p + 1].h /\ y.time = list[p + 1].time - time
      BY ONLY <3>2, <3>3, time \in Nat, Shortened
    <3>5. p + i = p + 1
      BY <2>2
    <3> HIDE DEF aft
    <3> QED
      BY <2>2, <3>3, <3>4, <3>5
  <2>3. CASE i # 1
    <3>1. aft[i] = rest[i]
      BY <1>6, <2>3
    <3> QED
      BY <2>1, <2>3, <3>1
  <2> QED
    BY <2>2, <2>3
<1> DEFINE k == n - p
<1>8. aft \in Seq(Entry) /\ Len(aft) = k
  <2>1. DOMAIN aft = 1..k /\ k \in Nat /\ \A i \in 1..k : aft[i] \in Entry
    BY <1>6, <1>7
  <2>2. aft \in [1..k -> Entry]
    <3>1. aft = [i \in 1..k |-> aft[i]]
      BY <1>6
    <3> HIDE DEF aft, k
    <3> QED
      BY <2>1, <3>1
  <2> HIDE DEF aft, k
  <2> QED
    BY <2>1, <2>2
<1> HIDE DEF pre, e, aft, n, new, rest
<1>9. /\ new \in Seq(Entry) /\ Len(new) = n + 1
      /\ \A i \in 1..p : new[i] = pre[i]
      /\ new[p + 1] = e
      /\ \A i \in 1..k : new[p + 1 + i] = aft[i]
  <2> DEFINE q == pre \o <<e>>
  <2>1. /\ q \in Seq(Entry) /\ Len(q) = p + 1 /\ q[p + 1] = e
        /\ \A i \in 1..p : q[i] = pre[i]
    <3>1. <<e>> \in Seq(Entry) /\ Len(<<e>>) = 1 /\ <<e>>[1] = e
      BY <1>4
    <3>2. /\ q \in Seq(Entry) /\ Len(q) = Len(pre) + Len(<<e>>)
          /\ \A i \in 1..(Len(pre) + Len(<<e>>)) : q[i] = IF i <= Len(pre) THEN pre[i] ELSE <<e>>[i - Len(pre)]
      BY ONLY <1>3, <3>1, ConcatProperties
    <3> HIDE DEF q
    <3>3. /\ q \in Seq(Entry) /\ Len(q) = p + 1
          /\ \A i \in 1..(p + 1) : q[i] = IF i <= p THEN pre[i] ELSE <<e>>[i - p]
      BY <1>3, <3>1, <3>2
    <3>4. p + 1 \in 1..(p + 1) /\ ~(p + 1 <= p) /\ p + 1 - p = 1
      BY <1>2
    <3>5. \A i \in 1..p : i \in 1..(p + 1) /\ i <= p
      BY <1>2
    <3> QED
      BY <3>1, <3>3, <3>4, <3>5
  <2>2. new = q \o aft
    BY <1>1
  <2> HIDE DEF q
  <2>3. /\ q \o aft \in Seq(Entry) /\ Len(q \o aft) = Len(q) + Len(aft)
        /\ \A i \in 1..(Len(q) + Len(aft)) : (q \o aft)[i] = IF i <= Len(q) THEN q[i] ELSE aft[i - Len(q)]
    BY ONLY <1>8, <2>1, ConcatProperties
  <2>4. /\ new \in Seq(Entry) /\ Len(new) = p + 1 + k
        /\ \A i \in 1..(p + 1 + k) : new[i] = IF i <= p + 1 THEN q[i] ELSE aft[i - (p + 1)]
    BY <1>8, <2>1, <2>2, <2>3
  <2>5. k = n - p /\ p + 1 + k = n + 1
    BY <1>2
  <2>6. /\ \A i \in 1..p : i \in 1..(p + 1) /\ i \in 1..(n + 1) /\ i <= p + 1
        /\ p + 1 \in 1..(p + 1) /\ p + 1 \in 1..(n + 1) /\ p + 1 <= p + 1
        /\ \A i \in 1..k : /\ p + 1 + i \in 1..(n + 1) /\ ~(p + 1 + i <= p + 1)
                          /\ p + 1 + i - (p + 1) = i
    BY <1>0, <2>5
  <2> HIDE DEF k
  <2>7. /\ new \in Seq(Entry) /\ Len(new) = n + 1
        /\ \A i \in 1..(n + 1) : new[i] = IF i <= p + 1 THEN q[i] ELSE aft[i - (p + 1)]
    BY <2>4, <2>5
  <2>8. \A i \in 1..p : new[i] = pre[i]
    BY <2>1, <2>6, <2>7
  <2>9. new[p + 1] = e
    BY <2>1, <2>6, <2>7
  <2>10. \A i \in 1..k : new[p + 1 + i] = aft[i]
    <3> SUFFICES ASSUME NEW i \in 1..k PROVE new[p + 1 + i] = aft[i]
      OBVIOUS
    <3> DEFINE u == p + 1 + i
    <3>1. u \in 1..(n + 1) /\ ~(u <= p + 1) /\ u - (p + 1) = i
      BY <2>6
    <3> HIDE DEF u
    <3>2. new[u] = aft[u - (p + 1)]
      BY <2>7, <3>1
    <3> QED
      BY <3>1, <3>2 DEF u
  <2> QED
    BY <2>7, <2>8, <2>9, <2>10
<1>10. \A i \in (p + 1)..n : /\ new[i + 1].h = list[i].h
                             /\ new[i + 1].time = IF i = p + 1 THEN list[i].time - time ELSE list[i].time
  <2> SUFFICES ASSUME NEW i \in (p + 1)..n
               PROVE  /\ new[i + 1].h = list[i].h
                      /\ new[i + 1].time = IF i = p + 1 THEN list[i].time - time ELSE list[i].time
    OBVIOUS
  <2> DEFINE j == i - p
  <2>1. j \in 1..k /\ p + j = i /\ p + 1 + j = i + 1 /\ (j = 1 <=> i = p + 1)
    BY <1>2
  <2> HIDE DEF j, k
  <2>2. new[i + 1] = aft[j]
    BY <1>9, <2>1
  <2>3. /\ aft[j].h = list[p + j].h
        /\ aft[j].time = IF j = 1 THEN list[p + j].time - time ELSE list[p + j].time
    BY <1>7, <2>1 DEF k
  <2> QED
    BY <2>1, <2>2, <2>3
<1> QED
  BY <1>3, <1>9, <1>10 DEF n, new, e
(* The timer is put where it is due at its period, and no other moves.      *)
LEMMA Inserted ==
  ASSUME NEW list \in Timers(2), NEW h \in Timer, h \notin HandlersOf(list)
  PROVE  \E p \in 0..Len(list) :
           /\ Insert(list, h) \in Seq(Entry) /\ Len(Insert(list, h)) = Len(list) + 1
           /\ Insert(list, h)[p + 1].h = h /\ Due(Insert(list, h))[p + 1] = Interval[h]
           /\ \A i \in 1..p : /\ Insert(list, h)[i].h = list[i].h
                              /\ Due(Insert(list, h))[i] = Due(list)[i]
           /\ \A i \in (p + 1)..Len(list) : /\ Insert(list, h)[i + 1].h = list[i].h
                                            /\ Due(Insert(list, h))[i + 1] = Due(list)[i]
<1> DEFINE n == Len(list)
           d == Due(list)
           new == Insert(list, h)
           dn == Due(new)
           I == Interval[h]
<1>1. list \in Seq(Entry) /\ n \in 0..2 /\ n \in 0..3 /\ I \in Nat
  <2>1. I \in Nat
    BY Periods
  <2>2. list \in Seq(Entry) /\ Len(list) \in 0..2
    BY DEF Timers
  <2> QED
    BY <2>1, <2>2
<1>2. PICK p \in 0..Len(list) :
        /\ p = Before(list, h)
        /\ Due(list)[p] \in Nat /\ Due(list)[p] <= Interval[h]
        /\ p < Len(list) => Due(list)[p + 1] > Interval[h]
  <2> HIDE DEF I
  <2>1. list \in Seq(Entry) /\ Len(list) \in 0..2 /\ Interval[h] \in Nat
    BY <1>1 DEF I
  <2> QED
    BY ONLY <2>1, DueFirst DEF Before
<1>3. d[0] = 0 /\ \A i \in 1..n : d[i] = d[i - 1] + list[i].time /\ d[i] \in Nat /\ list[i].time \in Nat
  <2>1. list \in Seq(Entry) /\ Len(list) \in 0..3
    BY <1>1
  <2>2. d[0] = 0 /\ \A i \in 1..n : d[i] = d[i - 1] + list[i].time
    BY ONLY <2>1, DueIs
  <2>3. \A i \in 1..Len(list) : Due(list)[i] \in Nat /\ list[i].time \in Nat
    BY ONLY <2>1, DueUnrolled
  <2> QED
    BY <2>2, <2>3
<1> DEFINE time == I - d[p]
<1>4. time \in Nat /\ (p < n => list[p + 1].time >= time)
  <2>1. time \in Nat
    BY <1>1, <1>2
  <2>2. ASSUME p < n PROVE list[p + 1].time >= time
    <3>1. p + 1 \in 1..n /\ p + 1 - 1 = p
      BY <1>1, <2>2
    <3>2. d[p + 1] = d[p] + list[p + 1].time /\ list[p + 1].time \in Nat
      <4> HIDE DEF d, n
      <4> QED
        BY <1>3, <3>1
    <3> HIDE DEF d
    <3>3. d[p + 1] > I /\ d[p] \in Nat
      BY <1>2, <2>2 DEF d
    <3> QED
      BY <1>1, <3>2, <3>3
  <2> QED
    BY <2>1, <2>2
<1>5. /\ new \in Seq(Entry) /\ Len(new) = n + 1
      /\ \A i \in 1..p : new[i] = list[i]
      /\ new[p + 1] = [h |-> h, time |-> time]
      /\ \A i \in (p + 1)..n : /\ new[i + 1].h = list[i].h
                               /\ new[i + 1].time = IF i = p + 1 THEN list[i].time - time ELSE list[i].time
  <2>1. /\ list \in Seq(Entry) /\ h \in Timer /\ p \in 0..Len(list)
        /\ p = Before(list, h)
    BY <1>1, <1>2
  <2>2. time = Interval[h] - Due(list)[p]
    OBVIOUS
  <2>3. p < Len(list) => list[p + 1].time >= time
    BY <1>4
  <2>4. time \in Nat
    BY <1>4
  <2> HIDE DEF time
  <2> QED
    BY ONLY <2>1, <2>2, <2>3, <2>4, InsertElements
<1>6. dn[0] = 0 /\ \A i \in 1..(n + 1) : dn[i] = dn[i - 1] + new[i].time
  <2>1. new \in Seq(Entry) /\ Len(new) \in 0..3
    <3>1. new \in Seq(Entry) /\ Len(new) = n + 1
      BY <1>5
    <3> HIDE DEF new, n
    <3>2. n + 1 \in 0..3
      BY <1>1
    <3> QED
      BY <3>1, <3>2
  <2> HIDE DEF new
  <2>2. Due(new)[0] = 0 /\ \A i \in 1..Len(new) : Due(new)[i] = Due(new)[i - 1] + new[i].time
    BY ONLY <2>1, DueIs
  <2> QED
    BY <1>5, <2>2
<1> HIDE DEF n, d, new, dn, I
<1>7. /\ n \in {0, 1, 2} /\ p \in 0..n /\ time \in Nat /\ time = I - d[p] /\ d[p] \in Nat
      /\ new[p + 1].time = time /\ new[p + 1].h = h
  <2>1. n \in {0, 1, 2}
    BY <1>1
  <2>2. p \in 0..n
    BY <1>2 DEF n
  <2>3. d[p] \in Nat
    BY <1>2 DEF d
  <2>4. time \in Nat /\ time = I - d[p]
    BY <1>4
  <2> HIDE DEF time
  <2>5. new[p + 1].time = time /\ new[p + 1].h = h
    BY <1>5
  <2> QED
    BY <2>1, <2>2, <2>3, <2>4, <2>5
<1> HIDE DEF time
<1>8. \A i \in 1..p : dn[i] = d[i]
  <2>1. 1 <= p => dn[1] = d[1]
    <3> SUFFICES ASSUME 1 <= p PROVE dn[1] = d[1]
      OBVIOUS
    <3>1. 1 \in 1..p /\ 1 \in 1..n /\ 1 \in 1..(n + 1) /\ 1 - 1 = 0
      BY <1>7
    <3>2. dn[1] = dn[0] + new[1].time /\ d[1] = d[0] + list[1].time /\ new[1] = list[1]
      BY <1>3, <1>5, <1>6, <3>1
    <3> QED
      BY <1>3, <1>6, <3>2
  <2>2. 2 <= p => dn[2] = d[2]
    <3> SUFFICES ASSUME 2 <= p PROVE dn[2] = d[2]
      OBVIOUS
    <3>1. 1 <= p /\ 2 \in 1..p /\ 2 \in 1..n /\ 2 \in 1..(n + 1) /\ 2 - 1 = 1
      BY <1>7
    <3>2. dn[2] = dn[1] + new[2].time /\ d[2] = d[1] + list[2].time /\ new[2] = list[2]
      BY <1>3, <1>5, <1>6, <3>1
    <3> QED
      BY <2>1, <3>1, <3>2
  <2>3. \A i \in 1..p : i = 1 \/ i = 2
    BY <1>7
  <2> QED
    BY <2>1, <2>2, <2>3
<1>9. dn[p] = d[p]
  <2>1. p = 0 \/ p \in 1..p
    BY <1>7
  <2> QED
    BY <1>3, <1>6, <1>8, <2>1
<1>10. dn[p + 1] = I
  <2>1. p + 1 \in 1..(n + 1) /\ p + 1 - 1 = p
    BY <1>7
  <2>2. dn[p + 1] = dn[p] + new[p + 1].time
    BY <1>6, <2>1
  <2> QED
    BY <1>1, <1>7, <1>9, <2>2
<1>11. p + 1 <= n => dn[p + 2] = d[p + 1] /\ d[p + 1] \in Nat
  <2> SUFFICES ASSUME p + 1 <= n PROVE dn[p + 2] = d[p + 1] /\ d[p + 1] \in Nat
    OBVIOUS
  <2>1. /\ p + 1 \in 1..n /\ p + 1 \in (p + 1)..n /\ p + 1 - 1 = p /\ p + 1 + 1 = p + 2
        /\ p + 2 \in 1..(n + 1) /\ p + 2 - 1 = p + 1
    BY <1>7
  <2>2. dn[p + 2] = dn[p + 1] + new[p + 2].time
    BY <1>6, <2>1
  <2>3. d[p + 1] = d[p] + list[p + 1].time /\ list[p + 1].time \in Nat /\ d[p + 1] \in Nat
    BY <1>3, <2>1
  <2>4. new[p + 2].time = list[p + 1].time - time
    BY <1>5, <2>1
  <2>5. I \in Nat /\ d[p] \in Nat /\ time = I - d[p] /\ dn[p + 1] = I
    BY <1>1, <1>7, <1>10
  <2>6. dn[p + 2] = I + (list[p + 1].time - time)
    BY <2>2, <2>4, <2>5
  <2>7. I + (list[p + 1].time - time) = d[p] + list[p + 1].time
    BY <2>3, <2>5
  <2> QED
    BY <2>3, <2>6, <2>7
<1>12. \A i \in (p + 1)..n : dn[i + 1] = d[i]
  <2> SUFFICES ASSUME NEW i \in (p + 1)..n PROVE dn[i + 1] = d[i]
    OBVIOUS
  <2>1. i = p + 1 \/ (p = 0 /\ n = 2 /\ i = 2)
    BY <1>7
  <2>2. CASE i = p + 1
    <3>1. p + 1 <= n /\ i + 1 = p + 2
      BY <1>7, <2>2
    <3> QED
      BY <1>11, <2>2, <3>1
  <2>3. CASE p = 0 /\ n = 2 /\ i = 2
    <3>1. dn[2] = d[1]
      BY <1>11, <2>3
    <3>2. dn[3] = dn[2] + new[3].time
      <4>1. 3 \in 1..(n + 1) /\ 3 - 1 = 2
        BY <2>3
      <4> QED
        BY <1>6, <4>1
    <3>3. d[2] = d[1] + list[2].time
      <4>1. 2 \in 1..n /\ 2 - 1 = 1
        BY <2>3
      <4> QED
        BY <1>3, <4>1
    <3>4. new[3].time = list[2].time
      <4>1. 2 \in (p + 1)..n /\ 2 + 1 = 3 /\ 2 # p + 1
        BY <2>3
      <4> QED
        BY <1>5, <4>1
    <3> QED
      BY <2>3, <3>1, <3>2, <3>3, <3>4
  <2> QED
    BY <2>1, <2>2, <2>3
<1>13. \A i \in 1..p : new[i].h = list[i].h
  BY <1>5
<1> QED
  BY <1>5, <1>7, <1>8, <1>10, <1>12, <1>13 DEF n, d, new, dn, I
-----------------------------------------------------------------------------
(* The other changes of a list: its first timer is taken off, or some of    *)
(* its time.                                                                *)

LEMMA Removed ==
  ASSUME NEW list \in Timers(3), list # <<>>
  PROVE  /\ Tail(list) \in Timers(2) /\ Len(Tail(list)) = Len(list) - 1
         /\ \A i \in 1..(Len(list) - 1) :
              /\ Tail(list)[i].h = list[i + 1].h
              /\ Due(Tail(list))[i] = Due(list)[i + 1] - list[1].time
<1> DEFINE n == Len(list)
           t == Tail(list)
           d == Due(list)
           dt == Due(t)
<1>1. list \in Seq(Entry) /\ Len(list) \in 0..3 /\ Distinct(list) /\ InPeriod(list)
  BY DEF Timers
<1>2. t \in Seq(Entry) /\ Len(t) = n - 1 /\ n \in 1..3 /\ \A i \in 1..Len(t) : t[i] = list[i + 1]
  BY <1>1, HeadTailProperties
<1>3. Len(t) \in 0..3
  BY <1>2
<1>4. /\ \A i \in 1..n : d[i] \in Nat /\ list[i].time \in Nat /\ list[i].h \in Timer
      /\ d[1] = list[1].time
      /\ n >= 2 => d[2] = list[1].time + list[2].time
      /\ n >= 3 => d[3] = list[1].time + list[2].time + list[3].time
  <2>1. n >= 1
    BY <1>2
  <2> QED
    BY <1>1, <2>1, DueUnrolled
<1>5. /\ Len(t) >= 1 => dt[1] = t[1].time
      /\ Len(t) >= 2 => dt[2] = t[1].time + t[2].time
  BY <1>2, <1>3, DueUnrolled
<1> HIDE DEF n, t, d, dt
<1>6. \A i \in 1..(n - 1) : i + 1 \in 1..n /\ t[i] = list[i + 1]
  BY <1>2
<1>7. n >= 2 => dt[1] = d[2] - list[1].time
  <2> SUFFICES ASSUME n >= 2 PROVE dt[1] = d[2] - list[1].time
    OBVIOUS
  <2>1. 1 \in 1..(n - 1) /\ 1 + 1 = 2 /\ Len(t) >= 1 /\ 1 \in 1..n /\ 2 \in 1..n
    BY <1>2
  <2> QED
    BY <1>4, <1>5, <1>6, <2>1
<1>8. n >= 3 => dt[2] = d[3] - list[1].time
  <2> SUFFICES ASSUME n >= 3 PROVE dt[2] = d[3] - list[1].time
    OBVIOUS
  <2>1. /\ 1 \in 1..(n - 1) /\ 1 + 1 = 2 /\ 2 \in 1..(n - 1) /\ 2 + 1 = 3 /\ Len(t) >= 2
        /\ 1 \in 1..n /\ 2 \in 1..n /\ 3 \in 1..n
    BY <1>2
  <2>2. dt[2] = list[2].time + list[3].time
    BY <1>5, <1>6, <2>1
  <2>3. list[1].time \in Nat /\ list[2].time \in Nat /\ list[3].time \in Nat
    BY <1>4, <2>1
  <2> QED
    BY <1>4, <2>2, <2>3
<1>9. \A i \in 1..(n - 1) : dt[i] = d[i + 1] - list[1].time
  <2> SUFFICES ASSUME NEW i \in 1..(n - 1) PROVE dt[i] = d[i + 1] - list[1].time
    OBVIOUS
  <2>1. (i = 1 /\ n >= 2) \/ (i = 2 /\ n >= 3)
    BY <1>2
  <2> QED
    BY <1>7, <1>8, <2>1
<1>10. Distinct(t)
  <2>1. \A i, j \in 1..n : list[i].h = list[j].h => i = j
    BY <1>1 DEF Distinct, n
  <2> SUFFICES ASSUME NEW i \in 1..Len(t), NEW j \in 1..Len(t), t[i].h = t[j].h PROVE i = j
    BY DEF Distinct
  <2>2. i \in 1..(n - 1) /\ j \in 1..(n - 1)
    BY <1>2
  <2>3. i + 1 = j + 1
    BY <1>6, <2>1, <2>2
  <2> QED
    BY <2>2, <2>3
<1>11. InPeriod(t)
  <2>1. \A i \in 1..n : d[i] <= Interval[list[i].h]
    BY <1>1 DEF InPeriod, n, d
  <2> SUFFICES ASSUME NEW i \in 1..Len(t) PROVE dt[i] <= Interval[t[i].h]
    BY DEF InPeriod, dt
  <2>2. i \in 1..(n - 1) /\ i + 1 \in 1..n /\ 1 \in 1..n
    BY <1>2
  <2>3. dt[i] = d[i + 1] - list[1].time /\ t[i].h = list[i + 1].h
    BY <1>6, <1>9, <2>2
  <2>4. d[i + 1] \in Nat /\ list[1].time \in Nat /\ Interval[list[i + 1].h] \in Nat
    BY <1>4, <2>2, Periods
  <2>5. d[i + 1] <= Interval[list[i + 1].h]
    BY <2>1, <2>2
  <2> QED
    BY <2>3, <2>4, <2>5
<1>12. Len(t) \in 0..2
  BY <1>2
<1>13. t \in Timers(2)
  BY <1>2, <1>10, <1>11, <1>12 DEF Timers
<1> QED
  BY <1>2, <1>6, <1>9, <1>13 DEF n, t, d, dt

LEMMA Charged ==
  ASSUME NEW list \in Timers(3), list # <<>>, NEW c \in 0..list[1].time
  PROVE  LET new == [list EXCEPT ![1].time = @ - c]
         IN /\ new \in Timers(3) /\ Len(new) = Len(list)
            /\ \A i \in 1..Len(list) : new[i].h = list[i].h /\ Due(new)[i] = Due(list)[i] - c
<1> DEFINE n == Len(list)
           new == [list EXCEPT ![1].time = @ - c]
           d == Due(list)
           dn == Due(new)
<1>1. list \in Seq(Entry) /\ Len(list) \in 0..3 /\ Distinct(list) /\ InPeriod(list)
  BY DEF Timers
<1>2. n \in 1..3 /\ 1 \in 1..n
  BY <1>1, EmptySeq
<1>3. /\ \A i \in 1..n : d[i] \in Nat /\ list[i].time \in Nat /\ list[i].h \in Timer
      /\ d[1] = list[1].time
      /\ n >= 2 => d[2] = list[1].time + list[2].time
      /\ n >= 3 => d[3] = list[1].time + list[2].time + list[3].time
  <2>1. n >= 1
    BY <1>2
  <2> QED
    BY <1>1, <2>1, DueUnrolled
<1>4. list[1].time \in Nat /\ c \in Nat /\ c <= list[1].time
  BY <1>2, <1>3
<1> DEFINE e == [list[1] EXCEPT !.time = @ - c]
<1>5. e \in Entry /\ e.h = list[1].h /\ e.time = list[1].time - c
  <2>1. list[1] \in Entry
    BY <1>1, <1>2
  <2> QED
    BY <1>4, <2>1, Shortened
<1>6. new = [list EXCEPT ![1] = e]
  OBVIOUS
<1> HIDE DEF new, e
<1>7. /\ new \in Seq(Entry) /\ Len(new) = n
      /\ \A j \in 1..n : new[j] = IF j = 1 THEN e ELSE list[j]
  <2>1. list \in Seq(Entry) /\ 1 \in 1..Len(list) /\ e \in Entry
    BY <1>1, <1>2, <1>5
  <2> QED
    BY ONLY <1>6, <2>1, ExceptSeq
<1>8. /\ dn[1] = new[1].time
      /\ n >= 2 => dn[2] = new[1].time + new[2].time
      /\ n >= 3 => dn[3] = new[1].time + new[2].time + new[3].time
  <2>1. new \in Seq(Entry) /\ Len(new) \in 0..3 /\ Len(new) >= 1
    BY <1>2, <1>7
  <2>2. /\ dn[1] = new[1].time
        /\ Len(new) >= 2 => dn[2] = new[1].time + new[2].time
        /\ Len(new) >= 3 => dn[3] = new[1].time + new[2].time + new[3].time
    BY ONLY <2>1, DueUnrolled
  <2> QED
    BY <1>7, <2>2
<1> HIDE DEF n, d, dn
<1>9. \A i \in 1..n : new[i].h = list[i].h
  BY <1>5, <1>7
<1>10. dn[1] = d[1] - c
  BY <1>2, <1>3, <1>5, <1>7, <1>8
<1>11. n >= 2 => dn[2] = d[2] - c
  <2> SUFFICES ASSUME n >= 2 PROVE dn[2] = d[2] - c
    OBVIOUS
  <2>1. 1 \in 1..n /\ 2 \in 1..n
    BY <1>2
  <2>2. dn[2] = (list[1].time - c) + list[2].time /\ list[2].time \in Nat
    BY <1>3, <1>5, <1>7, <1>8, <2>1
  <2> QED
    BY <1>3, <1>4, <2>2
<1>12. n >= 3 => dn[3] = d[3] - c
  <2> SUFFICES ASSUME n >= 3 PROVE dn[3] = d[3] - c
    OBVIOUS
  <2>1. 1 \in 1..n /\ 2 \in 1..n /\ 3 \in 1..n
    BY <1>2
  <2>2. dn[3] = (list[1].time - c) + list[2].time + list[3].time
    BY <1>5, <1>7, <1>8, <2>1
  <2>3. list[2].time \in Nat /\ list[3].time \in Nat
    BY <1>3, <2>1
  <2>4. d[3] = list[1].time + list[2].time + list[3].time
    BY <1>3
  <2>5. \A x, y, z \in Nat : (x - c) + y + z = (x + y + z) - c
    BY <1>4
  <2>6. (list[1].time - c) + list[2].time + list[3].time
          = (list[1].time + list[2].time + list[3].time) - c
    BY <1>4, <2>3, <2>5
  <2> QED
    BY <2>2, <2>4, <2>6
<1>13. \A i \in 1..n : dn[i] = d[i] - c
  <2> SUFFICES ASSUME NEW i \in 1..n PROVE dn[i] = d[i] - c
    OBVIOUS
  <2>1. i = 1 \/ (i = 2 /\ n >= 2) \/ (i = 3 /\ n >= 3)
    BY <1>2
  <2> QED
    BY <1>10, <1>11, <1>12, <2>1
<1>14. Distinct(new)
  BY <1>1, <1>7, <1>9 DEF Distinct, n
<1>15. InPeriod(new)
  <2>1. \A i \in 1..n : d[i] <= Interval[list[i].h]
    BY <1>1 DEF InPeriod, n, d
  <2> SUFFICES ASSUME NEW i \in 1..n PROVE dn[i] <= Interval[new[i].h]
    BY <1>7 DEF InPeriod, dn
  <2>2. dn[i] = d[i] - c /\ new[i].h = list[i].h /\ d[i] \in Nat /\ Interval[list[i].h] \in Nat
    BY <1>3, <1>9, <1>13, Periods
  <2> QED
    BY <1>4, <2>1, <2>2
<1>16. new \in Timers(3)
  BY <1>2, <1>7, <1>14, <1>15 DEF Timers
<1> QED
  BY <1>7, <1>9, <1>13, <1>16 DEF n, new, d, dn
-----------------------------------------------------------------------------
(* The list as a set of timers.                                             *)

(* When each handler is due: what TimerWheel sees of a list. *)
Togo(list) ==
  [h \in Timer |-> IF h \in {list[i].h : i \in DOMAIN list}
                     THEN Due(list)[CHOOSE i \in DOMAIN list : list[i].h = h]
                     ELSE -1]

LEMMA TogoShape ==
  ASSUME NEW list
  PROVE  /\ DOMAIN Togo(list) = Timer /\ Togo(list) = [g \in Timer |-> Togo(list)[g]]
         /\ \A f : f = [g \in Timer |-> f[g]] /\ (\A g \in Timer : f[g] = Togo(list)[g]) => f = Togo(list)
<1>1. DOMAIN Togo(list) = Timer /\ Togo(list) = [g \in Timer |-> Togo(list)[g]]
  BY DEF Togo
<1> QED
  BY <1>1

LEMMA TogoIs ==
  ASSUME NEW list \in Timers(3)
  PROVE  /\ Len(list) \in 0..3 /\ DOMAIN list = 1..Len(list)
         /\ \A i \in 1..Len(list) : /\ list[i].h \in Timer /\ list[i].h \in HandlersOf(list)
                                    /\ Togo(list)[list[i].h] = Due(list)[i]
                                    /\ Due(list)[i] \in Nat /\ list[i].time \in Nat
                                    /\ Due(list)[i] <= Interval[list[i].h]
         /\ \A h \in Timer : h \notin HandlersOf(list) => Togo(list)[h] = -1
<1>1. list \in Seq(Entry) /\ Len(list) \in 0..3 /\ Distinct(list) /\ InPeriod(list)
  BY DEF Timers
<1>2. DOMAIN list = 1..Len(list)
  BY <1>1
<1>3. \A i \in 1..Len(list) : /\ Due(list)[i] \in Nat /\ list[i].time \in Nat /\ list[i].h \in Timer
                              /\ Due(list)[i] <= Interval[list[i].h]
                              /\ list[i].h \in HandlersOf(list)
  BY <1>1, DueUnrolled DEF InPeriod, HandlersOf
<1>4. ASSUME NEW i \in 1..Len(list) PROVE Togo(list)[list[i].h] = Due(list)[i]
  <2> DEFINE k == CHOOSE j \in DOMAIN list : list[j].h = list[i].h
  <2>1. k \in 1..Len(list) /\ list[k].h = list[i].h
    BY <1>2
  <2>2. k = i
    BY <1>1, <2>1 DEF Distinct
  <2>3. list[i].h \in Timer /\ list[i].h \in {list[j].h : j \in DOMAIN list}
    BY <1>2, <1>3
  <2>4. Togo(list)[list[i].h] = Due(list)[k]
    BY <2>3 DEF Togo
  <2> HIDE DEF k
  <2> QED
    BY <2>2, <2>4
<1>5. \A h \in Timer : h \notin HandlersOf(list) => Togo(list)[h] = -1
  BY <1>2 DEF Togo, HandlersOf
<1> QED
  BY <1>1, <1>2, <1>3, <1>4, <1>5

(* sys_timeout sets one timer to its period. *)
LEMMA InsertedTimers ==
  ASSUME NEW list \in Timers(2), NEW h \in Timer, h \notin HandlersOf(list)
  PROVE  /\ Insert(list, h) \in Timers(3) /\ Len(Insert(list, h)) = Len(list) + 1
         /\ HandlersOf(Insert(list, h)) = HandlersOf(list) \cup {h}
         /\ Togo(Insert(list, h)) = [Togo(list) EXCEPT ![h] = Interval[h]]
         /\ Togo(list)[h] = -1
<1> DEFINE n == Len(list)
           d == Due(list)
           new == Insert(list, h)
           dn == Due(new)
<1>1. PICK p \in 0..n :
        /\ new \in Seq(Entry) /\ Len(new) = n + 1
        /\ new[p + 1].h = h /\ dn[p + 1] = Interval[h]
        /\ \A i \in 1..p : new[i].h = list[i].h /\ dn[i] = d[i]
        /\ \A i \in (p + 1)..n : new[i + 1].h = list[i].h /\ dn[i + 1] = d[i]
  BY Inserted
<1>2. list \in Timers(3) /\ n \in 0..2 /\ Distinct(list)
  BY DEF Timers
<1>3. /\ \A i \in 1..n : /\ list[i].h \in Timer /\ list[i].h \in HandlersOf(list)
                         /\ Togo(list)[list[i].h] = d[i] /\ d[i] <= Interval[list[i].h]
      /\ \A g \in Timer : g \notin HandlersOf(list) => Togo(list)[g] = -1
  BY <1>2, TogoIs
<1> HIDE DEF n, d, new, dn
<1>4. \A j \in 1..(n + 1) : \/ j = p + 1
                            \/ j \in 1..p /\ j \in 1..n
                            \/ j - 1 \in (p + 1)..n /\ j - 1 \in 1..n /\ (j - 1) + 1 = j
  BY <1>2
<1>5. \A j \in 1..(n + 1) :
        \/ j = p + 1 /\ new[j].h = h /\ dn[j] = Interval[h]
        \/ j \in 1..p /\ j \in 1..n /\ new[j].h = list[j].h /\ dn[j] = d[j]
        \/ j - 1 \in (p + 1)..n /\ j - 1 \in 1..n /\ new[j].h = list[j - 1].h /\ dn[j] = d[j - 1]
  <2> SUFFICES ASSUME NEW j \in 1..(n + 1)
               PROVE  \/ j = p + 1 /\ new[j].h = h /\ dn[j] = Interval[h]
                      \/ j \in 1..p /\ j \in 1..n /\ new[j].h = list[j].h /\ dn[j] = d[j]
                      \/ /\ j - 1 \in (p + 1)..n /\ j - 1 \in 1..n
                         /\ new[j].h = list[j - 1].h /\ dn[j] = d[j - 1]
    OBVIOUS
  <2>1. CASE j = p + 1
    BY <1>1, <2>1
  <2>2. CASE j \in 1..p /\ j \in 1..n
    BY <1>1, <2>2
  <2>3. CASE j - 1 \in (p + 1)..n /\ j - 1 \in 1..n /\ (j - 1) + 1 = j
    <3> DEFINE i == j - 1
    <3>1. i \in (p + 1)..n /\ i \in 1..n /\ i + 1 = j
      BY <2>3
    <3> HIDE DEF i
    <3>2. new[j].h = list[i].h /\ dn[j] = d[i]
      BY <1>1, <3>1
    <3> QED
      BY <3>1, <3>2 DEF i
  <2> QED
    BY <1>4, <2>1, <2>2, <2>3
<1>6. \A i \in 1..n : list[i].h # h
  BY <1>3
<1>7. Distinct(new)
  <2> SUFFICES ASSUME NEW j \in 1..(n + 1), NEW k \in 1..(n + 1), new[j].h = new[k].h PROVE j = k
    BY <1>1 DEF Distinct
  <2>1. \A a, b \in 1..n : list[a].h = list[b].h => a = b
    BY <1>2 DEF Distinct, n
  <2>2. p + 1 \in Nat /\ j \in Nat /\ k \in Nat /\ n \in Nat /\ p \in Nat
    BY <1>2
  <2>3. CASE j = p + 1
    BY <1>5, <1>6, <2>3
  <2>4. CASE k = p + 1
    BY <1>5, <1>6, <2>4
  <2>5. CASE j # p + 1 /\ k # p + 1
    <3> DEFINE Old(u, a) == a \in 1..n /\ new[u].h = list[a].h /\ ((u \in 1..p /\ a = u) \/ (u - 1 \in (p + 1)..n /\ a = u - 1))
    <3>1. PICK a : Old(j, a)
      BY <1>5, <2>5
    <3>2. PICK b : Old(k, b)
      BY <1>5, <2>5
    <3>3. a = b
      BY <2>1, <3>1, <3>2
    <3> QED
      BY <2>2, <3>1, <3>2, <3>3
  <2> QED
    BY <2>3, <2>4, <2>5
<1>8. InPeriod(new)
  <2> SUFFICES ASSUME NEW j \in 1..(n + 1) PROVE dn[j] <= Interval[new[j].h]
    BY <1>1 DEF InPeriod, dn
  <2>1. Interval[h] <= Interval[h]
    BY Periods
  <2> QED
    BY <1>3, <1>5, <2>1
<1>9. new \in Timers(3)
  <2>1. Len(new) \in 0..3
    BY <1>1, <1>2
  <2> QED
    BY <1>1, <1>7, <1>8, <2>1 DEF Timers
<1>10. HandlersOf(new) = HandlersOf(list) \cup {h}
  <2>1. HandlersOf(new) \subseteq HandlersOf(list) \cup {h}
    <3> SUFFICES ASSUME NEW j \in 1..(n + 1) PROVE new[j].h \in HandlersOf(list) \cup {h}
      BY <1>1 DEF HandlersOf
    <3> QED
      BY <1>3, <1>5
  <2>2. h \in HandlersOf(new)
    <3>1. p + 1 \in 1..Len(new) /\ new[p + 1].h = h
      BY <1>1, <1>2
    <3> QED
      BY <3>1 DEF HandlersOf
  <2>3. ASSUME NEW i \in 1..n PROVE list[i].h \in HandlersOf(new)
    <3>1. CASE i \in 1..p
      <4>1. i \in 1..Len(new) /\ new[i].h = list[i].h
        BY <1>1, <1>2, <3>1
      <4> QED
        BY <4>1 DEF HandlersOf
    <3>2. CASE i \in (p + 1)..n
      <4>1. i + 1 \in 1..Len(new) /\ new[i + 1].h = list[i].h
        BY <1>1, <1>2, <3>2
      <4> QED
        BY <4>1 DEF HandlersOf
    <3>3. i \in 1..p \/ i \in (p + 1)..n
      BY <1>2
    <3> QED
      BY <3>1, <3>2, <3>3
  <2>4. HandlersOf(list) \subseteq HandlersOf(new)
    BY <2>3 DEF HandlersOf, n
  <2> QED
    BY <2>1, <2>2, <2>4
<1>11. ASSUME NEW g \in Timer
       PROVE  Togo(new)[g] = IF g = h THEN Interval[h] ELSE Togo(list)[g]
  <2>1. /\ \A j \in 1..(n + 1) : Togo(new)[new[j].h] = dn[j]
        /\ \A f \in Timer : f \notin HandlersOf(new) => Togo(new)[f] = -1
    BY <1>1, <1>9, TogoIs DEF dn
  <2>2. CASE g \in HandlersOf(new)
    <3>1. PICK j \in 1..(n + 1) : g = new[j].h
      BY <1>1, <2>2 DEF HandlersOf
    <3>2. Togo(new)[g] = dn[j]
      BY <2>1, <3>1
    <3> QED
      BY <1>3, <1>5, <1>6, <3>1, <3>2
  <2>3. CASE g \notin HandlersOf(new)
    BY <1>3, <1>10, <2>1, <2>3
  <2> QED
    BY <2>2, <2>3
<1>12. Togo(new) = [Togo(list) EXCEPT ![h] = Interval[h]]
  <2>1. Togo(new) = [g \in Timer |-> IF g = h THEN Interval[h] ELSE Togo(list)[g]]
    BY <1>11, TogoShape
  <2>2. [Togo(list) EXCEPT ![h] = Interval[h]] = [g \in Timer |-> IF g = h THEN Interval[h] ELSE Togo(list)[g]]
    BY TogoShape
  <2> QED
    BY <2>1, <2>2
<1> QED
  BY <1>1, <1>3, <1>9, <1>10, <1>12 DEF n, new
(* The first timer is due first; without it the others are due sooner by    *)
(* its time.                                                                *)
LEMMA RemovedTimers ==
  ASSUME NEW list \in Timers(3), Len(list) > 0
  PROVE  /\ Tail(list) \in Timers(2) /\ Len(Tail(list)) = Len(list) - 1
         /\ Head(list) = list[1] /\ list[1].h \in HandlersOf(list) /\ list[1].h \in Timer
         /\ HandlersOf(Tail(list)) = HandlersOf(list) \ {list[1].h}
         /\ Togo(list)[list[1].h] = list[1].time /\ list[1].time \in Nat
         /\ list[1].time <= Interval[list[1].h]
         /\ \A g \in HandlersOf(list) :
              g \in Timer /\ Togo(list)[g] \in Nat /\ list[1].time <= Togo(list)[g]
         /\ \A g \in Timer :
              Togo(Tail(list))[g] = IF g \in HandlersOf(list) \ {list[1].h}
                                      THEN Togo(list)[g] - list[1].time ELSE -1
<1> DEFINE n == Len(list)
           t == Tail(list)
           d == Due(list)
           dt == Due(t)
<1>1. list \in Seq(Entry) /\ Len(list) \in 0..3 /\ Distinct(list) /\ list # <<>>
  <2>1. list \in Seq(Entry) /\ Len(list) \in 0..3 /\ Distinct(list)
    BY DEF Timers
  <2> QED
    BY <2>1
<1>2. /\ t \in Timers(2) /\ Len(t) = n - 1
      /\ \A i \in 1..(n - 1) : t[i].h = list[i + 1].h /\ dt[i] = d[i + 1] - list[1].time
  BY <1>1, Removed
<1>3. t \in Timers(3)
  <2>1. \A k \in 0..2 : k \in 0..3
    OBVIOUS
  <2> QED
    BY <1>2, <2>1 DEF Timers
<1>4. n \in 1..3 /\ 1 \in 1..n /\ Head(list) = list[1]
  BY <1>1
<1>5. /\ \A i \in 1..n : /\ list[i].h \in Timer /\ list[i].h \in HandlersOf(list)
                         /\ Togo(list)[list[i].h] = d[i] /\ d[i] \in Nat /\ list[i].time \in Nat
                         /\ d[i] <= Interval[list[i].h]
      /\ \A g \in Timer : g \notin HandlersOf(list) => Togo(list)[g] = -1
  BY TogoIs
<1>6. /\ \A i \in 1..Len(t) : t[i].h \in HandlersOf(t) /\ Togo(t)[t[i].h] = dt[i] /\ dt[i] \in Nat
      /\ \A g \in Timer : g \notin HandlersOf(t) => Togo(t)[g] = -1
  BY <1>3, TogoIs
<1>7. d[1] = list[1].time
  <2>1. Len(list) >= 1
    BY <1>4
  <2> QED
    BY <1>1, <2>1, DueUnrolled
<1> HIDE DEF n, t, d, dt
<1>8. \A j \in 1..n : j = 1 \/ (j - 1 \in 1..(n - 1) /\ (j - 1) + 1 = j)
  BY <1>4
<1>9. \A j \in 1..n : j = 1 \/ (/\ j - 1 \in 1..(n - 1)
                                /\ t[j - 1].h = list[j].h /\ dt[j - 1] = d[j] - list[1].time)
  <2> SUFFICES ASSUME NEW j \in 1..n, j # 1
               PROVE  /\ j - 1 \in 1..(n - 1)
                      /\ t[j - 1].h = list[j].h /\ dt[j - 1] = d[j] - list[1].time
    OBVIOUS
  <2> DEFINE i == j - 1
  <2>1. i \in 1..(n - 1) /\ i + 1 = j
    BY <1>8
  <2> HIDE DEF i
  <2>2. t[i].h = list[j].h /\ dt[i] = d[j] - list[1].time
    BY <1>2, <2>1
  <2> QED
    BY <2>1, <2>2 DEF i
<1>10. HandlersOf(t) = HandlersOf(list) \ {list[1].h}
  <2>1. ASSUME NEW g \in HandlersOf(t) PROVE g \in HandlersOf(list) /\ g # list[1].h
    <3>1. PICK i \in 1..(n - 1) : g = t[i].h
      BY <1>2 DEF HandlersOf
    <3>2. i + 1 \in 1..n /\ i + 1 # 1
      BY <1>4
    <3>3. g = list[i + 1].h
      BY <1>2, <3>1
    <3> QED
      BY <1>1, <1>4, <1>5, <3>2, <3>3 DEF Distinct, n
  <2>2. ASSUME NEW g \in HandlersOf(list), g # list[1].h PROVE g \in HandlersOf(t)
    <3>1. PICK j \in 1..n : g = list[j].h
      BY DEF HandlersOf, n
    <3>2. j - 1 \in 1..(n - 1) /\ t[j - 1].h = g
      BY <1>9, <2>2, <3>1
    <3> QED
      BY <1>2, <1>6, <3>2
  <2> QED
    BY <2>1, <2>2
<1>11. \A j \in 1..n : list[1].time <= d[j]
  <2> SUFFICES ASSUME NEW j \in 1..n PROVE list[1].time <= d[j]
    OBVIOUS
  <2>1. CASE j = 1
    BY <1>4, <1>5, <1>7, <2>1
  <2>2. CASE j # 1
    <3>1. j - 1 \in 1..(n - 1) /\ dt[j - 1] = d[j] - list[1].time
      BY <1>9, <2>2
    <3>2. dt[j - 1] \in Nat
      BY <1>2, <1>6, <3>1
    <3>3. d[j] \in Nat /\ list[1].time \in Nat
      BY <1>4, <1>5
    <3> QED
      BY <3>1, <3>2, <3>3
  <2> QED
    BY <2>1, <2>2
<1>12. \A g \in HandlersOf(list) : \E j \in 1..n : g = list[j].h
  BY DEF HandlersOf, n
<1>13. \A g \in HandlersOf(list) : g \in Timer /\ Togo(list)[g] \in Nat /\ list[1].time <= Togo(list)[g]
  BY <1>5, <1>11, <1>12
<1>14. ASSUME NEW g \in Timer
       PROVE  Togo(t)[g] = IF g \in HandlersOf(list) \ {list[1].h}
                             THEN Togo(list)[g] - list[1].time ELSE -1
  <2>1. CASE g \in HandlersOf(list) \ {list[1].h}
    <3>1. PICK j \in 1..n : g = list[j].h
      BY <1>12, <2>1
    <3>2. j - 1 \in 1..(n - 1) /\ t[j - 1].h = g /\ dt[j - 1] = d[j] - list[1].time
      BY <1>9, <2>1, <3>1
    <3>3. Togo(t)[g] = dt[j - 1] /\ Togo(list)[g] = d[j]
      BY <1>2, <1>5, <1>6, <3>1, <3>2
    <3> QED
      BY <2>1, <3>2, <3>3
  <2>2. CASE g \notin HandlersOf(list) \ {list[1].h}
    BY <1>6, <1>10, <2>2
  <2> QED
    BY <2>1, <2>2
<1>15. /\ Togo(list)[list[1].h] = list[1].time /\ list[1].time \in Nat
       /\ list[1].time <= Interval[list[1].h]
       /\ list[1].h \in HandlersOf(list) /\ list[1].h \in Timer
  BY <1>4, <1>5, <1>7
<1> QED
  BY <1>2, <1>4, <1>10, <1>13, <1>14, <1>15 DEF t, n

LEMMA ChargedTimers ==
  ASSUME NEW list \in Timers(3), Len(list) > 0, NEW c \in 0..list[1].time
  PROVE  LET new == [list EXCEPT ![1].time = @ - c]
         IN /\ new \in Timers(3) /\ Len(new) = Len(list)
            /\ HandlersOf(new) = HandlersOf(list)
            /\ \A g \in Timer :
                 Togo(new)[g] = IF g \in HandlersOf(list) THEN Togo(list)[g] - c ELSE -1
<1> DEFINE n == Len(list)
           new == [list EXCEPT ![1].time = @ - c]
<1>1. list # <<>>
  <2>1. list \in Seq(Entry)
    BY DEF Timers
  <2> QED
    BY <2>1
<1>2. /\ new \in Timers(3) /\ Len(new) = n
      /\ \A i \in 1..n : new[i].h = list[i].h /\ Due(new)[i] = Due(list)[i] - c
  BY <1>1, Charged
<1> HIDE DEF new
<1>3. /\ \A i \in 1..n : list[i].h \in HandlersOf(list) /\ Togo(list)[list[i].h] = Due(list)[i]
      /\ \A i \in 1..n : new[i].h \in HandlersOf(new) /\ Togo(new)[new[i].h] = Due(new)[i]
      /\ \A g \in Timer : g \notin HandlersOf(new) => Togo(new)[g] = -1
  BY <1>2, TogoIs
<1>4. HandlersOf(new) = HandlersOf(list)
  BY <1>2 DEF HandlersOf
<1>5. ASSUME NEW g \in Timer
      PROVE  Togo(new)[g] = IF g \in HandlersOf(list) THEN Togo(list)[g] - c ELSE -1
  <2>1. CASE g \in HandlersOf(list)
    <3>1. PICK i \in 1..n : g = list[i].h
      BY <2>1 DEF HandlersOf
    <3> QED
      BY <1>2, <1>3, <2>1, <3>1
  <2>2. CASE g \notin HandlersOf(list)
    BY <1>3, <1>4, <2>2
  <2> QED
    BY <2>1, <2>2
<1> QED
  BY <1>2, <1>4, <1>5 DEF new

-----------------------------------------------------------------------------
(* Milliseconds and ticks.                                                  *)

LEMMA TicksAre ==
  ASSUME NEW ms \in 0..Word
  PROVE  Ticks(ms) \in Nat /\ Ticks(ms) >= 1 /\ Ticks(ms) <= Ticks(Word)
<1> DEFINE q(x) == (x * TicksPerSec) \div MsPerSec
<1>1. /\ MsPerSec \in Nat \ {0} /\ TicksPerSec \in Nat /\ Word \in Nat
      /\ ms \in Nat /\ ms <= Word
  BY SysTimeoutsAssumption
<1>2. ms * TicksPerSec \in Nat /\ Word * TicksPerSec \in Nat /\ ms * TicksPerSec <= Word * TicksPerSec
  BY <1>1
<1>3. \A x, y \in Nat : \A m \in Nat \ {0} : x <= y => x \div m \in Nat /\ y \div m \in Nat /\ x \div m <= y \div m
  OBVIOUS
<1>4. q(ms) \in Nat /\ q(Word) \in Nat /\ q(ms) <= q(Word)
  BY <1>1, <1>2, <1>3
<1>5. /\ Ticks(ms) = IF q(ms) < 1 THEN 1 ELSE q(ms)
      /\ Ticks(Word) = IF q(Word) < 1 THEN 1 ELSE q(Word)
  BY DEF Ticks
<1> HIDE DEF q
<1> QED
  BY <1>4, <1>5

(* Whatever the two readings of the counter, some time has passed, and less *)
(* than u32_t holds.                                                        *)
LEMMA ElapsedIs ==
  ASSUME NEW old \in 0..(Word - 1), NEW new \in 0..(Word - 1)
  PROVE  Elapsed(old, new) \in 1..Word
<1> DEFINE ticks == IF new > old THEN new - old ELSE Word - 1 - old + new
<1>1. MsPerSec \in Nat /\ TicksPerSec \in Nat \ {0} /\ Word \in Nat \ {0}
  BY SysTimeoutsAssumption
<1>2. ticks \in Nat
  BY <1>1
<1> HIDE DEF ticks
<1>3. ticks * MsPerSec \in Nat
  BY <1>1, <1>2
<1>4. \A x \in Nat : x % Word \in 0..(Word - 1)
  BY <1>1
<1>5. \A x \in Nat : \A m \in Nat \ {0} : x \div m \in Nat /\ x \div m <= x
  OBVIOUS
<1> DEFINE r == (ticks * MsPerSec) % Word
<1>6. r \in 0..(Word - 1)
  BY <1>3, <1>4
<1> HIDE DEF r
<1>7. r \div TicksPerSec \in Nat /\ r \div TicksPerSec <= r
  <2>1. r \in Nat
    BY <1>1, <1>6
  <2> QED
    BY <1>1, <1>5, <2>1
<1>8. Elapsed(old, new) = (r \div TicksPerSec) + 1
  BY DEF Elapsed, r, ticks
<1> QED
  BY <1>1, <1>6, <1>7, <1>8
-----------------------------------------------------------------------------
(* The invariant.                                                           *)

(* ip_reass_timer and arp_timer are always in the list, tcpip_tcp_timer     *)
(* while its flag is set, which it is while a connection is open.           *)
ListInv ==
  /\ timeouts \in Timers(3) /\ tcpip_tcp_timer_active \in BOOLEAN /\ pcbs \in BOOLEAN
  /\ Len(timeouts) = IF tcpip_tcp_timer_active THEN 3 ELSE 2
  /\ HandlersOf(timeouts) = IF tcpip_tcp_timer_active THEN Timer ELSE {ip_reass_timer, arp_timer}
  /\ pcbs => tcpip_tcp_timer_active

(* The thread waits only with time left to the first timer, and the wait    *)
(* has an end.                                                              *)
WaitInv ==
  /\ OSTime \in 0..(Word - 1) /\ mbox \in 0..MboxSize /\ pc \in ThreadPC
  /\ stamp \in 0..(Word - 1) /\ dly \in 0..Ticks(Word)
  /\ time_needed \in 0..Word /\ busy \in 0..MaxBusy
  /\ pc \in {"pend", "wait", "got", "expired"} => timeouts[1].time > 0
  /\ pc \in {"pend", "wait"} => dly > 0

LEMMA ListFacts ==
  ASSUME ListInv
  PROVE  /\ Len(timeouts) \in 2..3 /\ Len(timeouts) > 0 /\ timeouts \in Seq(Entry)
         /\ timeouts \in Timers(3) /\ Head(timeouts) = timeouts[1]
         /\ timeouts[1].h \in Timer /\ timeouts[1].time \in Nat
         /\ timeouts[1].time <= Interval[timeouts[1].h]
         /\ timeouts[1].h \in HandlersOf(timeouts)
<1>1. timeouts \in Timers(3) /\ Len(timeouts) \in 2..3 /\ Len(timeouts) > 0
  BY DEF ListInv
<1>2. timeouts \in Seq(Entry)
  BY <1>1 DEF Timers
<1> QED
  BY <1>1, <1>2, RemovedTimers

(* The list after the timer of handler h has run. *)
LEMMA RunList ==
  ASSUME ListInv, RunTimer
  PROVE  LET h == timeouts[1].h
         IN /\ ListInv'
            /\ \E next \in {Interval[h], -1} : \A g \in Timer :
                 Togo(timeouts')[g] =
                   IF g = h THEN next
                   ELSE IF g \in HandlersOf(timeouts) THEN Togo(timeouts)[g] - timeouts[1].time ELSE -1
<1> DEFINE h == timeouts[1].h
           rest == Tail(timeouts)
<1>1. /\ rest \in Timers(2) /\ Len(rest) = Len(timeouts) - 1
      /\ h \in Timer /\ h \in HandlersOf(timeouts) /\ Head(timeouts).h = h
      /\ HandlersOf(rest) = HandlersOf(timeouts) \ {h}
      /\ \A g \in Timer : Togo(rest)[g] = IF g \in HandlersOf(timeouts) \ {h}
                                             THEN Togo(timeouts)[g] - timeouts[1].time ELSE -1
  BY ListFacts, RemovedTimers
<1> DEFINE left == h = tcpip_tcp_timer /\ ~pcbs'
<1>2. /\ pcbs' \in {pcbs, FALSE} /\ (h # tcpip_tcp_timer => pcbs' = pcbs)
      /\ left => timeouts' = rest /\ tcpip_tcp_timer_active' = FALSE
      /\ ~left => timeouts' = Insert(rest, h) /\ tcpip_tcp_timer_active' = tcpip_tcp_timer_active
  <2>1. Head(timeouts).h = h
    BY <1>1
  <2> QED
    BY <2>1 DEF RunTimer
<1>3. /\ tcpip_tcp_timer_active \in BOOLEAN /\ pcbs \in BOOLEAN
      /\ pcbs => tcpip_tcp_timer_active
      /\ Len(timeouts) = IF tcpip_tcp_timer_active THEN 3 ELSE 2
      /\ HandlersOf(timeouts) = IF tcpip_tcp_timer_active THEN Timer ELSE {ip_reass_timer, arp_timer}
  BY DEF ListInv
<1>4. tcpip_tcp_timer # ip_reass_timer /\ tcpip_tcp_timer # arp_timer
  BY ThreeHandlers
<1>7. Len(timeouts) \in 2..3
  BY ListFacts
<1> HIDE DEF h, rest
<1>5. CASE left
  <2>1. h = tcpip_tcp_timer /\ timeouts' = rest /\ tcpip_tcp_timer_active' = FALSE /\ pcbs' = FALSE
    BY <1>2, <1>3, <1>5
  <2>2. tcpip_tcp_timer_active
    BY <1>1, <1>3, <1>4, <2>1
  <2>3. HandlersOf(timeouts') = {ip_reass_timer, arp_timer}
    <3>1. Timer \ {tcpip_tcp_timer} = {ip_reass_timer, arp_timer}
      BY <1>4 DEF Timer
    <3> QED
      BY <1>1, <1>3, <2>1, <2>2, <3>1
  <2>4. Len(timeouts') = 2 /\ timeouts' \in Timers(3)
    <3>1. \A k \in 0..2 : k \in 0..3
      OBVIOUS
    <3>2. timeouts' \in Timers(3)
      BY <1>1, <2>1, <3>1 DEF Timers
    <3>3. Len(timeouts) = 3
      BY <1>3, <2>2
    <3>4. Len(rest) = 3 - 1
      BY <1>1, <3>3
    <3> QED
      BY <2>1, <3>2, <3>4
  <2>5. ListInv'
    BY <2>1, <2>3, <2>4 DEF ListInv
  <2>6. \A g \in Timer :
          Togo(timeouts')[g] =
            IF g = h THEN -1
            ELSE IF g \in HandlersOf(timeouts) THEN Togo(timeouts)[g] - timeouts[1].time ELSE -1
    BY <1>1, <2>1
  <2> QED
    BY <2>5, <2>6 DEF h
<1>6. CASE ~left
  <2>1. timeouts' = Insert(rest, h) /\ tcpip_tcp_timer_active' = tcpip_tcp_timer_active
    BY <1>2, <1>6
  <2>2. h \notin HandlersOf(rest) /\ h \in Timer /\ rest \in Timers(2)
    BY <1>1
  <2>3. /\ timeouts' \in Timers(3) /\ Len(timeouts') = Len(rest) + 1
        /\ HandlersOf(timeouts') = HandlersOf(rest) \cup {h}
        /\ Togo(timeouts') = [Togo(rest) EXCEPT ![h] = Interval[h]]
    BY <2>1, <2>2, InsertedTimers
  <2>4. HandlersOf(timeouts') = HandlersOf(timeouts) /\ Len(timeouts') = Len(timeouts)
    <3>1. (HandlersOf(timeouts) \ {h}) \cup {h} = HandlersOf(timeouts)
      BY <1>1
    <3>2. HandlersOf(timeouts') = HandlersOf(timeouts)
      BY <1>1, <2>3, <3>1
    <3>3. Len(timeouts') = (Len(timeouts) - 1) + 1
      BY <1>1, <2>3
    <3>4. Len(timeouts') = Len(timeouts)
      BY <1>7, <3>3
    <3> QED
      BY <3>2, <3>4
  <2>5. pcbs' \in BOOLEAN /\ (pcbs' => tcpip_tcp_timer_active')
    <3>1. pcbs' = pcbs \/ pcbs' = FALSE
      BY <1>2
    <3>2. CASE pcbs' = FALSE
      BY <3>2
    <3>3. CASE pcbs' = pcbs
      BY <1>3, <2>1, <3>3
    <3> QED
      BY <3>1, <3>2, <3>3
  <2>6. ListInv'
    BY <1>3, <2>1, <2>3, <2>4, <2>5 DEF ListInv
  <2>7. \A g \in Timer : Togo(timeouts')[g] = IF g = h THEN Interval[h] ELSE Togo(rest)[g]
    BY <2>2, <2>3, TogoShape
  <2>8. \A g \in Timer :
          Togo(timeouts')[g] =
            IF g = h THEN Interval[h]
            ELSE IF g \in HandlersOf(timeouts) THEN Togo(timeouts)[g] - timeouts[1].time ELSE -1
    BY <1>1, <2>7
  <2> QED
    BY <2>6, <2>8 DEF h
<1> QED
  BY <1>5, <1>6

(* The list after a message's time has been taken off. *)
LEMMA ReportList ==
  ASSUME ListInv, WaitInv, Report
  PROVE  /\ ListInv' /\ time_needed' \in 1..Word
         /\ \E c \in 1..timeouts[1].time :
              \A g \in Timer : Togo(timeouts')[g] =
                                 IF g \in HandlersOf(timeouts) THEN Togo(timeouts)[g] - c ELSE -1
<1> DEFINE t == timeouts[1].time
           c == IF time_needed' < t THEN time_needed' ELSE t
<1>1. t \in Nat /\ t > 0 /\ timeouts \in Timers(3) /\ Len(timeouts) > 0 /\ 1 \in 1..Len(timeouts)
  <2>1. pc = "got"
    BY DEF Report
  <2>2. t > 0
    BY <2>1 DEF WaitInv
  <2>3. t \in Nat /\ timeouts \in Timers(3) /\ Len(timeouts) > 0 /\ Len(timeouts) \in 2..3
    BY ListFacts
  <2> QED
    BY <2>2, <2>3
<1>2. time_needed' \in 1..Word /\ Word \in Nat
  <2>1. stamp \in 0..(Word - 1) /\ OSTime \in 0..(Word - 1) /\ time_needed' = Elapsed(stamp, OSTime)
    BY DEF WaitInv, Report
  <2> QED
    BY <2>1, ElapsedIs, Periods
<1>3. c \in 1..t /\ c \in 0..t /\ (IF time_needed' < t THEN t - time_needed' ELSE 0) = t - c
  BY <1>1, <1>2
<1>4. timeouts' = [timeouts EXCEPT ![1].time = @ - c]
  <2>1. timeouts' = [timeouts EXCEPT ![1].time = IF time_needed' < @ THEN @ - time_needed' ELSE 0]
    BY DEF Report
  <2> HIDE DEF c
  <2> QED
    BY <1>3, <2>1
<1> HIDE DEF c, t
<1>5. /\ timeouts' \in Timers(3) /\ Len(timeouts') = Len(timeouts)
      /\ HandlersOf(timeouts') = HandlersOf(timeouts)
      /\ \A g \in Timer : Togo(timeouts')[g] =
                            IF g \in HandlersOf(timeouts) THEN Togo(timeouts)[g] - c ELSE -1
  <2>1. c \in 0..timeouts[1].time
    BY <1>3 DEF t
  <2> QED
    BY <1>1, <1>4, <2>1, ChargedTimers
<1>6. UNCHANGED <<pcbs, tcpip_tcp_timer_active>>
  BY DEF Report
<1>7. ListInv'
  BY <1>5, <1>6 DEF ListInv
<1> QED
  BY <1>2, <1>3, <1>5, <1>7 DEF t

(* The list after a message that opened the first connection. *)
LEMMA NeededList ==
  ASSUME ListInv, ~tcpip_tcp_timer_active
  PROVE  LET new == Insert(timeouts, tcpip_tcp_timer)
         IN /\ new \in Timers(3) /\ Len(new) = 3 /\ HandlersOf(new) = Timer
            /\ Togo(new) = [Togo(timeouts) EXCEPT ![tcpip_tcp_timer] = Interval[tcpip_tcp_timer]]
            /\ Togo(timeouts)[tcpip_tcp_timer] = -1
<1>1. /\ Len(timeouts) = 2 /\ HandlersOf(timeouts) = {ip_reass_timer, arp_timer}
      /\ timeouts \in Timers(3)
  BY DEF ListInv
<1>2. timeouts \in Timers(2)
  <2>1. 2 \in 0..2
    OBVIOUS
  <2> QED
    BY <1>1, <2>1 DEF Timers
<1>3. tcpip_tcp_timer \in Timer /\ tcpip_tcp_timer \notin HandlersOf(timeouts)
  BY <1>1, ThreeHandlers DEF Timer
<1>4. HandlersOf(timeouts) \cup {tcpip_tcp_timer} = Timer
  BY <1>1 DEF Timer
<1> DEFINE new == Insert(timeouts, tcpip_tcp_timer)
<1>5. /\ new \in Timers(3) /\ Len(new) = Len(timeouts) + 1
      /\ HandlersOf(new) = HandlersOf(timeouts) \cup {tcpip_tcp_timer}
      /\ Togo(new) = [Togo(timeouts) EXCEPT ![tcpip_tcp_timer] = Interval[tcpip_tcp_timer]]
      /\ Togo(timeouts)[tcpip_tcp_timer] = -1
  BY <1>2, <1>3, InsertedTimers
<1> HIDE DEF new
<1>6. Len(new) = 3 /\ HandlersOf(new) = Timer
  BY <1>1, <1>4, <1>5
<1> QED
  BY <1>5, <1>6 DEF new
-----------------------------------------------------------------------------
(* The invariant holds.                                                     *)

LEMMA InitList ==
  ASSUME Init
  PROVE  /\ ListInv /\ HandlersOf(timeouts) = {ip_reass_timer, arp_timer}
         /\ \A g \in Timer : Togo(timeouts)[g] \in {Interval[g], -1}
<1> DEFINE none == <<>>
           one == Insert(none, ip_reass_timer)
<1>1. none \in Seq(Entry) /\ Len(none) = 0
  OBVIOUS
<1>2. none \in Timers(2) /\ HandlersOf(none) = {}
  <2>1. 1..Len(none) = {} /\ Len(none) \in 0..2
    BY <1>1
  <2> HIDE DEF none
  <2>2. Distinct(none) /\ InPeriod(none) /\ HandlersOf(none) = {}
    BY <2>1 DEF Distinct, InPeriod, HandlersOf
  <2> QED
    BY <1>1, <2>1, <2>2 DEF Timers
<1>3. ip_reass_timer \in Timer /\ arp_timer \in Timer /\ ip_reass_timer # arp_timer
      /\ arp_timer # ip_reass_timer /\ tcpip_tcp_timer # ip_reass_timer /\ tcpip_tcp_timer # arp_timer
  BY ThreeHandlers DEF Timer
<1>4. timeouts = Insert(one, arp_timer) /\ pcbs = FALSE /\ tcpip_tcp_timer_active = FALSE
  BY DEF Init
<1> HIDE DEF none
<1>5. /\ one \in Timers(3) /\ Len(one) = 1 /\ HandlersOf(one) = {ip_reass_timer}
      /\ Togo(one) = [Togo(none) EXCEPT ![ip_reass_timer] = Interval[ip_reass_timer]]
  <2>1. ip_reass_timer \notin HandlersOf(none)
    BY <1>2
  <2>2. /\ one \in Timers(3) /\ Len(one) = Len(none) + 1
        /\ HandlersOf(one) = HandlersOf(none) \cup {ip_reass_timer}
        /\ Togo(one) = [Togo(none) EXCEPT ![ip_reass_timer] = Interval[ip_reass_timer]]
    BY <1>2, <1>3, <2>1, InsertedTimers
  <2> HIDE DEF one
  <2> QED
    BY <1>1, <1>2, <2>2
<1> HIDE DEF one
<1>6. one \in Timers(2)
  <2>1. Len(one) \in 0..2
    BY <1>5
  <2> QED
    BY <1>5, <2>1 DEF Timers
<1>7. /\ timeouts \in Timers(3) /\ Len(timeouts) = 2
      /\ HandlersOf(timeouts) = {ip_reass_timer, arp_timer}
      /\ Togo(timeouts) = [Togo(one) EXCEPT ![arp_timer] = Interval[arp_timer]]
  <2>1. arp_timer \notin HandlersOf(one)
    BY <1>3, <1>5
  <2>2. /\ timeouts \in Timers(3) /\ Len(timeouts) = Len(one) + 1
        /\ HandlersOf(timeouts) = HandlersOf(one) \cup {arp_timer}
        /\ Togo(timeouts) = [Togo(one) EXCEPT ![arp_timer] = Interval[arp_timer]]
    BY <1>3, <1>4, <1>6, <2>1, InsertedTimers
  <2>3. {ip_reass_timer} \cup {arp_timer} = {ip_reass_timer, arp_timer}
    OBVIOUS
  <2> QED
    BY <1>5, <2>2, <2>3
<1>8. \A g \in Timer : Togo(timeouts)[g] \in {Interval[g], -1}
  <2>1. Togo(timeouts)[arp_timer] = Interval[arp_timer]
    BY <1>3, <1>7, TogoShape
  <2>2. Togo(timeouts)[ip_reass_timer] = Interval[ip_reass_timer]
    <3>1. Togo(timeouts)[ip_reass_timer] = Togo(one)[ip_reass_timer]
      BY <1>3, <1>7, TogoShape
    <3>2. Togo(one)[ip_reass_timer] = Interval[ip_reass_timer]
      BY <1>3, <1>5, TogoShape
    <3> QED
      BY <3>1, <3>2
  <2>3. Togo(timeouts)[tcpip_tcp_timer] = -1
    <3>1. tcpip_tcp_timer \in Timer /\ tcpip_tcp_timer \notin HandlersOf(timeouts)
      BY <1>3, <1>7 DEF Timer
    <3> QED
      BY <1>7, <3>1, TogoIs
  <2> QED
    BY <2>1, <2>2, <2>3 DEF Timer
<1> QED
  BY <1>4, <1>7, <1>8 DEF ListInv

LEMMA WaitInit == Init => WaitInv
<1> SUFFICES ASSUME Init PROVE WaitInv
  OBVIOUS
<1>1. 0 \in 0..Word /\ Ticks(Word) \in Nat /\ Word \in Nat /\ Word > 0 /\ MboxSize \in Nat /\ MaxBusy \in Nat
  <2>1. Word \in Nat /\ Word > 0 /\ MboxSize \in Nat /\ MaxBusy \in Nat
    BY SysTimeoutsAssumption
  <2>2. Word \in 0..Word
    BY <2>1
  <2> QED
    BY <2>1, <2>2, TicksAre
<1>2. 0 \in 0..(Word - 1) /\ 0 \in 0..MboxSize /\ 0 \in 0..Ticks(Word) /\ 0 \in 0..MaxBusy
  BY <1>1
<1> QED
  BY <1>1, <1>2 DEF Init, WaitInv, ThreadPC

LEMMA ListStep == ListInv /\ WaitInv /\ [Next]_vars => ListInv'
<1> SUFFICES ASSUME ListInv, WaitInv, [Next]_vars PROVE ListInv'
  OBVIOUS
<1>1. CASE UNCHANGED <<timeouts, pcbs, tcpip_tcp_timer_active>>
  BY <1>1 DEF ListInv
<1>2. CASE Fetch \/ Pend \/ Post \/ Tick \/ UNCHANGED vars
  BY <1>1, <1>2 DEF Fetch, Pend, Post, Tick, vars
<1>3. CASE Report
  BY <1>3, ReportList
<1>4. CASE RunTimer
  BY <1>4, RunList
<1>5. CASE Message
  <2>1. CASE UNCHANGED <<timeouts, tcpip_tcp_timer_active>> /\ (pcbs' => pcbs)
    BY <1>5, <2>1 DEF Message, ListInv
  <2>2. CASE timeouts' = TcpTimerNeeded(timeouts) /\ tcpip_tcp_timer_active' = TRUE
    <3>1. pcbs' \in BOOLEAN
      BY <1>5 DEF Message
    <3>2. CASE tcpip_tcp_timer_active
      BY <2>2, <3>1, <3>2 DEF TcpTimerNeeded, ListInv
    <3>3. CASE ~tcpip_tcp_timer_active
      <4>1. timeouts' = Insert(timeouts, tcpip_tcp_timer)
        BY <2>2, <3>3 DEF TcpTimerNeeded
      <4>2. timeouts' \in Timers(3) /\ Len(timeouts') = 3 /\ HandlersOf(timeouts') = Timer
        BY <3>3, <4>1, NeededList
      <4> QED
        BY <2>2, <3>1, <4>2 DEF ListInv
    <3> QED
      BY <3>2, <3>3
  <2> QED
    BY <1>5, <2>1, <2>2 DEF Message
<1> QED
  BY <1>2, <1>3, <1>4, <1>5 DEF Next, TcpipThread

LEMMA WaitStep == ListInv /\ WaitInv /\ [Next]_vars => WaitInv'
<1> SUFFICES ASSUME ListInv, WaitInv, [Next]_vars PROVE WaitInv'
  OBVIOUS
<1> USE DEF ThreadPC
<1>1. Word \in Nat /\ Word > 0 /\ MboxSize \in Nat /\ MaxBusy \in Nat /\ Ticks(Word) \in Nat
  <2>1. Word \in Nat /\ Word > 0 /\ MboxSize \in Nat /\ MaxBusy \in Nat
    BY SysTimeoutsAssumption
  <2>2. Word \in 0..Word
    BY <2>1
  <2> QED
    BY <2>1, <2>2, TicksAre
<1>2. 0 \in 0..Word /\ 0 \in 0..(Word - 1) /\ 0 \in 0..Ticks(Word) /\ 0 \in 0..MaxBusy
  BY <1>1
<1>3. CASE Fetch
  <2>1. /\ Head(timeouts) = timeouts[1] /\ timeouts[1].time \in 0..Word
    <3>1. /\ Head(timeouts) = timeouts[1] /\ timeouts[1].time \in Nat
          /\ timeouts[1].time <= Interval[timeouts[1].h] /\ timeouts[1].h \in Timer
      BY ListFacts
    <3>2. Interval[timeouts[1].h] \in Nat /\ Interval[timeouts[1].h] < Word
      BY <3>1, Periods
    <3> QED
      BY <1>1, <3>1, <3>2
  <2>2. timeouts[1].time > 0 /\ dly' = Ticks(timeouts[1].time) /\ stamp' = OSTime /\ pc' = "pend"
    BY <1>3, <2>1 DEF Fetch
  <2>3. dly' \in 0..Ticks(Word) /\ dly' > 0
    <3>1. Ticks(timeouts[1].time) \in Nat /\ Ticks(timeouts[1].time) >= 1 /\ Ticks(timeouts[1].time) <= Ticks(Word)
      BY <2>1, TicksAre
    <3> HIDE DEF ThreadPC
    <3> QED
      BY <1>1, <2>2, <3>1
  <2>4. UNCHANGED <<OSTime, mbox, timeouts, time_needed, busy>>
    BY <1>3 DEF Fetch
  <2> QED
    BY <2>2, <2>3, <2>4 DEF WaitInv
<1>4. CASE Pend
  BY <1>1, <1>4 DEF Pend, WaitInv
<1>5. CASE Report
  <2>1. time_needed' \in 1..Word
    BY <1>5, ReportList
  <2>2. time_needed' \in 0..Word
    BY <1>1, <2>1
  <2>3. /\ pc' = "message" /\ dly' = 0
        /\ UNCHANGED <<OSTime, mbox, stamp, busy>>
    BY <1>5 DEF Report
  <2> QED
    BY <1>2, <2>2, <2>3 DEF WaitInv
<1>6. CASE Message
  BY <1>2, <1>6 DEF Message, WaitInv
<1>7. CASE RunTimer
  <2>1. /\ pc' = "again" /\ busy' = 0 /\ stamp' = 0
        /\ UNCHANGED <<OSTime, mbox, dly, time_needed>>
    BY <1>7 DEF RunTimer
  <2> QED
    BY <1>2, <2>1 DEF WaitInv
<1>8. CASE Post
  <2>1. UNCHANGED <<OSTime, stamp, dly, timeouts, time_needed, busy>>
    BY <1>8 DEF Post
  <2>2. CASE pc \in {"wait", "expired"}
    <3>1. pc' = "got" /\ mbox' = mbox
      BY <1>8, <2>2 DEF Post
    <3> QED
      BY <2>1, <2>2, <3>1 DEF WaitInv
  <2>3. CASE pc \notin {"wait", "expired"}
    <3>1. mbox < MboxSize /\ mbox' = mbox + 1 /\ pc' = pc
      BY <1>8, <2>3 DEF Post
    <3>2. mbox' \in 0..MboxSize
      BY <1>1, <3>1 DEF WaitInv
    <3> QED
      BY <2>1, <3>1, <3>2 DEF WaitInv
  <2> QED
    BY <2>2, <2>3
<1>9. CASE Tick
  <2>1. UNCHANGED <<mbox, stamp, timeouts, time_needed>>
    BY <1>9 DEF Tick
  <2>2. OSTime' \in 0..(Word - 1)
    <3>1. OSTime' = (OSTime + 1) % Word /\ OSTime \in 0..(Word - 1)
      BY <1>9 DEF Tick, WaitInv
    <3>2. OSTime + 1 \in Nat
      BY <1>1, <3>1
    <3>3. \A x \in Nat : x % Word \in 0..(Word - 1)
      BY <1>1
    <3> QED
      BY <3>1, <3>2, <3>3
  <2>3. CASE pc = "wait"
    <3>1. dly' = dly - 1 /\ pc' = (IF dly = 1 THEN "expired" ELSE "wait") /\ busy' = busy
      BY <1>9, <2>3 DEF Tick
    <3>2. dly \in 0..Ticks(Word) /\ dly > 0 /\ timeouts[1].time > 0
      BY <2>3 DEF WaitInv
    <3>3. dly' \in 0..Ticks(Word) /\ (pc' = "wait" => dly' > 0) /\ pc' \in {"wait", "expired"}
      <4> HIDE DEF ThreadPC
      <4> QED
        BY <1>1, <3>1, <3>2
    <3> QED
      BY <2>1, <2>2, <3>1, <3>2, <3>3 DEF WaitInv
  <2>4. CASE pc # "wait"
    <3>1. busy < MaxBusy /\ busy' = busy + 1 /\ UNCHANGED <<pc, dly>>
      BY <1>9, <2>4 DEF Tick
    <3>2. busy' \in 0..MaxBusy
      BY <1>1, <3>1 DEF WaitInv
    <3> QED
      BY <2>1, <2>2, <3>1, <3>2 DEF WaitInv
  <2> QED
    BY <2>3, <2>4
<1>10. CASE UNCHANGED vars
  BY <1>10 DEF vars, WaitInv
<1> QED
  BY <1>3, <1>4, <1>5, <1>6, <1>7, <1>8, <1>9, <1>10 DEF Next, TcpipThread

(* The list and the wait stay as the two invariants say. *)
THEOREM TimersInvariant == Spec => [](ListInv /\ WaitInv)
<1>1. Init => ListInv /\ WaitInv
  BY InitList, WaitInit
<1>2. (ListInv /\ WaitInv) /\ [Next]_vars => (ListInv /\ WaitInv)'
  BY ListStep, WaitStep
<1> QED
  BY <1>1, <1>2, PTL DEF Spec

(* No distance in the list falls below zero, where u32_t would make it four *)
(* billion, and every other variable has its type.                          *)
THEOREM TypeCorrect == Spec => []TypeOK
<1>1. ListInv /\ WaitInv => TypeOK
  <2> SUFFICES ASSUME ListInv, WaitInv PROVE TypeOK
    OBVIOUS
  <2>1. timeouts \in Timers(3) /\ timeouts \in Seq(Entry)
    BY ListFacts
  <2>2. \A i \in 1..Len(timeouts) : timeouts[i] \in [h : Timer, time : 0..(Word - 1)]
    <3> SUFFICES ASSUME NEW i \in 1..Len(timeouts) PROVE timeouts[i] \in [h : Timer, time : 0..(Word - 1)]
      OBVIOUS
    <3>1. timeouts[i] \in Entry
      BY <2>1
    <3>2. timeouts[i].time \in Nat /\ timeouts[i].h \in Timer
      BY <3>1 DEF Entry
    <3>3. timeouts[i].time <= Interval[timeouts[i].h]
      <4>1. Len(timeouts) \in 0..3
        BY <2>1 DEF Timers
      <4>2. /\ Due(timeouts)[0] = 0
            /\ \A k \in 1..Len(timeouts) : Due(timeouts)[k] = Due(timeouts)[k - 1] + timeouts[k].time
        BY <2>1, <4>1, DueIs
      <4>3. \A k \in 1..Len(timeouts) : Due(timeouts)[k] \in Nat /\ timeouts[k].time \in Nat
        BY <2>1, <4>1, DueUnrolled
      <4>4. Due(timeouts)[i - 1] \in Nat
        <5>1. i - 1 = 0 \/ i - 1 \in 1..Len(timeouts)
          BY <4>1
        <5> QED
          BY <4>2, <4>3, <5>1
      <4>5. Due(timeouts)[i] = Due(timeouts)[i - 1] + timeouts[i].time
        BY <4>2
      <4>6. Due(timeouts)[i] <= Interval[timeouts[i].h]
        BY <2>1 DEF Timers, InPeriod
      <4>7. Interval[timeouts[i].h] \in Nat
        BY <3>2, Periods
      <4> QED
        BY <3>2, <4>3, <4>4, <4>5, <4>6, <4>7
    <3>4. Interval[timeouts[i].h] \in Nat /\ Interval[timeouts[i].h] < Word /\ Word \in Nat
      BY <3>2, Periods
    <3>5. timeouts[i].time \in 0..(Word - 1)
      BY <3>2, <3>3, <3>4
    <3> QED
      BY <3>1, <3>2, <3>5 DEF Entry
  <2>3. timeouts \in Seq([h : Timer, time : 0..(Word - 1)])
    <3> DEFINE T == [h : Timer, time : 0..(Word - 1)]
    <3>1. /\ \A i \in 1..Len(timeouts) : timeouts[i] \in T
          /\ timeouts \in [1..Len(timeouts) -> Entry] /\ Len(timeouts) \in Nat
      BY <2>1, <2>2, LenProperties
    <3> HIDE DEF T
    <3>2. timeouts \in [1..Len(timeouts) -> T]
      BY <3>1
    <3>3. timeouts \in Seq(T)
      BY <3>1, <3>2
    <3> QED
      BY <3>3 DEF T
  <2> QED
    BY <2>3 DEF ListInv, WaitInv, TypeOK
<1> QED
  BY <1>1, TimersInvariant, PTL

(* The TCP timer runs exactly while its flag is set, and whatever connection *)
(* is open has it.                                                          *)
THEOREM TcpTimerKeptCorrect == Spec => []TcpTimerKept
<1>1. ListInv => TcpTimerKept
  <2> SUFFICES ASSUME ListInv PROVE TcpTimerKept
    OBVIOUS
  <2>1. Handlers = HandlersOf(timeouts)
    <3>1. DOMAIN timeouts = 1..Len(timeouts)
      BY ListFacts, TogoIs
    <3> QED
      BY <3>1 DEF Handlers, HandlersOf
  <2>2. Cardinality(Timer) = 3 /\ Cardinality({ip_reass_timer, arp_timer}) = 2
    BY SysTimeoutsAssumption, ThreeHandlers
  <2>3. tcpip_tcp_timer \in Timer /\ tcpip_tcp_timer \notin {ip_reass_timer, arp_timer}
    BY ThreeHandlers DEF Timer
  <2> QED
    BY <2>1, <2>2, <2>3 DEF ListInv, TcpTimerKept
<1> QED
  BY <1>1, TimersInvariant, PTL
-----------------------------------------------------------------------------
(* The list implements TimerWheel.                                          *)

LEMMA WheelIs ==
  ASSUME ListInv
  PROVE  /\ W!On = HandlersOf(timeouts) /\ HandlersOf(timeouts) \subseteq Timer
         /\ \A h \in HandlersOf(timeouts) : Togo(timeouts)[h] \in Nat /\ Togo(timeouts)[h] <= Interval[h]
         /\ \A h \in Timer : h \notin HandlersOf(timeouts) => Togo(timeouts)[h] = -1
         /\ \A h \in HandlersOf(timeouts) : timeouts[1].time <= Togo(timeouts)[h]
<1>1. timeouts \in Timers(3) /\ Len(timeouts) > 0
  BY ListFacts
<1>2. /\ \A h \in HandlersOf(timeouts) : \E i \in 1..Len(timeouts) : h = timeouts[i].h
      /\ \A i \in 1..Len(timeouts) : /\ timeouts[i].h \in Timer
                                     /\ Togo(timeouts)[timeouts[i].h] = Due(timeouts)[i]
                                     /\ Due(timeouts)[i] \in Nat
                                     /\ Due(timeouts)[i] <= Interval[timeouts[i].h]
      /\ \A h \in Timer : h \notin HandlersOf(timeouts) => Togo(timeouts)[h] = -1
  <2>1. \A h \in HandlersOf(timeouts) : \E i \in 1..Len(timeouts) : h = timeouts[i].h
    BY DEF HandlersOf
  <2> QED
    BY <1>1, <2>1, TogoIs
<1>3. /\ HandlersOf(timeouts) \subseteq Timer
      /\ \A h \in HandlersOf(timeouts) : Togo(timeouts)[h] \in Nat /\ Togo(timeouts)[h] <= Interval[h]
  BY <1>2
<1>4. W!On = {h \in Timer : Togo(timeouts)[h] # -1}
  BY DEF W!On, W!Off, Togo, Handlers
<1>5. \A n \in Nat : n # -1
  OBVIOUS
<1>6. W!On = HandlersOf(timeouts)
  BY <1>2, <1>3, <1>4, <1>5
<1>7. \A h \in HandlersOf(timeouts) : timeouts[1].time <= Togo(timeouts)[h]
  BY <1>1, RemovedTimers
<1> QED
  BY <1>2, <1>3, <1>6, <1>7

LEMMA LongestIs == W!Longest \in Nat /\ \A h \in Timer : Interval[h] <= W!Longest
<1> DEFINE S == {Interval[h] : h \in Timer}
           Longest(n) == \A h \in Timer : Interval[h] <= n
<1>1. /\ Interval[tcpip_tcp_timer] \in Nat /\ Interval[ip_reass_timer] \in Nat
      /\ Interval[arp_timer] \in Nat
  BY Periods DEF Timer
<1>2. \E n \in S : Longest(n)
  <2>1. \E h \in Timer : /\ Interval[tcpip_tcp_timer] <= Interval[h]
                         /\ Interval[ip_reass_timer] <= Interval[h]
                         /\ Interval[arp_timer] <= Interval[h]
    <3> HIDE DEF S
    <3> DEFINE a == Interval[tcpip_tcp_timer]
               b == Interval[ip_reass_timer]
               c == Interval[arp_timer]
    <3>1. a \in Nat /\ b \in Nat /\ c \in Nat
      BY <1>1
    <3> HIDE DEF a, b, c
    <3>2. \/ a <= a /\ b <= a /\ c <= a
          \/ a <= b /\ b <= b /\ c <= b
          \/ a <= c /\ b <= c /\ c <= c
      BY <3>1
    <3> QED
      BY <3>2 DEF a, b, c, Timer
  <2>2. PICK h \in Timer : /\ Interval[tcpip_tcp_timer] <= Interval[h]
                           /\ Interval[ip_reass_timer] <= Interval[h]
                           /\ Interval[arp_timer] <= Interval[h]
    BY <2>1
  <2>3. Longest(Interval[h])
    BY <2>2 DEF Timer
  <2> QED
    BY <2>3
<1>3. W!Longest = CHOOSE n \in S : Longest(n)
  BY DEF W!Longest
<1> HIDE DEF S, Longest
<1>4. W!Longest \in S /\ Longest(W!Longest)
  BY <1>2, <1>3
<1> QED
  BY <1>4, Periods DEF Longest, S

LEMMA WheelKeeps == UNCHANGED timeouts => UNCHANGED Togo(timeouts)
BY DEF Togo

LEMMA WheelAdvances ==
  ASSUME ListInv, NEW c \in 1..timeouts[1].time,
         \A g \in Timer : Togo(timeouts')[g] =
                            IF g \in HandlersOf(timeouts) THEN Togo(timeouts)[g] - c ELSE -1
  PROVE  W!Advance
<1>1. /\ timeouts[1].time \in Nat /\ timeouts[1].h \in Timer
      /\ timeouts[1].time <= Interval[timeouts[1].h]
  BY ListFacts
<1>2. c \in 1..W!Longest
  <2>1. Interval[timeouts[1].h] \in Nat /\ Interval[timeouts[1].h] <= W!Longest
    BY <1>1, LongestIs, Periods
  <2>2. W!Longest \in Nat
    BY LongestIs
  <2> QED
    BY <1>1, <2>1, <2>2
<1>3. \A h \in W!On : c <= Togo(timeouts)[h]
  BY <1>1, WheelIs
<1>4. W!Passes(c) = [h \in Timer |-> IF h \in W!On THEN Togo(timeouts)[h] - c ELSE -1]
  BY DEF W!Passes, W!Off, Togo, Handlers
<1>5. Togo(timeouts') = W!Passes(c)
  BY <1>4, WheelIs, TogoShape
<1>6. W!Advance <=> \E d \in 1..W!Longest : /\ \A h \in W!On : d <= Togo(timeouts)[h]
                                            /\ Togo(timeouts') = W!Passes(d)
  BY DEF W!Advance, Togo, Handlers
<1> QED
  BY <1>2, <1>3, <1>5, <1>6

LEMMA WheelSets ==
  ASSUME NEW h \in Timer, Togo(timeouts)[h] = -1,
         Togo(timeouts') = [Togo(timeouts) EXCEPT ![h] = Interval[h]]
  PROVE  W!Set(h)
BY DEF W!Set, W!Off, Togo, Handlers

LEMMA WheelRuns ==
  ASSUME ListInv, NEW h \in Timer, h = timeouts[1].h, NEW next \in {Interval[h], -1},
         \A g \in Timer : Togo(timeouts')[g] =
                   IF g = h THEN next
                   ELSE IF g \in HandlersOf(timeouts) THEN Togo(timeouts)[g] - timeouts[1].time ELSE -1
  PROVE  W!Run(h)
<1> DEFINE t == timeouts[1].time
<1>1. h \in Timer /\ h \in HandlersOf(timeouts) /\ Togo(timeouts)[h] = t
  BY ListFacts, RemovedTimers
<1>2. h \in W!On /\ \A g \in W!On : Togo(timeouts)[h] <= Togo(timeouts)[g]
  BY <1>1, WheelIs
<1>3. W!Passes(t) = [g \in Timer |-> IF g \in W!On THEN Togo(timeouts)[g] - t ELSE -1]
  BY DEF W!Passes, W!Off, Togo, Handlers
<1> HIDE DEF t
<1>4. Togo(timeouts') = [W!Passes(t) EXCEPT ![h] = next]
  <2>1. \A g \in Timer : Togo(timeouts')[g] =
                   IF g = h THEN next ELSE IF g \in W!On THEN Togo(timeouts)[g] - t ELSE -1
    BY WheelIs DEF t
  <2>2. Togo(timeouts') = [g \in Timer |->
                   IF g = h THEN next ELSE IF g \in W!On THEN Togo(timeouts)[g] - t ELSE -1]
    BY <2>1, TogoShape
  <2> QED
    BY <1>3, <2>2
<1>5. W!Run(h) <=> /\ h \in W!On /\ (\A g \in W!On : Togo(timeouts)[h] <= Togo(timeouts)[g])
                   /\ \E n \in {Interval[h], -1} :
                        Togo(timeouts') = [W!Passes(Togo(timeouts)[h]) EXCEPT ![h] = n]
  BY DEF W!Run, W!Off, Togo, Handlers
<1> QED
  BY <1>1, <1>2, <1>4, <1>5

(* Every step of the stack is a step of the wheel, or none. *)
THEOREM WheelCorrect == Spec => Wheel
<1>1. Init => W!Init
  <2> SUFFICES ASSUME Init PROVE W!Init
    OBVIOUS
  <2>1. \A g \in Timer : Togo(timeouts)[g] \in {Interval[g], -1}
    BY InitList
  <2>2. W!Init <=> Togo(timeouts) \in {f \in [Timer -> {-1} \cup {Interval[h] : h \in Timer}] :
                                         \A h \in Timer : f[h] \in {-1, Interval[h]}}
    BY DEF W!Init, W!Off, Togo, Handlers
  <2>3. Togo(timeouts) \in [Timer -> {-1} \cup {Interval[h] : h \in Timer}]
    BY <2>1, TogoShape
  <2> QED
    BY <2>1, <2>2, <2>3
<1>2. ListInv /\ WaitInv /\ [Next]_vars => W!Next \/ UNCHANGED Togo(timeouts)
  <2> SUFFICES ASSUME ListInv, WaitInv, [Next]_vars PROVE W!Next \/ UNCHANGED Togo(timeouts)
    OBVIOUS
  <2>1. CASE UNCHANGED timeouts
    BY <2>1, WheelKeeps
  <2>2. CASE Fetch \/ Pend \/ Post \/ Tick \/ UNCHANGED vars
    BY <2>1, <2>2 DEF Fetch, Pend, Post, Tick, vars
  <2>3. CASE Report
    <3>1. W!Advance
      BY <2>3, ReportList, WheelAdvances
    <3> QED
      BY <3>1 DEF W!Next
  <2>4. CASE RunTimer
    <3>1. PICK h \in Timer : h = timeouts[1].h
      BY ListFacts
    <3>2. PICK next \in {Interval[h], -1} :
            \A g \in Timer : Togo(timeouts')[g] =
                 IF g = h THEN next
                 ELSE IF g \in HandlersOf(timeouts) THEN Togo(timeouts)[g] - timeouts[1].time ELSE -1
      BY <2>4, <3>1, RunList
    <3>3. W!Run(h)
      BY <3>1, <3>2, WheelRuns
    <3> QED
      BY <3>3 DEF W!Next
  <2>5. CASE Message /\ timeouts' # timeouts
    <3>1. ~tcpip_tcp_timer_active /\ timeouts' = Insert(timeouts, tcpip_tcp_timer)
      BY <2>5 DEF Message, TcpTimerNeeded
    <3>2. /\ Togo(timeouts') = [Togo(timeouts) EXCEPT ![tcpip_tcp_timer] = Interval[tcpip_tcp_timer]]
          /\ Togo(timeouts)[tcpip_tcp_timer] = -1 /\ tcpip_tcp_timer \in Timer
      BY <3>1, NeededList DEF Timer
    <3>3. W!Set(tcpip_tcp_timer)
      BY <3>2, WheelSets
    <3> QED
      BY <3>2, <3>3 DEF W!Next
  <2> QED
    BY <2>1, <2>2, <2>3, <2>4, <2>5 DEF Next, TcpipThread
<1>3. ListInv /\ WaitInv /\ [Next]_vars =>
        W!Next \/ UNCHANGED [h \in Timer |->
             IF h \in Handlers
               THEN Due(timeouts)[CHOOSE i \in DOMAIN timeouts : timeouts[i].h = h]
               ELSE -1]
  BY <1>2 DEF Togo, Handlers
<1> QED
  BY <1>1, <1>3, TimersInvariant, PTL DEF Spec, Wheel, W!Spec
=============================================================================
