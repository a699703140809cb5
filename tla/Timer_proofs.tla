---------------------------- MODULE Timer_proofs ----------------------------
(***************************************************************************)
(* For any step, wheels, timers and clients: the manager's clock neither   *)
(* loses time nor counts it twice; every timer that is not deleted lies in *)
(* one list, once; a removed timer is not called; and a timer is called    *)
(* when it is due, as far as the wheels that it comes through allow.       *)
(*                                                                         *)
(* The lists are described by the set of their nodes: each node of it has  *)
(* one behind and one before it in it, and no smaller set holds the head   *)
(* and what is behind each of its own.  The recursive functions StepOf and *)
(* SeatFrom are unfolded by Upwards, which is induction over a set of      *)
(* wheels, by the least wheel that is not in it.                           *)
(*                                                                         *)
(* When a timer is called follows from how many steps it is to the slot    *)
(* it is in: Wait adds up what the wheels below have left of their rounds, *)
(* and each step makes it one less, whichever wheels turn.  Fits ties it   *)
(* to the time the timer was added with.                                   *)
(***************************************************************************)
EXTENDS Timer, WellFoundedInduction, TLAPS
-----------------------------------------------------------------------------
(* The clock.                                                              *)

Idle == pc \in {"idle", "released"}

\* What is left of dur is in m_fixTime once a step was done; tick has taken the
\* clock's lag.
ClockInv ==
    /\ owed \in Nat /\ lag \in Nat /\ dur \in Nat /\ fixTime \in Nat
    /\ owed = lag + IF Idle THEN fixTime ELSE dur
    /\ Idle => lag + fixTime < Step
    /\ ~Idle => lag = 0
    /\ pc \notin {"idle", "released", "loop"} => fixTime = dur
    /\ pc = "loop" /\ dur < Step => fixTime = dur

LEMMA ClockInit == Init => ClockInv
  BY TimerAssumption DEF Init, ClockInv, Idle

\* An action in the middle of a step, which leaves the clock alone.
LEMMA ClockInStep ==
    ASSUME ClockInv, UNCHANGED <<owed, lag, fixTime, dur>>,
           pc \notin {"idle", "released", "loop"}, pc' \notin {"idle", "released"}
    PROVE  ClockInv'
  BY DEF ClockInv, Idle

LEMMA ClockTick == ASSUME ClockInv, NEW ms \in Elapsed, tick(ms) PROVE ClockInv'
  <1>1. ms \in Nat /\ Step \in Nat
    BY TimerAssumption
  <1>2. CASE lag + ms + fixTime < Step
    BY <1>1, <1>2 DEF tick, ClockInv, Idle
  <1>3. CASE lag + ms + fixTime >= Step
    BY <1>1, <1>3 DEF tick, ClockInv, Idle
  <1> QED
    BY <1>1, <1>2, <1>3 DEF ClockInv

LEMMA ClockBegin == ASSUME ClockInv, begin_step PROVE ClockInv'
  <1>1. Step \in Nat
    BY TimerAssumption
  <1> QED
    BY <1>1 DEF begin_step, ClockInv, Idle

LEMMA ClockNext == ClockInv /\ [Next]_vars => ClockInv'
  <1> SUFFICES ASSUME ClockInv, [Next]_vars PROVE ClockInv'
    OBVIOUS
  <1>1. ASSUME NEW delay \in Delays, NEW interval \in Intervals, NEW times \in Times,
               add_timer(delay, interval, times)
        PROVE  ClockInv'
    BY <1>1 DEF add_timer, run, ClockInv, Idle
  <1>2. ASSUME NEW id \in Ids, remove_timer(id) PROVE ClockInv'
    BY <1>2 DEF remove_timer, run, ClockInv, Idle
  <1>3. ASSUME release PROVE ClockInv'
    BY <1>3 DEF release, ClockInv, Idle
  <1>4. ASSUME NEW ms \in Elapsed, tick(ms) PROVE ClockInv'
    BY <1>4, ClockTick
  <1>5. ASSUME begin_step PROVE ClockInv'
    BY <1>5, ClockBegin
  <1>6. ASSUME tick_return PROVE ClockInv'
    BY <1>6, TimerAssumption DEF tick_return, manager, ClockInv, Idle
  <1>7. ASSUME NEW id \in Ids, remove(id) PROVE ClockInv'
    BY <1>7, ClockInStep DEF remove, run
  <1>8. ASSUME submit_timer \/ submit_slot \/ cascade \/ cascaded PROVE ClockInv'
    BY <1>8, ClockInStep DEF submit_timer, submit_slot, cascade, cascaded, manager
  <1>9. ASSUME call \/ call_last \/ call_again PROVE ClockInv'
    BY <1>9, ClockInStep DEF call, call_last, call_again, manager
  <1>10. ASSUME end_step PROVE ClockInv'
    BY <1>10 DEF end_step, manager, ClockInv, Idle
  <1>11. ASSUME UNCHANGED vars PROVE ClockInv'
    BY <1>11 DEF vars, manager, run, ClockInv, Idle
  <1> QED
    BY <1>1, <1>2, <1>3, <1>4, <1>5, <1>6, <1>7, <1>8, <1>9, <1>10, <1>11 DEF Next, step

\* However long a step is and however irregularly tick is called, the time done and
\* the time still to do are the time that has gone by, and tick leaves less than a
\* step (STTimerMgr.cpp:121-132).
THEOREM TimerClockKept == Spec => []ClockKept
  <1>1. ClockInv => ClockKept
    BY DEF ClockInv, Idle, ClockKept
  <1> QED
    BY <1>1, ClockInit, ClockNext, PTL DEF Spec
-----------------------------------------------------------------------------
(* The wheels.                                                             *)

LEMMA WheelsIs ==
    /\ Levels \in Nat \ {0} /\ \A l \in 1..Levels : Lens[l] \in Nat \ {0}
    /\ Step \in Nat \ {0} /\ Half \in Nat /\ MaxId \in Nat
  <1>1. /\ Lens \in Seq(Nat \ {0}) /\ Lens # <<>> /\ Step \in Nat \ {0} /\ MaxId \in Nat
    BY TimerAssumption
  <1>2. Levels \in Nat \ {0} /\ \A l \in 1..Levels : Lens[l] \in Nat \ {0}
    BY <1>1 DEF Levels
  <1>3. Half \in Nat
    BY <1>1 DEF Half
  <1> QED BY <1>1, <1>2, <1>3

\* What holds of a wheel if it holds of those below it holds of all.
LEMMA Upwards ==
    ASSUME NEW S, 0 \in S, \A n \in 0..(Levels - 1) : n \in S => n + 1 \in S
    PROVE  0..Levels \subseteq S
  <1> DEFINE T == (0..Levels) \ S
             R == {ss \in Nat \X Nat : ss[1] < ss[2]}
  <1>1. IsWellFoundedOn(R, Nat)
    BY NatLessThanWellFounded DEF OpToRel
  <1>2. SUFFICES ASSUME T # {} PROVE FALSE
    OBVIOUS
  <1>3. T \subseteq Nat
    BY WheelsIs
  <1> HIDE DEF R, T
  <1>4. PICK x \in T : \A y \in T : ~(<<y, x>> \in R)
    BY <1>1, <1>2, <1>3, WFMin
  <1>5. x \in 0..Levels /\ x \notin S /\ x # 0 /\ Levels \in Nat
    BY <1>4, WheelsIs DEF T
  <1>6. x - 1 \notin T
    <2>1. <<x - 1, x>> \in R
      BY <1>5 DEF R
    <2> QED BY <1>4, <2>1
  <1>7. x - 1 \in S
    BY <1>5, <1>6 DEF T
  <1> QED BY <1>5, <1>7

LEMMA Product ==
    ASSUME NEW i \in Nat \ {0}, NEW j \in Nat \ {0}
    PROVE  i * j \in Nat \ {0}
  BY Z3

\* The equation by which StepOf is defined, and what it gives.
LEMMA StepOfIs ==
    /\ \A l \in 1..Levels : StepOf[l] \in Nat \ {0}
    /\ \A l \in 1..Levels : StepOf[l] = IF l = 1 THEN Step ELSE StepOf[l - 1] * Lens[l - 1]
  <1> DEFINE Is(g, n) == \A l \in 1..n : /\ g[l] \in Nat \ {0}
                                         /\ g[l] = IF l = 1 THEN Step ELSE g[l - 1] * Lens[l - 1]
             S == {n \in Nat : n <= Levels => \E g : Is(g, n)}
  <1>1. 0 \in S
    OBVIOUS
  <1>2. ASSUME NEW n \in 0..(Levels - 1), n \in S PROVE n + 1 \in S
    <2>1. PICK g : Is(g, n)
      BY <1>2, WheelsIs
    <2>2. n \in Nat /\ n + 1 \in Nat /\ Levels \in Nat
      BY WheelsIs
    <2>3. PICK x : x = IF n = 0 THEN Step ELSE g[n] * Lens[n]
      OBVIOUS
    <2>4. x \in Nat \ {0}
      <3>1. CASE n = 0
        BY <2>3, <3>1, WheelsIs
      <3>2. CASE n # 0
        <4>1. g[n] \in Nat \ {0} /\ Lens[n] \in Nat \ {0}
          BY <2>1, <2>2, <3>2, WheelsIs
        <4> QED BY <2>3, <3>2, <4>1, Product
      <3> QED BY <3>1, <3>2
    <2>5. PICK h : h = [l \in 1..(n + 1) |-> IF l = n + 1 THEN x ELSE g[l]]
      OBVIOUS
    <2>6. h[n + 1] = x /\ \A l \in 1..n : h[l] = g[l]
      BY <2>2, <2>5
    <2>7. Is(h, n + 1)
      <3> SUFFICES ASSUME NEW l \in 1..(n + 1)
                   PROVE  /\ h[l] \in Nat \ {0}
                          /\ h[l] = IF l = 1 THEN Step ELSE h[l - 1] * Lens[l - 1]
        OBVIOUS
      <3>1. CASE l = n + 1
        <4>1. n # 0 => h[n] = g[n]
          BY <2>2, <2>6
        <4> QED BY <2>2, <2>3, <2>4, <2>6, <3>1, <4>1
      <3>2. CASE l # n + 1
        <4>1. l \in 1..n /\ (l # 1 => l - 1 \in 1..n)
          BY <2>2, <3>2
        <4> QED BY <2>1, <2>6, <4>1
      <3> QED BY <3>1, <3>2
    <2> HIDE DEF Is
    <2> QED BY <2>2, <2>7
  <1>3. \E g : Is(g, Levels)
    <2> HIDE DEF S
    <2>1. 0..Levels \subseteq S
      BY <1>1, <1>2, Upwards
    <2> USE DEF S
    <2> HIDE DEF Is
    <2> QED BY <2>1, WheelsIs
  <1>4. PICK g : Is(g, Levels)
    BY <1>3
  <1>5. PICK f : f = [l \in 1..Levels |-> g[l]]
    OBVIOUS
  <1>6. f = [l \in 1..Levels |-> IF l = 1 THEN Step ELSE f[l - 1] * Lens[l - 1]]
    BY <1>4, <1>5, WheelsIs
  <1>7. StepOf = [l \in 1..Levels |-> IF l = 1 THEN Step ELSE StepOf[l - 1] * Lens[l - 1]]
    BY <1>6 DEF StepOf
  <1>8. \A l \in 1..Levels : StepOf[l] = IF l = 1 THEN Step ELSE StepOf[l - 1] * Lens[l - 1]
    BY <1>7
  <1> DEFINE U == {n \in Nat : n = 0 \/ (n \in 1..Levels => StepOf[n] \in Nat \ {0})}
  <1>9. ASSUME NEW n \in 0..(Levels - 1), n \in U PROVE n + 1 \in U
    <2>1. n \in Nat /\ n + 1 \in Nat /\ n + 1 \in 1..Levels /\ (n # 0 => n \in 1..Levels)
      BY WheelsIs
    <2>2. n # 0 => StepOf[n] \in Nat \ {0} /\ Lens[n] \in Nat \ {0}
      BY <1>9, <2>1, WheelsIs
    <2>3. StepOf[n + 1] = IF n = 0 THEN Step ELSE StepOf[n] * Lens[n]
      BY <1>8, <2>1
    <2>4. n # 0 => StepOf[n] * Lens[n] \in Nat \ {0}
      BY <2>2, Product
    <2> QED BY <2>1, <2>3, <2>4, WheelsIs
  <1>10. 0..Levels \subseteq U
    <2>1. 0 \in U
      OBVIOUS
    <2> HIDE DEF U
    <2> QED BY <1>9, <2>1, Upwards
  <1> QED BY <1>8, <1>10, WheelsIs

-----------------------------------------------------------------------------
(* The seat of a timer.                                                    *)

LEMMA Division ==
    ASSUME NEW n \in Nat, NEW d \in Nat \ {0}
    PROVE  n \div d \in Nat /\ (n \div d) * d <= n /\ n < (n \div d) * d + d
  BY Z3

LEMMA Remainder ==
    ASSUME NEW n \in Nat, NEW d \in Nat \ {0}
    PROVE  n % d \in 0..(d - 1)
  BY Z3

\* Monotony of the product, for which no prover needs to think of division.
LEMMA Monotone ==
    ASSUME NEW i \in Nat, NEW j \in Nat, NEW d \in Nat \ {0}
    PROVE  /\ i * d \in Nat /\ d * i = i * d
           /\ i <= j => i * d <= j * d
           /\ i * d < j * d + d => i <= j
  BY Z3

LEMMA HeadsAre ==
    /\ \A l \in 1..Levels : \A i \in 0..(Lens[l] - 1) : <<l, i>> \in Heads
    /\ \A h \in Heads : h[1] \in 1..Levels /\ h[2] \in 0..(Lens[h[1]] - 1) /\ h = <<h[1], h[2]>>
  <1> DEFINE Of(l) == {<<l, i>> : i \in 0..(Lens[l] - 1)}
             U == UNION {Of(l) : l \in 1..Levels}
  <1>1. \A l : \A h : h \in Of(l) <=> \E i \in 0..(Lens[l] - 1) : h = <<l, i>>
    OBVIOUS
  <1>2. Heads = U
    BY DEF Heads
  <1> HIDE DEF Of
  <1>3. \A h : h \in U <=> \E l \in 1..Levels : h \in Of(l)
    OBVIOUS
  <1> HIDE DEF U
  <1> QED BY <1>1, <1>2, <1>3

LEMMA NodesAre ==
    /\ NULL \notin Timers /\ NULL \notin Heads /\ Timers \cap Heads = {}
    /\ Nodes = Timers \cup Heads \cup {NULL}
    /\ \A n \in Timers : n[2] \in Ids /\ n = Timer(n[2])
    /\ \A id \in Ids : Timer(id) \in Timers /\ Timer(id)[2] = id
    /\ \A id, i \in Ids : Timer(id) = Timer(i) => id = i
  <1>1. /\ \A n \in Timers : n[1] = 0 /\ n[2] \in Ids /\ n = Timer(n[2])
        /\ \A id \in Ids : Timer(id) \in Timers /\ Timer(id)[2] = id
    BY DEF Timers, Timer
  <1>2. \A h \in Heads : h[1] # 0
    BY HeadsAre
  <1>3. 0 \notin Ids
    BY DEF Ids
  <1> QED BY <1>1, <1>2, <1>3 DEF NULL, Nodes

\* A time that some wheel has room for.
Reach == StepOf[Levels] * Lens[Levels]

Turning == \A l \in 1..Levels : cur[l] \in 0..Lens[l]

GoodSeat(s) == s.head \in Heads /\ s.next \in Nat /\ s.next < StepOf[s.head[1]]

LEMMA SeatIsGood ==
    ASSUME Turning, NEW l \in 1..Levels, NEW ms \in Nat
    PROVE  GoodSeat(Seat(l, ms)) /\ Seat(l, ms).head[1] = l
  <1>1. PICK st : st = StepOf[l]
    OBVIOUS
  <1>2. PICK q : q = ms \div st
    OBVIOUS
  <1>3. st \in Nat \ {0} /\ Lens[l] \in Nat \ {0} /\ cur[l] \in Nat
    BY <1>1, StepOfIs, WheelsIs DEF Turning
  <1>4. q \in Nat /\ q * st \in Nat /\ q * st <= ms /\ ms < q * st + st
    BY <1>2, <1>3, Division, Monotone
  <1>5. PICK x : x = cur[l] + (IF q = 0 THEN 0 ELSE q - 1)
    OBVIOUS
  <1>6. x \in Nat /\ x % Lens[l] \in 0..(Lens[l] - 1)
    <2>1. x \in Nat
      BY <1>3, <1>4, <1>5
    <2> QED BY <1>3, <2>1, Remainder
  <1>7. Seat(l, ms) = [head |-> <<l, x % Lens[l]>>, next |-> ms - q * st]
    BY <1>1, <1>2, <1>5 DEF Seat
  <1>8. <<l, x % Lens[l]>> \in Heads
    BY <1>6, HeadsAre
  <1>9. PICK y : y = ms - q * st
    OBVIOUS
  <1>10. y \in Nat /\ y < st
    BY <1>3, <1>4, <1>9
  <1> QED BY <1>1, <1>7, <1>8, <1>9, <1>10 DEF GoodSeat

\* What SeatFrom makes of wheel l, when f is what it makes of the next one.
Passed(l, f) ==
    [ms \in Nat |->
        IF ms \div StepOf[l] < Lens[l] THEN Seat(l, ms)
        ELSE IF l < Levels THEN f[ms - (Lens[l] - cur[l]) * StepOf[l]]
        ELSE TooLong]

LEMMA SeatFromIs == \A l \in 1..Levels : SeatFrom[l] = Passed(l, SeatFrom[l + 1])
  <1> DEFINE Is(g, n) == \A l \in 1..Levels : l > Levels - n => g[l] = Passed(l, g[l + 1])
             S == {n \in Nat : \E g : Is(g, n)}
  <1>1. \A f, g : Passed(Levels, f) = Passed(Levels, g)
    BY WheelsIs DEF Passed
  <1>2. 0 \in S
    <2>1. Is(0, 0)
      BY WheelsIs
    <2> QED BY <2>1
  <1>3. ASSUME NEW n \in 0..(Levels - 1), n \in S PROVE n + 1 \in S
    <2>1. PICK g : Is(g, n)
      BY <1>3
    <2>2. PICK k : k = Levels - n
      OBVIOUS
    <2>3. n \in Nat /\ n + 1 \in Nat /\ Levels \in Nat /\ k \in 1..Levels
      BY <2>2, WheelsIs
    <2>4. PICK x : x = Passed(k, g[k + 1])
      OBVIOUS
    <2>5. PICK h : h = [l \in 1..(Levels + 1) |-> IF l = k THEN x ELSE g[l]]
      OBVIOUS
    <2>6. h[k] = x /\ \A l \in 1..(Levels + 1) : l # k => h[l] = g[l]
      BY <2>3, <2>5
    <2>7. ASSUME NEW l \in 1..Levels, l > Levels - (n + 1) PROVE h[l] = Passed(l, h[l + 1])
      <3>1. l \in Nat /\ l + 1 \in 1..(Levels + 1) /\ l + 1 # k /\ l \in 1..(Levels + 1)
        BY <2>2, <2>3, <2>7
      <3>2. h[l + 1] = g[l + 1]
        BY <2>6, <3>1
      <3>3. CASE l = k
        BY <2>4, <2>6, <3>2, <3>3
      <3>4. CASE l # k
        <4>1. l > Levels - n
          BY <2>2, <2>3, <2>7, <3>4
        <4>2. h[l] = g[l] /\ g[l] = Passed(l, g[l + 1])
          BY <2>1, <2>6, <3>1, <3>4, <4>1
        <4> QED BY <3>2, <4>2
      <3> QED BY <3>3, <3>4
    <2>8. Is(h, n + 1)
      BY <2>7
    <2> HIDE DEF Is
    <2> QED BY <2>3, <2>8
  <1>4. \E g : Is(g, Levels)
    <2> HIDE DEF S
    <2>1. 0..Levels \subseteq S
      BY <1>2, <1>3, Upwards
    <2>2. Levels \in S
      BY <2>1, WheelsIs
    <2> USE DEF S
    <2> HIDE DEF Is
    <2> QED BY <2>2
  <1>5. PICK g : Is(g, Levels)
    BY <1>4
  <1>6. PICK f : f = [l \in 1..Levels |-> g[l]]
    OBVIOUS
  <1>7. ASSUME NEW l \in 1..Levels PROVE f[l] = Passed(l, f[l + 1])
    <2>1. f[l] = g[l] /\ g[l] = Passed(l, g[l + 1])
      BY <1>5, <1>6, WheelsIs
    <2>2. CASE l = Levels
      BY <1>1, <2>1, <2>2
    <2>3. CASE l # Levels
      <3>1. f[l + 1] = g[l + 1]
        BY <1>6, <2>3, WheelsIs
      <3> QED BY <2>1, <3>1
    <2> QED BY <2>2, <2>3
  <1>8. f = [l \in 1..Levels |-> Passed(l, f[l + 1])]
    BY <1>6, <1>7
  <1>9. SeatFrom = [l \in 1..Levels |-> Passed(l, SeatFrom[l + 1])]
    BY <1>8 DEF SeatFrom, Passed
  <1> QED BY <1>9

-----------------------------------------------------------------------------
(* Lists.  nx and pr are m_next and m_pre of the nodes.                     *)

Pointers(nx, pr) == nx \in [Nodes -> Nodes] /\ pr \in [Nodes -> Nodes]

\* The node behind n in the list of head, whose tail m_pre of head names: the tail's
\* own m_next may be stale.
Succ(nx, pr, head, n) == IF n = pr[head] THEN head ELSE nx[n]

\* C is the head and the timers of its list: each has one behind and one before it,
\* and only the whole of C holds the head and what is behind each.
Ring(nx, pr, head, C, full) ==
    /\ head \in C /\ C \ {head} \subseteq Timers
    /\ full \/ pr[head] = head => nx[pr[head]] = head
    /\ \A n \in C : /\ Succ(nx, pr, head, n) \in C /\ pr[Succ(nx, pr, head, n)] = n
                    /\ pr[n] \in C /\ Succ(nx, pr, head, pr[n]) = n
    /\ \A S \in SUBSET C :
          head \in S /\ (\A n \in S : Succ(nx, pr, head, n) \in S) => S = C

\* C is the chain from first to NULL.
Chain(nx, pr, first, C) ==
    /\ C \subseteq Timers
    /\ first # NULL => first \in C
    /\ \A n \in C : nx[n] # NULL => nx[n] \in C /\ pr[nx[n]] = n /\ nx[n] # first
    /\ \A n \in C : n # first => pr[n] \in C /\ nx[pr[n]] = n
    /\ \A S \in SUBSET C :
          (first # NULL => first \in S) /\ (\A n \in S : nx[n] # NULL => nx[n] \in S) => S = C

\* What Link, Unlink and Detach do.
Linked(nx, pr, n, head, nx2, pr2) ==
    /\ Pointers(nx2, pr2)
    /\ \A m \in Nodes : nx2[m] = IF m = n THEN head ELSE IF m = pr[head] THEN n ELSE nx[m]
    /\ \A m \in Nodes : pr2[m] = IF m = head THEN n ELSE IF m = n THEN pr[head] ELSE pr[m]

Unlinked(nx, pr, n, nx2, pr2) ==
    /\ Pointers(nx2, pr2)
    /\ \A m \in Nodes : nx2[m] = IF m = NULL \/ m = n THEN NULL
                                 ELSE IF m = pr[n] THEN nx[n] ELSE nx[m]
    /\ \A m \in Nodes : pr2[m] = IF m = NULL \/ m = n THEN NULL
                                 ELSE IF m = nx[n] THEN pr[n] ELSE pr[m]

Detached(nx, pr, head, nx2, pr2) ==
    /\ Pointers(nx2, pr2)
    /\ \A m \in Nodes : nx2[m] = IF m = head THEN head ELSE IF m = pr[head] THEN NULL ELSE nx[m]
    /\ \A m \in Nodes : pr2[m] = IF m = head THEN head ELSE IF m = nx[head] THEN NULL ELSE pr[m]

LEMMA LinkIs ==
    ASSUME Pointers(next, pre), NEW n \in Timers, NEW head \in Heads, Link(n, head)
    PROVE  Linked(next, pre, n, head, next', pre')
  <1>1. PICK x : x = [next EXCEPT ![pre[head]] = n]
    OBVIOUS
  <1>2. PICK y : y = [pre EXCEPT ![n] = pre[head]]
    OBVIOUS
  <1>3. next' = [x EXCEPT ![n] = head] /\ pre' = [y EXCEPT ![head] = n]
    BY <1>1, <1>2 DEF Link
  <1>4. /\ n \in Nodes /\ head \in Nodes /\ n # head /\ pre[head] \in Nodes
        /\ next \in [Nodes -> Nodes] /\ pre \in [Nodes -> Nodes]
    BY NodesAre DEF Pointers
  <1>5. /\ x \in [Nodes -> Nodes] /\ y \in [Nodes -> Nodes]
        /\ \A m \in Nodes : x[m] = IF m = pre[head] THEN n ELSE next[m]
        /\ \A m \in Nodes : y[m] = IF m = n THEN pre[head] ELSE pre[m]
    BY <1>1, <1>2, <1>4
  <1> QED BY <1>3, <1>4, <1>5 DEF Linked, Pointers

LEMMA UnlinkIs ==
    ASSUME Pointers(next, pre), NEW n \in Timers, Unlink(n)
    PROVE  Unlinked(next, pre, n, next', pre')
  <1>1. PICK x : x = [next EXCEPT ![pre[n]] = next[n]]
    OBVIOUS
  <1>2. PICK y : y = [pre EXCEPT ![next[n]] = pre[n]]
    OBVIOUS
  <1>3. PICK u : u = [x EXCEPT ![n] = NULL]
    OBVIOUS
  <1>4. PICK v : v = [y EXCEPT ![n] = NULL]
    OBVIOUS
  <1>5. next' = [u EXCEPT ![NULL] = NULL] /\ pre' = [v EXCEPT ![NULL] = NULL]
    BY <1>1, <1>2, <1>3, <1>4 DEF Unlink
  <1>6. /\ n \in Nodes /\ NULL \in Nodes /\ n # NULL /\ pre[n] \in Nodes /\ next[n] \in Nodes
        /\ next \in [Nodes -> Nodes] /\ pre \in [Nodes -> Nodes]
    BY NodesAre DEF Pointers
  <1>7. /\ x \in [Nodes -> Nodes] /\ y \in [Nodes -> Nodes]
        /\ \A m \in Nodes : x[m] = IF m = pre[n] THEN next[n] ELSE next[m]
        /\ \A m \in Nodes : y[m] = IF m = next[n] THEN pre[n] ELSE pre[m]
    BY <1>1, <1>2, <1>6
  <1>8. /\ u \in [Nodes -> Nodes] /\ v \in [Nodes -> Nodes]
        /\ \A m \in Nodes : u[m] = IF m = n THEN NULL ELSE x[m]
        /\ \A m \in Nodes : v[m] = IF m = n THEN NULL ELSE y[m]
    BY <1>3, <1>4, <1>6, <1>7
  <1>9. /\ Pointers(next', pre')
        /\ \A m \in Nodes : next'[m] = IF m = NULL THEN NULL ELSE u[m]
        /\ \A m \in Nodes : pre'[m] = IF m = NULL THEN NULL ELSE v[m]
    BY <1>5, <1>6, <1>8 DEF Pointers
  <1> QED BY <1>7, <1>8, <1>9 DEF Unlinked

LEMMA DetachIs ==
    ASSUME Pointers(next, pre), NEW head \in Heads, Detach(head), next[head] # head,
           pre[head] # head
    PROVE  Detached(next, pre, head, next', pre') /\ chain' = next[head]
  <1>1. PICK x : x = [next EXCEPT ![pre[head]] = NULL]
    OBVIOUS
  <1>2. PICK y : y = [pre EXCEPT ![next[head]] = NULL]
    OBVIOUS
  <1>3. next' = [x EXCEPT ![head] = head] /\ pre' = [y EXCEPT ![head] = head]
        /\ chain' = next[head]
    BY <1>1, <1>2 DEF Detach
  <1>4. /\ NULL \in Nodes /\ head \in Nodes /\ pre[head] \in Nodes /\ next[head] \in Nodes
        /\ next \in [Nodes -> Nodes] /\ pre \in [Nodes -> Nodes]
    BY NodesAre DEF Pointers
  <1>5. /\ x \in [Nodes -> Nodes] /\ y \in [Nodes -> Nodes]
        /\ \A m \in Nodes : x[m] = IF m = pre[head] THEN NULL ELSE next[m]
        /\ \A m \in Nodes : y[m] = IF m = next[head] THEN NULL ELSE pre[m]
    BY <1>1, <1>2, <1>4
  <1> QED BY <1>3, <1>4, <1>5 DEF Detached, Pointers

\* An empty list.
LEMMA RingEmpty ==
    ASSUME NEW nx, NEW pr, NEW head, NEW full, nx[head] = head, pr[head] = head
    PROVE  Ring(nx, pr, head, {head}, full)
  BY DEF Ring, Succ

\* A list is what its nodes' pointers make it; only the tail's m_next need not be kept.
LEMMA RingSame ==
    ASSUME NEW nx, NEW pr, NEW head, NEW C, NEW full, Ring(nx, pr, head, C, full),
           NEW nx2, NEW pr2, \A n \in C : pr2[n] = pr[n],
           \A n \in C : nx2[n] = nx[n] \/ (~full /\ n = pr[head] /\ n # head)
    PROVE  Ring(nx2, pr2, head, C, full)
  <1>1. head \in C /\ pr2[head] = pr[head] /\ pr[head] \in C
    BY DEF Ring
  <1>2. \A n \in C : Succ(nx2, pr2, head, n) = Succ(nx, pr, head, n)
    BY <1>1 DEF Succ
  <1>3. full \/ pr2[head] = head => nx2[pr2[head]] = head
    BY <1>1 DEF Ring
  <1>4. \A n \in C : /\ Succ(nx, pr, head, n) \in C /\ pr[Succ(nx, pr, head, n)] = n
                     /\ pr[n] \in C /\ Succ(nx, pr, head, pr[n]) = n
    BY DEF Ring
  <1>5. \A n \in C : /\ Succ(nx2, pr2, head, n) \in C /\ pr2[Succ(nx2, pr2, head, n)] = n
                     /\ pr2[n] \in C /\ Succ(nx2, pr2, head, pr2[n]) = n
    BY <1>2, <1>4
  <1>6. ASSUME NEW S \in SUBSET C, head \in S, \A n \in S : Succ(nx2, pr2, head, n) \in S
        PROVE  S = C
    <2>1. \A n \in S : Succ(nx, pr, head, n) \in S
      BY <1>2, <1>6
    <2> QED BY <1>6, <2>1 DEF Ring
  <1>7. C \ {head} \subseteq Timers
    BY DEF Ring
  <1> QED BY <1>1, <1>3, <1>5, <1>6, <1>7 DEF Ring

\* A timer goes to the end.
LEMMA RingLinked ==
    ASSUME NEW nx, NEW pr, NEW head \in Heads, NEW C, NEW full, Ring(nx, pr, head, C, full),
           NEW n \in Timers, n \notin C, NEW nx2, NEW pr2, Linked(nx, pr, n, head, nx2, pr2)
    PROVE  Ring(nx2, pr2, head, C \cup {n}, full) /\ pr2[head] = n
  <1> DEFINE B == C \cup {n}
  <1>1. /\ head \in C /\ C \subseteq Nodes /\ n \in Nodes /\ n # head
        /\ C \ {head} \subseteq Timers
        /\ pr[head] \in C
    BY NodesAre DEF Ring
  <1>2. /\ pr2[head] = n /\ nx2[n] = head /\ pr2[n] = pr[head]
        /\ nx2[pr[head]] = n
        /\ \A m \in C : m # pr[head] => nx2[m] = nx[m]
        /\ \A m \in C : m # head => pr2[m] = pr[m]
    BY <1>1 DEF Linked
  <1>3. /\ Succ(nx2, pr2, head, n) = head
        /\ Succ(nx2, pr2, head, pr[head]) = n
        /\ \A m \in C : m # pr[head] => Succ(nx2, pr2, head, m) = Succ(nx, pr, head, m)
    BY <1>1, <1>2 DEF Succ
  <1>4. \A m \in C : /\ Succ(nx, pr, head, m) \in C /\ pr[Succ(nx, pr, head, m)] = m
                     /\ pr[m] \in C /\ Succ(nx, pr, head, pr[m]) = m
    BY DEF Ring
  <1>5. ASSUME NEW m \in B
        PROVE  /\ Succ(nx2, pr2, head, m) \in B /\ pr2[Succ(nx2, pr2, head, m)] = m
               /\ pr2[m] \in B /\ Succ(nx2, pr2, head, pr2[m]) = m
    <2>1. CASE m = n
      BY <1>1, <1>2, <1>3, <2>1
    <2>2. CASE m \in C
      <3>1. Succ(nx2, pr2, head, m) \in B /\ pr2[Succ(nx2, pr2, head, m)] = m
        <4>1. CASE m = pr[head]
          BY <1>2, <1>3, <4>1
        <4>2. CASE m # pr[head]
          <5>1. Succ(nx, pr, head, m) # head
            BY <1>4, <2>2, <4>2
          <5> QED BY <1>2, <1>3, <1>4, <2>2, <4>2, <5>1
        <4> QED BY <4>1, <4>2
      <3>2. pr2[m] \in B /\ Succ(nx2, pr2, head, pr2[m]) = m
        <4>1. CASE m = head
          BY <1>2, <1>3, <4>1
        <4>2. CASE m # head
          <5>1. pr[m] # pr[head]
            BY <1>1, <1>4, <2>2, <4>2
          <5> QED BY <1>2, <1>3, <1>4, <2>2, <4>2, <5>1
        <4> QED BY <4>1, <4>2
      <3> QED BY <3>1, <3>2
    <2> QED BY <2>1, <2>2
  <1>6. ASSUME NEW S \in SUBSET B, head \in S, \A m \in S : Succ(nx2, pr2, head, m) \in S
        PROVE  S = B
    <2> DEFINE T == S \cap C
    <2>1. head \in T
      BY <1>1, <1>6
    <2>2. ASSUME NEW m \in T PROVE Succ(nx, pr, head, m) \in T
      <3>1. CASE m = pr[head]
        BY <2>1, <3>1 DEF Succ
      <3>2. CASE m # pr[head]
        BY <1>3, <1>4, <1>6, <2>2, <3>2
      <3> QED BY <3>1, <3>2
    <2>3. T \in SUBSET C
      OBVIOUS
    <2> HIDE DEF T
    <2>4. T = C
      BY <2>1, <2>2, <2>3 DEF Ring
    <2> USE DEF T
    <2>5. n \in S
      BY <1>1, <1>3, <1>6, <2>4
    <2> QED BY <2>4, <2>5
  <1>7. /\ head \in B /\ B \ {head} \subseteq Timers
        /\ nx2[pr2[head]] = head
    BY <1>1, <1>2
  <1> HIDE DEF B
  <1>8. Ring(nx2, pr2, head, B, full)
    BY <1>5, <1>6, <1>7 DEF Ring
  <1> QED BY <1>2, <1>8 DEF B

\* A timer leaves a list whose tail's m_next is right.
LEMMA RingUnlinked ==
    ASSUME NEW nx, NEW pr, NEW head \in Heads, NEW C, Ring(nx, pr, head, C, TRUE),
           NEW n \in C, n # head, NEW nx2, NEW pr2, Unlinked(nx, pr, n, nx2, pr2)
    PROVE  Ring(nx2, pr2, head, C \ {n}, TRUE)
  <1> DEFINE B == C \ {n}
             s(m) == Succ(nx, pr, head, m)
             t(m) == Succ(nx2, pr2, head, m)
  <1>1. /\ head \in C /\ C \subseteq Nodes /\ NULL \notin C
        /\ C \ {head} \subseteq Timers /\ nx[pr[head]] = head
    BY NodesAre DEF Ring
  <1>2. \A m \in C : nx[m] \in C /\ pr[nx[m]] = m /\ pr[m] \in C /\ nx[pr[m]] = m
                     /\ s(m) = nx[m]
    BY <1>1 DEF Ring, Succ
  <1>3. nx[n] # n /\ pr[n] # n
    <2>1. SUFFICES ASSUME nx[n] = n PROVE FALSE
      BY <1>2
    <2>2. \A m \in B : s(m) \in B
      BY <1>2, <2>1
    <2>3. head \in B /\ B \in SUBSET C
      BY <1>1
    <2> HIDE DEF B, s
    <2>4. B = C
      BY <2>2, <2>3 DEF Ring, s
    <2> QED BY <2>4 DEF B
  <1>4. /\ \A m \in B : nx2[m] = IF m = pr[n] THEN nx[n] ELSE nx[m]
        /\ \A m \in B : pr2[m] = IF m = nx[n] THEN pr[n] ELSE pr[m]
    BY <1>1 DEF Unlinked
  <1>5. \A m \in B : nx2[m] \in B /\ pr2[m] \in B /\ pr2[nx2[m]] = m /\ nx2[pr2[m]] = m
    <2> SUFFICES ASSUME NEW m \in B
                 PROVE  nx2[m] \in B /\ pr2[m] \in B /\ pr2[nx2[m]] = m /\ nx2[pr2[m]] = m
      OBVIOUS
    <2>1. nx2[m] \in B /\ pr2[nx2[m]] = m
      <3>1. CASE m = pr[n]
        <4>1. nx2[m] = nx[n] /\ nx[n] \in B
          BY <1>2, <1>3, <1>4, <3>1
        <4> QED BY <1>4, <3>1, <4>1
      <3>2. CASE m # pr[n]
        <4>1. nx2[m] = nx[m] /\ nx[m] \in B
          BY <1>2, <1>4, <3>2
        <4>2. nx[m] # nx[n]
          BY <1>2
        <4> QED BY <1>2, <1>4, <4>1, <4>2
      <3> QED BY <3>1, <3>2
    <2>2. pr2[m] \in B /\ nx2[pr2[m]] = m
      <3>1. CASE m = nx[n]
        <4>1. pr2[m] = pr[n] /\ pr[n] \in B
          BY <1>2, <1>3, <1>4, <3>1
        <4> QED BY <1>4, <3>1, <4>1
      <3>2. CASE m # nx[n]
        <4>1. pr2[m] = pr[m] /\ pr[m] \in B
          BY <1>2, <1>4, <3>2
        <4>2. pr[m] # pr[n]
          BY <1>2
        <4> QED BY <1>2, <1>4, <4>1, <4>2
      <3> QED BY <3>1, <3>2
    <2> QED BY <2>1, <2>2
  <1>6. head \in B /\ B \ {head} \subseteq Timers /\ nx2[pr2[head]] = head
    BY <1>1, <1>5
  <1>7. \A m \in B : t(m) = nx2[m]
    BY <1>6 DEF Succ
  <1>8. ASSUME NEW S \in SUBSET B, head \in S, \A m \in S : t(m) \in S PROVE S = B
    <2>1. \A m \in S : nx2[m] \in S
      BY <1>7, <1>8
    <2>2. pr[n] \in S
      <3>1. SUFFICES ASSUME pr[n] \notin S PROVE FALSE
        OBVIOUS
      <3>2. \A m \in S : s(m) \in S
        BY <1>2, <1>4, <2>1, <3>1
      <3>3. S \in SUBSET C
        OBVIOUS
      <3> HIDE DEF s, B
      <3>4. S = C
        BY <1>8, <3>2, <3>3 DEF Ring, s
      <3> USE DEF B
      <3> QED BY <3>4
    <2> DEFINE T == S \cup {n}
    <2>3. \A m \in T : s(m) \in T
      <3> SUFFICES ASSUME NEW m \in T PROVE nx[m] \in T
        BY <1>2
      <3>1. CASE m = n
        <4>1. nx2[pr[n]] = nx[n]
          BY <1>2, <1>3, <1>4
        <4> QED BY <2>1, <2>2, <3>1, <4>1
      <3>2. CASE m # n /\ m = pr[n]
        BY <1>2, <3>2
      <3>3. CASE m # n /\ m # pr[n]
        BY <1>4, <2>1, <3>3
      <3> QED BY <3>1, <3>2, <3>3
    <2>4. head \in T /\ T \in SUBSET C
      BY <1>8
    <2> HIDE DEF T, s
    <2>5. T = C
      BY <2>3, <2>4 DEF Ring, s
    <2> QED BY <2>5 DEF T
  <1> HIDE DEF B
  <1>9. \A m \in B : /\ Succ(nx2, pr2, head, m) \in B /\ pr2[Succ(nx2, pr2, head, m)] = m
                     /\ pr2[m] \in B /\ Succ(nx2, pr2, head, pr2[m]) = m
    BY <1>5, <1>7
  <1>10. Ring(nx2, pr2, head, B, TRUE)
    BY <1>6, <1>8, <1>9 DEF Ring
  <1> QED BY <1>10 DEF B

\* The timers of a list become a chain.
LEMMA RingDetached ==
    ASSUME NEW nx, NEW pr, NEW head \in Heads, NEW C, NEW full, Ring(nx, pr, head, C, full),
           pr[head] # head, NEW nx2, NEW pr2, Detached(nx, pr, head, nx2, pr2)
    PROVE  /\ Ring(nx2, pr2, head, {head}, full)
           /\ Chain(nx2, pr2, nx[head], C \ {head})
  <1> DEFINE B == C \ {head}
             first == nx[head]
             s(m) == Succ(nx, pr, head, m)
  <1>1. /\ head \in C /\ C \subseteq Nodes /\ NULL \notin C /\ NULL \notin B
        /\ B \subseteq Timers /\ head \in Nodes
    BY NodesAre DEF Ring
  <1>2. \A m \in C : s(m) \in C /\ pr[s(m)] = m /\ pr[m] \in C /\ s(pr[m]) = m
    BY DEF Ring
  <1>3. first = s(head) /\ first \in B /\ pr[first] = head
    <2>1. first = s(head)
      BY DEF Succ
    <2>2. s(head) # head
      BY <1>1, <1>2
    <2> QED BY <1>1, <1>2, <2>1, <2>2
  <1>4. /\ nx2[head] = head /\ pr2[head] = head
        /\ \A m \in B : nx2[m] = IF m = pr[head] THEN NULL ELSE nx[m]
        /\ \A m \in B : pr2[m] = IF m = first THEN NULL ELSE pr[m]
    BY <1>1 DEF Detached
  <1>5. Ring(nx2, pr2, head, {head}, full)
    BY <1>4, RingEmpty
  <1>6. \A m \in B : m # pr[head] => nx[m] = s(m) /\ s(m) # head
    BY <1>2 DEF Succ
  <1> HIDE DEF s, first
  <1>7. \A m \in B : nx2[m] # NULL => nx2[m] \in B /\ pr2[nx2[m]] = m /\ nx2[m] # first
    <2> SUFFICES ASSUME NEW m \in B, nx2[m] # NULL
                 PROVE  nx2[m] \in B /\ pr2[nx2[m]] = m /\ nx2[m] # first
      OBVIOUS
    <2>1. m # pr[head] /\ nx2[m] = s(m)
      BY <1>4, <1>6
    <2>2. s(m) \in B /\ pr[s(m)] = m
      BY <1>2, <1>6, <2>1
    <2>3. s(m) # first
      BY <1>3, <2>2
    <2> QED BY <1>4, <2>1, <2>2, <2>3
  <1>8. \A m \in B : m # first => pr2[m] \in B /\ nx2[pr2[m]] = m
    <2> SUFFICES ASSUME NEW m \in B, m # first PROVE pr2[m] \in B /\ nx2[pr2[m]] = m
      OBVIOUS
    <2>1. pr2[m] = pr[m] /\ pr[m] \in C /\ s(pr[m]) = m
      BY <1>2, <1>4
    <2>2. pr[m] # head
      BY <1>3, <2>1
    <2>3. pr[m] # pr[head]
      BY <1>1, <1>2
    <2> QED BY <1>4, <1>6, <2>1, <2>2, <2>3
  <1>9. ASSUME NEW S \in SUBSET B, first \in S, \A m \in S : nx2[m] # NULL => nx2[m] \in S
        PROVE  S = B
    <2> DEFINE T == S \cup {head}
    <2>1. \A m \in T : s(m) \in T
      <3> SUFFICES ASSUME NEW m \in T PROVE s(m) \in T
        OBVIOUS
      <3>1. CASE m = head
        BY <1>3, <1>9, <3>1
      <3>2. CASE m # head /\ m = pr[head]
        BY <3>2 DEF s, Succ
      <3>3. CASE m # head /\ m # pr[head]
        <4>1. nx2[m] = s(m) /\ s(m) \in C
          BY <1>2, <1>4, <1>6, <3>3
        <4> QED BY <1>1, <1>9, <3>3, <4>1
      <3> QED BY <3>1, <3>2, <3>3
    <2>2. head \in T /\ T \in SUBSET C
      BY <1>1
    <2> HIDE DEF T
    <2>3. T = C
      BY <2>1, <2>2 DEF Ring, s
    <2> QED BY <2>3 DEF T
  <1>10. first # NULL
    BY <1>1, <1>3
  <1> HIDE DEF B
  <1>11. Chain(nx2, pr2, first, B)
    BY <1>1, <1>3, <1>7, <1>8, <1>9, <1>10 DEF Chain
  <1> QED BY <1>5, <1>11 DEF B, first

\* No chain.
LEMMA ChainEmpty ==
    ASSUME NEW nx, NEW pr
    PROVE  /\ Chain(nx, pr, NULL, {})
           /\ \A C : Chain(nx, pr, NULL, C) => C = {}
  <1>1. ASSUME NEW C, Chain(nx, pr, NULL, C) PROVE C = {}
    <2>1. {} \in SUBSET C
      OBVIOUS
    <2> QED BY <1>1, <2>1 DEF Chain
  <1> QED BY <1>1 DEF Chain

\* A chain is what its nodes' pointers make it, but for m_pre of the first.
LEMMA ChainSame ==
    ASSUME NEW nx, NEW pr, NEW first, NEW C, Chain(nx, pr, first, C), NEW nx2, NEW pr2,
           \A n \in C : nx2[n] = nx[n] /\ (n # first => pr2[n] = pr[n])
    PROVE  Chain(nx2, pr2, first, C)
  <1>1. ASSUME NEW S \in SUBSET C, first # NULL => first \in S,
               \A n \in S : nx2[n] # NULL => nx2[n] \in S
        PROVE  S = C
    BY <1>1 DEF Chain
  <1>2. \A n \in C : nx2[n] # NULL => nx2[n] \in C /\ pr2[nx2[n]] = n /\ nx2[n] # first
    BY DEF Chain
  <1>3. \A n \in C : n # first => pr2[n] \in C /\ nx2[pr2[n]] = n
    BY DEF Chain
  <1> QED BY <1>1, <1>2, <1>3 DEF Chain

\* The chain without its first timer.
LEMMA ChainNext ==
    ASSUME NEW nx, NEW pr, NEW first, first # NULL, NEW C, Chain(nx, pr, first, C)
    PROVE  /\ Chain(nx, pr, nx[first], C \ {first})
           /\ first \in C /\ first \in Timers
           /\ nx[first] # NULL => nx[first] \in C \ {first} /\ pr[nx[first]] = first
  <1> DEFINE B == C \ {first}
             second == nx[first]
  <1>1. /\ first \in C /\ C \subseteq Timers /\ NULL \notin C
        /\ \A n \in C : nx[n] # NULL => nx[n] \in C /\ pr[nx[n]] = n /\ nx[n] # first
        /\ \A n \in C : n # first => pr[n] \in C /\ nx[pr[n]] = n
    BY NodesAre DEF Chain
  <1>2. second # NULL => second \in B
    BY <1>1
  <1>3. \A n \in B : nx[n] # NULL => nx[n] \in B /\ pr[nx[n]] = n /\ nx[n] # second
    BY <1>1
  <1>4. \A n \in B : n # second => pr[n] \in B /\ nx[pr[n]] = n
    BY <1>1
  <1>5. ASSUME NEW S \in SUBSET B, second # NULL => second \in S,
               \A n \in S : nx[n] # NULL => nx[n] \in S
        PROVE  S = B
    <2> DEFINE T == S \cup {first}
    <2>1. /\ T \in SUBSET C /\ first \in T
          /\ \A n \in T : nx[n] # NULL => nx[n] \in T
      BY <1>1, <1>5
    <2> HIDE DEF T
    <2>2. T = C
      BY <2>1 DEF Chain
    <2> QED BY <2>2 DEF T
  <1> HIDE DEF B, second
  <1>6. B \subseteq Timers
    BY <1>1 DEF B
  <1>7. Chain(nx, pr, second, B)
    BY <1>2, <1>3, <1>4, <1>5, <1>6 DEF Chain
  <1> QED BY <1>1, <1>7 DEF B, second

-----------------------------------------------------------------------------
(* What is met on the way through a list or the chain.                     *)

LEMMA RingMet ==
    ASSUME NEW head \in Heads, NEW C, NEW full, Ring(next, pre, head, C, full)
    PROVE  /\ InSlot(head) = C \ {head}
           /\ next[head] = head <=> pre[head] = head
           /\ next[head] # head => /\ pre[head] \in C \ {head}
                                   /\ \A n \in C \ {head, pre[head]} : next[n] \in Timers
  <1> DEFINE s(n) == Succ(next, pre, head, n)
             B == C \ {head}
             first == next[head]
             Walked(S) == /\ first \in Timers => first \in S
                          /\ \A n \in S \ {pre[head]} : next[n] \in Timers => next[n] \in S
  <1>1. /\ head \in C /\ B \subseteq Timers /\ head \notin Timers
        /\ \A n \in C : s(n) \in C /\ pre[s(n)] = n /\ pre[n] \in C /\ s(pre[n]) = n
        /\ \A n \in C : n # pre[head] => s(n) = next[n]
    BY NodesAre DEF Ring, Succ
  <1>2. first = head <=> pre[head] = head
    <2>1. pre[head] = head => first = head
      BY DEF Ring
    <2>2. pre[head] # head => first = s(head)
      BY <1>1
    <2> QED BY <1>1, <2>1, <2>2
  <1>3. CASE first = head
    <2>1. \A n \in {head} : s(n) \in {head}
      BY <1>2, <1>3 DEF Succ
    <2>2. {head} \in SUBSET C
      BY <1>1
    <2>3. {head} = C
      BY <2>1, <2>2 DEF Ring
    <2> QED BY <1>2, <1>3, <2>3 DEF InSlot
  <1>4. CASE first # head
    <2>1. pre[head] \in B /\ first \in B /\ first = s(head)
      BY <1>1, <1>2, <1>4
    <2>2. \A n \in B : n # pre[head] => next[n] \in B
      BY <1>1
    <2>3. Walked(B)
      BY <2>1, <2>2
    <2>4. ASSUME NEW n \in B, NEW S \in SUBSET (Timers \ {n}), Walked(S) PROVE FALSE
      <3> DEFINE T == (S \cap B) \cup {head}
      <3>1. ASSUME NEW m \in T PROVE s(m) \in T
        <4>1. CASE m = head
          BY <1>1, <2>1, <2>4, <4>1
        <4>2. CASE m # head /\ m = pre[head]
          BY <4>2 DEF Succ
        <4>3. CASE m # head /\ m # pre[head]
          <5>1. m \in S /\ m \in B /\ s(m) = next[m] /\ next[m] \in B
            BY <1>1, <2>2, <3>1, <4>3
          <5> QED BY <1>1, <2>4, <4>3, <5>1
        <4> QED BY <4>1, <4>2, <4>3
      <3>2. head \in T /\ T \in SUBSET C
        BY <1>1
      <3> HIDE DEF T, s
      <3>3. T = C
        BY <3>1, <3>2 DEF Ring, s
      <3> QED BY <2>4, <3>3 DEF T
    <2>5. Met(first, pre[head]) = {n \in Timers : \A S \in SUBSET (Timers \ {n}) : ~Walked(S)}
      BY DEF Met
    <2> HIDE DEF Walked, B
    <2>6. Met(first, pre[head]) = B
      <3>1. ASSUME NEW n \in Timers, n \notin B PROVE \E S \in SUBSET (Timers \ {n}) : Walked(S)
        <4>1. B \in SUBSET (Timers \ {n})
          BY <1>1, <3>1
        <4> QED BY <2>3, <4>1
      <3> QED BY <1>1, <2>4, <2>5, <3>1
    <2> USE DEF B
    <2>7. \A n \in C \ {head, pre[head]} : next[n] \in Timers
      BY <1>1, <2>2
    <2> QED BY <1>2, <1>4, <2>1, <2>6, <2>7 DEF InSlot
  <1> QED BY <1>3, <1>4

LEMMA ChainMet ==
    ASSUME NEW C, Chain(next, pre, chain, C), chain \in Timers \cup {NULL}
    PROVE  InChain = C /\ \A n \in C : next[n] \in Timers \cup {NULL}
  <1> DEFINE Walked(S) == /\ chain \in Timers => chain \in S
                          /\ \A n \in S \ {NULL} : next[n] \in Timers => next[n] \in S
  <1>1. /\ C \subseteq Timers /\ NULL \notin Timers /\ (chain # NULL => chain \in C)
        /\ \A n \in C : next[n] # NULL => next[n] \in C
    BY NodesAre DEF Chain
  <1>2. Walked(C)
    BY <1>1
  <1>3. ASSUME NEW n \in C, NEW S \in SUBSET (Timers \ {n}), Walked(S) PROVE FALSE
    <2> DEFINE T == S \cap C
    <2>1. /\ T \in SUBSET C /\ (chain # NULL => chain \in T)
          /\ \A m \in T : next[m] # NULL => next[m] \in T
      BY <1>1, <1>3
    <2> HIDE DEF T
    <2>2. T = C
      BY <2>1 DEF Chain
    <2> QED BY <1>3, <2>2 DEF T
  <1>4. InChain = {n \in Timers : \A S \in SUBSET (Timers \ {n}) : ~Walked(S)}
    BY DEF InChain, Met
  <1> HIDE DEF Walked
  <1>5. ASSUME NEW n \in Timers, n \notin C PROVE \E S \in SUBSET (Timers \ {n}) : Walked(S)
    <2>1. C \in SUBSET (Timers \ {n})
      BY <1>1, <1>5
    <2> QED BY <1>2, <2>1
  <1> QED BY <1>1, <1>3, <1>4, <1>5

-----------------------------------------------------------------------------
(* How far a timer is from its call.                                       *)

\* How many steps of the manager a step of wheel l is.
Units(l) == StepOf[l] \div Step

\* The wheels from this one down still have to submit a slot in this step; none, when a
\* step is not at hand.
Turns == IF pc = "submit" THEN level ELSE IF pc = "cascade" THEN level - 1 ELSE 0

\* Where the wheels are; the ones below the one that turns have come round.
Position == [l \in 1..Levels |-> IF l < Turns THEN Lens[l] ELSE cur[l]]

\* The steps until all wheels below a wheel have come round, from the position e.
IsAhead(e, f) ==
    /\ f \in [1..Levels -> Int] /\ f[1] = 0
    /\ \A l \in 2..Levels : f[l] = f[l - 1] + (Lens[l - 1] - e[l - 1]) * Units(l - 1)
Ahead(e) == CHOOSE f : IsAhead(e, f)

\* The slots of wheel l that are submitted before the slot s, when c is the next.
Rounds(l, s, c) == IF s >= c THEN s - c ELSE s + Lens[l] - c

\* The steps until the slot of head is submitted.
Wait(head) ==
    Ahead(Position)[head[1]] + Rounds(head[1], head[2], cur[head[1]]) * Units(head[1])
    + IF Turns = 0 THEN 1 ELSE 0

\* A timer that comes down from wheel l is early by no more than what the wheels below
\* may add.
Below(l) == IF l = 1 THEN 0 ELSE Early[l - 1] + 1
InTime(id, l, x) ==
    IF top[id] = 1 THEN l = 1 /\ x = 0 ELSE -1 <= x /\ x <= Early[top[id]] - Below(l)

\* The step of the wheel in whose slot x a timer is, or from which it comes.
Span(x) == StepOf[IF x \in Heads THEN x[1] ELSE level]

\* The timer id may be at x: less than a step of the wheel is left, and what is due
\* agrees with when the slot is submitted and with what is left then.
Fits(id, x) ==
    /\ data[id].next < Span(x)
    /\ IF x \in Heads THEN InTime(id, x[1], due[id] - Wait(x) - data[id].next \div Step)
       ELSE InTime(id, level, due[id] - data[id].next \div Step)

LEMMA Distribute ==
    ASSUME NEW i \in Int, NEW j \in Int, NEW k \in Int
    PROVE  /\ (i + j) * k = i * k + j * k /\ (i - j) * k = i * k - j * k
           /\ i * (j * k) = (i * j) * k /\ i * k \in Int
  BY Z3

LEMMA DivisionIs ==
    ASSUME NEW n \in Nat, NEW d \in Nat \ {0}, NEW q \in Nat, q * d <= n, n < q * d + d
    PROVE  n \div d = q
  <1>1. PICK p : p = n \div d
    OBVIOUS
  <1>2. p \in Nat /\ p * d <= n /\ n < p * d + d
    BY <1>1, Division
  <1>3. p * d \in Nat /\ q * d \in Nat
    BY <1>2, Monotone
  <1>4. p * d < q * d + d /\ q * d < p * d + d
    BY <1>2, <1>3
  <1>5. p <= q /\ q <= p
    BY <1>2, <1>4, Monotone
  <1> QED BY <1>1, <1>2, <1>5

\* A step of a wheel is a number of steps of the manager.
LEMMA UnitsAre ==
    /\ Units(1) = 1 /\ \A l \in 1..Levels : Units(l) \in Nat \ {0} /\ StepOf[l] = Units(l) * Step
    /\ \A l \in 1..Levels : l # 1 => Units(l) = Lens[l - 1] * Units(l - 1)
  <1>1. /\ Levels \in Nat \ {0} /\ Step \in Nat \ {0}
        /\ \A l \in 1..Levels : StepOf[l] \in Nat \ {0} /\ Lens[l] \in Nat \ {0}
        /\ \A l \in 1..Levels : StepOf[l] = IF l = 1 THEN Step ELSE StepOf[l - 1] * Lens[l - 1]
    BY StepOfIs, WheelsIs
  <1>2. Units(1) = 1
    <2>1. StepOf[1] = Step
      BY <1>1
    <2>2. 1 * Step <= Step /\ Step < 1 * Step + Step
      BY <1>1
    <2>3. Step \div Step = 1
      BY <1>1, <2>2, DivisionIs
    <2> QED BY <2>1, <2>3 DEF Units
  <1>3. ASSUME NEW l \in 2..Levels, Units(l - 1) \in Nat \ {0}, StepOf[l - 1] = Units(l - 1) * Step
        PROVE  /\ Units(l) = Lens[l - 1] * Units(l - 1)
               /\ Units(l) \in Nat \ {0} /\ StepOf[l] = Units(l) * Step
    <2>1. l \in 1..Levels /\ l - 1 \in 1..Levels /\ l # 1
      BY <1>1
    <2>2. PICK u, n, x : u = Units(l - 1) /\ n = Lens[l - 1] /\ x = n * u
      OBVIOUS
    <2>3. u \in Nat \ {0} /\ n \in Nat \ {0} /\ x \in Nat \ {0}
      BY <1>1, <1>3, <2>1, <2>2, Product
    <2>4. StepOf[l] = (u * Step) * n
      BY <1>1, <1>3, <2>1, <2>2
    <2>5. (u * Step) * n = x * Step
      <3>1. n * (u * Step) = (n * u) * Step
        BY <1>1, <2>3, Distribute
      <3>2. u * Step \in Nat
        BY <1>1, <2>3, Product
      <3>3. (u * Step) * n = n * (u * Step)
        BY <2>3, <3>2, Monotone
      <3> QED BY <2>2, <3>1, <3>3
    <2>6. x * Step \in Nat
      BY <1>1, <2>3, Product
    <2>7. (x * Step) \div Step = x
      BY <1>1, <2>3, <2>6, DivisionIs
    <2> QED BY <2>2, <2>3, <2>4, <2>5, <2>7 DEF Units
  <1> DEFINE S == {n \in Nat : n # 0 /\ n <= Levels =>
                                  Units(n) \in Nat \ {0} /\ StepOf[n] = Units(n) * Step}
  <1>4. 0 \in S
    OBVIOUS
  <1>5. ASSUME NEW n \in 0..(Levels - 1), n \in S PROVE n + 1 \in S
    <2>1. n \in Nat /\ n + 1 \in Nat
      BY <1>1
    <2>2. CASE n = 0
      <3>1. StepOf[1] = Step /\ 1 * Step = Step
        BY <1>1
      <3> QED BY <1>2, <2>1, <2>2, <3>1
    <2>3. CASE n # 0
      <3>1. PICK m : m = n + 1
        OBVIOUS
      <3>2. m \in 2..Levels /\ m - 1 = n
        BY <1>1, <2>1, <2>3, <3>1
      <3>3. Units(m - 1) \in Nat \ {0} /\ StepOf[m - 1] = Units(m - 1) * Step
        BY <1>1, <1>5, <2>1, <2>3, <3>2
      <3>4. Units(m) \in Nat \ {0} /\ StepOf[m] = Units(m) * Step
        BY <1>3, <3>2, <3>3
      <3> QED BY <2>1, <3>1, <3>4
    <2> QED BY <2>2, <2>3
  <1>6. \A l \in 1..Levels : Units(l) \in Nat \ {0} /\ StepOf[l] = Units(l) * Step
    <2> HIDE DEF S
    <2>1. 0..Levels \subseteq S
      BY <1>4, <1>5, Upwards
    <2> USE DEF S
    <2>2. \A l \in 1..Levels : l \in 0..Levels /\ l # 0 /\ l <= Levels
      BY <1>1
    <2> QED BY <2>1, <2>2
  <1>7. ASSUME NEW l \in 1..Levels, l # 1 PROVE Units(l) = Lens[l - 1] * Units(l - 1)
    <2>1. l \in 2..Levels /\ l - 1 \in 1..Levels
      BY <1>1, <1>7
    <2> QED BY <1>3, <1>6, <2>1
  <1> QED BY <1>2, <1>6, <1>7

\* The equation by which Early is defined.
LEMMA EarlyIs ==
    \A l \in 1..Levels : /\ Early[l] \in Nat
                         /\ Early[l] = IF l = 1 THEN 0 ELSE Early[l - 1] + Units(l)
  <1> DEFINE Is(g, n) == \A l \in 1..n : /\ g[l] \in Nat
                                         /\ g[l] = IF l = 1 THEN 0 ELSE g[l - 1] + Units(l)
             S == {n \in Nat : n <= Levels => \E g : Is(g, n)}
  <1>1. Levels \in Nat \ {0} /\ \A l \in 1..Levels : Units(l) \in Nat
    BY WheelsIs, UnitsAre
  <1>2. 0 \in S
    OBVIOUS
  <1>3. ASSUME NEW n \in 0..(Levels - 1), n \in S PROVE n + 1 \in S
    <2>1. PICK g : Is(g, n)
      BY <1>1, <1>3
    <2>2. n \in Nat /\ n + 1 \in Nat /\ n + 1 \in 1..Levels
      BY <1>1
    <2>3. PICK x : x = IF n = 0 THEN 0 ELSE g[n] + Units(n + 1)
      OBVIOUS
    <2>4. x \in Nat
      <3>1. n # 0 => g[n] \in Nat
        BY <2>1, <2>2
      <3> QED BY <1>1, <2>2, <2>3, <3>1
    <2>5. PICK h : h = [l \in 1..(n + 1) |-> IF l = n + 1 THEN x ELSE g[l]]
      OBVIOUS
    <2>6. h[n + 1] = x /\ \A l \in 1..n : h[l] = g[l]
      BY <2>2, <2>5
    <2>7. Is(h, n + 1)
      <3> SUFFICES ASSUME NEW l \in 1..(n + 1)
                   PROVE  h[l] \in Nat /\ h[l] = IF l = 1 THEN 0 ELSE h[l - 1] + Units(l)
        OBVIOUS
      <3>1. CASE l = n + 1
        <4>1. n # 0 => h[n] = g[n]
          BY <2>2, <2>6
        <4> QED BY <2>2, <2>3, <2>4, <2>6, <3>1, <4>1
      <3>2. CASE l # n + 1
        <4>1. l \in 1..n /\ (l # 1 => l - 1 \in 1..n)
          BY <2>2, <3>2
        <4> QED BY <2>1, <2>6, <4>1
      <3> QED BY <3>1, <3>2
    <2> HIDE DEF Is
    <2> QED BY <2>2, <2>7
  <1>4. \E g : Is(g, Levels)
    <2> HIDE DEF S
    <2>1. 0..Levels \subseteq S
      BY <1>2, <1>3, Upwards
    <2> USE DEF S
    <2> HIDE DEF Is
    <2> QED BY <1>1, <2>1
  <1>5. PICK g : Is(g, Levels)
    BY <1>4
  <1>6. PICK f : f = [l \in 1..Levels |-> g[l]]
    OBVIOUS
  <1>7. f = [l \in 1..Levels |-> IF l = 1 THEN 0 ELSE f[l - 1] + Units(l)]
    BY <1>1, <1>5, <1>6
  <1>8. Early = [l \in 1..Levels |-> IF l = 1 THEN 0 ELSE Early[l - 1] + Units(l)]
    BY <1>7 DEF Early, Units
  <1>9. \A l \in 1..Levels : Early[l] = IF l = 1 THEN 0 ELSE Early[l - 1] + Units(l)
    BY <1>8
  <1> DEFINE U == {n \in Nat : n # 0 /\ n <= Levels => Early[n] \in Nat}
  <1>10. ASSUME NEW n \in 0..(Levels - 1), n \in U PROVE n + 1 \in U
    <2>1. n \in Nat /\ n + 1 \in Nat /\ n + 1 \in 1..Levels
      BY <1>1
    <2>2. Early[n + 1] = IF n = 0 THEN 0 ELSE Early[n] + Units(n + 1)
      BY <1>9, <2>1
    <2> QED BY <1>1, <1>10, <2>1, <2>2
  <1>11. 0..Levels \subseteq U
    <2>1. 0 \in U
      OBVIOUS
    <2> HIDE DEF U
    <2> QED BY <1>10, <2>1, Upwards
  <1>12. \A l \in 1..Levels : Early[l] \in Nat
    <2>1. \A l \in 1..Levels : l \in 0..Levels /\ l # 0 /\ l <= Levels
      BY <1>1
    <2> QED BY <1>11, <2>1
  <1> QED BY <1>9, <1>12

LEMMA AheadIs ==
    ASSUME NEW e \in [1..Levels -> Int]
    PROVE  IsAhead(e, Ahead(e))
  <1> DEFINE Is(g, n) == /\ \A l \in 1..n : g[l] \in Int
                         /\ n # 0 => g[1] = 0
                         /\ \A l \in 2..n :
                               g[l] = g[l - 1] + (Lens[l - 1] - e[l - 1]) * Units(l - 1)
             S == {n \in Nat : n <= Levels => \E g : Is(g, n)}
  <1>1. /\ Levels \in Nat \ {0} /\ \A l \in 1..Levels : Units(l) \in Nat /\ Lens[l] \in Nat
    BY WheelsIs, UnitsAre
  <1>2. 0 \in S
    OBVIOUS
  <1>3. ASSUME NEW n \in 0..(Levels - 1), n \in S PROVE n + 1 \in S
    <2>1. PICK g : Is(g, n)
      BY <1>1, <1>3
    <2>2. n \in Nat /\ n + 1 \in Nat
      BY <1>1
    <2>3. PICK x : x = IF n = 0 THEN 0 ELSE g[n] + (Lens[n] - e[n]) * Units(n)
      OBVIOUS
    <2>4. x \in Int
      <3>1. CASE n = 0
        BY <2>3, <3>1
      <3>2. CASE n # 0
        <4>1. n \in 1..Levels /\ g[n] \in Int
          BY <1>1, <2>1, <2>2, <3>2
        <4>2. Lens[n] - e[n] \in Int /\ Units(n) \in Int
          BY <1>1, <4>1
        <4>3. (Lens[n] - e[n]) * Units(n) \in Int
          BY <4>2, Distribute
        <4> QED BY <2>3, <3>2, <4>1, <4>3
      <3> QED BY <3>1, <3>2
    <2>5. PICK h : h = [l \in 1..(n + 1) |-> IF l = n + 1 THEN x ELSE g[l]]
      OBVIOUS
    <2>6. h[n + 1] = x /\ \A l \in 1..n : h[l] = g[l]
      BY <2>2, <2>5
    <2>7. \A l \in 1..(n + 1) : h[l] \in Int
      BY <2>1, <2>2, <2>4, <2>6
    <2>8. h[1] = 0
      BY <2>1, <2>2, <2>3, <2>6
    <2>9. ASSUME NEW l \in 2..(n + 1)
          PROVE  h[l] = h[l - 1] + (Lens[l - 1] - e[l - 1]) * Units(l - 1)
      <3>1. h[l - 1] = g[l - 1] /\ l - 1 \in 1..n
        BY <2>2, <2>6
      <3>2. CASE l = n + 1
        BY <2>2, <2>3, <2>6, <3>1, <3>2
      <3>3. CASE l # n + 1
        BY <2>1, <2>2, <2>6, <3>1, <3>3
      <3> QED BY <3>2, <3>3
    <2>10. Is(h, n + 1)
      BY <2>7, <2>8, <2>9
    <2> HIDE DEF Is
    <2> QED BY <2>2, <2>10
  <1>4. \E g : Is(g, Levels)
    <2> HIDE DEF S
    <2>1. 0..Levels \subseteq S
      BY <1>2, <1>3, Upwards
    <2> USE DEF S
    <2> HIDE DEF Is
    <2> QED BY <1>1, <2>1
  <1>5. PICK g : Is(g, Levels)
    BY <1>4
  <1>6. PICK f : f = [l \in 1..Levels |-> g[l]]
    OBVIOUS
  <1>7. IsAhead(e, f)
    BY <1>1, <1>5, <1>6 DEF IsAhead
  <1> QED BY <1>7 DEF Ahead

\* From a wheel on above which two positions are the same, they differ as they do there.
LEMMA AheadShift ==
    ASSUME NEW e \in [1..Levels -> Int], NEW g \in [1..Levels -> Int], NEW k \in 1..Levels,
           NEW d \in Int, Ahead(g)[k] = Ahead(e)[k] + d,
           \A j \in k..(Levels - 1) : g[j] = e[j]
    PROVE  \A l \in k..Levels : Ahead(g)[l] = Ahead(e)[l] + d
  <1> DEFINE S == {n \in Nat : n >= k => Ahead(g)[n] = Ahead(e)[n] + d}
  <1>1. /\ Levels \in Nat \ {0} /\ \A l \in 1..Levels : Units(l) \in Nat /\ Lens[l] \in Nat
    BY WheelsIs, UnitsAre
  <1>2. k \in Nat /\ k # 0
    BY <1>1
  <1>3. IsAhead(e, Ahead(e)) /\ IsAhead(g, Ahead(g))
    BY AheadIs
  <1>4. 0 \in S
    BY <1>2
  <1>5. ASSUME NEW n \in 0..(Levels - 1), n \in S PROVE n + 1 \in S
    <2>1. n \in Nat /\ n + 1 \in Nat
      BY <1>1
    <2>2. CASE n + 1 < k
      BY <1>2, <2>1, <2>2
    <2>3. CASE n + 1 = k
      BY <2>1, <2>3
    <2>4. CASE n + 1 > k
      <3>1. PICK m : m = n + 1
        OBVIOUS
      <3>2. m \in 2..Levels /\ m - 1 = n /\ n \in 1..Levels /\ n \in k..(Levels - 1)
        BY <1>2, <1>1, <2>1, <2>4, <3>1
      <3>3. /\ Ahead(e)[m] = Ahead(e)[n] + (Lens[n] - e[n]) * Units(n)
            /\ Ahead(g)[m] = Ahead(g)[n] + (Lens[n] - g[n]) * Units(n)
            /\ Ahead(e)[n] \in Int /\ Ahead(e)[m] \in Int
        <4>1. /\ Ahead(e) \in [1..Levels -> Int]
              /\ Ahead(e)[m] = Ahead(e)[m - 1] + (Lens[m - 1] - e[m - 1]) * Units(m - 1)
          BY <1>3, <3>2 DEF IsAhead
        <4>2. Ahead(g)[m] = Ahead(g)[m - 1] + (Lens[m - 1] - g[m - 1]) * Units(m - 1)
          BY <1>3, <3>2 DEF IsAhead
        <4> QED BY <3>2, <4>1, <4>2
      <3>4. g[n] = e[n] /\ Ahead(g)[n] = Ahead(e)[n] + d
        BY <1>2, <1>1, <1>5, <2>1, <3>2
      <3>5. PICK y : y = (Lens[n] - e[n]) * Units(n)
        OBVIOUS
      <3>6. y \in Int
        BY <1>1, <3>2, <3>5, Distribute
      <3>7. Ahead(g)[m] = Ahead(e)[m] + d
        BY <3>3, <3>4, <3>5, <3>6
      <3> QED BY <2>1, <3>1, <3>7
    <2> QED BY <1>2, <2>1, <2>2, <2>3, <2>4
  <1>6. 0..Levels \subseteq S
    <2> HIDE DEF S
    <2> QED BY <1>4, <1>5, Upwards
  <1>7. \A l \in k..Levels : l \in 0..Levels /\ l >= k
    BY <1>2
  <1> QED BY <1>6, <1>7

\* No step is ahead of a wheel if those below have come round.
LEMMA AheadZero ==
    ASSUME NEW e \in [1..Levels -> Int], NEW k \in 1..Levels, \A j \in 1..(k - 1) : e[j] = Lens[j]
    PROVE  \A l \in 1..k : Ahead(e)[l] = 0
  <1> DEFINE S == {n \in Nat : n # 0 /\ n <= k => Ahead(e)[n] = 0}
  <1>1. /\ Levels \in Nat \ {0} /\ \A l \in 1..Levels : Units(l) \in Nat /\ Lens[l] \in Nat
        /\ k \in Nat /\ k # 0
    BY WheelsIs, UnitsAre
  <1>2. IsAhead(e, Ahead(e))
    BY AheadIs
  <1>3. 0 \in S
    OBVIOUS
  <1>4. ASSUME NEW n \in 0..(Levels - 1), n \in S PROVE n + 1 \in S
    <2>1. n \in Nat /\ n + 1 \in Nat
      BY <1>1
    <2>2. CASE n = 0
      BY <1>2, <2>1, <2>2 DEF IsAhead
    <2>3. CASE n # 0 /\ n + 1 <= k
      <3>1. PICK m : m = n + 1
        OBVIOUS
      <3>2. m \in 2..Levels /\ m - 1 = n /\ n \in 1..Levels /\ n \in 1..(k - 1)
        BY <1>1, <2>1, <2>3, <3>1
      <3>3. Ahead(e)[m] = Ahead(e)[n] + (Lens[n] - e[n]) * Units(n)
        BY <1>1, <1>2, <3>2 DEF IsAhead
      <3>4. Ahead(e)[n] = 0 /\ Lens[n] - e[n] = 0
        BY <1>1, <1>4, <2>1, <2>3, <3>2
      <3>5. 0 * Units(n) = 0
        BY <1>1, <3>2
      <3>6. Ahead(e)[m] = 0
        BY <3>3, <3>4, <3>5
      <3> QED BY <2>1, <3>1, <3>6
    <2>4. CASE ~(n + 1 <= k)
      BY <2>1, <2>4
    <2> QED BY <2>2, <2>3, <2>4
  <1>5. 0..Levels \subseteq S
    <2> HIDE DEF S
    <2> QED BY <1>3, <1>4, Upwards
  <1>6. \A l \in 1..k : l \in 0..Levels /\ l # 0 /\ l <= k
    BY <1>1
  <1> QED BY <1>5, <1>6

\* Steps are ahead, never behind.
LEMMA AheadNat ==
    ASSUME NEW e \in [1..Levels -> Int], \A j \in 1..Levels : e[j] <= Lens[j]
    PROVE  \A l \in 1..Levels : Ahead(e)[l] \in Nat
  <1> DEFINE S == {n \in Nat : n # 0 => Ahead(e)[n] \in Nat}
  <1>1. /\ Levels \in Nat \ {0} /\ \A l \in 1..Levels : Units(l) \in Nat \ {0} /\ Lens[l] \in Nat
    BY WheelsIs, UnitsAre
  <1>2. IsAhead(e, Ahead(e))
    BY AheadIs
  <1>3. 0 \in S
    OBVIOUS
  <1>4. ASSUME NEW n \in 0..(Levels - 1), n \in S PROVE n + 1 \in S
    <2>1. n \in Nat /\ n + 1 \in Nat
      BY <1>1
    <2>2. CASE n = 0
      BY <1>2, <2>1, <2>2 DEF IsAhead
    <2>3. CASE n # 0
      <3>1. PICK m : m = n + 1
        OBVIOUS
      <3>2. m \in 2..Levels /\ m - 1 = n /\ n \in 1..Levels
        BY <1>1, <2>1, <2>3, <3>1
      <3>3. Ahead(e)[m] = Ahead(e)[n] + (Lens[n] - e[n]) * Units(n)
        BY <1>1, <1>2, <3>2 DEF IsAhead
      <3>4. Lens[n] - e[n] \in Nat /\ Ahead(e)[n] \in Nat
        BY <1>1, <1>4, <2>1, <2>3, <3>2
      <3>5. (Lens[n] - e[n]) * Units(n) \in Nat
        BY <1>1, <3>2, <3>4, Monotone
      <3>6. Ahead(e)[m] \in Nat
        BY <3>3, <3>4, <3>5
      <3> QED BY <2>1, <3>1, <3>6
    <2> QED BY <2>2, <2>3
  <1>5. 0..Levels \subseteq S
    <2> HIDE DEF S
    <2> QED BY <1>3, <1>4, Upwards
  <1>6. \A l \in 1..Levels : l \in 0..Levels /\ l # 0
    BY <1>1
  <1> QED BY <1>5, <1>6

-----------------------------------------------------------------------------
(* Where SeatFrom puts a timer, however many wheels it is passed on.       *)

LEMMA RemainderIs ==
    ASSUME NEW n \in Nat, NEW d \in Nat \ {0}, n < d + d
    PROVE  n % d = IF n < d THEN n ELSE n - d
  BY Z3

LEMMA OneLess ==
    ASSUME NEW i \in Nat, NEW j \in Nat \ {0}, NEW k, k = IF i = 0 THEN 0 ELSE i - 1
    PROVE  k * j \in Nat /\ i * j \in Nat /\ i * j = IF i = 0 THEN k * j ELSE k * j + j
  <1>1. k \in Nat
    OBVIOUS
  <1>2. k * j \in Nat /\ i * j \in Nat
    BY <1>1, Monotone
  <1>3. CASE i = 0
    BY <1>2, <1>3
  <1>4. CASE i # 0
    <2>1. i = k + 1
      BY <1>4
    <2>2. (k + 1) * j = k * j + 1 * j /\ 1 * j = j
      BY <1>1, Distribute
    <2> QED BY <1>2, <1>4, <2>1, <2>2
  <1> QED BY <1>3, <1>4

\* A part that is a number of steps does not change what is left of a step.
LEMMA DivisionSplit ==
    ASSUME NEW i \in Nat, NEW r \in Nat
    PROVE  (i * Step + r) \div Step = i + r \div Step
  <1>1. Step \in Nat \ {0}
    BY WheelsIs
  <1>2. PICK q : q = r \div Step
    OBVIOUS
  <1>3. q \in Nat /\ q * Step <= r /\ r < q * Step + Step
    BY <1>1, <1>2, Division
  <1>4. (i + q) * Step = i * Step + q * Step /\ i * Step \in Nat /\ q * Step \in Nat
    BY <1>1, <1>3, Distribute, Monotone
  <1>5. PICK n, p, x, y : n = i * Step + r /\ p = i + q /\ x = i * Step /\ y = q * Step
    OBVIOUS
  <1>6. n \in Nat /\ p \in Nat /\ p * Step <= n /\ n < p * Step + Step
    <2>1. p * Step = x + y /\ x \in Nat /\ y \in Nat /\ n = x + r /\ y <= r /\ r < y + Step
      BY <1>3, <1>4, <1>5
    <2> QED BY <1>1, <1>3, <1>5, <2>1
  <1>7. n \div Step = p
    BY <1>1, <1>6, DivisionIs
  <1> QED BY <1>2, <1>5, <1>7

\* The slot of a timer for which wheel l has room is the one before its offset.
LEMMA SeatIs ==
    ASSUME Turning, NEW l \in 1..Levels, NEW ms \in Nat, ms \div StepOf[l] < Lens[l]
    PROVE  \E o, s, r \in Nat :
              /\ Seat(l, ms) = [head |-> <<l, s>>, next |-> r]
              /\ s < Lens[l] /\ r < StepOf[l]
              /\ Rounds(l, s, cur[l]) = IF o = 0 THEN 0 ELSE o - 1
              /\ ms \div Step = o * Units(l) + r \div Step
  <1>1. PICK st : st = StepOf[l]
    OBVIOUS
  <1>2. PICK o : o = ms \div st
    OBVIOUS
  <1>3. PICK c, n : c = cur[l] /\ n = Lens[l]
    OBVIOUS
  <1>4. st \in Nat \ {0} /\ n \in Nat \ {0} /\ c \in 0..n
    BY <1>1, <1>3, StepOfIs, WheelsIs DEF Turning
  <1>5. o \in Nat /\ o * st \in Nat /\ o * st <= ms /\ ms < o * st + st /\ o < n
    BY <1>1, <1>2, <1>3, <1>4, Division, Monotone
  <1>6. PICK k : k = IF o = 0 THEN 0 ELSE o - 1
    OBVIOUS
  <1>7. PICK x : x = c + k
    OBVIOUS
  <1>8. PICK s, r : s = x % n /\ r = ms - o * st
    OBVIOUS
  <1>9. k \in Nat /\ k < n /\ x \in Nat /\ x < n + n
    BY <1>4, <1>5, <1>6, <1>7
  <1>10. s = IF x < n THEN x ELSE x - n
    BY <1>4, <1>8, <1>9, RemainderIs
  <1>11. s \in Nat /\ s < n /\ r \in Nat /\ r < st
    BY <1>4, <1>5, <1>8, <1>9, <1>10
  <1>12. Seat(l, ms) = [head |-> <<l, s>>, next |-> r]
    BY <1>1, <1>2, <1>3, <1>6, <1>7, <1>8 DEF Seat
  <1>13. Rounds(l, s, c) = k
    BY <1>3, <1>4, <1>7, <1>9, <1>10 DEF Rounds
  <1>14. ms \div Step = o * Units(l) + r \div Step
    <2>1. PICK u : u = Units(l)
      OBVIOUS
    <2>2. u \in Nat /\ st = u * Step /\ Step \in Nat \ {0}
      BY <1>1, <2>1, UnitsAre, WheelsIs
    <2>3. o * st = (o * u) * Step /\ o * u \in Nat
      BY <1>5, <2>2, Distribute, Product
    <2>4. ms = (o * u) * Step + r
      BY <1>5, <1>8, <1>11, <2>3
    <2>5. (((o * u) * Step) + r) \div Step = o * u + r \div Step
      BY <1>11, <2>3, DivisionSplit
    <2> QED BY <2>1, <2>4, <2>5
  <1>15. Rounds(l, s, cur[l]) = IF o = 0 THEN 0 ELSE o - 1
    BY <1>3, <1>6, <1>13
  <1> QED BY <1>1, <1>3, <1>5, <1>11, <1>12, <1>14, <1>15

\* A timer with t to go that wheel l is given has x to go in wheel w, which has room.
PassedTo(l, t, w, x) ==
    /\ SeatFrom[l][t] = Seat(w, x)
    /\ x \div StepOf[w] < Lens[w]
    /\ t = x + (Ahead(cur)[w] - Ahead(cur)[l]) * Step
    /\ w = l \/ ~(t \div StepOf[l] < Lens[l])

\* However many wheels pass it on, a timer that is not too long comes to one with room.
LEMMA SeatFromWhere ==
    ASSUME cur \in [1..Levels -> Int], Turning, NEW k \in 1..Levels, NEW t \in Nat, t < Reach
    PROVE  \E w \in k..Levels : \E x \in Nat : PassedTo(k, t, w, x)
  <1> DEFINE Good(l) == \A ms \in Nat : ms < Reach =>
                           \E w \in l..Levels : \E x \in Nat : PassedTo(l, ms, w, x)
             S == {n \in Nat : \A l \in 1..Levels : l > Levels - n => Good(l)}
  <1>1. ASSUME NEW l \in 1..Levels, l < Levels => Good(l + 1) PROVE Good(l)
    <2> SUFFICES ASSUME NEW ms \in Nat, ms < Reach
                 PROVE  \E w \in l..Levels : \E x \in Nat : PassedTo(l, ms, w, x)
      OBVIOUS
    <2>1. PICK st, n, q : st = StepOf[l] /\ n = Lens[l] /\ q = ms \div st
      OBVIOUS
    <2>2. st \in Nat \ {0} /\ n \in Nat \ {0} /\ cur[l] \in 0..n /\ Step \in Nat /\ Levels \in Nat
      BY <2>1, StepOfIs, WheelsIs DEF Turning
    <2>3. q \in Nat /\ q * st <= ms /\ ms < q * st + st
      BY <2>1, <2>2, Division
    <2>4. PICK A : A = Ahead(cur)
      OBVIOUS
    <2>5. A \in [1..Levels -> Int] /\ \A j \in 2..Levels :
             A[j] = A[j - 1] + (Lens[j - 1] - cur[j - 1]) * Units(j - 1)
      BY <2>4, AheadIs DEF IsAhead
    <2>6. SeatFrom[l] = Passed(l, SeatFrom[l + 1])
      BY SeatFromIs
    <2>7. CASE q < n
      <3>1. SeatFrom[l][ms] = Seat(l, ms)
        BY <2>1, <2>6, <2>7 DEF Passed
      <3>2. ms = ms + (A[l] - A[l]) * Step
        <4>1. A[l] - A[l] = 0 /\ 0 * Step = 0
          BY <2>2, <2>5
        <4> QED BY <4>1
      <3>3. PassedTo(l, ms, l, ms)
        BY <2>1, <2>4, <2>7, <3>1, <3>2 DEF PassedTo
      <3> QED BY <2>2, <3>3
    <2>8. CASE ~(q < n) /\ l < Levels
      <3>1. PICK m : m = n - cur[l]
        OBVIOUS
      <3>2. m \in Nat /\ m <= q
        BY <2>2, <2>3, <2>8, <3>1
      <3>3. PICK z : z = m * st
        OBVIOUS
      <3>4. z \in Nat /\ z <= q * st /\ q * st \in Nat
        BY <2>2, <2>3, <3>2, <3>3, Monotone
      <3>5. PICK y : y = ms - z
        OBVIOUS
      <3>6. y \in Nat /\ y <= ms
        BY <2>3, <3>4, <3>5
      <3>7. SeatFrom[l][ms] = SeatFrom[l + 1][y]
        BY <2>1, <2>6, <2>8, <3>1, <3>3, <3>5 DEF Passed
      <3>8. Reach \in Nat
        <4>1. StepOf[Levels] \in Nat \ {0} /\ Lens[Levels] \in Nat \ {0}
          BY StepOfIs, WheelsIs
        <4> QED BY <4>1, Product DEF Reach
      <3>9. y < Reach
        BY <3>6, <3>8
      <3>10. PICK w \in (l + 1)..Levels, x \in Nat : PassedTo(l + 1, y, w, x)
        BY <1>1, <2>8, <3>6, <3>9
      <3>11. ms = x + (A[w] - A[l]) * Step
        <4>1. PICK j : j = l + 1
          OBVIOUS
        <4>2. j \in 2..Levels /\ j - 1 = l /\ w \in 1..Levels /\ l \in 1..Levels /\ j \in 1..Levels
          BY <2>2, <2>8, <4>1
        <4>3. A[j] = A[l] + m * Units(l)
          BY <2>1, <2>5, <3>1, <4>2
        <4>4. PICK u, a, b, d : u = Units(l) /\ a = A[l] /\ b = A[w] /\ d = m * u
          OBVIOUS
        <4>5. u \in Nat /\ st = u * Step /\ a \in Int /\ b \in Int /\ d \in Int
          <5>1. u \in Nat /\ st = u * Step
            BY <2>1, <4>2, <4>4, UnitsAre
          <5>2. a \in Int /\ b \in Int
            BY <2>5, <4>2, <4>4
          <5>3. d \in Int
            BY <3>2, <4>4, <5>1, Distribute
          <5> QED BY <5>1, <5>2, <5>3
        <4>6. y = x + (b - (a + d)) * Step
          BY <2>4, <3>10, <4>1, <4>3, <4>4 DEF PassedTo
        <4>7. z = d * Step
          BY <2>2, <3>2, <3>3, <4>4, <4>5, Distribute
        <4>8. (b - (a + d)) * Step = b * Step - (a + d) * Step
          BY <2>2, <4>5, Distribute
        <4>9. (a + d) * Step = a * Step + d * Step /\ (b - a) * Step = b * Step - a * Step
          BY <2>2, <4>5, Distribute
        <4>10. a * Step \in Int /\ b * Step \in Int /\ d * Step \in Int
          BY <2>2, <4>5, Distribute
        <4>11. ms = x + (b - a) * Step
          <5>1. PICK i, e, f : i = a * Step /\ e = b * Step /\ f = d * Step
            OBVIOUS
          <5>2. i \in Int /\ e \in Int /\ f \in Int /\ z = f /\ y = x + (e - (i + f))
            BY <4>6, <4>7, <4>8, <4>9, <4>10, <5>1
          <5>3. (b - a) * Step = e - i
            BY <4>9, <5>1
          <5> QED BY <3>5, <5>2, <5>3
        <4> QED BY <4>4, <4>11
      <3>12. PassedTo(l, ms, w, x)
        <4>1. SeatFrom[l + 1][y] = Seat(w, x) /\ x \div StepOf[w] < Lens[w]
          BY <3>10 DEF PassedTo
        <4> QED BY <2>1, <2>4, <2>8, <3>7, <3>11, <4>1 DEF PassedTo
      <3>13. w \in l..Levels
        BY <2>2
      <3> QED BY <3>12, <3>13
    <2>9. CASE l = Levels
      <3>1. q * st < n * st /\ q * st \in Nat /\ n * st \in Nat
        <4>1. Reach = n * st
          BY <2>1, <2>2, <2>9, Monotone DEF Reach
        <4>2. q * st \in Nat /\ n * st \in Nat
          BY <2>2, <2>3, Monotone
        <4> QED BY <2>3, <4>1, <4>2
      <3>2. q < n
        <4>1. SUFFICES ASSUME n <= q PROVE FALSE
          BY <2>2, <2>3
        <4>2. n * st <= q * st
          BY <2>2, <2>3, <4>1, Monotone
        <4> QED BY <3>1, <4>2
      <3> QED BY <2>7, <3>2
    <2> QED BY <2>2, <2>7, <2>8, <2>9
  <1>2. 0 \in S
    BY WheelsIs
  <1>3. ASSUME NEW n \in 0..(Levels - 1), n \in S PROVE n + 1 \in S
    <2>1. n \in Nat /\ n + 1 \in Nat /\ Levels \in Nat
      BY WheelsIs
    <2>2. ASSUME NEW l \in 1..Levels, l > Levels - (n + 1) PROVE Good(l)
      <3>1. ASSUME l < Levels PROVE Good(l + 1)
        <4>1. l + 1 \in 1..Levels /\ l + 1 > Levels - n
          BY <2>1, <2>2, <3>1
        <4> HIDE DEF Good
        <4> QED BY <1>3, <4>1
      <3> HIDE DEF Good
      <3> QED BY <1>1, <3>1
    <2> HIDE DEF Good
    <2> QED BY <2>1, <2>2
  <1>4. Levels \in S
    <2> HIDE DEF S
    <2>1. 0..Levels \subseteq S
      BY <1>2, <1>3, Upwards
    <2> QED BY <2>1, WheelsIs
  <1> HIDE DEF Good
  <1>5. Good(k)
    BY <1>4, WheelsIs
  <1> USE DEF Good
  <1> QED BY <1>5

LEMMA SeatFromGood ==
    ASSUME cur \in [1..Levels -> Int], Turning, NEW k \in 1..Levels, NEW t \in Nat, t < Reach
    PROVE  GoodSeat(SeatFrom[k][t])
  <1>1. PICK w \in k..Levels, x \in Nat : PassedTo(k, t, w, x)
    BY SeatFromWhere
  <1>2. w \in 1..Levels
    BY WheelsIs
  <1> QED BY <1>1, <1>2, SeatIsGood DEF PassedTo

-----------------------------------------------------------------------------
(* A timer fits where it is put, and stays where it fits.                  *)

\* Between two steps every wheel is where it is seen to be.
LEMMA PositionAtRest ==
    ASSUME cur \in [1..Levels -> Int], Turns = 0
    PROVE  Position = cur
  <1>1. \A l \in 1..Levels : ~(l < 0)
    BY WheelsIs
  <1>2. Position = [l \in 1..Levels |-> cur[l]]
    BY <1>1 DEF Position
  <1> QED BY <1>2

\* The timer id, with ms to go, is put in a slot between two steps or from a callback.
Added(id, ms, seat) ==
    /\ seat = SeatFrom[1][ms] /\ cur' = cur /\ Turns' = 0
    /\ data'[id].next = seat.next /\ top'[id] = seat.head[1]
    /\ due'[id] = IF ms < Step THEN 1 ELSE ms \div Step

\* What is due of a timer that is put in the first wheel, or in one above it, is when
\* that slot is submitted, or early by a step of that wheel at most.
LEMMA FitsAdded ==
    ASSUME cur \in [1..Levels -> Int], Turning, NEW id \in Ids, NEW ms \in Nat, ms < Reach,
           NEW seat, Added(id, ms, seat)
    PROVE  Fits(id, seat.head)'
  <1>1. /\ seat = SeatFrom[1][ms] /\ cur' = cur /\ Turns' = 0
        /\ data'[id].next = seat.next /\ top'[id] = seat.head[1]
        /\ due'[id] = IF ms < Step THEN 1 ELSE ms \div Step
    BY DEF Added
  <1>2. 1 \in 1..Levels /\ Step \in Nat \ {0} /\ Levels \in Nat
    BY WheelsIs
  <1>3. PICK w \in 1..Levels, x \in Nat : PassedTo(1, ms, w, x)
    BY <1>2, SeatFromWhere
  <1>4. PICK o, s, r \in Nat :
           /\ Seat(w, x) = [head |-> <<w, s>>, next |-> r]
           /\ s < Lens[w] /\ r < StepOf[w]
           /\ Rounds(w, s, cur[w]) = IF o = 0 THEN 0 ELSE o - 1
           /\ x \div Step = o * Units(w) + r \div Step
    BY <1>3, SeatIs DEF PassedTo
  <1>5. seat.head = <<w, s>> /\ seat.next = r /\ seat.head[1] = w /\ seat.head[2] = s
    BY <1>1, <1>3, <1>4 DEF PassedTo
  <1>6. <<w, s>> \in Heads
    BY <1>4, HeadsAre, WheelsIs
  <1>7. PICK A, a, u, k, y, d : /\ A = Ahead(cur) /\ a = A[w] /\ u = Units(w)
                                /\ k = (IF o = 0 THEN 0 ELSE o - 1)
                                /\ y = r \div Step /\ d = ms \div Step
    OBVIOUS
  <1>8. A[1] = 0 /\ a \in Nat /\ u \in Nat \ {0} /\ k \in Nat /\ y \in Nat /\ d \in Nat
    <2>1. A[1] = 0
      BY <1>7, AheadIs DEF IsAhead
    <2>2. a \in Nat
      <3>1. \A j \in 1..Levels : cur[j] <= Lens[j]
        BY WheelsIs DEF Turning
      <3> QED BY <1>3, <1>7, <3>1, AheadNat
    <2>3. u \in Nat \ {0}
      BY <1>3, <1>7, UnitsAre
    <2>4. y \in Nat /\ d \in Nat
      BY <1>2, <1>4, <1>7, Division
    <2> QED BY <1>4, <1>7, <2>1, <2>2, <2>3, <2>4
  <1>9. PICK e, f : e = k * u /\ f = o * u
    OBVIOUS
  <1>10. e \in Nat /\ f \in Nat /\ f = IF o = 0 THEN e ELSE e + u
    <2>1. e \in Nat /\ f \in Nat
      BY <1>4, <1>7, <1>8, <1>9, Monotone
    <2>2. u \in Nat \ {0} /\ k = IF o = 0 THEN 0 ELSE o - 1
      BY <1>4, <1>7, <1>8, <1>9
    <2>3. o * u = IF o = 0 THEN k * u ELSE k * u + u
      BY <2>2, OneLess
    <2> QED BY <1>4, <1>7, <1>8, <1>9, <2>1, <2>3
  <1>11. d = a + f + y
    <2>1. ms = x + (a - 0) * Step
      BY <1>3, <1>7, <1>8 DEF PassedTo
    <2>2. a * Step \in Nat /\ a - 0 = a
      BY <1>2, <1>8, Monotone
    <2>3. ms = a * Step + x
      BY <2>1, <2>2
    <2>4. (a * Step + x) \div Step = a + x \div Step
      BY <1>8, DivisionSplit
    <2>5. PICK v : v = x \div Step
      OBVIOUS
    <2>6. d = a + v
      BY <1>7, <2>3, <2>4, <2>5
    <2>7. v = f + y
      BY <1>4, <1>7, <1>9, <2>5
    <2> QED BY <1>8, <1>10, <2>6, <2>7
  <1>12. Wait(<<w, s>>)' = a + e + 1
    <2>1. Position' = cur
      <3>1. Position' = cur'
        <4>1. \A l \in 1..Levels : ~(l < 0)
          BY WheelsIs
        <4>2. Position' = [l \in 1..Levels |-> cur'[l]]
          BY <1>1, <4>1 DEF Position
        <4> QED BY <1>1, <4>2
      <3> QED BY <1>1, <3>1
    <2> QED BY <1>1, <1>4, <1>7, <1>9, <2>1 DEF Wait
  <1>13. d = 0 <=> ms < Step
    <2>1. ms < Step => d = 0
      <3>1. 0 * Step <= ms /\ 0 * Step + Step = Step
        BY <1>2
      <3> QED BY <1>2, <1>7, <3>1, DivisionIs
    <2>2. d = 0 => ms < Step
      <3>1. ms < d * Step + Step
        BY <1>2, <1>7, Division
      <3>2. 0 * Step + Step = Step
        BY <1>2
      <3> QED BY <3>1, <3>2
    <2> QED BY <2>1, <2>2
  <1>14. InTime(id, w, due[id] - Wait(<<w, s>>) - data[id].next \div Step)'
    <2>1. due'[id] = (IF d = 0 THEN 1 ELSE d) /\ top'[id] = w /\ data'[id].next \div Step = y
      BY <1>1, <1>4, <1>5, <1>7, <1>13
    <2>2. CASE w = 1
      <3>1. u = 1 /\ a = 0
        BY <1>7, <1>8, <2>2, UnitsAre
      <3>2. y = 0
        <4>1. StepOf[1] = Step
          BY <1>2, StepOfIs
        <4>2. r < Step /\ 0 * Step <= r /\ 0 * Step + Step = Step
          BY <1>2, <1>4, <2>2, <4>1
        <4> QED BY <1>2, <1>4, <1>7, <4>2, DivisionIs
      <3>3. d = o /\ e = k
        BY <1>4, <1>7, <1>8, <1>9, <1>11, <3>1, <3>2
      <3>4. due'[id] - Wait(<<w, s>>)' - y = 0
        <4>1. PICK v, z : v = Wait(<<w, s>>)' /\ z = due'[id]
          OBVIOUS
        <4>2. v = k + 1
          BY <1>8, <1>12, <3>1, <3>3, <4>1
        <4>3. z = k + 1
          BY <1>7, <1>4, <2>1, <3>3, <4>1
        <4> QED BY <1>8, <3>2, <4>1, <4>2, <4>3
      <3> QED BY <2>1, <2>2, <3>4 DEF InTime
    <2>3. CASE w # 1
      <3>1. d # 0
        <4>1. StepOf[1] = Step /\ Lens[1] \in Nat \ {0}
          BY <1>2, StepOfIs, WheelsIs
        <4>2. ~(d < Lens[1])
          BY <1>3, <1>7, <2>3, <4>1 DEF PassedTo
        <4> QED BY <4>1, <4>2
      <3>2. PICK z : z = due'[id] - Wait(<<w, s>>)' - y
        OBVIOUS
      <3>3. z = IF o = 0 THEN -1 ELSE u - 1
        <4>1. PICK v : v = Wait(<<w, s>>)'
          OBVIOUS
        <4>2. v = a + e + 1 /\ z = d - v - y
          BY <1>12, <2>1, <3>1, <3>2, <4>1
        <4>3. z = f - e - 1
          BY <1>8, <1>10, <1>11, <4>2
        <4> QED BY <1>8, <1>10, <4>3
      <3>4. Early[w] - Below(w) = u - 1
        <4>1. Early[w] = Early[w - 1] + u /\ Early[w - 1] \in Nat
          <5>1. w - 1 \in 1..Levels
            BY <1>2, <2>3
          <5> QED BY <1>7, <2>3, <5>1, EarlyIs
        <4> QED BY <1>8, <2>3, <4>1 DEF Below
      <3>5. -1 <= z /\ z <= Early[w] - Below(w)
        BY <1>8, <3>3, <3>4
      <3> QED BY <2>1, <2>3, <3>2, <3>5 DEF InTime
    <2> QED BY <2>2, <2>3
  <1>15. Fits(id, <<w, s>>)'
    <2>1. data'[id].next < Span(<<w, s>>)'
      BY <1>1, <1>4, <1>5, <1>6 DEF Span
    <2>2. <<w, s>>[1] = w
      OBVIOUS
    <2> QED BY <1>6, <1>14, <2>1, <2>2 DEF Fits
  <1> QED BY <1>5, <1>15

\* The timer id, with ms to go, comes down from wheel m to wheel l.
Cascaded(id, ms, l, m, seat) ==
    /\ InTime(id, m, due[id] - ms \div Step)
    /\ seat = SeatFrom[l][ms] /\ cur' = cur /\ Turns' = l
    /\ data'[id].next = seat.next /\ due'[id] = due[id] /\ top'[id] = top[id]

\* A timer that comes down a wheel is put where it is no earlier than a step of the wheel
\* that it comes to.
LEMMA FitsCascaded ==
    ASSUME cur \in [1..Levels -> Int], Turning, NEW l \in 1..Levels, NEW m \in 1..Levels,
           m = l + 1, cur[l] = 0, NEW id \in Ids, NEW ms \in Nat, ms < StepOf[m],
           due[id] \in Int, top[id] \in 1..Levels, NEW seat, Cascaded(id, ms, l, m, seat)
    PROVE  Fits(id, seat.head)'
  <1>1. /\ InTime(id, m, due[id] - ms \div Step)
        /\ seat = SeatFrom[l][ms] /\ cur' = cur /\ Turns' = l
        /\ data'[id].next = seat.next /\ due'[id] = due[id] /\ top'[id] = top[id]
    BY DEF Cascaded
  <1>2. Step \in Nat \ {0} /\ Levels \in Nat /\ l \in Nat /\ m # 1 /\ l = m - 1
    <2>1. Step \in Nat \ {0} /\ Levels \in Nat
      BY WheelsIs
    <2> QED BY <2>1
  <1>3. PICK st, n : st = StepOf[l] /\ n = Lens[l]
    OBVIOUS
  <1>4. st \in Nat \ {0} /\ n \in Nat \ {0} /\ StepOf[m] = n * st
    <2>1. StepOf[m] = st * n /\ st \in Nat \ {0} /\ n \in Nat \ {0}
      <3>1. StepOf[m] = StepOf[m - 1] * Lens[m - 1]
        BY <1>2, StepOfIs
      <3> QED BY <1>2, <1>3, <3>1, StepOfIs, WheelsIs
    <2> QED BY <2>1, Monotone
  <1>5. ms \div st < n
    <2>1. PICK q : q = ms \div st
      OBVIOUS
    <2>2. q \in Nat /\ q * st <= ms
      BY <1>4, <2>1, Division
    <2>3. SUFFICES ASSUME n <= q PROVE FALSE
      BY <1>4, <2>1, <2>2
    <2>4. n * st <= q * st /\ n * st \in Nat /\ q * st \in Nat
      BY <1>4, <2>2, <2>3, Monotone
    <2> QED BY <1>4, <2>2, <2>4
  <1>6. seat = Seat(l, ms)
    <2>1. SeatFrom[l] = Passed(l, SeatFrom[l + 1])
      BY SeatFromIs
    <2> QED BY <1>1, <1>3, <1>5, <2>1 DEF Passed
  <1>7. PICK o, s, r \in Nat :
           /\ Seat(l, ms) = [head |-> <<l, s>>, next |-> r]
           /\ s < Lens[l] /\ r < StepOf[l]
           /\ Rounds(l, s, cur[l]) = IF o = 0 THEN 0 ELSE o - 1
           /\ ms \div Step = o * Units(l) + r \div Step
    BY <1>3, <1>5, SeatIs
  <1>8. seat.head = <<l, s>> /\ seat.next = r
    BY <1>6, <1>7
  <1>9. <<l, s>> \in Heads
    BY <1>7, HeadsAre, WheelsIs
  <1>10. PICK u, k, y, d : /\ u = Units(l) /\ k = (IF o = 0 THEN 0 ELSE o - 1)
                          /\ y = r \div Step /\ d = ms \div Step
    OBVIOUS
  <1>11. u \in Nat \ {0} /\ k \in Nat /\ y \in Nat /\ d \in Nat
    <2>1. u \in Nat \ {0}
      BY <1>10, UnitsAre
    <2>2. y \in Nat /\ d \in Nat
      BY <1>2, <1>7, <1>10, Division
    <2> QED BY <1>7, <1>10, <2>1, <2>2
  <1>12. PICK e, f : e = k * u /\ f = o * u
    OBVIOUS
  <1>13. e \in Nat /\ f \in Nat /\ f = IF o = 0 THEN e ELSE e + u
    <2>1. e \in Nat /\ f \in Nat
      BY <1>7, <1>10, <1>11, <1>12, Monotone
    <2>2. u \in Nat \ {0} /\ k = IF o = 0 THEN 0 ELSE o - 1
      BY <1>7, <1>10, <1>11, <1>12
    <2>3. o * u = IF o = 0 THEN k * u ELSE k * u + u
      BY <2>2, OneLess
    <2> QED BY <1>7, <1>10, <1>11, <1>12, <2>1, <2>3
  <1>14. Wait(<<l, s>>)' = e
    <2>1. PICK g : g = Position'
      OBVIOUS
    <2>2. g = [j \in 1..Levels |-> IF j < l THEN Lens[j] ELSE cur[j]]
      BY <1>1, <2>1 DEF Position
    <2>3. g \in [1..Levels -> Int] /\ \A j \in 1..(l - 1) : g[j] = Lens[j]
      BY <1>2, <2>2, WheelsIs
    <2>4. Ahead(g)[l] = 0
      <3>1. \A j \in 1..l : Ahead(g)[j] = 0
        BY <2>3, AheadZero
      <3> QED BY <1>2, <3>1
    <2>5. Turns' # 0 /\ <<l, s>>[1] = l /\ <<l, s>>[2] = s
      BY <1>1, <1>2
    <2>6. Wait(<<l, s>>)' = Ahead(g)[l] + Rounds(l, s, cur[l]) * Units(l) + 0
      BY <1>1, <2>1, <2>5 DEF Wait
    <2>7. Rounds(l, s, cur[l]) * Units(l) = e
      BY <1>7, <1>10, <1>12
    <2> QED BY <1>13, <2>4, <2>6, <2>7
  <1>15. InTime(id, l, due[id] - Wait(<<l, s>>) - data[id].next \div Step)'
    <2>1. due'[id] = due[id] /\ top'[id] = top[id] /\ data'[id].next \div Step = y /\ d = f + y
      BY <1>1, <1>7, <1>8, <1>10, <1>12
    <2>2. top[id] # 1 /\ -1 <= due[id] - d /\ due[id] - d <= Early[top[id]] - Below(m)
      BY <1>1, <1>2, <1>10 DEF InTime
    <2>3. Below(m) = Below(l) + u /\ Below(l) \in Int
      <3>1. /\ Early[l] \in Nat /\ Below(m) = Early[l] + 1
            /\ Early[l] = IF l = 1 THEN 0 ELSE Early[l - 1] + u
        BY <1>2, <1>10, EarlyIs DEF Below
      <3>2. l = 1 => u = 1
        BY <1>10, UnitsAre
      <3>3. l # 1 => Early[l - 1] \in Nat
        <4>1. l # 1 => l - 1 \in 1..Levels
          BY WheelsIs
        <4> QED BY <4>1, EarlyIs
      <3> QED BY <1>11, <3>1, <3>2, <3>3 DEF Below
    <2>4. PICK z : z = due'[id] - Wait(<<l, s>>)' - y
      OBVIOUS
    <2>5. z = IF o = 0 THEN due[id] - d ELSE (due[id] - d) + u
      <3>1. PICK v, b : v = Wait(<<l, s>>)' /\ b = due[id]
        OBVIOUS
      <3>2. v = e /\ z = b - v - y /\ b \in Int /\ d = f + y
        BY <1>14, <2>1, <2>4, <3>1
      <3> QED BY <1>11, <1>13, <3>1, <3>2
    <2>6. Early[top[id]] \in Nat
      BY EarlyIs
    <2>7. -1 <= z /\ z <= Early[top[id]] - Below(l)
      <3>1. PICK b, g, i, j : /\ b = due[id] - d /\ g = Early[top[id]]
                              /\ i = Below(m) /\ j = Below(l)
        OBVIOUS
      <3>2. b \in Int /\ g \in Nat /\ j \in Int /\ i = j + u /\ -1 <= b /\ b <= g - i
        BY <1>11, <2>2, <2>3, <2>6, <3>1
      <3>3. z = b \/ z = b + u
        BY <2>5, <3>1
      <3>4. -1 <= z /\ z <= g - j
        BY <1>11, <3>2, <3>3
      <3> QED BY <3>1, <3>4
    <2> QED BY <2>1, <2>2, <2>4, <2>7 DEF InTime
  <1>16. Fits(id, <<l, s>>)'
    <2>1. data'[id].next < Span(<<l, s>>)'
      BY <1>1, <1>7, <1>8, <1>9 DEF Span
    <2>2. <<l, s>>[1] = l
      OBVIOUS
    <2> QED BY <1>9, <1>15, <2>1, <2>2 DEF Fits
  <1> QED BY <1>8, <1>16

\* A timer is where it fits as long as nothing changes how far its slot is.
LEMMA FitsSame ==
    ASSUME NEW i, data'[i] = data[i], due'[i] = due[i], top'[i] = top[i],
           NEW x, x \in Heads \/ level' = level, x \in Heads => Wait(x)' = Wait(x), Fits(i, x)
    PROVE  Fits(i, x)'
  <1>1. Span(x)' = Span(x)
    BY DEF Span
  <1>2. data'[i].next < Span(x)'
    BY <1>1 DEF Fits
  <1>3. CASE x \in Heads
    <2>1. InTime(i, x[1], due[i] - Wait(x) - data[i].next \div Step)'
      <3>1. InTime(i, x[1], due[i] - Wait(x) - data[i].next \div Step)
        BY <1>3 DEF Fits
      <3> QED BY <1>3, <3>1 DEF InTime
    <2> QED BY <1>2, <1>3, <2>1 DEF Fits
  <1>4. CASE x \notin Heads
    <2>1. InTime(i, level, due[i] - data[i].next \div Step)'
      <3>1. InTime(i, level, due[i] - data[i].next \div Step) /\ level' = level
        BY <1>4 DEF Fits
      <3> QED BY <3>1 DEF InTime
    <2> QED BY <1>2, <1>4, <2>1 DEF Fits
  <1> QED BY <1>3, <1>4

\* As nothing does if the wheels stay where they are.
LEMMA FitsKept ==
    ASSUME cur' = cur, Turns' = Turns, NEW i, data'[i] = data[i], due'[i] = due[i],
           top'[i] = top[i], NEW x, x \in Heads \/ level' = level, Fits(i, x)
    PROVE  Fits(i, x)'
  <1>1. Position' = Position
    BY DEF Position
  <1>2. Wait(x)' = Wait(x)
    BY <1>1 DEF Wait
  <1> QED BY <1>2, FitsSame

-----------------------------------------------------------------------------
(* Where the timers are.                                                   *)

\* Of a timer in no slot: in the chain, being called, or deleted or not yet added.
Chained == <<0, 0>>
Calling == <<0, 1>>
Gone == <<0, 2>>
Places == Heads \cup {Chained, Calling, Gone}

\* W has the place of every timer.
In(W, x) == {n \in Timers : W[n] = x}

\* No node, or the last of a list whose own m_next may be anything.
Last(W, n) == n = NULL \/ (client = "repeats" /\ \E h \in Heads : In(W, h) # {} /\ n = pre[h])

Where(W) ==
    /\ W \in [Timers -> Places]
    /\ \A h \in Heads : Ring(next, pre, h, In(W, h) \cup {h}, client = "removes")
    /\ Chain(next, pre, chain, In(W, Chained))
    /\ \A n \in Timers : W[n] = Calling <=> pc = "in_call" /\ n = Timer(node)
    /\ \A id \in Ids : id \in live <=> W[Timer(id)] # Gone
    /\ \A id \in live : Fits(id, W[Timer(id)])
    /\ pc = "call" /\ chain # NULL => Last(W, pre[chain])
    /\ pc = "in_call" => /\ Last(W, pre[Timer(node)])
                         /\ next[Timer(node)] = chain
                         /\ chain # NULL => pre[chain] = Timer(node)

\* The positions of the wheels on the way up and down.
Wheels ==
    /\ cur \in [1..Levels -> Nat] /\ Turning
    /\ level \in 1..Levels
    /\ pc \in {"submit", "cascade"} => \A j \in 1..(level - 1) : cur[j] = 0
    /\ pc = "submit" => cur[level] < Lens[level]
    /\ pc = "cascade" => level > 1
    /\ pc \in {"call", "in_call"} => level = 1

\* The manager's sets and what add_timer was given.
Known ==
    /\ client \in {"repeats", "removes"}
    /\ ids \in 0..MaxId
    /\ live \subseteq timers /\ timers \subseteq 1..ids
    /\ removeList \subseteq live
    /\ removeList # {} => client = "removes" /\ pc \in {"idle", "loop", "remove"}
    /\ data \in [Ids -> [next : Nat, interval : Nat, times : Nat]]
    /\ due \in [Ids -> Int] /\ top \in [Ids -> 1..Levels]
    /\ \A id \in live : /\ \E i \in Intervals : data[id].interval = i + Half
                        /\ data[id].times # 0
                        /\ client = "removes" => data[id].times = 1

\* The lists, and where the code is in the middle of a step.
Lists ==
    /\ Pointers(next, pre)
    /\ chain \in Timers \cup {NULL}
    /\ pc \notin {"cascade", "call", "in_call"} => chain = NULL
    /\ pc = "in_call" => node \in Ids
    /\ \E W : Where(W)

Placed == Wheels /\ Known /\ Lists

LEMMA PlacesAre ==
    /\ Chained \notin Heads /\ Calling \notin Heads /\ Gone \notin Heads
    /\ Chained # Calling /\ Calling # Gone /\ Gone # Chained
  <1>1. \A h \in Heads : h[1] # 0
    BY HeadsAre
  <1> QED BY <1>1 DEF Chained, Calling, Gone

Move(W, n, x) == [W EXCEPT ![n] = x]

LEMMA Moved ==
    ASSUME NEW W \in [Timers -> Places], NEW n \in Timers, NEW x \in Places,
           NEW V, V = Move(W, n, x)
    PROVE  /\ V \in [Timers -> Places]
           /\ \A m \in Timers : V[m] = IF m = n THEN x ELSE W[m]
           /\ \A y \in Places : In(V, y) = IF y = x THEN In(W, y) \cup {n} ELSE In(W, y) \ {n}
  <1>2. /\ V \in [Timers -> Places]
        /\ \A m \in Timers : V[m] = IF m = n THEN x ELSE W[m]
    BY DEF Move
  <1>3. ASSUME NEW y \in Places
        PROVE  In(V, y) = IF y = x THEN In(W, y) \cup {n} ELSE In(W, y) \ {n}
    BY <1>2 DEF In
  <1> QED BY <1>2, <1>3

\* The lists of all slots.
Rings(nx, pr, W, full) == \A h \in Heads : Ring(nx, pr, h, In(W, h) \cup {h}, full)

\* No node is in two lists, none of a list is in the chain, and a list's last is in it.
LEMMA Apart ==
    ASSUME NEW nx, NEW pr, NEW W \in [Timers -> Places], NEW full, Rings(nx, pr, W, full),
           NEW h \in Heads
    PROVE  /\ pr[h] \in In(W, h) \cup {h}
           /\ \A g \in Heads : g # h => (In(W, h) \cup {h}) \cap (In(W, g) \cup {g}) = {}
           /\ \A m \in Timers : W[m] # h => m \notin In(W, h) \cup {h}
           /\ NULL \notin In(W, h) \cup {h}
           /\ In(W, h) # {} => pr[h] # h
  <1>1. Ring(nx, pr, h, In(W, h) \cup {h}, full)
    BY DEF Rings
  <1>2. pr[h] \in In(W, h) \cup {h}
    BY <1>1 DEF Ring
  <1>3. \A g \in Heads : g # h => (In(W, h) \cup {h}) \cap (In(W, g) \cup {g}) = {}
    BY NodesAre DEF In
  <1>4. (\A m \in Timers : W[m] # h => m \notin In(W, h) \cup {h}) /\ NULL \notin In(W, h) \cup {h}
    BY NodesAre DEF In
  <1>5. ASSUME pr[h] = h PROVE In(W, h) = {}
    <2>1. {h} = In(W, h) \cup {h}
      <3>1. Succ(nx, pr, h, h) = h
        BY <1>5 DEF Succ
      <3>2. /\ {h} \in SUBSET (In(W, h) \cup {h}) /\ h \in {h}
            /\ \A m \in {h} : Succ(nx, pr, h, m) \in {h}
        BY <3>1
      <3>3. \A S \in SUBSET (In(W, h) \cup {h}) :
               h \in S /\ (\A m \in S : Succ(nx, pr, h, m) \in S) => S = In(W, h) \cup {h}
        BY <1>1 DEF Ring
      <3> QED BY <3>2, <3>3
    <2>2. h \notin In(W, h)
      BY NodesAre DEF In
    <2> QED BY <2>1, <2>2
  <1> QED BY <1>2, <1>3, <1>4, <1>5

LEMMA RingsLinked ==
    ASSUME NEW nx, NEW pr, NEW W \in [Timers -> Places], NEW full, Rings(nx, pr, W, full),
           NEW n \in Timers, W[n] \notin Heads, NEW head \in Heads,
           NEW nx2, NEW pr2, Linked(nx, pr, n, head, nx2, pr2)
    PROVE  /\ Rings(nx2, pr2, Move(W, n, head), full)
           /\ pr2[head] = n
           /\ \A h \in Heads : h # head => pr2[h] = pr[h]
           /\ \A m \in Timers : m # n /\ W[m] \notin Heads => nx2[m] = nx[m] /\ pr2[m] = pr[m]
  <1>1. PICK V : V = Move(W, n, head)
    OBVIOUS
  <1>2. head \in Places
    BY DEF Places
  <1>3. \A y \in Places : In(V, y) = IF y = head THEN In(W, y) \cup {n} ELSE In(W, y) \ {n}
    BY <1>1, <1>2, Moved
  <1>4. /\ pr[head] \in In(W, head) \cup {head} /\ n \notin In(W, head) \cup {head}
        /\ \A m \in Timers : W[m] \notin Heads => m \notin In(W, head) \cup {head}
    BY Apart
  <1>5. /\ \A m \in Nodes : nx2[m] = IF m = n THEN head ELSE IF m = pr[head] THEN n ELSE nx[m]
        /\ \A m \in Nodes : pr2[m] = IF m = head THEN n ELSE IF m = n THEN pr[head] ELSE pr[m]
        /\ Timers \subseteq Nodes /\ Heads \subseteq Nodes /\ Timers \cap Heads = {}
    BY NodesAre DEF Linked
  <1>6. ASSUME NEW h \in Heads PROVE Ring(nx2, pr2, h, In(V, h) \cup {h}, full)
    <2>1. Ring(nx, pr, h, In(W, h) \cup {h}, full) /\ h \in Places
      BY DEF Rings, Places
    <2>2. CASE h = head
      <3>1. In(V, h) \cup {h} = (In(W, h) \cup {h}) \cup {n}
        BY <1>3, <2>1, <2>2
      <3> QED BY <1>4, <2>1, <2>2, <3>1, RingLinked
    <2>3. CASE h # head
      <3>1. In(V, h) = In(W, h) /\ n \notin In(W, h) \cup {h}
        <4>1. n \notin In(W, h) \cup {h}
          BY NodesAre DEF In
        <4> QED BY <1>3, <2>1, <2>3, <4>1
      <3>2. (In(W, head) \cup {head}) \cap (In(W, h) \cup {h}) = {}
        BY <2>3, Apart
      <3>3. In(W, h) \cup {h} \subseteq Nodes
        BY NodesAre DEF In
      <3>4. \A m \in In(W, h) \cup {h} : nx2[m] = nx[m] /\ pr2[m] = pr[m]
        BY <1>4, <1>5, <3>1, <3>2, <3>3
      <3> QED BY <2>1, <3>1, <3>4, RingSame
    <2> QED BY <2>2, <2>3
  <1>7. Rings(nx2, pr2, V, full)
    BY <1>6 DEF Rings
  <1> QED BY <1>1, <1>4, <1>5, <1>7

LEMMA RingsUnlinked ==
    ASSUME NEW nx, NEW pr, NEW W \in [Timers -> Places], Rings(nx, pr, W, TRUE),
           NEW n \in Timers, W[n] \in Heads,
           NEW nx2, NEW pr2, Unlinked(nx, pr, n, nx2, pr2)
    PROVE  Rings(nx2, pr2, Move(W, n, Gone), TRUE)
  <1>1. PICK V : V = Move(W, n, Gone)
    OBVIOUS
  <1>2. PICK head : head = W[n]
    OBVIOUS
  <1>3. \A y \in Places : In(V, y) = IF y = Gone THEN In(W, y) \cup {n} ELSE In(W, y) \ {n}
    <2>1. Gone \in Places
      BY DEF Places
    <2> QED BY <1>1, <2>1, Moved
  <1>4. /\ head \in Heads /\ n \in In(W, head) /\ n # head
    BY <1>2, NodesAre DEF In
  <1>5. Ring(nx, pr, head, In(W, head) \cup {head}, TRUE)
    BY <1>4 DEF Rings
  <1>6. nx[n] \in In(W, head) \cup {head} /\ pr[n] \in In(W, head) \cup {head}
    BY <1>4, <1>5 DEF Ring, Succ
  <1>7. /\ \A m \in Nodes : nx2[m] = IF m = NULL \/ m = n THEN NULL
                                     ELSE IF m = pr[n] THEN nx[n] ELSE nx[m]
        /\ \A m \in Nodes : pr2[m] = IF m = NULL \/ m = n THEN NULL
                                     ELSE IF m = nx[n] THEN pr[n] ELSE pr[m]
    BY DEF Unlinked
  <1>8. ASSUME NEW h \in Heads PROVE Ring(nx2, pr2, h, In(V, h) \cup {h}, TRUE)
    <2>1. Ring(nx, pr, h, In(W, h) \cup {h}, TRUE) /\ h \in Places /\ h # Gone
      BY PlacesAre DEF Rings, Places
    <2>2. CASE h = head
      <3>1. In(V, h) \cup {h} = (In(W, h) \cup {h}) \ {n}
        BY <1>3, <1>4, <2>1, <2>2
      <3>2. Ring(nx2, pr2, h, (In(W, h) \cup {h}) \ {n}, TRUE)
        BY <1>4, <2>1, <2>2, RingUnlinked
      <3> QED BY <3>1, <3>2
    <2>3. CASE h # head
      <3>1. (In(W, head) \cup {head}) \cap (In(W, h) \cup {h}) = {}
        BY <1>4, <2>3, Apart
      <3>2. In(V, h) = In(W, h) /\ n \notin In(W, h) \cup {h}
        BY <1>3, <1>4, <2>1, <3>1
      <3>3. In(W, h) \cup {h} \subseteq Nodes /\ NULL \notin In(W, h) \cup {h}
        BY NodesAre DEF In
      <3>4. \A m \in In(W, h) \cup {h} : nx2[m] = nx[m] /\ pr2[m] = pr[m]
        BY <1>6, <1>7, <3>1, <3>2, <3>3
      <3> QED BY <2>1, <3>2, <3>4, RingSame
    <2> QED BY <2>2, <2>3
  <1>9. Rings(nx2, pr2, V, TRUE)
    BY <1>8 DEF Rings
  <1> QED BY <1>1, <1>9

-----------------------------------------------------------------------------
(* What is in m_nextTime of a timer that was put in a slot.                *)

Datum == [next : Nat, interval : Nat, times : Nat]

\* A round of any wheel is within what the wheels reach.
LEMMA RoundReached ==
    /\ Reach \in Nat \ {0}
    /\ \A l \in 1..Levels : StepOf[l] * Lens[l] <= Reach /\ StepOf[l] <= Reach
  <1>1. /\ \A l \in 1..Levels : StepOf[l] \in Nat \ {0} /\ Lens[l] \in Nat \ {0}
        /\ Levels \in Nat \ {0}
    BY StepOfIs, WheelsIs
  <1>2. \A l \in 1..Levels : StepOf[l] * Lens[l] \in Nat \ {0}
    BY <1>1, Product
  <1>3. Reach \in Nat \ {0} /\ Reach = StepOf[Levels] * Lens[Levels]
    BY <1>1, <1>2 DEF Reach
  <1>4. \A l \in 1..Levels : StepOf[l] <= StepOf[l] * Lens[l]
    <2> SUFFICES ASSUME NEW l \in 1..Levels PROVE StepOf[l] <= StepOf[l] * Lens[l]
      OBVIOUS
    <2>1. 1 * StepOf[l] <= Lens[l] * StepOf[l] /\ StepOf[l] * Lens[l] = Lens[l] * StepOf[l]
      BY <1>1, Monotone
    <2> QED BY <1>1, <2>1
  <1> DEFINE Within(l) == StepOf[l] * Lens[l] <= Reach
             S == {n \in Nat : \A l \in 1..Levels : l > Levels - n => Within(l)}
  <1>5. 0 \in S
    BY <1>1
  <1>6. ASSUME NEW n \in 0..(Levels - 1), n \in S PROVE n + 1 \in S
    <2>1. n \in Nat /\ n + 1 \in Nat
      BY <1>1
    <2>2. ASSUME NEW l \in 1..Levels, l > Levels - (n + 1) PROVE Within(l)
      <3>1. CASE l = Levels
        BY <1>3, <3>1
      <3>2. CASE l # Levels
        <4>1. l + 1 \in 1..Levels /\ l + 1 > Levels - n /\ l + 1 # 1 /\ (l + 1) - 1 = l
          BY <1>1, <2>1, <2>2, <3>2
        <4>2. StepOf[l + 1] = StepOf[l] * Lens[l]
          BY <4>1, StepOfIs
        <4>3. Within(l + 1)
          BY <1>6, <4>1
        <4>4. StepOf[l + 1] <= StepOf[l + 1] * Lens[l + 1]
          BY <1>4, <4>1
        <4>5. StepOf[l + 1] * Lens[l + 1] \in Nat /\ StepOf[l] * Lens[l] \in Nat
          BY <1>2, <4>1
        <4> QED BY <1>3, <4>2, <4>3, <4>4, <4>5
      <3> QED BY <3>1, <3>2
    <2> HIDE DEF Within
    <2> QED BY <2>1, <2>2
  <1>7. Levels \in S
    <2> HIDE DEF S
    <2>1. 0..Levels \subseteq S
      BY <1>5, <1>6, Upwards
    <2> QED BY <1>1, <2>1
  <1>8. \A l \in 1..Levels : Within(l)
    <2> HIDE DEF Within
    <2> QED BY <1>1, <1>7
  <1> QED BY <1>1, <1>2, <1>3, <1>4, <1>8

Put(D, id, d, ms) == [D EXCEPT ![id] = [d EXCEPT !.next = ms]]
IsPut(D, id, d, ms, E) ==
    /\ E[id].next = ms /\ E[id].interval = d.interval /\ E[id].times = d.times
    /\ \A i \in Ids : i # id => E[i] = D[i]

LEMMA PutIs ==
    ASSUME NEW D \in [Ids -> Datum], NEW id \in Ids, NEW d \in Datum, NEW ms \in Nat,
           NEW E, E = Put(D, id, d, ms)
    PROVE  E \in [Ids -> Datum] /\ IsPut(D, id, d, ms, E)
  <1>1. PICK e : e = [d EXCEPT !.next = ms]
    OBVIOUS
  <1>2. e \in Datum /\ e.next = ms /\ e.interval = d.interval /\ e.times = d.times
    BY <1>1 DEF Datum
  <1>3. E = [D EXCEPT ![id] = e]
    BY <1>1 DEF Put
  <1> QED BY <1>2, <1>3 DEF IsPut

\* The timer id, with the data d, goes to the slot of head, where it fits.
Seated(id, d, head) ==
    /\ Link(Timer(id), head)
    /\ data' \in [Ids -> Datum]
    /\ data'[id].interval = d.interval /\ data'[id].times = d.times
    /\ due' \in [Ids -> Int] /\ top' \in [Ids -> 1..Levels]
    /\ \A i \in Ids : i # id => data'[i] = data[i] /\ due'[i] = due[i] /\ top'[i] = top[i]
    /\ Fits(id, head)'

LEMMA AddToWheel ==
    ASSUME cur \in [1..Levels -> Int], Turning, data \in [Ids -> Datum],
           NEW l \in 1..Levels, NEW id \in Ids, NEW d \in Datum, d.next < Reach,
           NEW seat, seat = SeatFrom[l][d.next], add_to_wheel(l, id, d)
    PROVE  /\ seat.head \in Heads /\ seat.head[1] \in 1..Levels
           /\ Link(Timer(id), seat.head)
           /\ data' \in [Ids -> Datum] /\ data'[id].next = seat.next
           /\ data'[id].interval = d.interval /\ data'[id].times = d.times
           /\ \A i \in Ids : i # id => data'[i] = data[i]
  <1>1. d.next \in Nat
    BY DEF Datum
  <1>2. GoodSeat(seat)
    BY <1>1, SeatFromGood
  <1>3. PICK ms, head : ms = seat.next /\ head = seat.head
    OBVIOUS
  <1>4. head \in Heads /\ head[1] \in 1..Levels /\ ms \in Nat
    BY <1>2, <1>3, HeadsAre DEF GoodSeat
  <1>5. Link(Timer(id), head) /\ data' = Put(data, id, d, ms)
    BY <1>3 DEF add_to_wheel, Put
  <1>6. PICK D, E : D = data /\ E = data'
    OBVIOUS
  <1>7. D \in [Ids -> Datum] /\ E = Put(D, id, d, ms)
    BY <1>5, <1>6
  <1>8. E \in [Ids -> Datum] /\ IsPut(D, id, d, ms, E)
    BY <1>4, <1>7, PutIs
  <1> QED BY <1>3, <1>4, <1>5, <1>6, <1>8 DEF IsPut

\* What is due of a timer, as add_timer and call_again reckon it.
LEMMA ExpectIs ==
    ASSUME due \in [Ids -> Int], top \in [Ids -> 1..Levels], NEW id \in Ids, NEW ms \in Nat,
           NEW w \in 1..Levels, w = SeatFrom[1][ms].head[1], Expect(id, ms)
    PROVE  /\ due' \in [Ids -> Int] /\ top' \in [Ids -> 1..Levels]
           /\ due'[id] = (IF ms < Step THEN 1 ELSE ms \div Step) /\ top'[id] = w
           /\ \A i \in Ids : i # id => due'[i] = due[i] /\ top'[i] = top[i]
  <1>1. PICK x : x = IF ms < Step THEN 1 ELSE ms \div Step
    OBVIOUS
  <1>2. x \in Int
    <2>1. ms \div Step \in Nat
      BY WheelsIs, Division
    <2> QED BY <1>1, <2>1
  <1>3. due' = [due EXCEPT ![id] = x] /\ top' = [top EXCEPT ![id] = w]
    BY <1>1 DEF Expect
  <1> QED BY <1>1, <1>2, <1>3

\* Between two steps or from a callback a timer is put where it fits.
LEMMA AddedSeat ==
    ASSUME Wheels, Known, NEW id \in Ids, NEW d \in Datum, d.next < Reach,
           add_to_wheel(1, id, d), Expect(id, d.next), cur' = cur, Turns' = 0
    PROVE  \E head \in Heads : Seated(id, d, head)
  <1>1. PICK seat : seat = SeatFrom[1][d.next]
    OBVIOUS
  <1>2. /\ cur \in [1..Levels -> Int] /\ Turning /\ 1 \in 1..Levels /\ d.next \in Nat
        /\ data \in [Ids -> Datum]
        /\ due \in [Ids -> Int] /\ top \in [Ids -> 1..Levels]
    BY WheelsIs DEF Wheels, Known, Datum
  <1>3. /\ seat.head \in Heads /\ seat.head[1] \in 1..Levels
        /\ Link(Timer(id), seat.head)
        /\ data' \in [Ids -> Datum] /\ data'[id].next = seat.next
        /\ data'[id].interval = d.interval /\ data'[id].times = d.times
        /\ \A i \in Ids : i # id => data'[i] = data[i]
    BY <1>1, <1>2, AddToWheel
  <1>4. PICK w : w = seat.head[1]
    OBVIOUS
  <1>5. /\ due' \in [Ids -> Int] /\ top' \in [Ids -> 1..Levels]
        /\ due'[id] = (IF d.next < Step THEN 1 ELSE d.next \div Step) /\ top'[id] = w
        /\ \A i \in Ids : i # id => due'[i] = due[i] /\ top'[i] = top[i]
    <2>1. w \in 1..Levels /\ w = SeatFrom[1][d.next].head[1]
      BY <1>1, <1>3, <1>4
    <2> QED BY <1>2, <2>1, ExpectIs
  <1>6. Added(id, d.next, seat)
    BY <1>1, <1>3, <1>4, <1>5 DEF Added
  <1>7. Fits(id, seat.head)'
    BY <1>2, <1>6, FitsAdded
  <1> QED BY <1>3, <1>5, <1>7 DEF Seated

\* A timer that comes down is put where it fits.
LEMMA CascadedSeat ==
    ASSUME Wheels, Known, NEW l \in 1..Levels, NEW m \in 1..Levels, m = l + 1, cur[l] = 0,
           NEW id \in Ids, NEW d \in Datum, d.next < StepOf[m],
           InTime(id, m, due[id] - d.next \div Step),
           add_to_wheel(l, id, d), cur' = cur, Turns' = l, due' = due, top' = top
    PROVE  \E head \in Heads : Seated(id, d, head)
  <1>1. PICK seat : seat = SeatFrom[l][d.next]
    OBVIOUS
  <1>2. /\ cur \in [1..Levels -> Int] /\ Turning /\ d.next \in Nat
        /\ data \in [Ids -> Datum]
        /\ due \in [Ids -> Int] /\ top \in [Ids -> 1..Levels]
    BY DEF Wheels, Known, Datum
  <1>3. d.next < Reach
    <2>1. StepOf[m] <= Reach /\ Reach \in Nat /\ StepOf[m] \in Nat
      BY RoundReached, StepOfIs
    <2> QED BY <1>2, <2>1
  <1>4. /\ seat.head \in Heads
        /\ Link(Timer(id), seat.head)
        /\ data' \in [Ids -> Datum] /\ data'[id].next = seat.next
        /\ data'[id].interval = d.interval /\ data'[id].times = d.times
        /\ \A i \in Ids : i # id => data'[i] = data[i]
    BY <1>1, <1>2, <1>3, AddToWheel
  <1>5. Cascaded(id, d.next, l, m, seat)
    BY <1>1, <1>4 DEF Cascaded
  <1>6. due[id] \in Int /\ top[id] \in 1..Levels
    BY <1>2
  <1>7. Fits(id, seat.head)'
    BY <1>2, <1>5, <1>6, FitsCascaded
  <1> QED BY <1>2, <1>4, <1>7 DEF Seated

-----------------------------------------------------------------------------
(* The steps of the lists.                                                 *)

\* A timer that is not deleted and neither in the chain nor being called is in a slot.
LEMMA InASlot ==
    ASSUME Known, NEW W, Where(W), chain = NULL, pc # "in_call", NEW id \in live
    PROVE  id \in Ids /\ Timer(id) \in Timers /\ W[Timer(id)] \in Heads
  <1>1. live \subseteq Ids
    BY WheelsIs DEF Known, Ids
  <1>2. id \in Ids /\ Timer(id) \in Timers
    BY <1>1, NodesAre
  <1>3. In(W, Chained) = {}
    BY ChainEmpty DEF Where
  <1> QED BY <1>2, <1>3 DEF Where, Places, In

\* Where no list is at work, what leaves the pointers alone leaves the lists alone.
LEMMA ListsSame ==
    ASSUME Lists, Known, chain = NULL, pc # "in_call", pc' # "in_call",
           UNCHANGED <<client, pre, next, chain, live>>,
           \A i \in live : \A h \in Heads : Fits(i, h) => Fits(i, h)'
    PROVE  Lists'
  <1>1. PICK W : Where(W)
    BY DEF Lists
  <1>2. \A id \in live : Fits(id, W[Timer(id)])'
    <2> SUFFICES ASSUME NEW id \in live PROVE Fits(id, W[Timer(id)])'
      OBVIOUS
    <2>1. W[Timer(id)] \in Heads
      BY <1>1, InASlot
    <2>2. Fits(id, W[Timer(id)])
      BY <1>1 DEF Where
    <2> QED BY <2>1, <2>2
  <1>3. /\ W \in [Timers -> Places]
        /\ \A h \in Heads : Ring(next, pre, h, In(W, h) \cup {h}, client = "removes")
        /\ Chain(next, pre, chain, In(W, Chained))
        /\ \A n \in Timers : W[n] # Calling
        /\ \A id \in Ids : id \in live <=> W[Timer(id)] # Gone
    BY <1>1 DEF Where
  <1>4. Where(W)'
    BY <1>2, <1>3 DEF Where
  <1>5. Pointers(next, pre)
    BY DEF Lists
  <1> QED BY <1>4, <1>5 DEF Lists

\* Nor need what is due be looked at if the wheels and the timers are left alone too.
LEMMA ListsStill ==
    ASSUME Lists, Known, chain = NULL, pc # "in_call", pc' # "in_call",
           UNCHANGED <<client, pre, next, chain, live, cur, data, due, top>>, Turns' = Turns
    PROVE  Lists'
  <1>1. \A i \in live : \A h \in Heads : Fits(i, h) => Fits(i, h)'
    BY FitsKept
  <1> QED BY <1>1, ListsSame

\* The timer id goes to x, where it fits if it is still there; all others stay.
LEMMA FitsMoved ==
    ASSUME NEW W, Where(W), live \subseteq Ids, NEW id \in Ids, NEW x, NEW V,
           \A m \in Timers : V[m] = IF m = Timer(id) THEN x ELSE W[m],
           UNCHANGED <<cur, level>>, Turns' = Turns, live' \subseteq live \cup {id},
           \A i \in Ids : i # id => data'[i] = data[i] /\ due'[i] = due[i] /\ top'[i] = top[i],
           id \in live' => Fits(id, x)'
    PROVE  \A i \in live' : Fits(i, V[Timer(i)])'
  <1> SUFFICES ASSUME NEW i \in live' PROVE Fits(i, V[Timer(i)])'
    OBVIOUS
  <1>1. i \in Ids
    OBVIOUS
  <1>2. CASE i = id
    <2>1. V[Timer(i)] = x
      BY <1>2, NodesAre
    <2> QED BY <1>2, <2>1
  <1>3. CASE i # id
    <2>1. V[Timer(i)] = W[Timer(i)]
      BY <1>1, <1>3, NodesAre
    <2>2. Fits(i, W[Timer(i)])
      BY <1>3 DEF Where
    <2>3. Fits(i, W[Timer(i)])'
      BY <1>1, <1>3, <2>2, FitsKept
    <2> QED BY <2>1, <2>3
  <1> QED BY <1>2, <1>3

LEMMA ForgetIs ==
    ASSUME due \in [Ids -> Int], top \in [Ids -> 1..Levels], NEW id \in Ids, Forget(id)
    PROVE  /\ due' \in [Ids -> Int] /\ top' \in [Ids -> 1..Levels]
           /\ \A i \in Ids : i # id => due'[i] = due[i] /\ top'[i] = top[i]
  BY WheelsIs DEF Forget

\* Nothing is in the lists.
Fresh ==
    /\ next = [n \in Nodes |-> IF n \in Heads THEN n ELSE NULL] /\ pre = next
    /\ live = {} /\ chain = NULL /\ pc \in {"idle", "released"}

LEMMA ListsFresh == Fresh => Lists
  <1> SUFFICES ASSUME Fresh PROVE Lists
    OBVIOUS
  <1>1. PICK W : W = [n \in Timers |-> Gone]
    OBVIOUS
  <1>2. W \in [Timers -> Places] /\ \A n \in Timers : W[n] = Gone
    BY <1>1 DEF Places
  <1>3. Heads \subseteq Nodes /\ NULL \in Nodes
    BY NodesAre
  <1>4. Pointers(next, pre) /\ \A h \in Heads : next[h] = h /\ pre[h] = h
    BY <1>3 DEF Pointers, Fresh
  <1>5. \A x \in Places : x # Gone => In(W, x) = {}
    BY <1>2 DEF In
  <1>6. ASSUME NEW h \in Heads
        PROVE  Ring(next, pre, h, In(W, h) \cup {h}, client = "removes")
    <2>1. In(W, h) \cup {h} = {h}
      BY <1>5, PlacesAre DEF Places
    <2>2. Ring(next, pre, h, {h}, client = "removes")
      BY <1>4, RingEmpty
    <2> QED BY <2>1, <2>2
  <1>7. Chain(next, pre, chain, In(W, Chained))
    <2>1. In(W, Chained) = {}
      BY <1>5, PlacesAre DEF Places
    <2> QED BY <2>1, ChainEmpty DEF Fresh
  <1>8. \A id \in Ids : Timer(id) \in Timers
    BY NodesAre
  <1>9. Where(W)
    BY <1>2, <1>6, <1>7, <1>8, PlacesAre DEF Where, Fresh
  <1> QED BY <1>4, <1>9 DEF Lists, Fresh

\* A timer that was in no slot is linked at the end of one.
LEMMA WhereLinked ==
    ASSUME Pointers(next, pre), NEW W, Where(W), NEW n \in Timers, W[n] \notin Heads,
           NEW head \in Heads, Link(n, head), UNCHANGED client
    PROVE  /\ Pointers(next', pre')
           /\ \A h \in Heads :
                 Ring(next', pre', h, In(Move(W, n, head), h) \cup {h}, client' = "removes")
           /\ pre'[head] = n
           /\ \A m \in Timers : m # n /\ W[m] \notin Heads => next'[m] = next[m] /\ pre'[m] = pre[m]
           /\ \A first : \A C \in SUBSET (In(W, Chained) \ {n}) :
                 Chain(next, pre, first, C) => Chain(next', pre', first, C)
  <1>1. Linked(next, pre, n, head, next', pre')
    BY LinkIs
  <1>2. PICK nx, pr, nx2, pr2 : nx = next /\ pr = pre /\ nx2 = next' /\ pr2 = pre'
    OBVIOUS
  <1>3. PICK full : full = (client = "removes")
    OBVIOUS
  <1>4. W \in [Timers -> Places] /\ Rings(nx, pr, W, full) /\ Linked(nx, pr, n, head, nx2, pr2)
    BY <1>1, <1>2, <1>3 DEF Where, Rings
  <1>5. /\ Rings(nx2, pr2, Move(W, n, head), full)
        /\ pr2[head] = n
        /\ \A m \in Timers : m # n /\ W[m] \notin Heads => nx2[m] = nx[m] /\ pr2[m] = pr[m]
    BY <1>4, RingsLinked
  <1>6. ASSUME NEW first, NEW C \in SUBSET (In(W, Chained) \ {n}), Chain(nx, pr, first, C)
        PROVE  Chain(nx2, pr2, first, C)
    <2>1. \A m \in C : m \in Timers /\ m # n /\ W[m] \notin Heads
      BY PlacesAre DEF In
    <2>2. \A m \in C : nx2[m] = nx[m] /\ pr2[m] = pr[m]
      BY <1>5, <2>1
    <2> QED BY <1>6, <2>2, ChainSame
  <1>7. Pointers(next', pre')
    BY <1>1 DEF Linked
  <1>8. \A h \in Heads : Ring(nx2, pr2, h, In(Move(W, n, head), h) \cup {h}, full)
    BY <1>5 DEF Rings
  <1> QED BY <1>2, <1>3, <1>5, <1>6, <1>7, <1>8

LEMMA AddTimerSeat ==
    ASSUME Wheels, Known, NEW delay \in Delays, NEW interval \in Intervals, NEW times \in Times,
           add_timer(delay, interval, times)
    PROVE  /\ ids + 1 \in Ids /\ ids + 1 \notin live /\ ids' = ids + 1
           /\ \E head \in Heads : \E d \in Datum :
                 Seated(ids + 1, d, head) /\ d.interval = interval + Half /\ d.times = times
  <1>1. PICK d : d = [next |-> delay + Half, interval |-> interval + Half, times |-> times]
    OBVIOUS
  <1>2. /\ delay \in Nat /\ delay + Half + Step <= Reach
        /\ interval \in Nat /\ times \in Nat /\ Half \in Nat /\ Step \in Nat \ {0}
    BY TimerAssumption, WheelsIs DEF Reach
  <1>3. /\ d \in Datum /\ d.next = delay + Half /\ d.interval = interval + Half /\ d.times = times
    BY <1>1, <1>2 DEF Datum
  <1>4. d.next < Reach
    BY <1>2, <1>3, RoundReached
  <1>5. ids + 1 \in Ids /\ ids + 1 \notin live /\ ids' = ids + 1
    BY WheelsIs DEF add_timer, Known, Ids
  <1>6. add_to_wheel(1, ids + 1, d)
    BY <1>1 DEF add_timer
  <1>7. \E head \in Heads : Seated(ids + 1, d, head)
    <2>1. Expect(ids + 1, d.next) /\ cur' = cur /\ Turns' = 0
      BY <1>1 DEF add_timer, run, Turns
    <2> QED BY <1>3, <1>4, <1>5, <1>6, <2>1, AddedSeat
  <1> QED BY <1>3, <1>5, <1>7

LEMMA AddTimerLists ==
    ASSUME Placed, NEW delay \in Delays, NEW interval \in Intervals, NEW times \in Times,
           add_timer(delay, interval, times)
    PROVE  Lists'
  <1>1. PICK id : id = ids + 1
    OBVIOUS
  <1>2. PICK head \in Heads : \E d \in Datum : Seated(id, d, head)
    BY <1>1, AddTimerSeat DEF Placed
  <1>3. id \in Ids /\ id \notin live
    BY <1>1, AddTimerSeat DEF Placed
  <1>4. PICK W : Where(W)
    BY DEF Placed, Lists
  <1>5. PICK n : n = Timer(id)
    OBVIOUS
  <1>6. n \in Timers /\ W[n] = Gone /\ W[n] \notin Heads /\ n # NULL /\ W \in [Timers -> Places]
    BY <1>3, <1>4, <1>5, NodesAre, PlacesAre DEF Where
  <1>7. Link(n, head)
    BY <1>2, <1>5 DEF Seated
  <1>8. /\ UNCHANGED <<pc, chain, node, level, client, cur>>
        /\ live' = live \cup {id}
        /\ pc = "idle" \/ (pc = "in_call" /\ client = "removes")
    BY <1>1 DEF add_timer, run
  <1>9. Pointers(next, pre) /\ chain \in Timers \cup {NULL} /\ (pc = "idle" => chain = NULL)
        /\ (pc = "in_call" => node \in Ids)
    BY DEF Placed, Lists
  <1>10. PICK V : V = Move(W, n, head)
    OBVIOUS
  <1>11. /\ V \in [Timers -> Places]
         /\ \A m \in Timers : V[m] = IF m = n THEN head ELSE W[m]
         /\ In(V, Chained) = In(W, Chained)
    <2>1. head \in Places /\ Chained \in Places /\ Chained # head
      BY PlacesAre DEF Places
    <2>2. n \notin In(W, Chained)
      BY <1>6, PlacesAre DEF In
    <2>3. V \in [Timers -> Places] /\ \A m \in Timers : V[m] = IF m = n THEN head ELSE W[m]
      BY <1>6, <1>10, <2>1 DEF Move
    <2>4. In(V, Chained) = In(W, Chained) \ {n}
      BY <1>6, <1>10, <2>1, Moved
    <2> QED BY <2>2, <2>3, <2>4
  <1>12. /\ Pointers(next', pre')
         /\ \A h \in Heads : Ring(next', pre', h, In(V, h) \cup {h}, client' = "removes")
         /\ \A m \in Timers : m # n /\ W[m] \notin Heads => next'[m] = next[m] /\ pre'[m] = pre[m]
         /\ \A first : \A C \in SUBSET (In(W, Chained) \ {n}) :
               Chain(next, pre, first, C) => Chain(next', pre', first, C)
    BY <1>4, <1>6, <1>7, <1>8, <1>9, <1>10, WhereLinked
  <1>13. Chain(next', pre', chain', In(V, Chained))
    <2>1. n \notin In(W, Chained)
      BY <1>6, PlacesAre DEF In
    <2>2. Chain(next, pre, chain, In(W, Chained))
      BY <1>4 DEF Where
    <2> QED BY <1>8, <1>11, <1>12, <2>1, <2>2
  <1>14. \A m \in Timers : V[m] = Calling <=> pc' = "in_call" /\ m = Timer(node')
    <2>1. \A m \in Timers : W[m] = Calling <=> pc = "in_call" /\ m = Timer(node)
      BY <1>4 DEF Where
    <2> QED BY <1>6, <1>8, <1>11, <2>1, PlacesAre
  <1>15. \A i \in Ids : i \in live' <=> V[Timer(i)] # Gone
    <2>1. \A i \in Ids : i \in live <=> W[Timer(i)] # Gone
      BY <1>4 DEF Where
    <2> QED BY <1>3, <1>5, <1>8, <1>11, <2>1, NodesAre, PlacesAre
  <1>16. \A i \in live' : Fits(i, V[Timer(i)])'
    <2>1. live \subseteq Ids /\ live' \subseteq live \cup {id} /\ Turns' = Turns
      BY <1>8, WheelsIs DEF Placed, Known, Ids, Turns
    <2>2. /\ \A i \in Ids : i # id => data'[i] = data[i] /\ due'[i] = due[i] /\ top'[i] = top[i]
          /\ Fits(id, head)'
      BY <1>2 DEF Seated
    <2> QED BY <1>3, <1>4, <1>5, <1>8, <1>11, <2>1, <2>2, FitsMoved
  <1>17. pc' = "in_call" => /\ Last(V, pre[Timer(node)])' /\ next'[Timer(node')] = chain'
                            /\ chain' # NULL => pre'[chain'] = Timer(node')
    <2> SUFFICES ASSUME pc = "in_call"
                 PROVE  /\ Last(V, pre[Timer(node)])' /\ next'[Timer(node')] = chain'
                        /\ chain' # NULL => pre'[chain'] = Timer(node')
      BY <1>8
    <2>1. /\ Last(W, pre[Timer(node)]) /\ next[Timer(node)] = chain
          /\ chain # NULL => pre[chain] = Timer(node) /\ chain \in In(W, Chained)
          /\ W[Timer(node)] = Calling /\ Timer(node) \in Timers
      BY <1>4, <1>9, NodesAre DEF Where, Chain
    <2>2. Timer(node) # n /\ next'[Timer(node)] = next[Timer(node)]
                          /\ pre'[Timer(node)] = pre[Timer(node)]
      BY <1>6, <1>12, <2>1, PlacesAre
    <2>3. chain # NULL => pre'[chain] = pre[chain]
      <3>1. chain # NULL => chain \in Timers /\ W[chain] = Chained
        BY <2>1 DEF In
      <3> QED BY <1>6, <1>12, <3>1, PlacesAre
    <2>4. pre[Timer(node)] = NULL
      BY <1>8, <2>1 DEF Last
    <2>5. Last(V, pre[Timer(node)])'
      BY <1>8, <2>2, <2>4 DEF Last
    <2> QED BY <1>8, <2>1, <2>2, <2>3, <2>5
  <1>18. pc' # "call"
    BY <1>8
  <1>19. Where(V)'
    BY <1>11, <1>12, <1>13, <1>14, <1>15, <1>16, <1>17, <1>18 DEF Where
  <1> QED BY <1>8, <1>9, <1>12, <1>19 DEF Lists

-----------------------------------------------------------------------------
(* The steps of the wheels and of the lists that go by them.               *)

\* The wheel that submits a slot comes to its next one: no other slot is nearer or further
\* for that, and the wheel below is now the one that turns.
LEMMA SlotTurns ==
    ASSUME Wheels, submit_slot
    PROVE  /\ Wait(<<level, cur[level]>>) = 0
           /\ \A h \in Heads : h # <<level, cur[level]>> => Wait(h)' = Wait(h)
  <1>1. PICK m, c, n, u : m = level /\ c = cur[level] /\ n = Lens[level] /\ u = Units(level)
    OBVIOUS
  <1>2. PICK e, g, z, p, q : /\ e = Position /\ g = Position' /\ p = cur /\ q = cur'
                             /\ z = IF Turns' = 0 THEN 1 ELSE 0
    OBVIOUS
  <1>3. /\ m \in 1..Levels /\ c \in Nat /\ c < n /\ n \in Nat \ {0} /\ u \in Nat \ {0}
        /\ p \in [1..Levels -> Nat] /\ (\A j \in 1..(m - 1) : p[j] = 0) /\ p[m] = c
        /\ Levels \in Nat
        /\ \A l \in 1..Levels : Units(l) \in Nat \ {0} /\ Lens[l] \in Nat \ {0}
    BY <1>1, <1>2, WheelsIs, UnitsAre DEF Wheels, submit_slot
  <1>4. /\ Turns = m /\ Turns' = m - 1 /\ q = [p EXCEPT ![m] = c + 1]
        /\ z = IF m = 1 THEN 1 ELSE 0
    BY <1>1, <1>2, <1>3 DEF submit_slot, Turns
  <1>5. /\ e \in [1..Levels -> Int]
        /\ \A j \in 1..Levels : e[j] = IF j < m THEN Lens[j] ELSE p[j]
    BY <1>2, <1>3, <1>4 DEF Position
  <1>6. /\ g \in [1..Levels -> Int]
        /\ \A j \in 1..Levels : g[j] = IF j < m - 1 THEN Lens[j] ELSE q[j]
        /\ \A j \in 1..Levels : q[j] = IF j = m THEN c + 1 ELSE p[j]
    <2>1. g = [j \in 1..Levels |-> IF j < m - 1 THEN Lens[j] ELSE q[j]]
      BY <1>2, <1>4 DEF Position
    <2>2. q \in [1..Levels -> Nat]
          /\ \A j \in 1..Levels : q[j] = IF j = m THEN c + 1 ELSE p[j]
      BY <1>3, <1>4
    <2> QED BY <1>3, <2>1, <2>2
  <1>7. /\ \A l \in 1..Levels : Ahead(e)[l] \in Int /\ Ahead(g)[l] \in Int
        /\ \A l \in 2..Levels :
              /\ Ahead(e)[l] = Ahead(e)[l - 1] + (Lens[l - 1] - e[l - 1]) * Units(l - 1)
              /\ Ahead(g)[l] = Ahead(g)[l - 1] + (Lens[l - 1] - g[l - 1]) * Units(l - 1)
        /\ Ahead(g)[1] = 0
    <2>1. IsAhead(e, Ahead(e)) /\ IsAhead(g, Ahead(g))
      BY <1>5, <1>6, AheadIs
    <2> QED BY <2>1 DEF IsAhead
  <1>8. \A l \in 1..m : Ahead(e)[l] = 0
    <2>1. \A j \in 1..(m - 1) : e[j] = Lens[j]
      BY <1>3, <1>5
    <2> QED BY <1>3, <1>5, <2>1, AheadZero
  <1>9. \A l \in 1..(m - 1) : Ahead(g)[l] = 0
    <2>1. CASE m = 1
      BY <2>1
    <2>2. CASE m # 1
      <3>1. PICK k : k = m - 1
        OBVIOUS
      <3>2. k \in 1..Levels /\ \A j \in 1..(k - 1) : g[j] = Lens[j]
        BY <1>3, <1>6, <2>2, <3>1
      <3> QED BY <1>6, <3>1, <3>2, AheadZero
    <2> QED BY <2>1, <2>2
  <1>10. Ahead(g)[m] + z = u
    <2>1. CASE m = 1
      BY <1>1, <1>4, <1>7, <2>1, UnitsAre
    <2>2. CASE m # 1
      <3>1. m \in 2..Levels /\ m - 1 \in 1..(m - 1) /\ m - 1 \in 1..Levels
        BY <1>3, <2>2
      <3>2. g[m - 1] = 0
        BY <1>3, <1>6, <2>2, <3>1
      <3>3. u = Lens[m - 1] * Units(m - 1)
        BY <1>1, <2>2, <3>1, UnitsAre
      <3>4. Lens[m - 1] - 0 = Lens[m - 1]
        BY <1>3, <3>1
      <3>5. Ahead(g)[m] = 0 + u
        BY <1>7, <1>9, <3>1, <3>2, <3>3, <3>4
      <3> QED BY <1>3, <1>4, <2>2, <3>5
    <2> QED BY <2>1, <2>2
  <1>11. ASSUME NEW l \in 1..Levels, l > m PROVE Ahead(g)[l] = Ahead(e)[l] - z
    <2>1. PICK k : k = m + 1
      OBVIOUS
    <2>2. k \in 2..Levels /\ k \in 1..Levels /\ k - 1 = m /\ l \in k..Levels
      BY <1>3, <1>11, <2>1
    <2>3. e[m] = c /\ g[m] = c + 1
      <3>1. m \in 1..Levels /\ ~(m < m) /\ ~(m < m - 1) /\ p[m] = c
        BY <1>3
      <3> QED BY <1>5, <1>6, <3>1
    <2>4. Ahead(e)[k] = 0 + (n - c) * u
      <3>1. Ahead(e)[k] = Ahead(e)[k - 1] + (Lens[k - 1] - e[k - 1]) * Units(k - 1)
        BY <1>7, <2>2
      <3>2. Ahead(e)[m] = 0
        BY <1>3, <1>8
      <3> QED BY <1>1, <2>2, <2>3, <3>1, <3>2
    <2>5. Ahead(g)[k] = Ahead(g)[m] + (n - (c + 1)) * u
      BY <1>1, <1>7, <2>2, <2>3
    <2>6. PICK i : i = n - (c + 1)
      OBVIOUS
    <2>7. i \in Int /\ n - c = i + 1
      BY <1>3, <2>6
    <2>8. (n - c) * u = i * u + u /\ i * u \in Int
      <3>1. (i + 1) * u = i * u + 1 * u /\ 1 * u = u /\ i * u \in Int
        BY <1>3, <2>7, Distribute
      <3> QED BY <2>7, <3>1
    <2>9. PICK x, y, v : x = Ahead(e)[k] /\ y = Ahead(g)[k] /\ v = Ahead(g)[m]
      OBVIOUS
    <2>10. PICK w : w = i * u
      OBVIOUS
    <2>11. x = w + u /\ y = v + w /\ v + z = u /\ w \in Int /\ v \in Int
      BY <1>3, <1>7, <1>10, <2>4, <2>5, <2>6, <2>8, <2>9, <2>10
    <2>12. PICK d : d = 0 - z
      OBVIOUS
    <2>13. d \in Int /\ y = x + d
      BY <1>3, <1>4, <2>11, <2>12
    <2>14. \A j \in k..(Levels - 1) : g[j] = e[j]
      <3> SUFFICES ASSUME NEW j \in k..(Levels - 1) PROVE g[j] = e[j]
        OBVIOUS
      <3>1. j \in 1..Levels /\ ~(j < m) /\ ~(j < m - 1) /\ j # m
        BY <1>3, <2>1
      <3>2. e[j] = p[j] /\ g[j] = q[j] /\ q[j] = p[j]
        BY <1>5, <1>6, <3>1
      <3> QED BY <3>2
    <2>15. \A j \in k..Levels : Ahead(g)[j] = Ahead(e)[j] + d
      <3>1. /\ e \in [1..Levels -> Int] /\ g \in [1..Levels -> Int] /\ k \in 1..Levels
            /\ d \in Int /\ Ahead(g)[k] = Ahead(e)[k] + d
        BY <1>5, <1>6, <2>2, <2>9, <2>13
      <3> QED BY <2>14, <3>1, AheadShift
    <2>16. Ahead(g)[l] = Ahead(e)[l] + d /\ Ahead(e)[l] \in Int
      BY <1>7, <2>2, <2>15
    <2> QED BY <1>3, <1>4, <2>12, <2>16
  <1>12. Wait(<<m, c>>) = 0
    <2>1. Rounds(m, c, c) = 0
      BY <1>3 DEF Rounds
    <2>2. cur[m] = c /\ Ahead(e)[m] = 0 /\ Turns # 0
      BY <1>1, <1>3, <1>4, <1>8
    <2>3. 0 * Units(m) = 0
      BY <1>3
    <2>4. Wait(<<m, c>>) = Ahead(e)[m] + Rounds(m, c, cur[m]) * Units(m) + 0
      BY <1>2, <2>2 DEF Wait
    <2> QED BY <2>1, <2>2, <2>3, <2>4
  <1>13. ASSUME NEW h \in Heads, h # <<m, c>> PROVE Wait(h)' = Wait(h)
    <2>1. PICK l, s : l = h[1] /\ s = h[2]
      OBVIOUS
    <2>2. l \in 1..Levels /\ s \in 0..(Lens[l] - 1) /\ (l = m => s # c)
      BY <1>13, <2>1, HeadsAre
    <2>3. PICK v, r, r2, a, b : /\ v = Units(l) /\ r = Rounds(l, s, p[l])
                                /\ r2 = Rounds(l, s, q[l])
                                /\ a = Ahead(e)[l] /\ b = Ahead(g)[l]
      OBVIOUS
    <2>4. v \in Nat \ {0} /\ a \in Int /\ b \in Int
      BY <1>3, <1>7, <2>2, <2>3
    <2>5. /\ r \in Int
          /\ r2 = IF l = m THEN r - 1 ELSE r
      <3>1. p[l] \in Nat /\ Lens[l] \in Nat /\ s \in Nat /\ s < Lens[l]
        BY <1>3, <2>2
      <3>2. r \in Int
        BY <2>3, <3>1 DEF Rounds
      <3>3. CASE l = m
        <4>1. q[l] = c + 1 /\ p[l] = c
          BY <1>3, <1>6, <2>2, <3>3
        <4>2. PICK k : k = Lens[l]
          OBVIOUS
        <4>3. r = IF s >= c THEN s - c ELSE s + k - c
          BY <2>3, <4>1, <4>2 DEF Rounds
        <4>4. r2 = IF s >= c + 1 THEN s - (c + 1) ELSE s + k - (c + 1)
          BY <2>3, <4>1, <4>2 DEF Rounds
        <4>5. s # c /\ c \in Nat /\ k \in Nat
          BY <1>3, <2>2, <3>1, <3>3, <4>2
        <4> QED BY <3>1, <3>3, <4>3, <4>4, <4>5
      <3>4. CASE l # m
        <4>1. q[l] = p[l]
          BY <1>6, <2>2, <3>4
        <4> QED BY <2>3, <3>2, <3>4, <4>1
      <3> QED BY <3>2, <3>3, <3>4
    <2>6. Wait(h) = a + r * v + 0
      <3>1. Turns # 0
        BY <1>3, <1>4
      <3> QED BY <1>2, <2>1, <2>3, <3>1 DEF Wait
    <2>7. Wait(h)' = b + r2 * v + z
      BY <1>2, <2>1, <2>3 DEF Wait
    <2>8. r * v \in Int
      BY <2>4, <2>5, Distribute
    <2>9. CASE l < m
      <3>1. a = 0 /\ b = 0 /\ z = 0 /\ r2 = r
        BY <1>3, <1>4, <1>8, <1>9, <2>2, <2>3, <2>5, <2>9
      <3> QED BY <2>6, <2>7, <3>1
    <2>10. CASE l = m
      <3>1. a = 0 /\ b + z = u /\ v = u /\ r2 = r - 1
        BY <1>1, <1>3, <1>8, <1>10, <2>2, <2>3, <2>5, <2>10
      <3>2. (r - 1) * v = r * v - 1 * v /\ 1 * v = v
        BY <2>4, <2>5, Distribute
      <3>3. PICK w : w = r * v
        OBVIOUS
      <3>4. Wait(h) = w + 0 /\ Wait(h)' = b + (w - v) + z /\ w \in Int
        BY <2>6, <2>7, <2>8, <3>1, <3>2, <3>3
      <3>5. z \in Int
        BY <1>4
      <3> QED BY <2>4, <3>1, <3>4, <3>5
    <2>11. CASE l > m
      <3>1. b = a - z /\ r2 = r /\ z \in Int
        BY <1>3, <1>4, <1>11, <2>2, <2>3, <2>5, <2>11
      <3>2. PICK w : w = r * v
        OBVIOUS
      <3>3. Wait(h) = a + w + 0 /\ Wait(h)' = b + w + z /\ w \in Int
        BY <2>6, <2>7, <2>8, <3>1, <3>2
      <3> QED BY <2>4, <3>1, <3>3
    <2> QED BY <1>3, <2>2, <2>9, <2>10, <2>11
  <1> QED BY <1>1, <1>12, <1>13

\* What was in the slot that is submitted is in the chain now, and all else where it was.
LEMMA SlotFits ==
    ASSUME Wheels, Known, submit_slot, NEW i \in Ids
    PROVE  /\ Fits(i, <<level, cur[level]>>) => Fits(i, Chained)'
           /\ \A h \in Heads : h # <<level, cur[level]>> /\ Fits(i, h) => Fits(i, h)'
  <1>1. PICK head : head = <<level, cur[level]>>
    OBVIOUS
  <1>2. UNCHANGED <<data, due, top, level>>
    BY DEF submit_slot, hist
  <1>3. /\ head \in Heads /\ head[1] = level
        /\ data[i].next \in Nat /\ due[i] \in Int
    <2>1. level \in 1..Levels /\ cur[level] \in 0..(Lens[level] - 1)
      BY WheelsIs DEF Wheels, submit_slot
    <2> QED BY <1>1, <2>1, HeadsAre DEF Known
  <1>4. Wait(head) = 0 /\ \A h \in Heads : h # head => Wait(h)' = Wait(h)
    BY <1>1, SlotTurns
  <1>5. ASSUME Fits(i, head) PROVE Fits(i, Chained)'
    <2>1. data[i].next < Span(head)
      BY <1>5 DEF Fits
    <2>2. Span(Chained)' = Span(head)
      BY <1>2, <1>3, PlacesAre DEF Span
    <2>3. PICK x, y : x = due[i] /\ y = data[i].next \div Step
      OBVIOUS
    <2>4. x \in Int /\ y \in Int
      <3>1. data[i].next \div Step \in Nat
        BY <1>3, WheelsIs, Division
      <3> QED BY <1>3, <2>3, <3>1
    <2>5. InTime(i, level, x - 0 - y)
      BY <1>3, <1>4, <1>5, <2>3 DEF Fits
    <2>6. x - 0 - y = x - y
      BY <2>4
    <2>7. InTime(i, level, due[i] - data[i].next \div Step)
      BY <2>3, <2>5, <2>6
    <2>8. InTime(i, level, due[i] - data[i].next \div Step)'
      BY <1>2, <2>7 DEF InTime
    <2>9. data'[i].next < Span(Chained)'
      BY <1>2, <2>1, <2>2
    <2> QED BY <2>8, <2>9, PlacesAre DEF Fits
  <1>6. ASSUME NEW h \in Heads, h # head, Fits(i, h) PROVE Fits(i, h)'
    <2>1. Wait(h)' = Wait(h)
      BY <1>4, <1>6
    <2> QED BY <1>2, <1>6, <2>1, FitsSame
  <1> QED BY <1>1, <1>5, <1>6

LEMMA RemoveLists ==
    ASSUME Placed, NEW id \in Ids, remove(id)
    PROVE  Lists'
  <1>1. /\ id \in removeList /\ id \in live /\ id \in timers
        /\ client = "removes" /\ pc = "remove" /\ chain = NULL
    BY DEF remove, Placed, Known, Lists
  <1>2. /\ Unlink(Timer(id)) /\ live' = live \ {id}
        /\ data' = [data EXCEPT ![id] = NoData]
        /\ Forget(id) /\ UNCHANGED <<client, pc, chain, node, level, cur>>
    BY <1>1 DEF remove, run
  <1>3. PICK W : Where(W)
    BY DEF Placed, Lists
  <1>4. PICK n : n = Timer(id)
    OBVIOUS
  <1>5. n \in Timers /\ W[n] \in Heads /\ W \in [Timers -> Places]
    BY <1>1, <1>3, <1>4, InASlot DEF Placed, Where
  <1>6. PICK V : V = Move(W, n, Gone)
    OBVIOUS
  <1>7. V \in [Timers -> Places] /\ \A m \in Timers : V[m] = IF m = n THEN Gone ELSE W[m]
    BY <1>5, <1>6 DEF Move, Places
  <1>8. Unlinked(next, pre, n, next', pre')
    BY <1>2, <1>4, <1>5, UnlinkIs DEF Placed, Lists
  <1>9. \A h \in Heads : Ring(next', pre', h, In(V, h) \cup {h}, client' = "removes")
    <2>1. PICK nx, pr, nx2, pr2 : nx = next /\ pr = pre /\ nx2 = next' /\ pr2 = pre'
      OBVIOUS
    <2>2. (client = "removes") = TRUE /\ (client' = "removes") = TRUE
      BY <1>1, <1>2
    <2>3. \A h \in Heads : Ring(nx, pr, h, In(W, h) \cup {h}, TRUE)
      BY <1>3, <2>1, <2>2 DEF Where
    <2>4. Rings(nx, pr, W, TRUE) /\ Unlinked(nx, pr, n, nx2, pr2)
      BY <1>8, <2>1, <2>3 DEF Rings
    <2>5. Rings(nx2, pr2, V, TRUE)
      BY <1>5, <1>6, <2>4, RingsUnlinked
    <2> QED BY <2>1, <2>2, <2>5 DEF Rings
  <1>10. Chain(next', pre', chain', In(V, Chained))
    <2>1. In(W, Chained) = {}
      BY <1>1, <1>3, ChainEmpty DEF Where
    <2>2. In(V, Chained) = {}
      BY <1>7, <2>1, PlacesAre DEF In
    <2> QED BY <1>1, <1>2, <2>2, ChainEmpty
  <1>11. \A m \in Timers : V[m] # Calling
    BY <1>1, <1>3, <1>7, PlacesAre DEF Where
  <1>12. \A i \in Ids : i \in live' <=> V[Timer(i)] # Gone
    <2>1. \A i \in Ids : i \in live <=> W[Timer(i)] # Gone
      BY <1>3 DEF Where
    <2> QED BY <1>2, <1>4, <1>7, <2>1, NodesAre
  <1>13. \A i \in live' : Fits(i, V[Timer(i)])'
    <2>1. live \subseteq Ids /\ id \notin live' /\ live' \subseteq live \cup {id} /\ Turns' = Turns
      BY <1>2, WheelsIs DEF Placed, Known, Ids, Turns
    <2>2. \A i \in Ids : i # id => data'[i] = data[i] /\ due'[i] = due[i] /\ top'[i] = top[i]
      <3>1. data \in [Ids -> Datum] /\ due \in [Ids -> Int] /\ top \in [Ids -> 1..Levels]
        BY DEF Placed, Known, Datum
      <3> QED BY <1>2, <3>1, ForgetIs
    <2> QED BY <1>2, <1>3, <1>4, <1>7, <2>1, <2>2, FitsMoved
  <1>14. Where(V)'
    BY <1>1, <1>2, <1>7, <1>9, <1>10, <1>11, <1>12, <1>13 DEF Where
  <1>15. Pointers(next', pre')
    BY <1>8 DEF Unlinked
  <1> QED BY <1>1, <1>2, <1>14, <1>15 DEF Lists

LEMMA SubmitSlotLists ==
    ASSUME Placed, submit_slot
    PROVE  Lists'
  <1>1. PICK head : head = <<level, cur[level]>>
    OBVIOUS
  <1>2. /\ Detach(head) /\ pc = "submit" /\ pc' \in {"call", "cascade"} /\ chain = NULL
        /\ UNCHANGED <<client, data, live, node, level>>
    BY <1>1 DEF submit_slot, Placed, Lists
  <1>3. head \in Heads
    <2>1. level \in 1..Levels /\ cur[level] \in 0..(Lens[level] - 1)
      BY <1>2, WheelsIs DEF Placed, Wheels
    <2> QED BY <1>1, <2>1, HeadsAre
  <1>4. CASE next[head] = head
    <2>1. UNCHANGED <<pre, next, chain>>
      BY <1>2, <1>4 DEF Detach
    <2>2. PICK W : Where(W)
      BY DEF Placed, Lists
    <2>3. In(W, head) = {}
      <3>1. PICK C : C = In(W, head) \cup {head}
        OBVIOUS
      <3>2. Ring(next, pre, head, C, client = "removes") /\ C \ {head} = In(W, head)
        BY <1>3, <2>2, <3>1, NodesAre DEF Where, In
      <3>3. InSlot(head) = C \ {head}
        BY <1>3, <3>2, RingMet
      <3> QED BY <1>4, <3>2, <3>3 DEF InSlot
    <2>4. \A i \in live : Fits(i, W[Timer(i)])'
      <3> SUFFICES ASSUME NEW i \in live PROVE Fits(i, W[Timer(i)])'
        OBVIOUS
      <3>1. i \in Ids /\ Timer(i) \in Timers /\ W[Timer(i)] \in Heads
        BY <1>2, <2>2, InASlot DEF Placed
      <3>2. W[Timer(i)] # head
        BY <2>3, <3>1 DEF In
      <3>3. Fits(i, W[Timer(i)])
        BY <2>2 DEF Where
      <3> QED BY <1>1, <3>1, <3>2, <3>3, SlotFits DEF Placed
    <2>5. Where(W)'
      BY <1>2, <2>1, <2>2, <2>4 DEF Where
    <2> QED BY <1>2, <2>1, <2>5 DEF Placed, Lists
  <1>5. CASE next[head] # head
    <2>1. PICK W : Where(W)
      BY DEF Placed, Lists
    <2>2. PICK C : C = In(W, head) \cup {head}
      OBVIOUS
    <2>3. /\ W \in [Timers -> Places]
          /\ Ring(next, pre, head, C, client = "removes") /\ C \ {head} = In(W, head)
      BY <1>3, <2>1, <2>2, NodesAre DEF Where, In
    <2>4. pre[head] # head
      BY <1>3, <1>5, <2>3, RingMet
    <2>5. Detached(next, pre, head, next', pre') /\ chain' = next[head]
      BY <1>2, <1>3, <1>5, <2>4, DetachIs DEF Placed, Lists
    <2>6. /\ Ring(next', pre', head, {head}, client = "removes")
          /\ Chain(next', pre', chain', In(W, head))
          /\ chain' # NULL /\ pre'[chain'] = NULL
      <3>1. PICK nx, pr, nx2, pr2, full : /\ nx = next /\ pr = pre /\ nx2 = next' /\ pr2 = pre'
                                          /\ full = (client = "removes")
        OBVIOUS
      <3>2. Ring(nx, pr, head, C, full) /\ pr[head] # head /\ Detached(nx, pr, head, nx2, pr2)
        BY <2>3, <2>4, <2>5, <3>1
      <3>3. Chain(nx2, pr2, nx[head], C \ {head})
        BY <1>3, <3>2, RingDetached
      <3>4. Ring(nx2, pr2, head, {head}, full)
        BY <1>3, <3>2, RingDetached
      <3>5. nx[head] # NULL /\ pr2[nx[head]] = NULL
        <4>1. nx[head] \in C /\ nx[head] # head /\ C \subseteq Nodes /\ NULL \notin C
          <5>1. Succ(nx, pr, head, head) = nx[head]
            BY <3>2 DEF Succ
          <5> QED BY <1>3, <1>5, <3>1, <3>2, <5>1, NodesAre DEF Ring
        <4> QED BY <3>2, <4>1 DEF Detached
      <3> QED BY <2>3, <2>5, <3>1, <3>3, <3>4, <3>5
    <2>7. PICK V : V = [m \in Timers |-> IF W[m] = head THEN Chained ELSE W[m]]
      OBVIOUS
    <2>8. /\ V \in [Timers -> Places]
          /\ \A m \in Timers : V[m] = IF W[m] = head THEN Chained ELSE W[m]
      BY <2>3, <2>7 DEF Places
    <2>9. /\ In(V, head) = {} /\ In(V, Chained) = In(W, head)
          /\ \A h \in Heads : h # head => In(V, h) = In(W, h)
      <3>1. In(W, Chained) = {}
        BY <1>2, <2>1, ChainEmpty DEF Where
      <3> QED BY <1>3, <2>8, <3>1, PlacesAre DEF In
    <2>10. ASSUME NEW h \in Heads
           PROVE  Ring(next', pre', h, In(V, h) \cup {h}, client' = "removes")
      <3>1. CASE h = head
        BY <1>2, <2>6, <2>9, <3>1
      <3>2. CASE h # head
        <4>1. PICK B : B = In(W, h) \cup {h}
          OBVIOUS
        <4>2. Ring(next, pre, h, B, client = "removes")
          BY <2>1, <4>1 DEF Where
        <4>3. /\ C \cap B = {} /\ C \subseteq Nodes /\ B \subseteq Nodes /\ NULL \notin B
              /\ pre[head] \in C /\ next[head] \in C \ {head}
          <5>1. C \cap B = {} /\ C \subseteq Nodes /\ B \subseteq Nodes /\ NULL \notin B
            BY <1>3, <2>2, <3>2, <4>1, NodesAre DEF In
          <5>2. pre[head] \in C
            BY <2>3 DEF Ring
          <5>3. chain' \in In(W, head)
            BY <2>6 DEF Chain
          <5> QED BY <2>3, <2>5, <5>1, <5>2, <5>3
        <4>4. \A m \in B : next'[m] = next[m] /\ pre'[m] = pre[m]
          BY <2>3, <2>5, <4>3 DEF Detached, Ring
        <4>5. Ring(next', pre', h, B, client = "removes")
          BY <4>2, <4>4, RingSame
        <4> QED BY <1>2, <2>9, <3>2, <4>1, <4>5
      <3> QED BY <3>1, <3>2
    <2>11. \A m \in Timers : V[m] # Calling
      BY <1>2, <2>1, <2>8, PlacesAre DEF Where
    <2>12. \A i \in Ids : i \in live' <=> V[Timer(i)] # Gone
      <3>1. \A i \in Ids : i \in live <=> W[Timer(i)] # Gone
        BY <2>1 DEF Where
      <3> QED BY <1>2, <1>3, <2>8, <3>1, NodesAre, PlacesAre
    <2>13. \A i \in live' : Fits(i, V[Timer(i)])'
      <3> SUFFICES ASSUME NEW i \in live PROVE Fits(i, V[Timer(i)])'
        BY <1>2
      <3>1. i \in Ids /\ Timer(i) \in Timers /\ W[Timer(i)] \in Heads
        BY <1>2, <2>1, InASlot DEF Placed
      <3>2. Fits(i, W[Timer(i)])
        BY <2>1 DEF Where
      <3>3. CASE W[Timer(i)] = head
        BY <1>1, <2>8, <3>1, <3>2, <3>3, SlotFits DEF Placed
      <3>4. CASE W[Timer(i)] # head
        BY <1>1, <2>8, <3>1, <3>2, <3>4, SlotFits DEF Placed
      <3> QED BY <3>3, <3>4
    <2>14. Chain(next', pre', chain', In(V, Chained)) /\ pc' # "in_call"
      BY <1>2, <2>6, <2>9
    <2>15. Last(V, pre[chain])'
      BY <2>6 DEF Last
    <2>16. Where(V)'
      BY <2>8, <2>10, <2>11, <2>12, <2>13, <2>14, <2>15 DEF Where
    <2>17. Pointers(next', pre') /\ chain' \in Timers
      BY <2>5, <2>6 DEF Detached, Chain
    <2> QED BY <1>2, <2>16, <2>17 DEF Lists
  <1> QED BY <1>4, <1>5

\* The first timer of the chain.
LEMMA ChainFirst ==
    ASSUME Placed, NEW W, Where(W), chain # NULL
    PROVE  /\ chain \in Timers /\ chain[2] \in Ids /\ chain = Timer(chain[2])
           /\ chain[2] \in live /\ W[chain] = Chained
           /\ W \in [Timers -> Places]
           /\ Chain(next, pre, next[chain], In(W, Chained) \ {chain})
           /\ next[chain] \in Timers \cup {NULL}
           /\ next[chain] # NULL => /\ next[chain] \in In(W, Chained) \ {chain}
                                    /\ pre[next[chain]] = chain
           /\ data[chain[2]].next < StepOf[level]
           /\ InTime(chain[2], level, due[chain[2]] - data[chain[2]].next \div Step)
  <1>1. PICK C : C = In(W, Chained)
    OBVIOUS
  <1>2. Chain(next, pre, chain, C) /\ W \in [Timers -> Places]
    BY <1>1 DEF Where
  <1>3. Chain(next, pre, next[chain], C \ {chain})
    BY <1>2, ChainNext
  <1>4. chain \in C /\ C \subseteq Timers /\ NULL \notin Timers
        /\ (next[chain] # NULL =>
              next[chain] \in C /\ pre[next[chain]] = chain /\ next[chain] # chain)
    BY <1>2, NodesAre DEF Chain
  <1>5. W[chain] = Chained
    BY <1>1, <1>4 DEF In
  <1>6. chain \in Timers /\ chain[2] \in Ids /\ chain = Timer(chain[2])
    BY <1>4, NodesAre
  <1>7. chain[2] \in live
    BY <1>5, <1>6, PlacesAre DEF Where
  <1>8. /\ data[chain[2]].next < StepOf[level]
        /\ InTime(chain[2], level, due[chain[2]] - data[chain[2]].next \div Step)
    <2>1. Fits(chain[2], Chained)
      BY <1>5, <1>6, <1>7 DEF Where
    <2> QED BY <2>1, PlacesAre DEF Fits, Span
  <1> QED BY <1>1, <1>2, <1>3, <1>4, <1>5, <1>6, <1>7, <1>8

LEMMA CascadeSeat ==
    ASSUME Placed, cascade
    PROVE  \E head \in Heads : Seated(chain[2], data[chain[2]], head)
  <1>1. PICK id, d, l, m : id = chain[2] /\ d = data[id] /\ m = level /\ l = m - 1
    OBVIOUS
  <1>2. /\ pc = "cascade" /\ chain # NULL /\ add_to_wheel(l, id, d) /\ cur' = cur
        /\ Turns' = l /\ due' = due /\ top' = top
    BY <1>1 DEF cascade, Turns, hist
  <1>3. PICK W : Where(W)
    BY DEF Placed, Lists
  <1>4. id \in Ids /\ d.next < StepOf[m] /\ InTime(id, m, due[id] - d.next \div Step)
    BY <1>1, <1>2, <1>3, ChainFirst
  <1>5. l \in 1..Levels /\ m \in 1..Levels /\ m = l + 1 /\ cur[l] = 0
    BY <1>1, <1>2, WheelsIs DEF Placed, Wheels
  <1>6. d \in Datum
    BY <1>1, <1>4 DEF Placed, Known, Datum
  <1>7. \E head \in Heads : Seated(id, d, head)
    BY <1>2, <1>4, <1>5, <1>6, CascadedSeat DEF Placed
  <1> QED BY <1>1, <1>7

LEMMA CascadeLists ==
    ASSUME Placed, cascade
    PROVE  Lists'
  <1>1. PICK id : id = chain[2]
    OBVIOUS
  <1>2. PICK head \in Heads : Seated(id, data[id], head)
    BY <1>1, CascadeSeat
  <1>3. PICK W : Where(W)
    BY DEF Placed, Lists
  <1>4. PICK n : n = chain
    OBVIOUS
  <1>5. /\ pc = "cascade" /\ chain # NULL /\ chain' = next[chain]
        /\ UNCHANGED <<client, live, pc, level, node, cur>>
    BY DEF cascade
  <1>6. /\ n \in Timers /\ id \in Ids /\ n = Timer(id) /\ id \in live /\ W[n] = Chained
        /\ W \in [Timers -> Places] /\ W[n] \notin Heads
    BY <1>1, <1>3, <1>4, <1>5, ChainFirst, PlacesAre
  <1>7. Chain(next, pre, chain', In(W, Chained) \ {n}) /\ chain' \in Timers \cup {NULL}
    BY <1>3, <1>4, <1>5, ChainFirst
  <1>8. Link(n, head)
    BY <1>2, <1>6 DEF Seated
  <1>9. PICK V : V = Move(W, n, head)
    OBVIOUS
  <1>10. head \in Places /\ Chained \in Places /\ Chained # head /\ head # Gone /\ head # Calling
    BY PlacesAre DEF Places
  <1>11. V \in [Timers -> Places] /\ \A m \in Timers : V[m] = IF m = n THEN head ELSE W[m]
    BY <1>6, <1>9, <1>10 DEF Move
  <1>12. In(V, Chained) = In(W, Chained) \ {n}
    BY <1>6, <1>9, <1>10, Moved
  <1>13. /\ Pointers(next', pre')
         /\ \A h \in Heads : Ring(next', pre', h, In(V, h) \cup {h}, client' = "removes")
         /\ \A first : \A C \in SUBSET (In(W, Chained) \ {n}) :
               Chain(next, pre, first, C) => Chain(next', pre', first, C)
    BY <1>3, <1>5, <1>6, <1>8, <1>9, WhereLinked DEF Placed, Lists
  <1>14. Chain(next', pre', chain', In(V, Chained))
    BY <1>7, <1>12, <1>13
  <1>15. \A m \in Timers : V[m] # Calling
    BY <1>3, <1>5, <1>10, <1>11 DEF Where
  <1>16. \A i \in Ids : i \in live' <=> V[Timer(i)] # Gone
    <2>1. \A i \in Ids : i \in live <=> W[Timer(i)] # Gone
      BY <1>3 DEF Where
    <2> QED BY <1>5, <1>6, <1>10, <1>11, <2>1, NodesAre
  <1>17. \A i \in live' : Fits(i, V[Timer(i)])'
    <2>1. live \subseteq Ids /\ live' \subseteq live \cup {id} /\ Turns' = Turns
      BY <1>5, WheelsIs DEF Placed, Known, Ids, Turns
    <2>2. /\ \A i \in Ids : i # id => data'[i] = data[i] /\ due'[i] = due[i] /\ top'[i] = top[i]
          /\ Fits(id, head)'
      BY <1>2 DEF Seated
    <2> QED BY <1>3, <1>5, <1>6, <1>11, <2>1, <2>2, FitsMoved
  <1>18. Where(V)'
    BY <1>5, <1>11, <1>13, <1>14, <1>15, <1>16, <1>17 DEF Where
  <1> QED BY <1>5, <1>7, <1>13, <1>18 DEF Lists

LEMMA CallLists ==
    ASSUME Placed, call
    PROVE  Lists'
  <1>1. PICK W : Where(W)
    BY DEF Placed, Lists
  <1>2. PICK n : n = chain
    OBVIOUS
  <1>3. /\ pc = "call" /\ chain # NULL /\ pc' = "in_call" /\ node' = n[2] /\ chain' = next[n]
        /\ UNCHANGED <<client, pre, next, data, live, level, cur, due, top>>
    BY <1>2 DEF call, links, hist
  <1>4. /\ n \in Timers /\ n[2] \in Ids /\ n = Timer(n[2]) /\ n[2] \in live /\ W[n] = Chained
        /\ W \in [Timers -> Places]
        /\ chain' \in Timers \cup {NULL}
        /\ chain' # NULL => pre[chain'] = n
    BY <1>1, <1>2, <1>3, ChainFirst
  <1>5. Chain(next, pre, chain', In(W, Chained) \ {n})
    BY <1>1, <1>2, <1>3, ChainFirst
  <1>6. PICK V : V = Move(W, n, Calling)
    OBVIOUS
  <1>7. Calling \in Places /\ Chained \in Places /\ \A h \in Heads : h \in Places /\ h # Chained
    BY PlacesAre DEF Places
  <1>8. V \in [Timers -> Places] /\ \A m \in Timers : V[m] = IF m = n THEN Calling ELSE W[m]
    BY <1>4, <1>6, <1>7 DEF Move
  <1>9. /\ In(V, Chained) = In(W, Chained) \ {n}
        /\ \A h \in Heads : In(V, h) = In(W, h)
    BY <1>4, <1>7, <1>8, PlacesAre DEF In
  <1>10. \A h \in Heads : Ring(next', pre', h, In(V, h) \cup {h}, client' = "removes")
    <2>1. \A h \in Heads : Ring(next, pre, h, In(W, h) \cup {h}, client = "removes")
      BY <1>1 DEF Where
    <2> QED BY <1>3, <1>9, <2>1
  <1>11. Chain(next', pre', chain', In(V, Chained))
    BY <1>3, <1>5, <1>9
  <1>12. \A m \in Timers : V[m] = Calling <=> pc' = "in_call" /\ m = Timer(node')
    <2>1. \A m \in Timers : W[m] # Calling
      BY <1>1, <1>3 DEF Where
    <2> QED BY <1>3, <1>4, <1>8, <2>1
  <1>13. \A i \in Ids : i \in live' <=> V[Timer(i)] # Gone
    <2>1. \A i \in Ids : i \in live <=> W[Timer(i)] # Gone
      BY <1>1 DEF Where
    <2> QED BY <1>3, <1>4, <1>8, <2>1, NodesAre, PlacesAre
  <1>14. \A i \in live' : Fits(i, V[Timer(i)])'
    <2>1. live \subseteq Ids /\ Turns' = Turns
      BY <1>3, WheelsIs DEF Placed, Known, Ids, Turns
    <2>2. PICK id : id = n[2]
      OBVIOUS
    <2>3. Fits(id, Calling)'
      <3>1. Fits(id, Chained)
        BY <1>1, <1>4, <2>2 DEF Where
      <3>2. Fits(id, Calling)
        BY <3>1, PlacesAre DEF Fits, Span
      <3> QED BY <1>3, <2>1, <3>2, FitsKept
    <2> QED BY <1>1, <1>3, <1>4, <1>8, <2>1, <2>2, <2>3, FitsMoved
  <1>15. Last(V, pre[Timer(node)])'
    <2>1. Last(W, pre[n])
      BY <1>1, <1>2, <1>3 DEF Where
    <2>2. pre'[Timer(node')] = pre[n]
      BY <1>3, <1>4
    <2> QED BY <1>3, <1>9, <2>1, <2>2 DEF Last
  <1>16. next'[Timer(node')] = chain' /\ (chain' # NULL => pre'[chain'] = Timer(node'))
    BY <1>3, <1>4
  <1>17. Where(V)'
    BY <1>3, <1>8, <1>10, <1>11, <1>12, <1>13, <1>14, <1>15, <1>16 DEF Where
  <1>18. Pointers(next', pre')
    BY <1>3 DEF Placed, Lists
  <1> QED BY <1>3, <1>4, <1>17, <1>18 DEF Lists

\* The timer that is called.
LEMMA CalledTimer ==
    ASSUME Placed, NEW W, Where(W), pc = "in_call"
    PROVE  /\ node \in Ids /\ Timer(node) \in Timers /\ node \in live
           /\ W[Timer(node)] = Calling /\ W \in [Timers -> Places]
           /\ Last(W, pre[Timer(node)]) /\ next[Timer(node)] = chain
           /\ chain # NULL => /\ pre[chain] = Timer(node) /\ chain \in In(W, Chained)
                              /\ chain \in Timers /\ W[chain] = Chained
           /\ data[node].next < Step /\ level = 1 /\ InTime(node, 1, due[node])
  <1>1. node \in Ids /\ Timer(node) \in Timers
    BY NodesAre DEF Placed, Lists
  <1>2. W[Timer(node)] = Calling /\ W \in [Timers -> Places]
    BY <1>1 DEF Where
  <1>3. node \in live
    BY <1>1, <1>2, PlacesAre DEF Where
  <1>4. /\ Last(W, pre[Timer(node)]) /\ next[Timer(node)] = chain
        /\ chain # NULL => pre[chain] = Timer(node)
    BY DEF Where
  <1>5. chain # NULL => chain \in In(W, Chained)
    BY DEF Where, Chain
  <1>6. chain # NULL => chain \in Timers /\ W[chain] = Chained
    BY <1>5 DEF In
  <1>7. level = 1
    BY DEF Placed, Wheels
  <1>8. Fits(node, Calling)
    BY <1>2, <1>3 DEF Where
  <1>9. data[node].next < Step
    <2>1. Span(Calling) = Step
      BY <1>7, PlacesAre, StepOfIs, WheelsIs DEF Span
    <2> QED BY <1>8, <2>1 DEF Fits
  <1>10. InTime(node, 1, due[node])
    <2>1. InTime(node, 1, due[node] - data[node].next \div Step)
      BY <1>7, <1>8, PlacesAre DEF Fits
    <2>2. PICK x, n : x = due[node] /\ n = data[node].next
      OBVIOUS
    <2>3. x \in Int /\ n \in Nat /\ Step \in Nat \ {0} /\ n < Step
      BY <1>1, <1>9, <2>2, WheelsIs DEF Placed, Known
    <2>4. n \div Step = 0
      BY <2>3, DivisionIs
    <2>5. x - n \div Step = x
      BY <2>3, <2>4
    <2> QED BY <2>1, <2>2, <2>5
  <1> QED BY <1>1, <1>2, <1>3, <1>4, <1>5, <1>6, <1>7, <1>9, <1>10

LEMMA CallLastLists ==
    ASSUME Placed, call_last
    PROVE  Lists'
  <1>1. PICK W : Where(W)
    BY DEF Placed, Lists
  <1>2. PICK n, p, id : n = Timer(node) /\ p = pre[n] /\ id = node
    OBVIOUS
  <1>3. /\ pc = "in_call" /\ Unlink(n) /\ live' = live \ {id} /\ pc' = "call"
        /\ data' = [data EXCEPT ![id] = NoData] /\ Forget(id)
        /\ UNCHANGED <<client, chain, level, cur>>
    BY <1>2 DEF call_last
  <1>4. /\ id \in Ids /\ n \in Timers /\ n = Timer(id) /\ id \in live /\ W[n] = Calling
        /\ W \in [Timers -> Places] /\ Last(W, p) /\ next[n] = chain
        /\ chain # NULL => chain \in Timers /\ W[chain] = Chained
    BY <1>1, <1>2, <1>3, CalledTimer
  <1>5. Unlinked(next, pre, n, next', pre')
    BY <1>3, <1>4, UnlinkIs DEF Placed, Lists
  <1>6. /\ \A m \in Nodes : next'[m] = IF m = NULL \/ m = n THEN NULL
                                       ELSE IF m = p THEN chain ELSE next[m]
        /\ \A m \in Nodes : pre'[m] = IF m = NULL \/ m = n THEN NULL
                                      ELSE IF m = chain THEN p ELSE pre[m]
    BY <1>2, <1>4, <1>5 DEF Unlinked
  <1>7. PICK V : V = Move(W, n, Gone)
    OBVIOUS
  <1>8. Gone \in Places /\ Chained \in Places /\ \A h \in Heads : h \in Places
    BY DEF Places
  <1>9. V \in [Timers -> Places] /\ \A m \in Timers : V[m] = IF m = n THEN Gone ELSE W[m]
    BY <1>4, <1>7, <1>8 DEF Move
  <1>10. In(V, Chained) = In(W, Chained) /\ \A h \in Heads : In(V, h) = In(W, h)
    BY <1>4, <1>9, PlacesAre DEF In
  \* The one that is called has no tail before it but in a list that need not be right there.
  <1>11. \A h \in Heads : p \in In(W, h) \cup {h} =>
            client = "repeats" /\ p = pre[h] /\ p # h
    <2> SUFFICES ASSUME NEW h \in Heads, p \in In(W, h) \cup {h}
                 PROVE  client = "repeats" /\ p = pre[h] /\ p # h
      OBVIOUS
    <2>1. \A g \in Heads : Ring(next, pre, g, In(W, g) \cup {g}, client = "removes")
      BY <1>1 DEF Where
    <2>2. PICK full, nx, pr : full = (client = "removes") /\ nx = next /\ pr = pre
      OBVIOUS
    <2>3. Rings(nx, pr, W, full)
      BY <2>1, <2>2 DEF Rings
    <2>4. p # NULL
      BY NodesAre DEF In
    <2>5. PICK g \in Heads : In(W, g) # {} /\ p = pr[g]
      BY <1>4, <2>2, <2>4 DEF Last
    <2>6. pr[g] \in In(W, g) \cup {g} /\ (In(W, g) # {} => pr[g] # g)
      BY <1>4, <2>3, Apart
    <2>7. g # h => (In(W, g) \cup {g}) \cap (In(W, h) \cup {h}) = {}
      BY <1>4, <2>3, Apart
    <2>8. g = h
      BY <2>5, <2>6, <2>7
    <2> QED BY <1>4, <2>2, <2>4, <2>5, <2>6, <2>8 DEF Last
  <1>12. \A h \in Heads : Ring(next', pre', h, In(V, h) \cup {h}, client' = "removes")
    <2> SUFFICES ASSUME NEW h \in Heads
                 PROVE  Ring(next', pre', h, In(V, h) \cup {h}, client' = "removes")
      OBVIOUS
    <2>1. PICK C : C = In(W, h) \cup {h}
      OBVIOUS
    <2>2. Ring(next, pre, h, C, client = "removes")
      BY <1>1, <2>1 DEF Where
    <2>3. /\ C \subseteq Nodes /\ NULL \notin C /\ n \notin C
          /\ chain # NULL => chain \notin C
      BY <1>4, <2>1, NodesAre, PlacesAre DEF In
    <2>4. \A m \in C : pre'[m] = pre[m]
      BY <1>6, <2>3
    <2>5. \A m \in C : next'[m] = next[m]
                       \/ (~(client = "removes") /\ m = pre[h] /\ m # h)
      <3> SUFFICES ASSUME NEW m \in C, m = p
                   PROVE  ~(client = "removes") /\ m = pre[h] /\ m # h
        BY <1>6, <2>3
      <3> QED BY <1>11, <2>1
    <2>6. Ring(next', pre', h, C, client = "removes")
      BY <2>2, <2>4, <2>5, RingSame
    <2> QED BY <1>3, <1>10, <2>1, <2>6
  <1>13. Chain(next', pre', chain', In(V, Chained))
    <2>1. PICK C : C = In(W, Chained)
      OBVIOUS
    <2>2. Chain(next, pre, chain, C)
      BY <1>1, <2>1 DEF Where
    <2>3. C \subseteq Nodes /\ NULL \notin C /\ n \notin C /\ p \notin C
      <3>1. C \subseteq Nodes /\ NULL \notin C /\ n \notin C
        BY <1>4, <2>1, NodesAre, PlacesAre DEF In
      <3>2. ASSUME p \in C PROVE FALSE
        <4>1. p # NULL /\ W[p] = Chained /\ p \in Timers
          BY <2>1, <3>1, <3>2 DEF In
        <4>2. PICK h \in Heads : p = pre[h]
          BY <1>4, <4>1 DEF Last
        <4>3. Ring(next, pre, h, In(W, h) \cup {h}, client = "removes")
          BY <1>1 DEF Where
        <4>4. p \in In(W, h) \cup {h}
          BY <4>2, <4>3 DEF Ring
        <4> QED BY <4>1, <4>4, NodesAre, PlacesAre DEF In
      <3> QED BY <3>1, <3>2
    <2>4. \A m \in C : next'[m] = next[m] /\ (m # chain => pre'[m] = pre[m])
      BY <1>6, <2>3
    <2>5. Chain(next', pre', chain, C)
      BY <2>2, <2>4, ChainSame
    <2> QED BY <1>3, <1>10, <2>1, <2>5
  <1>14. \A m \in Timers : V[m] # Calling
    <2>1. \A m \in Timers : W[m] = Calling => m = n
      BY <1>1, <1>2 DEF Where
    <2> QED BY <1>9, <2>1, PlacesAre
  <1>15. \A i \in Ids : i \in live' <=> V[Timer(i)] # Gone
    <2>1. \A i \in Ids : i \in live <=> W[Timer(i)] # Gone
      BY <1>1 DEF Where
    <2> QED BY <1>3, <1>4, <1>9, <2>1, NodesAre
  <1>16. \A i \in live' : Fits(i, V[Timer(i)])'
    <2>1. live \subseteq Ids /\ id \notin live' /\ live' \subseteq live \cup {id} /\ Turns' = Turns
      BY <1>3, WheelsIs DEF Placed, Known, Ids, Turns
    <2>2. \A i \in Ids : i # id => data'[i] = data[i] /\ due'[i] = due[i] /\ top'[i] = top[i]
      <3>1. data \in [Ids -> Datum] /\ due \in [Ids -> Int] /\ top \in [Ids -> 1..Levels]
        BY DEF Placed, Known, Datum
      <3> QED BY <1>3, <1>4, <3>1, ForgetIs
    <2>3. /\ id \in Ids /\ \A m \in Timers : V[m] = IF m = Timer(id) THEN Gone ELSE W[m]
          /\ cur' = cur /\ level' = level
      BY <1>3, <1>4, <1>9
    <2>4. id \in live' => Fits(id, Gone)'
      BY <2>1
    <2> QED BY <1>1, <2>1, <2>2, <2>3, <2>4, FitsMoved
  <1>17. chain # NULL => Last(V, pre[chain])'
    <2> SUFFICES ASSUME chain # NULL, p # NULL PROVE Last(V, pre[chain])'
      <3>1. chain # NULL => chain \in Nodes /\ chain # n
        BY <1>4, NodesAre, PlacesAre
      <3> QED BY <1>3, <1>6, <3>1 DEF Last
    <2>1. pre'[chain'] = p
      BY <1>3, <1>4, <1>6, NodesAre, PlacesAre
    <2>2. PICK h \in Heads : In(W, h) # {} /\ p = pre[h]
      BY <1>4 DEF Last
    <2>3. pre'[h] = pre[h]
      BY <1>4, <1>6, NodesAre
    <2>4. client = "repeats"
      BY <1>4 DEF Last
    <2>5. In(V, h) # {}
      BY <1>10, <2>2
    <2> QED BY <1>3, <2>1, <2>2, <2>3, <2>4, <2>5 DEF Last
  <1>18. Where(V)'
    BY <1>3, <1>9, <1>12, <1>13, <1>14, <1>15, <1>16, <1>17 DEF Where
  <1>19. Pointers(next', pre') /\ chain \in Timers \cup {NULL}
    BY <1>5 DEF Unlinked, Placed, Lists
  <1> QED BY <1>3, <1>18, <1>19 DEF Lists

LEMMA CallAgainSeat ==
    ASSUME Placed, call_again
    PROVE  /\ node \in live /\ client = "repeats"
           /\ \E head \in Heads : \E d \in Datum :
                 /\ Seated(node, d, head)
                 /\ d.interval = data[node].interval /\ d.times = data[node].times - 1
                 /\ d.times # 0
  <1>1. PICK W : Where(W)
    BY DEF Placed, Lists
  <1>2. PICK e, d : e = data[node] /\ d = [e EXCEPT !.times = @ - 1, !.next = @ + e.interval]
    OBVIOUS
  <1>3. pc = "in_call" /\ e.times > 1 /\ add_to_wheel(1, node, d)
    BY <1>2 DEF call_again
  <1>4. node \in Ids /\ node \in live /\ e.next < Step
    BY <1>1, <1>2, <1>3, CalledTimer
  <1>5. /\ data \in [Ids -> Datum]
        /\ \E i \in Intervals : e.interval = i + Half
        /\ client = "removes" => e.times = 1
        /\ client \in {"repeats", "removes"}
    BY <1>2, <1>4 DEF Placed, Known, Datum
  <1>6. e \in Datum
    BY <1>2, <1>4, <1>5
  <1>7. PICK i \in Intervals : e.interval = i + Half
    BY <1>5
  <1>8. i \in Nat /\ i + Half + Step <= Reach /\ Half \in Nat /\ Step \in Nat /\ Reach \in Nat
    BY TimerAssumption, WheelsIs, RoundReached DEF Reach
  <1>9. d \in Datum /\ d.next = e.next + e.interval /\ d.times = e.times - 1
                    /\ d.interval = e.interval
    <2>1. e.next \in Nat /\ e.interval \in Nat /\ e.times \in Nat
      BY <1>6 DEF Datum
    <2>2. PICK f : f = [e EXCEPT !.times = e.times - 1]
      OBVIOUS
    <2>3. e.times - 1 \in Nat /\ e.next + e.interval \in Nat
      BY <1>3, <2>1
    <2>4. f \in Datum /\ f.next = e.next /\ f.times = e.times - 1 /\ f.interval = e.interval
      BY <1>6, <2>2, <2>3 DEF Datum
    <2>5. d = [f EXCEPT !.next = e.next + e.interval]
      BY <1>2, <2>2, <2>4
    <2> QED BY <2>3, <2>4, <2>5 DEF Datum
  <1>10. d.next < Reach
    <2>1. e.next \in Nat
      BY <1>6 DEF Datum
    <2> QED BY <1>4, <1>7, <1>8, <1>9, <2>1
  <1>11. Expect(node, d.next) /\ cur' = cur /\ Turns' = 0
    <2>1. d = [data[node] EXCEPT !.times = @ - 1, !.next = @ + data[node].interval]
      BY <1>2
    <2> QED BY <2>1 DEF call_again, Turns
  <1>12. \E head \in Heads : Seated(node, d, head)
    BY <1>3, <1>4, <1>9, <1>10, <1>11, AddedSeat DEF Placed
  <1>13. d.times # 0 /\ client = "repeats"
    <2>1. e.times \in Nat
      BY <1>6 DEF Datum
    <2> QED BY <1>3, <1>5, <1>9, <2>1
  <1> QED BY <1>2, <1>4, <1>9, <1>12, <1>13

LEMMA CallAgainLists ==
    ASSUME Placed, call_again
    PROVE  Lists'
  <1>1. PICK W : Where(W)
    BY DEF Placed, Lists
  <1>2. PICK n, id : n = Timer(node) /\ id = node
    OBVIOUS
  <1>3. PICK head \in Heads : \E d \in Datum : Seated(id, d, head)
    BY <1>2, CallAgainSeat
  <1>4. pc = "in_call" /\ pc' = "call" /\ UNCHANGED <<client, chain, level, live, cur>>
    BY DEF call_again
  <1>5. /\ id \in Ids /\ n \in Timers /\ n = Timer(id) /\ id \in live /\ W[n] = Calling
        /\ W \in [Timers -> Places] /\ W[n] \notin Heads
        /\ chain # NULL => chain \in Timers /\ W[chain] = Chained /\ pre[chain] = n
        /\ client = "repeats"
    BY <1>1, <1>2, <1>4, CalledTimer, CallAgainSeat, PlacesAre
  <1>6. Link(n, head)
    BY <1>3, <1>5 DEF Seated
  <1>7. PICK V : V = Move(W, n, head)
    OBVIOUS
  <1>8. head \in Places /\ Chained \in Places /\ Chained # head /\ head # Gone /\ head # Calling
    BY PlacesAre DEF Places
  <1>9. V \in [Timers -> Places] /\ \A m \in Timers : V[m] = IF m = n THEN head ELSE W[m]
    BY <1>5, <1>7, <1>8 DEF Move
  <1>10. In(V, Chained) = In(W, Chained) /\ n \notin In(W, Chained) /\ n \in In(V, head)
    BY <1>5, <1>8, <1>9, PlacesAre DEF In
  <1>11. /\ Pointers(next', pre')
         /\ \A h \in Heads : Ring(next', pre', h, In(V, h) \cup {h}, client' = "removes")
         /\ pre'[head] = n
         /\ \A m \in Timers : m # n /\ W[m] \notin Heads => next'[m] = next[m] /\ pre'[m] = pre[m]
         /\ \A first : \A C \in SUBSET (In(W, Chained) \ {n}) :
               Chain(next, pre, first, C) => Chain(next', pre', first, C)
    BY <1>1, <1>4, <1>5, <1>6, <1>7, WhereLinked DEF Placed, Lists
  <1>12. Chain(next', pre', chain', In(V, Chained))
    <2>1. Chain(next, pre, chain, In(W, Chained))
      BY <1>1 DEF Where
    <2> QED BY <1>4, <1>10, <1>11, <2>1
  <1>13. \A m \in Timers : V[m] # Calling
    <2>1. \A m \in Timers : W[m] = Calling => m = n
      BY <1>1, <1>2 DEF Where
    <2> QED BY <1>8, <1>9, <2>1
  <1>14. \A i \in Ids : i \in live' <=> V[Timer(i)] # Gone
    <2>1. \A i \in Ids : i \in live <=> W[Timer(i)] # Gone
      BY <1>1 DEF Where
    <2> QED BY <1>4, <1>5, <1>8, <1>9, <2>1, NodesAre
  <1>15. \A i \in live' : Fits(i, V[Timer(i)])'
    <2>1. live \subseteq Ids /\ live' \subseteq live \cup {id} /\ Turns' = Turns
      BY <1>4, WheelsIs DEF Placed, Known, Ids, Turns
    <2>2. /\ \A i \in Ids : i # id => data'[i] = data[i] /\ due'[i] = due[i] /\ top'[i] = top[i]
          /\ Fits(id, head)'
      BY <1>3 DEF Seated
    <2> QED BY <1>1, <1>4, <1>5, <1>9, <2>1, <2>2, FitsMoved
  <1>16. chain # NULL => Last(V, pre[chain])'
    <2> SUFFICES ASSUME chain # NULL PROVE Last(V, pre[chain])'
      OBVIOUS
    <2>1. pre'[chain'] = pre'[head]
      BY <1>4, <1>5, <1>11, PlacesAre
    <2>2. In(V, head) # {}
      BY <1>10
    <2> QED BY <1>4, <1>5, <2>1, <2>2 DEF Last
  <1>17. Where(V)'
    BY <1>4, <1>9, <1>11, <1>12, <1>13, <1>14, <1>15, <1>16 DEF Where
  <1> QED BY <1>4, <1>11, <1>17 DEF Placed, Lists

\* submit_timer comes as far as the highest of the wheels that have come round.
LEMMA HighestTurned == \E l \in Turned : \A j \in Turned : j <= l
  <1>1. Turned \subseteq 1..Levels /\ 1 \in Turned /\ Levels \in Nat \ {0}
    BY WheelsIs DEF Turned
  <1> DEFINE S == {n \in Nat : (\E j \in Turned : j <= n) =>
                                  \E l \in Turned : \A j \in Turned : j <= n => j <= l}
  <1>2. 0 \in S
    BY <1>1
  <1>3. ASSUME NEW n \in 0..(Levels - 1), n \in S PROVE n + 1 \in S
    <2>1. n \in Nat /\ n + 1 \in Nat
      BY <1>1
    <2>2. CASE n + 1 \in Turned
      BY <2>1, <2>2
    <2>3. CASE n + 1 \notin Turned
      <3>1. \A j \in Turned : j <= n + 1 => j <= n
        BY <1>1, <2>1, <2>3
      <3> QED BY <1>3, <2>1, <3>1
    <2> QED BY <2>2, <2>3
  <1>4. Levels \in S
    <2> HIDE DEF S
    <2>1. 0..Levels \subseteq S
      BY <1>2, <1>3, Upwards
    <2> QED BY <1>1, <2>1
  <1> QED BY <1>1, <1>4

LEMMA SubmitWheels ==
    ASSUME Wheels, submit_timer
    PROVE  Wheels'
  <1>1. PICK m : m = CHOOSE l \in Turned : \A j \in Turned : j <= l
    OBVIOUS
  <1>2. m \in Turned
    BY <1>1, HighestTurned
  <1>3. level' = m /\ pc' = "submit" /\
        cur' = [l \in 1..Levels |-> IF l \in Turned /\ cur[l] = Lens[l] THEN 0 ELSE cur[l]]
    BY <1>1 DEF submit_timer
  <1>4. /\ Levels \in Nat \ {0} /\ \A l \in 1..Levels : Lens[l] \in Nat \ {0}
        /\ \A l \in 1..Levels : cur[l] \in 0..Lens[l]
    BY WheelsIs DEF Wheels, Turning
  <1>5. m \in 1..Levels /\ \A j \in 1..(m - 1) : cur[j] = Lens[j]
    BY <1>2 DEF Turned
  <1>6. \A j \in 1..(m - 1) : j \in Turned
    BY <1>4, <1>5 DEF Turned
  <1>7. \A j \in 1..(m - 1) : cur'[j] = 0
    BY <1>3, <1>4, <1>5, <1>6
  <1>8. cur'[m] < Lens[m]
    BY <1>2, <1>3, <1>4, <1>5
  <1>9. cur' \in [1..Levels -> Nat] /\ \A l \in 1..Levels : cur'[l] \in 0..Lens[l]
    BY <1>3, <1>4
  <1> QED BY <1>3, <1>5, <1>7, <1>8, <1>9 DEF Wheels, Turning

\* Between two steps every slot is a step away at least.
LEMMA WaitAtRest ==
    ASSUME Wheels, Turns = 0, NEW h \in Heads
    PROVE  Wait(h) \in Nat \ {0}
  <1>1. PICK l, s, c, n : l = h[1] /\ s = h[2] /\ c = cur[l] /\ n = Lens[l]
    OBVIOUS
  <1>2. /\ l \in 1..Levels /\ s \in 0..(n - 1) /\ c \in 0..n /\ n \in Nat
        /\ cur \in [1..Levels -> Int] /\ \A j \in 1..Levels : cur[j] <= Lens[j]
    BY <1>1, HeadsAre, WheelsIs DEF Wheels, Turning
  <1>3. PICK a, r, u : a = Ahead(cur)[l] /\ r = Rounds(l, s, c) /\ u = Units(l)
    OBVIOUS
  <1>4. a \in Nat
    BY <1>2, <1>3, AheadNat
  <1>5. r \in Nat
    <2>1. r = IF s >= c THEN s - c ELSE s + n - c
      BY <1>1, <1>3 DEF Rounds
    <2> QED BY <1>2, <2>1
  <1>6. u \in Nat \ {0}
    BY <1>2, <1>3, UnitsAre
  <1>7. r * u \in Nat
    BY <1>5, <1>6, Monotone
  <1>8. Position = cur
    BY <1>2, PositionAtRest
  <1>9. Wait(h) = a + r * u + 1
    BY <1>1, <1>3, <1>8 DEF Wait
  <1>10. PICK w : w = r * u
    OBVIOUS
  <1> QED BY <1>4, <1>7, <1>9, <1>10

\* With the step that begins every slot is a step nearer, wherever the wheels that have come
\* round begin again.
LEMMA TimerTurns ==
    ASSUME Wheels, submit_timer, NEW h \in Heads
    PROVE  Wait(h)' = Wait(h) - 1
  <1>1. PICK m : m = CHOOSE l \in Turned : \A j \in Turned : j <= l
    OBVIOUS
  <1>2. PICK e, g, p, q : e = Position /\ g = Position' /\ p = cur /\ q = cur'
    OBVIOUS
  <1>3. m \in Turned /\ \A j \in Turned : j <= m
    BY <1>1, HighestTurned
  <1>4. /\ Turns = 0 /\ Turns' = m
        /\ q = [l \in 1..Levels |-> IF l \in Turned /\ p[l] = Lens[l] THEN 0 ELSE p[l]]
    BY <1>1, <1>2 DEF submit_timer, Turns
  <1>5. /\ Levels \in Nat \ {0} /\ \A l \in 1..Levels : Lens[l] \in Nat \ {0}
        /\ p \in [1..Levels -> Nat] /\ \A l \in 1..Levels : p[l] \in 0..Lens[l]
    BY <1>2, WheelsIs DEF Wheels, Turning
  <1>6. /\ m \in 1..Levels /\ \A j \in 1..(m - 1) : p[j] = Lens[j]
        /\ m < Levels => p[m] # Lens[m]
    <2>1. Turned = {l \in 1..Levels : \A j \in 1..(l - 1) : p[j] = Lens[j]}
      BY <1>2 DEF Turned
    <2>2. m \in 1..Levels /\ \A j \in 1..(m - 1) : p[j] = Lens[j]
      BY <1>3, <2>1
    <2>3. ASSUME m < Levels, p[m] = Lens[m] PROVE FALSE
      <3>1. \A j \in 1..((m + 1) - 1) : p[j] = Lens[j]
        BY <1>5, <2>2, <2>3
      <3>2. m + 1 \in 1..Levels
        BY <1>5, <2>2, <2>3
      <3>3. m + 1 \in Turned
        BY <2>1, <3>1, <3>2
      <3> QED BY <1>3, <1>5, <2>2, <3>3
    <2> QED BY <2>2, <2>3
  <1>7. e = p /\ e \in [1..Levels -> Int]
    BY <1>2, <1>4, <1>5, PositionAtRest
  <1>8. g = [l \in 1..Levels |-> IF l < m THEN Lens[l] ELSE q[l]]
    BY <1>2, <1>4 DEF Position
  <1>9. q \in [1..Levels -> Int] /\ g \in [1..Levels -> Int]
    <2>1. q \in [1..Levels -> Int]
      BY <1>4, <1>5
    <2> QED BY <1>5, <1>8, <2>1
  <1>10. ASSUME NEW j \in 1..Levels, j # Levels PROVE g[j] = e[j]
    <2>1. CASE j < m
      BY <1>5, <1>6, <1>7, <1>8, <2>1
    <2>2. CASE j = m
      <3>1. q[j] = p[j]
        BY <1>4, <1>5, <1>6, <1>10, <2>2
      <3> QED BY <1>5, <1>6, <1>7, <1>8, <2>2, <3>1
    <2>3. CASE j > m
      <3>1. j \notin Turned
        BY <1>3, <1>5, <1>6, <2>3
      <3>2. q[j] = p[j]
        BY <1>4, <3>1
      <3> QED BY <1>5, <1>6, <1>7, <1>8, <2>3, <3>2
    <2> QED BY <1>5, <1>6, <2>1, <2>2, <2>3
  <1>11. \A l \in 1..Levels : Ahead(g)[l] = Ahead(e)[l] + 0
    <2>1. PICK k, d : k = 1 /\ d = 0
      OBVIOUS
    <2>2. Ahead(g)[1] = 0 /\ Ahead(e)[1] = 0
      BY <1>7, <1>9, AheadIs DEF IsAhead
    <2>3. k \in 1..Levels /\ d \in Int /\ \A j \in k..(Levels - 1) : g[j] = e[j]
      BY <1>5, <1>10, <2>1
    <2>4. Ahead(g)[k] = Ahead(e)[k] + d
      BY <2>1, <2>2
    <2>5. \A l \in k..Levels : Ahead(g)[l] = Ahead(e)[l] + d
      BY <1>7, <1>9, <2>3, <2>4, AheadShift
    <2> QED BY <2>1, <2>5
  <1>12. PICK l, s, a, b, r, r2, u : /\ l = h[1] /\ s = h[2]
                                    /\ a = Ahead(e)[l] /\ b = Ahead(g)[l]
                                    /\ r = Rounds(l, s, p[l]) /\ r2 = Rounds(l, s, q[l])
                                    /\ u = Units(l)
    OBVIOUS
  <1>13. l \in 1..Levels /\ s \in 0..(Lens[l] - 1)
    BY <1>12, HeadsAre
  <1>14. a \in Int /\ b = a /\ u \in Nat \ {0}
    <2>1. a \in Int
      BY <1>7, <1>12, <1>13, AheadIs DEF IsAhead
    <2>2. b = a + 0
      BY <1>11, <1>12, <1>13
    <2> QED BY <1>12, <1>13, <2>1, <2>2, UnitsAre
  <1>15. r2 = r /\ r \in Int
    <2>1. q[l] = p[l] \/ (q[l] = 0 /\ p[l] = Lens[l])
      BY <1>4, <1>13
    <2>2. Lens[l] \in Nat /\ p[l] \in Nat
      BY <1>5, <1>13
    <2>3. Rounds(l, s, Lens[l]) = s /\ Rounds(l, s, 0) = s
      BY <1>13, <2>2 DEF Rounds
    <2>4. r \in Int
      BY <1>12, <1>13, <2>2 DEF Rounds
    <2> QED BY <1>12, <2>1, <2>3, <2>4
  <1>16. Wait(h) = a + r * u + 1
    BY <1>2, <1>4, <1>12 DEF Wait
  <1>17. Wait(h)' = b + r2 * u + 0
    <2>1. Turns' # 0
      BY <1>4, <1>6
    <2> QED BY <1>2, <1>12, <2>1 DEF Wait
  <1>18. PICK w : w = r * u
    OBVIOUS
  <1>19. w \in Int
    BY <1>14, <1>15, <1>18, Distribute
  <1> QED BY <1>14, <1>15, <1>16, <1>17, <1>18, <1>19

LEMMA TimerFits ==
    ASSUME Wheels, Known, submit_timer, NEW i \in live, NEW h \in Heads, Fits(i, h)
    PROVE  Fits(i, h)'
  <1>1. live \subseteq Ids
    BY WheelsIs DEF Known, Ids
  <1>2. /\ data' = data /\ top' = top /\ pc = "remove"
        /\ due' = [id \in Ids |-> IF id \in live THEN due[id] - 1 ELSE due[id]]
    BY DEF submit_timer
  <1>3. i \in Ids /\ due[i] \in Int /\ data[i].next \in Nat
    BY <1>1 DEF Known
  <1>4. PICK x, w, y : x = due[i] /\ w = Wait(h) /\ y = data[i].next \div Step
    OBVIOUS
  <1>5. y \in Int /\ w \in Int /\ x \in Int
    <2>1. Turns = 0
      BY <1>2 DEF Turns
    <2>2. w \in Nat
      BY <1>4, <2>1, WaitAtRest
    <2>3. y \in Nat
      BY <1>3, <1>4, WheelsIs, Division
    <2> QED BY <1>3, <1>4, <2>2, <2>3
  <1>6. due'[i] = x - 1 /\ Wait(h)' = w - 1 /\ data'[i].next \div Step = y
    BY <1>2, <1>3, <1>4, TimerTurns
  <1>7. (x - 1) - (w - 1) - y = x - w - y
    BY <1>5
  <1>8. InTime(i, h[1], x - w - y)
    BY <1>4 DEF Fits
  <1>9. InTime(i, h[1], due[i] - Wait(h) - data[i].next \div Step)'
    BY <1>2, <1>6, <1>7, <1>8 DEF InTime
  <1>10. data'[i].next < Span(h)'
    <2>1. data[i].next < Span(h)
      BY DEF Fits
    <2> QED BY <1>2, <2>1 DEF Span
  <1> QED BY <1>9, <1>10 DEF Fits

LEMMA ListsNext ==
    ASSUME Placed, [Next]_vars
    PROVE  Lists'
  <1>1. Known /\ Lists /\ (pc \notin {"cascade", "call", "in_call"} => chain = NULL)
    BY DEF Placed, Lists
  <1>2. ASSUME NEW delay \in Delays, NEW interval \in Intervals, NEW times \in Times,
               add_timer(delay, interval, times)
        PROVE  Lists'
    BY <1>2, AddTimerLists
  <1>3. ASSUME NEW id \in Ids, remove_timer(id) PROVE Lists'
    BY <1>1, <1>3, ListsStill DEF remove_timer, links, run, hist, Turns
  <1>4. ASSUME release PROVE Lists'
    <2>1. pc = "idle" /\ chain' = NULL
      BY <1>1, <1>4 DEF release
    <2>2. Fresh'
      BY <1>4, <2>1 DEF release, Fresh
    <2>3. (Fresh => Lists)'
      BY ListsFresh, PTL
    <2> QED BY <2>2, <2>3
  <1>5. ASSUME NEW ms \in Elapsed, tick(ms) PROVE Lists'
    <2>1. chain = NULL /\ pc # "in_call" /\ pc' # "in_call" /\ Turns' = Turns
      BY <1>1, <1>5 DEF tick, Turns
    <2> QED BY <1>1, <1>5, <2>1, ListsStill DEF tick, links, hist
  <1>6. ASSUME begin_step \/ tick_return PROVE Lists'
    BY <1>1, <1>6, ListsStill DEF begin_step, tick_return, links, hist, Turns
  <1>7. ASSUME NEW id \in Ids, remove(id) PROVE Lists'
    BY <1>7, RemoveLists
  <1>8. ASSUME submit_timer PROVE Lists'
    <2>1. \A i \in live : \A h \in Heads : Fits(i, h) => Fits(i, h)'
      BY <1>8, TimerFits DEF Placed
    <2> QED BY <1>1, <1>8, <2>1, ListsSame DEF submit_timer
  <1>9. ASSUME cascaded \/ end_step PROVE Lists'
    <2>1. Turns' = Turns
      BY <1>9 DEF cascaded, end_step, Turns
    <2> QED BY <1>1, <1>9, <2>1, ListsStill DEF cascaded, end_step, links, hist
  <1>10. ASSUME UNCHANGED vars PROVE Lists'
    <2>1. /\ UNCHANGED <<client, pre, next, live, data, pc, chain, node, level, cur, due, top>>
          /\ Turns' = Turns
      BY <1>10 DEF vars, links, run, hist, Turns
    <2>2. PICK W : Where(W)
      BY DEF Placed, Lists
    <2>3. \A i \in live : Fits(i, W[Timer(i)])'
      <3>1. \A i \in live : Fits(i, W[Timer(i)])
        BY <2>2 DEF Where
      <3> QED BY <2>1, <3>1, FitsKept
    <2>4. Where(W)'
      BY <2>1, <2>2, <2>3 DEF Where, Last
    <2> QED BY <1>1, <2>1, <2>4 DEF Lists
  <1> QED BY <1>2, <1>3, <1>4, <1>5, <1>6, <1>7, <1>8, <1>9, <1>10, SubmitSlotLists,
             CascadeLists, CallLists, CallLastLists, CallAgainLists DEF Next, step

-----------------------------------------------------------------------------
(* The steps of the wheels.                                                *)

LEMMA WheelsNext ==
    ASSUME Placed, [Next]_vars
    PROVE  Wheels'
  <1>1. Wheels
    BY DEF Placed
  <1>2. /\ cur \in [1..Levels -> Nat] /\ Turning /\ level \in 1..Levels /\ Levels \in Nat \ {0}
        /\ \A l \in 1..Levels : cur[l] \in 0..Lens[l] /\ Lens[l] \in Nat \ {0}
    BY <1>1, WheelsIs DEF Wheels, Turning
  \* Whatever does not turn a wheel.
  <1>3. ASSUME UNCHANGED <<cur, level>>,
               pc' = pc \/ pc' \in {"idle", "loop", "remove", "released"}
                        \/ (pc \in {"call", "in_call"} /\ pc' \in {"call", "in_call"})
        PROVE  Wheels'
    BY <1>1, <1>3 DEF Wheels, Turning
  <1>4. ASSUME NEW delay \in Delays, NEW interval \in Intervals, NEW times \in Times,
               add_timer(delay, interval, times)
        PROVE  Wheels'
    BY <1>3, <1>4 DEF add_timer, run
  <1>5. ASSUME NEW id \in Ids, remove_timer(id) \/ remove(id) PROVE Wheels'
    BY <1>3, <1>5 DEF remove_timer, remove, links, run
  <1>6. ASSUME release \/ begin_step \/ tick_return \/ end_step PROVE Wheels'
    BY <1>3, <1>6 DEF release, begin_step, tick_return, end_step, links
  <1>7. ASSUME NEW ms \in Elapsed, tick(ms) PROVE Wheels'
    BY <1>3, <1>7 DEF tick, links
  <1>8. ASSUME submit_slot PROVE Wheels'
    <2>1. /\ cur' = [cur EXCEPT ![level] = cur[level] + 1] /\ level' = level
          /\ pc = "submit" /\ pc' = IF level = 1 THEN "call" ELSE "cascade"
      BY <1>8 DEF submit_slot
    <2>2. cur[level] < Lens[level] /\ \A j \in 1..(level - 1) : cur[j] = 0
      BY <1>1, <2>1 DEF Wheels
    <2>3. cur' \in [1..Levels -> Nat] /\ \A l \in 1..Levels : cur'[l] \in 0..Lens[l]
      BY <1>2, <2>1, <2>2
    <2>4. \A j \in 1..(level - 1) : cur'[j] = 0
      BY <1>2, <2>1, <2>2
    <2>5. pc' = "cascade" => level > 1
      BY <1>2, <2>1
    <2>6. pc' \in {"call", "in_call"} => level = 1
      BY <2>1
    <2>7. pc' # "submit"
      BY <2>1
    <2> QED BY <1>2, <2>1, <2>3, <2>4, <2>5, <2>6, <2>7 DEF Wheels, Turning
  <1>9. ASSUME cascaded PROVE Wheels'
    <2>1. /\ cur' = cur /\ level' = level - 1 /\ pc = "cascade" /\ pc' = "submit"
      BY <1>9 DEF cascaded, links
    <2>2. level > 1 /\ \A j \in 1..(level - 1) : cur[j] = 0
      BY <1>1, <2>1 DEF Wheels
    <2>3. level' \in 1..Levels /\ cur[level'] = 0 /\ \A j \in 1..(level' - 1) : cur[j] = 0
      BY <1>2, <2>1, <2>2
    <2>4. Turning'
      BY <1>2, <2>1 DEF Turning
    <2> QED BY <1>2, <2>1, <2>3, <2>4 DEF Wheels
  <1>10. ASSUME cascade PROVE Wheels'
    BY <1>3, <1>10 DEF cascade
  <1>11. ASSUME call \/ call_last \/ call_again PROVE Wheels'
    BY <1>3, <1>11 DEF call, call_last, call_again, links
  <1>12. ASSUME UNCHANGED vars PROVE Wheels'
    BY <1>3, <1>12 DEF vars, links, run
  <1> QED BY <1>1, <1>4, <1>5, <1>6, <1>7, <1>8, <1>9, <1>10, <1>11, <1>12, SubmitWheels
          DEF Next, step

-----------------------------------------------------------------------------
(* The steps of what the manager knows.                                    *)

LEMMA KnownNext ==
    ASSUME Placed, [Next]_vars
    PROVE  Known'
  <1>1. Known /\ Lists
    BY DEF Placed
  <1>2. /\ client \in {"repeats", "removes"} /\ ids \in 0..MaxId /\ MaxId \in Nat
        /\ live \subseteq timers /\ timers \subseteq 1..ids /\ live \subseteq Ids
        /\ removeList \subseteq live
        /\ removeList # {} => client = "removes" /\ pc \in {"idle", "loop", "remove"}
        /\ data \in [Ids -> Datum]
        /\ due \in [Ids -> Int] /\ top \in [Ids -> 1..Levels]
    <2>1. live \subseteq Ids /\ MaxId \in Nat
      BY <1>1, WheelsIs DEF Known, Ids
    <2>2. data \in [Ids -> Datum]
      BY <1>1 DEF Known, Datum
    <2> QED BY <1>1, <2>1, <2>2 DEF Known
  <1>3. \A id \in live : /\ \E i \in Intervals : data[id].interval = i + Half
                         /\ data[id].times # 0
                         /\ client = "removes" => data[id].times = 1
    BY <1>1 DEF Known
  \* Whatever leaves the timers alone.
  <1>4. ASSUME UNCHANGED <<client, ids, live, timers, data>>, removeList' \subseteq live,
               removeList' # {} => client = "removes" /\ pc' \in {"idle", "loop", "remove"},
               top' = top, due' \in [Ids -> Int]
        PROVE  Known'
    BY <1>1, <1>4 DEF Known
  <1>5. ASSUME NEW delay \in Delays, NEW interval \in Intervals, NEW times \in Times,
               add_timer(delay, interval, times)
        PROVE  Known'
    <2>1. PICK id : id = ids + 1
      OBVIOUS
    <2>2. PICK head \in Heads, d \in Datum :
             Seated(id, d, head) /\ d.interval = interval + Half /\ d.times = times
      BY <1>1, <1>5, <2>1, AddTimerSeat DEF Placed
    <2>3. id \in Ids /\ ids' = id
      BY <1>1, <1>5, <2>1, AddTimerSeat DEF Placed
    <2>4. /\ live' = live \cup {id} /\ timers' = timers \cup {id}
          /\ UNCHANGED <<client, removeList, pc>>
          /\ times > 1 => client = "repeats"
      BY <1>5, <2>1 DEF add_timer, run
    <2>5. times \in Nat \ {0}
      BY TimerAssumption
    <2>6. /\ data' \in [Ids -> Datum]
          /\ due' \in [Ids -> Int] /\ top' \in [Ids -> 1..Levels]
          /\ data'[id].interval = interval + Half /\ data'[id].times = times
          /\ \A i \in Ids : i # id => data'[i] = data[i]
      BY <2>2 DEF Seated
    <2>7. client = "removes" => times = 1
      BY <2>4, <2>5
    <2>8. \A i \in live' : /\ \E k \in Intervals : data'[i].interval = k + Half
                           /\ data'[i].times # 0
                           /\ client = "removes" => data'[i].times = 1
      <3> SUFFICES ASSUME NEW i \in live'
                   PROVE  /\ \E k \in Intervals : data'[i].interval = k + Half
                          /\ data'[i].times # 0
                          /\ client = "removes" => data'[i].times = 1
        OBVIOUS
      <3>1. CASE i = id
        BY <2>5, <2>6, <2>7, <3>1
      <3>2. CASE i # id
        <4>1. i \in live /\ data'[i] = data[i]
          BY <1>2, <2>4, <2>6, <3>2
        <4> QED BY <1>3, <4>1
      <3> QED BY <3>1, <3>2
    <2>9. /\ ids' \in 0..MaxId /\ live' \subseteq timers' /\ timers' \subseteq 1..ids'
          /\ removeList' \subseteq live'
      BY <1>2, <2>1, <2>3, <2>4 DEF Ids
    <2> QED BY <1>2, <2>4, <2>6, <2>8, <2>9 DEF Known, Datum
  <1>6. ASSUME NEW id \in Ids, remove_timer(id) PROVE Known'
    BY <1>2, <1>4, <1>6 DEF remove_timer, run, hist
  <1>7. ASSUME release PROVE Known'
    <2>1. /\ live' = {} /\ timers' = {} /\ removeList' = {} /\ UNCHANGED <<client, ids>>
          /\ data' = [id \in Ids |-> NoData] /\ due' = due /\ top' = top
      BY <1>7 DEF release, hist
    <2>2. data' \in [Ids -> Datum]
      BY <2>1 DEF NoData, Datum
    <2> QED BY <1>2, <2>1, <2>2 DEF Known, Datum
  <1>8. ASSUME NEW ms \in Elapsed, tick(ms) PROVE Known'
    BY <1>2, <1>4, <1>8 DEF tick, hist
  <1>9. ASSUME begin_step \/ tick_return PROVE Known'
    BY <1>2, <1>4, <1>9 DEF begin_step, tick_return, manager, hist
  <1>10. ASSUME submit_timer \/ submit_slot \/ cascaded \/ call \/ end_step PROVE Known'
    <2>1. due' \in [Ids -> Int] /\ top' = top
      <3>1. CASE submit_timer
        BY <1>2, <3>1 DEF submit_timer
      <3> QED BY <1>2, <1>10, <3>1 DEF submit_slot, cascaded, call, end_step, hist
    <2> QED BY <1>2, <1>4, <1>10, <2>1
            DEF submit_timer, submit_slot, cascaded, call, end_step, manager
  \* The timer id is gone: remove and call_last.
  <1>11. ASSUME NEW id \in live, live' = live \ {id}, UNCHANGED <<client, ids>>,
                timers' \subseteq timers, live' \subseteq timers', removeList' \subseteq live',
                removeList' # {} => client = "removes" /\ pc' \in {"idle", "loop", "remove"},
                data' = [data EXCEPT ![id] = NoData], Forget(id)
         PROVE  Known'
    <2>1. due' \in [Ids -> Int] /\ top' \in [Ids -> 1..Levels]
      <3>1. id \in Ids /\ Forget(id)
        BY <1>2, <1>11
      <3> QED BY <1>2, <3>1, ForgetIs
    <2>2. data' \in [Ids -> Datum] /\ \A i \in Ids : i # id => data'[i] = data[i]
      BY <1>2, <1>11 DEF NoData, Datum
    <2>3. \A i \in live' : i \in live /\ data'[i] = data[i]
      BY <1>2, <1>11, <2>2
    <2>4. \A i \in live' : /\ \E k \in Intervals : data'[i].interval = k + Half
                           /\ data'[i].times # 0
                           /\ client = "removes" => data'[i].times = 1
      BY <1>3, <2>3
    <2> QED BY <1>2, <1>11, <2>1, <2>2, <2>4 DEF Known, Datum
  <1>12. ASSUME NEW id \in Ids, remove(id) PROVE Known'
    <2>1. id \in live /\ id \in timers /\ pc = "remove" /\ id \in removeList
      BY <1>2, <1>12 DEF remove
    <2>2. /\ live' = live \ {id} /\ data' = [data EXCEPT ![id] = NoData]
          /\ removeList' = removeList \ {id} /\ timers' = timers \ {id}
          /\ UNCHANGED <<client, ids, pc>> /\ Forget(id)
      BY <1>12, <2>1 DEF remove, run
    <2> QED BY <1>2, <1>11, <2>1, <2>2
  <1>13. ASSUME cascade PROVE Known'
    <2>1. PICK id : id = chain[2]
      OBVIOUS
    <2>2. PICK head \in Heads : Seated(id, data[id], head)
      BY <1>13, <2>1, CascadeSeat
    <2>3. UNCHANGED <<client, live, timers, removeList, ids, pc>>
      BY <1>13 DEF cascade, manager
    <2>4. /\ data' \in [Ids -> Datum]
          /\ due' \in [Ids -> Int] /\ top' \in [Ids -> 1..Levels]
          /\ data'[id].interval = data[id].interval /\ data'[id].times = data[id].times
          /\ \A i \in Ids : i # id => data'[i] = data[i]
      BY <2>2 DEF Seated
    <2>5. \A i \in live : data'[i].interval = data[i].interval /\ data'[i].times = data[i].times
      BY <1>2, <2>4
    <2> QED BY <1>2, <1>3, <2>3, <2>4, <2>5 DEF Known, Datum
  <1>14. ASSUME call_last PROVE Known'
    <2>1. PICK W : Where(W)
      BY <1>1 DEF Lists
    <2>2. PICK id : id = node
      OBVIOUS
    <2>3. /\ pc = "in_call" /\ live' = live \ {id} /\ data' = [data EXCEPT ![id] = NoData]
          /\ UNCHANGED <<client, ids, timers, removeList>> /\ Forget(id)
      BY <1>14, <2>2 DEF call_last, manager
    <2>4. id \in live
      BY <2>1, <2>2, <2>3, CalledTimer
    <2> QED BY <1>2, <1>11, <2>3, <2>4
  <1>15. ASSUME call_again PROVE Known'
    <2>1. PICK id : id = node
      OBVIOUS
    <2>2. PICK head \in Heads, d \in Datum :
             /\ Seated(id, d, head)
             /\ d.interval = data[id].interval /\ d.times # 0
      BY <1>15, <2>1, CallAgainSeat
    <2>3. /\ pc = "in_call" /\ UNCHANGED <<client, live, timers, removeList, ids>>
          /\ client = "repeats"
      BY <1>15, CallAgainSeat DEF call_again, manager
    <2>4. /\ data' \in [Ids -> Datum]
          /\ due' \in [Ids -> Int] /\ top' \in [Ids -> 1..Levels]
          /\ data'[id].interval = data[id].interval /\ data'[id].times # 0
          /\ \A i \in Ids : i # id => data'[i] = data[i]
      BY <2>2 DEF Seated
    <2>5. \A i \in live : data'[i].interval = data[i].interval /\ data'[i].times # 0
      BY <1>2, <1>3, <2>4
    <2>6. removeList = {}
      BY <1>2, <2>3
    <2> QED BY <1>2, <1>3, <2>3, <2>4, <2>5, <2>6 DEF Known, Datum
  <1>16. ASSUME UNCHANGED vars PROVE Known'
    BY <1>2, <1>4, <1>16 DEF vars, manager, run, hist
  <1> QED BY <1>5, <1>6, <1>7, <1>8, <1>9, <1>10, <1>12, <1>13, <1>14, <1>15, <1>16
          DEF Next, step

-----------------------------------------------------------------------------
(* The invariant.                                                          *)

LEMMA PlacedInit == Init => Placed
  <1> SUFFICES ASSUME Init PROVE Placed
    OBVIOUS
  <1>1. Lists
    <2>1. Fresh
      BY DEF Init, Fresh
    <2> QED BY <2>1, ListsFresh
  <1>2. Wheels
    BY WheelsIs DEF Init, Wheels, Turning
  <1>3. Known
    BY WheelsIs DEF Init, Known, NoData
  <1> QED BY <1>1, <1>2, <1>3 DEF Placed

LEMMA PlacedNext == Placed /\ [Next]_vars => Placed'
  <1> SUFFICES ASSUME Placed, [Next]_vars PROVE Placed'
    OBVIOUS
  <1>1. Wheels' /\ Known' /\ Lists'
    BY WheelsNext, KnownNext, ListsNext
  <1> QED BY <1>1 DEF Placed

LEMMA TypeOKIs == ClockInv /\ Placed => TypeOK
  <1> SUFFICES ASSUME ClockInv, Placed PROVE TypeOK
    OBVIOUS
  <1>1. fixTime \in 0..(Step - 1) \/ pc # "idle"
    BY WheelsIs DEF ClockInv, Idle
  <1>2. pre \in [Nodes -> Nodes] /\ next \in [Nodes -> Nodes] /\ chain \in Timers \cup {NULL}
    BY DEF Placed, Lists, Pointers
  <1>3. level \in 1..Levels /\ \A l \in 1..Levels : cur[l] \in 0..Lens[l]
    BY DEF Placed, Wheels, Turning
  <1>4. /\ client \in {"repeats", "removes"} /\ ids \in 0..MaxId
        /\ live \subseteq Ids /\ timers \subseteq Ids /\ removeList \subseteq Ids
        /\ \A id \in Ids : data[id].next \in Nat /\ data[id].times \in Nat
    BY WheelsIs DEF Placed, Known, Ids
  <1> QED BY <1>1, <1>2, <1>3, <1>4 DEF TypeOK

LEMMA RingsOKIs == ClockInv /\ Placed => RingsOK
  <1> SUFFICES ASSUME ClockInv, Placed PROVE RingsOK
    OBVIOUS
  <1>1. PICK W : Where(W)
    BY DEF Placed, Lists
  <1>2. /\ W \in [Timers -> Places]
        /\ \A h \in Heads : Ring(next, pre, h, In(W, h) \cup {h}, client = "removes")
        /\ Chain(next, pre, chain, In(W, Chained)) /\ chain \in Timers \cup {NULL}
    BY <1>1 DEF Where, Placed, Lists
  <1>3. ASSUME NEW h \in Heads
        PROVE  /\ InSlot(h) = In(W, h)
               /\ next[h] = h <=> pre[h] = h
               /\ next[h] # h => /\ pre[h] \in In(W, h)
                                 /\ \A n \in In(W, h) \ {pre[h]} : next[n] \in Timers
    <2>1. PICK C : C = In(W, h) \cup {h}
      OBVIOUS
    <2>2. C \ {h} = In(W, h)
      BY <2>1, NodesAre DEF In
    <2>3. Ring(next, pre, h, C, client = "removes")
      BY <1>2, <2>1
    <2>4. /\ InSlot(h) = C \ {h} /\ (next[h] = h <=> pre[h] = h)
          /\ next[h] # h => /\ pre[h] \in C \ {h}
                            /\ \A n \in C \ {h, pre[h]} : next[n] \in Timers
      BY <2>3, RingMet
    <2> QED BY <2>2, <2>4
  <1>4. InChain = In(W, Chained) /\ \A n \in InChain : next[n] \in Timers \cup {NULL}
    BY <1>2, ChainMet
  <1>5. Called = In(W, Calling)
    <2>1. pc = "in_call" => Timer(node) \in Timers
      BY NodesAre DEF Placed, Lists
    <2>2. \A n \in Timers : W[n] = Calling <=> pc = "in_call" /\ n = Timer(node)
      BY <1>1 DEF Where
    <2> QED BY <2>1, <2>2 DEF Called, In
  <1>6. PICK slots : slots = {<<h, InSlot(h)>> : h \in Heads}
    OBVIOUS
  <1>7. /\ \A s \in slots : s[1] \in Heads /\ s[2] = In(W, s[1]) /\ s = <<s[1], s[2]>>
        /\ \A h \in Heads : <<h, In(W, h)>> \in slots
    BY <1>3, <1>6
  <1>8. UNION ({s[2] : s \in slots} \cup {InChain, Called}) = {Timer(id) : id \in live}
    <2>1. PICK U : U = UNION ({s[2] : s \in slots} \cup {InChain, Called})
      OBVIOUS
    <2>2. \A n : n \in U <=> (\E s \in slots : n \in s[2]) \/ n \in InChain \/ n \in Called
      BY <2>1
    <2>3. \A n : n \in U <=> n \in Timers /\ W[n] # Gone
      <3>1. ASSUME NEW n \in U PROVE n \in Timers /\ W[n] # Gone
        BY <1>4, <1>5, <1>7, <2>2, PlacesAre DEF In
      <3>2. ASSUME NEW n \in Timers, W[n] # Gone PROVE n \in U
        <4>1. CASE W[n] \in Heads
          <5>1. n \in In(W, W[n]) /\ <<W[n], In(W, W[n])>> \in slots
            BY <1>7, <4>1 DEF In
          <5> QED BY <2>2, <5>1
        <4>2. CASE W[n] \notin Heads
          <5>1. n \in In(W, Chained) \/ n \in In(W, Calling)
            BY <1>2, <3>2, <4>2 DEF Places, In
          <5> QED BY <1>4, <1>5, <2>2, <5>1
        <4> QED BY <4>1, <4>2
      <3> QED BY <3>1, <3>2
    <2>4. /\ \A n \in Timers : n[2] \in Ids /\ n = Timer(n[2])
          /\ \A id \in live : id \in Ids /\ Timer(id) \in Timers
      BY NodesAre, WheelsIs DEF Placed, Known, Ids
    <2>5. \A id \in Ids : id \in live <=> W[Timer(id)] # Gone
      BY <1>1 DEF Where
    <2>6. U = {Timer(id) : id \in live}
      BY <2>3, <2>4, <2>5
    <2> QED BY <2>1, <2>6
  <1>9. \A s, r \in slots : s # r => s[2] \cap r[2] = {}
    <2> SUFFICES ASSUME NEW s \in slots, NEW r \in slots, s # r PROVE s[2] \cap r[2] = {}
      OBVIOUS
    <2>1. s[1] # r[1]
      BY <1>7
    <2> QED BY <1>7, <2>1 DEF In
  <1>10. \A s \in slots : s[2] \cap (InChain \cup Called) = {}
    BY <1>4, <1>5, <1>7, PlacesAre DEF In
  <1>11. InChain \cap Called = {}
    BY <1>4, <1>5, PlacesAre DEF In
  <1>12. \A s \in slots :
            /\ next[s[1]] = s[1] <=> pre[s[1]] = s[1]
            /\ next[s[1]] # s[1] => /\ pre[s[1]] \in s[2]
                                    /\ \A n \in s[2] \ {pre[s[1]]} : next[n] \in Timers
    BY <1>3, <1>7
  <1>13. TypeOK
    BY TypeOKIs
  <1> QED BY <1>4, <1>6, <1>8, <1>9, <1>10, <1>11, <1>12, <1>13 DEF RingsOK

\* However many wheels there are and however long, and whatever is added, removed and
\* called: every timer that is not deleted is in one slot, in the chain or being called,
\* once, and no pointer that is followed leads to a deleted one
\* (TimerWheel.cpp:57-71, 149-209, STTimerMgr.cpp:136-161).
THEOREM TimerRingsOK == Spec => []RingsOK
  <1> QED
    BY ClockInit, ClockNext, PlacedInit, PlacedNext, RingsOKIs, PTL DEF Spec

\* A timer that is removed between two ticks is not called any more
\* (STTimerMgr.cpp:134-145, 219-225).
THEOREM TimerRemovedSilent == Spec => []RemovedSilent
  <1>1. Placed => RemovedSilent
    <2> SUFFICES ASSUME Placed, pc = "in_call" PROVE node \in timers \ removeList
      BY DEF RemovedSilent
    <2>1. PICK W : Where(W)
      BY DEF Placed, Lists
    <2>2. node \in live
      BY <2>1, CalledTimer
    <2> QED BY <2>2 DEF Placed, Known
  <1> QED
    BY <1>1, PlacedInit, PlacedNext, PTL DEF Spec


\* Whatever the wheels are and whatever is added: a timer that starts in the first wheel is
\* called at its step exactly, and one that starts above it a step late at most and early by
\* no more than a step of every wheel that it comes through (TimerWheel.cpp:149-209).
THEOREM TimerOnTime == Spec => []OnTime
  <1>1. ASSUME Placed, pc = "in_call"
        PROVE  due[node] \in IF top[node] = 1 THEN {0} ELSE (-1)..Early[top[node]]
    <2>1. PICK W : Where(W)
      BY <1>1 DEF Placed, Lists
    <2>2. node \in Ids /\ InTime(node, 1, due[node])
      BY <1>1, <2>1, CalledTimer
    <2>3. due[node] \in Int /\ Early[top[node]] \in Nat
      BY <1>1, <2>2, EarlyIs DEF Placed, Known
    <2>4. Below(1) = 0
      BY DEF Below
    <2> QED BY <2>2, <2>3, <2>4 DEF InTime
  <1>2. ASSUME Placed, pc \in {"idle", "loop", "remove"}, NEW id \in live
        PROVE  due[id] >= IF top[id] = 1 THEN 1 ELSE 0
    <2>1. PICK W : Where(W)
      BY <1>2 DEF Placed, Lists
    <2>2. chain = NULL /\ pc # "in_call" /\ Turns = 0
      BY <1>2 DEF Placed, Lists, Turns
    <2>3. PICK h : h = W[Timer(id)]
      OBVIOUS
    <2>4. id \in Ids /\ h \in Heads
      BY <1>2, <2>1, <2>2, <2>3, InASlot DEF Placed
    <2>5. Fits(id, h)
      BY <1>2, <2>1, <2>3 DEF Where
    <2>6. PICK x, w, y : x = due[id] /\ w = Wait(h) /\ y = data[id].next \div Step
      OBVIOUS
    <2>7. x \in Int /\ w \in Nat \ {0} /\ y \in Nat
      <3>1. x \in Int /\ data[id].next \in Nat
        BY <1>2, <2>4, <2>6 DEF Placed, Known
      <3>2. w \in Nat \ {0}
        BY <1>2, <2>2, <2>4, <2>6, WaitAtRest DEF Placed
      <3> QED BY <2>6, <3>1, <3>2, WheelsIs, Division
    <2>8. InTime(id, h[1], x - w - y)
      BY <2>4, <2>5, <2>6 DEF Fits
    <2>9. IF top[id] = 1 THEN x - w - y = 0 ELSE -1 <= x - w - y
      BY <2>8 DEF InTime
    <2> QED BY <2>6, <2>7, <2>9
  <1>3. Placed => OnTime
    BY <1>1, <1>2 DEF OnTime
  <1> QED
    BY <1>3, PlacedInit, PlacedNext, PTL DEF Spec
=============================================================================
