-------------------------------- MODULE Timer --------------------------------
(***************************************************************************)
(* The timers: STTimerMgr (src/src/Timer/STTimerMgr.cpp) over a hierarchy  *)
(* of TimerWheels (TimerWheel.cpp), each slot a circular list of           *)
(* TimerNodes behind a head node, each node holding a TimerData.           *)
(*                                                                         *)
(* A node is <<0, id>> for the timer id and <<l, i>> for the head of slot  *)
(* i of wheel l; its two pointers are functions of the node.  Time is what *)
(* has gone by and what is still to come, never a date, so that the model  *)
(* may run for ever.  A node's memory is not used again after its delete.  *)
(*                                                                         *)
(* Two kinds of client are modelled, chosen in Init.  One repeats timers,  *)
(* and neither removes any nor adds any from a callback.  The other has    *)
(* one-shot timers, removes them between two ticks before they are called, *)
(* and adds timers from callbacks.  What either may not do corrupts the    *)
(* lists (STTimerMgr.cpp:136-161).                                         *)
(***************************************************************************)
EXTENDS Integers, Sequences

CONSTANTS Step,       \* m_step of the manager, in ms
          Lens,       \* m_len of each wheel, the first one first
          MaxId,      \* bound on the timers ever added
          Delays, Intervals, Times,   \* what add_timer is given, in ms
          Elapsed     \* the ms that go by between two calls of tick

Ids == 1..MaxId
Levels == Len(Lens)
Half == Step \div 2

\* m_step of each wheel: a round of the wheel below.
StepOf[l \in 1..Levels] == IF l = 1 THEN Step ELSE StepOf[l - 1] * Lens[l - 1]

\* The wheels reach further than any time a timer is given, as the four wheels
\* of 32 bits together do: "Timer Is Too Long" cannot come.
ASSUME TimerAssumption ==
    /\ Step \in Nat \ {0} /\ Lens \in Seq(Nat \ {0}) /\ Lens # <<>> /\ MaxId \in Nat
    /\ \A ms \in Delays \cup Intervals :
          ms \in Nat /\ ms + Half + Step <= StepOf[Levels] * Lens[Levels]
    /\ Times \subseteq Nat \ {0} /\ Elapsed \subseteq Nat \ {0}

VARIABLES
    client,      \* "repeats" or "removes"
    pre, next,   \* m_pre and m_next of every node
    cur,         \* m_cur of every wheel
    data,        \* the TimerData of every timer
    live,        \* the timers whose node is not deleted
    timers,      \* the keys of m_timers
    removeList,  \* m_removeList
    ids,         \* m_ids
    fixTime,     \* m_fixTime
    lag,         \* the clock less m_preUpTime
    dur,         \* tick's dur
    pc,          \* where tick is
    level,       \* the wheel whose submit_timer runs
    chain,       \* the local next of tick or submit_timer
    node,        \* the timer whose call runs
    owed,        \* the time since init less what m_time has counted of it
    due,         \* in how many steps each timer ought to be called
    top          \* the wheel in which each timer was put

links == <<pre, next, cur>>
manager == <<timers, removeList, ids, fixTime, lag, owed>>
run == <<dur, pc, level, chain, node>>
hist == <<due, top>>
vars == <<client, links, data, live, manager, run, hist>>

NULL == <<0, 0>>
Timer(id) == <<0, id>>
Heads == UNION {{<<l, i>> : i \in 0..(Lens[l] - 1)} : l \in 1..Levels}
Timers == {Timer(id) : id \in Ids}
Nodes == Timers \cup Heads \cup {NULL}
NoData == [next |-> 0, interval |-> 0, times |-> 0]

-----------------------------------------------------------------------------
\* Lists.  A write through a NULL pointer, which the code tests for, goes to
\* the entry of NULL and is undone there.

\* timer goes to the end of the list behind head.
Link(n, head) ==
    /\ next' = [next EXCEPT ![pre[head]] = n, ![n] = head]
    /\ pre' = [pre EXCEPT ![n] = pre[head], ![head] = n]

\* TimerNode::release
Unlink(n) ==
    /\ next' = [next EXCEPT ![pre[n]] = next[n], ![n] = NULL, ![NULL] = NULL]
    /\ pre' = [pre EXCEPT ![next[n]] = pre[n], ![n] = NULL, ![NULL] = NULL]

\* The list behind head becomes a chain that ends in NULL at both ends, and the
\* head is alone.
Detach(head) ==
    IF next[head] = head
    THEN chain' = NULL /\ UNCHANGED <<pre, next>>
    ELSE /\ chain' = next[head]
         /\ next' = [next EXCEPT ![pre[head]] = NULL, ![head] = head]
         /\ pre' = [pre EXCEPT ![next[head]] = NULL, ![head] = head]

\* Fault for OnTime: the wheel's own position is left out.
SeatFromZero(l, ms) ==
    LET offset == ms \div StepOf[l] IN
    [head |-> <<l, IF offset = 0 THEN 0 ELSE (offset - 1) % Lens[l]>>,
     next |-> ms - offset * StepOf[l]]

\* Where add_timer puts a timer in wheel l, if it belongs there, and what it
\* leaves in m_nextTime.
Seat(l, ms) ==
    LET offset == ms \div StepOf[l] IN
    [head |-> <<l, (cur[l] + (IF offset = 0 THEN 0 ELSE offset - 1)) % Lens[l]>>,
     next |-> ms - offset * StepOf[l]]

\* No slot, for a timer that the last wheel has no room for.
TooLong == [head |-> NULL, next |-> 0]

\* The same from wheel l upwards: too long for a wheel is for the next one, less
\* what is left of this one's round.
SeatFrom[l \in 1..Levels] ==
    [ms \in Nat |->
        IF ms \div StepOf[l] < Lens[l] THEN Seat(l, ms)
        ELSE IF l < Levels THEN SeatFrom[l + 1][ms - (Lens[l] - cur[l]) * StepOf[l]]
        ELSE TooLong]

\* TimerWheel::add_timer of wheel l, for the timer id with the data d.
add_to_wheel(l, id, d) ==
    LET seat == SeatFrom[l][d.next] IN
    /\ Link(Timer(id), seat.head)
    /\ data' = [data EXCEPT ![id] = [d EXCEPT !.next = seat.next]]

\* A timer with ms to go belongs to the step that is at hand when it has gone,
\* and to the next step at the least.
Expect(id, ms) ==
    /\ due' = [due EXCEPT ![id] = IF ms < Step THEN 1 ELSE ms \div Step]
    /\ top' = [top EXCEPT ![id] = SeatFrom[1][ms].head[1]]

Forget(id) == due' = [due EXCEPT ![id] = 0] /\ top' = [top EXCEPT ![id] = 1]

-----------------------------------------------------------------------------
Init ==
    /\ client \in {"repeats", "removes"}
    /\ next = [n \in Nodes |-> IF n \in Heads THEN n ELSE NULL]
    /\ pre = next
    /\ cur = [l \in 1..Levels |-> 0]
    /\ data = [id \in Ids |-> NoData]
    /\ live = {} /\ timers = {} /\ removeList = {} /\ ids = 0
    /\ fixTime = 0 /\ lag = 0 /\ dur = 0
    /\ pc = "idle" /\ level = 1 /\ chain = NULL /\ node = 0
    /\ owed = 0
    /\ due = [id \in Ids |-> 0] /\ top = [id \in Ids |-> 1]

\* STTimerMgr::add_timer, between two ticks or from a callback.
add_timer(delay, interval, times) ==
    LET id == ids + 1
        d == [next |-> delay + Half, interval |-> interval + Half, times |-> times]
    IN
    /\ pc = "idle" \/ (pc = "in_call" /\ client = "removes")
    /\ times > 1 => client = "repeats"
    /\ id <= MaxId
    /\ ids' = id
    /\ add_to_wheel(1, id, d)
    /\ Expect(id, d.next)
    /\ live' = live \cup {id}
    /\ timers' = timers \cup {id}
    /\ UNCHANGED <<client, cur, removeList, fixTime, lag, owed, run>>

\* STTimerMgr::remove_timer
remove_timer(id) ==
    /\ pc = "idle" /\ client = "removes" /\ id \in live
    /\ removeList' = removeList \cup {id}
    /\ UNCHANGED <<client, links, data, live, timers, ids, fixTime, lag, owed, run, hist>>

\* STTimerMgr::release deletes the wheels and all that is in them.
release ==
    /\ pc = "idle" /\ pc' = "released"
    /\ next' = [n \in Nodes |-> IF n \in Heads THEN n ELSE NULL]
    /\ pre' = next'
    /\ data' = [id \in Ids |-> NoData]
    /\ live' = {} /\ timers' = {} /\ removeList' = {}
    /\ UNCHANGED <<client, cur, ids, fixTime, lag, owed, dur, level, chain, node, hist>>

-----------------------------------------------------------------------------
\* STTimerMgr::tick, ms after it was last called.
tick(ms) ==
    /\ pc = "idle"
    /\ owed' = owed + ms
    /\ \/ /\ lag + ms + fixTime < Step
          /\ lag' = lag + ms
          /\ UNCHANGED <<dur, pc>>
       \/ /\ lag + ms + fixTime >= Step
          /\ lag' = 0
          /\ dur' = lag + ms + fixTime
          /\ pc' = "loop"
    /\ UNCHANGED <<client, links, data, live, timers, removeList, ids, fixTime,
                   level, chain, node, hist>>

\* Fault for ClockKept: what is left of dur is not kept.
ForgetRest ==
    /\ pc = "loop" /\ dur >= Step
    /\ dur' = dur - Step
    /\ owed' = owed - Step
    /\ pc' = "remove"
    /\ UNCHANGED <<client, links, data, live, timers, removeList, ids, fixTime, lag,
                   level, chain, node, hist>>

\* while (dur >= m_step)
begin_step ==
    /\ pc = "loop" /\ dur >= Step
    /\ dur' = dur - Step
    /\ fixTime' = dur - Step
    /\ owed' = owed - Step
    /\ pc' = "remove"
    /\ UNCHANGED <<client, links, data, live, timers, removeList, ids, lag,
                   level, chain, node, hist>>

\* Fault for RemovedSilent: the node is erased from m_timers, not deleted.
EraseOnly(id) ==
    /\ pc = "remove" /\ id \in removeList
    /\ removeList' = removeList \ {id}
    /\ timers' = timers \ {id}
    /\ UNCHANGED <<client, links, data, live, ids, fixTime, lag, owed, run, hist>>

\* One id of m_removeList: if m_timers has it, its node is deleted.
remove(id) ==
    /\ pc = "remove" /\ id \in removeList
    /\ removeList' = removeList \ {id}
    /\ timers' = timers \ {id}
    /\ IF id \in timers
       THEN /\ Unlink(Timer(id))
            /\ live' = live \ {id}
            /\ data' = [data EXCEPT ![id] = NoData]
            /\ Forget(id)
       ELSE UNCHANGED <<pre, next, live, data, hist>>
    /\ UNCHANGED <<client, cur, ids, fixTime, lag, owed, run>>

\* The wheels that have come round: submit_timer goes up to the first that has
\* not, or to the last.
Turned == {l \in 1..Levels : \A j \in 1..(l - 1) : cur[j] = Lens[j]}

\* submit_timer of the first wheel, up to where it detaches a slot.
submit_timer ==
    /\ pc = "remove" /\ removeList = {}
    /\ cur' = [l \in 1..Levels |->
                 IF l \in Turned /\ cur[l] = Lens[l] THEN 0 ELSE cur[l]]
    /\ level' = CHOOSE l \in Turned : \A j \in Turned : j <= l
    /\ due' = [id \in Ids |-> IF id \in live THEN due[id] - 1 ELSE due[id]]
    /\ pc' = "submit"
    /\ UNCHANGED <<client, pre, next, data, live, manager, dur, chain, node, top>>

\* submit_timer of the wheel `level` detaches its slot and goes on.
submit_slot ==
    /\ pc = "submit"
    /\ Detach(<<level, cur[level]>>)
    /\ cur' = [cur EXCEPT ![level] = @ + 1]
    /\ pc' = IF level = 1 THEN "call" ELSE "cascade"
    /\ UNCHANGED <<client, data, live, manager, dur, level, node, hist>>

\* Fault for RingsOK: next is read after add_timer has changed it.
ReadNextLate ==
    /\ pc = "cascade" /\ chain # NULL
    /\ add_to_wheel(level - 1, chain[2], data[chain[2]])
    /\ chain' = next'[chain]
    /\ UNCHANGED <<client, cur, live, manager, dur, pc, level, node, hist>>

\* A timer of an upper wheel comes down.
cascade ==
    /\ pc = "cascade" /\ chain # NULL
    /\ chain' = next[chain]
    /\ add_to_wheel(level - 1, chain[2], data[chain[2]])
    /\ UNCHANGED <<client, cur, live, manager, dur, pc, level, node, hist>>

cascaded ==
    /\ pc = "cascade" /\ chain = NULL
    /\ level' = level - 1
    /\ pc' = "submit"
    /\ UNCHANGED <<client, links, data, live, manager, dur, chain, node, hist>>

\* tick_out calls the timer.
call ==
    /\ pc = "call" /\ chain # NULL
    /\ node' = chain[2]
    /\ chain' = next[chain]
    /\ pc' = "in_call"
    /\ UNCHANGED <<client, links, data, live, manager, dur, level, hist>>

\* The last call: the node is deleted; m_timers keeps the pointer.
call_last ==
    /\ pc = "in_call" /\ data[node].times = 1
    /\ Unlink(Timer(node))
    /\ live' = live \ {node}
    /\ data' = [data EXCEPT ![node] = NoData]
    /\ Forget(node)
    /\ node' = 0 /\ pc' = "call"
    /\ UNCHANGED <<client, cur, manager, dur, level, chain>>

\* Fault for TimersEnd: the count of the calls to come is not kept.
CallForEver ==
    LET d == [data[node] EXCEPT !.next = @ + data[node].interval] IN
    /\ pc = "in_call" /\ data[node].times > 1
    /\ add_to_wheel(1, node, d)
    /\ Expect(node, d.next)
    /\ node' = 0 /\ pc' = "call"
    /\ UNCHANGED <<client, cur, live, manager, dur, level, chain>>

\* Any other call: the timer goes back into the first wheel.
call_again ==
    LET d == [data[node] EXCEPT !.times = @ - 1, !.next = @ + data[node].interval] IN
    /\ pc = "in_call" /\ data[node].times > 1
    /\ add_to_wheel(1, node, d)
    /\ Expect(node, d.next)
    /\ node' = 0 /\ pc' = "call"
    /\ UNCHANGED <<client, cur, live, manager, dur, level, chain>>

end_step ==
    /\ pc = "call" /\ chain = NULL
    /\ pc' = "loop"
    /\ UNCHANGED <<client, links, data, live, manager, dur, level, chain, node, hist>>

tick_return ==
    /\ pc = "loop" /\ dur < Step
    /\ pc' = "idle"
    /\ dur' = 0
    /\ UNCHANGED <<client, links, data, live, manager, level, chain, node, hist>>

-----------------------------------------------------------------------------
step ==
    \/ \E ms \in Elapsed : tick(ms)
    \/ begin_step \/ tick_return
    \/ \E id \in Ids : remove(id)
    \/ submit_timer \/ submit_slot \/ cascade \/ cascaded
    \/ call \/ call_last \/ call_again \/ end_step

Next ==
    \/ \E delay \in Delays, interval \in Intervals, times \in Times :
          add_timer(delay, interval, times)
    \/ \E id \in Ids : remove_timer(id)
    \/ release
    \/ step

Spec == Init /\ [][Next]_vars

\* Time goes by, and whoever owns the manager keeps calling tick.
FairSpec == Spec /\ WF_vars(step)

-----------------------------------------------------------------------------
TypeOK ==
    /\ client \in {"repeats", "removes"}
    /\ pre \in [Nodes -> Nodes] /\ next \in [Nodes -> Nodes]
    /\ \A l \in 1..Levels : cur[l] \in 0..Lens[l]
    /\ \A id \in Ids : data[id].next \in Nat /\ data[id].times \in Nat
    /\ live \subseteq Ids /\ timers \subseteq Ids /\ removeList \subseteq Ids
    /\ ids \in 0..MaxId
    /\ fixTime \in 0..(Step - 1) \/ pc # "idle"
    /\ level \in 1..Levels
    /\ chain \in Timers \cup {NULL}

\* The timers that one meets from the node first on along m_next, up to the node last:
\* no set without them holds first and what is behind its own, but for last.
Met(first, last) ==
    LET Walked(S) == /\ first \in Timers => first \in S
                     /\ \A n \in S \ {last} : next[n] \in Timers => next[n] \in S
    IN  {n \in Timers : \A S \in SUBSET (Timers \ {n}) : ~Walked(S)}

\* What submit_timer and then tick will meet, up to the tail that m_pre of the head
\* names, where Detach cuts.
InSlot(head) == IF next[head] = head THEN {} ELSE Met(next[head], pre[head])
InChain == Met(chain, NULL)

\* The timer whose call runs is in no list.
Called == IF pc = "in_call" THEN {Timer(node)} ELSE {}

\* Every timer that is neither deleted nor being called lies in one slot or in
\* the chain that is being worked off, and nothing else does: no timer is
\* lost, none is reached twice, and no pointer that is followed leads to a
\* deleted node, though tails and successors keep stale pointers
\* (TimerWheel.cpp:57-71, 149-209, STTimerMgr.cpp:136-161).
RingsOK ==
    LET slots == {<<h, InSlot(h)>> : h \in Heads}
        lists == {s[2] : s \in slots} \cup {InChain, Called}
    IN
    /\ TypeOK
    /\ UNION lists = {Timer(id) : id \in live}
    /\ \A s, r \in slots : s # r => s[2] \cap r[2] = {}
    /\ \A s \in slots : s[2] \cap (InChain \cup Called) = {}
    /\ InChain \cap Called = {}
    /\ \A s \in slots : LET head == s[1] IN
          /\ next[head] = head <=> pre[head] = head
          /\ next[head] # head => /\ pre[head] \in s[2]
                                  /\ \A n \in s[2] \ {pre[head]} : next[n] \in Timers
    /\ \A n \in InChain : next[n] \in Timers \cup {NULL}

\* How many steps early a timer put into wheel l may be: a step of each of the
\* wheels above the first that it comes down through.
Early[l \in 1..Levels] == IF l = 1 THEN 0 ELSE Early[l - 1] + StepOf[l] \div Step

\* A timer that starts in the first wheel is called at its step exactly.  One
\* that starts above may be a step late, when nothing is left of its time as it
\* comes down, or early by a step of every wheel it comes through, because the
\* slot that such a wheel submits next is the one of the time that begins;
\* never later, and never earlier (TimerWheel.cpp:149-209).
OnTime ==
    /\ pc \in {"idle", "loop", "remove"} =>
          \A id \in live : due[id] >= IF top[id] = 1 THEN 1 ELSE 0
    /\ pc = "in_call" => due[node] \in IF top[node] = 1 THEN {0} ELSE (-1)..Early[top[node]]

\* No time is lost or counted twice, however irregularly tick is called, and
\* when it returns less than a step is left to do (STTimerMgr.cpp:121-132).
ClockKept ==
    /\ owed = lag + IF pc \in {"idle", "released"} THEN fixTime ELSE dur
    /\ pc = "idle" => owed < Step

\* A timer that is removed between two ticks is not called any more
\* (STTimerMgr.cpp:134-145, 219-225).
RemovedSilent == pc = "in_call" => node \in timers \ removeList

\* Every timer gets all its calls and then ends, if tick is called again and
\* again: MaxId timers are added at most, an id is never used twice, and in the
\* end none of them is left (STTimerMgr.cpp:147-161, TimerData.cpp:75-84).
TimersEnd == <>[](live = {})
=============================================================================
