-------------------------- MODULE AsyncQueue_proofs --------------------------
(***************************************************************************)
(* For one consumer and every number of producers, slots and pushes, no    *)
(* message is popped twice and no accepted message is lost, also when the  *)
(* indices have lapped: that argument follows the messages through the     *)
(* slots and needs nothing of the two indices.  Until they lap, the slots  *)
(* between the indices hold the messages in order, and so the messages of  *)
(* a producer are popped in order; with one producer the indices never lap *)
(* and the ring refines BoundedQueue.                                      *)
(***************************************************************************)
EXTENDS AsyncQueue, SequenceTheorems, TLAPS

\* There is one log thread (LoggerMgr.cpp:35-44 creates at most one).
OneConsumer == \A c, d \in Consumers : c = d

\* The messages whose push has returned, true or false.
Done == {m \in Message : \/ m[2] < count[m[1]]
                         \/ m[2] = count[m[1]] /\ pc[m[1]] = "idle"}

\* A message is in a slot, in accepted or in popped only after its push has
\* returned: the one a producer is still pushing is in none of them.
OnlyDone ==
    /\ \A p \in Producers : pc[p] # "idle" => t[p] = <<p, count[p]>> /\ count[p] > 0
    /\ \A i \in 0..(Size - 1) : slot[i] # NULL => slot[i] \in Done
    /\ \A i \in 1..Len(popped) : popped[i] \in Done
    /\ accepted \subseteq Done

\* A message is in one slot, and not in a slot once it has been popped.
OnePlace ==
    /\ \A i, j \in 0..(Size - 1) : slot[i] # NULL /\ slot[i] = slot[j] => i = j
    /\ \A i \in 0..(Size - 1), j \in 1..Len(popped) : popped[j] # slot[i]

\* Nobody but the consumer empties the slot it reads.
Holds ==
    \A c \in Consumers :
        /\ pc[c] \in {"load", "clear"} => slot[idx[c]] # NULL
        /\ pc[c] = "clear" => t[c] = slot[idx[c]]

\* AtMostOnce and Accounted, index by index.
Popped(m) == \E i \in 1..Len(popped) : popped[i] = m
InSlot(m) == \E i \in 0..(Size - 1) : slot[i] = m

OnceByIndex == \A i, j \in 1..Len(popped) : popped[i] = popped[j] => i = j
AccountedByIndex == \A m \in accepted : Popped(m) \/ InSlot(m)

Inv == TypeOK /\ OnlyDone /\ OnePlace /\ Holds /\ OnceByIndex /\ AccountedByIndex

\* The invariant, stated over places in popped, gives the two properties as
\* they are stated.
LEMMA ByIndex ==
    TypeOK => (AtMostOnce <=> OnceByIndex) /\ (Accounted <=> AccountedByIndex)
  <1> SUFFICES ASSUME TypeOK
               PROVE  (AtMostOnce <=> OnceByIndex) /\ (Accounted <=> AccountedByIndex)
    OBVIOUS
  <1>1. DOMAIN popped = 1..Len(popped) /\ DOMAIN slot = 0..(Size - 1)
    BY DEF TypeOK
  <1>2. AtMostOnce <=> OnceByIndex
    BY <1>1 DEF AtMostOnce, IsInjective, OnceByIndex
  <1>3. \A m : m \in Range(popped) <=> Popped(m)
    BY <1>1 DEF Range, Popped
  <1>4. \A m : m \in Range(slot) <=> InSlot(m)
    BY <1>1 DEF Range, InSlot
  <1> QED BY <1>2, <1>3, <1>4 DEF Accounted, AccountedByIndex

\* The empty queue satisfies the invariant.
LEMMA InitInv == Init => Inv
  <1> SUFFICES ASSUME Init PROVE Inv
    OBVIOUS
  <1> USE QueueAssumption DEF Init
  <1>1. TypeOK
    BY DEF TypeOK, Threads, PushLabel, PopLabel
  <1>2. OnlyDone /\ OnePlace /\ Holds
    BY DEF OnlyDone, OnePlace, Holds, Threads
  <1>3. OnceByIndex /\ AccountedByIndex
    BY DEF OnceByIndex, AccountedByIndex
  <1> QED BY <1>1, <1>2, <1>3 DEF Inv

\* A step of push that leaves slots and history alone.
LEMMA PushStep ==
    ASSUME Inv, NEW p \in Producers, NEW l \in PushLabel, pc[p] # "idle",
           pc' = [pc EXCEPT ![p] = l],
           t' = IF l = "idle" THEN [t EXCEPT ![p] = NULL] ELSE t,
           writeIdx' \in 0..(Size - 1),
           idx' \in [Threads -> 0..(Size - 1)],
           \A c \in Consumers : idx'[c] = idx[c],
           UNCHANGED <<slot, readIdx, count, accepted, popped>>
    PROVE  Inv'
  <1> USE QueueAssumption
  <1>1. TypeOK'
    BY DEF Inv, TypeOK, Threads
  <1>2. Done \subseteq Done'
    BY DEF Done, Inv, TypeOK, Threads
  <1>3. OnlyDone'
    BY <1>2 DEF OnlyDone, Inv, TypeOK, Threads
  <1>4. OnePlace'
    BY DEF OnePlace, Inv
  <1>5. Holds'
    BY DEF Holds, Inv, TypeOK, Threads
  <1>6. OnceByIndex' /\ AccountedByIndex'
    BY DEF Inv, OnceByIndex, AccountedByIndex, Popped, InSlot
  <1> QED BY <1>1, <1>3, <1>4, <1>5, <1>6 DEF Inv

\* A step of pop that leaves slots and history alone.
LEMMA PopStep ==
    ASSUME Inv, NEW c \in Consumers, NEW l \in PopLabel,
           pc' = [pc EXCEPT ![c] = l],
           l \in {"load", "clear"} => slot[idx'[c]] # NULL,
           l = "clear" => t'[c] = slot[idx'[c]],
           readIdx' \in 0..(Size - 1),
           idx' \in [Threads -> 0..(Size - 1)],
           t' \in [Threads -> Message \cup {NULL}],
           \A p \in Producers : t'[p] = t[p],
           \A d \in Consumers : d = c,
           UNCHANGED <<slot, writeIdx, count, accepted, popped>>
    PROVE  Inv'
  <1> USE QueueAssumption
  <1>1. TypeOK'
    BY DEF Inv, TypeOK, Threads
  <1>2. \A p \in Producers : pc'[p] = pc[p]
    BY DEF Inv, TypeOK, Threads
  <1>3. Done' = Done
    BY <1>2 DEF Done, Message
  <1>4. OnlyDone'
    BY <1>2, <1>3 DEF OnlyDone, Inv
  <1>5. OnePlace'
    BY DEF OnePlace, Inv
  <1>6. Holds'
    BY DEF Holds, Inv, TypeOK, Threads
  <1>7. OnceByIndex' /\ AccountedByIndex'
    BY DEF Inv, OnceByIndex, AccountedByIndex, Popped, InSlot
  <1> QED BY <1>1, <1>4, <1>5, <1>6, <1>7 DEF Inv

\* The index a thread computes is a slot.
LEMMA NextIndex ==
    ASSUME NEW i \in 0..(Size - 1)
    PROVE  real_index(i + 1) \in 0..(Size - 1)
  BY QueueAssumption DEF real_index

\* A producer starts to push a message that nobody has seen.
LEMMA CallPushStep ==
    ASSUME Inv, NEW p \in Producers, call_push(p)
    PROVE  Inv'
  <1> USE QueueAssumption DEF call_push, Goto, shared
  <1>1. TypeOK'
    <2>1. count[p] + 1 \in 1..MaxPush /\ <<p, count[p] + 1>> \in Message
      BY DEF Inv, TypeOK, Message
    <2>2. "push" \in PushLabel /\ "push" \in PushLabel \cup PopLabel
      BY DEF PushLabel
    <2> QED BY <2>1, <2>2 DEF Inv, TypeOK, Threads
  <1>2. Done' = Done
    BY DEF Done, Inv, TypeOK, Threads, Message
  <1>3. OnlyDone'
    BY <1>2 DEF Inv, TypeOK, OnlyDone, Threads
  <1>4. OnePlace' /\ Holds'
    BY DEF Inv, TypeOK, OnePlace, Holds, Threads
  <1>5. OnceByIndex' /\ AccountedByIndex'
    BY DEF Inv, OnceByIndex, AccountedByIndex, Popped, InSlot
  <1> QED BY <1>1, <1>3, <1>4, <1>5 DEF Inv

\* The message goes from the producer into an empty slot.
LEMMA FillStep ==
    ASSUME Inv, NEW p \in Producers, fill(p)
    PROVE  Inv'
  <1> DEFINE m == t[p]  k == idx[p]
  <1> USE QueueAssumption
  <1>1. /\ pc[p] = "fill" /\ k \in 0..(Size - 1) /\ slot[k] = NULL
        /\ slot' = [slot EXCEPT ![k] = m]
        /\ accepted' = accepted \cup {m}
        /\ t' = [t EXCEPT ![p] = NULL]
        /\ pc' = [pc EXCEPT ![p] = "idle"]
        /\ UNCHANGED <<readIdx, writeIdx, idx, count, popped>>
    BY DEF fill, Goto, Inv, TypeOK, Threads
  <1>2. /\ m = <<p, count[p]>> /\ m \in Message /\ m \notin Done /\ m # NULL
    <2>1. m = <<p, count[p]>> /\ count[p] > 0 /\ count[p] \in 0..MaxPush
      BY <1>1 DEF Inv, TypeOK, OnlyDone
    <2>2. m \in Message
      BY <2>1 DEF Message
    <2>3. m \notin Done
      BY <1>1, <2>1 DEF Done
    <2> QED BY <2>1, <2>2, <2>3
  <1>3. TypeOK'
    <2>1. "idle" \in PushLabel
      BY DEF PushLabel
    <2> HIDE DEF m, k
    <2> QED BY <1>1, <1>2, <2>1 DEF Inv, TypeOK, Threads
  <1>4. Done \subseteq Done' /\ m \in Done'
    BY <1>1, <1>2 DEF Done, Inv, TypeOK, Threads
  <1> HIDE DEF m, k
  <1>5. OnlyDone'
    <2>1. \A q \in Producers : pc'[q] # "idle" => t'[q] = <<q, count'[q]>> /\ count'[q] > 0
      BY <1>1 DEF Inv, TypeOK, OnlyDone, Threads
    <2>2. \A i \in 0..(Size - 1) : slot'[i] # NULL => slot'[i] \in Done'
      BY <1>1, <1>4 DEF Inv, TypeOK, OnlyDone
    <2>3. \A i \in 1..Len(popped') : popped'[i] \in Done'
      BY <1>1, <1>4 DEF Inv, OnlyDone
    <2>4. accepted' \subseteq Done'
      BY <1>1, <1>4 DEF Inv, OnlyDone
    <2> QED BY <2>1, <2>2, <2>3, <2>4 DEF OnlyDone
  <1>6. OnePlace'
    <2>1. /\ \A i \in 0..(Size - 1) : slot[i] # m
          /\ \A j \in 1..Len(popped) : popped[j] # m
      BY <1>2 DEF Inv, OnlyDone
    <2> QED BY <1>1, <2>1 DEF Inv, TypeOK, OnePlace
  <1>7. Holds'
    BY <1>1, <1>2 DEF Inv, TypeOK, Holds, Threads
  <1>8. OnceByIndex' /\ AccountedByIndex'
    <2>0. \A i \in 0..(Size - 1) : slot'[i] = IF i = k THEN m ELSE slot[i]
      BY <1>1 DEF Inv, TypeOK
    <2>1. \A n : InSlot(n) /\ n # NULL => InSlot(n)'
      BY <1>1, <2>0 DEF InSlot
    <2>2. \A n : n = m => InSlot(n)'
      BY <1>1, <2>0 DEF InSlot
    <2>3. accepted \subseteq Message /\ \A n : Popped(n)' <=> Popped(n)
      BY <1>1 DEF Popped, Inv, TypeOK
    <2>4. \A n \in accepted : n # NULL /\ (Popped(n) \/ InSlot(n))
      BY <2>3 DEF Inv, AccountedByIndex
    <2>5. AccountedByIndex'
      BY <1>1, <2>1, <2>2, <2>3, <2>4 DEF AccountedByIndex
    <2> QED BY <1>1, <2>5 DEF Inv, OnceByIndex
  <1> QED BY <1>3, <1>5, <1>6, <1>7, <1>8 DEF Inv

\* The message goes from the slot to whoever called pop.
LEMMA ClearStep ==
    ASSUME Inv, NEW c \in Consumers, clear(c), \A d \in Consumers : d = c
    PROVE  Inv'
  <1> DEFINE m == t[c]  k == idx[c]  n == Len(popped)
  <1> USE QueueAssumption
  <1>1. /\ pc[c] = "clear" /\ k \in 0..(Size - 1) /\ slot[k] = m /\ m # NULL
        /\ slot' = [slot EXCEPT ![k] = NULL]
        /\ popped' = Append(popped, m)
        /\ t' = [t EXCEPT ![c] = NULL]
        /\ pc' = [pc EXCEPT ![c] = "idle"]
        /\ UNCHANGED <<readIdx, writeIdx, idx, count, accepted>>
    BY DEF clear, Goto, Inv, TypeOK, Threads, Holds
  <1>2. m \in Message /\ m \in Done
    BY <1>1 DEF Inv, TypeOK, OnlyDone
  <1>3. TypeOK'
    BY <1>1, <1>2 DEF Inv, TypeOK, Threads, PopLabel
  <1>4. \A p \in Producers : pc'[p] = pc[p] /\ t'[p] = t[p]
    BY <1>1 DEF Inv, TypeOK, Threads
  <1>5. Done' = Done
    BY <1>1, <1>4 DEF Done, Message
  <1> HIDE DEF m, k
  <1>6. /\ n \in Nat /\ Len(popped') = n + 1 /\ popped'[n + 1] = m
        /\ \A i \in 1..n : popped'[i] = popped[i]
    BY <1>1, <1>2 DEF Inv, TypeOK
  <1> HIDE DEF n
  <1>7. \A i \in 1..(n + 1) : i \in 1..n \/ i = n + 1
    BY <1>6
  <1>8. /\ \A i \in 0..(Size - 1) : slot'[i] = IF i = k THEN NULL ELSE slot[i]
    BY <1>1 DEF Inv, TypeOK
  <1>9. OnlyDone'
    <2>1. \A i \in 1..Len(popped') : popped'[i] \in Done'
      BY <1>2, <1>5, <1>6, <1>7 DEF Inv, OnlyDone, n
    <2> QED BY <1>1, <1>4, <1>5, <1>8, <2>1 DEF Inv, OnlyDone
  <1>10. /\ \A i \in 1..n : popped[i] # m
         /\ \A i \in 0..(Size - 1) : i # k => slot[i] # m
    BY <1>1 DEF Inv, OnePlace, n
  <1>11. OnePlace'
    <2>1. \A i \in 0..(Size - 1), j \in 1..Len(popped') : popped'[j] # slot'[i]
      <3> SUFFICES ASSUME NEW i \in 0..(Size - 1), NEW j \in 1..(n + 1)
                   PROVE  popped'[j] # slot'[i]
        BY <1>6
      <3>1. popped'[j] # NULL
        BY <1>3, <1>6 DEF TypeOK
      <3>2. CASE i = k
        BY <3>1, <3>2, <1>8
      <3>3. CASE i # k /\ j = n + 1
        BY <3>3, <1>6, <1>8, <1>10
      <3>4. CASE i # k /\ j \in 1..n
        BY <3>4, <1>6, <1>8 DEF Inv, OnePlace, n
      <3> QED BY <1>7, <3>2, <3>3, <3>4
    <2> QED BY <1>8, <2>1 DEF Inv, OnePlace
  <1>12. Holds'
    BY <1>1 DEF Inv, TypeOK, Holds, Threads
  <1>13. OnceByIndex'
    BY <1>6, <1>7, <1>10 DEF Inv, OnceByIndex, n
  <1>14. AccountedByIndex'
    <2>1. ASSUME NEW x, Popped(x) PROVE Popped(x)'
      <3>1. PICK i \in 1..n : popped[i] = x
        BY <2>1 DEF Popped, n
      <3>2. i \in 1..Len(popped') /\ popped'[i] = x
        BY <3>1, <1>6
      <3> QED BY <3>2 DEF Popped
    <2>2. ASSUME NEW x, InSlot(x) PROVE InSlot(x)' \/ x = m
      BY <2>2, <1>1, <1>8 DEF InSlot
    <2>3. ASSUME NEW x, x = m PROVE Popped(x)'
      <3>1. n + 1 \in 1..Len(popped') /\ popped'[n + 1] = x
        BY <1>6, <2>3
      <3> QED BY <3>1 DEF Popped
    <2> QED BY <1>1, <2>1, <2>2, <2>3 DEF Inv, AccountedByIndex
  <1> QED BY <1>3, <1>9, <1>11, <1>12, <1>13, <1>14 DEF Inv

\* Every access to the queue preserves the invariant: one step per action.
LEMMA StepInv ==
    ASSUME OneConsumer
    PROVE  Inv /\ [Next]_vars => Inv'
  <1> SUFFICES ASSUME Inv, [Next]_vars PROVE Inv'
    OBVIOUS
  <1>0. /\ idx \in [Threads -> 0..(Size - 1)] /\ t \in [Threads -> Message \cup {NULL}]
        /\ readIdx \in 0..(Size - 1) /\ writeIdx \in 0..(Size - 1)
        /\ Producers \cap Consumers = {}
        /\ \A p \in Producers : p \in Threads
        /\ \A c \in Consumers : c \in Threads
        /\ {"idle", "push", "test_full", "claim_write", "fill"} = PushLabel
        /\ {"idle", "pop", "test_empty", "claim_read", "wait", "load", "clear"} = PopLabel
    BY QueueAssumption DEF Inv, TypeOK, Threads, PushLabel, PopLabel
  <1>1. ASSUME NEW p \in Producers, load_write(p) PROVE Inv'
    <2>1. /\ pc[p] # "idle" /\ pc' = [pc EXCEPT ![p] = "test_full"] /\ t' = t
          /\ idx' = [idx EXCEPT ![p] = writeIdx]
          /\ UNCHANGED <<slot, readIdx, writeIdx, count, accepted, popped>>
      BY <1>1 DEF load_write, Goto, shared, history
    <2>2. idx' \in [Threads -> 0..(Size - 1)] /\ \A c \in Consumers : idx'[c] = idx[c]
      BY <1>0, <2>1
    <2> QED BY <1>0, <2>1, <2>2, PushStep
  <1>2. ASSUME NEW p \in Producers, test_full(p) PROVE Inv'
    <2>1. PICK l \in {"idle", "claim_write"} :
             /\ pc' = [pc EXCEPT ![p] = l]
             /\ t' = IF l = "idle" THEN [t EXCEPT ![p] = NULL] ELSE t
      BY <1>2 DEF test_full, Goto
    <2>2. pc[p] # "idle" /\ UNCHANGED <<slot, readIdx, writeIdx, idx, count, accepted, popped>>
      BY <1>2 DEF test_full, shared, history
    <2> QED BY <1>0, <2>1, <2>2, PushStep
  <1>3. ASSUME NEW p \in Producers, claim_write(p) PROVE Inv'
    <2>1. PICK l \in {"push", "fill"} : pc' = [pc EXCEPT ![p] = l]
      BY <1>3 DEF claim_write, Goto
    <2>2. writeIdx' \in 0..(Size - 1)
      BY <1>0, <1>3, NextIndex DEF claim_write
    <2>3. pc[p] # "idle" /\ UNCHANGED <<slot, readIdx, idx, t, count, accepted, popped>>
      BY <1>3 DEF claim_write
    <2> QED BY <1>0, <2>1, <2>2, <2>3, PushStep
  <1>4. ASSUME NEW c \in Consumers, call_pop(c) \/ load_read(c) \/ test_empty(c) PROVE Inv'
    <2>1. PICK l \in {"pop", "test_empty", "idle", "claim_read"} : pc' = [pc EXCEPT ![c] = l]
      BY <1>4 DEF call_pop, load_read, test_empty, Goto
    <2>2. /\ UNCHANGED <<slot, readIdx, writeIdx, t, count, accepted, popped>>
          /\ idx' = idx \/ idx' = [idx EXCEPT ![c] = readIdx]
      BY <1>4 DEF call_pop, load_read, test_empty, shared, history
    <2>3. idx' \in [Threads -> 0..(Size - 1)]
      BY <1>0, <2>2
    <2> QED BY <1>0, <2>1, <2>2, <2>3, PopStep DEF OneConsumer
  <1>5. ASSUME NEW c \in Consumers, claim_read(c) PROVE Inv'
    <2>1. PICK l \in {"pop", "wait"} : pc' = [pc EXCEPT ![c] = l]
      BY <1>5 DEF claim_read, Goto
    <2>2. readIdx' \in 0..(Size - 1)
      BY <1>0, <1>5, NextIndex DEF claim_read
    <2>3. UNCHANGED <<slot, writeIdx, idx, t, count, accepted, popped>>
      BY <1>5 DEF claim_read, history
    <2> QED BY <1>0, <2>1, <2>2, <2>3, PopStep DEF OneConsumer
  <1>6. ASSUME NEW c \in Consumers, wait(c) \/ load(c) PROVE Inv'
    <2>1. CASE wait(c)
      <3>1. /\ slot[idx[c]] # NULL /\ pc' = [pc EXCEPT ![c] = "load"]
            /\ UNCHANGED <<slot, readIdx, writeIdx, idx, t, count, accepted, popped>>
        BY <2>1 DEF wait, Goto, shared, history
      <3> QED BY <1>0, <3>1, PopStep DEF OneConsumer
    <2>2. CASE load(c)
      <3>1. /\ pc[c] = "load" /\ pc' = [pc EXCEPT ![c] = "clear"]
            /\ t' = [t EXCEPT ![c] = slot[idx[c]]]
            /\ UNCHANGED <<slot, readIdx, writeIdx, idx, count, accepted, popped>>
        BY <2>2 DEF load, Goto, shared, history
      <3>2. slot[idx[c]] # NULL /\ slot[idx[c]] \in Message \cup {NULL}
        BY <1>0, <3>1 DEF Inv, Holds, TypeOK
      <3>3. /\ t' \in [Threads -> Message \cup {NULL}] /\ t'[c] = slot[idx'[c]]
            /\ \A p \in Producers : t'[p] = t[p]
        BY <1>0, <3>1, <3>2
      <3> QED BY <1>0, <3>1, <3>2, <3>3, PopStep DEF OneConsumer
    <2> QED BY <1>6, <2>1, <2>2
  <1>7. ASSUME UNCHANGED vars PROVE Inv'
    BY <1>7 DEF vars, history, Inv, TypeOK, OnlyDone, Done, OnePlace, Holds,
                OnceByIndex, AccountedByIndex, Popped, InSlot
  <1> QED BY <1>1, <1>2, <1>3, <1>4, <1>5, <1>6, <1>7, CallPushStep, FillStep, ClearStep
          DEF OneConsumer, Next, push, pop

\* For one consumer, the slots hold messages or NULL and both indices stay in the
\* ring, however claims interleave (AsyncQueue.h:86-126).
THEOREM QueueTypeOK == OneConsumer => (Spec => []TypeOK)
  <1> SUFFICES ASSUME OneConsumer PROVE Spec => []TypeOK
    OBVIOUS
  <1>1. Inv => TypeOK
    BY DEF Inv
  <1> QED BY <1>1, InitInv, StepInv, PTL DEF Spec

\* For one consumer, no message is popped twice, whatever the producers do
\* (AsyncQueue.h:86-126).
THEOREM QueueAtMostOnce == OneConsumer => (Spec => []AtMostOnce)
  <1> SUFFICES ASSUME OneConsumer PROVE Spec => []AtMostOnce
    OBVIOUS
  <1>1. Inv => AtMostOnce
    BY ByIndex DEF Inv
  <1> QED BY <1>1, InitInv, StepInv, PTL DEF Spec

\* For one consumer, every message that push has accepted is in its slot or has
\* been popped (AsyncQueue.h:86-126).
THEOREM QueueAccounted == OneConsumer => (Spec => []Accounted)
  <1> SUFFICES ASSUME OneConsumer PROVE Spec => []Accounted
    OBVIOUS
  <1>1. Inv => Accounted
    BY ByIndex DEF Inv
  <1> QED BY <1>1, InitInv, StepInv, PTL DEF Spec

-----------------------------------------------------------------------------
\* Where the messages lie while nothing has lapped.  The slots that producers
\* have claimed and the consumer has not are those from readIdx up to writeIdx;
\* before them comes the slot that the consumer has claimed and not cleared.
Slots == 0..(Size - 1)
Dist(i) == IF i >= readIdx THEN i - readIdx ELSE i - readIdx + Size
Claimed(i) == Dist(i) < Dist(writeIdx)

\* The place of a slot in the order in which the slots are read: the one before
\* readIdx is the first.
Rank(i) == IF Dist(i) = Size - 1 THEN 0 ELSE Dist(i) + 1

Reads(c, i) == pc[c] \in {"wait", "load", "clear"} /\ idx[c] = i
Read(i) == \E c \in Consumers : Reads(c, i)
Fills(p, i) == pc[p] = "fill" /\ idx[p] = i

\* The message is in the slot or will be put there.
Carries(i, m) == slot[i] = m \/ \E p \in Producers : Fills(p, i) /\ t[p] = m

Places ==
    /\ \A i \in Slots : slot[i] # NULL => Claimed(i) \/ Read(i)
    /\ \A i \in Slots, p \in Producers : Fills(p, i) =>
          /\ slot[i] = NULL
          /\ Claimed(i) \/ Read(i)
          /\ \A q \in Producers : Fills(q, i) => q = p
    /\ \A i \in Slots, c \in Consumers : Reads(c, i) => Dist(i) = Size - 1
    /\ \A c \in Consumers : pc[c] \in {"test_empty", "claim_read"} => idx[c] = readIdx
    /\ \A c \in Consumers : pc[c] = "claim_read" => writeIdx # readIdx

\* The messages of one producer will be read in the order of their numbers.
InOrder ==
    \A i, j \in Slots : \A m, n \in Message :
        Carries(i, m) /\ Carries(j, n) /\ m[1] = n[1] /\ Rank(i) < Rank(j) => m[2] < n[2]

\* What a producer is about to push is later than what it has in the slots.
Newest ==
    \A p \in Producers : pc[p] # "idle" =>
        /\ t[p] \in Message /\ t[p][1] = p
        /\ \A i \in Slots : slot[i] # NULL /\ slot[i][1] = p => slot[i][2] < t[p][2]

LEMMA NextSlot ==
    ASSUME NEW i \in Slots
    PROVE  real_index(i + 1) = IF i = Size - 1 THEN 0 ELSE i + 1
  <1>1. Size \in Nat /\ Size > 0 /\ i \in Nat /\ i < Size
    BY QueueAssumption DEF Slots
  <1>2. CASE i = Size - 1
    <2>1. i + 1 = Size /\ Size % Size = 0
      BY <1>1, <1>2
    <2> QED BY <1>2, <2>1 DEF real_index
  <1>3. CASE i # Size - 1
    <2>1. i + 1 \in 0..(Size - 1)
      BY <1>1, <1>3
    <2>2. (i + 1) % Size = i + 1
      BY <1>1, <2>1
    <2> QED BY <1>3, <2>2 DEF real_index
  <1> QED BY <1>2, <1>3

LEMMA DistRange ==
    ASSUME TypeOK, NEW i \in Slots
    PROVE  /\ Dist(i) \in Slots /\ Rank(i) \in Slots
           /\ readIdx \in Slots /\ writeIdx \in Slots /\ Dist(readIdx) = 0
           /\ Size \in Nat /\ Size > 0
           /\ \A j \in Slots : Dist(i) = Dist(j) => i = j
           /\ \A j \in Slots : Rank(i) = Rank(j) => i = j
  BY QueueAssumption DEF Dist, Rank, Slots, TypeOK

\* Claiming the slot at writeIdx makes it the last of the claimed ones.
LEMMA WriteNext ==
    ASSUME TypeOK, TypeOK', readIdx' = readIdx,
           writeIdx' = real_index(writeIdx + 1), writeIdx' # readIdx
    PROVE  /\ Dist(writeIdx)' = Dist(writeIdx) + 1
           /\ \A i \in Slots : Dist(i)' = Dist(i) /\ Rank(i)' = Rank(i)
           /\ Rank(writeIdx) = Dist(writeIdx) + 1
  <1>1. /\ writeIdx' = IF writeIdx = Size - 1 THEN 0 ELSE writeIdx + 1
        /\ writeIdx \in 0..(Size - 1) /\ readIdx \in 0..(Size - 1) /\ Size \in Nat
    BY NextSlot, QueueAssumption DEF TypeOK, Slots
  <1> QED BY <1>1 DEF Dist, Rank, Slots

\* Claiming the slot at readIdx makes it the first, before the claimed ones.
LEMMA ReadNext ==
    ASSUME TypeOK, TypeOK', writeIdx' = writeIdx, readIdx' = real_index(readIdx + 1)
    PROVE  /\ \A i \in Slots : Rank(i)' = Dist(i)
           /\ \A i \in Slots : i # readIdx => Dist(i)' = Dist(i) - 1
           /\ \A i \in Slots : i = readIdx => Dist(i)' = Size - 1
  <1>1. /\ readIdx' = IF readIdx = Size - 1 THEN 0 ELSE readIdx + 1
        /\ writeIdx \in 0..(Size - 1) /\ readIdx \in 0..(Size - 1) /\ Size \in Nat
    BY NextSlot, QueueAssumption DEF TypeOK, Slots
  <1> QED BY <1>1 DEF Dist, Rank, Slots

\* A step inside push that claims nothing, or the call of it.
LEMMA PlacesPush ==
    ASSUME TypeOK, TypeOK', Places, InOrder, NEW p \in Producers,
           pc[p] # "fill", NEW l, l # "fill", pc' = [pc EXCEPT ![p] = l],
           \A x \in Threads : x # p => t'[x] = t[x] /\ idx'[x] = idx[x],
           UNCHANGED shared
    PROVE  /\ Places' /\ InOrder'
           /\ \A i \in Slots : \A m : Carries(i, m)' => Carries(i, m)
  <1>1. /\ \A i : Dist(i)' = Dist(i) /\ Rank(i)' = Rank(i) /\ Claimed(i)' = Claimed(i)
        /\ slot' = slot /\ readIdx' = readIdx /\ writeIdx' = writeIdx
    BY DEF shared, Dist, Rank, Claimed
  <1>2. \A x \in Threads : x # p => pc'[x] = pc[x] /\ t'[x] = t[x] /\ idx'[x] = idx[x]
    BY DEF TypeOK
  <1>3. pc'[p] = l /\ p \in Threads
    BY DEF TypeOK, Threads
  <1>4. \A q \in Producers : \A i : /\ Fills(q, i)' <=> Fills(q, i)
                                    /\ Fills(q, i) => t'[q] = t[q]
    BY <1>2, <1>3 DEF Fills, Threads
  <1>5. \A c \in Consumers : c \in Threads /\ c # p
    BY QueueAssumption DEF Threads
  <1>6. \A c \in Consumers : \A i : Reads(c, i)' <=> Reads(c, i)
    BY <1>2, <1>5 DEF Reads
  <1>7. \A i, m : Carries(i, m)' <=> Carries(i, m)
    BY <1>1, <1>4 DEF Carries
  <1>8. Places'
    BY <1>1, <1>2, <1>4, <1>5, <1>6 DEF Places, Read
  <1>9. InOrder'
    BY <1>1, <1>7 DEF InOrder
  <1> QED BY <1>7, <1>8, <1>9

\* A producer claims the slot at writeIdx for the message in its hands.
LEMMA PlacesClaimWrite ==
    ASSUME TypeOK, TypeOK', Places, InOrder, Newest, NEW p \in Producers,
           pc[p] = "claim_write", pc' = [pc EXCEPT ![p] = "fill"],
           idx[p] = writeIdx, writeIdx' = real_index(writeIdx + 1), writeIdx' # readIdx,
           UNCHANGED <<slot, readIdx, idx, t>>
    PROVE  /\ Places' /\ InOrder'
           /\ \A i \in Slots : \A m : Carries(i, m)' => Carries(i, m) \/ m = t[p]
  <1>1. /\ writeIdx \in Slots /\ readIdx \in Slots
        /\ \A i \in Slots : Dist(i) \in Nat /\ Rank(i) \in Nat
        /\ \A i \in Slots : Dist(i) = Dist(writeIdx) => i = writeIdx
    <2>1. writeIdx \in Slots /\ readIdx \in Slots
      BY DEF TypeOK, Slots
    <2>2. \A i \in Slots : Dist(i) \in Slots /\ Rank(i) \in Slots
      BY DistRange
    <2>3. \A i \in Slots : Dist(i) = Dist(writeIdx) => i = writeIdx
      BY <2>1, DistRange
    <2> QED BY <2>1, <2>2, <2>3 DEF Slots
  <1>2. /\ Dist(writeIdx)' = Dist(writeIdx) + 1
        /\ \A i \in Slots : Dist(i)' = Dist(i) /\ Rank(i)' = Rank(i)
        /\ Rank(writeIdx) = Dist(writeIdx) + 1
    BY WriteNext
  <1>3. /\ \A i \in Slots : i = writeIdx => Claimed(i)' /\ ~Claimed(i)
        /\ \A i \in Slots : Claimed(i) => Claimed(i)' /\ Rank(i) < Rank(writeIdx)
    <2>1. ASSUME NEW i \in Slots, i = writeIdx PROVE Claimed(i)' /\ ~Claimed(i)
      BY <1>1, <1>2, <2>1 DEF Claimed
    <2>3. ASSUME NEW i \in Slots, Claimed(i) PROVE Claimed(i)' /\ Rank(i) < Rank(writeIdx)
      <3>1. Dist(i) < Dist(writeIdx)
        BY <2>3 DEF Claimed
      <3>2. Rank(i) <= Dist(i) + 1
        BY <1>1 DEF Rank
      <3> QED BY <1>1, <1>2, <3>1, <3>2 DEF Claimed
    <2> QED BY <2>1, <2>3
  <1>4. \A c \in Consumers : /\ c \in Threads /\ c # p /\ pc'[c] = pc[c]
                             /\ \A i : Reads(c, i)' <=> Reads(c, i)
    BY QueueAssumption DEF TypeOK, Threads, Reads
  <1>5. \A i \in Slots : Read(i) => Rank(i) < Rank(writeIdx)
    <2>1. \A i \in Slots : Read(i) => Dist(i) = Size - 1
      BY DEF Places, Read
    <2>2. \A i \in Slots : Read(i) => Rank(i) = 0
      BY <2>1 DEF Rank
    <2> QED BY <1>1, <1>2, <2>2
  <1>6. ~Read(writeIdx)
    BY <1>1, <1>5
  <1>7. \A q \in Producers : \A i : Fills(q, i)' <=> Fills(q, i) \/ (q = p /\ i = writeIdx)
    BY DEF Fills, TypeOK, Threads
  <1>8. \A i, m : Carries(i, m)' <=> Carries(i, m) \/ (i = writeIdx /\ m = t[p])
    BY <1>7 DEF Carries
  <1>9. Places'
    <2>1. \A i \in Slots : slot'[i] # NULL => Claimed(i)' \/ Read(i)'
      BY <1>3, <1>4 DEF Places, Read
    <2>2. slot[writeIdx] = NULL /\ \A q \in Producers : ~Fills(q, writeIdx)
      BY <1>1, <1>3, <1>6 DEF Places
    <2>3. ASSUME NEW i \in Slots, NEW q \in Producers, Fills(q, i)'
          PROVE  /\ slot'[i] = NULL
                 /\ Claimed(i)' \/ Read(i)'
                 /\ \A r \in Producers : Fills(r, i)' => r = q
      BY <1>3, <1>4, <1>7, <2>2, <2>3 DEF Places, Read
    <2>4. \A i \in Slots, c \in Consumers : Reads(c, i)' => Dist(i)' = Size - 1
      BY <1>2, <1>4 DEF Places
    <2>5. \A c \in Consumers : /\ pc'[c] \in {"test_empty", "claim_read"} => idx'[c] = readIdx'
                               /\ pc'[c] = "claim_read" => writeIdx' # readIdx'
      BY <1>4 DEF Places
    <2> QED BY <2>1, <2>3, <2>4, <2>5 DEF Places
  <1>10. \A i \in Slots, m \in Message : Carries(i, m) => Claimed(i) \/ Read(i)
    <2> SUFFICES ASSUME NEW i \in Slots, NEW m \in Message, Carries(i, m)
                 PROVE  Claimed(i) \/ Read(i)
      OBVIOUS
    <2>1. CASE slot[i] = m
      BY <2>1, QueueAssumption DEF Places
    <2>2. CASE slot[i] # m
      BY <2>2 DEF Places, Carries
    <2> QED BY <2>1, <2>2
  <1>11. \A i \in Slots, m \in Message : Carries(i, m) /\ m[1] = p => m[2] < t[p][2]
    <2> SUFFICES ASSUME NEW i \in Slots, NEW m \in Message, Carries(i, m), m[1] = p
                 PROVE  m[2] < t[p][2]
      OBVIOUS
    <2>1. CASE slot[i] = m
      BY <2>1, QueueAssumption DEF Newest
    <2>2. CASE \E q \in Producers : Fills(q, i) /\ t[q] = m
      <3>1. PICK q \in Producers : Fills(q, i) /\ t[q] = m
        BY <2>2
      <3>2. q = p
        BY <3>1 DEF Fills, Newest
      <3> QED BY <3>1, <3>2 DEF Fills
    <2> QED BY <2>1, <2>2 DEF Carries
  <1>12. InOrder'
    <2> SUFFICES ASSUME NEW i \in Slots, NEW j \in Slots, NEW m \in Message, NEW n \in Message,
                        Carries(i, m)', Carries(j, n)', m[1] = n[1], Rank(i)' < Rank(j)'
                 PROVE  m[2] < n[2]
      BY DEF InOrder
    <2>1. Rank(i) < Rank(j) /\ Rank(i) \in Nat /\ Rank(j) \in Nat /\ Rank(writeIdx) \in Nat
      BY <1>1, <1>2
    <2>2. CASE Carries(i, m) /\ Carries(j, n)
      BY <2>1, <2>2 DEF InOrder
    <2>3. CASE i = writeIdx /\ m = t[p]
      <3>1. j # writeIdx
        BY <2>1, <2>3
      <3>2. Carries(j, n)
        BY <1>8, <3>1
      <3>3. Rank(j) < Rank(writeIdx)
        BY <1>3, <1>5, <1>10, <3>2
      <3> QED BY <2>1, <2>3, <3>3
    <2>4. CASE Carries(i, m) /\ j = writeIdx /\ n = t[p]
      BY <2>4, <1>11 DEF Newest
    <2> QED BY <1>8, <2>2, <2>3, <2>4
  <1> QED BY <1>8, <1>9, <1>12

\* The message gets into the slot that was claimed for it.
LEMMA PlacesFill ==
    ASSUME TypeOK, TypeOK', Places, InOrder, NEW p \in Producers, fill(p)
    PROVE  /\ Places' /\ InOrder'
           /\ \A i \in Slots, m \in Message : Carries(i, m)' => Carries(i, m)
  <1>1. /\ pc[p] = "fill" /\ idx[p] \in Slots /\ slot[idx[p]] = NULL
        /\ slot' = [slot EXCEPT ![idx[p]] = t[p]]
        /\ pc' = [pc EXCEPT ![p] = "idle"]
        /\ UNCHANGED <<readIdx, writeIdx, idx>>
        /\ \A q \in Producers : q # p => t'[q] = t[q]
    BY DEF fill, Goto, TypeOK, Threads, Slots
  <1>2. \A i : Dist(i)' = Dist(i) /\ Rank(i)' = Rank(i) /\ Claimed(i)' = Claimed(i)
    BY <1>1 DEF Dist, Rank, Claimed
  <1>3. \A i \in Slots : slot'[i] = IF i = idx[p] THEN t[p] ELSE slot[i]
    BY <1>1 DEF TypeOK, Slots
  <1>4. \A q \in Producers : \A i : Fills(q, i)' <=> Fills(q, i) /\ q # p
    BY <1>1 DEF Fills, TypeOK, Threads
  <1>5. \A c \in Consumers : pc'[c] = pc[c] /\ \A i : Reads(c, i)' <=> Reads(c, i)
    BY <1>1, QueueAssumption DEF TypeOK, Threads, Reads
  <1>6. Fills(p, idx[p])
    BY <1>1 DEF Fills
  <1>7. \A i \in Slots, m \in Message : Carries(i, m)' => Carries(i, m)
    BY <1>1, <1>3, <1>4, <1>6 DEF Carries
  <1>8. Places'
    <2>1. \A i \in Slots : slot'[i] # NULL => Claimed(i)' \/ Read(i)'
      BY <1>1, <1>2, <1>3, <1>5, <1>6 DEF Places, Read
    <2>2. ASSUME NEW i \in Slots, NEW q \in Producers, Fills(q, i)'
          PROVE  /\ slot'[i] = NULL
                 /\ Claimed(i)' \/ Read(i)'
                 /\ \A r \in Producers : Fills(r, i)' => r = q
      <3>1. Fills(q, i) /\ q # p
        BY <1>4, <2>2
      <3>2. i # idx[p]
        BY <1>1, <1>6, <3>1 DEF Places
      <3> QED BY <1>2, <1>3, <1>4, <1>5, <3>1, <3>2 DEF Places, Read
    <2>3. \A c \in Consumers : /\ \A i \in Slots : Reads(c, i)' => Dist(i)' = Size - 1
                               /\ pc'[c] \in {"test_empty", "claim_read"} => idx'[c] = readIdx'
                               /\ pc'[c] = "claim_read" => writeIdx' # readIdx'
      BY <1>1, <1>2, <1>5 DEF Places
    <2> QED BY <2>1, <2>2, <2>3 DEF Places
  <1>9. InOrder'
    BY <1>2, <1>7 DEF InOrder
  <1> QED BY <1>7, <1>8, <1>9

\* A step inside pop that claims and clears nothing, or the call of it.
LEMMA PlacesPop ==
    ASSUME TypeOK, TypeOK', Places, InOrder, NEW c \in Consumers, \A d \in Consumers : d = c,
           NEW l, pc' = [pc EXCEPT ![c] = l],
           \A p \in Producers : t'[p] = t[p] /\ idx'[p] = idx[p],
           l \in {"test_empty", "claim_read"} => idx'[c] = readIdx,
           l = "claim_read" => writeIdx # readIdx,
           l \in {"wait", "load", "clear"} <=> pc[c] \in {"wait", "load", "clear"},
           l \in {"wait", "load", "clear"} => idx'[c] = idx[c],
           UNCHANGED shared
    PROVE  /\ Places' /\ InOrder'
           /\ \A i \in Slots, m \in Message : Carries(i, m)' => Carries(i, m)
  <1>1. /\ \A i : Dist(i)' = Dist(i) /\ Rank(i)' = Rank(i) /\ Claimed(i)' = Claimed(i)
        /\ slot' = slot /\ readIdx' = readIdx /\ writeIdx' = writeIdx
    BY DEF shared, Dist, Rank, Claimed
  <1>2. pc'[c] = l /\ \A p \in Producers : pc'[p] = pc[p]
    BY QueueAssumption DEF TypeOK, Threads
  <1>3. \A p \in Producers : \A i : Fills(p, i)' <=> Fills(p, i)
    BY <1>2 DEF Fills
  <1>4. \A d \in Consumers : \A i : Reads(d, i)' <=> Reads(d, i)
    BY <1>2 DEF Reads
  <1>5. \A i, m : Carries(i, m)' <=> Carries(i, m)
    BY <1>1, <1>3 DEF Carries
  <1>6. Places'
    BY <1>1, <1>2, <1>3, <1>4 DEF Places, Read
  <1>7. InOrder'
    BY <1>1, <1>5 DEF InOrder
  <1> QED BY <1>5, <1>6, <1>7

\* The consumer claims the slot at readIdx, which a producer has claimed before.
LEMMA PlacesClaimRead ==
    ASSUME TypeOK, TypeOK', Places, InOrder, NEW c \in Consumers, \A d \in Consumers : d = c,
           pc[c] = "claim_read", pc' = [pc EXCEPT ![c] = "wait"],
           readIdx' = real_index(readIdx + 1),
           UNCHANGED <<slot, writeIdx, idx, t>>
    PROVE  /\ Places' /\ InOrder'
           /\ \A i \in Slots, m \in Message : Carries(i, m)' => Carries(i, m)
  <1>1. /\ writeIdx \in Slots /\ readIdx \in Slots /\ writeIdx # readIdx /\ idx[c] = readIdx
        /\ \A i \in Slots : Dist(i) \in 0..(Size - 1) /\ (Dist(i) = 0 <=> i = readIdx)
        /\ Size \in Nat /\ Size > 0
    <2>1. writeIdx \in Slots /\ readIdx \in Slots
      BY DEF TypeOK, Slots
    <2>2. \A i \in Slots : Dist(i) \in Slots
      BY DistRange
    <2>3. \A i \in Slots : Dist(i) = 0 <=> i = readIdx
      BY <2>1, DistRange
    <2>4. writeIdx # readIdx /\ idx[c] = readIdx
      BY DEF Places
    <2> QED BY <2>1, <2>2, <2>3, <2>4, QueueAssumption DEF Slots
  <1>2. /\ \A i \in Slots : Rank(i)' = Dist(i)
        /\ \A i \in Slots : i # readIdx => Dist(i)' = Dist(i) - 1
        /\ \A i \in Slots : i = readIdx => Dist(i)' = Size - 1
    BY ReadNext
  <1>3. Dist(writeIdx)' = Dist(writeIdx) - 1
    BY <1>1, <1>2
  <1>4. \A i \in Slots : Claimed(i) /\ i # readIdx => Claimed(i)'
    BY <1>1, <1>2, <1>3 DEF Claimed
  <1>5. /\ \A p \in Producers : pc'[p] = pc[p] /\ \A i : Fills(p, i)' <=> Fills(p, i)
        /\ pc'[c] = "wait"
        /\ \A i : Reads(c, i)' <=> i = readIdx
        /\ \A i : ~Reads(c, i)
    BY <1>1, QueueAssumption DEF TypeOK, Threads, Fills, Reads
  <1>6. /\ \A i : ~Read(i)
        /\ \A i : Read(i)' <=> i = readIdx
    BY <1>5 DEF Read
  <1>7. \A i, m : Carries(i, m)' <=> Carries(i, m)
    BY <1>5 DEF Carries
  <1>8. \A i \in Slots, m \in Message : Carries(i, m) => Claimed(i)
    <2> SUFFICES ASSUME NEW i \in Slots, NEW m \in Message, Carries(i, m)
                 PROVE  Claimed(i)
      OBVIOUS
    <2>1. CASE slot[i] = m
      BY <1>6, <2>1, QueueAssumption DEF Places
    <2>2. CASE slot[i] # m
      BY <1>6, <2>2 DEF Places, Carries
    <2> QED BY <2>1, <2>2
  <1>9. Places'
    <2>1. \A i \in Slots : slot'[i] # NULL => Claimed(i)' \/ Read(i)'
      BY <1>4, <1>6 DEF Places
    <2>2. \A i \in Slots, p \in Producers : Fills(p, i)' =>
             /\ slot'[i] = NULL
             /\ Claimed(i)' \/ Read(i)'
             /\ \A q \in Producers : Fills(q, i)' => q = p
      BY <1>4, <1>5, <1>6 DEF Places
    <2>3. \A i \in Slots, d \in Consumers : Reads(d, i)' => Dist(i)' = Size - 1
      BY <1>2, <1>5
    <2>4. \A d \in Consumers : pc'[d] = "wait"
      BY <1>5
    <2> QED BY <2>1, <2>2, <2>3, <2>4 DEF Places
  <1>10. InOrder'
    <2> SUFFICES ASSUME NEW i \in Slots, NEW j \in Slots, NEW m \in Message, NEW n \in Message,
                        Carries(i, m)', Carries(j, n)', m[1] = n[1], Rank(i)' < Rank(j)'
                 PROVE  m[2] < n[2]
      BY DEF InOrder
    <2>1. Carries(i, m) /\ Carries(j, n) /\ Dist(i) < Dist(j)
      BY <1>2, <1>7
    <2>2. Dist(i) < Dist(writeIdx) /\ Dist(j) < Dist(writeIdx)
      BY <1>8, <2>1 DEF Claimed
    <2>3. Rank(i) = Dist(i) + 1 /\ Rank(j) = Dist(j) + 1
      BY <1>1, <2>2 DEF Rank
    <2>4. Rank(i) < Rank(j)
      BY <1>1, <2>1, <2>3
    <2> QED BY <2>1, <2>4 DEF InOrder
  <1> QED BY <1>7, <1>9, <1>10

\* The consumer takes the message out of the slot it has claimed: it was the first.
LEMMA PlacesClear ==
    ASSUME TypeOK, TypeOK', Places, InOrder, NEW c \in Consumers, \A d \in Consumers : d = c,
           clear(c), t[c] = slot[idx[c]], t[c] \in Message
    PROVE  /\ Places' /\ InOrder'
           /\ \A i \in Slots, m \in Message : Carries(i, m)' =>
                 /\ Carries(i, m)
                 /\ m[1] = t[c][1] => t[c][2] < m[2]
           /\ idx[c] \in Slots /\ Carries(idx[c], t[c])
  <1> DEFINE k == idx[c]
  <1>1. /\ pc[c] = "clear" /\ k \in Slots /\ slot[k] = t[c]
        /\ slot' = [slot EXCEPT ![k] = NULL]
        /\ pc' = [pc EXCEPT ![c] = "idle"]
        /\ UNCHANGED <<readIdx, writeIdx, idx>>
        /\ \A p \in Producers : t'[p] = t[p]
    BY QueueAssumption DEF clear, Goto, TypeOK, Threads, Slots
  <1> HIDE DEF k
  <1>2. \A i : Dist(i)' = Dist(i) /\ Rank(i)' = Rank(i) /\ Claimed(i)' = Claimed(i)
    BY <1>1 DEF Dist, Rank, Claimed
  <1>3. \A i \in Slots : slot'[i] = IF i = k THEN NULL ELSE slot[i]
    BY <1>1 DEF TypeOK, Slots
  <1>4. /\ \A p \in Producers : pc'[p] = pc[p] /\ \A i : Fills(p, i)' <=> Fills(p, i)
        /\ pc'[c] = "idle" /\ \A i : Reads(c, i) <=> i = k
        /\ \A i : ~Reads(c, i)'
    BY <1>1, QueueAssumption DEF TypeOK, Threads, Fills, Reads, k
  <1>5. \A i : (Read(i) <=> i = k) /\ ~Read(i)'
    BY <1>4 DEF Read
  <1>6. \A p \in Producers : ~Fills(p, k)
    BY <1>1, QueueAssumption DEF Places
  <1>7. \A i \in Slots, m \in Message : Carries(i, m)' => Carries(i, m) /\ i # k
    <2> SUFFICES ASSUME NEW i \in Slots, NEW m \in Message, Carries(i, m)'
                 PROVE  Carries(i, m) /\ i # k
      OBVIOUS
    <2>1. CASE slot'[i] = m
      BY <1>3, <2>1, QueueAssumption DEF Carries
    <2>2. CASE \E p \in Producers : Fills(p, i)' /\ t'[p] = m
      BY <1>1, <1>4, <1>6, <2>2 DEF Carries
    <2> QED BY <2>1, <2>2 DEF Carries
  <1>8. Carries(k, t[c])
    BY <1>1 DEF Carries
  <1>9. Rank(k) = 0 /\ \A i \in Slots : i # k => Rank(k) < Rank(i)
    <2>1. Reads(c, k)
      BY <1>4
    <2>2. Dist(k) = Size - 1
      BY <1>1, <2>1 DEF Places
    <2>3. \A i \in Slots : Rank(i) = Rank(k) => i = k
      BY <1>1, DistRange
    <2>4. \A i \in Slots : Rank(i) \in 0..(Size - 1)
      BY DistRange DEF Slots
    <2>5. Rank(k) = 0
      BY <2>2 DEF Rank
    <2> QED BY <1>1, <2>3, <2>4, <2>5
  <1>10. \A i \in Slots, m \in Message : Carries(i, m)' /\ m[1] = t[c][1] => t[c][2] < m[2]
    BY <1>1, <1>7, <1>8, <1>9 DEF InOrder
  <1>11. Places'
    <2>1. \A i \in Slots : slot'[i] # NULL => Claimed(i)' \/ Read(i)'
      BY <1>2, <1>3, <1>5 DEF Places
    <2>2. \A i \in Slots, p \in Producers : Fills(p, i)' =>
             /\ slot'[i] = NULL
             /\ Claimed(i)' \/ Read(i)'
             /\ \A q \in Producers : Fills(q, i)' => q = p
      BY <1>2, <1>3, <1>4, <1>5, <1>6 DEF Places
    <2>3. \A d \in Consumers : pc'[d] = "idle" /\ \A i : ~Reads(d, i)'
      BY <1>4
    <2> QED BY <2>1, <2>2, <2>3 DEF Places
  <1>12. InOrder'
    BY <1>2, <1>7 DEF InOrder
  <1> QED BY <1>1, <1>7, <1>8, <1>10, <1>11, <1>12 DEF k

\* What a step of push does to the order in which the messages lie: a claim puts the
\* producer's message behind all others.
LEMMA PushPlaces ==
    ASSUME TypeOK, TypeOK', Places, InOrder, Newest, NEW p \in Producers,
           call_push(p) \/ push(p), ~lapped'
    PROVE  /\ Places' /\ InOrder'
           /\ \A i \in Slots, m \in Message :
                 Carries(i, m)' => Carries(i, m) \/ (m = t[p] /\ pc[p] # "idle")
  <1>1. /\ p \in Threads /\ t \in [Threads -> Message \cup {NULL}]
        /\ idx \in [Threads -> 0..(Size - 1)]
    BY DEF TypeOK, Threads
  <1>2. CASE call_push(p) \/ load_write(p)
    <2>1. PICK l \in {"push", "test_full"} : pc' = [pc EXCEPT ![p] = l]
      BY <1>2 DEF call_push, load_write, Goto
    <2>2. /\ pc[p] # "fill" /\ UNCHANGED shared
          /\ \A x \in Threads : x # p => t'[x] = t[x] /\ idx'[x] = idx[x]
      BY <1>1, <1>2 DEF call_push, load_write, shared
    <2>3. l # "fill"
      BY <2>1
    <2> QED BY <2>1, <2>2, <2>3, PlacesPush
  <1>3. CASE test_full(p)
    <2>1. PICK l \in {"idle", "claim_write"} : pc' = [pc EXCEPT ![p] = l]
      BY <1>3 DEF test_full, Goto
    <2>2. /\ pc[p] # "fill" /\ UNCHANGED shared
          /\ \A x \in Threads : x # p => t'[x] = t[x] /\ idx'[x] = idx[x]
      BY <1>1, <1>3 DEF test_full
    <2>3. l # "fill"
      BY <2>1
    <2> QED BY <2>1, <2>2, <2>3, PlacesPush
  <1>4. CASE claim_write(p) /\ writeIdx = idx[p]
    <2>1. /\ pc[p] = "claim_write" /\ pc' = [pc EXCEPT ![p] = "fill"]
          /\ writeIdx' = real_index(writeIdx + 1) /\ writeIdx' # readIdx
          /\ UNCHANGED <<slot, readIdx, idx, t>>
      BY <1>4 DEF claim_write, Goto
    <2> QED BY <1>4, <2>1, PlacesClaimWrite
  <1>5. CASE claim_write(p) /\ writeIdx # idx[p]
    <2>1. /\ pc[p] # "fill" /\ pc' = [pc EXCEPT ![p] = "push"]
          /\ UNCHANGED shared /\ t' = t /\ idx' = idx
      BY <1>5 DEF claim_write, Goto, shared
    <2> QED BY <2>1, PlacesPush
  <1>6. CASE fill(p)
    BY <1>6, PlacesFill
  <1> QED BY <1>2, <1>3, <1>4, <1>5, <1>6 DEF push

\* What a step of pop does to the order in which the messages lie: it takes the first.
LEMMA PopPlaces ==
    ASSUME TypeOK, TypeOK', Places, InOrder, Holds, NEW c \in Consumers,
           \A d \in Consumers : d = c, call_pop(c) \/ pop(c)
    PROVE  /\ Places' /\ InOrder'
           /\ \A i \in Slots, m \in Message : Carries(i, m)' => Carries(i, m)
           /\ \/ popped' = popped
              \/ /\ popped' = Append(popped, t[c]) /\ t[c] \in Message
                 /\ \E k \in Slots : Carries(k, t[c])
                 /\ \A i \in Slots, m \in Message :
                       Carries(i, m)' /\ m[1] = t[c][1] => t[c][2] < m[2]
  <1>1. /\ c \in Threads /\ t \in [Threads -> Message \cup {NULL}]
        /\ idx \in [Threads -> 0..(Size - 1)]
        /\ \A p \in Producers : p \in Threads /\ p # c
    BY QueueAssumption DEF TypeOK, Threads
  <1>2. CASE call_pop(c) \/ load_read(c)
    <2>1. PICK l \in {"pop", "test_empty"} :
             /\ pc' = [pc EXCEPT ![c] = l]
             /\ l = "test_empty" => idx'[c] = readIdx
      BY <1>1, <1>2 DEF call_pop, load_read, Goto
    <2>2. /\ pc[c] \in {"idle", "pop"} /\ UNCHANGED shared /\ popped' = popped
          /\ \A p \in Producers : t'[p] = t[p] /\ idx'[p] = idx[p]
      BY <1>1, <1>2 DEF call_pop, load_read, shared, history
    <2> QED BY <2>1, <2>2, PlacesPop
  <1>3. CASE test_empty(c)
    <2>1. PICK l \in {"idle", "claim_read"} :
             /\ pc' = [pc EXCEPT ![c] = l]
             /\ l = "claim_read" => writeIdx # idx[c]
      BY <1>3 DEF test_empty, Goto
    <2>2. /\ pc[c] = "test_empty" /\ UNCHANGED shared /\ popped' = popped /\ t' = t /\ idx' = idx
      BY <1>3 DEF test_empty, history
    <2>3. idx[c] = readIdx
      BY <2>2 DEF Places
    <2> QED BY <2>1, <2>2, <2>3, PlacesPop
  <1>4. CASE claim_read(c) /\ readIdx = idx[c]
    <2>1. /\ pc[c] = "claim_read" /\ pc' = [pc EXCEPT ![c] = "wait"]
          /\ readIdx' = real_index(readIdx + 1)
          /\ UNCHANGED <<slot, writeIdx, idx, t>> /\ popped' = popped
      BY <1>4 DEF claim_read, Goto, history
    <2> QED BY <2>1, PlacesClaimRead
  <1>5. CASE claim_read(c) /\ readIdx # idx[c]
    <2>1. pc[c] = "claim_read"
      BY <1>5 DEF claim_read
    <2> QED BY <1>5, <2>1 DEF Places
  <1>6. CASE wait(c) \/ load(c)
    <2>1. PICK l \in {"load", "clear"} : pc' = [pc EXCEPT ![c] = l]
      BY <1>6 DEF wait, load, Goto
    <2>2. /\ pc[c] \in {"wait", "load"} /\ UNCHANGED shared /\ popped' = popped /\ idx' = idx
          /\ \A p \in Producers : t'[p] = t[p]
      BY <1>1, <1>6 DEF wait, load, history
    <2> QED BY <2>1, <2>2, PlacesPop
  <1>7. CASE clear(c)
    <2>1. pc[c] = "clear" /\ popped' = Append(popped, t[c])
      BY <1>7 DEF clear
    <2>2. t[c] = slot[idx[c]] /\ t[c] \in Message
      BY <1>1, <2>1 DEF Holds
    <2> QED BY <1>7, <2>1, <2>2, PlacesClear
  <1> QED BY <1>2, <1>3, <1>4, <1>5, <1>6, <1>7 DEF pop

-----------------------------------------------------------------------------
\* What has been popped comes before what has not.
PoppedFirst ==
    \A k \in 1..Len(popped), i \in Slots, m \in Message :
        Carries(i, m) /\ popped[k][1] = m[1] => popped[k][2] < m[2]

PoppedInOrder ==
    \A i, j \in 1..Len(popped) :
        i < j /\ popped[i][1] = popped[j][1] => popped[i][2] < popped[j][2]

OrderInv == Inv /\ (lapped \/ (Places /\ InOrder /\ PoppedFirst /\ PoppedInOrder))

LEMMA OrderInit == Init => OrderInv
  <1> SUFFICES ASSUME Init PROVE OrderInv
    OBVIOUS
  <1>1. Size \in Nat /\ Size > 0
    BY QueueAssumption
  <1>2. \A i \in Slots : slot[i] = NULL
    BY DEF Init, Slots
  <1>3. \A p \in Producers : \A i : ~Fills(p, i)
    BY DEF Init, Fills, Threads
  <1>4. Places
    BY <1>2, <1>3 DEF Places, Init, Threads, Reads
  <1>5. NULL \notin Message /\ \A i \in Slots, m \in Message : ~Carries(i, m)
    BY <1>2, <1>3, QueueAssumption DEF Carries
  <1>6. InOrder /\ PoppedFirst
    BY <1>5 DEF InOrder, PoppedFirst
  <1>7. PoppedInOrder
    BY DEF PoppedInOrder, Init
  <1> QED BY <1>4, <1>6, <1>7, InitInv DEF OrderInv

\* The message in a producer's hands is later than its others.
LEMMA HandsNewest ==
    ASSUME Inv
    PROVE  /\ Newest
           /\ \A p \in Producers, k \in 1..Len(popped) :
                 pc[p] # "idle" /\ popped[k][1] = p => popped[k][2] < t[p][2]
  <1>1. ASSUME NEW p \in Producers, pc[p] # "idle"
        PROVE  /\ t[p] \in Message /\ t[p][1] = p
               /\ \A m \in Done : m[1] = p => m[2] < t[p][2]
    <2>1. t[p] = <<p, count[p]>> /\ count[p] > 0 /\ count[p] \in 0..MaxPush /\ MaxPush \in Nat
      BY <1>1, QueueAssumption DEF Inv, OnlyDone, TypeOK
    <2>2. t[p] \in Message
      BY <2>1 DEF Message
    <2> QED BY <1>1, <2>1, <2>2 DEF Done
  <1> QED BY <1>1 DEF Newest, Inv, OnlyDone, Slots

LEMMA OrderStep ==
    ASSUME OneConsumer
    PROVE  OrderInv /\ [Next]_vars => OrderInv'
  <1> SUFFICES ASSUME OrderInv, [Next]_vars, ~lapped'
               PROVE  Places' /\ InOrder' /\ PoppedFirst' /\ PoppedInOrder'
    BY StepInv DEF OrderInv
  <1>1. Inv /\ Inv' /\ TypeOK /\ TypeOK' /\ Holds /\ Newest
    BY StepInv, HandsNewest DEF OrderInv, Inv
  <1>2. ASSUME NEW p \in Producers, call_push(p) \/ push(p)
        PROVE  Places' /\ InOrder' /\ PoppedFirst' /\ PoppedInOrder'
    <2>1. ~lapped /\ popped' = popped
      <3>1. CASE claim_write(p)
        <4>1. lapped' = lapped \/ lapped' = (lapped \/ real_index(idx[p] + 1) = readIdx)
          BY <3>1 DEF claim_write
        <4>2. ~lapped
          BY <4>1
        <4> QED BY <3>1, <4>2 DEF claim_write
      <3>2. CASE call_push(p) \/ load_write(p) \/ test_full(p) \/ fill(p)
        BY <3>2 DEF call_push, load_write, test_full, fill, history
      <3> QED BY <1>2, <3>1, <3>2 DEF push
    <2>2. Places /\ InOrder /\ PoppedFirst /\ PoppedInOrder
      BY <2>1 DEF OrderInv
    <2>3. /\ Places' /\ InOrder'
          /\ \A i \in Slots, m \in Message :
                Carries(i, m)' => Carries(i, m) \/ (m = t[p] /\ pc[p] # "idle")
      BY <1>1, <1>2, <2>2, PushPlaces
    <2>4. PoppedFirst'
      BY <1>1, <2>1, <2>2, <2>3, HandsNewest DEF PoppedFirst, Newest
    <2> QED BY <2>1, <2>2, <2>3, <2>4 DEF PoppedInOrder
  <1>3. ASSUME NEW c \in Consumers, call_pop(c) \/ pop(c)
        PROVE  Places' /\ InOrder' /\ PoppedFirst' /\ PoppedInOrder'
    <2>1. ~lapped
      BY <1>3 DEF call_pop, pop, load_read, test_empty, claim_read, wait, load, clear, history
    <2>2. Places /\ InOrder /\ PoppedFirst /\ PoppedInOrder
      BY <2>1 DEF OrderInv
    <2>3. /\ Places' /\ InOrder'
          /\ \A i \in Slots, m \in Message : Carries(i, m)' => Carries(i, m)
      BY <1>1, <1>3, <2>2, PopPlaces DEF OneConsumer
    <2>4. CASE popped' = popped
      BY <2>2, <2>3, <2>4 DEF PoppedFirst, PoppedInOrder
    <2>5. CASE popped' # popped
      <3> DEFINE n == Len(popped)
      <3>1. /\ popped' = Append(popped, t[c]) /\ t[c] \in Message
            /\ \E k \in Slots : Carries(k, t[c])
            /\ \A i \in Slots, m \in Message :
                  Carries(i, m)' /\ m[1] = t[c][1] => t[c][2] < m[2]
        BY <1>1, <1>3, <2>2, <2>5, PopPlaces DEF OneConsumer
      <3>2. /\ n \in Nat /\ Len(popped') = n + 1 /\ popped'[n + 1] = t[c]
            /\ \A k \in 1..n : popped'[k] = popped[k]
            /\ \A k \in 1..(n + 1) : k \in 1..n \/ k = n + 1
        BY <1>1, <3>1 DEF TypeOK
      <3>3. \A k \in 1..n : popped[k][1] = t[c][1] => popped[k][2] < t[c][2]
        BY <2>2, <3>1 DEF PoppedFirst
      <3>4. PoppedFirst'
        <4> SUFFICES ASSUME NEW k \in 1..(n + 1), NEW i \in Slots, NEW m \in Message,
                            Carries(i, m)', popped'[k][1] = m[1]
                     PROVE  popped'[k][2] < m[2]
          BY <3>2 DEF PoppedFirst
        <4>1. CASE k \in 1..n
          BY <2>2, <2>3, <3>2, <4>1 DEF PoppedFirst
        <4>2. CASE k = n + 1
          BY <3>1, <3>2, <4>2
        <4> QED BY <3>2, <4>1, <4>2
      <3>5. PoppedInOrder'
        <4> SUFFICES ASSUME NEW i \in 1..(n + 1), NEW j \in 1..(n + 1), i < j,
                            popped'[i][1] = popped'[j][1]
                     PROVE  popped'[i][2] < popped'[j][2]
          BY <3>2 DEF PoppedInOrder
        <4>1. i \in 1..n /\ popped'[i] = popped[i]
          BY <3>2
        <4>2. CASE j \in 1..n
          BY <2>2, <3>2, <4>1, <4>2 DEF PoppedInOrder
        <4>3. CASE j = n + 1
          BY <3>2, <3>3, <4>1, <4>3
        <4> QED BY <3>2, <4>2, <4>3
      <3> QED BY <2>3, <3>4, <3>5
    <2> QED BY <2>4, <2>5
  <1>4. ASSUME UNCHANGED vars PROVE Places' /\ InOrder' /\ PoppedFirst' /\ PoppedInOrder'
    BY <1>4 DEF vars, history, OrderInv, Places, InOrder, PoppedFirst, PoppedInOrder, Carries,
                Fills, Reads, Read, Claimed, Dist, Rank
  <1> QED BY <1>2, <1>3, <1>4 DEF Next

\* For one consumer and as long as no stale claim has lapped the reader, the messages
\* of each producer are popped in the order in which it pushed them, however many
\* producers push and wherever the indices come round (AsyncQueue.h:86-126).
THEOREM QueueOrder == OneConsumer => (Spec => []OrderUnlessLapped)
  <1> SUFFICES ASSUME OneConsumer PROVE Spec => []OrderUnlessLapped
    OBVIOUS
  <1>1. OrderInv => OrderUnlessLapped
    BY DEF OrderInv, PoppedInOrder, OrderUnlessLapped
  <1> QED BY <1>1, OrderInit, OrderStep, PTL DEF Spec

-----------------------------------------------------------------------------
\* With one producer too, the ring refines BoundedQueue.
OneProducer == \A p, q \in Producers : p = q

\* A queue with one producer never laps: what the producer has read of writeIdx stays
\* true, and readIdx only moves away from it.
Single ==
    /\ ~lapped
    /\ \A p \in Producers : pc[p] \in {"test_full", "claim_write"} => idx[p] = writeIdx
    /\ \A p \in Producers : pc[p] = "claim_write" => real_index(writeIdx + 1) # readIdx

\* The slot that lies j behind readIdx.
LEMMA Behind ==
    ASSUME TypeOK, NEW j \in Slots
    PROVE  LET i == real_index(readIdx + j) IN
           /\ i \in Slots /\ Dist(i) = j
           /\ \A k \in Slots : Dist(k) = j => k = i
  <1>1. /\ Size \in Nat /\ Size > 0 /\ readIdx \in 0..(Size - 1) /\ j \in 0..(Size - 1)
    BY QueueAssumption DEF TypeOK, Slots
  <1>2. real_index(readIdx + j) = IF readIdx + j < Size THEN readIdx + j ELSE readIdx + j - Size
    <2>1. CASE readIdx + j < Size
      <3>1. readIdx + j \in 0..(Size - 1)
        BY <1>1, <2>1
      <3>2. (readIdx + j) % Size = readIdx + j
        BY <1>1, <3>1
      <3> QED BY <2>1, <3>2 DEF real_index
    <2>2. CASE readIdx + j >= Size
      <3> DEFINE x == readIdx + j - Size
      <3>1. x \in 0..(Size - 1)
        BY <1>1, <2>2
      <3>2. (x + Size) % Size = x
        BY <1>1, <3>1
      <3>3. readIdx + j = x + Size
        BY <1>1
      <3>4. (readIdx + j) % Size = x
        BY <3>2, <3>3
      <3> QED BY <1>1, <2>2, <3>4 DEF real_index
    <2> QED BY <1>1, <2>1, <2>2
  <1> QED BY <1>1, <1>2 DEF Dist, Slots

\* The number of messages in the ring.
LEMMA HowMany == TypeOK => (writeIdx - readIdx) % Size = Dist(writeIdx)
  <1> SUFFICES ASSUME TypeOK PROVE (writeIdx - readIdx) % Size = Dist(writeIdx)
    OBVIOUS
  <1> DEFINE x == Dist(writeIdx)
  <1>1. /\ Size \in Nat /\ Size > 0 /\ readIdx \in 0..(Size - 1) /\ writeIdx \in 0..(Size - 1)
    BY QueueAssumption DEF TypeOK, Slots
  <1>2. x \in 0..(Size - 1)
    BY <1>1 DEF Dist
  <1>3. CASE writeIdx >= readIdx
    BY <1>1, <1>2, <1>3 DEF Dist
  <1>4. CASE writeIdx < readIdx
    <2>1. (x - Size) % Size = x
      <3> HIDE DEF x
      <3> QED BY <1>1, <1>2
    <2>2. writeIdx - readIdx = x - Size
      BY <1>1, <1>4 DEF Dist
    <2> QED BY <2>1, <2>2
  <1> QED BY <1>1, <1>3, <1>4

LEMMA SingleInit == Init => Single
  BY DEF Init, Single, Threads

LEMMA SingleStep ==
    ASSUME OneConsumer, OneProducer
    PROVE  OrderInv /\ OrderInv' /\ Single /\ [Next]_vars => Single'
  <1> SUFFICES ASSUME OrderInv, OrderInv', Single, [Next]_vars PROVE Single'
    OBVIOUS
  <1>0. /\ TypeOK /\ TypeOK' /\ Places /\ ~lapped
        /\ writeIdx \in Slots /\ readIdx \in Slots /\ writeIdx' \in Slots /\ Size \in Nat
        /\ \A p \in Producers : p \in Threads /\ p \notin Consumers
        /\ \A c \in Consumers : c \in Threads
        /\ pc \in [Threads -> PushLabel \cup PopLabel] /\ idx \in [Threads -> 0..(Size - 1)]
    BY QueueAssumption DEF OrderInv, Inv, Single, TypeOK, Slots, Threads
  <1>1. ASSUME NEW p \in Producers, call_push(p) \/ push(p) PROVE Single'
    <2>1. readIdx' = readIdx /\ \A q \in Producers : q = p
      BY <1>1 DEF OneProducer, call_push, push, load_write, test_full, claim_write, fill, shared
    <2>2. CASE call_push(p)
      BY <1>0, <2>1, <2>2 DEF call_push, Goto, Single
    <2>3. CASE load_write(p)
      BY <1>0, <2>1, <2>3 DEF load_write, Goto, Single, shared, history
    <2>4. CASE test_full(p)
      BY <1>0, <2>1, <2>4 DEF test_full, Goto, Single, shared, history
    <2>5. CASE claim_write(p)
      <3>1. /\ writeIdx = idx[p] /\ real_index(idx[p] + 1) # readIdx
            /\ lapped' = (lapped \/ real_index(idx[p] + 1) = readIdx)
            /\ pc'[p] = "fill"
        BY <1>0, <2>5 DEF claim_write, Goto, Single
      <3>2. ~lapped'
        BY <1>0, <3>1
      <3> QED BY <1>0, <2>1, <3>1, <3>2 DEF Single
    <2>6. CASE fill(p)
      BY <1>0, <2>1, <2>6 DEF fill, Goto, Single
    <2> QED BY <1>1, <2>2, <2>3, <2>4, <2>5, <2>6 DEF push
  <1>2. ASSUME NEW c \in Consumers, call_pop(c) \/ pop(c) PROVE Single'
    <2>1. /\ writeIdx' = writeIdx /\ lapped' = lapped
          /\ \A p \in Producers : pc'[p] = pc[p] /\ idx'[p] = idx[p]
      BY <1>0, <1>2 DEF call_pop, pop, load_read, test_empty, claim_read, wait, load, clear,
                        shared, history, Goto
    <2>2. CASE readIdx' = readIdx
      BY <2>1, <2>2 DEF Single
    <2>3. CASE readIdx' # readIdx
      <3>1. claim_read(c)
        BY <1>2, <2>3 DEF call_pop, pop, load_read, test_empty, wait, load, clear, shared
      <3>2. /\ readIdx' = real_index(readIdx + 1) /\ writeIdx # readIdx
        BY <2>3, <1>0, <3>1 DEF claim_read, Places
      <3>3. real_index(writeIdx + 1) # real_index(readIdx + 1)
        <4>1. /\ real_index(readIdx + 1) = IF readIdx = Size - 1 THEN 0 ELSE readIdx + 1
              /\ real_index(writeIdx + 1) = IF writeIdx = Size - 1 THEN 0 ELSE writeIdx + 1
          BY <1>0, NextSlot
        <4> QED BY <1>0, <3>2, <4>1 DEF Slots
      <3> QED BY <2>1, <3>2, <3>3 DEF Single
    <2> QED BY <2>2, <2>3
  <1>3. CASE UNCHANGED vars
    BY <1>3 DEF vars, history, Single
  <1> QED BY <1>1, <1>2, <1>3 DEF Next

\* The message at a slot is the one of its producer until it is there.
LEMMA MessageAtIs ==
    /\ \A q \in Producers : \A i :
          Fills(q, i) /\ (\A r \in Producers : r = q) => MessageAt(i) = t[q]
    /\ \A i : (\A q \in Producers : ~Fills(q, i)) => MessageAt(i) = slot[i]
  BY DEF Fills, MessageAt

\* The slot of the k-th message in the ring.
At(k) == real_index(readIdx + k - 1)

LEMMA AtIs ==
    TypeOK => \A k \in 1..Size : /\ At(k) \in Slots /\ Dist(At(k)) = k - 1
                                 /\ \A i \in Slots : Dist(i) = k - 1 => i = At(k)
  <1> SUFFICES ASSUME TypeOK, NEW k \in 1..Size
               PROVE  /\ At(k) \in Slots /\ Dist(At(k)) = k - 1
                      /\ \A i \in Slots : Dist(i) = k - 1 => i = At(k)
    OBVIOUS
  <1>1. k - 1 \in Slots /\ readIdx \in Int /\ Size \in Nat
    BY QueueAssumption DEF Slots, TypeOK
  <1>2. At(k) = real_index(readIdx + (k - 1))
    <2>1. readIdx + k - 1 = readIdx + (k - 1)
      BY <1>1
    <2> QED BY <2>1 DEF At
  <1> QED BY <1>1, <1>2, Behind

LEMMA PendingIs ==
    TypeOK => /\ Pending = [k \in 1..Dist(writeIdx) |-> MessageAt(At(k))]
              /\ Dist(writeIdx) \in 0..(Size - 1) /\ Size \in Nat
              /\ Len(Pending) = Dist(writeIdx)
  <1> SUFFICES ASSUME TypeOK
               PROVE  /\ Pending = [k \in 1..Dist(writeIdx) |-> MessageAt(At(k))]
                      /\ Dist(writeIdx) \in 0..(Size - 1) /\ Size \in Nat
                      /\ Len(Pending) = Dist(writeIdx)
    OBVIOUS
  <1>1. Pending = [k \in 1..Dist(writeIdx) |-> MessageAt(At(k))]
    BY HowMany DEF Pending, At
  <1>2. Dist(writeIdx) \in 0..(Size - 1) /\ Size \in Nat
    BY DistRange, QueueAssumption DEF TypeOK, Slots
  <1> QED BY <1>1, <1>2

\* A step that leaves both indices and every message that is in the ring.
LEMMA PendingSame ==
    ASSUME TypeOK, TypeOK', readIdx' = readIdx, writeIdx' = writeIdx,
           \A i \in Slots : Claimed(i) => MessageAt(i)' = MessageAt(i)
    PROVE  Pending' = Pending
  <1>1. (TypeOK => /\ Pending = [k \in 1..Dist(writeIdx) |-> MessageAt(At(k))]
                   /\ Dist(writeIdx) \in 0..(Size - 1) /\ Size \in Nat
                   /\ Len(Pending) = Dist(writeIdx))'
    BY PendingIs, PTL
  <1>2. \A i : Dist(i)' = Dist(i) /\ At(i)' = At(i)
    BY DEF Dist, At
  <1>3. Dist(writeIdx)' = Dist(writeIdx)
    BY <1>2
  <1>4. \A k \in 1..Dist(writeIdx) : MessageAt(At(k))' = MessageAt(At(k))
    <2> SUFFICES ASSUME NEW k \in 1..Dist(writeIdx)
                 PROVE  MessageAt(At(k))' = MessageAt(At(k))
      OBVIOUS
    <2>1. At(k) \in Slots /\ Claimed(At(k))
      BY PendingIs, AtIs DEF Claimed
    <2>2. At(k)' = At(k)
      BY <1>2
    <2> QED BY <2>1, <2>2
  <1> QED BY <1>1, <1>3, <1>4, PendingIs

\* What BoundedQueue sees of a thread.
Phases == [x \in Threads |-> PhaseOf(x)]
Items == [x \in Threads |-> ItemOf(x)]

LEMMA PhasesStep ==
    ASSUME TypeOK, TypeOK', NEW x \in Threads, NEW l, pc' = [pc EXCEPT ![x] = l]
    PROVE  /\ Phases[x] = PhaseOf(x)
           /\ Phases' = [Phases EXCEPT ![x] = PhaseOf(x)']
           /\ pc'[x] = l /\ \A y \in Threads : y # x => pc'[y] = pc[y]
  BY DEF TypeOK, Phases, PhaseOf

LEMMA ItemsStep ==
    ASSUME NEW x \in Threads, \A y \in Threads : y # x => ItemOf(y)' = ItemOf(y)
    PROVE  /\ Items[x] = ItemOf(x)
           /\ Items' = [Items EXCEPT ![x] = ItemOf(x)']
  BY DEF Items

BoundedStep == [Bounded!Next]_(Bounded!vars)

\* Each step of the producer is a step of BoundedQueue or none: it puts its message
\* when it claims the slot.
LEMMA PushRefines ==
    ASSUME OneProducer, TypeOK, TypeOK', Inv, Places, Single, ~lapped',
           NEW p \in Producers, call_push(p) \/ push(p)
    PROVE  BoundedStep
  <1> USE DEF BoundedStep, Bounded!Next, Bounded!push, Bounded!Phase, Phases, Items
  <1>0. /\ p \in Threads /\ writeIdx \in Slots /\ idx[p] \in Slots /\ Size \in Nat
        /\ pc \in [Threads -> PushLabel \cup PopLabel]
        /\ t \in [Threads -> Message \cup {NULL}] /\ t' \in [Threads -> Message \cup {NULL}]
        /\ idx \in [Threads -> 0..(Size - 1)]
        /\ slot \in [0..(Size - 1) -> Message \cup {NULL}]
        /\ \A q \in Producers : q = p
        /\ \A c \in Consumers : c \in Threads /\ c # p
        /\ \A x \in Threads : x # p => x \in Consumers
        /\ readIdx' = readIdx /\ popped' = popped
    <2>1. readIdx' = readIdx /\ popped' = popped
      BY DEF call_push, push, load_write, test_full, claim_write, fill, shared, history
    <2> QED BY <2>1, QueueAssumption DEF OneProducer, TypeOK, Threads, Slots
  <1>1. \A i \in Slots, c \in Consumers : Reads(c, i) => ~Claimed(i)
    <2>1. Dist(writeIdx) \in 0..(Size - 1)
      BY PendingIs
    <2> QED BY <1>0, <2>1 DEF Places, Claimed
  <1>2. (/\ \A q \in Producers : \A i :
               Fills(q, i) /\ (\A r \in Producers : r = q) => MessageAt(i) = t[q]
         /\ \A i : (\A q \in Producers : ~Fills(q, i)) => MessageAt(i) = slot[i])'
    BY MessageAtIs, PTL
  \* Where the producer neither claims nor fills, no message changes.
  <1>3. ASSUME slot' = slot, writeIdx' = writeIdx, pc[p] # "fill", NEW l, l # "fill",
               pc' = [pc EXCEPT ![p] = l],
               \A x \in Threads : x # p => t'[x] = t[x] /\ idx'[x] = idx[x]
        PROVE  /\ Pending' = Pending /\ Phases[p] = PhaseOf(p)
               /\ Phases' = [Phases EXCEPT ![p] = PhaseOf(p)']
               /\ Items[p] = ItemOf(p) /\ Items' = [Items EXCEPT ![p] = ItemOf(p)']
    <2>1. \A i : MessageAt(i)' = MessageAt(i)
      <3>1. pc'[p] = l
        BY <1>0, <1>3
      <3>2. \A q \in Producers : \A i : ~Fills(q, i) /\ ~Fills(q, i)'
        BY <1>0, <1>3, <3>1 DEF Fills
      <3> QED BY <1>2, <1>3, <3>2, MessageAtIs
    <2>2. Pending' = Pending
      BY <1>0, <1>3, <2>1, PendingSame
    <2>3. /\ Phases[p] = PhaseOf(p) /\ Phases' = [Phases EXCEPT ![p] = PhaseOf(p)']
          /\ \A x \in Threads : x # p => pc'[x] = pc[x]
      BY <1>0, <1>3, PhasesStep
    <2>4. \A x \in Threads : x # p => ItemOf(x)' = ItemOf(x)
      BY <1>3, <2>1, <2>3 DEF ItemOf
    <2> QED BY <1>0, <2>2, <2>3, <2>4, ItemsStep
  <1>4. CASE call_push(p)
    <2>1. /\ pc[p] = "idle" /\ pc' = [pc EXCEPT ![p] = "push"] /\ idx' = idx
          /\ t' = [t EXCEPT ![p] = <<p, count[p] + 1>>]
          /\ UNCHANGED <<slot, writeIdx, accepted, popped>>
      BY <1>4 DEF call_push, Goto, shared
    <2>2. t'[p] \in Message
      BY <1>0, <1>4, <2>1 DEF call_push, TypeOK, Message
    <2>3. pc'[p] = "push"
      BY <1>0, <2>1
    <2>4. ItemOf(p)' = t'[p] /\ PhaseOf(p) = "idle" /\ PhaseOf(p)' = "asked"
      BY <2>1, <2>3 DEF ItemOf, PhaseOf
    <2>5. /\ Pending' = Pending /\ Phases[p] = "idle"
          /\ Phases' = [Phases EXCEPT ![p] = "asked"]
          /\ Items' = [Items EXCEPT ![p] = t'[p]]
      BY <1>0, <1>3, <2>1, <2>4
    <2> QED BY <2>1, <2>2, <2>5 DEF Bounded!CallPush
  <1>5. CASE load_write(p) \/ (test_full(p) /\ real_index(idx[p] + 1) # readIdx)
    <2>1. PICK l \in {"test_full", "claim_write"} : pc' = [pc EXCEPT ![p] = l]
      BY <1>5 DEF load_write, test_full, Goto
    <2>2. /\ pc[p] \in {"push", "test_full"} /\ t' = t
          /\ \A x \in Threads : x # p => idx'[x] = idx[x]
          /\ UNCHANGED <<slot, writeIdx, accepted, popped>>
      BY <1>0, <1>5 DEF load_write, test_full, shared, history
    <2>3. pc'[p] = l
      BY <1>0, <2>1
    <2>4. ItemOf(p)' = ItemOf(p) /\ PhaseOf(p)' = PhaseOf(p)
      BY <2>2, <2>3 DEF ItemOf, PhaseOf
    <2>5. /\ Pending' = Pending
          /\ Phases' = [Phases EXCEPT ![p] = PhaseOf(p)'] /\ Phases[p] = PhaseOf(p)
          /\ Items' = [Items EXCEPT ![p] = ItemOf(p)'] /\ Items[p] = ItemOf(p)
      BY <1>0, <1>3, <2>1, <2>2
    <2>6. Phases' = Phases /\ Items' = Items
      BY <2>4, <2>5
    <2> QED BY <2>2, <2>5, <2>6 DEF Bounded!vars
  <1>6. CASE test_full(p) /\ real_index(idx[p] + 1) = readIdx
    <2>1. /\ pc[p] = "test_full" /\ pc' = [pc EXCEPT ![p] = "idle"] /\ idx' = idx
          /\ t' = [t EXCEPT ![p] = NULL]
          /\ UNCHANGED <<slot, writeIdx, accepted, popped>>
      BY <1>6 DEF test_full, Goto, shared, history
    <2>2. pc'[p] = "idle" /\ t'[p] = NULL /\ \A x \in Threads : x # p => t'[x] = t[x]
      BY <1>0, <2>1
    <2>3. ItemOf(p)' = NULL /\ PhaseOf(p) = "asked" /\ PhaseOf(p)' = "idle"
      BY <2>1, <2>2 DEF ItemOf, PhaseOf
    <2>4. /\ Pending' = Pending /\ Phases[p] = "asked"
          /\ Phases' = [Phases EXCEPT ![p] = "idle"]
          /\ Items' = [Items EXCEPT ![p] = NULL]
      BY <1>0, <1>3, <2>1, <2>2, <2>3
    <2>5. Len(Pending) = Size - 1
      <3>1. idx[p] = writeIdx
        BY <2>1 DEF Single
      <3>2. real_index(writeIdx + 1) = readIdx
        BY <1>6, <3>1
      <3>3. readIdx = IF writeIdx = Size - 1 THEN 0 ELSE writeIdx + 1
        BY <1>0, <3>2, NextSlot
      <3>4. Dist(writeIdx) = Size - 1
        BY <1>0, <3>3 DEF Dist, Slots
      <3> QED BY <3>4, PendingIs
    <2> QED BY <2>1, <2>4, <2>5 DEF Bounded!Refuse
  <1>7. CASE claim_write(p)
    <2>1. /\ pc[p] = "claim_write" /\ pc' = [pc EXCEPT ![p] = "fill"] /\ idx[p] = writeIdx
          /\ writeIdx' = real_index(writeIdx + 1) /\ writeIdx' # readIdx
          /\ UNCHANGED <<slot, idx, t, accepted, popped>>
      BY <1>7 DEF claim_write, Goto, Single
    <2>2. pc'[p] = "fill" /\ \A x \in Threads : x # p => pc'[x] = pc[x]
      BY <1>0, <2>1
    <2>3. /\ \A i : ~Fills(p, i)
          /\ \A i : Fills(p, i)' <=> i = writeIdx
      BY <2>1, <2>2 DEF Fills
    <2>4. \A i : MessageAt(i)' = IF i = writeIdx THEN t[p] ELSE MessageAt(i)
      BY <1>0, <1>2, <2>1, <2>3, MessageAtIs
    <2>5. /\ Dist(writeIdx)' = Dist(writeIdx) + 1 /\ Dist(writeIdx)' \in 0..(Size - 1)
          /\ Dist(writeIdx) \in 0..(Size - 1)
          /\ Len(Pending) = Dist(writeIdx)
          /\ Pending = [k \in 1..Dist(writeIdx) |-> MessageAt(At(k))]
          /\ Pending' = [k \in 1..Dist(writeIdx)' |-> MessageAt(At(k))']
      <3>1. (TypeOK => /\ Pending = [k \in 1..Dist(writeIdx) |-> MessageAt(At(k))]
                       /\ Dist(writeIdx) \in 0..(Size - 1) /\ Size \in Nat
                       /\ Len(Pending) = Dist(writeIdx))'
        BY PendingIs, PTL
      <3> QED BY <1>0, <2>1, <3>1, PendingIs, WriteNext
    <2>6. \A k : At(k)' = At(k)
      BY <1>0 DEF At
    <2>7. /\ At(Dist(writeIdx) + 1) = writeIdx
          /\ \A k \in 1..Dist(writeIdx) : At(k) # writeIdx
      <3>1. Dist(writeIdx) + 1 \in 1..Size /\ (Dist(writeIdx) + 1) - 1 = Dist(writeIdx)
        BY <1>0, <2>5
      <3>2. At(Dist(writeIdx) + 1) = writeIdx
        BY <1>0, <3>1, AtIs
      <3>3. \A k \in 1..Dist(writeIdx) : Dist(At(k)) # Dist(writeIdx)
        BY <1>0, <2>5, AtIs
      <3> QED BY <3>2, <3>3
    <2>8. Pending' = Append(Pending, t[p])
      <3> DEFINE n == Dist(writeIdx)
      <3>1. n \in Nat /\ n + 1 \in Nat /\ Dist(writeIdx)' = n + 1
        BY <2>5
      <3>2. /\ \A k \in 1..n : MessageAt(At(k))' = MessageAt(At(k))
            /\ \A k : k = n + 1 => MessageAt(At(k))' = t[p]
        <4>1. ASSUME NEW k, At(k) # writeIdx PROVE MessageAt(At(k))' = MessageAt(At(k))
          <5>1. At(k)' = At(k)
            BY <2>6
          <5> QED BY <2>4, <4>1, <5>1
        <4>2. ASSUME NEW k, k = n + 1 PROVE MessageAt(At(k))' = t[p]
          <5>1. At(k)' = At(k) /\ At(k) = writeIdx
            BY <2>6, <2>7, <4>2
          <5> QED BY <2>4, <5>1
        <4> QED BY <2>7, <4>1, <4>2
      <3> HIDE DEF n
      <3>3. Pending = [k \in 1..n |-> MessageAt(At(k))]
            /\ Pending' = [k \in 1..(n + 1) |-> MessageAt(At(k))'] /\ Len(Pending) = n
        BY <2>5, <3>1 DEF n
      <3>4. Append(Pending, t[p]) = [k \in 1..(n + 1) |-> IF k = n + 1 THEN t[p] ELSE Pending[k]]
        BY <3>1, <3>3
      <3>5. ASSUME NEW k \in 1..(n + 1)
            PROVE  MessageAt(At(k))' = IF k = n + 1 THEN t[p] ELSE Pending[k]
        <4>1. CASE k = n + 1
          BY <3>2, <4>1
        <4>2. CASE k # n + 1
          <5>1. k \in 1..n
            BY <3>1, <4>2
          <5>2. Pending[k] = MessageAt(At(k))
            BY <3>3, <5>1
          <5> QED BY <3>2, <4>2, <5>1, <5>2
        <4> QED BY <4>1, <4>2
      <3> QED BY <3>3, <3>4, <3>5
    <2>9. ItemOf(p) = t[p] /\ ItemOf(p)' = t[p] /\ PhaseOf(p) = "asked" /\ PhaseOf(p)' = "done"
      BY <2>1, <2>2 DEF ItemOf, PhaseOf
    <2>10. \A x \in Threads : x # p => ItemOf(x)' = ItemOf(x)
      <3> SUFFICES ASSUME NEW x \in Threads, x # p PROVE ItemOf(x)' = ItemOf(x)
        OBVIOUS
      <3>1. CASE pc[x] \in {"wait", "load"}
        <4>1. idx[x] # writeIdx
          <5>1. x \in Consumers /\ Reads(x, idx[x]) /\ idx[x] \in Slots
            BY <1>0, <3>1 DEF Reads, Slots
          <5>2. Dist(idx[x]) = Size - 1
            BY <5>1 DEF Places
          <5> QED BY <1>0, <2>5, <5>2
        <4> QED BY <2>1, <2>2, <2>4, <3>1, <4>1 DEF ItemOf
      <3>2. CASE pc[x] \notin {"wait", "load"}
        BY <2>1, <2>2, <3>2 DEF ItemOf
      <3> QED BY <3>1, <3>2
    <2>11. /\ Phases[p] = "asked" /\ Phases' = [Phases EXCEPT ![p] = "done"]
           /\ Items[p] = t[p] /\ Items' = Items
      <3>1. /\ Phases[p] = "asked" /\ Phases' = [Phases EXCEPT ![p] = "done"]
        BY <1>0, <2>1, <2>9, PhasesStep
      <3>2. Items[p] = t[p] /\ Items' = [Items EXCEPT ![p] = t[p]]
        BY <1>0, <2>9, <2>10, ItemsStep
      <3> QED BY <3>1, <3>2
    <2>12. Len(Pending) < Size - 1
      BY <1>0, <2>5
    <2> QED BY <2>1, <2>8, <2>11, <2>12 DEF Bounded!Put
  <1>8. CASE fill(p)
    <2>1. /\ pc[p] = "fill" /\ pc' = [pc EXCEPT ![p] = "idle"] /\ slot[idx[p]] = NULL
          /\ slot' = [slot EXCEPT ![idx[p]] = t[p]]
          /\ accepted' = accepted \cup {t[p]}
          /\ t' = [t EXCEPT ![p] = NULL]
          /\ UNCHANGED <<writeIdx, idx, popped>>
      BY <1>8 DEF fill, Goto
    <2>2. /\ pc'[p] = "idle" /\ t'[p] = NULL
          /\ \A x \in Threads : x # p => pc'[x] = pc[x] /\ t'[x] = t[x]
          /\ \A i \in Slots : slot'[i] = IF i = idx[p] THEN t[p] ELSE slot[i]
      BY <1>0, <2>1 DEF Slots
    <2>3. \A q \in Producers : \A i : /\ ~Fills(q, i)'
                                      /\ Fills(q, i) <=> i = idx[p]
      BY <1>0, <2>1, <2>2 DEF Fills
    <2>4. ASSUME NEW i \in Slots PROVE MessageAt(i)' = MessageAt(i)
      <3>1. MessageAt(i)' = slot'[i]
        BY <1>2, <2>3
      <3>2. CASE i = idx[p]
        <4>1. MessageAt(i) = t[p]
          BY <1>0, <2>3, <3>2, MessageAtIs
        <4> QED BY <2>2, <3>1, <3>2, <4>1
      <3>3. CASE i # idx[p]
        <4>1. MessageAt(i) = slot[i]
          BY <1>0, <2>3, <3>3, MessageAtIs
        <4> QED BY <2>2, <3>1, <3>3, <4>1
      <3> QED BY <3>2, <3>3
    <2>5. Pending' = Pending
      BY <1>0, <2>1, <2>4, PendingSame
    <2>6. /\ ItemOf(p) = t[p] /\ ItemOf(p)' = NULL /\ PhaseOf(p) = "done" /\ PhaseOf(p)' = "idle"
      BY <2>1, <2>2 DEF ItemOf, PhaseOf
    <2>7. \A x \in Threads : x # p => ItemOf(x)' = ItemOf(x)
      BY <1>0, <2>1, <2>2, <2>4 DEF ItemOf, Slots
    <2>8. /\ Phases[p] = "done" /\ Phases' = [Phases EXCEPT ![p] = "idle"]
          /\ Items[p] = t[p] /\ Items' = [Items EXCEPT ![p] = NULL]
      BY <1>0, <2>1, <2>6, <2>7, PhasesStep, ItemsStep
    <2> QED BY <2>1, <2>5, <2>8 DEF Bounded!ReturnPush
  <1> QED BY <1>4, <1>5, <1>6, <1>7, <1>8 DEF push, test_full

\* Each step of the consumer is a step of BoundedQueue or none: it gets its message
\* when it claims the slot, though the producer may not have filled it yet.
LEMMA PopRefines ==
    ASSUME OneProducer, OneConsumer, TypeOK, TypeOK', Holds, Places, NEW c \in Consumers,
           call_pop(c) \/ pop(c)
    PROVE  BoundedStep
  <1> USE DEF BoundedStep, Bounded!Next, Bounded!pop, Bounded!Phase, Phases, Items
  <1>0. /\ c \in Threads /\ writeIdx \in Slots /\ readIdx \in Slots /\ Size \in Nat
        /\ idx[c] \in Slots
        /\ pc \in [Threads -> PushLabel \cup PopLabel]
        /\ t \in [Threads -> Message \cup {NULL}] /\ t' \in [Threads -> Message \cup {NULL}]
        /\ idx \in [Threads -> 0..(Size - 1)]
        /\ slot \in [0..(Size - 1) -> Message \cup {NULL}]
        /\ \A p \in Producers : p \in Threads /\ p # c /\ pc[p] \notin {"wait", "load"}
        /\ \A x \in Threads : x # c => x \in Producers
    BY QueueAssumption DEF OneConsumer, TypeOK, Threads, Slots, PushLabel
  <1>1. writeIdx' = writeIdx /\ accepted' = accepted
    BY DEF call_pop, pop, load_read, test_empty, claim_read, wait, load, clear, shared, history
  <1>2. PICK l : pc' = [pc EXCEPT ![c] = l]
    BY DEF call_pop, pop, load_read, test_empty, claim_read, wait, load, clear, Goto
  <1>3. pc'[c] = l /\ \A x \in Threads : x # c => pc'[x] = pc[x]
    BY <1>0, <1>2
  <1>4. \A x \in Threads : x # c => t'[x] = t[x]
    BY <1>0 DEF call_pop, pop, load_read, test_empty, claim_read, wait, load, clear, shared, history
  <1>5. \A p \in Producers : \A i : Fills(p, i) => t'[p] = t[p]
    BY <1>0, <1>4
  <1>6. \A p \in Producers : idx'[p] = idx[p]
    BY <1>0 DEF call_pop, pop, load_read, test_empty, claim_read, wait, load, clear, shared, history
  <1>7. \A p \in Producers : \A i : Fills(p, i)' <=> Fills(p, i)
    BY <1>0, <1>3, <1>6 DEF Fills
  <1>19. (/\ \A q \in Producers : \A i :
                Fills(q, i) /\ (\A r \in Producers : r = q) => MessageAt(i) = t[q]
          /\ \A i : (\A q \in Producers : ~Fills(q, i)) => MessageAt(i) = slot[i])'
    BY MessageAtIs, PTL
  <1>8. \A i : slot'[i] = slot[i] => MessageAt(i)' = MessageAt(i)
    <2> SUFFICES ASSUME NEW i, slot'[i] = slot[i] PROVE MessageAt(i)' = MessageAt(i)
      OBVIOUS
    <2>2. CASE \E q \in Producers : Fills(q, i)
      <3>1. PICK q \in Producers : Fills(q, i)
        BY <2>2
      <3>2. \A r \in Producers : r = q
        BY DEF OneProducer
      <3>3. MessageAt(i) = t[q]
        BY <3>1, <3>2, MessageAtIs
      <3>4. MessageAt(i)' = t'[q]
        BY <1>7, <1>19, <3>1, <3>2
      <3> QED BY <1>5, <3>1, <3>3, <3>4
    <2>3. CASE \A q \in Producers : ~Fills(q, i)
      <3>1. MessageAt(i) = slot[i]
        BY <2>3, MessageAtIs
      <3>2. MessageAt(i)' = slot'[i]
        BY <1>7, <1>19, <2>3
      <3> QED BY <3>1, <3>2
    <2> QED BY <2>2, <2>3
  <1>9. \A x \in Threads : x # c => ItemOf(x)' = ItemOf(x)
    BY <1>0, <1>3, <1>4 DEF ItemOf
  <1>10. /\ Phases[c] = PhaseOf(c) /\ Phases' = [Phases EXCEPT ![c] = PhaseOf(c)']
         /\ Items[c] = ItemOf(c) /\ Items' = [Items EXCEPT ![c] = ItemOf(c)']
    BY <1>0, <1>2, <1>9, PhasesStep, ItemsStep
  \* Where the consumer neither claims nor clears, no message changes.
  <1>11. ASSUME UNCHANGED <<slot, readIdx>> PROVE Pending' = Pending
    BY <1>1, <1>8, <1>11, PendingSame
  <1>12. CASE call_pop(c)
    <2>1. /\ pc[c] = "idle" /\ l = "pop"
          /\ UNCHANGED <<slot, readIdx, idx, t, popped>>
      BY <1>0, <1>2, <1>3, <1>12 DEF call_pop, Goto, shared, history
    <2>2. ItemOf(c)' = ItemOf(c) /\ PhaseOf(c) = "idle" /\ PhaseOf(c)' = "asked"
      BY <1>3, <2>1 DEF ItemOf, PhaseOf
    <2>3. Items' = Items /\ Pending' = Pending
      BY <1>10, <1>11, <2>1, <2>2
    <2> QED BY <1>1, <1>10, <2>1, <2>2, <2>3 DEF Bounded!CallPop
  <1>13. CASE load_read(c) \/ (claim_read(c) /\ readIdx # idx[c])
              \/ (test_empty(c) /\ writeIdx # idx[c])
    <2>1. /\ pc[c] \in {"pop", "test_empty", "claim_read"}
          /\ l \in {"pop", "test_empty", "claim_read"}
          /\ UNCHANGED <<slot, readIdx, t, popped>>
      BY <1>0, <1>2, <1>3, <1>13 DEF load_read, test_empty, claim_read, Goto, shared, history
    <2>2. ItemOf(c)' = ItemOf(c) /\ PhaseOf(c)' = PhaseOf(c)
      BY <1>3, <2>1 DEF ItemOf, PhaseOf
    <2>3. Items' = Items /\ Phases' = Phases /\ Pending' = Pending
      BY <1>10, <1>11, <2>1, <2>2
    <2> QED BY <1>1, <2>1, <2>3 DEF Bounded!vars
  <1>14. CASE test_empty(c) /\ writeIdx = idx[c]
    <2>1. /\ pc[c] = "test_empty" /\ l = "idle"
          /\ UNCHANGED <<slot, readIdx, t, popped>>
      BY <1>0, <1>2, <1>3, <1>14 DEF test_empty, Goto, shared, history
    <2>2. ItemOf(c)' = ItemOf(c) /\ PhaseOf(c) = "asked" /\ PhaseOf(c)' = "idle"
      BY <1>3, <2>1 DEF ItemOf, PhaseOf
    <2>3. Items' = Items /\ Pending' = Pending
      BY <1>10, <1>11, <2>1, <2>2
    <2>4. Pending = <<>>
      <3>1. writeIdx = readIdx
        BY <1>14, <2>1 DEF Places
      <3>2. Dist(writeIdx) = 0
        BY <1>0, <3>1 DEF Dist, Slots
      <3>3. Pending = [k \in 1..Dist(writeIdx) |-> MessageAt(At(k))]
        BY PendingIs
      <3> QED BY <3>2, <3>3
    <2> QED BY <1>1, <1>10, <2>1, <2>2, <2>3, <2>4 DEF Bounded!Nothing
  <1>15. CASE wait(c)
    <2>1. /\ pc[c] = "wait" /\ l = "load"
          /\ UNCHANGED <<slot, readIdx, idx, t, popped>>
      BY <1>0, <1>2, <1>3, <1>15 DEF wait, Goto, shared, history
    <2>2. MessageAt(idx[c])' = MessageAt(idx[c])
      BY <1>8, <2>1
    <2>3. ItemOf(c)' = ItemOf(c) /\ PhaseOf(c)' = PhaseOf(c)
      BY <1>3, <2>1, <2>2 DEF ItemOf, PhaseOf
    <2>4. Items' = Items /\ Phases' = Phases /\ Pending' = Pending
      BY <1>10, <1>11, <2>1, <2>3
    <2> QED BY <1>1, <2>1, <2>4 DEF Bounded!vars
  <1>16. CASE load(c)
    <2>1. /\ pc[c] = "load" /\ l = "clear" /\ t'[c] = slot[idx[c]]
          /\ UNCHANGED <<slot, readIdx, idx, popped>>
      BY <1>0, <1>2, <1>3, <1>16 DEF load, Goto, shared, history
    <2>2. slot[idx[c]] # NULL
      BY <2>1 DEF Holds
    <2>3. \A p \in Producers : ~Fills(p, idx[c])
      BY <1>0, <2>2 DEF Places
    <2>4. MessageAt(idx[c]) = slot[idx[c]]
      BY <2>3, MessageAtIs
    <2>5. ItemOf(c)' = ItemOf(c) /\ PhaseOf(c)' = PhaseOf(c)
      BY <1>3, <2>1, <2>4 DEF ItemOf, PhaseOf
    <2>6. Items' = Items /\ Phases' = Phases /\ Pending' = Pending
      BY <1>10, <1>11, <2>1, <2>5
    <2> QED BY <1>1, <2>1, <2>6 DEF Bounded!vars
  <1>17. CASE claim_read(c) /\ readIdx = idx[c]
    <2>1. /\ pc[c] = "claim_read" /\ l = "wait" /\ readIdx' = real_index(readIdx + 1)
          /\ UNCHANGED <<slot, idx, t, popped>> /\ idx[c] = readIdx /\ writeIdx # readIdx
      BY <1>0, <1>2, <1>3, <1>17 DEF claim_read, Goto, Places, history
    <2>2. /\ Dist(writeIdx)' = Dist(writeIdx) - 1
          /\ \A i \in Slots : i # readIdx => Dist(i)' = Dist(i) - 1
          /\ \A i \in Slots : i = readIdx => Dist(i)' = Size - 1
      <3>1. /\ \A i \in Slots : i # readIdx => Dist(i)' = Dist(i) - 1
            /\ \A i \in Slots : i = readIdx => Dist(i)' = Size - 1
        BY <1>1, <2>1, ReadNext
      <3>2. \A i \in Slots : i = writeIdx => Dist(i)' = Dist(writeIdx) - 1
        BY <2>1, <3>1
      <3>3. \A i : i = writeIdx => Dist(i)' = Dist(writeIdx)'
        BY <1>1
      <3> QED BY <1>0, <3>1, <3>2, <3>3
    <2>3. /\ Dist(writeIdx) \in 1..(Size - 1)
          /\ Pending = [k \in 1..Dist(writeIdx) |-> MessageAt(At(k))]
          /\ Len(Pending) = Dist(writeIdx)
          /\ Pending' = [k \in 1..Dist(writeIdx)' |-> MessageAt(At(k))']
      <3>1. (TypeOK => /\ Pending = [k \in 1..Dist(writeIdx) |-> MessageAt(At(k))]
                       /\ Dist(writeIdx) \in 0..(Size - 1) /\ Size \in Nat
                       /\ Len(Pending) = Dist(writeIdx))'
        BY PendingIs, PTL
      <3>2. Dist(writeIdx) # 0
        BY <1>0, <2>1, DistRange
      <3> QED BY <3>1, <3>2, PendingIs
    <2>4. /\ At(1) = readIdx
          /\ \A k \in 1..(Dist(writeIdx) - 1) : At(k)' = At(k + 1)
      <3>1. /\ At(1) \in Slots /\ Dist(At(1)) = 0 /\ Dist(readIdx) = 0
            /\ readIdx \in Slots
        <4>1. 1 \in 1..Size /\ 1 - 1 = 0
          BY <1>0, <2>3
        <4> QED BY <1>0, <4>1, AtIs, DistRange
      <3>2. At(1) = readIdx
        BY <3>1, DistRange
      <3>3. (TypeOK => \A k \in 1..Size : /\ At(k) \in Slots /\ Dist(At(k)) = k - 1
                                          /\ \A i \in Slots : Dist(i) = k - 1 => i = At(k))'
        BY AtIs, PTL
      <3>4. ASSUME NEW k \in 1..(Dist(writeIdx) - 1) PROVE At(k)' = At(k + 1)
        <4>1. k \in 1..Size /\ k + 1 \in 1..Size /\ (k + 1) - 1 = k /\ k # 0
          BY <1>0, <2>3, <3>4
        <4>2. PICK i \in Slots : i = At(k + 1) /\ Dist(i) = k
          BY <4>1, AtIs
        <4>3. i # readIdx
          BY <3>1, <4>1, <4>2
        <4>4. Dist(i)' = k - 1
          BY <2>2, <4>2, <4>3
        <4> QED BY <3>3, <4>1, <4>2, <4>4
      <3> QED BY <3>2, <3>4
    <2>5. \A i : MessageAt(i)' = MessageAt(i)
      BY <1>8, <2>1
    <2>6. Head(Pending) = MessageAt(readIdx) /\ Pending # <<>>
      BY <2>3, <2>4
    <2>7. Pending' = Tail(Pending)
      <3> DEFINE n == Dist(writeIdx)
      <3>1. n \in Nat /\ n >= 1 /\ Dist(writeIdx)' = n - 1
        BY <2>2, <2>3, <1>0
      <3>2. \A k \in 1..(n - 1) : MessageAt(At(k))' = MessageAt(At(k + 1))
        <4> SUFFICES ASSUME NEW k \in 1..(n - 1)
                     PROVE  MessageAt(At(k))' = MessageAt(At(k + 1))
          OBVIOUS
        <4>1. At(k)' = At(k + 1)
          BY <2>4
        <4> QED BY <2>5, <4>1
      <3> HIDE DEF n
      <3>3. Pending = [k \in 1..n |-> MessageAt(At(k))]
            /\ Pending' = [k \in 1..(n - 1) |-> MessageAt(At(k))'] /\ Len(Pending) = n
        BY <2>3, <3>1 DEF n
      <3>4. Tail(Pending) = [k \in 1..(n - 1) |-> Pending[k + 1]]
        BY <3>1, <3>3
      <3>5. \A k \in 1..(n - 1) : MessageAt(At(k))' = Pending[k + 1]
        BY <3>1, <3>2, <3>3
      <3> QED BY <3>3, <3>4, <3>5
    <2>8. ItemOf(c)' = MessageAt(readIdx) /\ PhaseOf(c) = "asked" /\ PhaseOf(c)' = "done"
      BY <1>3, <2>1, <2>5 DEF ItemOf, PhaseOf
    <2> QED BY <1>1, <1>10, <2>1, <2>6, <2>7, <2>8 DEF Bounded!Get
  <1>18. CASE clear(c)
    <2>1. /\ pc[c] = "clear" /\ l = "idle" /\ slot' = [slot EXCEPT ![idx[c]] = NULL]
          /\ popped' = Append(popped, t[c]) /\ t'[c] = NULL
          /\ UNCHANGED <<readIdx, idx>>
      BY <1>0, <1>2, <1>3, <1>18 DEF clear, Goto
    <2>2. \A i \in Slots : Claimed(i) => MessageAt(i)' = MessageAt(i)
      <3> SUFFICES ASSUME NEW i \in Slots, Claimed(i) PROVE MessageAt(i)' = MessageAt(i)
        OBVIOUS
      <3>1. Dist(idx[c]) = Size - 1
        BY <1>0, <2>1 DEF Places, Reads
      <3>2. i # idx[c]
        BY <1>0, <3>1, PendingIs DEF Claimed
      <3> QED BY <1>0, <1>8, <2>1, <3>2 DEF Slots
    <2>3. Pending' = Pending
      BY <1>1, <2>1, <2>2, PendingSame
    <2>4. ItemOf(c) = t[c] /\ ItemOf(c)' = NULL /\ PhaseOf(c) = "done" /\ PhaseOf(c)' = "idle"
      BY <1>3, <2>1 DEF ItemOf, PhaseOf
    <2> QED BY <1>1, <1>10, <2>1, <2>3, <2>4 DEF Bounded!ReturnPop
  <1> QED
    BY <1>12, <1>13, <1>14, <1>15, <1>16, <1>17, <1>18 DEF pop, claim_read, test_empty

\* The empty ring is the empty queue.
LEMMA InitRefines == Init => Bounded!Init
  <1> SUFFICES ASSUME Init PROVE Bounded!Init
    OBVIOUS
  <1>1. (writeIdx - readIdx) % Size = 0
    BY QueueAssumption DEF Init
  <1>2. Pending = <<>>
    BY <1>1 DEF Pending
  <1>3. \A x \in Threads : PhaseOf(x) = "idle" /\ ItemOf(x) = NULL
    BY DEF Init, PhaseOf, ItemOf
  <1> QED BY <1>2, <1>3 DEF Init, Bounded!Init, Bounded!Threads, Threads

\* Neither does the queue change when no variable does.
LEMMA StutterRefines == UNCHANGED vars => UNCHANGED Bounded!vars
  BY DEF vars, history, Bounded!vars, Pending, PhaseOf, ItemOf, MessageAt

\* With one producer and one consumer, what the threads do to the lock-free ring
\* is what they would do to a bounded queue of Size - 1 places: push puts its
\* message at the end when it claims the slot and is refused only by a full queue,
\* pop takes the first one and returns NULL only from an empty queue
\* (AsyncQueue.h:86-126).  This is the safety part of ImplementsBoundedQueue.
THEOREM QueueRefinesBounded == OneProducer /\ OneConsumer => (Spec => Bounded!Spec)
  <1> SUFFICES ASSUME OneProducer, OneConsumer PROVE Spec => Bounded!Spec
    OBVIOUS
  <1>1. Init => OrderInv /\ Single
    BY OrderInit, SingleInit
  <1>2. OrderInv /\ Single /\ [Next]_vars => OrderInv' /\ Single'
    BY OrderStep, SingleStep
  <1>3. OrderInv /\ Single /\ OrderInv' /\ Single' /\ [Next]_vars => BoundedStep
    <2> SUFFICES ASSUME OrderInv, Single, OrderInv', Single', [Next]_vars
                 PROVE  BoundedStep
      OBVIOUS
    <2>1. TypeOK /\ TypeOK' /\ Inv /\ Holds /\ Places /\ ~lapped'
      BY DEF OrderInv, Inv, Single
    <2>2. ASSUME NEW p \in Producers, call_push(p) \/ push(p) PROVE BoundedStep
      BY <2>1, <2>2, PushRefines
    <2>3. ASSUME NEW c \in Consumers, call_pop(c) \/ pop(c) PROVE BoundedStep
      BY <2>1, <2>3, PopRefines
    <2>4. UNCHANGED vars => BoundedStep
      BY StutterRefines DEF BoundedStep
    <2> QED BY <2>2, <2>3, <2>4 DEF Next
  <1>4. Init => Bounded!Init
    BY InitRefines
  <1> QED BY <1>1, <1>2, <1>3, <1>4, PTL DEF Spec, Bounded!Spec, BoundedStep
=============================================================================
