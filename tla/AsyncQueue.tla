----------------------------- MODULE AsyncQueue -----------------------------
(***************************************************************************)
(* LightInk::AsyncQueue (src/include/Common/AsyncQueue.h), the lock-free   *)
(* ring of pointers between the threads that log and the log thread.       *)
(* Every action is one access to a shared atomic, or what a thread does    *)
(* between two of them.  A message is <<p, k>>, the k-th that producer p   *)
(* pushes, so that no two are equal, as no two allocated AsyncMsg are.     *)
(* The atomics, relaxed in the code, are modelled sequentially consistent: *)
(* no access is reordered.                                                 *)
(***************************************************************************)
EXTENDS Integers, Sequences, Functions

CONSTANTS Size,       \* m_size
          Producers,  \* the threads that call push
          Consumers,  \* the threads that call pop
          MaxPush,    \* bound on the calls of push of each producer
          NULL

Message == Producers \X (1..MaxPush)

ASSUME QueueAssumption ==
    /\ Size \in Nat \ {0}
    /\ MaxPush \in Nat
    /\ Producers \cap Consumers = {}
    /\ NULL \notin Message

VARIABLES slot,      \* m_queue
          readIdx,   \* m_readIdx
          writeIdx,  \* m_writeIdx
          pc,        \* where each thread is in push or pop
          idx,       \* its local writeIdx or readIdx
          t,         \* its local t
          count,     \* how many messages each producer has pushed
          accepted,  \* the messages for which push returned true
          popped,    \* what pop has returned, in order, without the NULLs
          lapped     \* whether a producer has claimed a slot of a full queue

shared == <<slot, readIdx, writeIdx>>
history == <<count, accepted, popped, lapped>>
vars == <<slot, readIdx, writeIdx, pc, idx, t, history>>

Threads == Producers \cup Consumers

\* Fault for TypeOK: the index never comes round.
EndlessIndex(i) == i

real_index(i) == i % Size

Goto(x, l) == pc' = [pc EXCEPT ![x] = l]

-----------------------------------------------------------------------------
Init ==
    /\ slot = [i \in 0..(Size - 1) |-> NULL]
    /\ readIdx = 0 /\ writeIdx = 0
    /\ pc = [x \in Threads |-> "idle"]
    /\ idx = [x \in Threads |-> 0]
    /\ t = [x \in Threads |-> NULL]
    /\ count = [p \in Producers |-> 0]
    /\ accepted = {}
    /\ popped = <<>>
    /\ lapped = FALSE

\* A producer enters push with its next message.
call_push(p) ==
    /\ pc[p] = "idle" /\ count[p] < MaxPush
    /\ count' = [count EXCEPT ![p] = @ + 1]
    /\ t' = [t EXCEPT ![p] = <<p, count[p] + 1>>]
    /\ Goto(p, "push")
    /\ UNCHANGED <<shared, idx, accepted, popped, lapped>>

\* writeIdx = m_writeIdx.load()
load_write(p) ==
    /\ pc[p] = "push"
    /\ idx' = [idx EXCEPT ![p] = writeIdx]
    /\ Goto(p, "test_full")
    /\ UNCHANGED <<shared, t, history>>

\* return false when nextWriteIdx == m_readIdx.load()
test_full(p) ==
    /\ pc[p] = "test_full"
    /\ \/ /\ real_index(idx[p] + 1) = readIdx
          /\ t' = [t EXCEPT ![p] = NULL]
          /\ Goto(p, "idle")
       \/ /\ real_index(idx[p] + 1) # readIdx
          /\ Goto(p, "claim_write")
          /\ UNCHANGED t
    /\ UNCHANGED <<shared, idx, history>>

\* Fault for OrderUnlessLapped: a store where there is a compare_exchange.
StoreWrite(p) ==
    /\ pc[p] = "claim_write"
    /\ writeIdx' = real_index(idx[p] + 1)
    /\ Goto(p, "fill")
    /\ lapped' = (lapped \/ real_index(idx[p] + 1) = readIdx)
    /\ UNCHANGED <<slot, readIdx, idx, t, count, accepted, popped>>

\* m_writeIdx.compare_exchange(writeIdx, nextWriteIdx).  The compare succeeds
\* too when m_writeIdx has come round to the same value since it was loaded,
\* and then nothing says that the queue is still not full.
claim_write(p) ==
    /\ pc[p] = "claim_write"
    /\ \/ /\ writeIdx = idx[p]
          /\ writeIdx' = real_index(idx[p] + 1)
          /\ Goto(p, "fill")
          /\ lapped' = (lapped \/ real_index(idx[p] + 1) = readIdx)
       \/ /\ writeIdx # idx[p]
          /\ Goto(p, "push")
          /\ UNCHANGED <<writeIdx, lapped>>
    /\ UNCHANGED <<slot, readIdx, idx, t, count, accepted, popped>>

\* Fault for Accounted: the slot is overwritten, empty or not.
FillOver(p) ==
    /\ pc[p] = "fill"
    /\ slot' = [slot EXCEPT ![idx[p]] = t[p]]
    /\ accepted' = accepted \cup {t[p]}
    /\ t' = [t EXCEPT ![p] = NULL]
    /\ Goto(p, "idle")
    /\ UNCHANGED <<readIdx, writeIdx, idx, count, popped, lapped>>

\* m_queue[writeIdx].compare_exchange(NULL, t), repeated until it succeeds;
\* return true
fill(p) ==
    /\ pc[p] = "fill"
    /\ slot[idx[p]] = NULL
    /\ slot' = [slot EXCEPT ![idx[p]] = t[p]]
    /\ accepted' = accepted \cup {t[p]}
    /\ t' = [t EXCEPT ![p] = NULL]
    /\ Goto(p, "idle")
    /\ UNCHANGED <<readIdx, writeIdx, idx, count, popped, lapped>>

-----------------------------------------------------------------------------
\* A consumer enters pop.
call_pop(c) ==
    /\ pc[c] = "idle"
    /\ Goto(c, "pop")
    /\ UNCHANGED <<shared, idx, t, history>>

\* readIdx = m_readIdx.load()
load_read(c) ==
    /\ pc[c] = "pop"
    /\ idx' = [idx EXCEPT ![c] = readIdx]
    /\ Goto(c, "test_empty")
    /\ UNCHANGED <<shared, t, history>>

\* Fault for DeliveredUnlessLapped: off by one, the last message stays.
TestLast(c) ==
    /\ pc[c] = "test_empty"
    /\ Goto(c, IF writeIdx \in {idx[c], real_index(idx[c] + 1)}
               THEN "idle" ELSE "claim_read")
    /\ UNCHANGED <<shared, idx, t, history>>

\* return NULL when m_writeIdx.load() == readIdx
test_empty(c) ==
    /\ pc[c] = "test_empty"
    /\ Goto(c, IF writeIdx = idx[c] THEN "idle" ELSE "claim_read")
    /\ UNCHANGED <<shared, idx, t, history>>

\* m_readIdx.compare_exchange(readIdx, nextReadIdx)
claim_read(c) ==
    /\ pc[c] = "claim_read"
    /\ \/ /\ readIdx = idx[c]
          /\ readIdx' = real_index(idx[c] + 1)
          /\ Goto(c, "wait")
       \/ /\ readIdx # idx[c]
          /\ Goto(c, "pop")
          /\ UNCHANGED readIdx
    /\ UNCHANGED <<slot, writeIdx, idx, t, history>>

\* Fault for ImplementsBoundedQueue: pop does not wait for the producer that
\* has claimed the slot.
WaitNot(c) ==
    /\ pc[c] = "wait"
    /\ Goto(c, "load")
    /\ UNCHANGED <<shared, idx, t, history>>

\* while (m_queue[readIdx].load() == NULL)
wait(c) ==
    /\ pc[c] = "wait"
    /\ slot[idx[c]] # NULL
    /\ Goto(c, "load")
    /\ UNCHANGED <<shared, idx, t, history>>

\* t = m_queue[readIdx].load()
load(c) ==
    /\ pc[c] = "load"
    /\ t' = [t EXCEPT ![c] = slot[idx[c]]]
    /\ Goto(c, "clear")
    /\ UNCHANGED <<shared, idx, history>>

\* Fault for AtMostOnce and PushReturnsUnlessLapped: the slot keeps its pointer.
ClearNot(c) ==
    /\ pc[c] = "clear"
    /\ popped' = Append(popped, t[c])
    /\ t' = [t EXCEPT ![c] = NULL]
    /\ Goto(c, "idle")
    /\ UNCHANGED <<shared, idx, count, accepted, lapped>>

\* Fault for PopReturns: the store goes to where m_readIdx points by now.
ClearNext(c) ==
    /\ pc[c] = "clear"
    /\ slot' = [slot EXCEPT ![readIdx] = NULL]
    /\ popped' = Append(popped, t[c])
    /\ t' = [t EXCEPT ![c] = NULL]
    /\ Goto(c, "idle")
    /\ UNCHANGED <<readIdx, writeIdx, idx, count, accepted, lapped>>

\* m_queue[readIdx].store(NULL); return t
clear(c) ==
    /\ pc[c] = "clear"
    /\ slot' = [slot EXCEPT ![idx[c]] = NULL]
    /\ popped' = Append(popped, t[c])
    /\ t' = [t EXCEPT ![c] = NULL]
    /\ Goto(c, "idle")
    /\ UNCHANGED <<readIdx, writeIdx, idx, count, accepted, lapped>>

push(p) == load_write(p) \/ test_full(p) \/ claim_write(p) \/ fill(p)

pop(c) ==
    \/ load_read(c) \/ test_empty(c) \/ claim_read(c)
    \/ wait(c) \/ load(c) \/ clear(c)

Next ==
    \/ \E p \in Producers : call_push(p) \/ push(p)
    \/ \E c \in Consumers : call_pop(c) \/ pop(c)

Spec == Init /\ [][Next]_vars

\* Every thread that is inside push or pop keeps running, and the log thread
\* calls pop again and again (AsyncThread.cpp:39-41).
Fairness ==
    /\ \A p \in Producers : WF_vars(push(p))
    /\ \A c \in Consumers : WF_vars(call_pop(c) \/ pop(c))

FairSpec == Spec /\ Fairness

-----------------------------------------------------------------------------
PushLabel == {"idle", "push", "test_full", "claim_write", "fill"}
PopLabel == {"idle", "pop", "test_empty", "claim_read", "wait", "load", "clear"}

TypeOK ==
    /\ slot \in [0..(Size - 1) -> Message \cup {NULL}]
    /\ readIdx \in 0..(Size - 1) /\ writeIdx \in 0..(Size - 1)
    /\ pc \in [Threads -> PushLabel \cup PopLabel]
    /\ \A p \in Producers : pc[p] \in PushLabel
    /\ \A c \in Consumers : pc[c] \in PopLabel
    /\ idx \in [Threads -> 0..(Size - 1)]
    /\ t \in [Threads -> Message \cup {NULL}]
    /\ count \in [Producers -> 0..MaxPush]
    /\ accepted \subseteq Message
    /\ popped \in Seq(Message)

\* No message comes out of the queue twice: the log thread deletes what it pops
\* (AsyncThread.cpp:62), and a second pop of the same pointer would use and
\* delete it again (AsyncQueue.h:107-126).
AtMostOnce == IsInjective(popped)

\* No message for which push returned true is dropped or overwritten: it is in
\* its slot until it has been popped, also when the indices have lapped
\* (AsyncQueue.h:86-126).
Accounted == accepted \subseteq Range(popped) \cup Range(slot)

\* The messages of one thread come out in the order in which it pushed them,
\* until a stale claim has lapped the reader (AsyncQueue.h:86-126).
OrderUnlessLapped ==
    lapped \/ \A i, j \in 1..Len(popped) :
        i < j /\ popped[i][1] = popped[j][1] => popped[i][2] < popped[j][2]

\* A pop that has claimed a slot returns: the producer that claimed the slot
\* before it fills it in the end, lapped or not (AsyncQueue.h:121).
PopReturns == \A c \in Consumers : pc[c] = "wait" ~> pc[c] = "idle"

\* A push that has claimed a slot returns, because the consumer empties the
\* slot; a lapped queue looks empty, and then it need not (AsyncQueue.h:101).
PushReturnsUnlessLapped ==
    \A p \in Producers : pc[p] = "fill" ~> pc[p] = "idle" \/ lapped

\* What push has accepted is popped as long as the consumer keeps calling, even
\* when nobody pushes any more, unless the queue has lapped and looks empty
\* (AsyncQueue.h:86-126).
DeliveredUnlessLapped ==
    \A m \in Message : m \in accepted ~> m \in Range(popped) \/ lapped

-----------------------------------------------------------------------------
\* The message that slot i holds or that is on its way there.
MessageAt(i) ==
    IF \E p \in Producers : pc[p] = "fill" /\ idx[p] = i
    THEN t[CHOOSE p \in Producers : pc[p] = "fill" /\ idx[p] = i]
    ELSE slot[i]

Pending == [k \in 1..((writeIdx - readIdx) % Size) |->
              MessageAt(real_index(readIdx + k - 1))]

PhaseOf(x) ==
    CASE pc[x] = "idle" -> "idle"
      [] pc[x] \in {"fill", "wait", "load", "clear"} -> "done"
      [] OTHER -> "asked"

ItemOf(x) == IF pc[x] \in {"wait", "load"} THEN MessageAt(idx[x]) ELSE t[x]

\* With one producer and one consumer the lock-free ring implements the bounded
\* queue, its liveness included: push takes effect when it claims its slot, pop
\* when it claims its own, a refusal means full and a NULL means empty
\* (AsyncQueue.h:86-126).
Bounded == INSTANCE BoundedQueue WITH
             Capacity <- Size - 1,
             queue <- Pending,
             phase <- [x \in Threads |-> PhaseOf(x)],
             item <- [x \in Threads |-> ItemOf(x)]
ImplementsBoundedQueue == Bounded!FairSpec
=============================================================================
