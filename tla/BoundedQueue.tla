---------------------------- MODULE BoundedQueue ----------------------------
(***************************************************************************)
(* What a caller of LightInk::AsyncQueue may rely on: a first-in first-out *)
(* queue of at most Capacity messages whose push and pop each take effect  *)
(* at one instant between call and return.  A push is refused only when    *)
(* the queue is full, a pop returns nothing only when it is empty.         *)
(***************************************************************************)
EXTENDS Integers, Sequences

CONSTANTS Capacity, Producers, Consumers, Message, NULL

VARIABLES queue,
          phase,     \* idle, asked, or done and about to return
          item,      \* the message a thread pushes or has popped
          accepted,  \* the messages that a push has promised to deliver
          popped     \* the messages that pop has returned, in order

vars == <<queue, phase, item, accepted, popped>>

Threads == Producers \cup Consumers

Phase(x, from, to) == phase[x] = from /\ phase' = [phase EXCEPT ![x] = to]

Init ==
    /\ queue = <<>>
    /\ phase = [x \in Threads |-> "idle"]
    /\ item = [x \in Threads |-> NULL]
    /\ accepted = {}
    /\ popped = <<>>

CallPush(p) ==
    /\ Phase(p, "idle", "asked")
    /\ \E m \in Message : item' = [item EXCEPT ![p] = m]
    /\ UNCHANGED <<queue, accepted, popped>>

Refuse(p) ==
    /\ Phase(p, "asked", "idle")
    /\ Len(queue) = Capacity
    /\ item' = [item EXCEPT ![p] = NULL]
    /\ UNCHANGED <<queue, accepted, popped>>

Put(p) ==
    /\ Phase(p, "asked", "done")
    /\ Len(queue) < Capacity
    /\ queue' = Append(queue, item[p])
    /\ UNCHANGED <<item, accepted, popped>>

ReturnPush(p) ==
    /\ Phase(p, "done", "idle")
    /\ accepted' = accepted \cup {item[p]}
    /\ item' = [item EXCEPT ![p] = NULL]
    /\ UNCHANGED <<queue, popped>>

CallPop(c) ==
    /\ Phase(c, "idle", "asked")
    /\ UNCHANGED <<queue, item, accepted, popped>>

Nothing(c) ==
    /\ Phase(c, "asked", "idle")
    /\ queue = <<>>
    /\ UNCHANGED <<queue, item, accepted, popped>>

Get(c) ==
    /\ Phase(c, "asked", "done")
    /\ queue # <<>>
    /\ item' = [item EXCEPT ![c] = Head(queue)]
    /\ queue' = Tail(queue)
    /\ UNCHANGED <<accepted, popped>>

ReturnPop(c) ==
    /\ Phase(c, "done", "idle")
    /\ popped' = Append(popped, item[c])
    /\ item' = [item EXCEPT ![c] = NULL]
    /\ UNCHANGED <<queue, accepted>>

push(p) == Refuse(p) \/ Put(p) \/ ReturnPush(p)
pop(c) == Nothing(c) \/ Get(c) \/ ReturnPop(c)

Next ==
    \/ \E p \in Producers : CallPush(p) \/ push(p)
    \/ \E c \in Consumers : CallPop(c) \/ pop(c)

Spec == Init /\ [][Next]_vars

Fairness ==
    /\ \A p \in Producers : WF_vars(push(p))
    /\ \A c \in Consumers : WF_vars(CallPop(c) \/ pop(c))

FairSpec == Spec /\ Fairness
=============================================================================
