--------------------------- MODULE TalkLoop_proofs ---------------------------
(***************************************************************************)
(* For any handles, kinds of links and times: what disconnect was called    *)
(* for goes on to be removed, the tick nodes that are queued are those of   *)
(* the links, and on_tick leaves none of them due.                         *)
(***************************************************************************)
EXTENDS TalkLoop, SequenceTheorems, TLAPS

IsLink(l) == l = [kind |-> l.kind, state |-> l.state, pings |-> l.pings, slow |-> l.slow]

\* A link has its handle until its on_disconnect runs: no other link gets it.
Inv ==
    /\ \A h \in DOMAIN links : IsLink(links[h])
    /\ DOMAIN links \ gone \subseteq open
    /\ \A g, h \in gone : g = h

LEMMA InvInit == Init => Inv
  BY DEF Init, Inv

\* What DisconnectKept says of a step.
Kept ==
    \A h \in DOMAIN links \ gone :
       links[h].state = "Disconnecting" =>
          \/ h \in DOMAIN links' /\ links'[h].state \in {"Disconnecting", "Disconnected"}
          \/ Overtaken(h)

\* add_link overwrites at most the entry of the link that goes.
LEMMA AddStep ==
    ASSUME Inv, NEW h, NEW kind, NEW state, NEW w, NEW wires,
           IsFree(h), add_link(h, kind, state, w, wires), UNCHANGED gone
    PROVE  Inv' /\ Kept
  <1>1. /\ h \notin open /\ open' = open \cup {h}
        /\ links' = Put(links, h, [kind |-> kind, state |-> state, pings |-> 0, slow |-> FALSE])
    BY DEF IsFree, add_link
  <1>2. /\ DOMAIN links' = DOMAIN links \cup {h}
        /\ IsLink(links'[h])
        /\ \A x \in DOMAIN links : x # h => links'[x] = links[x]
    BY <1>1 DEF Put, IsLink
  <1> QED BY <1>1, <1>2 DEF Inv, Kept

\* One link changes, and not from Disconnecting to another state but Disconnected.
LEMMA ChangeStep ==
    ASSUME Inv, NEW h, NEW l, IsLink(links[h]) => IsLink(l),
           links' = [links EXCEPT ![h] = l],
           links[h].state = "Disconnecting" =>
              l.state \in {"Disconnecting", "Disconnected"} \/ Overtaken(h),
           DOMAIN links \ gone' \subseteq open', \A g, x \in gone' : g = x
    PROVE  Inv' /\ Kept
  <1>1. /\ DOMAIN links' = DOMAIN links
        /\ h \in DOMAIN links => links'[h] = l
        /\ \A x \in DOMAIN links : x # h => links'[x] = links[x]
    OBVIOUS
  <1> QED BY <1>1 DEF Inv, Kept

LEMMA SameStep ==
    ASSUME Inv, UNCHANGED <<links, gone>>, open \subseteq open'
    PROVE  Inv' /\ Kept
  BY DEF Inv, Kept

LEMMA ProgramSteps == ASSUME Inv, program PROVE Inv' /\ Kept
  <1>1. ASSUME NEW h \in Handles, disconnect(h) PROVE Inv' /\ Kept
    <2> DEFINE l == [links[h] EXCEPT !.state = "Disconnecting"]
    <2>1. IsLink(links[h]) => IsLink(l) /\ l.state = "Disconnecting"
      BY DEF IsLink
    <2>2. h \in DOMAIN links /\ links' = [links EXCEPT ![h] = l] /\ UNCHANGED <<open, gone>>
      BY <1>1 DEF disconnect
    <2>3. IsLink(links[h])
      BY <2>2 DEF Inv
    <2> HIDE DEF l
    <2> QED BY <2>1, <2>2, <2>3, ChangeStep DEF Inv
  <1>2. ASSUME NEW h \in Handles, write_data(h) PROVE Inv' /\ Kept
    <2> DEFINE l == [links[h] EXCEPT !.pings = 0]
    <2>1. IsLink(links[h]) => IsLink(l) /\ l.state = links[h].state
      BY DEF IsLink
    <2>2. h \in DOMAIN links /\ links' = [links EXCEPT ![h] = l] /\ UNCHANGED <<open, gone>>
      BY <1>2 DEF write_data
    <2>3. IsLink(links[h])
      BY <2>2 DEF Inv
    <2> HIDE DEF l
    <2> QED BY <2>1, <2>2, <2>3, ChangeStep DEF Inv
  <1>3. ASSUME NEW h \in Handles, NEW k \in Kinds, add_listen(h, k) PROVE Inv' /\ Kept
    BY <1>3, AddStep DEF add_listen
  <1>4. ASSUME NEW h \in Handles, NEW k \in Kinds, add_connect(h, k) PROVE Inv' /\ Kept
    BY <1>4, AddStep DEF add_connect
  <1>5. ASSUME NEW h \in Handles, NEW k \in Kinds, connect_fails(h, k) PROVE Inv' /\ Kept
    BY <1>5, SameStep DEF connect_fails
  <1>6. ASSUME release PROVE Inv' /\ Kept
    BY <1>6, SameStep DEF release
  <1> QED BY <1>1, <1>2, <1>3, <1>4, <1>5, <1>6 DEF program

LEMMA TickSteps == ASSUME Inv, on_tick PROVE Inv' /\ Kept
  <1>1. ASSUME ping_tick PROVE Inv' /\ Kept
    <2> DEFINE h == pingQ[1].h
               l == IF links[h].state = "Connected" THEN on_ping_tick(links[h])
                    ELSE [links[h] EXCEPT !.slow = TRUE]
    <2>1. IsLink(links[h]) => IsLink(l)
      BY DEF IsLink, on_ping_tick
    <2>2. IsLink(links[h]) /\ links[h].state = "Disconnecting" => l.state = "Disconnecting"
      BY DEF IsLink
    <2>3. links' = [links EXCEPT ![h] = l] /\ UNCHANGED <<open, gone>>
      BY <1>1 DEF ping_tick
    <2> HIDE DEF l, h
    <2>4. CASE h \in DOMAIN links
      BY <2>1, <2>2, <2>3, <2>4, ChangeStep DEF Inv
    <2>5. CASE h \notin DOMAIN links
      BY <2>3, <2>5 DEF Inv, Kept
    <2> QED BY <2>4, <2>5
  <1>2. ASSUME kcp_tick PROVE Inv' /\ Kept
    <2> DEFINE h == kcpQ[1].h  l == [links[h] EXCEPT !.pings = 0]
    <2>1. IsLink(links[h]) => IsLink(l)
      BY DEF IsLink
    <2>2. UNCHANGED links \/ (links[h].state = "Connected" /\ links' = [links EXCEPT ![h] = l])
      BY <1>2 DEF kcp_tick
    <2>3. UNCHANGED <<open, gone>>
      BY <1>2 DEF kcp_tick
    <2> HIDE DEF l, h
    <2> QED BY <2>1, <2>2, <2>3, ChangeStep, SameStep DEF Inv
  <1>3. ASSUME tick_deleted \/ pings_done PROVE Inv' /\ Kept
    BY <1>3, SameStep DEF tick_deleted, pings_done
  <1> QED BY <1>1, <1>2, <1>3 DEF on_tick

LEMMA EventSteps == ASSUME Inv, on_event PROVE Inv' /\ Kept
  <1>1. ASSUME NEW h \in Handles, NEW new \in Handles, accept(h, new) PROVE Inv' /\ Kept
    <2>1. /\ IsFree(new) /\ UNCHANGED gone
          /\ \E w \in {"quiet", "data"} :
                add_link(new, links[h].kind, "Connected", "quiet", [wire EXCEPT ![h] = w])
      BY <1>1 DEF accept
    <2> QED BY <2>1, AddStep
  <1>2. ASSUME NEW h \in Handles, accept_fails(h) PROVE Inv' /\ Kept
    BY <1>2, SameStep DEF accept_fails
  <1>3. ASSUME NEW h \in Handles, connect(h) PROVE Inv' /\ Kept
    <2> DEFINE l == [links[h] EXCEPT !.state = "Connected"]
    <2>1. IsLink(links[h]) => IsLink(l)
      BY DEF IsLink
    <2>2. /\ links' = [links EXCEPT ![h] = l] /\ Overtaken(h)
          /\ UNCHANGED <<open, gone>>
      BY <1>3 DEF connect, IsNext, Overtaken
    <2> HIDE DEF l
    <2> QED BY <2>1, <2>2, ChangeStep DEF Inv
  <1>4. ASSUME NEW h \in Handles, read_data(h) PROVE Inv' /\ Kept
    <2>1. links' = [links EXCEPT ![h] = Read(h)] /\ UNCHANGED <<open, gone>>
      BY <1>4 DEF read_data
    <2>2. IsLink(links[h]) =>
             /\ IsLink(Read(h))
             /\ links[h].state = "Disconnecting" => Read(h).state = "Disconnecting"
      BY DEF IsLink, Read
    <2>3. CASE h \in DOMAIN links
      BY <2>1, <2>2, <2>3, ChangeStep DEF Inv
    <2>4. CASE h \notin DOMAIN links
      BY <2>1, <2>4 DEF Inv, Kept
    <2> QED BY <2>3, <2>4
  <1>5. ASSUME NEW h \in Handles, remove_link(h) PROVE Inv' /\ Kept
    <2> DEFINE l == [links[h] EXCEPT !.state = "Disconnected"]
    <2>1. IsLink(links[h]) => IsLink(l) /\ l.state = "Disconnected"
      BY DEF IsLink
    <2>2. /\ links' = [links EXCEPT ![h] = l]
          /\ gone = {} /\ gone' = {h} /\ open \ {h} \subseteq open'
      BY <1>5 DEF remove_link
    <2> HIDE DEF l
    <2>3. CASE h \in DOMAIN links
      BY <2>1, <2>2, <2>3, ChangeStep DEF Inv
    <2>4. CASE h \notin DOMAIN links
      BY <2>2, <2>4 DEF Inv, Kept
    <2> QED BY <2>3, <2>4
  <1>6. ASSUME NEW h \in Handles, removed(h) PROVE Inv' /\ Kept
    <2>1. /\ h \in gone /\ gone' = {} /\ UNCHANGED open
          /\ links' = [x \in DOMAIN links \ {h} |-> links[x]]
      BY <1>6 DEF removed, Drop
    <2>2. gone = {h}
      BY <2>1 DEF Inv
    <2>3. \A x \in DOMAIN links : x # h => links'[x] = links[x]
      BY <2>1
    <2>4. DOMAIN links' = DOMAIN links \ {h}
      BY <2>1
    <2> QED BY <2>1, <2>2, <2>3, <2>4 DEF Inv, Kept
  <1> QED BY <1>1, <1>2, <1>3, <1>4, <1>5, <1>6 DEF on_event

LEMMA StepInv == Inv /\ [Next]_vars => Inv' /\ (Kept \/ UNCHANGED links)
  <1> SUFFICES ASSUME Inv, [Next]_vars PROVE Inv' /\ (Kept \/ UNCHANGED links)
    OBVIOUS
  <1>1. ASSUME update \/ flags \/ no_links \/ select \/ evented \/ released \/ pass
                      \/ \E h \in Handles : peer(h)
        PROVE  Inv' /\ Kept
    <2>1. UNCHANGED <<links, open, gone>>
      BY <1>1 DEF update, flags, no_links, select, evented, released, pass, peer
    <2> QED BY <2>1, SameStep
  <1>2. CASE UNCHANGED vars
    BY <1>2 DEF vars, Inv
  <1> QED BY <1>1, <1>2, ProgramSteps, TickSteps, EventSteps DEF Next, loop

\* For any handles, kinds of links and times, nothing that happens to a link after
\* disconnect was called for it takes that back until it is removed, but the
\* connect event that overtakes the call (TalkLoop.cpp:207).
THEOREM LoopDisconnectKept == Spec => DisconnectKept
  <1>1. Inv /\ [Next]_vars =>
           [\A h \in DOMAIN links \ gone :
               links[h].state = "Disconnecting" =>
                  \/ h \in DOMAIN links' /\ links'[h].state \in {"Disconnecting", "Disconnected"}
                  \/ Overtaken(h)]_links
    BY StepInv DEF Kept
  <1>2. Inv /\ [Next]_vars => Inv'
    BY StepInv
  <1> QED BY <1>1, <1>2, InvInit, PTL DEF Spec, DisconnectKept

-----------------------------------------------------------------------------
\* The queues of tick nodes, whatever order their nodes are in.  Nodes are put at
\* the end with a time that may be slack less than that of a node before them.
TickNode == [h : Handles, due : Int, old : BOOLEAN]

\* The handles that have a node of their own in the queue.
Owners(q) == {q[i].h : i \in {j \in 1..Len(q) : ~q[j].old}}

InOrder(q, slack) == \A i, j \in 1..Len(q) : i < j => q[i].due <= q[j].due + slack
Within(q, low, high) == \A i \in 1..Len(q) : low <= q[i].due /\ q[i].due <= high
Single(q) == \A i, j \in 1..Len(q) : i # j /\ q[i].h = q[j].h => q[i].old \/ q[j].old
Above(q, low) == \A i \in 1..Len(q) : q[i].due > low

Queue(q, first, slack) ==
    /\ q \in Seq(TickNode)
    /\ Within(q, -(MaxLate + slack), first) /\ InOrder(q, slack) /\ Single(q)

LEMMA Typed ==
    ASSUME NEW q \in Seq(TickNode)
    PROVE  /\ Len(q) \in Nat /\ DOMAIN q = 1..Len(q)
           /\ \A i \in 1..Len(q) : /\ q[i] \in TickNode /\ q[i].h \in Handles
                                   /\ q[i].due \in Int /\ q[i].old \in BOOLEAN
  <1>1. Len(q) \in Nat /\ DOMAIN q = 1..Len(q) /\ \A i \in 1..Len(q) : q[i] \in TickNode
    OBVIOUS
  <1> QED BY <1>1 DEF TickNode

LEMMA IsOwner ==
    ASSUME NEW q, NEW x
    PROVE  x \in Owners(q) <=> \E i \in 1..Len(q) : q[i].h = x /\ ~q[i].old
  BY DEF Owners

LEMMA HoldsOwners == ASSUME NEW q \in Seq(TickNode), NEW h PROVE Holds(q, h) <=> h \in Owners(q)
  <1>1. DOMAIN q = 1..Len(q)
    OBVIOUS
  <1> QED BY <1>1 DEF Holds, Owners

LEMMA NodeType == ASSUME NEW h \in Handles, NEW due \in Int PROVE Node(h, due) \in TickNode
  BY DEF Node, TickNode

LEMMA Orphaned ==
    ASSUME NEW q, NEW first \in Int, NEW slack \in Nat, Queue(q, first, slack), NEW h \in Handles
    PROVE  LET o == Orphan(q, h) IN
           /\ o \in Seq(TickNode) /\ Len(o) = Len(q)
           /\ \A i \in 1..Len(q) : /\ o[i].due = q[i].due /\ o[i].h = q[i].h
                                   /\ o[i].old <=> q[i].old \/ q[i].h = h
  <1>1. q \in Seq(TickNode) /\ DOMAIN q = 1..Len(q) /\ Len(q) \in Nat
    BY DEF Queue
  <1>2. \A i \in 1..Len(q) : q[i] \in TickNode
    BY <1>1
  <1>3. ASSUME NEW i \in 1..Len(q)
        PROVE  LET e == [q[i] EXCEPT !.old = @ \/ q[i].h = h] IN
               /\ e \in TickNode /\ e.due = q[i].due /\ e.h = q[i].h
               /\ e.old <=> q[i].old \/ q[i].h = h
    <2>1. PICK a \in Handles, d \in Int, b \in BOOLEAN : q[i] = [h |-> a, due |-> d, old |-> b]
      BY <1>2 DEF TickNode
    <2>2. (b \/ a = h) \in BOOLEAN
      OBVIOUS
    <2>3. PICK c \in BOOLEAN : c = (b \/ a = h)
      BY <2>2
    <2>4. [q[i] EXCEPT !.old = @ \/ q[i].h = h] = [h |-> a, due |-> d, old |-> c]
      BY <2>1, <2>3
    <2>5. [h |-> a, due |-> d, old |-> c] \in TickNode
      BY DEF TickNode
    <2> QED BY <2>1, <2>3, <2>4, <2>5
  <1>4. Orphan(q, h) = [i \in 1..Len(q) |-> [q[i] EXCEPT !.old = @ \/ q[i].h = h]]
    BY <1>1 DEF Orphan
  <1> DEFINE f == [i \in 1..Len(q) |-> [q[i] EXCEPT !.old = @ \/ q[i].h = h]]
  <1>5. f \in Seq(TickNode) /\ Len(f) = Len(q)
    BY <1>1, <1>3, IsASeq
  <1>6. \A i \in 1..Len(q) : f[i] = [q[i] EXCEPT !.old = @ \/ q[i].h = h]
    OBVIOUS
  <1> HIDE DEF f
  <1> QED BY <1>3, <1>4, <1>5, <1>6 DEF f

\* A queue with another node at its end.
LEMMA AppendedNode ==
    ASSUME NEW q \in Seq(TickNode), NEW n \in TickNode
    PROVE  /\ Append(q, n) \in Seq(TickNode) /\ Len(Append(q, n)) = Len(q) + 1 /\ Len(q) \in Nat
           /\ Append(q, n)[Len(q) + 1] = n
           /\ \A i \in 1..Len(q) : Append(q, n)[i] = q[i]
  OBVIOUS

\* A link without such a tick is added: what its handle's last link has left is
\* orphaned.
LEMMA AddedNone ==
    ASSUME NEW q, NEW first \in Nat, NEW slack \in Nat, Queue(q, first, slack), NEW h \in Handles,
           NEW n, n = Orphan(q, h) \o << >>
    PROVE  /\ Queue(n, first, slack) /\ Owners(n) = Owners(q) \ {h}
           /\ \A low \in Int : low < first /\ Above(q, low) => Above(n, low)
  <1> DEFINE o == Orphan(q, h)
  <1>1. /\ o \in Seq(TickNode) /\ Len(o) = Len(q) /\ Len(q) \in Nat
        /\ \A i \in 1..Len(q) : /\ o[i].due = q[i].due /\ o[i].h = q[i].h
                                /\ o[i].old <=> q[i].old \/ q[i].h = h
        /\ \A i \in 1..Len(q) : q[i].due \in Int
    <2>1. q \in Seq(TickNode)
      BY DEF Queue
    <2>2. /\ o \in Seq(TickNode) /\ Len(o) = Len(q)
          /\ \A i \in 1..Len(q) : /\ o[i].due = q[i].due /\ o[i].h = q[i].h
                                  /\ o[i].old <=> q[i].old \/ q[i].h = h
      BY Orphaned
    <2> HIDE DEF o
    <2> QED BY <2>1, <2>2, Typed
  <1> HIDE DEF o
  <1>2. Queue(o, first, slack) /\ \A low \in Int : Above(q, low) => Above(o, low)
    <2>1. Within(o, -(MaxLate + slack), first) /\ \A low \in Int : Above(q, low) => Above(o, low)
      BY <1>1 DEF Queue, Within, Above
    <2>2. InOrder(o, slack)
      BY <1>1 DEF Queue, InOrder
    <2>3. Single(o)
      BY <1>1 DEF Queue, Single
    <2> QED BY <1>1, <2>1, <2>2, <2>3 DEF Queue
  <1>3. Owners(o) = Owners(q) \ {h}
    BY <1>1 DEF Owners
  <1>4. n = o
    BY <1>1, ConcatEmptySeq DEF o
  <1> QED BY <1>2, <1>3, <1>4

\* One with such a tick: it gets a node of its own.
WithOwn(q, h, first) == Orphan(q, h) \o <<Node(h, first)>>

LEMMA AddedOwn ==
    ASSUME NEW q, NEW first \in Nat, NEW slack \in Nat, Queue(q, first, slack), NEW h \in Handles
    PROVE  /\ Queue(WithOwn(q, h, first), first, slack)
           /\ Owners(WithOwn(q, h, first)) = Owners(q) \cup {h}
           /\ \A low \in Int : low < first /\ Above(q, low) => Above(WithOwn(q, h, first), low)
  <1> DEFINE o == Orphan(q, h)
  <1>0. MaxLate \in Nat
    BY LoopAssumption
  <1>1. /\ o \in Seq(TickNode) /\ Len(o) = Len(q) /\ Len(q) \in Nat
        /\ \A i \in 1..Len(q) : /\ o[i].due = q[i].due /\ o[i].h = q[i].h
                                /\ o[i].old <=> q[i].old \/ q[i].h = h
        /\ \A i \in 1..Len(q) : q[i].due \in Int
    <2>1. q \in Seq(TickNode)
      BY DEF Queue
    <2>2. /\ o \in Seq(TickNode) /\ Len(o) = Len(q)
          /\ \A i \in 1..Len(q) : /\ o[i].due = q[i].due /\ o[i].h = q[i].h
                                  /\ o[i].old <=> q[i].old \/ q[i].h = h
      BY Orphaned
    <2> HIDE DEF o
    <2> QED BY <2>1, <2>2, Typed
  <1> HIDE DEF o
  <1>2. Queue(o, first, slack) /\ \A low \in Int : Above(q, low) => Above(o, low)
    <2>1. Within(o, -(MaxLate + slack), first) /\ \A low \in Int : Above(q, low) => Above(o, low)
      BY <1>1 DEF Queue, Within, Above
    <2>2. InOrder(o, slack)
      BY <1>1 DEF Queue, InOrder
    <2>3. Single(o)
      BY <1>1 DEF Queue, Single
    <2> QED BY <1>1, <2>1, <2>2, <2>3 DEF Queue
  <1>3. Owners(o) = Owners(q) \ {h}
    BY <1>1 DEF Owners
  <1> DEFINE e == Node(h, first)  n == WithOwn(q, h, first)
  <1>4. e \in TickNode /\ e.due = first /\ e.h = h /\ e.old = FALSE
    BY NodeType DEF Node
  <1>5. n = Append(o, e)
    BY <1>1, <1>4 DEF o, WithOwn
  <1> HIDE DEF e, n
  <1>6. /\ n \in Seq(TickNode) /\ Len(n) = Len(o) + 1 /\ n[Len(o) + 1] = e
        /\ \A i \in 1..Len(o) : n[i] = o[i]
        /\ \A i \in 1..Len(n) : i \in 1..Len(o) \/ i = Len(o) + 1
    BY <1>1, <1>4, <1>5, AppendedNode
  <1>7. \A i \in 1..Len(o) : /\ o[i].due \in Int /\ o[i].due <= first
                             /\ -(MaxLate + slack) <= o[i].due
    BY <1>1, <1>2 DEF Queue, Within
  <1>8. Within(n, -(MaxLate + slack), first)
    BY <1>0, <1>4, <1>6, <1>7 DEF Within
  <1>9. InOrder(n, slack)
    <2> SUFFICES ASSUME NEW i \in 1..Len(n), NEW j \in 1..Len(n), i < j
                 PROVE  n[i].due <= n[j].due + slack
      BY DEF InOrder
    <2>1. CASE j \in 1..Len(o)
      <3>0. i \in 1..Len(o)
        BY <1>1, <1>6, <2>1
      <3>1. n[i] = o[i] /\ n[j] = o[j]
        BY <1>6, <2>1, <3>0
      <3>2. o[i].due <= o[j].due + slack
        BY <1>2, <2>1, <3>0 DEF Queue, InOrder
      <3> QED BY <3>1, <3>2
    <2>2. CASE j = Len(o) + 1
      <3>1. i \in 1..Len(o)
        BY <1>1, <1>6, <2>2
      <3>2. n[i] = o[i] /\ n[j].due = first
        BY <1>4, <1>6, <2>2, <3>1
      <3>3. o[i].due \in Int /\ o[i].due <= first
        BY <1>7, <3>1
      <3> QED BY <3>2, <3>3
    <2> QED BY <1>6, <2>1, <2>2
  <1>10. \A i \in 1..Len(o) : o[i].h = h => o[i].old
    BY <1>1
  <1>11. \A i, j \in 1..Len(o) : i # j /\ o[i].h = o[j].h => o[i].old \/ o[j].old
    BY <1>2 DEF Queue, Single
  <1>12. Single(n)
    <2> SUFFICES ASSUME NEW i \in 1..Len(n), NEW j \in 1..Len(n), i # j, n[i].h = n[j].h
                 PROVE  n[i].old \/ n[j].old
      BY DEF Single
    <2>1. CASE i \in 1..Len(o) /\ j \in 1..Len(o)
      BY <1>6, <1>11, <2>1
    <2>2. CASE i \in 1..Len(o) /\ j = Len(o) + 1
      BY <1>4, <1>6, <1>10, <2>2
    <2>3. CASE i = Len(o) + 1 /\ j \in 1..Len(o)
      BY <1>4, <1>6, <1>10, <2>3
    <2> QED BY <1>6, <2>1, <2>2, <2>3
  <1>13. Owners(n) = Owners(o) \cup {h}
    <2>1. Len(o) + 1 \in 1..Len(n) /\ \A i \in 1..Len(o) : i \in 1..Len(n)
      BY <1>1, <1>6
    <2>2. h \in Owners(n)
      <3>1. n[Len(o) + 1].h = h /\ ~n[Len(o) + 1].old
        BY <1>4, <1>6
      <3> QED BY <2>1, <3>1, IsOwner
    <2>3. ASSUME NEW x \in Owners(o) PROVE x \in Owners(n)
      <3>1. PICK i \in 1..Len(o) : o[i].h = x /\ ~o[i].old
        BY IsOwner
      <3> QED BY <1>6, <2>1, <3>1, IsOwner
    <2>4. ASSUME NEW x \in Owners(n) PROVE x \in Owners(o) \cup {h}
      <3>1. PICK i \in 1..Len(n) : n[i].h = x /\ ~n[i].old
        BY IsOwner
      <3>2. CASE i \in 1..Len(o)
        BY <1>6, <3>1, <3>2, IsOwner
      <3>3. CASE i = Len(o) + 1
        BY <1>4, <1>6, <3>1, <3>3
      <3> QED BY <1>6, <3>2, <3>3
    <2> QED BY <2>2, <2>3, <2>4
  <1>14. \A low \in Int : low < first /\ Above(o, low) => Above(n, low)
    BY <1>1, <1>4, <1>6 DEF Above
  <1> QED BY <1>2, <1>3, <1>6, <1>8, <1>9, <1>12, <1>13, <1>14 DEF Queue, n

\* The first node leaves the queue.
LEMMA Popped ==
    ASSUME NEW q, NEW first \in Nat, NEW slack \in Nat, Queue(q, first, slack), q # << >>,
           NEW t, t = Tail(q)
    PROVE  /\ Queue(t, first, slack) /\ q[1] \in TickNode /\ q[1].h \in Handles
           /\ Owners(q) \ {q[1].h} \subseteq Owners(t) /\ Owners(t) \subseteq Owners(q)
           /\ ~q[1].old => Owners(t) = Owners(q) \ {q[1].h}
           /\ \A i \in 1..Len(t) : ~q[1].old /\ t[i].h = q[1].h => t[i].old
  <1>1. /\ q \in Seq(TickNode) /\ Len(q) \in Nat /\ Len(q) > 0 /\ 1 \in 1..Len(q)
        /\ t \in Seq(TickNode) /\ Len(t) = Len(q) - 1
        /\ \A i \in 1..Len(t) : t[i] = q[i + 1] /\ i + 1 \in 1..Len(q)
        /\ \A i \in 1..Len(q) : i = 1 \/ (i - 1 \in 1..Len(t) /\ q[i] = t[i - 1])
    BY DEF Queue
  <1>2. q[1] \in TickNode
    BY <1>1
  <1>3. Within(t, -(MaxLate + slack), first)
    BY <1>1 DEF Queue, Within
  <1>4. InOrder(t, slack)
    <2> SUFFICES ASSUME NEW i \in 1..Len(t), NEW j \in 1..Len(t), i < j
                 PROVE  t[i].due <= t[j].due + slack
      BY DEF InOrder
    <2>1. /\ i + 1 \in 1..Len(q) /\ j + 1 \in 1..Len(q) /\ i + 1 < j + 1
          /\ t[i] = q[i + 1] /\ t[j] = q[j + 1]
      BY <1>1
    <2> QED BY <2>1 DEF Queue, InOrder
  <1>5. Single(t) /\ \A i \in 1..Len(t) : ~q[1].old /\ t[i].h = q[1].h => t[i].old
    BY <1>1 DEF Queue, Single
  <1>6. Owners(q) \ {q[1].h} \subseteq Owners(t) /\ Owners(t) \subseteq Owners(q)
    <2>1. ASSUME NEW x \in Owners(t) PROVE x \in Owners(q)
      <3>1. PICK i \in 1..Len(t) : t[i].h = x /\ ~t[i].old
        BY IsOwner
      <3>2. i + 1 \in 1..Len(q) /\ q[i + 1].h = x /\ ~q[i + 1].old
        BY <1>1, <3>1
      <3> QED BY <3>2, IsOwner
    <2>2. ASSUME NEW x \in Owners(q), x # q[1].h PROVE x \in Owners(t)
      <3>1. PICK i \in 1..Len(q) : q[i].h = x /\ ~q[i].old
        BY IsOwner
      <3>2. i - 1 \in 1..Len(t) /\ t[i - 1].h = x /\ ~t[i - 1].old
        BY <1>1, <2>2, <3>1
      <3> QED BY <3>2, IsOwner
    <2> QED BY <2>1, <2>2
  <1>7. ~q[1].old => q[1].h \notin Owners(t)
    BY <1>5 DEF Owners
  <1> QED BY <1>1, <1>2, <1>3, <1>4, <1>5, <1>6, <1>7 DEF Queue, TickNode

\* The first node goes behind the others.
LEMMA Requeued ==
    ASSUME NEW q, NEW first \in Nat, NEW slack \in Nat, Queue(q, first, slack), q # << >>,
           ~q[1].old, NEW due \in Nat, due <= first, first <= due + slack,
           NEW n, n = Requeue(q, due)
    PROVE  Queue(n, first, slack) /\ Owners(n) = Owners(q)
  <1> DEFINE t == Tail(q)  h == q[1].h  e == Node(h, due)
  <1>0. MaxLate \in Nat
    BY LoopAssumption
  <1>1. /\ Queue(t, first, slack) /\ Owners(t) = Owners(q) \ {h} /\ h \in Handles
        /\ \A i \in 1..Len(t) : t[i].h = h => t[i].old
    BY Popped
  <1>2. h \in Owners(q)
    BY DEF Owners, Queue
  <1>3. e \in TickNode /\ e.due = due /\ e.h = h /\ e.old = FALSE
    BY <1>1, NodeType DEF Node
  <1>4. n = Append(t, e)
    BY DEF Requeue
  <1>5. t \in Seq(TickNode) /\ \A i \in 1..Len(t) : t[i].due \in Int /\ t[i].due <= first
    <2>1. t \in Seq(TickNode)
      BY <1>1 DEF Queue
    <2> QED BY <1>1, <2>1, Typed DEF Queue, Within
  <1> HIDE DEF e, h, t
  <1>6. /\ n \in Seq(TickNode) /\ Len(n) = Len(t) + 1 /\ Len(t) \in Nat /\ n[Len(t) + 1] = e
        /\ \A i \in 1..Len(t) : n[i] = t[i]
        /\ \A i \in 1..Len(n) : i \in 1..Len(t) \/ i = Len(t) + 1
    BY <1>3, <1>4, <1>5, AppendedNode
  <1>7. Within(n, -(MaxLate + slack), first)
    <2>1. \A i \in 1..Len(t) : -(MaxLate + slack) <= t[i].due /\ t[i].due <= first
      BY <1>1 DEF Queue, Within
    <2>2. -(MaxLate + slack) <= e.due /\ e.due <= first
      BY <1>0, <1>3
    <2> SUFFICES ASSUME NEW i \in 1..Len(n)
                 PROVE  -(MaxLate + slack) <= n[i].due /\ n[i].due <= first
      BY DEF Within
    <2> QED BY <1>6, <2>1, <2>2
  <1>8. InOrder(n, slack)
    <2> SUFFICES ASSUME NEW i \in 1..Len(n), NEW j \in 1..Len(n), i < j
                 PROVE  n[i].due <= n[j].due + slack
      BY DEF InOrder
    <2>1. CASE j \in 1..Len(t)
      <3>1. i \in 1..Len(t)
        BY <1>6, <2>1
      <3> QED BY <1>1, <1>6, <2>1, <3>1 DEF Queue, InOrder
    <2>2. CASE j = Len(t) + 1
      <3>1. i \in 1..Len(t)
        BY <1>6, <2>2
      <3> QED BY <1>3, <1>5, <1>6, <2>2, <3>1
    <2> QED BY <1>6, <2>1, <2>2
  <1>9. Single(n)
    <2> SUFFICES ASSUME NEW i \in 1..Len(n), NEW j \in 1..Len(n), i # j, n[i].h = n[j].h
                 PROVE  n[i].old \/ n[j].old
      BY DEF Single
    <2>1. \A x, y \in 1..Len(t) : x # y /\ t[x].h = t[y].h => t[x].old \/ t[y].old
      BY <1>1 DEF Queue, Single
    <2>2. CASE i \in 1..Len(t) /\ j \in 1..Len(t)
      BY <1>6, <2>1, <2>2
    <2>3. CASE i \in 1..Len(t) /\ j = Len(t) + 1
      BY <1>1, <1>3, <1>6, <2>3
    <2>4. CASE i = Len(t) + 1 /\ j \in 1..Len(t)
      BY <1>1, <1>3, <1>6, <2>4
    <2> QED BY <1>6, <2>2, <2>3, <2>4
  <1>10. Owners(n) = Owners(t) \cup {h}
    BY <1>3, <1>6 DEF Owners
  <1> QED BY <1>1, <1>2, <1>6, <1>7, <1>8, <1>9, <1>10 DEF Queue

\* Time goes by, but not before the first node was late too long.
LEMMA Aged ==
    ASSUME NEW q, NEW first \in Nat, NEW slack \in Nat, Queue(q, first, slack),
           q # << >> => q[1].due > -MaxLate, NEW n, n = Later(q)
    PROVE  Queue(n, first, slack) /\ Owners(n) = Owners(q)
  <1>0. MaxLate \in Nat
    BY LoopAssumption
  <1>1. q \in Seq(TickNode) /\ DOMAIN q = 1..Len(q) /\ Len(q) \in Nat
    BY DEF Queue
  <1>2. \A i \in 1..Len(q) : q[i] \in TickNode
    BY <1>1
  <1>3. ASSUME NEW i \in 1..Len(q)
        PROVE  LET e == [q[i] EXCEPT !.due = @ - 1] IN
               e \in TickNode /\ e.due = q[i].due - 1 /\ e.h = q[i].h /\ e.old = q[i].old
    <2>1. PICK a \in Handles, d \in Int, b \in BOOLEAN : q[i] = [h |-> a, due |-> d, old |-> b]
      BY <1>2 DEF TickNode
    <2> QED BY <2>1 DEF TickNode
  <1> DEFINE f == [i \in 1..Len(q) |-> [q[i] EXCEPT !.due = @ - 1]]
  <1>4. n = f
    BY <1>1 DEF Later
  <1>5. f \in Seq(TickNode) /\ Len(f) = Len(q)
    BY <1>1, <1>3, IsASeq
  <1>6. \A i \in 1..Len(q) : f[i] = [q[i] EXCEPT !.due = @ - 1]
    OBVIOUS
  <1> HIDE DEF f
  <1>7. /\ n \in Seq(TickNode) /\ Len(n) = Len(q)
        /\ \A i \in 1..Len(q) : n[i].due = q[i].due - 1 /\ n[i].h = q[i].h /\ n[i].old = q[i].old
    BY <1>3, <1>4, <1>5, <1>6
  <1>8. \A i \in 1..Len(q) : q[i].due \in Int /\ q[i].due <= first
    BY <1>1, Typed DEF Queue, Within
  <1>9. \A i \in 1..Len(q) : q[i].due > -(MaxLate + slack)
    <2> SUFFICES ASSUME NEW i \in 1..Len(q) PROVE q[i].due > -(MaxLate + slack)
      OBVIOUS
    <2>1. q # << >> /\ 1 \in 1..Len(q) /\ q[1].due \in Int
      BY <1>1, <1>8
    <2>2. q[1].due <= q[i].due + slack
      BY <1>1, <1>8, <2>1 DEF Queue, InOrder
    <2> QED BY <1>0, <1>8, <2>1, <2>2
  <1>10. Within(n, -(MaxLate + slack), first)
    <2> SUFFICES ASSUME NEW i \in 1..Len(n)
                 PROVE  -(MaxLate + slack) <= n[i].due /\ n[i].due <= first
      BY DEF Within
    <2>1. i \in 1..Len(q) /\ n[i].due = q[i].due - 1
      BY <1>7
    <2> QED BY <1>0, <1>8, <1>9, <2>1
  <1>11. InOrder(n, slack)
    <2> SUFFICES ASSUME NEW i \in 1..Len(n), NEW j \in 1..Len(n), i < j
                 PROVE  n[i].due <= n[j].due + slack
      BY DEF InOrder
    <2>1. i \in 1..Len(q) /\ j \in 1..Len(q)
      BY <1>7
    <2>2. q[i].due <= q[j].due + slack
      BY <2>1 DEF Queue, InOrder
    <2>3. n[i].due = q[i].due - 1 /\ n[j].due = q[j].due - 1 /\ q[i].due \in Int /\ q[j].due \in Int
      BY <1>7, <1>8, <2>1
    <2> QED BY <2>2, <2>3
  <1>12. Single(n) /\ Owners(n) = Owners(q)
    BY <1>7 DEF Queue, Single, Owners
  <1> QED BY <1>7, <1>10, <1>11, <1>12 DEF Queue

\* One node less, wherever it stood.
LEMMA Removed ==
    ASSUME NEW q, NEW first \in Nat, NEW slack \in Nat, Queue(q, first, slack), NEW h,
           NEW n, n = Unqueue(q, h)
    PROVE  /\ Queue(n, first, slack) /\ Owners(n) = Owners(q) \ {h}
           /\ \A low \in Int : Above(q, low) => Above(n, low)
  <1>1. q \in Seq(TickNode) /\ DOMAIN q = 1..Len(q) /\ Len(q) \in Nat
    BY DEF Queue
  <1>2. CASE ~Holds(q, h)
    <2>1. n = q /\ h \notin Owners(q)
      BY <1>1, <1>2, HoldsOwners DEF Unqueue
    <2> QED BY <2>1
  <1>3. CASE Holds(q, h)
    <2> DEFINE k == CHOOSE i \in DOMAIN q : q[i].h = h /\ ~q[i].old
    <2>1. k \in 1..Len(q) /\ q[k].h = h /\ ~q[k].old
      BY <1>1, <1>3 DEF Holds
    <2>2. n = SubSeq(q, 1, k - 1) \o SubSeq(q, k + 1, Len(q))
      BY <1>3 DEF Unqueue, RemoveAt
    <2> HIDE DEF k
    <2> DEFINE a == SubSeq(q, 1, k - 1)  b == SubSeq(q, k + 1, Len(q))
    <2>3. /\ a \in Seq(TickNode) /\ Len(a) = k - 1
          /\ \A i \in 1..(k - 1) : a[i] = q[i]
      BY <1>1, <2>1, SubSeqProperties
    <2>4. b \in Seq(TickNode) /\ Len(b) = Len(q) - k
      <3>1. k + 1 \in 1..(Len(q) + 1) /\ \A i \in (k + 1)..Len(q) : i \in 1..Len(q)
        BY <1>1, <2>1
      <3>2. \A i \in (k + 1)..Len(q) : q[i] \in TickNode
        BY <1>1, <3>1
      <3> QED BY <1>1, <2>1, <3>1, <3>2, SubSeqProperties
    <2>5. \A i \in 1..(Len(q) - k) : b[i] = q[i + k]
      <3> SUFFICES ASSUME NEW i \in 1..(Len(q) - k) PROVE b[i] = q[i + k]
        OBVIOUS
      <3>1. /\ k + 1 \in 1..(Len(q) + 1) /\ Len(q) \in (k + 1 - 1)..Len(q)
            /\ i \in 1..(Len(q) - (k + 1) + 1)
        BY <1>1, <2>1
      <3>2. b[i] = q[(k + 1) + i - 1]
        BY <1>1, <2>1, <3>1, SubSeqProperties
      <3> QED BY <2>1, <3>2
    <2>n. n = a \o b
      BY <2>2
    <2> HIDE DEF a, b
    <2>l. /\ a \o b \in Seq(TickNode) /\ Len(a \o b) = Len(a) + Len(b)
          /\ \A i \in 1..(Len(a) + Len(b)) :
                (a \o b)[i] = IF i <= Len(a) THEN a[i] ELSE b[i - Len(a)]
      BY <2>3, <2>4, ConcatProperties
    <2>6. /\ n \in Seq(TickNode) /\ Len(n) = Len(q) - 1
          /\ \A i \in 1..Len(n) : n[i] = IF i <= k - 1 THEN a[i] ELSE b[i - (k - 1)]
      <3>1. Len(a) + Len(b) = Len(q) - 1 /\ Len(a) = k - 1
        BY <1>1, <2>1, <2>3, <2>4
      <3> QED BY <2>n, <2>l, <3>1
    <2>7. \A i \in 1..Len(n) : IF i < k THEN n[i] = q[i] /\ i \in 1..Len(q)
                                        ELSE n[i] = q[i + 1] /\ i + 1 \in 1..Len(q)
      <3> SUFFICES ASSUME NEW i \in 1..Len(n)
                   PROVE  IF i < k THEN n[i] = q[i] /\ i \in 1..Len(q)
                                   ELSE n[i] = q[i + 1] /\ i + 1 \in 1..Len(q)
        OBVIOUS
      <3>1. CASE i < k
        BY <1>1, <2>1, <2>3, <2>6, <3>1
      <3>2. CASE i >= k
        <4>1. i - (k - 1) \in 1..(Len(q) - k) /\ (i - (k - 1)) + k = i + 1 /\ ~(i <= k - 1)
          BY <1>1, <2>1, <2>6, <3>2
        <4> QED BY <1>1, <2>1, <2>5, <2>6, <3>2, <4>1
      <3> QED BY <1>1, <2>1, <2>6, <3>1, <3>2
    <2>9. \A i \in 1..Len(q) : \/ i = k
                               \/ i \in 1..Len(n) /\ n[i] = q[i] /\ i < k
                               \/ i - 1 \in 1..Len(n) /\ n[i - 1] = q[i] /\ i > k
      BY <1>1, <2>1, <2>6, <2>7
    <2>10. Within(n, -(MaxLate + slack), first) /\ \A low \in Int : Above(q, low) => Above(n, low)
      BY <1>1, <2>6, <2>7 DEF Queue, Within, Above
    <2>11. InOrder(n, slack)
      <3>1. \A i, j \in 1..Len(q) : i < j => q[i].due <= q[j].due + slack
        BY DEF Queue, InOrder
      <3> SUFFICES ASSUME NEW i \in 1..Len(n), NEW j \in 1..Len(n), i < j
                   PROVE  n[i].due <= n[j].due + slack
        BY DEF InOrder
      <3>2. PICK x \in 1..Len(q) : x = (IF i < k THEN i ELSE i + 1) /\ n[i] = q[x]
        BY <2>7
      <3>3. PICK y \in 1..Len(q) : y = (IF j < k THEN j ELSE j + 1) /\ n[j] = q[y]
        BY <2>7
      <3>4. x < y
        BY <1>1, <2>1, <2>6, <3>2, <3>3
      <3> QED BY <3>1, <3>2, <3>3, <3>4
    <2>12. Single(n)
      <3>1. \A i, j \in 1..Len(q) : i # j /\ q[i].h = q[j].h => q[i].old \/ q[j].old
        BY DEF Queue, Single
      <3> SUFFICES ASSUME NEW i \in 1..Len(n), NEW j \in 1..Len(n), i # j, n[i].h = n[j].h
                   PROVE  n[i].old \/ n[j].old
        BY DEF Single
      <3>2. PICK x \in 1..Len(q) : x = (IF i < k THEN i ELSE i + 1) /\ n[i] = q[x]
        BY <2>7
      <3>3. PICK y \in 1..Len(q) : y = (IF j < k THEN j ELSE j + 1) /\ n[j] = q[y]
        BY <2>7
      <3>4. x # y
        BY <1>1, <2>1, <2>6, <3>2, <3>3
      <3> QED BY <3>1, <3>2, <3>3, <3>4
    <2>13. \A i \in 1..Len(q) : q[i].h = h /\ ~q[i].old => i = k
      BY <2>1 DEF Queue, Single
    <2>14. Owners(n) = Owners(q) \ {h}
      <3>1. ASSUME NEW x \in Owners(n) PROVE x \in Owners(q) /\ x # h
        <4>1. PICK i \in 1..Len(n) : n[i].h = x /\ ~n[i].old
          BY IsOwner
        <4>2. CASE i < k
          <5>1. i \in 1..Len(q) /\ q[i] = n[i] /\ i # k
            BY <2>1, <2>7, <4>2
          <5> QED BY <2>13, <4>1, <5>1, IsOwner
        <4>3. CASE i >= k
          <5>1. i + 1 \in 1..Len(q) /\ q[i + 1] = n[i] /\ i + 1 # k
            BY <1>1, <2>1, <2>6, <2>7, <4>3
          <5> QED BY <2>13, <4>1, <5>1, IsOwner
        <4> QED BY <1>1, <2>1, <2>6, <4>2, <4>3
      <3>2. ASSUME NEW x \in Owners(q), x # h PROVE x \in Owners(n)
        <4>1. PICK i \in 1..Len(q) : q[i].h = x /\ ~q[i].old
          BY IsOwner
        <4>2. i # k
          BY <2>1, <3>2, <4>1
        <4>3. PICK j \in 1..Len(n) : n[j] = q[i]
          BY <2>9, <4>1, <4>2
        <4> QED BY <4>1, <4>3, IsOwner
      <3> QED BY <3>1, <3>2
    <2> QED BY <2>6, <2>7, <2>10, <2>11, <2>12, <2>14 DEF Queue
  <1> QED BY <1>2, <1>3

\* A queue whose first node is not due has none that is due for longer than slack.
LEMMA NotDue ==
    ASSUME NEW q, NEW first \in Nat, NEW slack \in Nat, Queue(q, first, slack), ~Due(q),
           NEW low \in Int, low + slack = 0
    PROVE  Above(q, low)
  <1>0. q \in Seq(TickNode) /\ Len(q) \in Nat /\ \A i \in 1..Len(q) : q[i] \in TickNode
    BY DEF Queue
  <1>1. q \in Seq(TickNode) /\ Len(q) \in Nat /\ \A i \in 1..Len(q) : q[i].due \in Int
    BY <1>0 DEF TickNode
  <1> SUFFICES ASSUME NEW i \in 1..Len(q) PROVE q[i].due > low
    BY DEF Above
  <1>2. q # << >> /\ 1 \in 1..Len(q) /\ q[1].due > 0
    BY <1>1 DEF Due
  <1>3. q[1].due <= q[i].due + slack
    BY <1>1, <1>2 DEF Queue, InOrder
  <1> QED BY <1>1, <1>2, <1>3

-----------------------------------------------------------------------------
\* What holds of the links and the queues together in every state.
LinkRecord == [kind : Kind, state : State, pings : 0..(PingOut + 1), slow : BOOLEAN]
Wire == {"pending", "quiet", "data", "eof", "reset", "ended"}
Slack == FirstTick - Tick

Queues ==
    /\ Queue(pingQ, Ping, 0) /\ Owners(pingQ) \subseteq DOMAIN links
    /\ Queue(kcpQ, FirstTick, Slack) /\ Owners(kcpQ) \subseteq DOMAIN links

\* A link that may get connected or is has its ping tick, unless it was slow.
Asked(h) == h \in Owners(pingQ) \/ links[h].slow

LinkOK(h) ==
    /\ links[h] \in LinkRecord
    /\ links[h].kind = "kcp" => h \in Owners(kcpQ)
    /\ links[h].state = "Connecting" => links[h].pings = 0 /\ Asked(h)
    /\ links[h].state = "Connected" => links[h].pings <= PingOut /\ Asked(h)
    /\ links[h].state = "Disconnected" => h \in gone

Links ==
    /\ DOMAIN links \subseteq Handles
    /\ DOMAIN links \ gone \subseteq open /\ open \subseteq Handles
    /\ \A h \in DOMAIN links : LinkOK(h)

Wires == DOMAIN wire = DOMAIN links /\ \A h \in DOMAIN wire : wire[h] \in Wire

Control ==
    /\ at \in {"app", "ping", "kcp", "close", "event", "release", "deleted", "crashed"}
    /\ todo \subseteq Handles /\ gone \subseteq todo /\ call \in BOOLEAN
    /\ \A g, h \in gone : g = h
    /\ gone # {} => at \in {"close", "release"}
    /\ at = "deleted" => Stale /\ ~call

\* In a round, the links that are watched for something but errors stay: only
\* those watched for errors are removed.
Watching ==
    at \in {"close", "event"} =>
        /\ \A h \in todo : h \in DOMAIN watch /\ (watch[h] = "Error" <=> at = "close")
        /\ \A h \in DOMAIN watch :
              /\ watch[h] # "Error" => h \in DOMAIN links \ gone
              /\ watch[h] = "Connect" /\ (at = "event" => h \in todo) =>
                    links[h].pings = 0 /\ Asked(h)

Times ==
    /\ at \in {"kcp", "close", "event"} => Above(pingQ, 0)
    /\ at \in {"close", "event"} => Above(kcpQ, -Slack)

TickInv == Queues /\ Links /\ Wires /\ Control /\ Watching /\ Times

LEMMA Limits ==
    /\ Ping \in Nat /\ FirstTick \in Nat \ {0} /\ Slack \in Nat /\ Tick \in Nat
    /\ Tick <= FirstTick /\ FirstTick <= Tick + Slack /\ PingOut \in Nat /\ MaxLate \in Nat
    /\ -Slack \in Int /\ -Slack < FirstTick /\ 0 < Ping /\ Ping <= Ping + 0
    /\ 0 \in Nat /\ 0 \in Int
  BY LoopAssumption DEF Slack

LEMMA Links1 ==
    ASSUME NEW l \in LinkRecord
    PROVE  /\ l = [kind |-> l.kind, state |-> l.state, pings |-> l.pings, slow |-> l.slow]
           /\ l.kind \in Kind /\ l.state \in State /\ l.pings \in Nat /\ l.pings <= PingOut + 1
           /\ l.slow \in BOOLEAN
  BY Limits DEF LinkRecord

LEMMA Empty == ASSUME NEW first \in Nat, NEW slack \in Nat
               PROVE Queue(<< >>, first, slack) /\ Owners(<< >>) = {} /\ Len(<< >>) = 0
  <1>1. << >> \in Seq(TickNode) /\ Len(<< >>) = 0
    OBVIOUS
  <1>2. Within(<< >>, -(MaxLate + slack), first) /\ InOrder(<< >>, slack) /\ Single(<< >>)
    BY <1>1 DEF Within, InOrder, Single
  <1>3. Owners(<< >>) = {}
    BY <1>1 DEF Owners
  <1> QED BY <1>1, <1>2, <1>3 DEF Queue

LEMMA TickInit == Init => TickInv
  <1> SUFFICES ASSUME Init PROVE TickInv
    OBVIOUS
  <1>1. /\ DOMAIN links = {} /\ DOMAIN wire = {} /\ open = {} /\ gone = {} /\ todo = {}
        /\ at = "app" /\ call = TRUE
    BY DEF Init
  <1>2. Queues
    BY <1>1, Limits, Empty DEF Init, Queues
  <1> QED BY <1>1, <1>2 DEF TickInv, Links, Wires, Control, Watching, Times

-----------------------------------------------------------------------------
\* Steps on which one link changes at most, or a tick node is taken from its queue.
LEMMA LinkStep ==
    ASSUME TickInv, NEW h, DOMAIN links' = DOMAIN links,
           \A x \in DOMAIN links : x # h => links'[x] = links[x],
           Queue(pingQ', Ping, 0), Owners(pingQ') \subseteq DOMAIN links,
           Owners(pingQ) \ {h} \subseteq Owners(pingQ'),
           Queue(kcpQ', FirstTick, Slack), Owners(kcpQ') = Owners(kcpQ),
           gone \subseteq gone', open' \subseteq Handles, DOMAIN links \ gone' \subseteq open',
           h \in DOMAIN links =>
              /\ links'[h] \in LinkRecord /\ links'[h].kind = links[h].kind
              /\ links'[h].state = "Connecting" =>
                    links'[h].pings = 0 /\ (h \in Owners(pingQ') \/ links'[h].slow)
              /\ links'[h].state = "Connected" =>
                    links'[h].pings <= PingOut /\ (h \in Owners(pingQ') \/ links'[h].slow)
              /\ links'[h].state = "Disconnected" => h \in gone'
    PROVE  Queues' /\ Links'
  <1>1. Queues'
    BY DEF TickInv, Queues
  <1>2. ASSUME NEW x \in DOMAIN links PROVE LinkOK(x)'
    <2>1. LinkOK(x)
      BY DEF TickInv, Links
    <2>2. CASE x = h
      BY <2>1, <2>2 DEF LinkOK, Asked
    <2>3. CASE x # h
      BY <2>1, <2>3 DEF LinkOK, Asked
    <2> QED BY <2>2, <2>3
  <1>3. Links'
    BY <1>2 DEF TickInv, Links
  <1> QED BY <1>1, <1>3

\* Those that leave the queues.
LEMMA OneLink ==
    ASSUME TickInv, NEW h, NEW l, links' = [links EXCEPT ![h] = l],
           UNCHANGED queues, gone \subseteq gone',
           open' \subseteq Handles, DOMAIN links \ gone' \subseteq open',
           h \in DOMAIN links =>
              /\ l \in LinkRecord /\ l.kind = links[h].kind
              /\ l.state = "Connecting" => l.pings = 0 /\ (h \in Owners(pingQ) \/ l.slow)
              /\ l.state = "Connected" => l.pings <= PingOut /\ (h \in Owners(pingQ) \/ l.slow)
              /\ l.state = "Disconnected" => h \in gone'
    PROVE  Queues' /\ Links' /\ DOMAIN links' = DOMAIN links
  <1>1. /\ DOMAIN links' = DOMAIN links
        /\ h \in DOMAIN links => links'[h] = l
        /\ \A x \in DOMAIN links : x # h => links'[x] = links[x]
    OBVIOUS
  <1>2. pingQ' = pingQ /\ kcpQ' = kcpQ
    BY DEF queues
  <1>3. /\ Queue(pingQ', Ping, 0) /\ Owners(pingQ') \subseteq DOMAIN links
        /\ Queue(kcpQ', FirstTick, Slack) /\ Owners(kcpQ') = Owners(kcpQ)
        /\ Owners(pingQ') = Owners(pingQ)
    BY <1>2 DEF TickInv, Queues
  <1> QED BY <1>1, <1>3, LinkStep

LEMMA SameLinks ==
    ASSUME TickInv, UNCHANGED <<links, queues, gone>>, open \subseteq open', open' \subseteq Handles
    PROVE  Queues' /\ Links'
  BY DEF TickInv, Queues, Links, LinkOK, Asked, queues

\* Of the watched links, none loses its ping tick or is asked in a round.
LEMMA StillWatching ==
    ASSUME TickInv, DOMAIN links \subseteq DOMAIN links', UNCHANGED <<at, watch>>,
           todo' \subseteq todo, \A x \in gone' : x \in gone \/ (at # "event" /\ x \in todo),
           \A x \in DOMAIN watch :
              at \in {"close", "event"} /\ watch[x] = "Connect" /\ x \in DOMAIN links
              /\ links[x].pings = 0 /\ Asked(x) =>
                 (links'[x].pings = 0 /\ (Asked(x)')) \/ (at = "event" /\ x \notin todo')
    PROVE  Watching'
  <1>1. SUFFICES ASSUME at \in {"close", "event"} PROVE Watching'
    BY DEF Watching
  <1>2. Watching
    BY DEF TickInv
  <1>3. ASSUME NEW h \in todo' PROVE h \in DOMAIN watch' /\ (watch'[h] = "Error" <=> at' = "close")
    BY <1>1, <1>2 DEF Watching
  <1>4. ASSUME NEW h \in DOMAIN watch', watch'[h] # "Error" PROVE h \in DOMAIN links' \ gone'
    BY <1>1, <1>2, <1>4 DEF Watching
  <1>5. ASSUME NEW h \in DOMAIN watch', watch'[h] = "Connect", at' = "event" => h \in todo'
        PROVE  links'[h].pings = 0 /\ Asked(h)'
    <2>1. h \in DOMAIN watch /\ watch[h] = "Connect" /\ (at = "event" => h \in todo)
      BY <1>5
    <2>2. links[h].pings = 0 /\ Asked(h) /\ h \in DOMAIN links
      BY <1>1, <1>2, <2>1 DEF Watching
    <2> QED BY <1>1, <1>5, <2>1, <2>2
  <1> QED BY <1>3, <1>4, <1>5 DEF Watching

\* Steps that leave the queues, and where update is.
LEMMA SameTimes == TickInv /\ UNCHANGED <<queues, at>> => Times'
  BY DEF TickInv, Times, queues

LEMMA SameStale == UNCHANGED queues => (Stale <=> Stale')
  BY DEF Stale, queues

LEMMA AddTick ==
    ASSUME TickInv, NEW h, NEW kind \in Kind, NEW state \in {"Listen", "Connecting", "Connected"},
           NEW w \in Wire, NEW wires, DOMAIN wires = DOMAIN links,
           \A x \in DOMAIN links : wires[x] \in Wire,
           IsFree(h), add_link(h, kind, state, w, wires), UNCHANGED <<at, watch, gone>>,
           todo' \subseteq todo, gone \subseteq todo', call' \in BOOLEAN, at # "deleted"
    PROVE  TickInv'
  <1> USE Limits
  <1>1. h \in Handles /\ h \notin open
    BY DEF IsFree
  <1>2. /\ Queue(pingQ, Ping, 0) /\ Queue(kcpQ, FirstTick, Slack)
        /\ Owners(pingQ) \subseteq DOMAIN links /\ Owners(kcpQ) \subseteq DOMAIN links
    BY DEF TickInv, Queues
  <1> DEFINE r == [kind |-> kind, state |-> state, pings |-> 0, slow |-> FALSE]
             p == IF state = "Listen" THEN << >> ELSE <<Node(h, Ping)>>
             k == IF kind = "kcp" THEN <<Node(h, FirstTick)>> ELSE << >>
  <1>3. /\ links' = Put(links, h, r) /\ wire' = Put(wires, h, w) /\ open' = open \cup {h}
        /\ pingQ' = Orphan(pingQ, h) \o p /\ kcpQ' = Orphan(kcpQ, h) \o k
    BY DEF add_link
  <1>4. /\ r \in LinkRecord /\ r.kind = kind /\ r.state = state /\ r.pings = 0 /\ r.slow = FALSE
    <2>1. state \in State
      BY DEF State
    <2> QED BY <2>1 DEF LinkRecord
  <1> HIDE DEF r
  <1>5. /\ DOMAIN links' = DOMAIN links \cup {h} /\ links'[h] = r
        /\ \A x \in DOMAIN links : x # h => links'[x] = links[x]
        /\ DOMAIN wire' = DOMAIN links \cup {h} /\ wire'[h] = w
        /\ \A x \in DOMAIN links : x # h => wire'[x] = wires[x]
    BY <1>3 DEF Put
  <1>6. /\ Queue(pingQ', Ping, 0) /\ (Above(pingQ, 0) => Above(pingQ', 0))
        /\ state = "Listen" => Owners(pingQ') = Owners(pingQ) \ {h}
        /\ state # "Listen" => Owners(pingQ') = Owners(pingQ) \cup {h}
    <2>1. CASE state = "Listen"
      <3>1. pingQ' = Orphan(pingQ, h) \o << >>
        BY <1>3, <2>1
      <3>2. /\ Queue(pingQ', Ping, 0) /\ Owners(pingQ') = Owners(pingQ) \ {h}
            /\ \A low \in Int : low < Ping /\ Above(pingQ, low) => Above(pingQ', low)
        BY <1>1, <1>2, <3>1, AddedNone
      <3> QED BY <2>1, <3>2
    <2>2. CASE state # "Listen"
      <3>1. pingQ' = WithOwn(pingQ, h, Ping)
        BY <1>3, <2>2 DEF WithOwn
      <3>2. /\ Queue(pingQ', Ping, 0) /\ Owners(pingQ') = Owners(pingQ) \cup {h}
            /\ \A low \in Int : low < Ping /\ Above(pingQ, low) => Above(pingQ', low)
        BY <1>1, <1>2, <3>1, AddedOwn
      <3> QED BY <2>2, <3>2
    <2> QED BY <2>1, <2>2
  <1>7. /\ Queue(kcpQ', FirstTick, Slack) /\ (Above(kcpQ, -Slack) => Above(kcpQ', -Slack))
        /\ kind = "kcp" => Owners(kcpQ') = Owners(kcpQ) \cup {h}
        /\ kind # "kcp" => Owners(kcpQ') = Owners(kcpQ) \ {h}
    <2>1. CASE kind # "kcp"
      <3>1. kcpQ' = Orphan(kcpQ, h) \o << >>
        BY <1>3, <2>1
      <3>2. /\ Queue(kcpQ', FirstTick, Slack) /\ Owners(kcpQ') = Owners(kcpQ) \ {h}
            /\ \A low \in Int : low < FirstTick /\ Above(kcpQ, low) => Above(kcpQ', low)
        BY <1>1, <1>2, <3>1, AddedNone
      <3> QED BY <2>1, <3>2
    <2>2. CASE kind = "kcp"
      <3>1. kcpQ' = WithOwn(kcpQ, h, FirstTick)
        BY <1>3, <2>2 DEF WithOwn
      <3>2. /\ Queue(kcpQ', FirstTick, Slack) /\ Owners(kcpQ') = Owners(kcpQ) \cup {h}
            /\ \A low \in Int : low < FirstTick /\ Above(kcpQ, low) => Above(kcpQ', low)
        BY <1>1, <1>2, <3>1, AddedOwn
      <3> QED BY <2>2, <3>2
    <2> QED BY <2>1, <2>2
  <1>8. Queues'
    BY <1>2, <1>5, <1>6, <1>7 DEF Queues
  <1>9. ASSUME NEW x \in DOMAIN links' PROVE LinkOK(x)'
    <2>1. CASE x = h
      BY <1>4, <1>5, <1>6, <1>7, <2>1 DEF LinkOK, Asked
    <2>2. CASE x # h
      <3>1. LinkOK(x) /\ links'[x] = links[x]
        BY <1>5, <2>2 DEF TickInv, Links
      <3> QED BY <1>6, <1>7, <2>2, <3>1 DEF LinkOK, Asked
    <2> QED BY <2>1, <2>2
  <1>10. Links'
    BY <1>1, <1>3, <1>5, <1>9 DEF TickInv, Links
  <1>11. Wires'
    BY <1>5 DEF Wires
  <1>12. Control'
    BY DEF TickInv, Control
  <1>13. Times'
    BY <1>6, <1>7 DEF TickInv, Times
  <1>14. Watching'
    <2>1. ASSUME NEW x \in DOMAIN watch, at \in {"close", "event"}, watch[x] = "Connect",
                 links[x].pings = 0, Asked(x)
          PROVE  links'[x].pings = 0 /\ Asked(x)'
      <3>1. x \in DOMAIN links \ gone
        BY <2>1 DEF TickInv, Watching
      <3>2. x # h
        BY <1>1, <3>1 DEF TickInv, Links
      <3> QED BY <1>5, <1>6, <2>1, <3>1, <3>2 DEF Asked
    <2> QED BY <1>5, <2>1, StillWatching
  <1> QED BY <1>8, <1>10, <1>11, <1>12, <1>13, <1>14 DEF TickInv

LEMMA KindsKnown == Kinds \subseteq Kind
  BY LoopAssumption DEF Kind

\* What the program may do.
LEMMA ProgramTick == ASSUME TickInv, program PROVE TickInv'
  <1>1. ASSUME NEW h \in Handles, disconnect(h) PROVE TickInv'
    <2> DEFINE l == [links[h] EXCEPT !.state = "Disconnecting"]
    <2>1. h \in DOMAIN links /\ links' = [links EXCEPT ![h] = l]
          /\ UNCHANGED <<wire, open, queues, at, watch, todo, gone, call>>
      BY <1>1 DEF disconnect
    <2>2. LinkOK(h)
      BY <2>1 DEF TickInv, Links
    <2>3. l \in LinkRecord /\ l.kind = links[h].kind /\ l.slow = links[h].slow
          /\ l.state = "Disconnecting" /\ l.pings = links[h].pings
      BY <2>2, Links1 DEF LinkOK, LinkRecord, State
    <2> HIDE DEF l
    <2>4. Queues' /\ Links' /\ DOMAIN links' = DOMAIN links
      BY <2>1, <2>2, <2>3, OneLink DEF TickInv, Links
    <2>5. Watching'
      BY <2>1, <2>3, <2>4, StillWatching DEF Asked, queues
    <2> QED BY <2>1, <2>4, <2>5, SameTimes, SameStale DEF TickInv, Wires, Control
  <1>2. ASSUME NEW h \in Handles, write_data(h) PROVE TickInv'
    <2> DEFINE l == [links[h] EXCEPT !.pings = 0]
    <2>1. h \in DOMAIN links /\ links' = [links EXCEPT ![h] = l]
          /\ UNCHANGED <<wire, open, queues, at, watch, todo, gone, call>>
      BY <1>2 DEF write_data
    <2>2. LinkOK(h)
      BY <2>1 DEF TickInv, Links
    <2>3. l \in LinkRecord /\ l.kind = links[h].kind /\ l.slow = links[h].slow
          /\ l.state = links[h].state /\ l.pings = 0
      BY <2>2, Links1, Limits DEF LinkOK, LinkRecord
    <2> HIDE DEF l
    <2>a. /\ l.state = "Connecting" \/ l.state = "Connected" => h \in Owners(pingQ) \/ l.slow
          /\ l.state = "Disconnected" => h \in gone'
      BY <2>1, <2>2, <2>3 DEF LinkOK, Asked
    <2>b. open' \subseteq Handles /\ DOMAIN links \ gone' \subseteq open' /\ 0 <= PingOut
      BY <2>1, Limits DEF TickInv, Links
    <2>4. Queues' /\ Links' /\ DOMAIN links' = DOMAIN links
      BY <2>1, <2>3, <2>a, <2>b, OneLink
    <2>5. Watching'
      BY <2>1, <2>3, <2>4, StillWatching DEF Asked, queues
    <2> QED BY <2>1, <2>4, <2>5, SameTimes, SameStale DEF TickInv, Wires, Control
  <1>3. ASSUME NEW h \in Handles, NEW k \in Kinds, add_listen(h, k) \/ add_connect(h, k)
        PROVE  TickInv'
    <2>1. /\ IsFree(h) /\ UNCHANGED <<at, watch, todo, gone, call>> /\ call
          /\ \E state \in {"Listen", "Connecting", "Connected"}, w \in Wire :
                add_link(h, k, state, w, wire)
      BY <1>3 DEF add_listen, add_connect, Wire
    <2>2. k \in Kind
      BY KindsKnown
    <2>3. at # "deleted" /\ gone \subseteq todo' /\ call' \in BOOLEAN
      BY <2>1 DEF TickInv, Control
    <2> QED BY <2>1, <2>2, <2>3, AddTick DEF TickInv, Wires
  <1>4. ASSUME NEW h \in Handles, NEW k \in Kinds, connect_fails(h, k) PROVE TickInv'
    <2>1. /\ UNCHANGED <<links, wire, queues, at, watch, todo, gone, call>>
          /\ open' = open \cup {h}
      BY <1>4 DEF connect_fails
    <2>2. Queues' /\ Links'
      BY <2>1 DEF TickInv, Queues, Links, LinkOK, Asked, queues
    <2>3. Watching'
      BY <2>1, StillWatching DEF Asked, queues
    <2> QED BY <2>1, <2>2, <2>3, SameTimes, SameStale DEF TickInv, Wires, Control
  <1>5. ASSUME release PROVE TickInv'
    <2>1. /\ UNCHANGED <<links, wire, open, queues, watch, gone>>
          /\ at = "app" /\ at' = "release" /\ todo' = DOMAIN links /\ call' = FALSE
      BY <1>5 DEF release
    <2>2. Queues' /\ Links' /\ Wires'
      BY <2>1 DEF TickInv, Queues, Links, LinkOK, Asked, queues, Wires
    <2>3. gone = {}
      BY <2>1 DEF TickInv, Control
    <2>4. Control' /\ Watching' /\ Times'
      BY <2>1, <2>3 DEF TickInv, Links, Control, Watching, Times
    <2> QED BY <2>2, <2>4 DEF TickInv
  <1> QED BY <1>1, <1>2, <1>3, <1>4, <1>5 DEF program

-----------------------------------------------------------------------------
\* What on_tick may do.
LEMMA TickTick == ASSUME TickInv, on_tick PROVE TickInv'
  <1> USE Limits
  <1>0. /\ Queue(pingQ, Ping, 0) /\ Owners(pingQ) \subseteq DOMAIN links
        /\ Queue(kcpQ, FirstTick, Slack) /\ Owners(kcpQ) \subseteq DOMAIN links
    BY DEF TickInv, Queues
  <1>1. ASSUME ping_tick PROVE TickInv'
    <2> DEFINE h == pingQ[1].h
    <2>1. /\ at = "ping" /\ pingQ # << >> /\ ~pingQ[1].old /\ call' = TRUE
          /\ UNCHANGED <<wire, open, kcpQ, at, watch, todo, gone>>
      BY <1>1 DEF ping_tick, Due
    <2>2. h \in Owners(pingQ) /\ h \in DOMAIN links
      <3>1. 1 \in 1..Len(pingQ)
        BY <1>0, <2>1 DEF Queue
      <3> QED BY <1>0, <2>1, <3>1, IsOwner
    <2>3. LinkOK(h) /\ links[h] \in LinkRecord
      BY <2>2 DEF TickInv, Links, LinkOK
    <2>4. Queues' /\ Links' /\ DOMAIN links' = DOMAIN links
      <3>1. CASE links[h].state = "Connected"
        <4> DEFINE l == on_ping_tick(links[h])
        <4>1. links' = [links EXCEPT ![h] = l] /\ pingQ' = Requeue(pingQ, Ping)
          BY <1>1, <3>1 DEF ping_tick
        <4>2. Queue(pingQ', Ping, 0) /\ Owners(pingQ') = Owners(pingQ)
          BY <1>0, <2>1, <4>1, Requeued
        <4>3. /\ links[h].pings \in Nat /\ links[h].pings <= PingOut
              /\ h \in Owners(pingQ) \/ links[h].slow
          BY <2>3, <3>1, Links1 DEF LinkOK, Asked
        <4>4. /\ l \in LinkRecord /\ l.kind = links[h].kind /\ l.slow = links[h].slow
              /\ l.state \in {"Connected", "Disconnecting"}
              /\ l.state = "Connected" => l.pings <= PingOut
          <5>1. links[h] = [kind |-> links[h].kind, state |-> "Connected",
                            pings |-> links[h].pings, slow |-> links[h].slow]
                /\ links[h].kind \in Kind /\ links[h].slow \in BOOLEAN
            BY <2>3, <3>1, Links1
          <5> DEFINE s == IF links[h].pings + 1 > PingOut THEN "Disconnecting" ELSE "Connected"
                     n == links[h].pings + 1
          <5>2. s \in {"Connected", "Disconnecting"} /\ n \in 0..(PingOut + 1)
                /\ (s = "Connected" => n <= PingOut)
            BY <4>3
          <5>3. l = [kind |-> links[h].kind, state |-> s, pings |-> n, slow |-> links[h].slow]
            <6>1. PICK k, m, b :
                     links[h] = [kind |-> k, state |-> "Connected", pings |-> m, slow |-> b]
              BY <5>1
            <6>2. links[h].kind = k /\ links[h].pings = m /\ links[h].slow = b
              BY <6>1
            <6>3. PICK c : c = IF m + 1 > PingOut THEN "Disconnecting" ELSE "Connected"
              OBVIOUS
            <6>4. l = [[kind |-> k, state |-> "Connected", pings |-> m, slow |-> b]
                          EXCEPT !.pings = m + 1, !.state = c]
              BY <6>1, <6>3 DEF on_ping_tick
            <6>5. c = s
              BY <6>2, <6>3
            <6> HIDE DEF s, l
            <6> QED BY <6>2, <6>4, <6>5
          <5> HIDE DEF s, n, l
          <5> QED BY <5>1, <5>2, <5>3 DEF LinkRecord, State
        <4> HIDE DEF l
        <4>5. /\ DOMAIN links' = DOMAIN links /\ links'[h] = l
              /\ \A x \in DOMAIN links : x # h => links'[x] = links[x]
          BY <2>2, <4>1
        <4>6. open' \subseteq Handles /\ DOMAIN links \ gone' \subseteq open'
          BY <2>1 DEF TickInv, Links
        <4> HIDE DEF h
        <4> QED BY <1>0, <2>1, <4>2, <4>3, <4>4, <4>5, <4>6, LinkStep
      <3>2. CASE links[h].state # "Connected"
        <4> DEFINE l == [links[h] EXCEPT !.slow = TRUE]
        <4>1. links' = [links EXCEPT ![h] = l] /\ pingQ' = Tail(pingQ)
          BY <1>1, <3>2 DEF ping_tick
        <4>2. /\ Queue(pingQ', Ping, 0) /\ Owners(pingQ) \ {h} \subseteq Owners(pingQ')
              /\ Owners(pingQ') \subseteq Owners(pingQ)
          BY <1>0, <2>1, <4>1, Popped
        <4>3. /\ l \in LinkRecord /\ l.kind = links[h].kind /\ l.state = links[h].state
              /\ l.pings = links[h].pings /\ l.slow = TRUE
          BY <2>3, Links1 DEF LinkRecord
        <4> HIDE DEF l
        <4>4. /\ DOMAIN links' = DOMAIN links /\ links'[h] = l
              /\ \A x \in DOMAIN links : x # h => links'[x] = links[x]
          BY <2>2, <4>1
        <4>5. open' \subseteq Handles /\ DOMAIN links \ gone' \subseteq open'
          BY <2>1 DEF TickInv, Links
        <4>6. /\ l.state = "Connecting" => l.pings = 0
              /\ l.state = "Disconnected" => h \in gone
          BY <2>3, <4>3 DEF LinkOK
        <4> HIDE DEF h
        <4> QED BY <1>0, <2>1, <3>2, <4>2, <4>3, <4>4, <4>5, <4>6, LinkStep
      <3>3. DOMAIN links' = DOMAIN links
        BY <1>1 DEF ping_tick
      <3> QED BY <3>1, <3>2, <3>3
    <2>5. Wires' /\ Control' /\ Watching' /\ Times'
      BY <2>1, <2>4 DEF TickInv, Wires, Control, Watching, Times
    <2> QED BY <2>4, <2>5 DEF TickInv
  <1>2. ASSUME kcp_tick PROVE TickInv'
    <2> DEFINE h == kcpQ[1].h
    <2>1. /\ at = "kcp" /\ kcpQ # << >> /\ ~kcpQ[1].old /\ call' = TRUE
          /\ kcpQ' = Requeue(kcpQ, Tick)
          /\ UNCHANGED <<wire, open, pingQ, at, watch, todo, gone>>
          /\ \/ UNCHANGED links
             \/ links' = [links EXCEPT ![h] = [links[h] EXCEPT !.pings = 0]]
      BY <1>2 DEF kcp_tick, Due
    <2>2. h \in DOMAIN links
      <3>1. 1 \in 1..Len(kcpQ)
        BY <1>0, <2>1 DEF Queue
      <3> QED BY <1>0, <2>1, <3>1, IsOwner
    <2>3. LinkOK(h) /\ links[h] \in LinkRecord
      BY <2>2 DEF TickInv, Links, LinkOK
    <2>4. Queue(kcpQ', FirstTick, Slack) /\ Owners(kcpQ') = Owners(kcpQ)
      BY <1>0, <2>1, Requeued
    <2>5. /\ DOMAIN links' = DOMAIN links
          /\ \A x \in DOMAIN links : x # h => links'[x] = links[x]
          /\ links'[h] = links[h] \/ links'[h] = [links[h] EXCEPT !.pings = 0]
      BY <2>1, <2>2
    <2>6. /\ links'[h] \in LinkRecord /\ links'[h].kind = links[h].kind
          /\ links'[h].state = links[h].state /\ links'[h].slow = links[h].slow
          /\ links'[h].pings = links[h].pings \/ links'[h].pings = 0
      BY <2>3, <2>5, Links1 DEF LinkRecord
    <2>7. open' \subseteq Handles /\ DOMAIN links \ gone' \subseteq open' /\ 0 <= PingOut
      BY <2>1 DEF TickInv, Links
    <2>8. /\ Queue(pingQ', Ping, 0) /\ Owners(pingQ') \subseteq DOMAIN links
          /\ Owners(pingQ') = Owners(pingQ) /\ gone' = gone
      BY <1>0, <2>1
    <2> HIDE DEF h
    <2>9. /\ links'[h].state = "Connecting" =>
                links'[h].pings = 0 /\ (h \in Owners(pingQ') \/ links'[h].slow)
          /\ links'[h].state = "Connected" =>
                links'[h].pings <= PingOut /\ (h \in Owners(pingQ') \/ links'[h].slow)
          /\ links'[h].state = "Disconnected" => h \in gone'
      BY <2>3, <2>6, <2>7, <2>8 DEF LinkOK, Asked
    <2>10. Queues' /\ Links'
      BY <2>4, <2>5, <2>6, <2>7, <2>8, <2>9, LinkStep
    <2>11. Wires' /\ Control' /\ Watching'
      BY <2>1, <2>5 DEF TickInv, Wires, Control, Watching
    <2>12. Times'
      BY <2>1 DEF TickInv, Times
    <2> QED BY <2>10, <2>11, <2>12 DEF TickInv
  <1>3. ASSUME tick_deleted PROVE TickInv'
    <2>1. /\ UNCHANGED <<links, wire, open, queues, watch, todo, gone>>
          /\ at \in {"ping", "kcp"} /\ at' = "deleted" /\ call' = FALSE
          /\ \/ pingQ # << >> /\ pingQ[1].old
             \/ kcpQ # << >> /\ kcpQ[1].old
      BY <1>3 DEF tick_deleted, Due
    <2>2. Stale'
      <3>1. /\ pingQ # << >> => 1 \in DOMAIN pingQ
            /\ kcpQ # << >> => 1 \in DOMAIN kcpQ
        BY <1>0 DEF Queue
      <3>2. Stale
        BY <2>1, <3>1 DEF Stale
      <3> QED BY <2>1, <3>2, SameStale
    <2>3. Queues' /\ Links'
      BY <2>1, SameLinks DEF TickInv, Links
    <2>4. Wires' /\ Control' /\ Watching' /\ Times'
      BY <2>1, <2>2 DEF TickInv, Wires, Control, Watching, Times
    <2> QED BY <2>3, <2>4 DEF TickInv
  <1>4. ASSUME pings_done PROVE TickInv'
    <2>1. /\ UNCHANGED <<links, wire, open, queues, watch, todo, gone>> /\ ~Due(pingQ)
          /\ at = "ping" /\ at' = "kcp" /\ call' = FALSE
      BY <1>4 DEF pings_done
    <2>2. Queues' /\ Links'
      BY <2>1, SameLinks DEF TickInv, Links
    <2>3. Above(pingQ, 0)
      <3>1. 0 + 0 = 0
        OBVIOUS
      <3> QED BY <1>0, <2>1, <3>1, NotDue
    <2>4. Above(pingQ', 0)
      BY <2>1, <2>3 DEF queues
    <2>5. Wires' /\ Control' /\ Watching' /\ Times'
      BY <2>1, <2>4 DEF TickInv, Wires, Control, Watching, Times
    <2> QED BY <2>2, <2>5 DEF TickInv
  <1> QED BY <1>1, <1>2, <1>3, <1>4 DEF on_tick

\* What is looked for tells a link that is connecting.
LEMMA EventOf ==
    /\ \A s \in State \ {"Disconnected"} : Event(s) = "Connect" => s = "Connecting"
    /\ \A s \in State \ {"Disconnected"} : Event(s) \in {"Accept", "Connect", "Read", "Error"}
  <1>1. Event("Listen") = "Accept" /\ Event("Connecting") = "Connect"
        /\ Event("Connected") = "Read" /\ Event("Disconnecting") = "Error"
    BY DEF Event
  <1> QED BY <1>1 DEF State

\* The steps of update that start and end its parts, those of the peers, and time.
LEMMA UpdateTick ==
    ASSUME TickInv, \/ update \/ flags \/ no_links \/ select \/ evented \/ released \/ pass
                    \/ \E h \in Handles : peer(h)
    PROVE  TickInv'
  <1> USE Limits
  <1>0. /\ Queue(pingQ, Ping, 0) /\ Owners(pingQ) \subseteq DOMAIN links
        /\ Queue(kcpQ, FirstTick, Slack) /\ Owners(kcpQ) \subseteq DOMAIN links
    BY DEF TickInv, Queues
  <1>1. ASSUME update \/ no_links \/ evented \/ released PROVE TickInv'
    <2>1. /\ UNCHANGED <<links, wire, open, queues, todo, gone>> /\ call' \in BOOLEAN
          /\ at' \in {"app", "ping"} /\ (at = "app" \/ gone = {} \/ at = "event")
      BY <1>1 DEF update, no_links, evented, released
    <2>2. Queues' /\ Links'
      BY <2>1, SameLinks DEF TickInv, Links
    <2>3. Wires' /\ Control' /\ Watching' /\ Times'
      BY <2>1 DEF TickInv, Wires, Control, Watching, Times
    <2> QED BY <2>2, <2>3 DEF TickInv
  <1>2. ASSUME flags PROVE TickInv'
    <2>1. /\ UNCHANGED <<links, wire, open, queues, gone>> /\ ~Due(kcpQ)
          /\ at = "kcp" /\ at' = "close" /\ call' = FALSE
          /\ watch' = [h \in DOMAIN links |-> Event(links[h].state)]
          /\ todo' = {h \in DOMAIN links : watch'[h] = "Error"}
      BY <1>2 DEF flags
    <2>2. Queues' /\ Links'
      BY <2>1, SameLinks DEF TickInv, Links
    <2>3. gone = {} /\ Above(pingQ, 0)
      BY <2>1 DEF TickInv, Control, Times
    <2>4. Above(kcpQ, -Slack)
      <3>1. -Slack + Slack = 0
        OBVIOUS
      <3> QED BY <1>0, <2>1, <3>1, NotDue
    <2>5. Times'
      BY <2>1, <2>3, <2>4 DEF Times, queues
    <2>6. ASSUME NEW h \in DOMAIN links, watch'[h] = "Connect" PROVE links'[h].pings = 0 /\ Asked(h)'
      <3>1. LinkOK(h) /\ links[h].state \in State \ {"Disconnected"}
        BY <2>3, Links1 DEF TickInv, Links, LinkOK
      <3>2. links[h].state = "Connecting"
        BY <2>1, <2>6, <3>1, EventOf
      <3>3. links[h].pings = 0 /\ Asked(h)
        BY <3>1, <3>2 DEF LinkOK
      <3> QED BY <2>1, <3>3 DEF Asked, queues
    <2>7. Watching'
      BY <2>1, <2>3, <2>6 DEF Watching
    <2>8. Wires' /\ Control'
      BY <2>1, <2>3 DEF TickInv, Links, Wires, Control
    <2> QED BY <2>2, <2>5, <2>7, <2>8 DEF TickInv
  <1>3. ASSUME select PROVE TickInv'
    <2>1. /\ UNCHANGED <<links, wire, open, queues, watch, gone>>
          /\ at = "close" /\ at' = "event" /\ call' = FALSE /\ gone = {}
          /\ todo' = {h \in DOMAIN links : Ready(h)}
      BY <1>3 DEF select
    <2>2. Queues' /\ Links'
      BY <2>1, SameLinks DEF TickInv, Links
    <2>3. Times' /\ Wires' /\ Control'
      BY <2>1 DEF TickInv, Times, Links, Wires, Control, queues
    <2>4. \A h \in todo' : h \in DOMAIN watch /\ watch[h] # "Error"
      BY <2>1 DEF Ready
    <2>5. \A h \in DOMAIN watch : watch[h] # "Error" => h \in DOMAIN links' \ gone'
      BY <2>1 DEF TickInv, Watching
    <2>6. \A h \in DOMAIN watch : watch[h] = "Connect" => links'[h].pings = 0 /\ Asked(h)'
      BY <2>1 DEF TickInv, Watching, Asked, queues
    <2>7. Watching'
      BY <2>1, <2>4, <2>5, <2>6 DEF Watching
    <2> QED BY <2>2, <2>3, <2>7 DEF TickInv
  <1>4. ASSUME pass PROVE TickInv'
    <2>1. /\ UNCHANGED <<links, wire, open, at, watch, todo, gone, call>> /\ at = "app"
          /\ pingQ # << >> => pingQ[1].due > -MaxLate
          /\ kcpQ # << >> => kcpQ[1].due > -MaxLate
          /\ pingQ' = Later(pingQ) /\ kcpQ' = Later(kcpQ)
      BY <1>4 DEF pass
    <2>2. /\ Queue(pingQ', Ping, 0) /\ Owners(pingQ') = Owners(pingQ)
          /\ Queue(kcpQ', FirstTick, Slack) /\ Owners(kcpQ') = Owners(kcpQ)
      BY <1>0, <2>1, Aged
    <2>3. Queues' /\ Links'
      BY <1>0, <2>1, <2>2 DEF TickInv, Queues, Links, LinkOK, Asked
    <2>4. Wires' /\ Control' /\ Watching' /\ Times'
      BY <2>1 DEF TickInv, Wires, Control, Watching, Times
    <2> QED BY <2>3, <2>4 DEF TickInv
  <1>5. ASSUME NEW h \in Handles, peer(h) PROVE TickInv'
    <2>1. PICK w \in PeerSteps(links[h], wire[h]) :
             /\ wire' = [wire EXCEPT ![h] = w] /\ at = "app"
             /\ UNCHANGED <<links, open, queues, at, watch, todo, gone, call>>
      BY <1>5 DEF peer
    <2>2. w \in Wire
      BY DEF PeerSteps, Wire
    <2>3. Queues' /\ Links'
      BY <2>1, SameLinks DEF TickInv, Links
    <2>4. Wires'
      BY <2>1, <2>2 DEF TickInv, Wires
    <2>5. Control' /\ Watching' /\ Times'
      BY <2>1 DEF TickInv, Control, Watching, Times
    <2> QED BY <2>3, <2>4, <2>5 DEF TickInv
  <1> QED BY <1>1, <1>2, <1>3, <1>4, <1>5

\* What on_event and remove_link may do.
LEMMA EventTick == ASSUME TickInv, on_event PROVE TickInv'
  <1> USE Limits
  <1>0. /\ Queue(pingQ, Ping, 0) /\ Owners(pingQ) \subseteq DOMAIN links
        /\ Queue(kcpQ, FirstTick, Slack) /\ Owners(kcpQ) \subseteq DOMAIN links
    BY DEF TickInv, Queues
  \* A link that is watched for something but errors is there, when its turn comes.
  <1>a. ASSUME NEW h, NEW event \in {"Accept", "Connect", "Read"}, IsNext(h, event)
        PROVE  /\ at = "event" /\ gone = {} /\ h \in todo /\ h \in DOMAIN links /\ LinkOK(h)
               /\ event = "Connect" => links[h].pings = 0 /\ Asked(h)
    <2>1. at = "event" /\ h \in todo /\ watch[h] = event
      BY <1>a DEF IsNext
    <2>2. gone = {} /\ h \in DOMAIN watch
      BY <2>1 DEF TickInv, Control, Watching
    <2>3. h \in DOMAIN links
      BY <2>1, <2>2 DEF TickInv, Watching
    <2>4. event = "Connect" => links[h].pings = 0 /\ Asked(h)
      BY <2>1, <2>2 DEF TickInv, Watching
    <2> QED BY <2>1, <2>2, <2>3, <2>4 DEF TickInv, Links
  <1>1. ASSUME NEW h \in Handles, NEW new \in Handles, accept(h, new) PROVE TickInv'
    <2>1. PICK w \in {"quiet", "data"} :
             /\ IsNext(h, "Accept") /\ IsFree(new) /\ UNCHANGED <<at, watch, gone>>
             /\ add_link(new, links[h].kind, "Connected", "quiet", [wire EXCEPT ![h] = w])
             /\ todo' = todo \ {h} /\ call' = TRUE
      BY <1>1 DEF accept
    <2>2. at = "event" /\ gone = {} /\ links[h].kind \in Kind
      BY <1>a, <2>1, Links1 DEF LinkOK
    <2> DEFINE wires == [wire EXCEPT ![h] = w]
    <2>3. DOMAIN wires = DOMAIN links /\ \A x \in DOMAIN links : wires[x] \in Wire
      BY DEF TickInv, Wires, Wire
    <2>4. "quiet" \in Wire /\ "Connected" \in {"Listen", "Connecting", "Connected"}
      BY DEF Wire
    <2>5. add_link(new, links[h].kind, "Connected", "quiet", wires)
      BY <2>1
    <2> HIDE DEF wires
    <2> QED BY <2>1, <2>2, <2>3, <2>4, <2>5, AddTick
  <1>2. ASSUME NEW h \in Handles, accept_fails(h) PROVE TickInv'
    <2>1. /\ IsNext(h, "Accept") /\ UNCHANGED <<links, open, queues, at, watch, gone>>
          /\ todo' = todo \ {h} /\ call' = FALSE
          /\ \E w \in {wire[h], "quiet"} : wire' = [wire EXCEPT ![h] = w]
      BY <1>2 DEF accept_fails
    <2>2. at = "event" /\ gone = {} /\ h \in DOMAIN links
      BY <1>a, <2>1
    <2>3. Queues' /\ Links'
      BY <2>1, SameLinks DEF TickInv, Links
    <2>4. Wires'
      BY <2>1, <2>2 DEF TickInv, Wires, Wire
    <2>5. Watching'
      BY <2>1, StillWatching DEF Asked, queues
    <2> QED BY <2>1, <2>2, <2>3, <2>4, <2>5, SameTimes DEF TickInv, Control
  <1>3. ASSUME NEW h \in Handles, connect(h) PROVE TickInv'
    <2> DEFINE l == [links[h] EXCEPT !.state = "Connected"]
    <2>1. /\ IsNext(h, "Connect") /\ links' = [links EXCEPT ![h] = l]
          /\ todo' = todo \ {h} /\ call' = TRUE
          /\ UNCHANGED <<wire, open, queues, at, watch, gone>>
      BY <1>3 DEF connect
    <2>2. /\ at = "event" /\ gone = {} /\ h \in DOMAIN links /\ LinkOK(h)
          /\ links[h].pings = 0 /\ Asked(h)
      BY <1>a, <2>1
    <2>3. /\ l \in LinkRecord /\ l.kind = links[h].kind /\ l.slow = links[h].slow
          /\ l.state = "Connected" /\ l.pings = 0
      BY <2>2, Links1 DEF LinkOK, LinkRecord, State
    <2> HIDE DEF l
    <2>4. h \in Owners(pingQ) \/ l.slow
      BY <2>2, <2>3 DEF Asked
    <2>5. open' \subseteq Handles /\ DOMAIN links \ gone' \subseteq open' /\ 0 <= PingOut
      BY <2>1 DEF TickInv, Links
    <2>6. Queues' /\ Links' /\ DOMAIN links' = DOMAIN links
      BY <2>1, <2>3, <2>4, <2>5, OneLink
    <2>7. Watching'
      BY <2>1, <2>2, <2>6, StillWatching DEF Asked, queues
    <2> QED BY <2>1, <2>2, <2>6, <2>7, SameTimes DEF TickInv, Wires, Control
  <1>4. ASSUME NEW h \in Handles, read_data(h) PROVE TickInv'
    <2> DEFINE l == Read(h)
    <2>1. /\ IsNext(h, "Read") /\ links' = [links EXCEPT ![h] = l]
          /\ todo' = todo \ {h} /\ call' \in BOOLEAN
          /\ \E w \in {wire[h], "ended", "quiet"} : wire' = [wire EXCEPT ![h] = w]
          /\ UNCHANGED <<open, queues, at, watch, gone>>
      BY <1>4 DEF read_data
    <2>2. at = "event" /\ gone = {} /\ h \in DOMAIN links /\ LinkOK(h)
      BY <1>a, <2>1
    <2>3. /\ l \in LinkRecord /\ l.kind = links[h].kind /\ l.slow = links[h].slow
          /\ l.state = links[h].state \/ l.state = "Disconnecting"
          /\ l.pings = links[h].pings \/ l.pings = 0
      <3>1. l \in {links[h], [links[h] EXCEPT !.pings = 0],
                   [links[h] EXCEPT !.state = "Disconnecting"]}
        BY DEF Read
      <3> HIDE DEF l
      <3>2. links[h] \in LinkRecord
        BY <2>2 DEF LinkOK
      <3> QED BY <3>1, <3>2, Links1 DEF LinkRecord, State
    <2> HIDE DEF l
    <2>5. open' \subseteq Handles /\ DOMAIN links \ gone' \subseteq open' /\ 0 <= PingOut
      BY <2>1 DEF TickInv, Links
    <2>4. /\ l.state = "Connecting" => l.pings = 0 /\ (h \in Owners(pingQ) \/ l.slow)
          /\ l.state = "Connected" => l.pings <= PingOut /\ (h \in Owners(pingQ) \/ l.slow)
          /\ l.state = "Disconnected" => h \in gone'
      BY <2>1, <2>2, <2>3, <2>5 DEF LinkOK, Asked
    <2>6. Queues' /\ Links' /\ DOMAIN links' = DOMAIN links
      BY <2>1, <2>3, <2>4, <2>5, OneLink
    <2>7. Watching'
      BY <2>1, <2>2, <2>6, StillWatching DEF Asked, queues
    <2>8. Wires'
      BY <2>1, <2>2, <2>6 DEF TickInv, Wires, Wire
    <2> QED BY <2>1, <2>2, <2>6, <2>7, <2>8, SameTimes DEF TickInv, Control
  <1>5. ASSUME NEW h \in Handles, remove_link(h) PROVE TickInv'
    <2> DEFINE l == [links[h] EXCEPT !.state = "Disconnected"]
    <2>1. /\ at \in {"close", "release"} /\ gone = {} /\ h \in todo
          /\ links' = [links EXCEPT ![h] = l]
          /\ open' \in {open, open \ {h}} /\ gone' = {h} /\ call' \in BOOLEAN
          /\ UNCHANGED <<wire, queues, at, watch, todo>>
      BY <1>5 DEF remove_link
    <2>2. h \in DOMAIN links =>
             /\ l \in LinkRecord /\ l.kind = links[h].kind /\ l.slow = links[h].slow
             /\ l.state = "Disconnected" /\ l.pings = links[h].pings
      BY Links1 DEF TickInv, Links, LinkOK, LinkRecord, State
    <2> HIDE DEF l
    <2>3. open' \subseteq Handles /\ DOMAIN links \ gone' \subseteq open'
      BY <2>1 DEF TickInv, Links
    <2>4. Queues' /\ Links' /\ DOMAIN links' = DOMAIN links
      BY <2>1, <2>2, <2>3, OneLink
    <2>5. Watching'
      <3>1. \A x \in DOMAIN watch : watch[x] = "Connect" /\ at = "close" => x # h
        BY <2>1 DEF TickInv, Watching
      <3> QED BY <2>1, <2>4, <3>1, StillWatching DEF Asked, queues
    <2>6. Control'
      BY <2>1 DEF TickInv, Control
    <2> QED BY <2>1, <2>4, <2>5, <2>6, SameTimes DEF TickInv, Wires
  <1>6. ASSUME NEW h \in Handles, removed(h) PROVE TickInv'
    <2>1. /\ h \in gone /\ links' = Drop(links, h) /\ wire' = Drop(wire, h)
          /\ pingQ' = Unqueue(pingQ, h) /\ kcpQ' = Unqueue(kcpQ, h)
          /\ todo' = todo \ {h} /\ gone' = {} /\ call' = FALSE
          /\ at' = at \/ (at = "release" /\ at' = "crashed")
          /\ UNCHANGED <<open, watch>>
      BY <1>6 DEF removed
    <2>2. gone = {h} /\ at \in {"close", "release"}
      BY <2>1 DEF TickInv, Control
    <2>3. /\ DOMAIN links' = DOMAIN links \ {h} /\ DOMAIN wire' = DOMAIN wire \ {h}
          /\ \A x \in DOMAIN links \ {h} : links'[x] = links[x]
          /\ \A x \in DOMAIN wire \ {h} : wire'[x] = wire[x]
      BY <2>1 DEF Drop
    <2>4. /\ Queue(pingQ', Ping, 0) /\ Owners(pingQ') = Owners(pingQ) \ {h}
          /\ \A low \in Int : Above(pingQ, low) => Above(pingQ', low)
          /\ Queue(kcpQ', FirstTick, Slack) /\ Owners(kcpQ') = Owners(kcpQ) \ {h}
          /\ \A low \in Int : Above(kcpQ, low) => Above(kcpQ', low)
      BY <1>0, <2>1, Removed
    <2>5. Queues'
      BY <1>0, <2>3, <2>4 DEF Queues
    <2>6. ASSUME NEW x \in DOMAIN links' PROVE LinkOK(x)'
      <3>1. x \in DOMAIN links \ {h} /\ LinkOK(x) /\ links'[x] = links[x]
        BY <2>3 DEF TickInv, Links
      <3> QED BY <2>2, <2>4, <3>1 DEF LinkOK, Asked
    <2>7. Links'
      BY <2>1, <2>2, <2>3, <2>6 DEF TickInv, Links
    <2>8. Wires' /\ Control'
      BY <2>1, <2>2, <2>3 DEF TickInv, Wires, Control
    <2>9. Times'
      BY <2>1, <2>2, <2>4 DEF TickInv, Times
    <2>10. Watching'
      <3> SUFFICES ASSUME at = "close" PROVE Watching'
        BY <2>1, <2>2 DEF Watching
      <3>1. \A x \in DOMAIN watch :
               /\ watch[x] # "Error" => x \in DOMAIN links \ {h}
               /\ watch[x] = "Connect" => links[x].pings = 0 /\ Asked(x)
        BY <2>2 DEF TickInv, Watching
      <3>2. \A x \in DOMAIN watch : watch[x] = "Connect" => links'[x].pings = 0 /\ Asked(x)'
        BY <2>3, <2>4, <3>1 DEF Asked
      <3> QED BY <2>1, <2>2, <2>3, <3>1, <3>2 DEF TickInv, Watching
    <2> QED BY <2>5, <2>7, <2>8, <2>9, <2>10 DEF TickInv
  <1> QED BY <1>1, <1>2, <1>3, <1>4, <1>5, <1>6 DEF on_event

LEMMA TickStep == TickInv /\ [Next]_vars => TickInv'
  <1> SUFFICES ASSUME TickInv, [Next]_vars PROVE TickInv'
    OBVIOUS
  <1>1. CASE UNCHANGED vars
    <2>1. UNCHANGED <<links, wire, open, queues, at, watch, todo, gone, call>>
      BY <1>1 DEF vars
    <2>2. Queues' /\ Links'
      BY <2>1, SameLinks DEF TickInv, Links
    <2>3. Watching'
      BY <2>1, StillWatching DEF Asked, queues
    <2> QED BY <2>1, <2>2, <2>3, SameTimes, SameStale DEF TickInv, Wires, Control
  <1>2. CASE Next
    BY <1>2, ProgramTick, TickTick, UpdateTick, EventTick DEF Next, loop
  <1> QED BY <1>1, <1>2

LEMMA TickInvMeans == TickInv => TicksOfLinks /\ OnTick
  <1> SUFFICES ASSUME TickInv PROVE TicksOfLinks /\ OnTick
    OBVIOUS
  <1> USE Limits
  <1>1. /\ pingQ \in Seq(TickNode) /\ kcpQ \in Seq(TickNode)
        /\ Within(pingQ, -(MaxLate + 0), Ping) /\ Single(pingQ)
        /\ Owners(pingQ) \subseteq DOMAIN links
        /\ Within(kcpQ, -(MaxLate + Slack), FirstTick) /\ Single(kcpQ)
        /\ Owners(kcpQ) \subseteq DOMAIN links
    BY DEF TickInv, Queues, Queue
  <1>2. Slack <= FirstTick
    BY DEF Slack
  <1>3. NodeOK(pingQ, Ping)
    BY <1>1, Typed DEF NodeOK, Within
  <1>4. NodeOK(kcpQ, FirstTick)
    BY <1>1, <1>2, Typed DEF NodeOK, Within
  <1>5. ASSUME NEW h \in DOMAIN links
        PROVE  /\ links[h].kind \in Kind /\ links[h].state \in State
               /\ links[h].pings \in 0..(PingOut + 1) /\ links[h].slow \in BOOLEAN
               /\ wire[h] \in {"pending", "quiet", "data", "eof", "reset", "ended"}
               /\ links[h].kind = "kcp" => Holds(kcpQ, h)
               /\ links[h].state = "Connected" => Holds(pingQ, h) \/ links[h].slow
    <2>1. LinkOK(h) /\ wire[h] \in Wire
      BY DEF TickInv, Links, Wires
    <2>2. (Holds(pingQ, h) <=> h \in Owners(pingQ)) /\ (Holds(kcpQ, h) <=> h \in Owners(kcpQ))
      BY <1>1, HoldsOwners
    <2> QED BY <2>1, <2>2, Links1 DEF LinkOK, Asked, Wire
  <1>6. TypeOK
    BY <1>3, <1>4, <1>5 DEF TypeOK, TickInv, Links, Wires, Control
  <1>7. ASSUME NEW q \in {pingQ, kcpQ}, NEW i \in DOMAIN q, NEW j \in DOMAIN q
        PROVE  /\ q[i].old \/ q[i].h \in DOMAIN links
               /\ q[i].h = q[j].h /\ i # j => q[i].old \/ q[j].old
    <2>1. q \in Seq(TickNode) /\ Owners(q) \subseteq DOMAIN links /\ Single(q)
      BY <1>1
    <2>2. i \in 1..Len(q) /\ j \in 1..Len(q)
      BY <2>1
    <2>3. q[i].old \/ q[i].h \in Owners(q)
      BY <2>2, IsOwner
    <2> QED BY <2>1, <2>2, <2>3 DEF Single
  <1>8. TicksOfLinks
    BY <1>5, <1>6, <1>7 DEF TicksOfLinks, TickInv, Control
  <1>9. OnTick
    <2> SUFFICES ASSUME at \in {"close", "event"}
                 PROVE  /\ \A i \in DOMAIN pingQ : pingQ[i].due > 0
                        /\ \A i \in DOMAIN kcpQ : kcpQ[i].due > Tick - FirstTick
      BY DEF OnTick
    <2>1. Above(pingQ, 0) /\ Above(kcpQ, -Slack) /\ -Slack = Tick - FirstTick
      BY DEF TickInv, Times, Slack
    <2>2. DOMAIN pingQ = 1..Len(pingQ) /\ DOMAIN kcpQ = 1..Len(kcpQ)
      BY <1>1
    <2> QED BY <2>1, <2>2 DEF Above
  <1> QED BY <1>8, <1>9

\* The tick nodes in a queue belong to one link each, every connected link is
\* watched by pings unless it was slow to connect, and a deleted link is ticked
\* only when a handle was given out again in the on_disconnect of its link
\* (TalkLoop.cpp:244, 270).
THEOREM LoopTicksOfLinks == Spec => []TicksOfLinks
  BY TickInit, TickStep, TickInvMeans, PTL DEF Spec

\* When on_tick is done no ping is due, and no kcp tick has been due for longer
\* than the first tick of a kcp link differs from the others (TalkLoop.cpp:230).
THEOREM LoopOnTick == Spec => []OnTick
  BY TickInit, TickStep, TickInvMeans, PTL DEF Spec
=============================================================================
