------------------------------ MODULE TalkLoop ------------------------------
(***************************************************************************)
(* The event loop of the sockets (src/src/TinySocket/TalkLoop.cpp) and what *)
(* it calls of its links: their states, their ticks, accept, read_data and *)
(* release (LinkBase.cpp, LinkTcp.cpp, LinkUdp.cpp, LinkKcp.cpp).  A        *)
(* SelfDQueue of tick nodes is a sequence.                                 *)
(*                                                                         *)
(* One thread runs everything.  update is cut where a link's callback may  *)
(* run, since the program may call the loop and its links from there: the  *)
(* variable call says so.  What the peers do and the time that goes by      *)
(* while select waits are put before update.  Listeners, sockets and peers  *)
(* are those of Linux: the lowest free handle is given out, and shutdown    *)
(* fails on a socket that is not connected (any more).                     *)
(***************************************************************************)
EXTENDS Integers, SequencesExt

CONSTANTS Handles,    \* the SOCKETs there are, numbers
          Kinds,      \* the links the program uses, among "tcp", "udp", "kcp"
          Ping,       \* LP_PINGINTERVAL * 1000
          PingOut,    \* LP_PINGOUT
          Tick,       \* KCP_UPDATETICK, after which a kcp link is ticked again
          FirstTick,  \* KCP_UPDATETICK * 1000, after which it is ticked first
          MaxLate     \* bound on how late update is called

ASSUME LoopAssumption ==
    /\ Handles \subseteq Nat
    /\ Kinds \subseteq {"tcp", "udp", "kcp"}
    /\ Ping \in Nat \ {0} /\ PingOut \in Nat /\ MaxLate \in Nat
    /\ Tick \in Nat \ {0} /\ FirstTick \in Nat /\ Tick <= FirstTick

VARIABLES
    links,    \* m_links: handle to link
    wire,     \* what the other end of each link's socket has done
    open,     \* the handles the system has given out
    pingQ,    \* m_tickNodeQueue[QueueTypePing]
    kcpQ,     \* m_tickNodeQueue[QueueTypeKcp]
    at,       \* where update is, "app" when it is not running
    watch,    \* m_activeEvent as update sets it before select
    todo,     \* m_processLink, by handle: it is filled in their order
    gone,     \* the link whose on_disconnect runs
    call      \* a callback runs, or the program outside of update

queues == <<pingQ, kcpQ>>
vars == <<links, wire, open, queues, at, watch, todo, gone, call>>

\* LinkBase::on_ping_tick.
on_ping_tick(l) ==
    [l EXCEPT !.pings = @ + 1,
              !.state = IF l.pings + 1 > PingOut THEN "Disconnecting" ELSE @]

\* A LinkTickNode.  old is TRUE for that of a link whose entry in m_links was
\* overwritten: nobody takes it from the queue when the link is deleted.
Node(h, due) == [h |-> h, due |-> due, old |-> FALSE]

Put(f, h, v) == [x \in DOMAIN f \cup {h} |-> IF x = h THEN v ELSE f[x]]
Drop(f, h) == [x \in DOMAIN f \ {h} |-> f[x]]
Holds(q, h) == \E i \in DOMAIN q : q[i].h = h /\ ~q[i].old
Orphan(q, h) == [i \in DOMAIN q |-> [q[i] EXCEPT !.old = @ \/ q[i].h = h]]
Stale == \E q \in {pingQ, kcpQ} : \E i \in DOMAIN q : q[i].old

Init ==
    /\ links = << >> /\ wire = << >> /\ open = {}
    /\ pingQ = << >> /\ kcpQ = << >>
    /\ at = "app" /\ watch = << >> /\ todo = {} /\ gone = {} /\ call = TRUE

-----------------------------------------------------------------------------
\* What the program may call, outside of update and from callbacks.

add_link(h, kind, state, w, wires) ==
    /\ links' = Put(links, h, [kind |-> kind, state |-> state, pings |-> 0, slow |-> FALSE])
    /\ wire' = Put(wires, h, w)
    /\ open' = open \cup {h}
    /\ pingQ' = Orphan(pingQ, h) \o IF state = "Listen" THEN << >> ELSE <<Node(h, Ping)>>
    /\ kcpQ' = Orphan(kcpQ, h) \o IF kind = "kcp" THEN <<Node(h, FirstTick)>> ELSE << >>

\* The handle socket or accept returns.  One entry is overwritten at a time.
IsFree(h) == h \in Handles \ open /\ h = Min(Handles \ open) /\ (h \in gone => ~Stale)

add_listen(h, kind) ==
    /\ call /\ IsFree(h)
    /\ add_link(h, kind, "Listen", "quiet", wire)
    /\ UNCHANGED <<at, watch, todo, gone, call>>

\* connect of TCP goes on in the background; that of UDP has sent its hand.
add_connect(h, kind) ==
    /\ call /\ IsFree(h)
    /\ IF kind = "tcp" THEN add_link(h, kind, "Connecting", "pending", wire)
                       ELSE add_link(h, kind, "Connected", "quiet", wire)
    /\ UNCHANGED <<at, watch, todo, gone, call>>

\* The hand cannot be sent: release fails to shut the socket down and leaves it open.
connect_fails(h, kind) ==
    /\ call /\ IsFree(h) /\ kind # "tcp"
    /\ open' = open \cup {h}
    /\ UNCHANGED <<links, wire, queues, at, watch, todo, gone, call>>

disconnect(h) ==
    /\ call /\ h \in DOMAIN links
    /\ links' = [links EXCEPT ![h].state = "Disconnecting"]
    /\ UNCHANGED <<wire, open, queues, at, watch, todo, gone, call>>

\* write_data that the socket takes, or on_ping: nothing else counts as a sign
\* of life but reading.
write_data(h) ==
    /\ call /\ h \in DOMAIN links \ gone
    /\ links' = [links EXCEPT ![h].pings = 0]
    /\ UNCHANGED <<wire, open, queues, at, watch, todo, gone, call>>

-----------------------------------------------------------------------------
\* The other ends, and time.

PeerSteps(l, w) ==
    CASE l.state = "Connecting" /\ w = "pending" -> {"quiet", "reset"}
      [] l.state = "Listen" /\ w = "quiet" -> {"data"}
      [] l.state \in {"Connected", "Disconnecting"} /\ w = "quiet" ->
            {"data", "eof"} \cup IF l.kind = "tcp" THEN {"reset"} ELSE {}
      [] OTHER -> {}

peer(h) ==
    /\ at = "app" /\ h \in DOMAIN links
    /\ \E w \in PeerSteps(links[h], wire[h]) : wire' = [wire EXCEPT ![h] = w]
    /\ UNCHANGED <<links, open, queues, at, watch, todo, gone, call>>

Later(q) == [i \in DOMAIN q |-> [q[i] EXCEPT !.due = @ - 1]]

pass ==
    /\ at = "app"
    /\ \A q \in {pingQ, kcpQ} : q # << >> => q[1].due > -MaxLate
    /\ pingQ' = Later(pingQ) /\ kcpQ' = Later(kcpQ)
    /\ UNCHANGED <<links, wire, open, at, watch, todo, gone, call>>

-----------------------------------------------------------------------------
\* update.

update ==
    /\ at = "app" /\ links # << >>
    /\ at' = "ping" /\ call' = FALSE
    /\ UNCHANGED <<links, wire, open, queues, watch, todo, gone>>

Due(q) == q # << >> /\ q[1].due <= 0

\* Fault for OnTick: the node is not moved behind the others.
BackInFront(q, due) == <<Node(q[1].h, due)>> \o Tail(q)

Requeue(q, due) == Append(Tail(q), Node(q[1].h, due))

\* on_tick's loop over the ping queue.  A link that is not connected yet when it
\* is checked leaves the queue for good: slow remembers it.
ping_tick ==
    /\ at = "ping" /\ Due(pingQ) /\ ~pingQ[1].old
    /\ LET h == pingQ[1].h IN
       IF links[h].state = "Connected"
       THEN /\ links' = [links EXCEPT ![h] = on_ping_tick(@)]
            /\ pingQ' = Requeue(pingQ, Ping)
       ELSE /\ links' = [links EXCEPT ![h].slow = TRUE]
            /\ pingQ' = Tail(pingQ)
    /\ call' = TRUE
    /\ UNCHANGED <<wire, open, kcpQ, at, watch, todo, gone>>

\* on_tick's loop over the kcp queue.  ikcp_update may have something to send
\* (again), which counts as a sign of life, and may have something to read.
kcp_tick ==
    /\ at = "kcp" /\ Due(kcpQ) /\ ~kcpQ[1].old
    /\ LET h == kcpQ[1].h IN
       \/ UNCHANGED links
       \/ links[h].state = "Connected" /\ links' = [links EXCEPT ![h].pings = 0]
    /\ kcpQ' = Requeue(kcpQ, Tick)
    /\ call' = TRUE
    /\ UNCHANGED <<wire, open, pingQ, at, watch, todo, gone>>

\* The node of a link that has been deleted is checked.
tick_deleted ==
    /\ \/ at = "ping" /\ Due(pingQ) /\ pingQ[1].old
       \/ at = "kcp" /\ Due(kcpQ) /\ kcpQ[1].old
    /\ at' = "deleted" /\ call' = FALSE
    /\ UNCHANGED <<links, wire, open, queues, watch, todo, gone>>

pings_done ==
    /\ at = "ping" /\ ~Due(pingQ)
    /\ at' = "kcp" /\ call' = FALSE
    /\ UNCHANGED <<links, wire, open, queues, watch, todo, gone>>

\* The event looked for, by the link's state.  LAE_Write of a connected link and
\* LAE_Error of all but a disconnecting one are never looked at (TalkLoop.cpp:152-172).
Event(state) == CASE state = "Listen" -> "Accept" [] state = "Connecting" -> "Connect"
                  [] state = "Connected" -> "Read" [] state = "Disconnecting" -> "Error"

\* on_tick is done: what to look for, and the disconnecting links first.
flags ==
    /\ at = "kcp" /\ ~Due(kcpQ)
    /\ watch' = [h \in DOMAIN links |-> Event(links[h].state)]
    /\ todo' = {h \in DOMAIN links : watch'[h] = "Error"}
    /\ at' = "close" /\ call' = FALSE
    /\ UNCHANGED <<links, wire, open, queues, gone>>

\* A socket still connecting is ready to write when it is connected or refused.
Ready(h) == /\ h \in DOMAIN watch /\ watch[h] # "Error"
            /\ wire[h] # IF watch[h] = "Connect" THEN "pending" ELSE "quiet"

no_links ==
    /\ at = "close" /\ todo = {} /\ gone = {} /\ links = << >>
    /\ at' = "app" /\ call' = TRUE /\ watch' = << >>
    /\ UNCHANGED <<links, wire, open, queues, todo, gone>>

select ==
    /\ at = "close" /\ todo = {} /\ gone = {} /\ links # << >>
    /\ todo' = {h \in DOMAIN links : Ready(h)}
    /\ at' = "event" /\ call' = FALSE
    /\ UNCHANGED <<links, wire, open, queues, watch, gone>>

-----------------------------------------------------------------------------
\* on_event, one link of m_processLink after the other.

IsNext(h, event) == at = "event" /\ h \in todo /\ h = Min(todo) /\ watch[h] = event

\* accept, then add_link, set_state and on_connect.  There may be more to accept.
accept(h, new) ==
    /\ IsNext(h, "Accept") /\ IsFree(new)
    /\ \E w \in {"quiet", "data"} :
          add_link(new, links[h].kind, "Connected", "quiet", [wire EXCEPT ![h] = w])
    /\ todo' = todo \ {h} /\ call' = TRUE
    /\ UNCHANGED <<at, watch, gone>>

\* The peer has given up, what came is no hand, or no handle is left.
accept_fails(h) ==
    /\ IsNext(h, "Accept")
    /\ wire' = [wire EXCEPT ![h] = IF Handles \subseteq open THEN @ ELSE "quiet"]
    /\ todo' = todo \ {h} /\ call' = FALSE
    /\ UNCHANGED <<links, open, queues, at, watch, gone>>

\* Also for a connection that was refused.
connect(h) ==
    /\ IsNext(h, "Connect")
    /\ links' = [links EXCEPT ![h].state = "Connected"]
    /\ todo' = todo \ {h} /\ call' = TRUE
    /\ UNCHANGED <<wire, open, queues, at, watch, gone>>

\* Fault for DeadPeersRemoved: the end of the stream is taken for nothing to read.
ReadOn(h) == [links[h] EXCEPT !.pings = IF wire[h] = "data" THEN 0 ELSE @]

\* Fault for DisconnectKept: what is read makes the link connected.
ReadRevives(h) ==
    CASE wire[h] = "data" -> [links[h] EXCEPT !.pings = 0, !.state = "Connected"]
      [] wire[h] \in {"eof", "ended"} -> [links[h] EXCEPT !.state = "Disconnecting"]
      [] OTHER -> links[h]

\* read_data, by what is there to read: bytes, the end of the stream (or an empty
\* datagram), an error.  After an error the stream has ended.
Read(h) ==
    CASE wire[h] = "data" -> [links[h] EXCEPT !.pings = 0]
      [] wire[h] \in {"eof", "ended"} -> [links[h] EXCEPT !.state = "Disconnecting"]
      [] OTHER -> links[h]

read_data(h) ==
    /\ IsNext(h, "Read")
    /\ links' = [links EXCEPT ![h] = Read(h)]
    /\ wire' = [wire EXCEPT ![h] = CASE @ = "reset" -> "ended"
                                     [] @ \in {"eof", "ended"} /\ links[h].kind = "tcp" -> @
                                     [] OTHER -> "quiet"]
    /\ todo' = todo \ {h} /\ call' = (wire[h] = "data")
    /\ UNCHANGED <<open, queues, at, watch, gone>>

evented ==
    /\ at = "event" /\ todo = {}
    /\ at' = "app" /\ watch' = << >> /\ call' = TRUE
    /\ UNCHANGED <<links, wire, open, queues, todo, gone>>

-----------------------------------------------------------------------------
\* remove_link, from on_event for the disconnecting links and from release.

\* A connection that was refused or reset is not connected any more.
ShutdownFails(h) == links[h].kind # "tcp" \/ wire[h] \in {"reset", "ended"}

\* LinkBase::release, which closes the socket only after it was shut down, then
\* on_disconnect.  In release of the loop, callbacks call nothing.
remove_link(h) ==
    /\ at \in {"close", "release"} /\ gone = {} /\ h \in todo /\ h = Min(todo)
    /\ links' = [links EXCEPT ![h].state = "Disconnected"]
    /\ open' = IF ShutdownFails(h) THEN open ELSE open \ {h}
    /\ gone' = {h} /\ call' = (at = "close")
    /\ UNCHANGED <<wire, queues, at, watch, todo>>

\* Fault for TicksOfLinks: the node's destructor leaves it in the queue.
StayQueued(q, h) == q

\* The destructor of the LinkNode's tick node takes it from its queue.
Unqueue(q, h) ==
    IF Holds(q, h) THEN RemoveAt(q, CHOOSE i \in DOMAIN q : q[i].h = h /\ ~q[i].old) ELSE q

\* The entry is erased, whichever LinkNode it holds now, and the link deleted.
\* release goes on from the erased entry: it may not get further.
removed(h) ==
    /\ h \in gone
    /\ links' = Drop(links, h) /\ wire' = Drop(wire, h)
    /\ pingQ' = Unqueue(pingQ, h) /\ kcpQ' = Unqueue(kcpQ, h)
    /\ todo' = todo \ {h} /\ gone' = {} /\ call' = FALSE
    /\ \/ UNCHANGED at
       \/ at = "release" /\ at' = "crashed"
    /\ UNCHANGED <<open, watch>>

release ==
    /\ at = "app"
    /\ at' = "release" /\ todo' = DOMAIN links /\ call' = FALSE
    /\ UNCHANGED <<links, wire, open, queues, watch, gone>>

released ==
    /\ at = "release" /\ todo = {} /\ gone = {}
    /\ at' = "app" /\ call' = TRUE
    /\ UNCHANGED <<links, wire, open, queues, watch, todo, gone>>

-----------------------------------------------------------------------------
program ==
    \/ \E h \in Handles : disconnect(h) \/ write_data(h)
    \/ \E h \in Handles, k \in Kinds : add_listen(h, k) \/ add_connect(h, k) \/ connect_fails(h, k)
    \/ release

on_tick == ping_tick \/ kcp_tick \/ tick_deleted \/ pings_done

on_event ==
    \E h \in Handles :
       \/ \E new \in Handles : accept(h, new)
       \/ accept_fails(h) \/ connect(h) \/ read_data(h) \/ remove_link(h) \/ removed(h)

loop == update \/ on_tick \/ flags \/ no_links \/ select \/ on_event \/ evented \/ released

Next == program \/ loop \/ pass \/ \E h \in Handles : peer(h)

Spec == Init /\ [][Next]_vars

\* The program keeps calling update, and time goes by between two calls of it.
FairSpec == Spec /\ WF_vars(loop) /\ SF_vars(pass)

-----------------------------------------------------------------------------
Kind == {"tcp", "udp", "kcp"}
State == {"Listen", "Connecting", "Connected", "Disconnecting", "Disconnected"}

NodeOK(q, first) ==
    \A i \in DOMAIN q : /\ q[i].h \in Handles /\ q[i].old \in BOOLEAN
                        /\ q[i].due \in -(MaxLate + FirstTick)..first

\* Links are in a known state and have been asked in vain at most PingOut times
\* and once more; no handle is both free and a link's.
TypeOK ==
    /\ DOMAIN links \subseteq Handles /\ DOMAIN wire = DOMAIN links
    /\ open \subseteq Handles /\ DOMAIN links \ gone \subseteq open
    /\ \A h \in DOMAIN links :
          /\ links[h].kind \in Kind /\ links[h].state \in State
          /\ links[h].pings \in 0..(PingOut + 1) /\ links[h].slow \in BOOLEAN
          /\ wire[h] \in {"pending", "quiet", "data", "eof", "reset", "ended"}
    /\ NodeOK(pingQ, Ping) /\ NodeOK(kcpQ, FirstTick)
    /\ at \in {"app", "ping", "kcp", "close", "event", "release", "deleted", "crashed"}
    /\ todo \subseteq Handles /\ gone \subseteq todo /\ call \in BOOLEAN

\* A tick node in a queue belongs to one link of m_links and each link has one,
\* unless a link was opened in the on_disconnect of one whose handle it got
\* (TalkLoop.cpp:244, 270): only then is a deleted link ticked.  And every
\* connected link is watched by pings but one that took longer than the first
\* ping to connect.
TicksOfLinks ==
    /\ TypeOK
    /\ \A q \in {pingQ, kcpQ} : \A i, j \in DOMAIN q :
          /\ q[i].old \/ q[i].h \in DOMAIN links
          /\ q[i].h = q[j].h /\ i # j => q[i].old \/ q[j].old
    /\ at = "deleted" => Stale
    /\ \A h \in DOMAIN links :
          /\ links[h].kind = "kcp" => Holds(kcpQ, h)
          /\ links[h].state = "Connected" => Holds(pingQ, h) \/ links[h].slow

\* Nodes are taken from a queue's front only, so they are late when they are not
\* in order (TalkLoop.cpp:230).  When on_tick is done no ping is due, and no kcp
\* tick has been due for longer than the first tick of a kcp link differs from
\* the others.
OnTick ==
    at \in {"close", "event"} =>
        /\ \A i \in DOMAIN pingQ : pingQ[i].due > 0
        /\ \A i \in DOMAIN kcpQ : kcpQ[i].due > Tick - FirstTick

Dead == {"deleted", "crashed"}

\* A link that is about to be connected although disconnect was called for it
\* after select: set_state takes the call back (TalkLoop.cpp:207).
Overtaken(h) == at = "event" /\ h \in todo /\ watch[h] = "Connect"

\* Nothing that happens to a link after disconnect was called for it, by the
\* program, a ping or its peer, takes that back until it is removed, unless it is
\* overtaken.
DisconnectKept ==
    [][\A h \in DOMAIN links \ gone :
          links[h].state = "Disconnecting" =>
             \/ h \in DOMAIN links' /\ links'[h].state \in {"Disconnecting", "Disconnected"}
             \/ Overtaken(h)]_links

Closed(h) == \/ links[h].state = "Disconnecting"
             \/ /\ links[h].state = "Connected" /\ links[h].kind = "tcp"
                /\ wire[h] \in {"eof", "reset", "ended"}

Watched(h) == h \in DOMAIN links /\ links[h].state = "Connected" /\ Holds(pingQ, h)

\* A link is removed that was disconnected or whose peer has closed or reset the
\* connection, and so is one watched by pings whose peer stays silent, unless it
\* goes on sending: every send that the socket takes counts as a sign of life
\* (LinkBase.cpp:311).
DeadPeersRemoved ==
    \A h \in Handles :
        /\ (h \in DOMAIN links /\ Closed(h))
             ~> (h \notin DOMAIN links \/ Overtaken(h) \/ at \in Dead)
        /\ \/ []<>(~Watched(h) \/ at \in Dead)
           \/ []<><<Watched(h) /\ links[h].pings > 0 /\ links'[h].pings = 0>>_links
=============================================================================
