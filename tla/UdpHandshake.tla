---------------------------- MODULE UdpHandshake ----------------------------
(***************************************************************************)
(* How the links over UDP (src/src/TinySocket/LinkUdp.cpp) and over KCP     *)
(* (LinkKcp.cpp) find each other: a client sends a hand to the listener,    *)
(* which answers from a socket of its own for this client with a key.       *)
(* Nothing is sent again.  Datagrams are lost, duplicated and overtake each *)
(* other.  The programs at both ends write what they like when they like.   *)
(*                                                                         *)
(* A datagram is [body, from, to, key, no]: the key of a "reply", or the    *)
(* conv ikcp puts on "data".  no is not part of it: it says which client    *)
(* link, counted, the link that sent it talks to or is.                    *)
(***************************************************************************)
EXTENDS Integers, FiniteSetsExt

CONSTANTS Ports,     \* the ports there are besides the listener's, numbers
          Keys,      \* what rand() * time(NULL) may be, with 0
          Kinds,     \* the links the program uses, among "udp", "kcp"
          PingOut,   \* LP_PINGOUT
          MaxNet,    \* bound on the datagrams under way, more are lost
          MaxTwice   \* bound on the hands and replies the network doubles

ASSUME HandshakeAssumption ==
    /\ Ports \subseteq Nat \ {0} /\ Keys \subseteq Nat
    /\ Kinds \subseteq {"udp", "kcp"} /\ PingOut \in Nat
    /\ MaxNet \in Nat /\ MaxTwice \in Nat

VARIABLES
    kind,    \* the kind of all links
    links,   \* port to link
    bound,   \* the ports of sockets that are open
    net,     \* the datagrams under way
    twice,   \* hands and replies that the network has doubled
    made,    \* port of a link made by accept, removed ones too, to whom it is for
    serial   \* how many client links there have been

vars == <<kind, links, bound, net, twice, made, serial>>

Listener == 0

\* Fault for OwnData: connected as soon as the state says so.
ConnectedState(l) == l.state = "Connected"

\* LinkUdp::is_connected and LinkKcp::is_connected; conv is that of m_kcp, or 0.
is_connected(l) == l.state = "Connected" /\ l.key # 0 /\ (kind = "kcp" => l.conv # 0)

\* LinkKcp::init_kcp, which keeps what there is and makes nothing without a key.
init_kcp(l) ==
    IF kind = "kcp" /\ l.conv = 0 THEN [l EXCEPT !.conv = l.key] ELSE l

Link(server, no, addr, key) ==
    [server |-> server, no |-> no, state |-> "Connected", addr |-> addr,
     key |-> key, conv |-> 0, pings |-> 0, odd |-> {}]

\* f with v at p.
Put(f, p, v) == [q \in DOMAIN f \cup {p} |-> IF q = p THEN v ELSE f[q]]

\* The lowest port is as good as any: none is given out twice.
IsFree(p) == p \in Ports \ bound /\ p = Min(Ports \ bound)

Datagram(body, from, to, key, no) ==
    [body |-> body, from |-> from, to |-> to, key |-> key, no |-> no]

\* sendto takes what the network may lose.
With(ds, d) == IF Cardinality(ds) < MaxNet THEN {ds \cup {d}, ds} ELSE {ds}

\* d arrives and is gone, or there is another one of it.
Arrives(d) ==
    {a \in {[net |-> net \ {d}, twice |-> twice],
            [net |-> net, twice |-> IF d.body = "data" THEN twice ELSE twice \cup {d}]} :
        Cardinality(a.twice) <= MaxTwice}

Init ==
    /\ kind \in Kinds
    /\ links = << >> /\ bound = {} /\ made = << >>
    /\ net = {} /\ twice = {} /\ serial = 0

-----------------------------------------------------------------------------
\* LinkUdp::connect.
connect(p) ==
    /\ IsFree(p)
    /\ serial' = serial + 1
    /\ links' = Put(links, p, Link(FALSE, serial', Listener, 0))
    /\ bound' = bound \cup {p}
    /\ net' \in With(net, Datagram("hand", p, Listener, 0, serial'))
    /\ UNCHANGED <<kind, twice, made>>

\* LinkUdp::accept of a hand, and on_connect.
accept(d, p, key) ==
    /\ d.to = Listener /\ d.body = "hand" /\ IsFree(p)
    /\ links' = Put(links, p, init_kcp(Link(TRUE, d.no, d.from, key)))
    /\ made' = Put(made, p, [port |-> d.from, no |-> d.no, key |-> key])
    /\ bound' = bound \cup {p}
    /\ \E a \in Arrives(d) :
          /\ net' \in With(a.net, Datagram("reply", p, d.from, key, d.no))
          /\ twice' = a.twice
    /\ UNCHANGED <<kind, serial>>

\* What the listener gets is no hand, or a link for it cannot be made.
accept_fails(d) ==
    /\ d.to = Listener
    /\ \E a \in Arrives(d) : net' = a.net /\ twice' = a.twice
    /\ UNCHANGED <<kind, links, bound, made, serial>>

\* What else but the data of its other end the program of l gets to read.
Oddly(l, d) ==
    CASE d.body = "reply" -> {"reply"} [] d.no # l.no -> {"stray"} [] OTHER -> {}

\* LinkUdp::on_read of a link that is not connected.  What is no reply takes a
\* key away.
on_hand(l, d) ==
    IF d.body = "reply" THEN init_kcp([l EXCEPT !.key = d.key]) ELSE [l EXCEPT !.key = 0]

\* LinkUdp::on_read, and the other half of LinkKcp::read_data, where ikcp_input
\* takes nothing with another conv.
on_read(l, d) ==
    IF ~is_connected(l) THEN on_hand(l, d)
    ELSE IF kind = "kcp" /\ (d.body # "data" \/ d.key # l.conv) THEN l
    ELSE [l EXCEPT !.odd = @ \cup Oddly(l, d)]

\* One socket_recv of read_data, which tells the link where to send from now on.
\* A link that disconnect was called for is read to the end of the round.
read_data(d) ==
    /\ d.to \in DOMAIN links
    /\ links' = [links EXCEPT ![d.to] = on_read([@ EXCEPT !.addr = d.from, !.pings = 0], d)]
    /\ \E a \in Arrives(d) : net' = a.net /\ twice' = a.twice
    /\ UNCHANGED <<kind, bound, made, serial>>

\* write_data of the program, or what ikcp sends, first or again.
write_data(p) ==
    /\ p \in DOMAIN links
    /\ LET l == links[p]
           conv == IF is_connected(l) THEN l.conv ELSE 0
       IN  net' \in With(net, Datagram("data", p, l.addr, conv, l.no))
    /\ links' = [links EXCEPT ![p].pings = 0]
    /\ UNCHANGED <<kind, bound, twice, made, serial>>

\* Fault for TypeOK: a link that was asked too often stays.
TickOn(l) == IF l.state # "Connected" THEN l ELSE [l EXCEPT !.pings = @ + 1]

\* Fault for SilentRemoved: only connected links are asked.
TickIfKeyed(l) ==
    IF ~is_connected(l) THEN l
    ELSE [l EXCEPT !.pings = @ + 1, !.state = IF l.pings + 1 > PingOut THEN "Disconnecting" ELSE @]

\* check_tick and on_ping_tick.  A ping, if the program has one, is a write_data.
Ticked(l) ==
    IF l.state # "Connected" THEN l
    ELSE [l EXCEPT !.pings = @ + 1, !.state = IF l.pings + 1 > PingOut THEN "Disconnecting" ELSE @]

check_tick(p) ==
    /\ p \in DOMAIN links
    /\ links' = [links EXCEPT ![p] = Ticked(@)]
    /\ UNCHANGED <<kind, bound, net, twice, made, serial>>

disconnect(p) ==
    /\ p \in DOMAIN links
    /\ links' = [links EXCEPT ![p].state = "Disconnecting"]
    /\ UNCHANGED <<kind, bound, net, twice, made, serial>>

\* Fault for Paired: the port may be the next link's.
Closes(p) == bound \ {p}

\* The socket is not connected, so shutdown fails and it is not closed.
AfterRelease(p) == bound

remove_link(p) ==
    /\ p \in DOMAIN links /\ links[p].state = "Disconnecting"
    /\ links' = [q \in DOMAIN links \ {p} |-> links[q]]
    /\ bound' = AfterRelease(p)
    /\ UNCHANGED <<kind, net, twice, made, serial>>

lose(d) ==
    /\ net' = net \ {d}
    /\ UNCHANGED <<kind, links, bound, twice, made, serial>>

Next ==
    \/ \E p \in Ports : connect(p) \/ write_data(p) \/ check_tick(p) \/ disconnect(p) \/ remove_link(p)
    \/ \E d \in net : \/ accept_fails(d) \/ read_data(d) \/ lose(d)
                      \/ \E p \in Ports, key \in Keys : accept(d, p, key)

Spec == Init /\ [][Next]_vars

\* update is called again and again, and time goes by.
FairSpec == Spec /\ \A p \in Ports : WF_vars(check_tick(p)) /\ WF_vars(remove_link(p))

-----------------------------------------------------------------------------
Body == {"hand", "reply", "data"}
Datagrams == [body : Body, from : Ports, to : Ports \cup {Listener}, key : Keys \cup {0}, no : 1..serial]
LinkRecord == [server : BOOLEAN, no : 1..serial, state : {"Connected", "Disconnecting"},
               addr : Ports \cup {Listener}, key : Keys \cup {0}, conv : Keys \cup {0},
               pings : 0..(PingOut + 1), odd : SUBSET {"reply", "stray"}]

\* Links are in a known state and were asked at most PingOut times and once more
\* in vain, each has a socket, and a key is one that was made, or 0.
TypeOK ==
    /\ kind \in Kinds /\ serial \in Nat
    /\ bound \subseteq Ports
    /\ DOMAIN links \subseteq bound /\ DOMAIN made \subseteq bound
    /\ \A p \in DOMAIN links : links[p] \in LinkRecord
    /\ \A p \in DOMAIN made : made[p] \in [port : Ports, no : 1..serial, key : Keys]
    /\ net \subseteq Datagrams /\ twice \subseteq Datagrams

For(no) == {s \in DOMAIN made : made[s].no = no}

\* The network has doubled the hand of client link no, or a reply to it.
Doubled(no) == \E d \in twice : d.no = no

\* A connected client has the key of a link that accept made for it, never for
\* one before it, and sends to such a link: to the one whose key it has, unless its
\* hand came twice and made two, for each reply takes its address along
\* (LinkUdp.cpp:196).  A link made by accept sends to its client.
Paired ==
    \A p \in DOMAIN links : LET l == links[p] IN
        /\ l.server => l.addr = made[p].port
        /\ ~l.server /\ is_connected(l) =>
              /\ l.addr \in For(l.no)
              /\ \E s \in For(l.no) : made[s].key = l.key /\ made[s].port = p
              /\ For(l.no) = {l.addr} \/ \E d \in twice : d.body = "hand" /\ d.no = l.no

\* The program reads what the other end of its conversation has written, nothing
\* of another link's, and no reply, unless the link is over UDP and
\* the network has doubled the hand or the reply (LinkUdp.cpp:156).
OwnData ==
    \A p \in DOMAIN links : LET l == links[p] IN
        /\ "stray" \notin l.odd
        /\ "reply" \in l.odd => kind = "udp" /\ Doubled(l.no)

\* The link read or sent something since it was last asked.
SignOfLife(p) ==
    /\ p \in DOMAIN links /\ p \in DOMAIN links'
    /\ links[p].pings > 0 /\ links'[p].pings = 0

\* Nobody retries: when the hand or the reply is lost, both ends are removed by
\* LP_PINGOUT (LinkBase.cpp:358), each unless it goes on sending, to whomever, or
\* reading, whatever it makes of it.
SilentRemoved ==
    \A p \in Ports : []<>(p \notin DOMAIN links) \/ []<><<SignOfLife(p)>>_links
=============================================================================
