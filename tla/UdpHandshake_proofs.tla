------------------------ MODULE UdpHandshake_proofs ------------------------
(***************************************************************************)
(* For any ports, keys, bounds on the network and both kinds of links: a    *)
(* connected client talks to a link made for it, and nobody reads what was  *)
(* written to somebody else.                                               *)
(***************************************************************************)
EXTENDS UdpHandshake, TLAPS

\* The hand of client link no has come twice.
HandTwice(no) == \E d \in twice : d.body = "hand" /\ d.no = no

Asked == \A p \in DOMAIN links : links[p].state = "Connected" => links[p].pings <= PingOut

\* accept makes links for clients, and these are asked for by others than it made.
MadeFor ==
    \A s \in DOMAIN made :
        /\ made[s].port \in bound \ DOMAIN made
        /\ made[s].port \in DOMAIN links => made[s].no = links[made[s].port].no

ServerLinks ==
    \A p \in DOMAIN links :
        /\ links[p].server <=> p \in DOMAIN made
        /\ p \in DOMAIN made => links[p].addr = made[p].port /\ links[p].no = made[p].no

\* A client sends to its listener, or to a link made for it once one has written.
ClientLinks ==
    \A p \in DOMAIN links \ DOMAIN made :
        /\ \/ links[p].addr = Listener
           \/ links[p].addr \in DOMAIN made /\ made[links[p].addr].port = p
        /\ links[p].key # 0 =>
              /\ links[p].addr # Listener
              /\ \E s \in DOMAIN made : /\ made[s].no = links[p].no /\ made[s].port = p
                                        /\ made[s].key = links[p].key

\* What is under way was sent by a link made for its receiver, or by a client to
\* its listener or to a link made for it.
UnderWay ==
    \A d \in net :
        /\ d.from \in bound
        /\ d.from \in DOMAIN made =>
              /\ d.to = made[d.from].port /\ d.no = made[d.from].no /\ d.body # "hand"
              /\ d.body = "reply" => d.key = made[d.from].key
        /\ d.from \notin DOMAIN made =>
              /\ \/ d.to = Listener
                 \/ d.to \in DOMAIN made /\ made[d.to].port = d.from /\ made[d.to].no = d.no
              /\ d.from \in DOMAIN links => d.no = links[d.from].no
              /\ d.body # "reply"
              /\ d.body = "hand" => d.to = Listener

\* A hand is under way once, and before a link is made for it, unless it came twice.
Hands ==
    \A d \in net : d.body = "hand" =>
        /\ \A e \in net : e.body = "hand" /\ e.no = d.no => d = e
        /\ HandTwice(d.no) \/ For(d.no) = {}

OneServer == \A s, u \in DOMAIN made : made[s].no = made[u].no => s = u \/ HandTwice(made[s].no)

\* The reply a client has its key of was the only one.
Replies ==
    \A d \in net : d.body = "reply" /\ d.to \in DOMAIN links /\ links[d.to].key # 0 => Doubled(d.no)

Inv ==
    /\ TypeOK /\ Asked /\ MadeFor /\ ServerLinks /\ ClientLinks
    /\ UnderWay /\ Hands /\ OneServer /\ Replies /\ OwnData

-----------------------------------------------------------------------------
\* A function with one more argument.
LEMMA Extended ==
    ASSUME NEW f, NEW p, NEW v, p \notin DOMAIN f
    PROVE  LET g == Put(f, p, v) IN
           /\ DOMAIN g = DOMAIN f \cup {p}
           /\ g[p] = v
           /\ \A q \in DOMAIN f : g[q] = f[q] /\ q # p
  BY DEF Put

\* What has arrived is gone, or is data, or there were two of it.
LEMMA ArrivesFacts ==
    ASSUME NEW d \in net, NEW a \in Arrives(d)
    PROVE  /\ a.net \subseteq net
           /\ twice \subseteq a.twice /\ a.twice \subseteq twice \cup {d}
           /\ d \notin a.net \/ d.body = "data" \/ d \in a.twice
  BY DEF Arrives

LEMMA WithFacts ==
    ASSUME NEW ds, NEW d, NEW n \in With(ds, d)
    PROVE  n \subseteq ds \cup {d}
  BY DEF With

\* The handshake's constants.
LEMMA Constants == Listener \notin Ports /\ Listener = 0 /\ PingOut \in Nat
  BY HandshakeAssumption DEF Listener

LEMMA InvInit == Init => Inv
  BY HandshakeAssumption
  DEF Init, Inv, TypeOK, Asked, MadeFor, ServerLinks, ClientLinks, UnderWay, Hands,
      OneServer, Replies, OwnData

-----------------------------------------------------------------------------
\* What the other links know of a link.
Alike(p) ==
    /\ links'[p].server = links[p].server /\ links'[p].no = links[p].no
    /\ links'[p].addr = links[p].addr /\ links'[p].key = links[p].key
    /\ links'[p].odd = links[p].odd

\* A datagram that the link of a port writes.
SentBy(d) ==
    /\ d.body = "data" /\ d.from \in DOMAIN links
    /\ d.to = links[d.from].addr /\ d.no = links[d.from].no

\* Steps that make no link, change none in what others know of it, and send nothing
\* but data.
LEMMA AlikeStep ==
    ASSUME Inv, TypeOK', Asked',
           made' = made, bound' = bound, kind' = kind,
           DOMAIN links' \subseteq DOMAIN links, \A p \in DOMAIN links' : Alike(p),
           twice \subseteq twice',
           \A d \in net' : d \in net \/ SentBy(d)
    PROVE  Inv'
  <1> USE DEF Inv
  <1>1. MadeFor'
    BY DEF MadeFor, Alike
  <1>2. ServerLinks'
    BY DEF ServerLinks, Alike
  <1>3. ClientLinks'
    BY DEF ClientLinks, Alike
  <1>4. ASSUME NEW no PROVE HandTwice(no) => HandTwice(no)'
    BY DEF HandTwice
  <1>5. ASSUME NEW no PROVE Doubled(no) => Doubled(no)'
    BY DEF Doubled
  <1>6. UnderWay'
    <2>1. ASSUME NEW d \in net, d \in net' PROVE UnderWay!(d)'
      BY DEF UnderWay, Alike
    <2>2. ASSUME NEW d \in net', SentBy(d) PROVE UnderWay!(d)'
      <3>1. d.from \in DOMAIN links /\ d.from \in bound
        BY <2>2 DEF SentBy, TypeOK
      <3>2. CASE d.from \in DOMAIN made
        BY <3>1, <3>2, <2>2 DEF SentBy, ServerLinks, Alike
      <3>3. CASE d.from \notin DOMAIN made
        <4>1. \/ d.to = Listener
              \/ d.to \in DOMAIN made /\ made[d.to].port = d.from /\ made[d.to].no = d.no
          BY <3>1, <3>3, <2>2 DEF SentBy, ClientLinks, MadeFor
        <4> QED
          BY <4>1, <3>1, <3>3, <2>2 DEF SentBy, Alike
      <3> QED
        BY <3>2, <3>3
    <2> QED
      BY <2>1, <2>2 DEF UnderWay
  <1>7. Hands'
    BY <1>4 DEF Hands, For, SentBy
  <1>8. OneServer'
    BY <1>4 DEF OneServer
  <1>9. Replies'
    BY <1>5 DEF Replies, SentBy, Alike
  <1>10. OwnData'
    BY <1>5 DEF OwnData, Alike
  <1> QED
    BY <1>1, <1>2, <1>3, <1>6, <1>7, <1>8, <1>9, <1>10

-----------------------------------------------------------------------------
\* There are more datagrams and links with more clients.
LEMMA Grows ==
    ASSUME serial \in Nat, serial' \in Nat, serial' >= serial
    PROVE  /\ 1..serial \subseteq 1..serial'
           /\ Datagrams \subseteq Datagrams' /\ LinkRecord \subseteq LinkRecord'
  <1>1. 1..serial \subseteq 1..serial'
    OBVIOUS
  <1> QED
    BY <1>1 DEF Datagrams, LinkRecord

LEMMA Same ==
    ASSUME UNCHANGED serial
    PROVE  Datagrams' = Datagrams /\ LinkRecord' = LinkRecord
  BY DEF Datagrams, LinkRecord

LEMMA WriteDataStep == ASSUME Inv, NEW p \in Ports, write_data(p) PROVE Inv'
  <1> USE DEF Inv
  <1> DEFINE conv == IF is_connected(links[p]) THEN links[p].conv ELSE 0
             e == Datagram("data", p, links[p].addr, conv, links[p].no)
  <1>1. /\ p \in DOMAIN links /\ links' = [links EXCEPT ![p].pings = 0]
        /\ net' \subseteq net \cup {e}
        /\ UNCHANGED <<kind, bound, twice, made, serial>>
    BY WithFacts DEF write_data
  <1>2. links[p] \in LinkRecord /\ links'[p] \in LinkRecord
    BY <1>1, Constants DEF TypeOK, LinkRecord
  <1>3. e \in Datagrams
    BY <1>2 DEF Datagram, Datagrams, LinkRecord, Body
  <1>4. TypeOK'
    BY <1>1, <1>2, <1>3, Same DEF TypeOK
  <1>5. Asked'
    BY <1>1, <1>2, Constants DEF Asked, LinkRecord
  <1>6. \A q \in DOMAIN links' : Alike(q)
    BY <1>1, <1>2 DEF Alike, LinkRecord
  <1>7. SentBy(e)
    BY <1>1 DEF SentBy, Datagram
  <1> QED
    BY <1>1, <1>4, <1>5, <1>6, <1>7, AlikeStep

LEMMA TickStep == ASSUME Inv, NEW p \in Ports, check_tick(p) PROVE Inv'
  <1> USE DEF Inv
  <1>1. /\ p \in DOMAIN links /\ links' = [links EXCEPT ![p] = Ticked(@)]
        /\ UNCHANGED <<kind, bound, net, twice, made, serial>>
    BY DEF check_tick
  <1>2. links[p] \in LinkRecord /\ (links[p].state = "Connected" => links[p].pings <= PingOut)
    BY <1>1 DEF TypeOK, Asked
  <1>3. /\ Ticked(links[p]) \in LinkRecord
        /\ Ticked(links[p]).state = "Connected" => Ticked(links[p]).pings <= PingOut
    <2> DEFINE l == links[p]
    <2>1. CASE l.state # "Connected"
      BY <1>2, <2>1 DEF Ticked
    <2>2. CASE l.state = "Connected"
      <3>1. l.pings \in 0..PingOut
        BY <1>2, <2>2, Constants DEF LinkRecord
      <3>2. CASE l.pings + 1 > PingOut
        <4>1. Ticked(l) = [l EXCEPT !.pings = l.pings + 1, !.state = "Disconnecting"]
          BY <2>2, <3>2 DEF Ticked
        <4>2. l.pings + 1 \in 0..(PingOut + 1)
          BY <3>1, Constants
        <4>3. Ticked(l) \in LinkRecord
          BY <1>2, <4>1, <4>2 DEF LinkRecord
        <4>4. Ticked(l).state = "Disconnecting"
          BY <1>2, <4>1 DEF LinkRecord
        <4> QED
          BY <4>3, <4>4
      <3>3. CASE ~(l.pings + 1 > PingOut)
        <4>1. Ticked(l) = [l EXCEPT !.pings = l.pings + 1]
          BY <1>2, <2>2, <3>3 DEF Ticked, LinkRecord
        <4> QED
          BY <1>2, <3>1, <3>3, <4>1, Constants DEF LinkRecord
      <3> QED
        BY <3>2, <3>3
    <2> QED
      BY <2>1, <2>2
  <1>4. TypeOK'
    BY <1>1, <1>3, Same DEF TypeOK
  <1>5. Asked'
    BY <1>1, <1>3 DEF Asked
  <1>6. \A q \in DOMAIN links' : Alike(q)
    BY <1>1, <1>2 DEF Alike, LinkRecord, Ticked
  <1> QED
    BY <1>1, <1>4, <1>5, <1>6, AlikeStep

LEMMA DisconnectStep == ASSUME Inv, NEW p \in Ports, disconnect(p) PROVE Inv'
  <1> USE DEF Inv
  <1>1. /\ p \in DOMAIN links /\ links' = [links EXCEPT ![p].state = "Disconnecting"]
        /\ UNCHANGED <<kind, bound, net, twice, made, serial>>
    BY DEF disconnect
  <1>2. links[p] \in LinkRecord /\ links'[p] \in LinkRecord
    BY <1>1 DEF TypeOK, LinkRecord
  <1>3. TypeOK'
    BY <1>1, <1>2, Same DEF TypeOK
  <1>4. Asked'
    BY <1>1, <1>2 DEF Asked, LinkRecord
  <1>5. \A q \in DOMAIN links' : Alike(q)
    BY <1>1, <1>2 DEF Alike, LinkRecord
  <1> QED
    BY <1>1, <1>3, <1>4, <1>5, AlikeStep

LEMMA RemoveStep == ASSUME Inv, NEW p \in Ports, remove_link(p) PROVE Inv'
  <1> USE DEF Inv
  <1>1. /\ links' = [q \in DOMAIN links \ {p} |-> links[q]]
        /\ UNCHANGED <<kind, bound, net, twice, made, serial>>
    BY DEF remove_link, AfterRelease
  <1>2. TypeOK'
    BY <1>1, Same DEF TypeOK
  <1>3. Asked'
    BY <1>1 DEF Asked
  <1> QED
    BY <1>1, <1>2, <1>3, AlikeStep DEF Alike

\* A datagram that goes and does nothing.
LEMMA GoneStep ==
    ASSUME Inv, NEW d \in net, lose(d) \/ accept_fails(d)
    PROVE  Inv'
  <1> USE DEF Inv
  <1>1. /\ UNCHANGED <<kind, links, bound, made, serial>>
        /\ net' \subseteq net /\ twice \subseteq twice' /\ twice' \subseteq twice \cup {d}
    BY ArrivesFacts DEF lose, accept_fails
  <1>2. TypeOK'
    BY <1>1, Same DEF TypeOK
  <1>3. Asked'
    BY <1>1 DEF Asked
  <1> QED
    BY <1>1, <1>2, <1>3, AlikeStep DEF Alike

-----------------------------------------------------------------------------
LEMMA ConnectStep == ASSUME Inv, NEW p \in Ports, connect(p) PROVE Inv'
  <1> USE DEF Inv
  <1> DEFINE l == Link(FALSE, serial', Listener, 0)
             h == Datagram("hand", p, Listener, 0, serial')
  <1>1. /\ p \notin bound /\ serial' = serial + 1 /\ serial \in Nat
        /\ links' = Put(links, p, l) /\ bound' = bound \cup {p}
        /\ net' \subseteq net \cup {h}
        /\ UNCHANGED <<kind, twice, made>>
    BY WithFacts DEF connect, IsFree, TypeOK
  <1>2. p \notin DOMAIN links /\ p \notin DOMAIN made
    BY <1>1 DEF TypeOK
  <1>3. /\ DOMAIN links' = DOMAIN links \cup {p} /\ links'[p] = l
        /\ \A q \in DOMAIN links : links'[q] = links[q] /\ q # p
    BY <1>1, <1>2 DEF Put
  <1>4. /\ 1..serial \subseteq 1..serial' /\ serial' \in 1..serial' /\ serial' \notin 1..serial
        /\ Datagrams \subseteq Datagrams' /\ LinkRecord \subseteq LinkRecord'
    <2>1. serial' \in Nat /\ serial' >= serial
      BY <1>1
    <2> QED
      BY <1>1, <2>1, Grows
  <1>5. /\ \A d \in net : d.no # serial'
        /\ \A s \in DOMAIN made : made[s].no # serial'
    BY <1>4 DEF TypeOK, Datagrams
  <1>a. /\ l \in LinkRecord' /\ l.server = FALSE /\ l.no = serial' /\ l.addr = Listener
        /\ l.key = 0 /\ l.odd = {} /\ l.pings = 0
    BY <1>4, Constants DEF Link, LinkRecord
  <1>b. /\ h \in Datagrams' /\ h.body = "hand" /\ h.from = p /\ h.to = Listener
        /\ h.no = serial'
    BY <1>4 DEF Datagram, Datagrams, Body
  <1> HIDE DEF l, h
  <1>6. TypeOK'
    <2>3. \A q \in DOMAIN links' : links'[q] \in LinkRecord'
      BY <1>a, <1>3, <1>4 DEF TypeOK
    <2>4. \A q \in DOMAIN made : made[q] \in [port : Ports, no : 1..serial', key : Keys]
      BY <1>4 DEF TypeOK
    <2>5. net' \subseteq Datagrams' /\ twice' \subseteq Datagrams'
      BY <1>b, <1>1, <1>4 DEF TypeOK
    <2> QED
      BY <1>1, <1>3, <2>3, <2>4, <2>5 DEF TypeOK
  <1>7. Asked'
    BY <1>a, <1>3, Constants DEF Asked
  <1>8. MadeFor'
    BY <1>1, <1>3 DEF MadeFor
  <1>9. ServerLinks'
    BY <1>a, <1>1, <1>2, <1>3 DEF ServerLinks
  <1>10. ClientLinks'
    BY <1>a, <1>1, <1>2, <1>3 DEF ClientLinks
  <1>11. UnderWay'
    <2>1. ASSUME NEW d, d = h PROVE UnderWay!(d)'
      BY <2>1, <1>a, <1>b, <1>1, <1>2, <1>3
    <2>2. ASSUME NEW d \in net PROVE UnderWay!(d)'
      BY <1>1, <1>3 DEF UnderWay
    <2> QED
      BY <1>1, <2>1, <2>2 DEF UnderWay
  <1>12. Hands'
    BY <1>b, <1>1, <1>5 DEF Hands, HandTwice, For
  <1>13. OneServer'
    BY <1>1 DEF OneServer, HandTwice
  <1>14. Replies'
    <2>1. ASSUME NEW d \in net, d.body = "reply" PROVE d.to # p
      BY <1>1, <2>1 DEF UnderWay, MadeFor
    <2> QED
      BY <1>b, <1>1, <1>3, <2>1 DEF Replies, Doubled
  <1>15. OwnData'
    BY <1>a, <1>1, <1>3 DEF OwnData, Doubled
  <1> QED
    BY <1>6, <1>7, <1>8, <1>9, <1>10, <1>11, <1>12, <1>13, <1>14, <1>15

LEMMA AcceptStep ==
    ASSUME Inv, NEW d \in net, NEW p \in Ports, NEW key \in Keys, accept(d, p, key)
    PROVE  Inv'
  <1> USE DEF Inv
  <1> DEFINE l == init_kcp(Link(TRUE, d.no, d.from, key))
             m == [port |-> d.from, no |-> d.no, key |-> key]
             r == Datagram("reply", p, d.from, key, d.no)
  <1>1. /\ p \notin bound /\ d.body = "hand" /\ d.to = Listener
        /\ links' = Put(links, p, l) /\ made' = Put(made, p, m) /\ bound' = bound \cup {p}
        /\ UNCHANGED <<kind, serial>>
    BY DEF accept, IsFree
  <1>2. /\ net' \subseteq net \cup {r}
        /\ twice \subseteq twice' /\ twice' \subseteq twice \cup {d}
        /\ d \notin net' \/ d \in twice'
    <2>1. PICK a \in Arrives(d) : net' \in With(a.net, r) /\ twice' = a.twice
      BY DEF accept
    <2>2. net' \subseteq a.net \cup {r}
      BY <2>1, WithFacts
    <2>3. r # d
      BY <1>1 DEF Datagram
    <2> QED
      BY <1>1, <2>1, <2>2, <2>3, ArrivesFacts
  <1>3. p \notin DOMAIN links /\ p \notin DOMAIN made
    BY <1>1 DEF TypeOK
  <1>4. /\ DOMAIN links' = DOMAIN links \cup {p} /\ links'[p] = l
        /\ \A q \in DOMAIN links : links'[q] = links[q] /\ q # p
    BY <1>1, <1>3 DEF Put
  <1>5. /\ DOMAIN made' = DOMAIN made \cup {p} /\ made'[p] = m
        /\ \A q \in DOMAIN made : made'[q] = made[q] /\ q # p
    BY <1>1, <1>3 DEF Put
  <1>6. d.from \in Ports /\ d.no \in 1..serial /\ d \in Datagrams
    BY DEF TypeOK, Datagrams
  <1>7. /\ d.from \in bound /\ d.from \notin DOMAIN made /\ d.from # p
        /\ d.from \in DOMAIN links => d.no = links[d.from].no
    BY <1>1 DEF UnderWay
  <1>8. Datagrams' = Datagrams /\ LinkRecord' = LinkRecord
    BY <1>1, Same
  <1>9. /\ l \in LinkRecord /\ l.server = TRUE /\ l.no = d.no /\ l.addr = d.from
        /\ l.odd = {} /\ l.pings = 0
    <2>1. Link(TRUE, d.no, d.from, key) \in LinkRecord
      BY <1>6, Constants DEF Link, LinkRecord
    <2> QED
      BY <2>1 DEF Link, LinkRecord, init_kcp
  <1>10. m \in [port : Ports, no : 1..serial, key : Keys] /\ m.port = d.from /\ m.no = d.no /\ m.key = key
    BY <1>6
  <1>11. /\ r \in Datagrams /\ r.body = "reply" /\ r.from = p /\ r.to = d.from
         /\ r.no = d.no /\ r.key = key
    BY <1>6 DEF Datagram, Datagrams, Body
  <1> HIDE DEF l, m, r
  <1>12. ASSUME NEW no PROVE HandTwice(no) => HandTwice(no)'
    BY <1>2 DEF HandTwice
  <1>13. ASSUME NEW no PROVE Doubled(no) => Doubled(no)'
    BY <1>2 DEF Doubled
  <1>14. HandTwice(d.no) => Doubled(d.no)'
    BY <1>2 DEF HandTwice, Doubled
  \* The hand of d comes twice if there is a link for it, or if it stays under way.
  <1>15. /\ For(d.no) = {} \/ HandTwice(d.no)
         /\ d \in net' => HandTwice(d.no)'
    BY <1>1, <1>2 DEF Hands, HandTwice
  <1>16. TypeOK'
    <2>1. \A q \in DOMAIN links' : links'[q] \in LinkRecord'
      BY <1>4, <1>8, <1>9 DEF TypeOK
    <2>2. \A q \in DOMAIN made' : made'[q] \in [port : Ports, no : 1..serial, key : Keys]
      BY <1>5, <1>10 DEF TypeOK
    <2>3. net' \subseteq Datagrams' /\ twice' \subseteq Datagrams'
      BY <1>2, <1>6, <1>8, <1>11 DEF TypeOK
    <2> QED
      BY <1>1, <1>4, <1>5, <2>1, <2>2, <2>3 DEF TypeOK
  <1>17. Asked'
    BY <1>4, <1>9, Constants DEF Asked
  <1>18. MadeFor'
    BY <1>1, <1>4, <1>5, <1>7, <1>10 DEF MadeFor
  <1>19. ServerLinks'
    BY <1>3, <1>4, <1>5, <1>9, <1>10 DEF ServerLinks
  <1>20. ClientLinks'
    BY <1>4, <1>5 DEF ClientLinks
  <1>21. UnderWay'
    <2>1. ASSUME NEW e, e = r PROVE UnderWay!(e)'
      BY <2>1, <1>1, <1>5, <1>10, <1>11
    <2>2. ASSUME NEW e \in net PROVE UnderWay!(e)'
      BY <1>1, <1>4, <1>5 DEF UnderWay
    <2> QED
      BY <1>2, <2>1, <2>2 DEF UnderWay
  <1>22. Hands'
    <2>1. ASSUME NEW e \in net', e.body = "hand" PROVE e \in net
      BY <1>2, <1>11, <2>1
    <2>2. ASSUME NEW e \in net', e.body = "hand" PROVE HandTwice(e.no)' \/ For(e.no)' = {}
      <3>1. HandTwice(e.no) \/ For(e.no) = {}
        BY <2>1, <2>2 DEF Hands
      <3>2. CASE e.no = d.no
        BY <1>1, <1>15, <2>1, <2>2, <3>2 DEF Hands
      <3>3. CASE e.no # d.no
        BY <1>5, <1>10, <1>12, <3>1, <3>3 DEF For
      <3> QED
        BY <3>2, <3>3
    <2> QED
      BY <2>1, <2>2 DEF Hands
  <1>23. OneServer'
    BY <1>5, <1>10, <1>12, <1>15 DEF OneServer, For
  <1>24. Replies'
    <2>1. ASSUME d.from \in DOMAIN links', links'[d.from].key # 0 PROVE Doubled(d.no)'
      <3>1. d.from \in DOMAIN links /\ links[d.from].key # 0
        BY <1>4, <1>7, <2>1
      <3>2. \E s \in DOMAIN made : made[s].no = d.no
        BY <1>7, <3>1 DEF ClientLinks
      <3> QED
        BY <1>14, <1>15, <3>2 DEF For
    <2>2. ASSUME NEW e \in net, e.body = "reply" PROVE e.to # p
      BY <1>1, <2>2 DEF UnderWay, MadeFor
    <2> QED
      BY <1>2, <1>4, <1>11, <1>13, <2>1, <2>2 DEF Replies
  <1>25. OwnData'
    BY <1>1, <1>4, <1>9, <1>13 DEF OwnData
  <1> QED
    BY <1>16, <1>17, <1>18, <1>19, <1>20, <1>21, <1>22, <1>23, <1>24, <1>25

\* What a link keeps when it reads, and what may become of its key and of odd.
LEMMA OnRead ==
    ASSUME kind \in Kinds, NEW l \in LinkRecord, NEW d \in Datagrams, d.no = l.no,
           NEW m, m = on_read(l, d)
    PROVE  /\ m \in LinkRecord
           /\ m.server = l.server /\ m.no = l.no /\ m.addr = l.addr /\ m.pings = l.pings
           /\ m.key = l.key \/ m.key = 0 \/ (d.body = "reply" /\ m.key = d.key)
           /\ \/ m.odd = l.odd
              \/ /\ m.odd = l.odd \cup {"reply"} /\ m.key = l.key
                 /\ d.body = "reply" /\ kind = "udp" /\ l.key # 0
  <1>1. CASE ~is_connected(l) /\ d.body = "reply"
    <2> DEFINE j == [l EXCEPT !.key = d.key]
    <2>1. m = init_kcp(j)
      BY <1>1 DEF on_read, on_hand
    <2>2. /\ j \in LinkRecord /\ j.server = l.server /\ j.no = l.no /\ j.addr = l.addr
          /\ j.pings = l.pings /\ j.key = d.key /\ j.odd = l.odd
      BY DEF LinkRecord, Datagrams
    <2> HIDE DEF j
    <2>3. m = j \/ m = [j EXCEPT !.conv = j.key]
      BY <2>1 DEF init_kcp
    <2>4. ASSUME NEW i, i = [j EXCEPT !.conv = j.key]
          PROVE  /\ i \in LinkRecord /\ i.server = j.server /\ i.no = j.no /\ i.addr = j.addr
                 /\ i.pings = j.pings /\ i.key = j.key /\ i.odd = j.odd
      BY <2>2, <2>4 DEF LinkRecord
    <2> QED
      BY <1>1, <2>2, <2>3, <2>4
  <1>2. CASE ~is_connected(l) /\ d.body # "reply"
    <2>1. m = [l EXCEPT !.key = 0]
      BY <1>2 DEF on_read, on_hand
    <2>2. /\ m \in LinkRecord /\ m.server = l.server /\ m.no = l.no /\ m.addr = l.addr
          /\ m.pings = l.pings /\ m.key = 0 /\ m.odd = l.odd
      BY <2>1 DEF LinkRecord
    <2> QED
      BY <2>2
  <1>3. CASE is_connected(l)
    <2>1. CASE kind = "kcp" /\ (d.body # "data" \/ d.key # l.conv)
      BY <1>3, <2>1 DEF on_read
    <2>2. CASE ~(kind = "kcp" /\ (d.body # "data" \/ d.key # l.conv))
      <3>1. m = [l EXCEPT !.odd = l.odd \cup Oddly(l, d)]
        BY <1>3, <2>2 DEF on_read
      <3>2. Oddly(l, d) = IF d.body = "reply" THEN {"reply"} ELSE {}
        BY DEF Oddly
      <3>3. d.body = "reply" => kind = "udp" /\ l.key # 0
        BY <1>3, <2>2, HandshakeAssumption DEF is_connected
      <3>4. Oddly(l, d) \subseteq {"reply", "stray"}
        BY <3>2
      <3>5. /\ m \in LinkRecord /\ m.server = l.server /\ m.no = l.no /\ m.addr = l.addr
            /\ m.pings = l.pings /\ m.key = l.key /\ m.odd = l.odd \cup Oddly(l, d)
        BY <3>1, <3>4 DEF LinkRecord
      <3> QED
        BY <3>2, <3>3, <3>5
    <2> QED
      BY <2>1, <2>2
  <1> QED
    BY <1>1, <1>2, <1>3

LEMMA ReadDataStep == ASSUME Inv, NEW d \in net, read_data(d) PROVE Inv'
  <1> USE DEF Inv
  <1> DEFINE p == d.to
             l == links[p]
             k == [l EXCEPT !.addr = d.from, !.pings = 0]
             m == on_read(k, d)
  <1>1. /\ p \in DOMAIN links /\ links' = [links EXCEPT ![p] = m]
        /\ net' \subseteq net
        /\ twice \subseteq twice' /\ twice' \subseteq twice \cup {d}
        /\ d \notin net' \/ d.body = "data" \/ d \in twice'
        /\ UNCHANGED <<kind, bound, made, serial>>
    BY ArrivesFacts DEF read_data
  <1>2. d \in Datagrams /\ l \in LinkRecord /\ p \in bound /\ p # Listener
    BY <1>1, Constants DEF TypeOK
  \* Only links made for each other write to each other.
  <1>3. /\ d.no = l.no
        /\ d.from \in DOMAIN made => p \notin DOMAIN made /\ made[d.from].port = p
        /\ p \in DOMAIN made => d.from = made[p].port /\ d.body = "data"
        /\ p \notin DOMAIN made =>
              /\ d.from \in DOMAIN made /\ made[d.from].no = d.no
              /\ d.body = "reply" => d.key = made[d.from].key
    <2>1. CASE d.from \in DOMAIN made
      BY <1>1, <2>1 DEF UnderWay, MadeFor
    <2>2. CASE d.from \notin DOMAIN made
      <3>1. p \in DOMAIN made /\ made[p].port = d.from /\ made[p].no = d.no
        BY <1>2, <2>2 DEF UnderWay
      <3>2. d.body = "data"
        BY <1>2, <2>2 DEF UnderWay, Datagrams, Body
      <3> QED
        BY <1>1, <2>2, <3>1, <3>2 DEF ServerLinks
    <2> QED
      BY <2>1, <2>2
  <1>4. /\ m \in LinkRecord
        /\ m.server = l.server /\ m.no = l.no /\ m.addr = d.from /\ m.pings = 0
        /\ m.key = l.key \/ m.key = 0 \/ (d.body = "reply" /\ m.key = d.key)
        /\ \/ m.odd = l.odd
           \/ /\ m.odd = l.odd \cup {"reply"} /\ m.key = l.key
              /\ d.body = "reply" /\ kind = "udp" /\ l.key # 0
    <2>1. d.from \in Ports \cup {Listener} /\ 0 \in 0..(PingOut + 1)
      BY <1>2, Constants DEF Datagrams
    <2>2. /\ k \in LinkRecord /\ k.server = l.server /\ k.no = l.no /\ k.addr = d.from
          /\ k.pings = 0 /\ k.key = l.key /\ k.odd = l.odd
      BY <1>2, <2>1 DEF LinkRecord
    <2>3. kind \in Kinds /\ d \in Datagrams /\ d.no = k.no
      BY <1>2, <1>3, <2>2 DEF TypeOK
    <2> HIDE DEF k
    <2>4. m = on_read(k, d)
      OBVIOUS
    <2> HIDE DEF m
    <2> QED
      BY <2>2, <2>3, <2>4, OnRead
  <1> HIDE DEF m
  <1>5. /\ DOMAIN links' = DOMAIN links /\ links'[p] = m
        /\ \A q \in DOMAIN links : q # p => links'[q] = links[q]
    BY <1>1
  <1>6. Datagrams' = Datagrams /\ LinkRecord' = LinkRecord
    BY <1>1, Same
  <1>7. ASSUME NEW no PROVE HandTwice(no) => HandTwice(no)'
    BY <1>1 DEF HandTwice
  <1>8. ASSUME NEW no PROVE Doubled(no) => Doubled(no)'
    BY <1>1 DEF Doubled
  <1>9. TypeOK'
    <2>1. \A q \in DOMAIN links' : links'[q] \in LinkRecord'
      BY <1>4, <1>5, <1>6 DEF TypeOK
    <2>2. net' \subseteq Datagrams' /\ twice' \subseteq Datagrams'
      BY <1>1, <1>2, <1>6 DEF TypeOK
    <2> QED
      BY <1>1, <1>5, <2>1, <2>2 DEF TypeOK
  <1>10. Asked'
    BY <1>4, <1>5, Constants DEF Asked
  <1>11. MadeFor'
    BY <1>1, <1>4, <1>5 DEF MadeFor
  <1>12. ServerLinks'
    BY <1>1, <1>3, <1>4, <1>5 DEF ServerLinks
  <1>13. ClientLinks'
    <2>1. ASSUME p \notin DOMAIN made PROVE ClientLinks!(p)'
      <3>1. d.from # Listener /\ d.from \in DOMAIN made /\ made[d.from].port = p
        BY <1>2, <1>3, <2>1, Constants DEF Datagrams
      <3>2. m.key # 0 => \E s \in DOMAIN made : /\ made[s].no = l.no /\ made[s].port = p
                                               /\ made[s].key = m.key
        BY <1>1, <1>3, <1>4, <2>1 DEF ClientLinks
      <3> QED
        BY <1>1, <1>4, <1>5, <3>1, <3>2
    <2> QED
      BY <1>1, <1>5, <2>1 DEF ClientLinks
  <1>14. UnderWay'
    BY <1>1, <1>4, <1>5 DEF UnderWay
  <1>15. Hands'
    BY <1>1, <1>7 DEF Hands, For
  <1>16. OneServer'
    BY <1>1, <1>7 DEF OneServer
  <1>17. Replies'
    <2> SUFFICES ASSUME NEW e \in net', e.body = "reply", e.to \in DOMAIN links',
                        links'[e.to].key # 0
                 PROVE  Doubled(e.no)'
      BY DEF Replies
    <2>1. CASE links[e.to].key # 0
      BY <1>1, <1>5, <1>8, <2>1 DEF Replies
    <2>2. CASE links[e.to].key = 0
      <3>1. e \in net /\ e.to = p /\ d.body = "reply" /\ p \notin DOMAIN made
        BY <1>1, <1>3, <1>4, <1>5, <2>2
      <3>2. /\ e.from \in DOMAIN made /\ made[e.from].no = e.no /\ made[e.from].port = p
            /\ e.key = made[e.from].key /\ e.no = l.no
        BY <1>1, <3>1 DEF UnderWay, MadeFor
      <3>3. CASE e.from = d.from
        <4>1. e = d
          BY <1>2, <1>3, <3>1, <3>2, <3>3 DEF Datagrams, TypeOK
        <4> QED
          BY <1>1, <3>1, <4>1 DEF Doubled
      <3>4. CASE e.from # d.from
        <4>1. HandTwice(e.no)
          BY <1>3, <3>1, <3>2, <3>4 DEF OneServer
        <4> QED
          BY <1>8, <4>1 DEF HandTwice, Doubled
      <3> QED
        BY <3>3, <3>4
    <2> QED
      BY <2>1, <2>2
  <1>18. OwnData'
    <2>1. OwnData!(p)'
      <3>1. d.body = "reply" /\ l.key # 0 => Doubled(l.no)
        BY <1>1, <1>3 DEF Replies
      <3> QED
        BY <1>1, <1>4, <1>5, <1>8, <3>1 DEF OwnData
    <2>2. ASSUME NEW q \in DOMAIN links, q # p PROVE OwnData!(q)'
      BY <1>1, <1>5, <1>8, <2>2 DEF OwnData
    <2> QED
      BY <1>5, <2>1, <2>2 DEF OwnData
  <1> QED
    BY <1>9, <1>10, <1>11, <1>12, <1>13, <1>14, <1>15, <1>16, <1>17, <1>18

-----------------------------------------------------------------------------
\* An inductive invariant.
LEMMA InvNext == Inv /\ [Next]_vars => Inv'
  <1> SUFFICES ASSUME Inv, [Next]_vars PROVE Inv'
    OBVIOUS
  <1>1. ASSUME NEW p \in Ports,
               connect(p) \/ write_data(p) \/ check_tick(p) \/ disconnect(p) \/ remove_link(p)
        PROVE  Inv'
    BY <1>1, ConnectStep, WriteDataStep, TickStep, DisconnectStep, RemoveStep
  <1>2. ASSUME NEW d \in net, accept_fails(d) \/ read_data(d) \/ lose(d) PROVE Inv'
    BY <1>2, GoneStep, ReadDataStep
  <1>3. ASSUME NEW d \in net, NEW p \in Ports, NEW key \in Keys, accept(d, p, key) PROVE Inv'
    BY <1>3, AcceptStep
  <1>4. ASSUME UNCHANGED vars PROVE Inv'
    BY <1>4 DEF vars, Inv, TypeOK, Asked, MadeFor, ServerLinks, ClientLinks, UnderWay, Hands,
        OneServer, Replies, OwnData, Datagrams, LinkRecord, HandTwice, Doubled, For
  <1> QED
    BY <1>1, <1>2, <1>3, <1>4 DEF Next

LEMMA InvPaired == Inv => Paired
  <1> SUFFICES ASSUME Inv, NEW p \in DOMAIN links PROVE Paired!(p)
    BY DEF Paired
  <1> USE DEF Inv
  <1>1. CASE links[p].server
    BY <1>1 DEF ServerLinks
  <1>2. CASE ~links[p].server /\ is_connected(links[p])
    <2> DEFINE l == links[p]
    <2>1. p \notin DOMAIN made /\ l.key # 0
      BY <1>2 DEF ServerLinks, is_connected
    <2>2. l.addr \in DOMAIN made /\ made[l.addr].port = p /\ made[l.addr].no = l.no
      BY <2>1 DEF ClientLinks, MadeFor
    <2>3. \E s \in For(l.no) : made[s].key = l.key /\ made[s].port = p
      BY <2>1 DEF ClientLinks, For
    <2>4. For(l.no) = {l.addr} \/ HandTwice(l.no)
      BY <2>2 DEF OneServer, For
    <2> QED
      BY <1>2, <2>2, <2>3, <2>4 DEF For, HandTwice
  <1> QED
    BY <1>1, <1>2

\* The records of the links, the keys and the datagrams are as TypeOK says, and no
\* link is asked more than LP_PINGOUT times and once in vain, for any ports and keys.
THEOREM HandshakeTypeOK == Spec => []TypeOK
  BY InvInit, InvNext, PTL DEF Spec, Inv

\* Whatever the network loses, doubles and reorders, a connected client has the key
\* of a link that accept made for it and for none before it, and sends to such a link.
THEOREM HandshakePaired == Spec => []Paired
  BY InvInit, InvNext, InvPaired, PTL DEF Spec

\* A program reads nothing of another conversation, and replies as data only over
\* UDP, when the network has doubled a hand or a reply.
THEOREM HandshakeOwnData == Spec => []OwnData
  BY InvInit, InvNext, PTL DEF Spec, Inv
=============================================================================
