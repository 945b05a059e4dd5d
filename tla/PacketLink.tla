------------------------------- MODULE PacketLink -------------------------------
(***************************************************************************)
(* SocketServer and SocketClient: packets of a header and a body over TCP  *)
(* connections, with boost::asio.  The server's handlers run one at a time *)
(* on the thread that called start(), a client's on a thread of its own    *)
(* that disconnect() kills; the client is called from its owner's thread.  *)
(*                                                                         *)
(* asio, on a reactor, is external: a write is tried at once when no other *)
(* waits, goes on when the socket has room, and what a partial write left  *)
(* goes behind the writes that wait.  The server's application relays.     *)
(*                                                                         *)
(* SocketClient names a type PacketHeader that no file defines: it is      *)
(* taken for the first HEADER_SIZE bytes of a Packet, as on the server.    *)
(***************************************************************************)
EXTENDS Naturals, FiniteSets, SequencesExt

CONSTANTS
    Clients,      \* SocketClient objects
    MaxConns,     \* bound on the connections
    Sizes,        \* sizes of the data that a packet is made of
    MaxPackets,   \* bound on the packets the clients send
    MaxRelays,    \* bound on the writes of the server
    MaxBig,       \* bound on those whose data is above PACKET_LIMIT
    MaxBreaks,    \* bound on the connections that break
    Room          \* parts of packets the sockets of one direction hold

ASSUME PacketLinkAssumption ==
    /\ {MaxConns, MaxPackets, MaxRelays, MaxBig, MaxBreaks, Room} \subseteq Nat
    /\ Sizes \subseteq Nat

HEADER_SIZE == 3
PACKET_LIMIT == 32768

Conns == 1 .. MaxConns
Ends == {"client", "server"}
Peer(e) == IF e = "client" THEN "server" ELSE "client"

VARIABLES
    conn,        \* per client: the connection of socket_, 0 before the first
    alive,       \* connections whose simple_thread_ has not been killed
    used,        \* connections made
    packets,     \* packets sent by clients
    closed,      \* connections the client has closed
    broken,      \* connections the network has broken
    read,        \* per connection and end: the read that is under way
    chan,        \* per connection and end: what that end writes
    received,    \* per connection and end: packets given to on_received_
    told,        \* per connection and end: calls of on_disconnected_
    listed,      \* connection_list_
    over,        \* history: connections with a packet above PACKET_LIMIT
    refused      \* history, per connection and end: writes that failed

local == <<conn, alive, used>>
vars == <<local, packets, closed, broken, read, chan, received, told, listed, over, refused>>

Each(x) == [k \in Conns |-> [e \in Ends |-> x]]

Init ==
    /\ conn = [c \in Clients |-> 0] /\ alive = {}
    /\ used = 0 /\ packets = 0
    /\ closed = {} /\ broken = {}
    /\ read = Each("none")
    /\ chan = Each([wire |-> <<>>, waiting |-> <<>>, posted |-> <<>>, late |-> FALSE])
    /\ received = Each(<<>>) /\ told = Each(0) /\ refused = Each(0)
    /\ listed = {} /\ over = {}

-----------------------------------------------------------------------------
(* Writing: do_send() of either side                                       *)

\* The write at the front puts in what there is room for.
Flushed(ch) ==
    LET w == Head(ch.waiting)
        n == Min({Room - Len(ch.wire), Len(w.parts)})
        left == SubSeq(w.parts, n + 1, Len(w.parts))
    IN [ch EXCEPT !.wire = @ \o [i \in 1 .. n |-> [part |-> w.parts[i], packet |-> w.packet]],
                  !.waiting = IF left = <<>> THEN Tail(@)
                              ELSE Append(Tail(@), [w EXCEPT !.parts = left])]

\* The first packet_size bytes of a packet: nothing, less than a header, or a
\* header and a body.
Parts(p) ==
    CASE p.packet_size = 0 -> <<>>
      [] p.packet_size \in 1 .. HEADER_SIZE - 1 -> <<"torn">>
      [] OTHER -> <<"head", "body">>

\* async_write(): what it cannot put in at once is read from the packet later,
\* when the caller may have freed it or read another into it.  A write of no
\* bytes is done at once.
Posted(ch, p) ==
    LET queued == [ch EXCEPT !.waiting = Append(@, [packet |-> p, parts |-> Parts(p)])]
        tried == CASE Parts(p) = <<>> -> ch
                   [] ch.waiting = <<>> -> Flushed(queued)
                   [] OTHER -> queued
    IN [tried EXCEPT !.posted = Append(@, p), !.late = @ \/ tried.waiting # <<>>]

-----------------------------------------------------------------------------
(* The client's owner                                                      *)

\* The thread is killed between any two of its handlers, then the socket closed;
\* with no thread nobody tells the two apart.
Closed(c) == {conn[c]} \ {0}

Disconnect(c) ==
    /\ conn[c] # 0 /\ conn[c] \notin closed
    /\ alive' = alive \ Closed(c)
    /\ closed' = closed \union Closed(c)
    /\ UNCHANGED <<conn, used, packets, broken, read, chan, received, told, listed, over, refused>>

\* connect() begins with disconnect().
Connect(c) ==
    /\ used < MaxConns
    /\ used' = used + 1
    /\ conn' = [conn EXCEPT ![c] = used + 1]
    /\ alive' = (alive \ Closed(c)) \union {used + 1}
    /\ closed' = closed \union Closed(c)
    /\ read' = [read EXCEPT ![used + 1]["client"] = "connect"]
    /\ UNCHANGED <<packets, broken, chan, received, told, listed, over, refused>>

\* create_packet() takes what is above the limit; packet_size is an unsigned short.
create_packet(size) ==
    [id |-> packets + 1, size |-> size, packet_size |-> (size + HEADER_SIZE) % 65536]

\* send(), from on_connected_ on.
Send(c) ==
    /\ conn[c] # 0 /\ conn[c] \notin closed /\ packets < MaxPackets
    /\ read[conn[c]]["client"] \notin {"connect", "failed", "off"}
    /\ packets' = packets + 1
    /\ \E size \in Sizes :
           /\ size > PACKET_LIMIT => packets < MaxBig
           /\ chan' = [chan EXCEPT ![conn[c]]["client"] = Posted(@, create_packet(size))]
    /\ UNCHANGED <<local, closed, broken, read, received, told, listed, over, refused>>

-----------------------------------------------------------------------------
(* Handlers                                                                *)

\* The thread that runs the handlers of an end.
Runs(k, e) == e = "client" => k \in alive

\* ~Connection() closes the server's socket with the last handler.
Gone(k, e) ==
    IF e = "client" THEN k \in closed
    ELSE read[k]["server"] = "off" /\ chan[k]["server"].waiting = <<>>

ConnectHandler(k) ==
    /\ Runs(k, "client") /\ read[k]["client"] = "connect"
    /\ \E result \in {"header", "failed"} : read' = [read EXCEPT ![k]["client"] = result]
    /\ UNCHANGED <<local, packets, closed, broken, chan, received, told, listed, over, refused>>

\* Connection::start(): the first read.
StartConnection(k) == read' = [read EXCEPT ![k]["server"] = "header"]

\* fire_connected_event().
List(k) == listed' = listed \union {k}

\* handle_accept(); another accept follows.
Accept(k) ==
    /\ read[k]["server"] = "none"
    /\ read[k]["client"] \notin {"none", "connect", "failed"}
    /\ List(k)
    /\ StartConnection(k)
    /\ UNCHANGED <<local, packets, closed, broken, chan, received, told, over, refused>>

\* fire_disconnected_event() of the server.
Unlist(k) == listed' = listed \ {k} /\ UNCHANGED closed

\* do_disconnect() of the client.
CloseSocket(k) == closed' = closed \union {k} /\ UNCHANGED listed

\* What an end does when it takes the connection for lost.
Drop(k, e) ==
    /\ told' = [told EXCEPT ![k][e] = @ + 1]
    /\ IF e = "client" THEN CloseSocket(k) ELSE Unlist(k)
NoDrop == UNCHANGED <<told, closed, listed>>

Incoming(k, e) == chan[k][Peer(e)].wire
CanRead(k, e) == Runs(k, e) /\ k \notin broken /\ Incoming(k, e) # <<>> /\ (e = "client" => k \notin closed)
Taken(k, e) == [chan EXCEPT ![k][Peer(e)].wire = Tail(@)]

\* What follows the header that was read is its body.
BodyNext(k, e) == Head(Incoming(k, e)).part = "body"

\* Less than a header comes, and what follows is read as the rest of it.
Torn(k, e) == Head(Incoming(k, e)).part = "torn"

\* The server reports a packet above the limit as the end, and reads on.
TooBig(k) == Drop(k, "server") /\ over' = over \union {k}
NotTooBig == NoDrop /\ UNCHANGED over

ReadHeader(k, e) ==
    /\ read[k][e] = "header" /\ CanRead(k, e) /\ ~Torn(k, e)
    /\ chan' = Taken(k, e)
    /\ read' = [read EXCEPT ![k][e] = "body"]
    /\ IF e = "server" /\ Head(Incoming(k, e)).packet.packet_size > PACKET_LIMIT
       THEN TooBig(k)
       ELSE NotTooBig
    /\ UNCHANGED <<local, packets, broken, received, refused>>

\* sendToAll(), sendToOther() or sendToUserID() by the server's on_received_, or
\* none of them.
Targets(k) ==
    LET written == FoldSet(LAMBDA o, n : n + Len(chan[o]["server"].posted), 0, Conns)
    IN {t \in {{}, listed, listed \ {k}} \union {{o} : o \in listed} :
            t = {} \/ written + Cardinality(t) <= MaxRelays}

\* mutant: goes on with a body
ReadBodyAgain(k, e) ==
    /\ read[k][e] = "body" /\ CanRead(k, e) /\ BodyNext(k, e)
    /\ received' = [received EXCEPT ![k][e] = Append(@, Head(Incoming(k, e)).packet)]
    /\ chan' = Taken(k, e)
    /\ NoDrop
    /\ UNCHANGED <<read, local, packets, broken, over, refused>>

ReadBody(k, e) ==
    /\ read[k][e] = "body" /\ CanRead(k, e) /\ BodyNext(k, e)
    /\ LET p == Head(Incoming(k, e)).packet
       IN /\ received' = [received EXCEPT ![k][e] = Append(@, p)]
          /\ \E targets \in IF e = "server" THEN Targets(k) ELSE {{}} :
                 chan' = [o \in Conns |-> IF o \in targets
                                          THEN [Taken(k, e)[o] EXCEPT !["server"] = Posted(@, p)]
                                          ELSE Taken(k, e)[o]]
    /\ read' = [read EXCEPT ![k][e] = "header"]
    /\ NoDrop
    /\ UNCHANGED <<local, packets, broken, over, refused>>

\* Something else in the place of a header or of a body: from here on sizes are
\* read from what are none.  What is given to on_received_ then is left out.
ReadOther(k, e) ==
    /\ CanRead(k, e)
    /\ \/ read[k][e] = "header" /\ Torn(k, e) /\ NotTooBig
       \/ read[k][e] = "body" /\ ~BodyNext(k, e) /\ NotTooBig
       \/ read[k][e] = "lost" /\ (NotTooBig \/ (e = "server" /\ TooBig(k)))
    /\ chan' = Taken(k, e)
    /\ read' = [read EXCEPT ![k][e] = "lost"]
    /\ UNCHANGED <<local, packets, broken, received, refused>>

Ended(k, e) ==
    \/ k \in broken
    \/ e = "client" /\ k \in closed
    \/ Gone(k, Peer(e)) /\ Incoming(k, e) = <<>>

\* mutant: reports the end and reads on, as it does above the limit
ReadFailsReadsOn(k, e) ==
    /\ read[k][e] \in {"header", "body", "lost"} /\ Runs(k, e) /\ Ended(k, e)
    /\ told[k][e] < 3
    /\ Drop(k, e)
    /\ UNCHANGED <<read, local, packets, broken, chan, received, over, refused>>

\* mutant: an end in the middle of a packet is not reported
ReadFailsSilently(k, e) ==
    /\ read[k][e] \in {"header", "body", "lost"} /\ Runs(k, e) /\ Ended(k, e)
    /\ read' = [read EXCEPT ![k][e] = "off"]
    /\ IF read[k][e] = "body" THEN NoDrop ELSE Drop(k, e)
    /\ UNCHANGED <<local, packets, broken, chan, received, over, refused>>

ReadFails(k, e) ==
    /\ read[k][e] \in {"header", "body", "lost"} /\ Runs(k, e) /\ Ended(k, e)
    /\ read' = [read EXCEPT ![k][e] = "off"]
    /\ Drop(k, e)
    /\ UNCHANGED <<local, packets, broken, chan, received, over, refused>>

WriteSome(k, e) ==
    /\ chan[k][e].waiting # <<>> /\ Runs(k, e)
    /\ Len(chan[k][e].wire) < Room
    /\ k \notin closed \union broken /\ ~Gone(k, Peer(e))
    /\ chan' = [chan EXCEPT ![k][e] = Flushed(@)]
    /\ UNCHANGED <<local, packets, closed, broken, read, received, told, listed, over, refused>>

\* handle_write() with an error, for each write that waits.
WriteFails(k, e) ==
    /\ chan[k][e].waiting # <<>> /\ Runs(k, e)
    /\ k \in closed \union broken \/ Gone(k, Peer(e))
    /\ chan' = [chan EXCEPT ![k][e].waiting = Tail(@)]
    /\ refused' = [refused EXCEPT ![k][e] = @ + 1]
    /\ Drop(k, e)
    /\ UNCHANGED <<local, packets, broken, read, received, over>>

Handler(k, e) ==
    \/ ReadHeader(k, e) \/ ReadBody(k, e) \/ ReadOther(k, e) \/ ReadFails(k, e)
    \/ WriteSome(k, e) \/ WriteFails(k, e)

Break(k) ==
    /\ read[k]["server"] # "none" /\ Cardinality(broken) < MaxBreaks
    /\ broken' = broken \union {k}
    /\ UNCHANGED <<local, packets, closed, read, chan, received, told, listed, over, refused>>

Next ==
    \/ \E c \in Clients : Disconnect(c) \/ Connect(c) \/ Send(c)
    \/ \E k \in Conns : ConnectHandler(k) \/ Accept(k) \/ Break(k) \/ \E e \in Ends : Handler(k, e)

Spec == Init /\ [][Next]_vars

\* The server's thread serves every socket that is ready.  Nothing is assumed of
\* the clients' threads, which may be killed.
FairSpec == Spec /\ \A k \in Conns : WF_vars(Accept(k)) /\ WF_vars(Handler(k, "server"))

-----------------------------------------------------------------------------
(* Properties                                                              *)

\* A write did not find room at once, or was of a packet whose data is so long
\* that packet_size went round to less than a header.
Amiss(ch) == ch.late \/ \E i \in DOMAIN ch.posted : ch.posted[i].packet_size < HEADER_SIZE

\* The packets arrive in the order of the sends, none missing between two others,
\* and the framing is never lost, as long as nothing is amiss: then no two writes
\* of one connection overlap, whoever starts them.  What arrives of a packet is
\* what its packet_size says: all of its data up to 65532 bytes, and of more what
\* is left above 65536, with nobody told.
PacketsInOrder ==
    \A k \in Conns, e \in Ends :
        \/ Amiss(chan[k][e])
        \/ /\ IsPrefix(received[k][Peer(e)], chan[k][e].posted)
           /\ read[k][Peer(e)] # "lost"
           /\ \A p \in Range(received[k][Peer(e)]) :
                 p.packet_size = p.size + HEADER_SIZE <=> p.size + HEADER_SIZE < 65536

\* The server lists a connection until it has reported its end.  Each end
\* reports it once, and again for each write that failed; the server also for a
\* packet above the limit.
EndReportedOnce ==
    \A k \in Conns :
        /\ k \in listed <=> read[k]["server"] # "none" /\ told[k]["server"] = 0
        /\ told[k]["client"] <= 1 + refused[k]["client"]
        /\ k \notin over => told[k]["server"] <= 1 + refused[k]["server"]

\* A client that is gone, by disconnect(), by an error or by a connect() to
\* another connection, does not stay in connection_list_.
GoneIsNoticed == \A k \in Conns : k \in closed /\ k \in listed ~> k \notin listed

=============================================================================
