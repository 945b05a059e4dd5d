---------------------------- MODULE PacketLinkProofs ----------------------------
(***************************************************************************)
(* Theorems about PacketLink, for any number of clients, connections and   *)
(* packets, any size of the sockets and any choice of what breaks.         *)
(***************************************************************************)
EXTENDS PacketLink, SequenceTheorems, TLAPS

-------------------------------------------------------------------------------
(* Channels                                                                *)

Packet ==
    {p \in [id : Nat, size : Nat, packet_size : Nat] : p.packet_size = (p.size + HEADER_SIZE) % 65536}
Part == {"head", "body", "torn"}
Piece == [part : Part, packet : Packet]
Pending == [packet : Packet, parts : Seq(Part)]

\* What an end writes; the sockets hold what they have room for.
Channel ==
    {ch \in [wire : Seq(Piece), waiting : Seq(Pending), posted : Seq(Packet), late : BOOLEAN] :
        Len(ch.wire) <= Room}

LEMMA Bounds == MaxConns \in Nat /\ MaxPackets \in Nat /\ Room \in Nat
BY PacketLinkAssumption

LEMMA MinOfTwo == \A a, b \in Int : Min({a, b}) = IF a <= b THEN a ELSE b
<1> SUFFICES ASSUME NEW a \in Int, NEW b \in Int
             PROVE  Min({a, b}) = IF a <= b THEN a ELSE b
    OBVIOUS
<1> DEFINE m == IF a <= b THEN a ELSE b
<1>1. m \in {a, b} /\ \A y \in {a, b} : m <= y
    OBVIOUS
<1>2. \A x \in {a, b} : (\A y \in {a, b} : x <= y) => x = m
    OBVIOUS
<1> QED
    BY <1>1, <1>2 DEF Min

\* What the operators on sequences do, in the form in which they are used below.
LEMMA ConcatFacts ==
    ASSUME NEW S, NEW s \in Seq(S), NEW t \in Seq(S), NEW m, NEW n, m = Len(s), n = Len(t)
    PROVE  /\ s \o t \in Seq(S) /\ Len(s \o t) = m + n
           /\ \A i \in 1 .. m : (s \o t)[i] = s[i]
           /\ \A i \in 1 .. n : (s \o t)[m + i] = t[i]
<1>1. m \in Nat /\ n \in Nat
    BY LenProperties
<1>2. /\ s \o t \in Seq(S) /\ Len(s \o t) = m + n
      /\ \A i \in 1 .. m + n : (s \o t)[i] = IF i <= m THEN s[i] ELSE t[i - m]
    BY ConcatProperties
<1>3. \A i \in 1 .. m : (s \o t)[i] = s[i]
    BY <1>1, <1>2
<1>4. ASSUME NEW i \in 1 .. n PROVE (s \o t)[m + i] = t[i]
    <2>1. m + i \in 1 .. m + n /\ ~(m + i <= m) /\ (m + i) - m = i
        BY <1>1
    <2> QED
        BY <1>2, <2>1
<1> QED
    BY <1>2, <1>3, <1>4

LEMMA AppendNotEmpty ==
    ASSUME NEW S, NEW s \in Seq(S), NEW e \in S
    PROVE  Append(s, e) # <<>> /\ Append(s, e) \in Seq(S)
BY AppendProperties

LEMMA PeerIsEnd == \A e \in Ends : Peer(e) \in Ends /\ Peer(Peer(e)) = e /\ Peer(e) # e
BY DEF Ends, Peer

\* The pieces of a packet, and what a write leaves when n of its parts are in.
Pieces(w, n) == [i \in 1 .. n |-> [part |-> w.parts[i], packet |-> w.packet]]

LEMMA PiecesType ==
    ASSUME NEW w \in Pending, NEW n \in Nat, n <= Len(w.parts)
    PROVE  /\ Pieces(w, n) \in Seq(Piece)
           /\ Len(Pieces(w, n)) = n
           /\ SubSeq(w.parts, n + 1, Len(w.parts)) \in Seq(Part)
           /\ Len(SubSeq(w.parts, n + 1, Len(w.parts))) = Len(w.parts) - n
<1>1. w.parts \in Seq(Part) /\ w.packet \in Packet /\ Len(w.parts) \in Nat
    BY DEF Pending
<1>2. \A i \in 1 .. n : [part |-> w.parts[i], packet |-> w.packet] \in Piece
    BY <1>1, ElementOfSeq DEF Piece
<1>3. Pieces(w, n) \in Seq(Piece) /\ Len(Pieces(w, n)) = n
    BY <1>2 DEF Pieces
<1>4. \A i \in n + 1 .. Len(w.parts) : w.parts[i] \in Part
    BY <1>1, ElementOfSeq
<1>5. /\ SubSeq(w.parts, n + 1, Len(w.parts)) \in Seq(Part)
      /\ Len(SubSeq(w.parts, n + 1, Len(w.parts))) = Len(w.parts) - n
    BY <1>1, <1>4, SubSeqProperties
<1> QED
    BY <1>3, <1>5

LEMMA PutPieces ==
    ASSUME NEW s \in Seq(Piece), NEW put \in Seq(Piece)
    PROVE  /\ s \o put \in Seq(Piece) /\ Len(s \o put) = Len(s) + Len(put)
           /\ \A i \in 1 .. Len(s) : (s \o put)[i] = s[i]
           /\ \A i \in 1 .. Len(put) : (s \o put)[Len(s) + i] = put[i]
BY ConcatFacts

\* A write that goes on fills the sockets and never over-fills them, and leaves
\* the rest behind the others.
LEMMA FlushedAs ==
    ASSUME NEW ch \in Channel, ch.waiting # <<>>
    PROVE  \E w \in Pending, n \in Nat :
               LET left == SubSeq(w.parts, n + 1, Len(w.parts))
               IN  /\ w = Head(ch.waiting)
                   /\ n <= Len(w.parts) /\ n <= Room - Len(ch.wire)
                   /\ Flushed(ch) = [ch EXCEPT
                          !.wire = ch.wire \o Pieces(w, n),
                          !.waiting = IF left = <<>> THEN Tail(ch.waiting)
                                      ELSE Append(Tail(ch.waiting), [w EXCEPT !.parts = left])]
<1>1. Len(ch.wire) \in Nat /\ Len(ch.wire) <= Room /\ ch.waiting \in Seq(Pending)
    BY DEF Channel
<1>2. PICK w \in Pending : w = Head(ch.waiting)
    BY <1>1, HeadTailProperties
<1>3. Len(w.parts) \in Nat
    BY DEF Pending
<1>4. PICK n \in Nat : /\ n = Min({Room - Len(ch.wire), Len(w.parts)})
                       /\ n <= Len(w.parts) /\ n <= Room - Len(ch.wire)
    <2>1. PICK free \in Nat : free = Room - Len(ch.wire)
        BY <1>1, Bounds
    <2>2. PICK parts \in Nat : parts = Len(w.parts)
        BY <1>3
    <2>3. Min({free, parts}) = IF free <= parts THEN free ELSE parts
        BY MinOfTwo
    <2> QED
        BY <2>1, <2>2, <2>3
<1>5. Flushed(ch) = [ch EXCEPT
          !.wire = ch.wire \o Pieces(w, n),
          !.waiting = IF SubSeq(w.parts, n + 1, Len(w.parts)) = <<>> THEN Tail(ch.waiting)
                      ELSE Append(Tail(ch.waiting),
                                  [w EXCEPT !.parts = SubSeq(w.parts, n + 1, Len(w.parts))])]
    BY <1>2, <1>4 DEF Flushed, Pieces
<1> QED
    BY <1>2, <1>4, <1>5

LEMMA FlushedType ==
    ASSUME NEW ch \in Channel, ch.waiting # <<>>
    PROVE  /\ Flushed(ch) \in Channel
           /\ Flushed(ch).posted = ch.posted
           /\ Flushed(ch).late = ch.late
<1>1. PICK w \in Pending, n \in Nat :
          LET left == SubSeq(w.parts, n + 1, Len(w.parts))
          IN  /\ w = Head(ch.waiting)
              /\ n <= Len(w.parts) /\ n <= Room - Len(ch.wire)
              /\ Flushed(ch) = [ch EXCEPT
                     !.wire = ch.wire \o Pieces(w, n),
                     !.waiting = IF left = <<>> THEN Tail(ch.waiting)
                                 ELSE Append(Tail(ch.waiting), [w EXCEPT !.parts = left])]
    BY FlushedAs
<1>2. PICK left \in Seq(Part) : left = SubSeq(w.parts, n + 1, Len(w.parts))
    BY <1>1, PiecesType
<1>3. /\ ch.wire \in Seq(Piece) /\ ch.waiting \in Seq(Pending)
      /\ Len(ch.wire) \in Nat
    BY DEF Channel
<1>4. PICK put \in Seq(Piece) : put = Pieces(w, n) /\ Len(put) = n
    BY <1>1, PiecesType
<1>5. ch.wire \o put \in Seq(Piece) /\ Len(ch.wire \o put) = Len(ch.wire) + n
    <2>1. ch.wire \in Seq(Piece)
        BY <1>3
    <2>2. ch.wire \o put \in Seq(Piece) /\ Len(ch.wire \o put) = Len(ch.wire) + Len(put)
        BY <2>1, PutPieces
    <2> QED
        BY <2>2, <1>4
<1>6. [w EXCEPT !.parts = left] \in Pending
    BY DEF Pending
<1>7. Tail(ch.waiting) \in Seq(Pending)
    BY <1>3, HeadTailProperties
<1>8. PICK rest \in Seq(Pending) :
          rest = IF left = <<>> THEN Tail(ch.waiting)
                 ELSE Append(Tail(ch.waiting), [w EXCEPT !.parts = left])
    BY <1>6, <1>7, AppendProperties
<1>9. Flushed(ch) = [ch EXCEPT !.wire = ch.wire \o put, !.waiting = rest]
    BY <1>1, <1>2, <1>4, <1>8
<1>10. Len(ch.wire) + n <= Room
    BY <1>1, <1>3, Bounds
<1> QED
    BY <1>5, <1>9, <1>10 DEF Channel

\* A write as it is queued.
Queued(ch, p) == [ch EXCEPT !.waiting = Append(@, [packet |-> p, parts |-> Parts(p)])]

LEMMA PartsType == \A p \in Packet : Parts(p) \in Seq(Part)
<1> SUFFICES ASSUME NEW p \in Packet PROVE Parts(p) \in Seq(Part)
    OBVIOUS
<1>1. <<>> \in Seq(Part) /\ <<"torn">> \in Seq(Part) /\ <<"head", "body">> \in Seq(Part)
    BY DEF Part
<1> QED
    BY <1>1 DEF Parts

LEMMA QueuedType ==
    ASSUME NEW ch \in Channel, NEW p \in Packet
    PROVE  /\ Queued(ch, p) \in Channel
           /\ Queued(ch, p).waiting # <<>>
           /\ Queued(ch, p).posted = ch.posted
           /\ Queued(ch, p).late = ch.late /\ Queued(ch, p).wire = ch.wire
<1>1. ch.waiting \in Seq(Pending)
    BY DEF Channel
<1>2. [packet |-> p, parts |-> Parts(p)] \in Pending
    BY PartsType DEF Pending
<1>3. /\ Append(ch.waiting, [packet |-> p, parts |-> Parts(p)]) \in Seq(Pending)
      /\ Append(ch.waiting, [packet |-> p, parts |-> Parts(p)]) # <<>>
    BY <1>1, <1>2, AppendProperties
<1> QED
    BY <1>3 DEF Queued, Channel

\* The channel after the write was tried, before it is recorded.
Tried(ch, p) ==
    CASE Parts(p) = <<>> -> ch
      [] ch.waiting = <<>> -> Flushed(Queued(ch, p))
      [] OTHER -> Queued(ch, p)

LEMMA PostedAs ==
    ASSUME NEW ch, NEW p
    PROVE  Posted(ch, p) = [Tried(ch, p) EXCEPT !.posted = Append(@, p),
                                                !.late = @ \/ Tried(ch, p).waiting # <<>>]
BY DEF Posted, Tried, Queued

LEMMA TriedType ==
    ASSUME NEW ch \in Channel, NEW p \in Packet
    PROVE  Tried(ch, p) \in Channel /\ Tried(ch, p).posted = ch.posted /\ Tried(ch, p).late = ch.late
BY QueuedType, FlushedType DEF Tried

LEMMA PostedType ==
    ASSUME NEW ch \in Channel, NEW p \in Packet
    PROVE  /\ Posted(ch, p) \in Channel
           /\ Posted(ch, p).posted = Append(ch.posted, p)
           /\ Posted(ch, p).wire = Tried(ch, p).wire
           /\ Posted(ch, p).waiting = Tried(ch, p).waiting
           /\ Posted(ch, p).late = (ch.late \/ Tried(ch, p).waiting # <<>>)
<1>1. PICK tried \in Channel : tried = Tried(ch, p) /\ tried.posted = ch.posted /\ tried.late = ch.late
    BY TriedType
<1>2. Posted(ch, p) = [tried EXCEPT !.posted = Append(@, p), !.late = @ \/ tried.waiting # <<>>]
    BY <1>1, PostedAs
<1>3. Append(ch.posted, p) \in Seq(Packet)
    BY AppendProperties DEF Channel
<1> QED
    BY <1>1, <1>2, <1>3 DEF Channel

\* What is amiss stays so, and a packet without a header is.
LEMMA PostedAmiss ==
    ASSUME NEW ch \in Channel, NEW p \in Packet, ~Amiss(Posted(ch, p))
    PROVE  ~Amiss(ch) /\ ~Posted(ch, p).late /\ p.packet_size >= HEADER_SIZE
<1>1. PICK ps \in Seq(Packet) : ps = ch.posted
    BY DEF Channel
<1>2. PICK more \in Seq(Packet) : more = Append(ps, p) /\ Len(more) = Len(ps) + 1
                                  /\ (\A i \in 1 .. Len(ps) : more[i] = ps[i]) /\ more[Len(ps) + 1] = p
    BY AppendProperties
<1>3. Posted(ch, p).posted = more /\ Posted(ch, p).late = (ch.late \/ Tried(ch, p).waiting # <<>>)
    BY <1>1, <1>2, PostedType
<1>4. ~Posted(ch, p).late /\ ~ch.late
    BY <1>3 DEF Amiss
<1>5. \A i \in 1 .. Len(ps) + 1 : ~(more[i].packet_size < HEADER_SIZE)
    BY <1>2, <1>3 DEF Amiss
<1>6. Len(ps) \in Nat /\ p.packet_size \in Nat
    BY LenProperties DEF Packet
<1>7. \A i \in 1 .. Len(ps) : ~(ps[i].packet_size < HEADER_SIZE)
    BY <1>2, <1>5, <1>6
<1>8. ~(p.packet_size < HEADER_SIZE)
    BY <1>2, <1>5, <1>6
<1> QED
    BY <1>1, <1>4, <1>6, <1>7, <1>8 DEF Amiss, HEADER_SIZE

LEMMA SameAmiss ==
    ASSUME NEW ch, NEW ch2, ch2.posted = ch.posted, ch2.late = ch.late
    PROVE  Amiss(ch2) <=> Amiss(ch)
BY DEF Amiss

\* A write that found room at once has put both its parts behind what was there.
LEMMA PostedAtOnce ==
    ASSUME NEW ch \in Channel, NEW p \in Packet, ~Amiss(Posted(ch, p))
    PROVE  /\ ~Amiss(ch) /\ Posted(ch, p).waiting = <<>>
           /\ Len(Posted(ch, p).wire) = Len(ch.wire) + 2
           /\ \A i \in 1 .. Len(ch.wire) : Posted(ch, p).wire[i] = ch.wire[i]
           /\ Posted(ch, p).wire[Len(ch.wire) + 1] = [part |-> "head", packet |-> p]
           /\ Posted(ch, p).wire[Len(ch.wire) + 2] = [part |-> "body", packet |-> p]
<1>0. Parts(p) = <<"head", "body">> /\ Parts(p) # <<>>
    <2>1. p.packet_size >= HEADER_SIZE /\ p.packet_size \in Nat
        BY PostedAmiss DEF Packet
    <2> QED
        BY <2>1 DEF Parts, HEADER_SIZE
<1>1. PICK q \in Channel : /\ q = Queued(ch, p) /\ q.waiting # <<>>
                           /\ q.wire = ch.wire /\ q.late = ch.late
    BY QueuedType
<1>2. PICK tried \in Channel : tried = Tried(ch, p)
    BY TriedType
<1>4. /\ tried.waiting = <<>> /\ ~Amiss(ch)
      /\ Posted(ch, p).wire = tried.wire /\ Posted(ch, p).waiting = tried.waiting
    BY <1>2, PostedType, PostedAmiss
<1>5. ch.waiting = <<>> /\ tried = Flushed(q)
    BY <1>0, <1>1, <1>2, <1>4 DEF Tried
<1>6. q.waiting = <<[packet |-> p, parts |-> <<"head", "body">>]>>
    <2>1. q.waiting = Append(ch.waiting, [packet |-> p, parts |-> <<"head", "body">>])
        BY <1>0, <1>1 DEF Queued, Channel
    <2> QED
        BY <2>1, <1>5
<1>7. PICK w \in Pending, n \in Nat :
          LET left == SubSeq(w.parts, n + 1, Len(w.parts))
          IN  /\ w = Head(q.waiting)
              /\ n <= Len(w.parts) /\ n <= Room - Len(q.wire)
              /\ Flushed(q) = [q EXCEPT
                     !.wire = q.wire \o Pieces(w, n),
                     !.waiting = IF left = <<>> THEN Tail(q.waiting)
                                 ELSE Append(Tail(q.waiting), [w EXCEPT !.parts = left])]
    BY <1>1, FlushedAs
<1>8. w.packet = p /\ w.parts = <<"head", "body">> /\ Len(w.parts) = 2
    BY <1>6, <1>7
<1>9. PICK left \in Seq(Part) :
          left = SubSeq(w.parts, n + 1, Len(w.parts)) /\ Len(left) = Len(w.parts) - n
    BY <1>7, PiecesType
<1>10. /\ tried.wire = q.wire \o Pieces(w, n)
       /\ tried.waiting = IF left = <<>> THEN Tail(q.waiting)
                          ELSE Append(Tail(q.waiting), [w EXCEPT !.parts = left])
    BY <1>5, <1>7, <1>9 DEF Channel
<1>11. left = <<>>
    <2>1. Tail(q.waiting) \in Seq(Pending) /\ [w EXCEPT !.parts = left] \in Pending
        BY <1>1, HeadTailProperties DEF Channel, Pending
    <2> QED
        BY <2>1, <1>4, <1>10, AppendNotEmpty
<1>12. n = 2
    <2>1. Len(left) = 0
        BY <1>11
    <2> QED
        BY <2>1, <1>8, <1>9
<1>13. PICK put \in Seq(Piece) : put = Pieces(w, n) /\ Len(put) = 2
    BY <1>7, <1>12, PiecesType
<1>14. /\ put[1] = [part |-> "head", packet |-> p]
       /\ put[2] = [part |-> "body", packet |-> p]
    BY <1>8, <1>12, <1>13 DEF Pieces
<1>15. ch.wire \in Seq(Piece) /\ tried.wire = ch.wire \o put
    BY <1>1, <1>10, <1>13 DEF Channel
<1>16. /\ Len(ch.wire \o put) = Len(ch.wire) + Len(put)
       /\ \A i \in 1 .. Len(ch.wire) : (ch.wire \o put)[i] = ch.wire[i]
       /\ \A i \in 1 .. Len(put) : (ch.wire \o put)[Len(ch.wire) + i] = put[i]
    BY <1>15, PutPieces
<1>17. 1 \in 1 .. Len(put) /\ 2 \in 1 .. Len(put)
    BY <1>13
<1>18. /\ (ch.wire \o put)[Len(ch.wire) + 1] = put[1]
       /\ (ch.wire \o put)[Len(ch.wire) + 2] = put[2]
    BY <1>16, <1>17, Zenon
<1> QED
    BY <1>4, <1>13, <1>14, <1>15, <1>16, <1>18, Zenon

-------------------------------------------------------------------------------
(* Types                                                                   *)

Reads == {"none", "connect", "header", "body", "lost", "failed", "off"}

TypeOK ==
    /\ conn \in [Clients -> 0 .. used]
    /\ used \in 0 .. MaxConns /\ packets \in Nat
    /\ read \in [Conns -> [Ends -> Reads]]
    /\ chan \in [Conns -> [Ends -> Channel]]
    /\ received \in [Conns -> [Ends -> Seq(Packet)]]
    /\ told \in [Conns -> [Ends -> Nat]] /\ refused \in [Conns -> [Ends -> Nat]]
    /\ listed \subseteq Conns

\* A table of connections and ends of which one entry is set.
LEMMA SetAt ==
    ASSUME NEW S, NEW f \in [Conns -> [Ends -> S]], NEW k \in Conns, NEW e \in Ends, NEW v \in S
    PROVE  /\ [f EXCEPT ![k][e] = v] \in [Conns -> [Ends -> S]]
           /\ \A o \in Conns, x \in Ends :
                 [f EXCEPT ![k][e] = v][o][x] = IF o = k /\ x = e THEN v ELSE f[o][x]
OBVIOUS

LEMMA InitType == Init => TypeOK
<1> SUFFICES ASSUME Init PROVE TypeOK
    OBVIOUS
<1>1. [wire |-> <<>>, waiting |-> <<>>, posted |-> <<>>, late |-> FALSE] \in Channel
    BY Bounds, EmptySeq DEF Channel
<1>2. <<>> \in Seq(Packet)
    BY EmptySeq
<1> QED
    BY <1>1, <1>2, Bounds DEF Init, TypeOK, Each, Reads

\* The end of a connection is told, and the server takes it off its list.
LEMMA DropDoes ==
    ASSUME TypeOK, NEW k \in Conns, NEW e \in Ends, Drop(k, e)
    PROVE  /\ told' \in [Conns -> [Ends -> Nat]]
           /\ \A o \in Conns, x \in Ends :
                 told'[o][x] = IF o = k /\ x = e THEN told[o][x] + 1 ELSE told[o][x]
           /\ listed' = IF e = "client" THEN listed ELSE listed \ {k}
<1>1. told[k][e] + 1 \in Nat
    BY DEF TypeOK
<1>2. told' = [told EXCEPT ![k][e] = told[k][e] + 1]
    BY DEF Drop
<1>3. listed' = IF e = "client" THEN listed ELSE listed \ {k}
    BY DEF Drop, CloseSocket, Unlist
<1> QED
    BY <1>1, <1>2, <1>3, SetAt DEF TypeOK

\* What a read leaves of a channel.
Took(ch) == [ch EXCEPT !.wire = Tail(@)]

LEMMA TookIs ==
    ASSUME NEW ch \in Channel
    PROVE  /\ Took(ch).wire = Tail(ch.wire) /\ Took(ch).waiting = ch.waiting
           /\ Took(ch).posted = ch.posted /\ Took(ch).late = ch.late
BY DEF Took, Channel

\* A packet or a part of one is read from what the other end wrote.
LEMMA TakenDoes ==
    ASSUME TypeOK, NEW k \in Conns, NEW e \in Ends, Incoming(k, e) # <<>>
    PROVE  /\ Taken(k, e) \in [Conns -> [Ends -> Channel]]
           /\ \A o \in Conns, x \in Ends :
                 Taken(k, e)[o][x] = IF o = k /\ x = Peer(e) THEN Took(chan[k][Peer(e)])
                                     ELSE chan[o][x]
           /\ Head(Incoming(k, e)) \in Piece
<1>1. PICK ch \in Channel : ch = chan[k][Peer(e)]
    BY PeerIsEnd DEF TypeOK
<1>2. ch.wire \in Seq(Piece) /\ ch.wire # <<>> /\ Len(ch.wire) <= Room
    BY <1>1 DEF Incoming, Channel
<1>3. /\ Tail(ch.wire) \in Seq(Piece) /\ Len(Tail(ch.wire)) = Len(ch.wire) - 1
      /\ Head(ch.wire) \in Piece /\ Len(ch.wire) \in Nat
    BY <1>2, HeadTailProperties, LenProperties
<1>4. Len(Tail(ch.wire)) <= Room
    BY <1>2, <1>3, Bounds
<1>5. Took(ch) \in Channel
    BY <1>3, <1>4 DEF Channel, Took
<1>6. Taken(k, e) = [chan EXCEPT ![k][Peer(e)] = Took(ch)]
    BY <1>1 DEF Taken, Took
<1>7. Peer(e) \in Ends /\ chan \in [Conns -> [Ends -> Channel]]
    BY PeerIsEnd DEF TypeOK
<1>8. /\ Taken(k, e) \in [Conns -> [Ends -> Channel]]
      /\ \A o \in Conns, x \in Ends :
            Taken(k, e)[o][x] = IF o = k /\ x = Peer(e) THEN Took(ch) ELSE chan[o][x]
    BY <1>5, <1>6, <1>7, SetAt
<1>9. Head(Incoming(k, e)) \in Piece
    BY <1>1, <1>3 DEF Incoming
<1> QED
    BY <1>1, <1>8, <1>9

LEMMA ReadIs ==
    ASSUME TypeOK, NEW k \in Conns, NEW e \in Ends, NEW r \in Reads,
           read' = [read EXCEPT ![k][e] = r]
    PROVE  /\ read' \in [Conns -> [Ends -> Reads]]
           /\ \A o \in Conns, x \in Ends : read'[o][x] = IF o = k /\ x = e THEN r ELSE read[o][x]
BY SetAt DEF TypeOK

\* What each action does to the tables, entry by entry, and that it keeps types.
OnlyRead(k, e, r) == \A o \in Conns, x \in Ends : read'[o][x] = IF o = k /\ x = e THEN r ELSE read[o][x]
OnlyTold(k, e) ==
    /\ \A o \in Conns, x \in Ends : told'[o][x] = IF o = k /\ x = e THEN told[o][x] + 1 ELSE told[o][x]
    /\ listed' = IF e = "client" THEN listed ELSE listed \ {k}
Relayed(k, e, targets, p) ==
    \A o \in Conns, x \in Ends :
        chan'[o][x] = IF x = "server" /\ o \in targets THEN Posted(Taken(k, e)[o][x], p)
                      ELSE Taken(k, e)[o][x]
OnlyChan(k, e, ch) == \A o \in Conns, x \in Ends : chan'[o][x] = IF o = k /\ x = e THEN ch ELSE chan[o][x]

LEMMA DisconnectDoes ==
    ASSUME TypeOK, NEW c \in Clients, Disconnect(c)
    PROVE  TypeOK' /\ UNCHANGED <<used, read, chan, received, told, listed, over, refused>>
BY DEF Disconnect, TypeOK

LEMMA BreakDoes ==
    ASSUME TypeOK, NEW k \in Conns, Break(k)
    PROVE  TypeOK' /\ UNCHANGED <<used, read, chan, received, told, listed, over, refused>>
BY DEF Break, TypeOK, local

LEMMA ConnectDoes ==
    ASSUME TypeOK, NEW c \in Clients, Connect(c)
    PROVE  /\ TypeOK' /\ used + 1 \in Conns /\ used' = used + 1
           /\ OnlyRead(used + 1, "client", "connect")
           /\ UNCHANGED <<chan, received, told, listed, over, refused>>
<1>1. used + 1 \in Conns /\ used + 1 \in 0 .. MaxConns /\ used \in Nat
    BY Bounds DEF Connect, TypeOK, Conns
<1>2. "client" \in Ends /\ "connect" \in Reads
    BY DEF Ends, Reads
<1>3. read' = [read EXCEPT ![used + 1]["client"] = "connect"]
    BY DEF Connect
<1>4. conn' \in [Clients -> 0 .. used'] /\ used' = used + 1
    <2>1. 0 .. used \subseteq 0 .. used + 1 /\ used + 1 \in 0 .. used + 1
        BY <1>1
    <2> QED
        BY <2>1 DEF Connect, TypeOK
<1> QED
    BY <1>1, <1>2, <1>3, <1>4, ReadIs, SMTT(60) DEF Connect, TypeOK, OnlyRead

LEMMA SendDoes ==
    ASSUME TypeOK, NEW c \in Clients, Send(c)
    PROVE  /\ TypeOK' /\ conn[c] \in Conns
           /\ \E p \in Packet : OnlyChan(conn[c], "client", Posted(chan[conn[c]]["client"], p))
           /\ UNCHANGED <<used, read, received, told, listed, over, refused>>
<1>1. conn[c] \in Conns
    BY Bounds DEF Send, TypeOK, Conns
<1>2. "client" \in Ends
    BY DEF Ends
<1>3. PICK size \in Sizes :
          chan' = [chan EXCEPT ![conn[c]]["client"] = Posted(@, create_packet(size))]
    BY DEF Send
<1>4. create_packet(size) \in Packet
    <2>1. size \in Nat /\ packets + 1 \in Nat
        BY PacketLinkAssumption DEF TypeOK
    <2>2. (size + HEADER_SIZE) % 65536 \in Nat
        BY <2>1 DEF HEADER_SIZE
    <2> QED
        BY <2>1, <2>2 DEF create_packet, Packet
<1>5. Posted(chan[conn[c]]["client"], create_packet(size)) \in Channel
    BY <1>1, <1>2, <1>4, PostedType DEF TypeOK
<1>6. chan' = [chan EXCEPT ![conn[c]]["client"] = Posted(chan[conn[c]]["client"], create_packet(size))]
    BY <1>3
<1>7. /\ chan' \in [Conns -> [Ends -> Channel]]
      /\ OnlyChan(conn[c], "client", Posted(chan[conn[c]]["client"], create_packet(size)))
    BY <1>1, <1>2, <1>5, <1>6, SetAt DEF TypeOK, OnlyChan
<1> QED
    BY <1>1, <1>4, <1>7 DEF Send, TypeOK, local

LEMMA ConnectHandlerDoes ==
    ASSUME TypeOK, NEW k \in Conns, ConnectHandler(k)
    PROVE  /\ TypeOK' /\ read[k]["client"] = "connect"
           /\ \E r \in {"header", "failed"} : OnlyRead(k, "client", r)
           /\ UNCHANGED <<used, chan, received, told, listed, over, refused>>
<1>1. PICK r \in {"header", "failed"} : read' = [read EXCEPT ![k]["client"] = r]
    BY DEF ConnectHandler
<1>2. "client" \in Ends /\ r \in Reads
    BY DEF Ends, Reads
<1>3. read' \in [Conns -> [Ends -> Reads]] /\ OnlyRead(k, "client", r)
    BY <1>1, <1>2, ReadIs DEF OnlyRead
<1>4. read[k]["client"] = "connect" /\ \E t \in {"header", "failed"} : OnlyRead(k, "client", t)
    BY <1>3 DEF ConnectHandler
<1> QED
    BY <1>3, <1>4 DEF ConnectHandler, TypeOK, local

LEMMA AcceptDoes ==
    ASSUME TypeOK, NEW k \in Conns, Accept(k)
    PROVE  /\ TypeOK' /\ read[k]["server"] = "none" /\ read[k]["client"] # "none"
           /\ listed' = listed \union {k}
           /\ OnlyRead(k, "server", "header")
           /\ UNCHANGED <<used, chan, received, told, over, refused>>
<1>1. "server" \in Ends /\ "header" \in Reads
    BY DEF Ends, Reads
<1>2. read' = [read EXCEPT ![k]["server"] = "header"] /\ listed' = listed \union {k}
    BY DEF Accept, StartConnection, List
<1> QED
    BY <1>1, <1>2, ReadIs DEF Accept, TypeOK, OnlyRead, local

\* The two outcomes of reading a header, or what is taken for one.
LEMMA TooBigDoes ==
    ASSUME TypeOK, NEW k \in Conns, TooBig(k)
    PROVE  /\ told' \in [Conns -> [Ends -> Nat]] /\ listed' \subseteq Conns
           /\ OnlyTold(k, "server") /\ over' = over \union {k}
<1>1. "server" \in Ends /\ Drop(k, "server") /\ over' = over \union {k}
    BY DEF Ends, TooBig
<1> QED
    BY <1>1, DropDoes DEF OnlyTold, TypeOK

LEMMA ReadHeaderDoes ==
    ASSUME TypeOK, NEW k \in Conns, NEW e \in Ends, ReadHeader(k, e)
    PROVE  /\ TypeOK' /\ read[k][e] = "header" /\ chan[k][Peer(e)].wire # <<>>
           /\ OnlyRead(k, e, "body")
           /\ OnlyChan(k, Peer(e), Took(chan[k][Peer(e)]))
           /\ \/ e = "server" /\ OnlyTold(k, "server") /\ over' = over \union {k}
              \/ UNCHANGED <<told, listed, over>>
           /\ UNCHANGED <<used, received, refused>>
<1>1. Incoming(k, e) # <<>> /\ read[k][e] = "header"
    BY DEF ReadHeader, CanRead
<1>2. chan' \in [Conns -> [Ends -> Channel]] /\ OnlyChan(k, Peer(e), Took(chan[k][Peer(e)]))
    <2>1. chan' = Taken(k, e)
        BY DEF ReadHeader
    <2> QED
        BY <1>1, <2>1, TakenDoes DEF OnlyChan
<1>3. read' \in [Conns -> [Ends -> Reads]] /\ OnlyRead(k, e, "body")
    <2>1. "body" \in Reads /\ read' = [read EXCEPT ![k][e] = "body"]
        BY DEF ReadHeader, Reads
    <2> QED
        BY <2>1, ReadIs DEF OnlyRead
<1>4. /\ told' \in [Conns -> [Ends -> Nat]] /\ listed' \subseteq Conns
      /\ \/ e = "server" /\ OnlyTold(k, "server") /\ over' = over \union {k}
         \/ UNCHANGED <<told, listed, over>>
    <2>1. (e = "server" /\ TooBig(k)) \/ NotTooBig
        BY DEF ReadHeader
    <2> QED
        BY <2>1, TooBigDoes DEF NotTooBig, NoDrop, TypeOK
<1>5. UNCHANGED <<conn, used, packets, received, refused>>
    BY DEF ReadHeader, local
<1> QED
    BY <1>1, <1>2, <1>3, <1>4, <1>5 DEF TypeOK, Incoming

LEMMA ReadOtherDoes ==
    ASSUME TypeOK, NEW k \in Conns, NEW e \in Ends, ReadOther(k, e)
    PROVE  /\ TypeOK' /\ chan[k][Peer(e)].wire # <<>>
           /\ \/ read[k][e] = "lost"
              \/ read[k][e] = "header" /\ Head(chan[k][Peer(e)].wire).part # "head"
              \/ read[k][e] = "body" /\ Head(chan[k][Peer(e)].wire).part # "body"
           /\ OnlyRead(k, e, "lost")
           /\ OnlyChan(k, Peer(e), Took(chan[k][Peer(e)]))
           /\ \/ e = "server" /\ OnlyTold(k, "server") /\ over' = over \union {k}
              \/ UNCHANGED <<told, listed, over>>
           /\ UNCHANGED <<used, received, refused>>
<1>1. /\ Incoming(k, e) # <<>>
      /\ \/ read[k][e] = "lost"
         \/ read[k][e] = "header" /\ Head(chan[k][Peer(e)].wire).part # "head"
         \/ read[k][e] = "body" /\ Head(chan[k][Peer(e)].wire).part # "body"
    BY DEF ReadOther, CanRead, BodyNext, Torn, Incoming
<1>2. chan' \in [Conns -> [Ends -> Channel]] /\ OnlyChan(k, Peer(e), Took(chan[k][Peer(e)]))
    <2>1. chan' = Taken(k, e)
        BY DEF ReadOther
    <2> QED
        BY <1>1, <2>1, TakenDoes DEF OnlyChan
<1>3. read' \in [Conns -> [Ends -> Reads]] /\ OnlyRead(k, e, "lost")
    <2>1. "lost" \in Reads /\ read' = [read EXCEPT ![k][e] = "lost"]
        BY DEF ReadOther, Reads
    <2> QED
        BY <2>1, ReadIs DEF OnlyRead
<1>4. /\ told' \in [Conns -> [Ends -> Nat]] /\ listed' \subseteq Conns
      /\ \/ e = "server" /\ OnlyTold(k, "server") /\ over' = over \union {k}
         \/ UNCHANGED <<told, listed, over>>
    <2>1. (e = "server" /\ TooBig(k)) \/ NotTooBig
        BY DEF ReadOther
    <2> QED
        BY <2>1, TooBigDoes DEF NotTooBig, NoDrop, TypeOK
<1>5. UNCHANGED <<conn, used, packets, received, refused>>
    BY DEF ReadOther, local
<1> QED
    BY <1>1, <1>2, <1>3, <1>4, <1>5 DEF TypeOK, Incoming

\* The relays go to listed connections only.
LEMMA TargetsListed == \A k \in Conns : \A t \in Targets(k) : t \subseteq listed
BY DEF Targets

\* The channels f when the server has written p to the targets.
PostedTo(f, targets, p) ==
    [o \in Conns |-> IF o \in targets THEN [f[o] EXCEPT !["server"] = Posted(@, p)] ELSE f[o]]

LEMMA PostToAll ==
    ASSUME NEW f \in [Conns -> [Ends -> Channel]], NEW targets, NEW p \in Packet
    PROVE  /\ PostedTo(f, targets, p) \in [Conns -> [Ends -> Channel]]
           /\ \A o \in Conns, x \in Ends :
                 PostedTo(f, targets, p)[o][x] =
                     IF x = "server" /\ o \in targets THEN Posted(f[o][x], p) ELSE f[o][x]
<1> DEFINE g == PostedTo(f, targets, p)
<1>1. "server" \in Ends
    BY DEF Ends
<1>2. ASSUME NEW o \in Conns
      PROVE  /\ g[o] \in [Ends -> Channel]
             /\ \A x \in Ends :
                   g[o][x] = IF x = "server" /\ o \in targets THEN Posted(f[o][x], p) ELSE f[o][x]
    <2>1. f[o] \in [Ends -> Channel] /\ f[o]["server"] \in Channel
        BY <1>1
    <2>2. Posted(f[o]["server"], p) \in Channel
        BY <2>1, PostedType
    <2>3. g[o] = IF o \in targets THEN [f[o] EXCEPT !["server"] = Posted(f[o]["server"], p)] ELSE f[o]
        BY DEF PostedTo
    <2> HIDE DEF g
    <2> QED
        BY <1>1, <2>1, <2>2, <2>3
<1>3. g = [o \in Conns |-> g[o]]
    BY DEF PostedTo
<1> HIDE DEF g
<1>4. g \in [Conns -> [Ends -> Channel]]
    BY <1>2, <1>3
<1> QED
    BY <1>2, <1>4 DEF g

LEMMA ReadBodyDoes ==
    ASSUME TypeOK, NEW k \in Conns, NEW e \in Ends, ReadBody(k, e)
    PROVE  /\ TypeOK' /\ read[k][e] = "body" /\ chan[k][Peer(e)].wire # <<>>
           /\ OnlyRead(k, e, "header")
           /\ \A o \in Conns, x \in Ends :
                 received'[o][x] = IF o = k /\ x = e
                                   THEN Append(received[k][e], Head(chan[k][Peer(e)].wire).packet)
                                   ELSE received[o][x]
           /\ \E p \in Packet, targets \in SUBSET listed :
                 (e = "client" => targets = {}) /\ Relayed(k, e, targets, p)
           /\ UNCHANGED <<used, told, listed, over, refused>>
<1>1. Incoming(k, e) # <<>> /\ read[k][e] = "body" /\ Incoming(k, e) = chan[k][Peer(e)].wire
    BY DEF ReadBody, CanRead, Incoming
<1>2. PICK p \in Packet : p = Head(Incoming(k, e)).packet
    BY <1>1, TakenDoes DEF Piece
<1>3. PICK targets : /\ targets \in IF e = "server" THEN Targets(k) ELSE {{}}
                     /\ chan' = [o \in Conns |-> IF o \in targets
                                     THEN [Taken(k, e)[o] EXCEPT !["server"] = Posted(@, p)]
                                     ELSE Taken(k, e)[o]]
    BY <1>2 DEF ReadBody
<1>4. targets \subseteq listed /\ (e = "client" => targets = {})
    BY <1>3, TargetsListed DEF Ends
<1>5. Taken(k, e) \in [Conns -> [Ends -> Channel]]
    BY <1>1, TakenDoes
<1>6. /\ chan' \in [Conns -> [Ends -> Channel]]
      /\ \A o \in Conns, x \in Ends :
            chan'[o][x] = IF x = "server" /\ o \in targets THEN Posted(Taken(k, e)[o][x], p)
                          ELSE Taken(k, e)[o][x]
    <2>1. PICK f \in [Conns -> [Ends -> Channel]] : f = Taken(k, e)
        BY <1>5
    <2>2. chan' = PostedTo(f, targets, p)
        BY <1>3, <2>1 DEF PostedTo
    <2>3. /\ chan' \in [Conns -> [Ends -> Channel]]
          /\ \A o \in Conns, x \in Ends :
                chan'[o][x] = IF x = "server" /\ o \in targets THEN Posted(f[o][x], p) ELSE f[o][x]
        BY <2>2, PostToAll
    <2> QED
        BY <2>1, <2>3, Zenon
<1>7. read' \in [Conns -> [Ends -> Reads]] /\ OnlyRead(k, e, "header")
    <2>1. "header" \in Reads /\ read' = [read EXCEPT ![k][e] = "header"]
        BY DEF ReadBody, Reads
    <2> QED
        BY <2>1, ReadIs DEF OnlyRead
<1>8. /\ received' \in [Conns -> [Ends -> Seq(Packet)]]
      /\ \A o \in Conns, x \in Ends :
            received'[o][x] = IF o = k /\ x = e THEN Append(received[k][e], p) ELSE received[o][x]
    <2>1. received[k][e] \in Seq(Packet)
        BY DEF TypeOK
    <2>2. Append(received[k][e], p) \in Seq(Packet)
        BY <2>1, AppendProperties
    <2>3. received' = [received EXCEPT ![k][e] = Append(received[k][e], p)]
        BY <1>2 DEF ReadBody
    <2> QED
        BY <2>2, <2>3, SetAt DEF TypeOK
<1>9. UNCHANGED <<conn, used, packets, told, listed, over, refused>>
    BY DEF ReadBody, NoDrop, local
<1>10. TypeOK'
    BY <1>6, <1>7, <1>8, <1>9 DEF TypeOK
<1>11. targets \in SUBSET listed /\ (e = "client" => targets = {}) /\ Relayed(k, e, targets, p)
    BY <1>4, <1>6 DEF Relayed
<1> QED
    BY <1>1, <1>2, <1>7, <1>8, <1>9, <1>10, <1>11

LEMMA ReadFailsDoes ==
    ASSUME TypeOK, NEW k \in Conns, NEW e \in Ends, ReadFails(k, e)
    PROVE  /\ TypeOK' /\ read[k][e] \in {"header", "body", "lost"}
           /\ OnlyRead(k, e, "off") /\ OnlyTold(k, e)
           /\ UNCHANGED <<used, chan, received, over, refused>>
<1>1. read' \in [Conns -> [Ends -> Reads]] /\ OnlyRead(k, e, "off")
    <2>1. "off" \in Reads /\ read' = [read EXCEPT ![k][e] = "off"]
        BY DEF ReadFails, Reads
    <2> QED
        BY <2>1, ReadIs DEF OnlyRead
<1>2. told' \in [Conns -> [Ends -> Nat]] /\ listed' \subseteq Conns /\ OnlyTold(k, e)
    BY DropDoes DEF ReadFails, OnlyTold, TypeOK
<1> QED
    BY <1>1, <1>2 DEF ReadFails, TypeOK, local

LEMMA WriteSomeDoes ==
    ASSUME TypeOK, NEW k \in Conns, NEW e \in Ends, WriteSome(k, e)
    PROVE  /\ TypeOK' /\ chan[k][e].waiting # <<>>
           /\ OnlyChan(k, e, Flushed(chan[k][e]))
           /\ UNCHANGED <<used, read, received, told, listed, over, refused>>
<1>1. chan[k][e] \in Channel /\ chan[k][e].waiting # <<>>
    BY DEF TypeOK, WriteSome
<1>2. Flushed(chan[k][e]) \in Channel
    BY <1>1, FlushedType
<1>3. chan' = [chan EXCEPT ![k][e] = Flushed(chan[k][e])]
    BY DEF WriteSome
<1>4. chan' \in [Conns -> [Ends -> Channel]] /\ OnlyChan(k, e, Flushed(chan[k][e]))
    BY <1>2, <1>3, SetAt DEF TypeOK, OnlyChan
<1> QED
    BY <1>1, <1>4 DEF WriteSome, TypeOK, local

LEMMA WriteFailsDoes ==
    ASSUME TypeOK, NEW k \in Conns, NEW e \in Ends, WriteFails(k, e)
    PROVE  /\ TypeOK' /\ chan[k][e].waiting # <<>>
           /\ OnlyChan(k, e, [chan[k][e] EXCEPT !.waiting = Tail(@)])
           /\ OnlyTold(k, e)
           /\ \A o \in Conns, x \in Ends :
                 refused'[o][x] = IF o = k /\ x = e THEN refused[o][x] + 1 ELSE refused[o][x]
           /\ UNCHANGED <<used, read, received, over>>
<1>1. chan[k][e] \in Channel /\ chan[k][e].waiting # <<>>
    BY DEF TypeOK, WriteFails
<1>2. [chan[k][e] EXCEPT !.waiting = Tail(@)] \in Channel
    <2>1. chan[k][e].waiting \in Seq(Pending)
        BY <1>1 DEF Channel
    <2>2. Tail(chan[k][e].waiting) \in Seq(Pending)
        BY <1>1, <2>1, HeadTailProperties
    <2> QED
        BY <1>1, <2>2 DEF Channel
<1>3. chan' = [chan EXCEPT ![k][e] = [chan[k][e] EXCEPT !.waiting = Tail(@)]]
    BY DEF WriteFails
<1>4. /\ chan' \in [Conns -> [Ends -> Channel]]
      /\ OnlyChan(k, e, [chan[k][e] EXCEPT !.waiting = Tail(@)])
    BY <1>2, <1>3, SetAt DEF TypeOK, OnlyChan
<1>5. /\ refused' \in [Conns -> [Ends -> Nat]]
      /\ \A o \in Conns, x \in Ends :
            refused'[o][x] = IF o = k /\ x = e THEN refused[o][x] + 1 ELSE refused[o][x]
    <2>1. refused' = [refused EXCEPT ![k][e] = refused[k][e] + 1] /\ refused[k][e] + 1 \in Nat
        BY DEF WriteFails, TypeOK
    <2> QED
        BY <2>1, SetAt DEF TypeOK
<1>6. told' \in [Conns -> [Ends -> Nat]] /\ listed' \subseteq Conns /\ OnlyTold(k, e)
    BY DropDoes DEF WriteFails, OnlyTold, TypeOK
<1> QED
    BY <1>1, <1>4, <1>5, <1>6 DEF WriteFails, TypeOK, local

LEMMA NextKeepsTypes == TypeOK /\ [Next]_vars => TypeOK'
<1> SUFFICES ASSUME TypeOK, [Next]_vars PROVE TypeOK'
    OBVIOUS
<1>1. CASE UNCHANGED vars
    BY <1>1 DEF vars, local, TypeOK
<1>2. ASSUME NEW c \in Clients, Disconnect(c) \/ Connect(c) \/ Send(c) PROVE TypeOK'
    BY <1>2, DisconnectDoes, ConnectDoes, SendDoes
<1>3. ASSUME NEW k \in Conns, ConnectHandler(k) \/ Accept(k) \/ Break(k) PROVE TypeOK'
    BY <1>3, ConnectHandlerDoes, AcceptDoes, BreakDoes
<1>4. ASSUME NEW k \in Conns, NEW e \in Ends, Handler(k, e) PROVE TypeOK'
    BY <1>4, ReadHeaderDoes, ReadBodyDoes, ReadOtherDoes, ReadFailsDoes, WriteSomeDoes, WriteFailsDoes
       DEF Handler
<1> QED
    BY <1>1, <1>2, <1>3, <1>4 DEF Next

\* Every handler and every call keeps the types, and the sockets of a direction
\* hold no more than there is room for.
THEOREM LinkTypes == Spec => []TypeOK
BY InitType, NextKeepsTypes, PTL DEF Spec

-------------------------------------------------------------------------------
(* The invariant of the ends                                               *)

Counted(k, e) == (IF read[k][e] = "off" THEN 1 ELSE 0) + refused[k][e]

\* A connection that no client has made reads nothing.
Unmade == \A k \in Conns : k > used => read[k]["client"] = "none"

\* The server lists a connection until it has reported its end.
Listing == \A k \in Conns : k \in listed <=> read[k]["server"] # "none" /\ told[k]["server"] = 0

\* A connection that the server has not accepted has nothing to tell or to write.
Unaccepted ==
    \A k \in Conns : read[k]["server"] = "none" =>
        told[k]["server"] = 0 /\ chan[k]["server"].waiting = <<>>

\* An end is told for the read that failed and for each write that did.
Counting == \A k \in Conns, e \in Ends : e = "client" \/ k \notin over => told[k][e] <= Counted(k, e)

EndsInv == Unmade /\ Listing /\ Unaccepted /\ Counting

LEMMA EndsAre == "client" \in Ends /\ "server" \in Ends
BY DEF Ends

LEMMA InitEnds == Init => EndsInv
<1> SUFFICES ASSUME Init PROVE EndsInv
    OBVIOUS
<1>1. \A k \in Conns, e \in Ends :
          /\ read[k][e] = "none" /\ told[k][e] = 0 /\ refused[k][e] = 0
          /\ chan[k][e].waiting = <<>>
    BY DEF Init, Each
<1>2. listed = {}
    BY DEF Init
<1> QED
    BY <1>1, <1>2, EndsAre DEF EndsInv, Unmade, Listing, Unaccepted, Counting, Counted

\* Steps that read nothing to its end and report nothing.
LEMMA EndsWhenQuiet ==
    ASSUME EndsInv, UNCHANGED <<used, read, told, listed, over, refused>>,
           \A k \in Conns : read[k]["server"] = "none" =>
               chan'[k]["server"].waiting = chan[k]["server"].waiting
    PROVE  EndsInv'
BY DEF EndsInv, Unmade, Listing, Unaccepted, Counting, Counted

LEMMA ConnectKeepsEnds ==
    ASSUME TypeOK, EndsInv, NEW c \in Clients, Connect(c)
    PROVE  EndsInv'
<1>1. /\ used + 1 \in Conns /\ used' = used + 1 /\ used \in Nat
      /\ OnlyRead(used + 1, "client", "connect")
      /\ UNCHANGED <<chan, received, told, listed, over, refused>>
    BY ConnectDoes DEF TypeOK
<1>2. \A k \in Conns : read'[k]["server"] = read[k]["server"]
    BY <1>1, EndsAre DEF OnlyRead
<1>3. read[used + 1]["client"] = "none"
    BY <1>1 DEF EndsInv, Unmade
<1>4. Unmade'
    BY <1>1, EndsAre DEF EndsInv, Unmade, OnlyRead, Conns
<1>5. Listing' /\ Unaccepted'
    BY <1>1, <1>2 DEF EndsInv, Listing, Unaccepted
<1>6. Counting'
    BY <1>1, <1>3 DEF EndsInv, Counting, Counted, OnlyRead
<1> QED
    BY <1>4, <1>5, <1>6 DEF EndsInv

LEMMA ConnectHandlerKeepsEnds ==
    ASSUME TypeOK, EndsInv, NEW k \in Conns, ConnectHandler(k)
    PROVE  EndsInv'
<1>1. PICK r \in {"header", "failed"} : OnlyRead(k, "client", r)
    BY ConnectHandlerDoes
<1>2. /\ read[k]["client"] = "connect"
      /\ UNCHANGED <<used, chan, received, told, listed, over, refused>>
    BY ConnectHandlerDoes
<1>3. \A o \in Conns : read'[o]["server"] = read[o]["server"]
    BY <1>1, EndsAre DEF OnlyRead
<1>4. Unmade'
    BY <1>1, <1>2, EndsAre DEF EndsInv, Unmade, OnlyRead
<1>5. Listing' /\ Unaccepted'
    BY <1>2, <1>3 DEF EndsInv, Listing, Unaccepted
<1>6. Counting'
    BY <1>1, <1>2 DEF EndsInv, Counting, Counted, OnlyRead
<1> QED
    BY <1>4, <1>5, <1>6 DEF EndsInv

LEMMA AcceptKeepsEnds ==
    ASSUME TypeOK, EndsInv, NEW k \in Conns, Accept(k)
    PROVE  EndsInv'
<1>1. /\ read[k]["server"] = "none" /\ listed' = listed \union {k}
      /\ OnlyRead(k, "server", "header")
      /\ UNCHANGED <<used, chan, received, told, over, refused>>
    BY AcceptDoes
<1>2. Unmade'
    BY <1>1, EndsAre DEF EndsInv, Unmade, OnlyRead
<1>3. Listing'
    BY <1>1, EndsAre DEF EndsInv, Listing, Unaccepted, OnlyRead
<1>4. Unaccepted'
    BY <1>1, EndsAre DEF EndsInv, Unaccepted, OnlyRead
<1>5. Counting'
    BY <1>1 DEF EndsInv, Counting, Counted, OnlyRead
<1> QED
    BY <1>2, <1>3, <1>4, <1>5 DEF EndsInv

\* A read that goes on, and the server's report of a packet above the limit.
LEMMA ReadKeepsEnds ==
    ASSUME TypeOK, EndsInv, NEW k \in Conns, NEW e \in Ends, NEW r \in {"header", "body", "lost"},
           read[k][e] \in {"header", "body", "lost"}, OnlyRead(k, e, r),
           \/ e = "server" /\ OnlyTold(k, "server") /\ over' = over \union {k}
           \/ UNCHANGED <<told, listed, over>>,
           \A o \in Conns : read[o]["server"] = "none" =>
               chan'[o]["server"].waiting = chan[o]["server"].waiting,
           UNCHANGED <<used, refused>>
    PROVE  EndsInv'
<1>1. Unmade'
    BY EndsAre DEF EndsInv, Unmade, OnlyRead
<1>2. Listing'
    <2>1. CASE e = "server" /\ OnlyTold(k, "server") /\ over' = over \union {k}
        <3>1. told[k]["server"] \in Nat /\ told'[k]["server"] = told[k]["server"] + 1
            BY <2>1, EndsAre DEF OnlyTold, TypeOK
        <3> QED
            BY <2>1, <3>1, EndsAre DEF EndsInv, Listing, OnlyRead, OnlyTold
    <2>2. CASE UNCHANGED <<told, listed, over>>
        BY <2>2, EndsAre DEF EndsInv, Listing, OnlyRead
    <2> QED
        BY <2>1, <2>2
<1>3. Unaccepted'
    BY EndsAre DEF EndsInv, Unaccepted, OnlyRead, OnlyTold
<1>4. Counting'
    <2>1. \A o \in Conns, x \in Ends : Counted(o, x)' = Counted(o, x)
        BY DEF Counted, OnlyRead
    <2> QED
        BY <2>1 DEF EndsInv, Counting, OnlyTold
<1> QED
    BY <1>1, <1>2, <1>3, <1>4 DEF EndsInv

LEMMA ReadFailsKeepsEnds ==
    ASSUME TypeOK, EndsInv, NEW k \in Conns, NEW e \in Ends, ReadFails(k, e)
    PROVE  EndsInv'
<1>1. /\ read[k][e] \in {"header", "body", "lost"}
      /\ OnlyRead(k, e, "off") /\ OnlyTold(k, e)
      /\ UNCHANGED <<used, chan, over, refused>>
    BY ReadFailsDoes
<1>2. told[k][e] \in Nat /\ told'[k][e] = told[k][e] + 1
    BY <1>1 DEF TypeOK, OnlyTold
<1>3. Unmade'
    BY <1>1, EndsAre DEF EndsInv, Unmade, OnlyRead
<1>4. Listing'
    BY <1>1, <1>2, EndsAre DEF EndsInv, Listing, OnlyRead, OnlyTold, Ends
<1>5. Unaccepted'
    BY <1>1, EndsAre DEF EndsInv, Unaccepted, OnlyRead, OnlyTold
<1>6. Counting'
    <2> SUFFICES ASSUME NEW o \in Conns, NEW x \in Ends, x = "client" \/ o \notin over
                 PROVE  told'[o][x] <= Counted(o, x)'
        BY <1>1 DEF Counting
    <2>1. told[o][x] <= Counted(o, x) /\ told[o][x] \in Nat /\ refused[o][x] \in Nat
        BY DEF EndsInv, Counting, TypeOK
    <2> QED
        BY <1>1, <2>1 DEF Counted, OnlyRead, OnlyTold
<1> QED
    BY <1>3, <1>4, <1>5, <1>6 DEF EndsInv

LEMMA WriteFailsKeepsEnds ==
    ASSUME TypeOK, EndsInv, NEW k \in Conns, NEW e \in Ends, WriteFails(k, e)
    PROVE  EndsInv'
<1>1. /\ chan[k][e].waiting # <<>>
      /\ OnlyChan(k, e, [chan[k][e] EXCEPT !.waiting = Tail(@)]) /\ OnlyTold(k, e)
      /\ \A o \in Conns, x \in Ends :
            refused'[o][x] = IF o = k /\ x = e THEN refused[o][x] + 1 ELSE refused[o][x]
      /\ UNCHANGED <<used, read, over>>
    BY WriteFailsDoes
<1>2. told[k][e] \in Nat /\ told'[k][e] = told[k][e] + 1
    BY <1>1 DEF TypeOK, OnlyTold
<1>3. e = "server" => read[k]["server"] # "none"
    BY <1>1 DEF EndsInv, Unaccepted
<1>4. Unmade'
    BY <1>1 DEF EndsInv, Unmade
<1>5. Listing'
    BY <1>1, <1>2, EndsAre DEF EndsInv, Listing, OnlyTold, Ends
<1>6. Unaccepted'
    BY <1>1, <1>3, EndsAre DEF EndsInv, Unaccepted, OnlyChan, OnlyTold
<1>7. Counting'
    <2> SUFFICES ASSUME NEW o \in Conns, NEW x \in Ends, x = "client" \/ o \notin over
                 PROVE  told'[o][x] <= Counted(o, x)'
        BY <1>1 DEF Counting
    <2>1. told[o][x] <= Counted(o, x) /\ told[o][x] \in Nat /\ refused[o][x] \in Nat
        BY DEF EndsInv, Counting, TypeOK
    <2> QED
        BY <1>1, <2>1 DEF Counted, OnlyTold
<1> QED
    BY <1>4, <1>5, <1>6, <1>7 DEF EndsInv

\* Taking from a socket leaves the writes that wait.
LEMMA TakingLeavesWaiting ==
    ASSUME TypeOK, NEW k \in Conns, NEW e \in Ends, NEW o \in Conns, NEW x \in Ends
    PROVE  Took(chan[o][x]).waiting = chan[o][x].waiting
BY TookIs DEF TypeOK

LEMMA ReadHeaderKeepsEnds ==
    ASSUME TypeOK, EndsInv, NEW k \in Conns, NEW e \in Ends, ReadHeader(k, e)
    PROVE  EndsInv'
<1>1. /\ read[k][e] = "header" /\ OnlyRead(k, e, "body")
      /\ OnlyChan(k, Peer(e), Took(chan[k][Peer(e)]))
      /\ \/ e = "server" /\ OnlyTold(k, "server") /\ over' = over \union {k}
         \/ UNCHANGED <<told, listed, over>>
      /\ UNCHANGED <<used, refused>>
    BY ReadHeaderDoes
<1>2. \A o \in Conns : chan'[o]["server"].waiting = chan[o]["server"].waiting
    BY <1>1, TakingLeavesWaiting, EndsAre, PeerIsEnd DEF OnlyChan
<1> QED
    BY <1>1, <1>2, ReadKeepsEnds

LEMMA ReadOtherKeepsEnds ==
    ASSUME TypeOK, EndsInv, NEW k \in Conns, NEW e \in Ends, ReadOther(k, e)
    PROVE  EndsInv'
<1>1. /\ read[k][e] \in {"header", "body", "lost"} /\ OnlyRead(k, e, "lost")
      /\ OnlyChan(k, Peer(e), Took(chan[k][Peer(e)]))
      /\ \/ e = "server" /\ OnlyTold(k, "server") /\ over' = over \union {k}
         \/ UNCHANGED <<told, listed, over>>
      /\ UNCHANGED <<used, refused>>
    BY ReadOtherDoes
<1>2. \A o \in Conns : chan'[o]["server"].waiting = chan[o]["server"].waiting
    BY <1>1, TakingLeavesWaiting, EndsAre, PeerIsEnd DEF OnlyChan
<1> QED
    BY <1>1, <1>2, ReadKeepsEnds

LEMMA ReadBodyKeepsEnds ==
    ASSUME TypeOK, EndsInv, NEW k \in Conns, NEW e \in Ends, ReadBody(k, e)
    PROVE  EndsInv'
<1>1. /\ read[k][e] = "body" /\ OnlyRead(k, e, "header") /\ chan[k][Peer(e)].wire # <<>>
      /\ UNCHANGED <<used, told, listed, over, refused>>
    BY ReadBodyDoes
<1>2. PICK p \in Packet, targets \in SUBSET listed : Relayed(k, e, targets, p)
    BY ReadBodyDoes
<1>3. ASSUME NEW o \in Conns, read[o]["server"] = "none"
      PROVE  chan'[o]["server"].waiting = chan[o]["server"].waiting
    <2>1. o \notin targets
        BY <1>2, <1>3 DEF EndsInv, Listing
    <2>2. chan'[o]["server"] = Taken(k, e)[o]["server"]
        BY <1>2, <2>1, EndsAre DEF Relayed
    <2>3. Taken(k, e)[o]["server"].waiting = chan[o]["server"].waiting
        BY <1>1, TakenDoes, TakingLeavesWaiting, EndsAre, PeerIsEnd DEF Incoming
    <2> QED
        BY <2>2, <2>3
<1> QED
    BY <1>1, <1>3, ReadKeepsEnds

LEMMA NextKeepsEnds == TypeOK /\ EndsInv /\ [Next]_vars => EndsInv'
<1> SUFFICES ASSUME TypeOK, EndsInv, [Next]_vars PROVE EndsInv'
    OBVIOUS
<1>1. CASE UNCHANGED vars
    BY <1>1, EndsWhenQuiet DEF vars, local
<1>2. ASSUME NEW c \in Clients, Disconnect(c) PROVE EndsInv'
    BY <1>2, DisconnectDoes, EndsWhenQuiet
<1>3. ASSUME NEW c \in Clients, Connect(c) PROVE EndsInv'
    BY <1>3, ConnectKeepsEnds
<1>4. ASSUME NEW c \in Clients, Send(c) PROVE EndsInv'
    <2>1. \A k \in Conns : chan'[k]["server"] = chan[k]["server"]
        BY <1>4, SendDoes, EndsAre DEF OnlyChan
    <2> QED
        BY <1>4, <2>1, SendDoes, EndsWhenQuiet
<1>5. ASSUME NEW k \in Conns, ConnectHandler(k) \/ Accept(k) \/ Break(k) PROVE EndsInv'
    BY <1>5, ConnectHandlerKeepsEnds, AcceptKeepsEnds, BreakDoes, EndsWhenQuiet
<1>6. ASSUME NEW k \in Conns, NEW e \in Ends, WriteSome(k, e) PROVE EndsInv'
    <2>1. /\ chan[k][e].waiting # <<>> /\ OnlyChan(k, e, Flushed(chan[k][e]))
          /\ UNCHANGED <<used, read, told, listed, over, refused>>
        BY <1>6, WriteSomeDoes
    <2>2. \A o \in Conns : read[o]["server"] = "none" => chan'[o]["server"] = chan[o]["server"]
        BY <2>1, EndsAre DEF EndsInv, Unaccepted, OnlyChan
    <2> QED
        BY <2>1, <2>2, EndsWhenQuiet
<1>7. ASSUME NEW k \in Conns, NEW e \in Ends, Handler(k, e) PROVE EndsInv'
    BY <1>6, <1>7, ReadHeaderKeepsEnds, ReadBodyKeepsEnds, ReadOtherKeepsEnds, ReadFailsKeepsEnds,
       WriteFailsKeepsEnds DEF Handler
<1> QED
    BY <1>1, <1>2, <1>3, <1>4, <1>5, <1>7 DEF Next

\* The server lists a connection until it has reported its end, and each end
\* reports it once, and again for each write that failed and, on the server, for
\* a packet above the limit.
THEOREM EndsReported == Spec => []EndReportedOnce
<1>1. TypeOK /\ EndsInv => EndReportedOnce
    <2> SUFFICES ASSUME TypeOK, EndsInv, NEW k \in Conns
                 PROVE  /\ k \in listed <=> read[k]["server"] # "none" /\ told[k]["server"] = 0
                        /\ told[k]["client"] <= 1 + refused[k]["client"]
                        /\ k \notin over => told[k]["server"] <= 1 + refused[k]["server"]
        BY DEF EndReportedOnce
    <2>1. \A e \in Ends : /\ told[k][e] \in Nat /\ refused[k][e] \in Nat
                          /\ Counted(k, e) <= 1 + refused[k][e] /\ Counted(k, e) \in Nat
        BY DEF TypeOK, Counted
    <2> QED
        BY <2>1, EndsAre DEF EndsInv, Listing, Counting
<1> QED
    BY InitType, NextKeepsTypes, InitEnds, NextKeepsEnds, <1>1, PTL DEF Spec

-------------------------------------------------------------------------------
(* The invariant of the framing                                            *)

\* What waits in the sockets, ws, when got of the packets ps were received and
\* skip parts were read: what is left of those packets, part after part.
Remaining(ws, ps, got, skip) ==
    /\ Len(ws) = 2 * Len(ps) - skip
    /\ \A j \in got + 1 .. Len(ps) :
           /\ 2 * j - skip >= 2 => ws[2 * j - 1 - skip] = [part |-> "head", packet |-> ps[j]]
           /\ ws[2 * j - skip] = [part |-> "body", packet |-> ps[j]]

\* A channel ch of which rs was received, when the read under way is r.
InStep(ch, rs, r) ==
    ~Amiss(ch) =>
        /\ ch.waiting = <<>> /\ r # "lost"
        /\ Len(rs) <= Len(ch.posted)
        /\ \A i \in 1 .. Len(rs) : rs[i] = ch.posted[i]
        /\ r # "off" =>
              Remaining(ch.wire, ch.posted, Len(rs), 2 * Len(rs) + (IF r = "body" THEN 1 ELSE 0))

FramingInv ==
    \A k \in Conns, e \in Ends : InStep(chan[k][e], received[k][Peer(e)], read[k][Peer(e)])

\* The tail of what waits, part by part.
LEMMA TailIs ==
    ASSUME NEW S, NEW s \in Seq(S), s # <<>>, NEW n, n = Len(s)
    PROVE  /\ n \in Nat \ {0} /\ Len(Tail(s)) = n - 1 /\ Head(s) = s[1]
           /\ \A i \in 1 .. n - 1 : Tail(s)[i] = s[i + 1]
BY HeadTailProperties, LenProperties, EmptySeq

LEMMA AppendIs ==
    ASSUME NEW S, NEW s \in Seq(S), NEW x \in S, NEW n, n = Len(s)
    PROVE  /\ n \in Nat /\ Len(Append(s, x)) = n + 1
           /\ \A i \in 1 .. n : Append(s, x)[i] = s[i]
           /\ Append(s, x)[n + 1] = x
BY AppendProperties, LenProperties

LEMMA ChannelIs ==
    ASSUME NEW ch \in Channel
    PROVE  /\ ch.wire \in Seq(Piece) /\ Len(ch.wire) \in Nat
           /\ ch.posted \in Seq(Packet) /\ Len(ch.posted) \in Nat
BY DEF Channel

\* The packets ps2 are those of ps and then p; the parts ws2 are those of ws and
\* then the two of p; the parts ws2 are those of ws without the first.
OneMore(ps, ps2, p) ==
    /\ Len(ps) \in Nat /\ Len(ps2) = Len(ps) + 1
    /\ \A i \in 1 .. Len(ps) : ps2[i] = ps[i]
    /\ ps2[Len(ps) + 1] = p
TwoMore(ws, ws2, p) ==
    /\ Len(ws) \in Nat /\ Len(ws2) = Len(ws) + 2
    /\ \A i \in 1 .. Len(ws) : ws2[i] = ws[i]
    /\ ws2[Len(ws) + 1] = [part |-> "head", packet |-> p]
    /\ ws2[Len(ws) + 2] = [part |-> "body", packet |-> p]
OneLess(ws, ws2) ==
    /\ Len(ws) \in Nat \ {0} /\ Len(ws2) = Len(ws) - 1
    /\ \A i \in 1 .. Len(ws) - 1 : ws2[i] = ws[i + 1]

\* A posted packet goes behind what remains of those before it.
LEMMA RemainingPosted ==
    ASSUME NEW ws, NEW ws2, NEW ps, NEW ps2, NEW p, NEW got \in Nat, NEW skip \in Nat,
           skip <= 2 * got + 1, got <= Len(ps),
           Remaining(ws, ps, got, skip), TwoMore(ws, ws2, p), OneMore(ps, ps2, p)
    PROVE  Remaining(ws2, ps2, got, skip)
<1> USE DEF TwoMore, OneMore
<1> DEFINE head(x) == [part |-> "head", packet |-> x]
           body(x) == [part |-> "body", packet |-> x]
<1> HIDE DEF head, body
<1>1. PICK m \in Nat, n \in Nat : m = Len(ws) /\ n = Len(ps) /\ m = 2 * n - skip
    BY DEF Remaining
<1>2. \A j \in got + 1 .. n : /\ 2 * j - skip >= 2 => ws[2 * j - 1 - skip] = head(ps[j])
                              /\ ws[2 * j - skip] = body(ps[j])
    BY <1>1 DEF Remaining, head, body
<1>3. ASSUME NEW j \in got + 1 .. n + 1
      PROVE  /\ 2 * j - skip >= 2 => ws2[2 * j - 1 - skip] = head(ps2[j])
             /\ ws2[2 * j - skip] = body(ps2[j])
    <2>1. CASE j = n + 1
        <3>1. 2 * j - skip = m + 2 /\ 2 * j - 1 - skip = m + 1
            BY <1>1, <2>1
        <3>2. ws2[m + 1] = head(ps2[j]) /\ ws2[m + 2] = body(ps2[j])
            BY <1>1, <2>1 DEF head, body
        <3> QED
            BY <3>1, <3>2
    <2>2. CASE j # n + 1
        <3>1. j \in got + 1 .. n /\ j \in 1 .. n
            BY <2>2
        <3>2. 2 * j - skip \in 1 .. m /\ ps2[j] = ps[j]
            BY <1>1, <3>1
        <3>3. 2 * j - skip >= 2 => 2 * j - 1 - skip \in 1 .. m
            BY <1>1, <3>1
        <3>4. /\ 2 * j - skip >= 2 => ws2[2 * j - 1 - skip] = ws[2 * j - 1 - skip]
              /\ ws2[2 * j - skip] = ws[2 * j - skip]
            BY <1>1, <3>2, <3>3
        <3> QED
            BY <1>2, <3>1, <3>2, <3>4
    <2> QED
        BY <2>1, <2>2
<1>4. Len(ws2) = 2 * (n + 1) - skip /\ Len(ps2) = n + 1
    BY <1>1
<1> QED
    BY <1>3, <1>4 DEF Remaining, head, body

\* A part that is read goes from the front of what remains.
LEMMA RemainingTaken ==
    ASSUME NEW ws, NEW ws2, NEW ps, NEW got \in Nat, NEW got2 \in Nat, NEW skip \in Nat,
           NEW skip2, skip2 = skip + 1, Len(ps) \in Nat, got <= got2, skip <= 2 * got2,
           Remaining(ws, ps, got, skip), OneLess(ws, ws2)
    PROVE  Remaining(ws2, ps, got2, skip2)
<1> USE DEF OneLess
<1> DEFINE head(x) == [part |-> "head", packet |-> x]
           body(x) == [part |-> "body", packet |-> x]
<1> HIDE DEF head, body
<1>1. PICK m \in Nat, n \in Nat : m = Len(ws) /\ n = Len(ps) /\ m = 2 * n - skip
    BY DEF Remaining
<1>2. \A j \in got + 1 .. n : /\ 2 * j - skip >= 2 => ws[2 * j - 1 - skip] = head(ps[j])
                              /\ ws[2 * j - skip] = body(ps[j])
    BY <1>1 DEF Remaining, head, body
<1>3. ASSUME NEW j \in got2 + 1 .. n
      PROVE  /\ 2 * j - skip2 >= 2 => ws2[2 * j - 1 - skip2] = head(ps[j])
             /\ ws2[2 * j - skip2] = body(ps[j])
    <2>1. j \in got + 1 .. n /\ 2 * j - skip >= 2
        OBVIOUS
    <2>2. ws2[2 * j - skip2] = ws[2 * j - skip]
        <3>1. PICK i \in 1 .. m - 1 : i = 2 * j - skip2 /\ i + 1 = 2 * j - skip
            BY <1>1, <2>1
        <3> QED
            BY <1>1, <3>1
    <2>3. 2 * j - skip2 >= 2 => ws2[2 * j - 1 - skip2] = ws[2 * j - 1 - skip]
        <3> SUFFICES ASSUME 2 * j - skip2 >= 2
                     PROVE  ws2[2 * j - 1 - skip2] = ws[2 * j - 1 - skip]
            OBVIOUS
        <3>1. PICK i \in 1 .. m - 1 : i = 2 * j - 1 - skip2 /\ i + 1 = 2 * j - 1 - skip
            BY <1>1, <2>1
        <3> QED
            BY <1>1, <3>1
    <2> QED
        BY <1>2, <2>1, <2>2, <2>3
<1>4. Len(ws2) = 2 * n - skip2
    BY <1>1
<1> QED
    BY <1>1, <1>3, <1>4 DEF Remaining, head, body

\* Reads that are not in the middle of a packet.
LEMMA InStepOtherRead ==
    ASSUME NEW ch, NEW rs, NEW r, NEW s, InStep(ch, rs, r),
           r \notin {"body", "off"}, s \notin {"body", "lost"}
    PROVE  InStep(ch, rs, s)
BY DEF InStep

LEMMA InStepOff ==
    ASSUME NEW ch, NEW rs, NEW r, InStep(ch, rs, r)
    PROVE  InStep(ch, rs, "off")
BY DEF InStep

LEMMA InStepPosted ==
    ASSUME NEW ch \in Channel, NEW p \in Packet, NEW rs \in Seq(Packet), NEW r, InStep(ch, rs, r)
    PROVE  InStep(Posted(ch, p), rs, r)
<1> SUFFICES ASSUME ~Amiss(Posted(ch, p)) PROVE InStep(Posted(ch, p), rs, r)
    BY DEF InStep
<1>1. PICK new \in Channel : new = Posted(ch, p) /\ new.posted = Append(ch.posted, p)
    BY PostedType
<1>2. ~Amiss(ch) /\ new.waiting = <<>> /\ TwoMore(ch.wire, new.wire, p)
    BY <1>1, PostedAtOnce, ChannelIs DEF TwoMore
<1>3. PICK got \in Nat : got = Len(rs)
    BY LenProperties
<1>4. PICK skip \in Nat : skip = 2 * got + (IF r = "body" THEN 1 ELSE 0) /\ skip <= 2 * got + 1
    OBVIOUS
<1>5. /\ r # "lost" /\ got <= Len(ch.posted)
      /\ \A i \in 1 .. got : rs[i] = ch.posted[i]
      /\ r # "off" => Remaining(ch.wire, ch.posted, got, skip)
    BY <1>2, <1>3, <1>4 DEF InStep
<1>6. Len(ch.wire) \in Nat /\ Len(ch.posted) \in Nat
    BY ChannelIs
<1>7. OneMore(ch.posted, new.posted, p)
    BY <1>1, ChannelIs, AppendIs DEF OneMore
<1>8. r # "off" => Remaining(new.wire, new.posted, got, skip)
    BY <1>2, <1>4, <1>5, <1>7, RemainingPosted
<1>9. \A i \in 1 .. got : rs[i] = new.posted[i]
    BY <1>5, <1>6, <1>7 DEF OneMore
<1>10. got <= Len(new.posted)
    BY <1>5, <1>6, <1>7 DEF OneMore
<1>11. InStep(new, rs, r)
    BY <1>2, <1>3, <1>4, <1>5, <1>8, <1>9, <1>10 DEF InStep
<1> QED
    BY <1>1, <1>11

LEMMA InStepHeadTaken ==
    ASSUME NEW ch \in Channel, NEW rs \in Seq(Packet), ch.wire # <<>>,
           InStep(ch, rs, "header")
    PROVE  InStep(Took(ch), rs, "body")
<1> SUFFICES ASSUME ~Amiss(ch) PROVE InStep(Took(ch), rs, "body")
    BY TookIs, SameAmiss DEF InStep
<1>1. PICK new : new = Took(ch) /\ new.wire = Tail(ch.wire) /\ new.waiting = ch.waiting
                 /\ new.posted = ch.posted /\ new.late = ch.late
    BY TookIs
<1>2. PICK got \in Nat : got = Len(rs)
    BY LenProperties
<1>3. /\ ch.waiting = <<>> /\ got <= Len(ch.posted)
      /\ \A i \in 1 .. got : rs[i] = ch.posted[i]
      /\ Remaining(ch.wire, ch.posted, got, 2 * got)
    BY <1>2 DEF InStep
<1>4. Len(ch.posted) \in Nat /\ OneLess(ch.wire, new.wire)
    BY <1>1, ChannelIs, TailIs DEF OneLess
<1>5. Remaining(new.wire, ch.posted, got, 2 * got + 1)
    <2>1. PICK skip \in Nat, skip2 \in Nat : skip = 2 * got /\ skip2 = 2 * got + 1
        OBVIOUS
    <2>2. skip2 = skip + 1 /\ got <= got /\ skip <= 2 * got
        BY <2>1
    <2>3. Remaining(new.wire, ch.posted, got, skip2)
        BY <1>3, <1>4, <2>1, <2>2, RemainingTaken
    <2> QED
        BY <2>1, <2>3
<1> QED
    BY <1>1, <1>2, <1>3, <1>5 DEF InStep

\* Where a packet is to begin, its header comes.
LEMMA HeadIsNext ==
    ASSUME NEW ch \in Channel, NEW rs \in Seq(Packet), ch.wire # <<>>,
           InStep(ch, rs, "header"), ~Amiss(ch)
    PROVE  Head(ch.wire).part = "head"
<1>1. PICK got \in Nat : got = Len(rs)
    BY LenProperties
<1>2. /\ got <= Len(ch.posted)
      /\ Remaining(ch.wire, ch.posted, got, 2 * got)
    BY <1>1 DEF InStep
<1>3. /\ Len(ch.wire) \in Nat /\ Len(ch.wire) # 0 /\ Len(ch.posted) \in Nat
      /\ Head(ch.wire) = ch.wire[1]
    BY ChannelIs, TailIs
<1>4. got < Len(ch.posted)
    BY <1>2, <1>3 DEF Remaining
<1>5. PICK j \in got + 1 .. Len(ch.posted) : j = got + 1 /\ 2 * j - 1 - 2 * got = 1 /\ 2 * j - 2 * got >= 2
    BY <1>3, <1>4
<1>6. ch.wire[2 * j - 1 - 2 * got] = [part |-> "head", packet |-> ch.posted[j]]
    BY <1>2, <1>5 DEF Remaining
<1> QED
    BY <1>3, <1>5, <1>6

\* The part after a header is the body of the same packet, the next one posted.
LEMMA BodyIsNext ==
    ASSUME NEW ch \in Channel, NEW rs \in Seq(Packet), ch.wire # <<>>,
           InStep(ch, rs, "body"), ~Amiss(ch)
    PROVE  /\ Len(rs) < Len(ch.posted)
           /\ Head(ch.wire) = [part |-> "body", packet |-> ch.posted[Len(rs) + 1]]
<1>1. PICK got \in Nat : got = Len(rs)
    BY LenProperties
<1>2. /\ got <= Len(ch.posted)
      /\ Remaining(ch.wire, ch.posted, got, 2 * got + 1)
    BY <1>1 DEF InStep
<1>3. /\ Len(ch.wire) \in Nat /\ Len(ch.wire) # 0 /\ Len(ch.posted) \in Nat
      /\ Head(ch.wire) = ch.wire[1]
    BY ChannelIs, TailIs
<1>4. got < Len(ch.posted)
    BY <1>2, <1>3 DEF Remaining
<1>5. PICK j \in got + 1 .. Len(ch.posted) : j = got + 1 /\ 2 * j - (2 * got + 1) = 1
    BY <1>3, <1>4
<1>6. ch.wire[2 * j - (2 * got + 1)] = [part |-> "body", packet |-> ch.posted[j]]
    BY <1>2 DEF Remaining
<1> QED
    BY <1>1, <1>3, <1>4, <1>5, <1>6

LEMMA InStepBodyTaken ==
    ASSUME NEW ch \in Channel, NEW rs \in Seq(Packet), ch.wire # <<>>,
           InStep(ch, rs, "body")
    PROVE  InStep(Took(ch), Append(rs, Head(ch.wire).packet), "header")
<1> SUFFICES ASSUME ~Amiss(ch)
             PROVE  InStep(Took(ch), Append(rs, Head(ch.wire).packet), "header")
    BY TookIs, SameAmiss DEF InStep
<1>1. PICK new : new = Took(ch) /\ new.wire = Tail(ch.wire) /\ new.waiting = ch.waiting
                 /\ new.posted = ch.posted /\ new.late = ch.late
    BY TookIs
<1>2. PICK got \in Nat : got = Len(rs)
    BY LenProperties
<1>3. /\ ch.waiting = <<>>
      /\ \A i \in 1 .. got : rs[i] = ch.posted[i]
      /\ Remaining(ch.wire, ch.posted, got, 2 * got + 1)
    BY <1>2 DEF InStep
<1>4. Len(ch.posted) \in Nat /\ OneLess(ch.wire, new.wire)
    BY <1>1, ChannelIs, TailIs DEF OneLess
<1>5. PICK p \in Packet : p = ch.posted[got + 1] /\ Head(ch.wire).packet = p
    <2>1. got < Len(ch.posted) /\ Head(ch.wire).packet = ch.posted[got + 1]
        <3>1. /\ Len(rs) < Len(ch.posted)
              /\ Head(ch.wire) = [part |-> "body", packet |-> ch.posted[Len(rs) + 1]]
            BY BodyIsNext, Zenon
        <3> QED
            BY <1>2, <3>1
    <2>2. ch.posted[got + 1] \in Packet
        <3>1. got + 1 \in 1 .. Len(ch.posted)
            BY <1>4, <2>1
        <3> QED
            BY <3>1, ChannelIs, ElementOfSeq
    <2> QED
        BY <2>1, <2>2
<1>6. got + 1 <= Len(ch.posted)
    <2>1. Len(rs) < Len(ch.posted)
        BY BodyIsNext, Zenon
    <2> QED
        BY <1>2, <1>4, <2>1
<1>7. PICK rs2 : /\ rs2 = Append(rs, p) /\ Len(rs2) = got + 1
                 /\ \A i \in 1 .. got : rs2[i] = rs[i]
                 /\ rs2[got + 1] = p
    <2>1. /\ Len(Append(rs, p)) = got + 1
          /\ \A i \in 1 .. got : Append(rs, p)[i] = rs[i]
          /\ Append(rs, p)[got + 1] = p
        BY <1>2, AppendIs
    <2> QED
        BY <2>1
<1>8. ASSUME NEW i \in 1 .. got + 1 PROVE rs2[i] = ch.posted[i]
    BY <1>3, <1>5, <1>7
<1>9. Remaining(new.wire, ch.posted, got + 1, 2 * (got + 1))
    <2>1. PICK got2 \in Nat, skip \in Nat, skip2 \in Nat :
              got2 = got + 1 /\ skip = 2 * got + 1 /\ skip2 = 2 * (got + 1)
        OBVIOUS
    <2>2. skip2 = skip + 1 /\ got <= got2 /\ skip <= 2 * got2
        BY <2>1
    <2>3. Remaining(new.wire, ch.posted, got2, skip2)
        BY <1>3, <1>4, <2>1, <2>2, RemainingTaken
    <2> QED
        BY <2>1, <2>3
<1>10. InStep(new, rs2, "header")
    BY <1>1, <1>3, <1>6, <1>7, <1>8, <1>9 DEF InStep
<1> QED
    BY <1>1, <1>5, <1>7, <1>10

LEMMA InStepRemoved ==
    ASSUME NEW ch, NEW ch2, NEW rs, NEW r, InStep(ch, rs, r), ch.waiting # <<>>,
           ch2.late = ch.late, ch2.posted = ch.posted
    PROVE  InStep(ch2, rs, r)
BY SameAmiss DEF InStep

LEMMA InitFraming == Init => FramingInv
<1> SUFFICES ASSUME Init, NEW k \in Conns, NEW e \in Ends
             PROVE  InStep(chan[k][e], received[k][Peer(e)], read[k][Peer(e)])
    BY DEF FramingInv
<1>1. /\ chan[k][e].wire = <<>> /\ chan[k][e].waiting = <<>> /\ chan[k][e].posted = <<>>
      /\ received[k][Peer(e)] = <<>> /\ read[k][Peer(e)] = "none"
    BY PeerIsEnd DEF Init, Each
<1>2. Len(<<>>) = 0
    OBVIOUS
<1>3. Remaining(<<>>, <<>>, 0, 0)
    BY <1>2 DEF Remaining
<1> QED
    BY <1>1, <1>2, <1>3 DEF InStep

LEMMA FramingTypes ==
    ASSUME TypeOK, NEW k \in Conns, NEW e \in Ends
    PROVE  chan[k][e] \in Channel /\ received[k][Peer(e)] \in Seq(Packet) /\ Peer(e) \in Ends
BY PeerIsEnd DEF TypeOK

\* Steps that change reads which are not in the middle of a packet, and no channel.
LEMMA FramingWhenRead ==
    ASSUME FramingInv, NEW k \in Conns, NEW e \in Ends, NEW r, r \notin {"body", "lost"},
           OnlyRead(k, e, r), read[k][e] \notin {"body", "off"}, UNCHANGED <<chan, received>>
    PROVE  FramingInv'
<1> SUFFICES ASSUME NEW o \in Conns, NEW x \in Ends
             PROVE  InStep(chan[o][x], received[o][Peer(x)], read'[o][Peer(x)])
    BY DEF FramingInv
<1>1. InStep(chan[o][x], received[o][Peer(x)], read[o][Peer(x)]) /\ Peer(x) \in Ends
    BY PeerIsEnd DEF FramingInv
<1>2. CASE o = k /\ Peer(x) = e
    <2>1. read'[o][Peer(x)] = r /\ read[o][Peer(x)] \notin {"body", "off"}
        BY <1>1, <1>2 DEF OnlyRead
    <2> QED
        BY <1>1, <2>1, InStepOtherRead
<1>3. CASE ~(o = k /\ Peer(x) = e)
    <2>1. read'[o][Peer(x)] = read[o][Peer(x)]
        BY <1>1, <1>3 DEF OnlyRead
    <2> QED
        BY <1>1, <2>1
<1> QED
    BY <1>2, <1>3

LEMMA SendKeepsFraming ==
    ASSUME TypeOK, FramingInv, NEW c \in Clients, Send(c)
    PROVE  FramingInv'
<1>1. PICK p \in Packet : OnlyChan(conn[c], "client", Posted(chan[conn[c]]["client"], p))
    BY SendDoes
<1>2. UNCHANGED <<read, received>>
    BY SendDoes
<1> SUFFICES ASSUME NEW o \in Conns, NEW x \in Ends
             PROVE  InStep(chan'[o][x], received[o][Peer(x)], read[o][Peer(x)])
    BY <1>2 DEF FramingInv
<1>3. InStep(chan[o][x], received[o][Peer(x)], read[o][Peer(x)])
    BY DEF FramingInv
<1>4. InStep(Posted(chan[o][x], p), received[o][Peer(x)], read[o][Peer(x)])
    BY <1>3, FramingTypes, InStepPosted
<1>5. chan'[o][x] \in {chan[o][x], Posted(chan[o][x], p)}
    BY <1>1 DEF OnlyChan
<1> QED
    BY <1>3, <1>4, <1>5

LEMMA WriteKeepsFraming ==
    ASSUME TypeOK, FramingInv, NEW k \in Conns, NEW e \in Ends, NEW ch,
           chan[k][e].waiting # <<>>, ch.late = chan[k][e].late, ch.posted = chan[k][e].posted, OnlyChan(k, e, ch),
           UNCHANGED <<read, received>>
    PROVE  FramingInv'
<1> SUFFICES ASSUME NEW o \in Conns, NEW x \in Ends
             PROVE  InStep(chan'[o][x], received[o][Peer(x)], read[o][Peer(x)])
    BY DEF FramingInv
<1>1. InStep(chan[o][x], received[o][Peer(x)], read[o][Peer(x)])
    BY DEF FramingInv
<1>2. CASE o = k /\ x = e
    <2>1. chan'[o][x] = ch
        BY <1>2 DEF OnlyChan
    <2> QED
        BY <1>1, <1>2, <2>1, InStepRemoved
<1>3. CASE ~(o = k /\ x = e)
    <2>1. chan'[o][x] = chan[o][x]
        BY <1>3 DEF OnlyChan
    <2> QED
        BY <1>1, <2>1
<1> QED
    BY <1>2, <1>3

LEMMA ReadFailsKeepsFraming ==
    ASSUME TypeOK, FramingInv, NEW k \in Conns, NEW e \in Ends, ReadFails(k, e)
    PROVE  FramingInv'
<1>1. OnlyRead(k, e, "off") /\ UNCHANGED <<chan, received>>
    BY ReadFailsDoes
<1> SUFFICES ASSUME NEW o \in Conns, NEW x \in Ends
             PROVE  InStep(chan[o][x], received[o][Peer(x)], read'[o][Peer(x)])
    BY <1>1 DEF FramingInv
<1>2. InStep(chan[o][x], received[o][Peer(x)], read[o][Peer(x)]) /\ Peer(x) \in Ends
    BY PeerIsEnd DEF FramingInv
<1>3. read'[o][Peer(x)] \in {read[o][Peer(x)], "off"}
    BY <1>1, <1>2 DEF OnlyRead
<1> QED
    BY <1>2, <1>3, InStepOff

LEMMA ReadHeaderKeepsFraming ==
    ASSUME TypeOK, FramingInv, NEW k \in Conns, NEW e \in Ends, ReadHeader(k, e)
    PROVE  FramingInv'
<1>1. /\ read[k][e] = "header" /\ chan[k][Peer(e)].wire # <<>>
      /\ OnlyRead(k, e, "body") /\ OnlyChan(k, Peer(e), Took(chan[k][Peer(e)]))
      /\ UNCHANGED received
    BY ReadHeaderDoes
<1> SUFFICES ASSUME NEW o \in Conns, NEW x \in Ends
             PROVE  InStep(chan'[o][x], received[o][Peer(x)], read'[o][Peer(x)])
    BY <1>1 DEF FramingInv
<1>2. InStep(chan[o][x], received[o][Peer(x)], read[o][Peer(x)])
    BY DEF FramingInv
<1>3. CASE o = k /\ x = Peer(e)
    <2>1. Peer(x) = e
        BY <1>3, PeerIsEnd
    <2>2. chan'[o][x] = Took(chan[o][x]) /\ read'[o][Peer(x)] = "body"
        BY <1>1, <1>3, <2>1 DEF OnlyChan, OnlyRead
    <2>3. InStep(Took(chan[o][x]), received[o][Peer(x)], "body")
        <3>1. /\ chan[o][x] \in Channel /\ received[o][Peer(x)] \in Seq(Packet)
              /\ chan[o][x].wire # <<>> /\ InStep(chan[o][x], received[o][Peer(x)], "header")
            BY <1>1, <1>2, <1>3, <2>1, FramingTypes
        <3> QED
            BY <3>1, InStepHeadTaken
    <2> QED
        BY <2>2, <2>3
<1>4. CASE ~(o = k /\ x = Peer(e))
    <2>1. ~(o = k /\ Peer(x) = e) /\ Peer(x) \in Ends
        BY <1>4, PeerIsEnd
    <2>2. chan'[o][x] = chan[o][x] /\ read'[o][Peer(x)] = read[o][Peer(x)]
        BY <1>1, <1>4, <2>1 DEF OnlyChan, OnlyRead
    <2> QED
        BY <1>2, <2>2
<1> QED
    BY <1>3, <1>4

LEMMA ReadOtherKeepsFraming ==
    ASSUME TypeOK, FramingInv, NEW k \in Conns, NEW e \in Ends, ReadOther(k, e)
    PROVE  FramingInv'
<1>1. /\ chan[k][Peer(e)].wire # <<>>
      /\ \/ read[k][e] = "lost"
         \/ read[k][e] = "header" /\ Head(chan[k][Peer(e)].wire).part # "head"
         \/ read[k][e] = "body" /\ Head(chan[k][Peer(e)].wire).part # "body"
      /\ OnlyRead(k, e, "lost") /\ OnlyChan(k, Peer(e), Took(chan[k][Peer(e)]))
      /\ UNCHANGED received
    BY ReadOtherDoes
<1> SUFFICES ASSUME NEW o \in Conns, NEW x \in Ends
             PROVE  InStep(chan'[o][x], received[o][Peer(x)], read'[o][Peer(x)])
    BY <1>1 DEF FramingInv
<1>2. InStep(chan[o][x], received[o][Peer(x)], read[o][Peer(x)])
    BY DEF FramingInv
<1>3. CASE o = k /\ x = Peer(e)
    <2>1. Peer(x) = e
        BY <1>3, PeerIsEnd
    <2>2. Amiss(chan[o][x])
        <3>1. /\ chan[o][x] \in Channel /\ received[o][Peer(x)] \in Seq(Packet)
              /\ chan[o][x].wire # <<>>
            BY <1>1, <1>3, FramingTypes
        <3>2. CASE read[k][e] = "lost"
            BY <1>2, <1>3, <2>1, <3>2 DEF InStep
        <3>3. CASE read[k][e] = "body" /\ Head(chan[k][Peer(e)].wire).part # "body"
            <4>1. InStep(chan[o][x], received[o][Peer(x)], "body")
                BY <1>2, <1>3, <2>1, <3>3
            <4>2. ~Amiss(chan[o][x]) =>
                      Head(chan[o][x].wire) = [part |-> "body",
                          packet |-> chan[o][x].posted[Len(received[o][Peer(x)]) + 1]]
                BY <3>1, <4>1, BodyIsNext
            <4>3. ~Amiss(chan[o][x]) => Head(chan[o][x].wire).part = "body"
                BY <4>2
            <4> QED
                BY <1>3, <3>3, <4>3
        <3>4. CASE read[k][e] = "header" /\ Head(chan[k][Peer(e)].wire).part # "head"
            <4>1. InStep(chan[o][x], received[o][Peer(x)], "header")
                BY <1>2, <1>3, <2>1, <3>4
            <4>2. ~Amiss(chan[o][x]) => Head(chan[o][x].wire).part = "head"
                BY <3>1, <4>1, HeadIsNext
            <4> QED
                BY <1>3, <3>4, <4>2
        <3> QED
            BY <1>1, <3>2, <3>3, <3>4
    <2>3. chan'[o][x] = Took(chan[o][x])
        BY <1>1, <1>3 DEF OnlyChan
    <2> QED
        BY <2>2, <2>3, FramingTypes, TookIs, SameAmiss DEF InStep
<1>4. CASE ~(o = k /\ x = Peer(e))
    <2>1. ~(o = k /\ Peer(x) = e) /\ Peer(x) \in Ends
        BY <1>4, PeerIsEnd
    <2>2. chan'[o][x] = chan[o][x] /\ read'[o][Peer(x)] = read[o][Peer(x)]
        BY <1>1, <1>4, <2>1 DEF OnlyChan, OnlyRead
    <2> QED
        BY <1>2, <2>2
<1> QED
    BY <1>3, <1>4

LEMMA ReadBodyKeepsFraming ==
    ASSUME TypeOK, FramingInv, NEW k \in Conns, NEW e \in Ends, ReadBody(k, e)
    PROVE  FramingInv'
<1>1. /\ read[k][e] = "body" /\ chan[k][Peer(e)].wire # <<>>
      /\ OnlyRead(k, e, "header")
      /\ \A o \in Conns, x \in Ends :
            received'[o][x] = IF o = k /\ x = e
                              THEN Append(received[k][e], Head(chan[k][Peer(e)].wire).packet)
                              ELSE received[o][x]
    BY ReadBodyDoes
<1>2. PICK p \in Packet, targets \in SUBSET listed : Relayed(k, e, targets, p)
    BY ReadBodyDoes
<1> SUFFICES ASSUME NEW o \in Conns, NEW x \in Ends
             PROVE  InStep(chan'[o][x], received'[o][Peer(x)], read'[o][Peer(x)])
    BY DEF FramingInv
<1>3. InStep(chan[o][x], received[o][Peer(x)], read[o][Peer(x)])
    BY DEF FramingInv
<1>4. /\ Taken(k, e)[o][x] = (IF o = k /\ x = Peer(e) THEN Took(chan[k][Peer(e)]) ELSE chan[o][x])
      /\ Taken(k, e)[o][x] \in Channel
    BY <1>1, TakenDoes DEF Incoming
<1>5. received'[o][Peer(x)] \in Seq(Packet)
    <2>1. TypeOK'
        BY ReadBodyDoes
    <2>2. received' \in [Conns -> [Ends -> Seq(Packet)]]
        BY <2>1 DEF TypeOK
    <2> QED
        BY <2>2, PeerIsEnd
<1>6. InStep(Taken(k, e)[o][x], received'[o][Peer(x)], read'[o][Peer(x)])
    <2>1. CASE o = k /\ x = Peer(e)
        <3>1. Peer(x) = e
            BY <2>1, PeerIsEnd
        <3>2. /\ chan[o][x] \in Channel /\ received[o][Peer(x)] \in Seq(Packet)
              /\ chan[o][x].wire # <<>> /\ InStep(chan[o][x], received[o][Peer(x)], "body")
            BY <1>1, <1>3, <2>1, <3>1, FramingTypes
        <3>3. InStep(Took(chan[o][x]), Append(received[o][Peer(x)], Head(chan[o][x].wire).packet),
                     "header")
            BY <3>2, InStepBodyTaken
        <3>4. /\ Taken(k, e)[o][x] = Took(chan[o][x]) /\ read'[o][Peer(x)] = "header"
              /\ received'[o][Peer(x)] = Append(received[o][Peer(x)], Head(chan[o][x].wire).packet)
            BY <1>1, <1>4, <2>1, <3>1 DEF OnlyRead
        <3> QED
            BY <3>3, <3>4
    <2>2. CASE ~(o = k /\ x = Peer(e))
        <3>1. ~(o = k /\ Peer(x) = e) /\ Peer(x) \in Ends
            BY <2>2, PeerIsEnd
        <3>2. /\ Taken(k, e)[o][x] = chan[o][x] /\ read'[o][Peer(x)] = read[o][Peer(x)]
              /\ received'[o][Peer(x)] = received[o][Peer(x)]
            BY <1>1, <1>4, <2>2, <3>1 DEF OnlyRead
        <3> QED
            BY <1>3, <3>2
    <2> QED
        BY <2>1, <2>2
<1>7. chan'[o][x] \in {Taken(k, e)[o][x], Posted(Taken(k, e)[o][x], p)}
    BY <1>2 DEF Relayed
<1>8. InStep(Posted(Taken(k, e)[o][x], p), received'[o][Peer(x)], read'[o][Peer(x)])
    BY <1>4, <1>5, <1>6, InStepPosted
<1> QED
    BY <1>6, <1>7, <1>8

LEMMA NextKeepsFraming == TypeOK /\ EndsInv /\ FramingInv /\ [Next]_vars => FramingInv'
<1> SUFFICES ASSUME TypeOK, EndsInv, FramingInv, [Next]_vars PROVE FramingInv'
    OBVIOUS
<1>1. ASSUME UNCHANGED <<read, chan, received>> PROVE FramingInv'
    BY <1>1 DEF FramingInv
<1>2. CASE UNCHANGED vars
    BY <1>1, <1>2 DEF vars
<1>3. ASSUME NEW c \in Clients, Disconnect(c) PROVE FramingInv'
    BY <1>1, <1>3, DisconnectDoes
<1>4. ASSUME NEW c \in Clients, Connect(c) PROVE FramingInv'
    <2>1. /\ used + 1 \in Conns /\ used + 1 > used
          /\ OnlyRead(used + 1, "client", "connect") /\ UNCHANGED <<chan, received>>
        BY <1>4, ConnectDoes DEF TypeOK
    <2>2. read[used + 1]["client"] = "none"
        BY <2>1 DEF EndsInv, Unmade
    <2> QED
        BY <2>1, <2>2, EndsAre, FramingWhenRead
<1>5. ASSUME NEW c \in Clients, Send(c) PROVE FramingInv'
    BY <1>5, SendKeepsFraming
<1>6. ASSUME NEW k \in Conns, ConnectHandler(k) PROVE FramingInv'
    <2>1. PICK r \in {"header", "failed"} : OnlyRead(k, "client", r)
        BY <1>6, ConnectHandlerDoes
    <2>2. read[k]["client"] = "connect" /\ UNCHANGED <<chan, received>>
        BY <1>6, ConnectHandlerDoes
    <2> QED
        BY <2>1, <2>2, EndsAre, FramingWhenRead
<1>7. ASSUME NEW k \in Conns, Accept(k) PROVE FramingInv'
    <2>1. /\ read[k]["server"] = "none" /\ OnlyRead(k, "server", "header")
          /\ UNCHANGED <<chan, received>>
        BY <1>7, AcceptDoes
    <2> QED
        BY <2>1, EndsAre, FramingWhenRead
<1>8. ASSUME NEW k \in Conns, Break(k) PROVE FramingInv'
    BY <1>1, <1>8, BreakDoes
<1>9. ASSUME NEW k \in Conns, NEW e \in Ends, WriteSome(k, e) PROVE FramingInv'
    <2>1. /\ chan[k][e].waiting # <<>> /\ OnlyChan(k, e, Flushed(chan[k][e]))
          /\ UNCHANGED <<read, received>> /\ chan[k][e] \in Channel
        BY <1>9, WriteSomeDoes, FramingTypes
    <2>2. Flushed(chan[k][e]).late = chan[k][e].late /\ Flushed(chan[k][e]).posted = chan[k][e].posted
        BY <2>1, FlushedType
    <2> QED
        BY <2>1, <2>2, WriteKeepsFraming
<1>10. ASSUME NEW k \in Conns, NEW e \in Ends, WriteFails(k, e) PROVE FramingInv'
    <2>1. /\ chan[k][e].waiting # <<>>
          /\ OnlyChan(k, e, [chan[k][e] EXCEPT !.waiting = Tail(@)])
          /\ UNCHANGED <<read, received>> /\ chan[k][e] \in Channel
        BY <1>10, WriteFailsDoes, FramingTypes
    <2>2. /\ [chan[k][e] EXCEPT !.waiting = Tail(@)].late = chan[k][e].late
          /\ [chan[k][e] EXCEPT !.waiting = Tail(@)].posted = chan[k][e].posted
        BY <2>1 DEF Channel
    <2> QED
        BY <2>1, <2>2, WriteKeepsFraming
<1>11. ASSUME NEW k \in Conns, NEW e \in Ends, Handler(k, e) PROVE FramingInv'
    BY <1>9, <1>10, <1>11, ReadHeaderKeepsFraming, ReadBodyKeepsFraming, ReadOtherKeepsFraming,
       ReadFailsKeepsFraming DEF Handler
<1> QED
    BY <1>2, <1>3, <1>4, <1>5, <1>6, <1>7, <1>8, <1>11 DEF Next

LEMMA SubSeqFromOne ==
    ASSUME NEW S, NEW s \in Seq(S), NEW n \in 0 .. Len(s)
    PROVE  /\ SubSeq(s, 1, n) \in Seq(S) /\ Len(SubSeq(s, 1, n)) = n
           /\ \A i \in 1 .. n : SubSeq(s, 1, n)[i] = s[i]
<1>1. Len(s) \in Nat /\ n \in Nat /\ 1 \in Int /\ n \in Int
    BY LenProperties
<1>2. \A i \in 1 .. n : s[i] \in S
    BY <1>1, ElementOfSeq
<1>3. SubSeq(s, 1, n) \in Seq(S)
    BY <1>1, <1>2, SubSeqProperties
<1>4. Len(SubSeq(s, 1, n)) = n
    BY <1>1, <1>2, SubSeqProperties
<1>5. \A i \in 1 .. n : SubSeq(s, 1, n)[i] = s[i]
    BY <1>1, <1>2, SubSeqProperties
<1> QED
    BY <1>3, <1>4, <1>5

LEMMA SameSubSeq ==
    ASSUME NEW S, NEW s \in Seq(S), NEW t \in Seq(S), NEW n,
           n \in 0 .. Len(s), n \in 0 .. Len(t), \A i \in 1 .. n : s[i] = t[i]
    PROVE  SubSeq(s, 1, n) = SubSeq(t, 1, n)
<1>1. /\ SubSeq(s, 1, n) \in Seq(S) /\ Len(SubSeq(s, 1, n)) = n
      /\ \A i \in 1 .. n : SubSeq(s, 1, n)[i] = s[i]
    BY SubSeqFromOne
<1>2. /\ SubSeq(t, 1, n) \in Seq(S) /\ Len(SubSeq(t, 1, n)) = n
      /\ \A i \in 1 .. n : SubSeq(t, 1, n)[i] = t[i]
    BY SubSeqFromOne
<1> QED
    BY <1>1, <1>2, SeqEqual

LEMMA FitsWhenSmall == \A n \in Nat : n % 65536 = n <=> n < 65536
OBVIOUS

LEMMA ElementsOf ==
    ASSUME NEW S, NEW s \in Seq(S), NEW i \in DOMAIN s
    PROVE  s[i] \in S
BY ElementOfSeq

\* The packets one end receives are the first of those the other end wrote, in
\* their order, and the framing is never lost, while each write found room at
\* once and no packet_size was less than a header: whoever wrote them, and
\* whatever is closed or broken on the way.  A packet that arrives is whole
\* exactly when its size fits the 16 bits of packet_size.
THEOREM PacketsArriveInOrder == Spec => []PacketsInOrder
<1>1. TypeOK /\ FramingInv => PacketsInOrder
    <2> SUFFICES ASSUME TypeOK, FramingInv, NEW k \in Conns, NEW e \in Ends, ~Amiss(chan[k][e])
                 PROVE  /\ IsPrefix(received[k][Peer(e)], chan[k][e].posted)
                        /\ read[k][Peer(e)] # "lost"
                        /\ \A p \in Range(received[k][Peer(e)]) :
                              p.packet_size = p.size + HEADER_SIZE <=> p.size + HEADER_SIZE < 65536
        BY DEF PacketsInOrder
    <2>1. PICK rs \in Seq(Packet), ps \in Seq(Packet) :
              rs = received[k][Peer(e)] /\ ps = chan[k][e].posted
        BY FramingTypes, ChannelIs
    <2>2. /\ read[k][Peer(e)] # "lost" /\ Len(rs) <= Len(ps)
          /\ \A i \in 1 .. Len(rs) : rs[i] = ps[i]
        BY <2>1 DEF FramingInv, InStep
    <2>3. SubSeq(rs, 1, Len(rs)) = SubSeq(ps, 1, Len(rs))
        <3>1. PICK n \in Nat : n = Len(rs) /\ n \in 0 .. Len(rs) /\ n \in 0 .. Len(ps)
            BY <2>2, LenProperties
        <3> QED
            BY <2>2, <3>1, SameSubSeq
    <2>4. ASSUME NEW p \in Range(rs)
          PROVE  p.packet_size = p.size + HEADER_SIZE <=> p.size + HEADER_SIZE < 65536
        <3>1. p \in Packet
            BY ElementsOf DEF Range
        <3>2. p.size \in Nat /\ p.packet_size = (p.size + HEADER_SIZE) % 65536
            BY <3>1 DEF Packet
        <3> QED
            BY <3>2, FitsWhenSmall DEF HEADER_SIZE
    <2> QED
        BY <2>1, <2>2, <2>3, <2>4 DEF IsPrefix
<1> QED
    BY InitType, NextKeepsTypes, InitEnds, NextKeepsEnds, InitFraming, NextKeepsFraming, <1>1, PTL
       DEF Spec

===============================================================================
