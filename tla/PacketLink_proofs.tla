------------------------- MODULE PacketLink_proofs -------------------------
(***************************************************************************)
(* Proofs about the link, for every length of header, of packets and of    *)
(* socket buffers, and every number of sessions and requests: packets      *)
(* arrive whole, once and in order in both directions, up to where a send  *)
(* runs past its packet, and a search is answered once.                    *)
(***************************************************************************)
EXTENDS PacketLink, SequenceTheorems, FiniteSetTheorems, TLAPS

ClientPacket ==
  [type : {"AUTH"} \cup DOMAIN Answer, replyAddr : Nat, n : Nat]
BytesOf(P) == [p : P, k : Nat]

\* What the variables hold that decide which packets are sent, and how.
ClientTypes ==
  /\ up \in Seq(BytesOf(ClientPacket))
  /\ cO \in Seq(ClientPacket) /\ cPin \in Seq(BytesOf(Packet))
  /\ cPout \in Seq(BytesOf(ClientPacket))
  /\ repCounter \in Nat /\ made \in Nat
ServerTypes ==
  /\ R \in Seq(ClientPacket) /\ Pin \in Seq(BytesOf(ClientPacket))
  /\ O \in Seq(Packet) /\ queued \in Seq(Packet)
SendTypes ==
  /\ down \in Seq(BytesOf(Packet)) /\ Len(down) <= Cap
  /\ Pout = <<>> \/ \E p \in Packet : Pout = <<p>>
  /\ bytesOut \in Nat /\ order \in {"net", "host"}
LinkTypes == ClientTypes /\ ServerTypes /\ SendTypes

-----------------------------------------------------------------------------
(* Bytes and parts of sequences.                                           *)

LEMMA PacketFacts ==
  /\ ClientPacket \subseteq Packet
  /\ \A p \in Packet : Length(p) \in Nat /\ Length(p) = HDR + Size[p.type]
                       /\ Size[p.type] \in Nat
  /\ HDR \in Nat \ {0} /\ Cap \in Nat \ {0}
<1>1. DOMAIN Answer = {"SSLT", "RCTX", "STAT"}
  BY DEF Answer
<1>2. ClientPacket \subseteq Packet
  BY <1>1 DEF ClientPacket, Packet, Types
<1>3. QED
  BY <1>2, LinkAssumption DEF Packet, Length

LEMMA BytesFromFacts ==
  ASSUME NEW P, P \subseteq Packet, NEW p \in P,
         NEW first \in Nat, NEW n \in Int
  PROVE  /\ BytesFrom(p, first, n) \in Seq(BytesOf(P))
         /\ Len(BytesFrom(p, first, n)) = IF n < 0 THEN 0 ELSE n
<1> DEFINE m == IF n < 0 THEN 0 ELSE n
<1>1. m \in Nat /\ 1..n = 1..m
  OBVIOUS
<1>2. \A k \in 1..m : Byte(p, first + k) \in BytesOf(P)
  BY PacketFacts DEF Byte, BytesOf
<1>3. [k \in 1..m |-> Byte(p, first + k)] \in Seq(BytesOf(P))
      /\ Len([k \in 1..m |-> Byte(p, first + k)]) = m
  BY <1>1, <1>2, IsASeq, LenProperties
<1>4. QED
  BY <1>1, <1>3 DEF BytesFrom

LEMMA BytesFacts ==
  ASSUME NEW P, P \subseteq Packet, NEW p \in P
  PROVE  Bytes(p) \in Seq(BytesOf(P))
BY BytesFromFacts, PacketFacts DEF Bytes

LEMMA TakenFacts ==
  ASSUME NEW S, NEW q \in Seq(S), NEW n \in Int
  PROVE  /\ Taken(q, n) \in Seq(S)
         /\ Len(Taken(q, n)) \in 0..Len(q)
<1> DEFINE m == Least(n, Len(q))
<1>1. m \in Int /\ m <= Len(q) /\ Len(q) \in Nat
  BY LenProperties DEF Least
<1>2. CASE m < 1
  <2>1. Taken(q, n) = <<>>
    BY <1>1, <1>2, SubSeqEmpty DEF Taken
  <2>2. QED
    BY <1>1, <2>1
<1>3. CASE m >= 1
  BY <1>1, <1>3, SubSeqProperties DEF Taken
<1>4. QED
  BY <1>1, <1>2, <1>3

LEMMA RestFacts ==
  ASSUME NEW S, NEW q \in Seq(S), NEW n \in Nat
  PROVE  /\ Rest(q, n) \in Seq(S)
         /\ Len(Rest(q, n)) <= Len(q)
<1>1. Len(q) \in Nat
  BY LenProperties
<1>2. CASE n + 1 > Len(q)
  <2>1. Rest(q, n) = <<>>
    BY <1>1, <1>2, SubSeqEmpty DEF Rest
  <2>2. QED
    BY <1>1, <2>1
<1>3. CASE n + 1 <= Len(q)
  BY <1>1, <1>3, SubSeqProperties DEF Rest
<1>4. QED
  BY <1>1, <1>2, <1>3

\* A read moves bytes from the front of one sequence to the end of another.
LEMMA MoveFacts ==
  ASSUME NEW S, NEW q \in Seq(S), NEW r \in Seq(S), NEW n \in Int
  PROVE  LET got == r \o Taken(q, n)
         IN /\ got \in Seq(S)
            /\ Len(got) - Len(r) \in Nat
            /\ Rest(q, Len(got) - Len(r)) \in Seq(S)
            /\ Len(Rest(q, Len(got) - Len(r))) <= Len(q)
<1>1. Taken(q, n) \in Seq(S) /\ Len(Taken(q, n)) \in Nat
  BY TakenFacts, LenProperties
<1>2. /\ r \o Taken(q, n) \in Seq(S)
      /\ Len(r \o Taken(q, n)) = Len(r) + Len(Taken(q, n))
  BY <1>1, ConcatProperties
<1>3. Len(r) \in Nat
  BY LenProperties
<1>4. Len(r \o Taken(q, n)) - Len(r) \in Nat
  BY <1>1, <1>2, <1>3
<1>5. QED
  BY <1>2, <1>4, RestFacts

LEMMA PktFacts ==
  ASSUME NEW type, NEW replyAddr \in Nat, NEW n \in Nat
  PROVE  /\ type \in Types => Pkt(type, replyAddr, n) \in Packet
         /\ type \in {"AUTH"} \cup DOMAIN Answer
              => Pkt(type, replyAddr, n) \in ClientPacket
BY DEF Pkt, Packet, ClientPacket

\* A step that sends nothing and at most takes bytes from the socket.
LEMMA SendKept ==
  ASSUME LinkTypes, UNCHANGED <<Pout, bytesOut, order>>,
         down' \in Seq(BytesOf(Packet)), Len(down') <= Len(down)
  PROVE  SendTypes'
<1>1. Len(down) \in Nat /\ Len(down') \in Nat
  BY LenProperties DEF LinkTypes, SendTypes
<1>2. QED
  BY <1>1, PacketFacts DEF LinkTypes, SendTypes

\* Nor does a step that leaves the socket alone too.
LEMMA SendKeptElsewhere ==
  ASSUME LinkTypes, UNCHANGED <<Pout, bytesOut, order, down>>
  PROVE  SendTypes'
BY DEF LinkTypes, SendTypes

-----------------------------------------------------------------------------
(* The client.                                                             *)

LEMMA ConnectStep ==
  ASSUME LinkTypes, attemptConnection PROVE LinkTypes'
<1>1. cPout' \in Seq(BytesOf(ClientPacket))
  BY BytesFacts, PacketFacts, PktFacts DEF attemptConnection, Auth
<1>2. down' \in Seq(BytesOf(Packet)) /\ Len(down') <= Len(down)
  BY LenProperties DEF attemptConnection, LinkTypes, SendTypes
<1>3. SendTypes'
  BY <1>2, SendKept DEF attemptConnection, server
<1>4. QED
  BY <1>1, <1>3 DEF LinkTypes, ClientTypes, ServerTypes,
                    attemptConnection, server

LEMMA DroppedStep ==
  ASSUME LinkTypes, connectionDropped, UNCHANGED <<up, server, made, queued>>
  PROVE  LinkTypes'
<1>1. down' \in Seq(BytesOf(Packet)) /\ Len(down') <= Len(down)
  BY LenProperties DEF connectionDropped, LinkTypes, SendTypes
<1>2. SendTypes'
  BY <1>1, SendKept DEF server
<1>3. QED
  BY <1>2 DEF LinkTypes, ClientTypes, ServerTypes, connectionDropped,
              server

LEMMA WriteStep ==
  ASSUME LinkTypes, writeOperation PROVE LinkTypes'
<1>1. PICK n \in 1..Least(Len(cPout), Cap - Len(up)) :
        up' = up \o Taken(cPout, n) /\ cPout' = Rest(cPout, n)
  BY DEF writeOperation
<1>2. /\ up \in Seq(BytesOf(ClientPacket)) /\ Len(up) \in Nat
      /\ cPout \in Seq(BytesOf(ClientPacket)) /\ Len(cPout) \in Nat
  BY LenProperties DEF LinkTypes, ClientTypes
<1>3. n \in Nat
  BY <1>2, PacketFacts DEF Least
<1>4. /\ up' \in Seq(BytesOf(ClientPacket))
      /\ cPout' \in Seq(BytesOf(ClientPacket))
  BY <1>1, <1>2, <1>3, TakenFacts, RestFacts, ConcatProperties
<1>5. down' \in Seq(BytesOf(Packet)) /\ Len(down') <= Len(down)
  BY LenProperties DEF writeOperation, LinkTypes, SendTypes
<1>6. SendTypes'
  BY <1>5, SendKept DEF writeOperation, server
<1>7. QED
  BY <1>4, <1>6 DEF LinkTypes, ClientTypes, ServerTypes,
                    writeOperation, server, history

\* The first byte of what has been read, or is there to be read.
LEMMA FirstByte ==
  ASSUME NEW P, NEW q \in Seq(BytesOf(P)), HasHeader(q)
  PROVE  q[1].p \in P
<1>1. Len(q) \in Nat /\ 1 \in 1..Len(q)
  BY LenProperties, PacketFacts DEF HasHeader
<1>2. q[1] \in BytesOf(P)
  BY <1>1, ElementOfSeq
<1>3. QED
  BY <1>2 DEF BytesOf

LEMMA ReadStep ==
  ASSUME LinkTypes, readSocket PROVE LinkTypes'
<1>1. cPin \in Seq(BytesOf(Packet)) /\ down \in Seq(BytesOf(Packet))
  BY DEF LinkTypes, ClientTypes, SendTypes
<1>2. Wanted \in Int
  <2>1. Len(cPin) \in Nat
    BY <1>1, LenProperties
  <2>2. CASE HasHeader(cPin)
    BY <1>1, <2>1, <2>2, FirstByte, PacketFacts DEF Wanted
  <2>3. CASE ~HasHeader(cPin) /\ Len(down) >= HDR
    <3>1. down[1].p \in Packet
      BY <1>1, <2>3, FirstByte DEF HasHeader
    <3>2. QED
      BY <2>3, <3>1, PacketFacts DEF Wanted
  <2>4. QED
    BY <2>2, <2>3 DEF Wanted
<1>3. DEFINE left == Rest(down, Len(ReadSome) - Len(cPin))
<1>4. /\ ReadSome \in Seq(BytesOf(Packet))
      /\ left \in Seq(BytesOf(Packet)) /\ Len(left) <= Len(down)
  BY <1>1, <1>2, MoveFacts DEF ReadSome
<1>5. CASE ReadRefused
  BY <1>5, DroppedStep DEF ReadRefused, readSocket
<1>6. CASE ReadPart \/ ReadWhole
  <2>1. down' = left /\ (cPin' = ReadSome \/ cPin' = <<>>)
    BY <1>6 DEF ReadPart, ReadWhole
  <2>2. SendTypes'
    BY <1>4, <2>1, SendKept DEF readSocket, server
  <2>3. cPin' \in Seq(BytesOf(Packet))
    <3>1. CASE cPin' = ReadSome
      BY ONLY <1>4, <3>1
    <3>2. CASE cPin' = <<>>
      BY <3>2
    <3>3. QED
      BY <2>1, <3>1, <3>2
  <2>4. QED
    BY <1>6, <2>2, <2>3 DEF LinkTypes, ClientTypes, ServerTypes,
                       readSocket, ReadPart, ReadWhole, ReadFrame, server
<1>7. QED
  BY <1>5, <1>6 DEF readSocket

LEMMA WriteSocketStep ==
  ASSUME LinkTypes, writeSocket PROVE LinkTypes'
<1>1. /\ cO' \in Seq(ClientPacket)
      /\ cPout' \in Seq(BytesOf(ClientPacket))
  <2>1. CASE cO = <<>>
    BY <2>1 DEF writeSocket, LinkTypes, ClientTypes
  <2>2. CASE cO # <<>>
    <3>1. Head(cO) \in ClientPacket /\ Tail(cO) \in Seq(ClientPacket)
      BY <2>2, HeadTailProperties DEF LinkTypes, ClientTypes
    <3>2. Bytes(Head(cO)) \in Seq(BytesOf(ClientPacket))
      BY <3>1, BytesFacts, PacketFacts
    <3>3. QED
      BY <2>2, <3>1, <3>2 DEF writeSocket, LinkTypes, ClientTypes
  <2>3. QED
    BY <2>1, <2>2
<1>2. down' \in Seq(BytesOf(Packet)) /\ Len(down') <= Len(down)
  BY LenProperties DEF writeSocket, link, LinkTypes, SendTypes
<1>3. SendTypes'
  BY <1>2, SendKept DEF writeSocket, server
<1>4. QED
  BY <1>1, <1>3 DEF LinkTypes, ClientTypes, ServerTypes, writeSocket,
                    link, server, history

LEMMA AddStep ==
  ASSUME LinkTypes, NEW type \in Requests, addPacketToQueue(type) PROVE LinkTypes'
<1> DEFINE p == Pkt(type, IF type \in Asks THEN repCounter ELSE 0, made + 1)
<1>1. repCounter \in Nat /\ made \in Nat /\ cO \in Seq(ClientPacket)
  BY DEF LinkTypes, ClientTypes
<1>2. p \in ClientPacket
  <2>1. type \in {"AUTH"} \cup DOMAIN Answer
    BY LinkAssumption
  <2>2. (IF type \in Asks THEN repCounter ELSE 0) \in Nat /\ made + 1 \in Nat
    BY <1>1
  <2>3. QED
    BY <2>1, <2>2, PktFacts
<1>3. cO' = Append(cO, p)
  BY DEF addPacketToQueue, Added
<1>4. cO' \in Seq(ClientPacket)
  BY <1>1, <1>2, <1>3, AppendProperties
<1>5. repCounter' \in Nat /\ made' \in Nat
  BY <1>1 DEF addPacketToQueue
<1>6. down' \in Seq(BytesOf(Packet)) /\ Len(down') <= Len(down)
  BY LenProperties DEF addPacketToQueue, link, LinkTypes, SendTypes
<1>7. SendTypes'
  BY <1>6, SendKept DEF addPacketToQueue, server
<1>8. QED
  BY <1>4, <1>5, <1>7 DEF LinkTypes, ClientTypes, ServerTypes,
                          addPacketToQueue, link, server

LEMMA HandleStep ==
  ASSUME LinkTypes, handleReceivingQueue PROVE LinkTypes'
<1>1. down' \in Seq(BytesOf(Packet)) /\ Len(down') <= Len(down)
  BY LenProperties
     DEF handleReceivingQueue, link, LinkTypes, SendTypes
<1>2. SendTypes'
  BY <1>1, SendKept DEF handleReceivingQueue, server
<1>3. QED
  BY <1>2 DEF LinkTypes, ClientTypes, ServerTypes,
              handleReceivingQueue, link, server, history

-----------------------------------------------------------------------------
(* The network thread receives.                                            *)

LEMMA ReceiveHeaderStep ==
  ASSUME LinkTypes, ReceiveHeader PROVE LinkTypes'
<1>1. /\ Pin \in Seq(BytesOf(ClientPacket)) /\ Len(Pin) \in Nat
      /\ up \in Seq(BytesOf(ClientPacket))
  BY LenProperties DEF LinkTypes, ClientTypes, ServerTypes
<1>2. /\ GotHeader \in Seq(BytesOf(ClientPacket))
      /\ Rest(up, Len(GotHeader) - Len(Pin)) \in Seq(BytesOf(ClientPacket))
  <2>1. CASE HasHeader(Pin)
    <3>1. GotHeader = Pin /\ Len(GotHeader) - Len(Pin) = 0
      BY <1>1, <2>1 DEF GotHeader
    <3>2. QED
      BY <1>1, <3>1, RestFacts
  <2>2. CASE ~HasHeader(Pin)
    <3>1. HeaderMissing \in Int
      BY <1>1, PacketFacts DEF HeaderMissing
    <3>2. GotHeader = Pin \o Taken(up, HeaderMissing)
      BY <2>2 DEF GotHeader
    <3>3. QED
      BY <1>1, <3>1, <3>2, MoveFacts
  <2>3. QED
    BY <2>1, <2>2
<1>3. /\ Pin' \in Seq(BytesOf(ClientPacket))
      /\ up' \in Seq(BytesOf(ClientPacket))
  BY <1>2 DEF ReceiveHeader
<1>4. SendTypes'
  BY SendKeptElsewhere DEF ReceiveHeader, ServerAt, Outgoing
<1>5. QED
  BY <1>3, <1>4 DEF LinkTypes, ClientTypes, ServerTypes,
                    ReceiveHeader, Outgoing, Frame, client

LEMMA ReceiveDataStep ==
  ASSUME LinkTypes, ReceiveData PROVE LinkTypes'
<1>1. /\ Pin \in Seq(BytesOf(ClientPacket)) /\ Len(Pin) \in Nat
      /\ up \in Seq(BytesOf(ClientPacket)) /\ R \in Seq(ClientPacket)
  BY LenProperties DEF LinkTypes, ClientTypes, ServerTypes
<1>2. DataMissing \in Int
  <2>1. CASE HasHeader(Pin)
    <3>1. Pin[1].p \in Packet
      BY <1>1, <2>1, FirstByte, PacketFacts
    <3>2. QED
      BY <1>1, <2>1, <3>1, PacketFacts DEF DataMissing
  <2>2. CASE ~HasHeader(Pin)
    BY <2>2 DEF DataMissing
  <2>3. QED
    BY <2>1, <2>2
<1>3. /\ GotData \in Seq(BytesOf(ClientPacket))
      /\ Rest(up, Len(GotData) - Len(Pin)) \in Seq(BytesOf(ClientPacket))
  BY <1>1, <1>2, MoveFacts DEF GotData
<1>4. /\ Pin' \in Seq(BytesOf(ClientPacket))
      /\ R' \in Seq(ClientPacket)
  <2>1. CASE Whole(GotData)
    <3>1. GotData[1].p \in ClientPacket
      BY <1>3, <2>1, FirstByte DEF Whole
    <3>2. R' = Append(R, GotData[1].p) /\ Pin' = <<>>
      BY <2>1 DEF ReceiveData
    <3>3. R' \in Seq(ClientPacket)
      BY <1>1, <3>1, <3>2, AppendProperties
    <3>4. QED
      BY <3>2, <3>3
  <2>2. CASE ~Whole(GotData)
    BY <1>1, <1>3, <2>2 DEF ReceiveData
  <2>3. QED
    BY <2>1, <2>2
<1>5. up' \in Seq(BytesOf(ClientPacket))
  BY <1>3 DEF ReceiveData
<1>6. SendTypes'
  BY SendKeptElsewhere DEF ReceiveData, ServerAt, Outgoing
<1>7. QED
  BY <1>4, <1>5, <1>6 DEF LinkTypes, ClientTypes, ServerTypes,
                          ReceiveData, Outgoing, Frame, client

-----------------------------------------------------------------------------
(* The network thread sends.                                               *)

LEMMA FreeFacts ==
  ASSUME LinkTypes
  PROVE  Free \in Nat /\ Len(down) \in Nat /\ Len(down) + Free = Cap
BY LenProperties, PacketFacts DEF LinkTypes, SendTypes, Free

LEMMA CurrentFacts ==
  ASSUME LinkTypes
  PROVE  /\ Current = <<>> \/ \E p \in Packet : Current = <<p>>
         /\ Begun \in Nat /\ BegunOrder \in {"net", "host"}
         /\ Taking => Current # <<>> /\ Begun = 0 /\ BegunOrder = "net"
         /\ ~Taking => Current = Pout /\ Begun = bytesOut /\ BegunOrder = order
<1>1. CASE Taking
  <2>1. Head(O) \in Packet
    BY <1>1, HeadTailProperties DEF Taking, LinkTypes, ServerTypes
  <2>2. QED
    BY <1>1, <2>1 DEF Current, Begun, BegunOrder, NoneSent
<1>2. CASE ~Taking
  BY <1>2 DEF Current, Begun, BegunOrder, LinkTypes, SendTypes
<1>3. QED
  BY <1>1, <1>2

LEMMA HeaderCountFacts ==
  ASSUME LinkTypes
  PROVE  /\ HeaderCount \in Nat /\ HeaderCount <= Free
         /\ Begun < HDR => Begun + HeaderCount <= HDR
         /\ Begun >= HDR => HeaderCount = 0
<1>1. Free \in Nat /\ Begun \in Nat /\ HDR \in Nat
  BY CurrentFacts, FreeFacts, PacketFacts
<1>2. CASE Begun < HDR
  BY <1>1, <1>2 DEF HeaderCount, Least
<1>3. CASE ~(Begun < HDR)
  BY <1>1, <1>3 DEF HeaderCount
<1>4. QED
  BY <1>1, <1>2, <1>3

LEMMA SendHeaderStep ==
  ASSUME LinkTypes, SendHeader PROVE LinkTypes'
<1>1. ServerTypes'
  <2>1. O' \in Seq(Packet)
    <3>1. CASE Taking
      BY <3>1, HeadTailProperties DEF Taking, SendHeader, LinkTypes,
                                      ServerTypes
    <3>2. CASE ~Taking
      BY <3>2 DEF SendHeader, LinkTypes, ServerTypes
    <3>3. QED
      BY <3>1, <3>2
  <2>2. QED
    BY <2>1 DEF SendHeader, LinkTypes, ServerTypes
<1>2. ClientTypes'
  BY DEF SendHeader, LinkTypes, ClientTypes, Frame, client
<1>3. CASE Current = <<>>
  <2>1. Pout' = <<>> /\ UNCHANGED <<down, bytesOut, order>>
    BY <1>3 DEF SendHeader
  <2>2. QED
    BY <1>1, <1>2, <2>1 DEF LinkTypes, SendTypes
<1>4. CASE Current # <<>>
  <2>1. PICK p \in Packet : Current = <<p>>
    BY <1>4, CurrentFacts
  <2>2. /\ Pout' = <<p>> /\ pc' = "sendData" /\ pc = "sendHeader"
        /\ down' = down \o BytesFrom(p, Begun, HeaderCount)
        /\ bytesOut' = Begun + HeaderCount
        /\ order' = IF bytesOut' = HDR THEN Other[BegunOrder] ELSE BegunOrder
    BY <1>4, <2>1 DEF SendHeader, ServerAt
  <2>3. /\ HeaderCount \in Nat /\ HeaderCount <= Free /\ Begun \in Nat
        /\ Free \in Nat /\ Len(down) \in Nat /\ Len(down) + Free = Cap
        /\ HDR \in Nat /\ Cap \in Nat
    BY CurrentFacts, HeaderCountFacts, FreeFacts, PacketFacts
  <2>4. /\ BytesFrom(p, Begun, HeaderCount) \in Seq(BytesOf(Packet))
        /\ Len(BytesFrom(p, Begun, HeaderCount)) = HeaderCount
    BY <2>3, BytesFromFacts
  <2>5. /\ down' \in Seq(BytesOf(Packet))
        /\ Len(down') = Len(down) + HeaderCount
    BY <2>2, <2>4, ConcatProperties DEF LinkTypes, SendTypes
  <2>6. bytesOut' \in Nat /\ order' \in {"net", "host"}
    BY <2>2, <2>3, CurrentFacts DEF Other
  <2>7. SendTypes'
    BY <2>2, <2>3, <2>5, <2>6 DEF SendTypes
  <2>8. QED
    BY <1>1, <1>2, <2>7 DEF LinkTypes
<1>5. QED
  BY <1>3, <1>4

\* What is taken for the data of a packet may be more than the packet has.
LEMMA SendDataStep ==
  ASSUME LinkTypes, SendData PROVE LinkTypes'
<1>1. ServerTypes' /\ ClientTypes'
  BY DEF SendData, LinkTypes, ServerTypes, ClientTypes, Frame, client
<1>2. CASE Pout = <<>>
  <2>1. Pout' = <<>> /\ UNCHANGED <<down, bytesOut, order>>
    BY <1>2 DEF SendData
  <2>2. QED
    BY <1>1, <2>1 DEF LinkTypes, SendTypes
<1>3. CASE Pout # <<>>
  <2>1. PICK p \in Packet : Pout = <<p>>
    BY <1>3 DEF LinkTypes, SendTypes
  <2>2. PICK n : n = DataCount(p)
    OBVIOUS
  <2>3. /\ down' = down \o BytesFrom(p, bytesOut, n)
        /\ bytesOut' = Least(bytesOut + n, Length(p) + 1)
        /\ Pout' = IF bytesOut >= HDR /\ n = DataLeft(p) THEN <<>> ELSE Pout
        /\ order' = order
    BY <1>3, <2>1, <2>2 DEF SendData
  <2>4. /\ Free \in Nat /\ Len(down) \in Nat /\ Len(down) + Free = Cap
        /\ HDR \in Nat \ {0} /\ Cap \in Nat /\ bytesOut \in Nat
        /\ Size[p.type] \in Nat /\ Length(p) = HDR + Size[p.type]
    BY FreeFacts, PacketFacts DEF LinkTypes, SendTypes
  <2>5. n \in Int /\ n <= Free /\ bytesOut + n >= 0
    <3>1. CASE bytesOut < HDR
      BY <2>2, <2>4, <3>1 DEF DataCount
    <3>2. CASE ~(bytesOut < HDR)
      <4>1. n = Least(DataLeft(p), Free)
        BY <2>2, <2>4, <3>2 DEF DataCount
      <4>2. DataLeft(p) \in Int /\ bytesOut + DataLeft(p) >= 0
        <5>1. CASE order = "host"
          BY <2>4, <5>1 DEF DataLeft
        <5>2. CASE order # "host"
          BY <2>4, <5>2 DEF DataLeft
        <5>3. QED
          BY <5>1, <5>2
      <4>3. QED
        BY <2>4, <4>1, <4>2 DEF Least
    <3>3. QED
      BY <3>1, <3>2
  <2>6. down' \in Seq(BytesOf(Packet)) /\ Len(down') <= Cap
    <3>1. /\ BytesFrom(p, bytesOut, n) \in Seq(BytesOf(Packet))
          /\ Len(BytesFrom(p, bytesOut, n)) = IF n < 0 THEN 0 ELSE n
      BY <2>4, <2>5, BytesFromFacts
    <3>2. /\ down' \in Seq(BytesOf(Packet))
          /\ Len(down') = Len(down) + (IF n < 0 THEN 0 ELSE n)
      BY <2>3, <3>1, ConcatProperties DEF LinkTypes, SendTypes
    <3>3. QED
      BY <2>4, <2>5, <3>2
  <2>7. bytesOut' \in Nat
    BY <2>3, <2>4, <2>5 DEF Least
  <2>8. SendTypes'
    BY <2>1, <2>3, <2>6, <2>7 DEF LinkTypes, SendTypes
  <2>9. QED
    BY <1>1, <2>8 DEF LinkTypes
<1>4. QED
  BY <1>2, <1>3

-----------------------------------------------------------------------------
(* The rest of a round of the network thread.                              *)

LEMMA DeleteStep ==
  ASSUME LinkTypes, DeleteClient PROVE LinkTypes'
BY DEF DeleteClient, LinkTypes, ClientTypes, ServerTypes, SendTypes,
       Frame, client

LEMMA QueueFacts ==
  ASSUME LinkTypes, NEW packets \in Seq(Packet), Queue(packets)
  PROVE  O' \in Seq(Packet) /\ queued' \in Seq(Packet)
BY ConcatProperties DEF Queue, LinkTypes, ServerTypes

LEMMA HandlePacketStep ==
  ASSUME LinkTypes, HandlePacket PROVE LinkTypes'
<1> DEFINE p == Head(R)
<1>1. p \in ClientPacket /\ R' \in Seq(ClientPacket)
  BY HeadTailProperties DEF HandlePacket, LinkTypes, ServerTypes
<1>2. p.replyAddr \in Nat /\ Len(queued) + 1 \in Nat
  BY <1>1, LenProperties DEF ClientPacket, LinkTypes, ServerTypes
<1>3. ASSUME NEW type \in Types PROVE Reply(type, p.replyAddr) \in Packet
  BY <1>2, PktFacts DEF Reply
<1>4. O' \in Seq(Packet) /\ queued' \in Seq(Packet)
  <2>1. CASE p.type = "AUTH"
    <3>1. PICK type \in {"YES", "NO"} : Queue(<<Reply(type, p.replyAddr)>>)
      BY <2>1 DEF HandlePacket, HandleAuth
    <3>2. <<Reply(type, p.replyAddr)>> \in Seq(Packet)
      BY <1>3 DEF Types
    <3>3. QED
      BY <3>1, <3>2, QueueFacts
  <2>2. CASE p.type # "AUTH"
    <3>1. \/ Queue(<<Reply(Answer[p.type], p.replyAddr)>>)
          \/ Queue(<<>>)
      BY <2>2 DEF HandlePacket, HandleRequest
    <3>2. Answer[p.type] \in Types
      BY <1>1, <2>2 DEF ClientPacket, Types
    <3>3. <<Reply(Answer[p.type], p.replyAddr)>> \in Seq(Packet)
      BY <1>3, <3>2
    <3>4. CASE Queue(<<Reply(Answer[p.type], p.replyAddr)>>)
      BY <3>3, <3>4, QueueFacts
    <3>5. CASE Queue(<<>>)
      <4>1. <<>> \in Seq(Packet)
        OBVIOUS
      <4>2. QED
        BY <3>5, <4>1, QueueFacts
    <3>6. QED
      BY <3>1, <3>4, <3>5
  <2>3. QED
    BY <2>1, <2>2
<1>5. SendTypes'
  BY SendKeptElsewhere DEF HandlePacket, ServerAt, link
<1>6. QED
  BY <1>1, <1>4, <1>5 DEF LinkTypes, ClientTypes, ServerTypes,
                          HandlePacket, link, Frame, client

LEMMA PauseStep ==
  ASSUME LinkTypes, Pause PROVE LinkTypes'
<1>1. PICK due \in {<<>>, <<"UPDT">>, <<"MDUD">>, <<"UPDT", "MDUD">>} :
        Queue([k \in 1..Len(due) |-> Pkt(due[k], 0, Len(queued) + k)])
  BY DEF Pause
<1>2. Len(due) \in Nat /\ \A k \in 1..Len(due) : due[k] \in Types
  BY DEF Types, Reports
<1>3. Len(queued) \in Nat
  BY LenProperties DEF LinkTypes, ServerTypes
<1>4. \A k \in 1..Len(due) : Pkt(due[k], 0, Len(queued) + k) \in Packet
  BY <1>2, <1>3, PktFacts
<1>5. [k \in 1..Len(due) |-> Pkt(due[k], 0, Len(queued) + k)] \in Seq(Packet)
  BY <1>2, <1>4, IsASeq
<1>6. O' \in Seq(Packet) /\ queued' \in Seq(Packet)
  BY <1>1, <1>5, QueueFacts
<1>7. SendTypes'
  BY SendKeptElsewhere DEF Pause, ServerAt, link
<1>8. QED
  BY <1>6, <1>7 DEF LinkTypes, ClientTypes, ServerTypes, Pause, link,
                    Frame, client

LEMMA RoundStep ==
  ASSUME LinkTypes, SecondUpdate \/ Accept PROVE LinkTypes'
<1>1. CASE SecondUpdate
  <2>1. SendTypes'
    BY <1>1, SendKeptElsewhere DEF SecondUpdate, ServerAt, link
  <2>2. QED
    BY <1>1, <2>1 DEF LinkTypes, ClientTypes, ServerTypes,
                      SecondUpdate, link, client, history
<1>2. CASE Accept
  <2>1. SendTypes'
    BY <1>2, SendKeptElsewhere DEF Accept, server
  <2>2. QED
    BY <1>2, <2>1 DEF LinkTypes, ClientTypes, ServerTypes, Accept,
                      server, client, history
<1>3. QED
  BY <1>1, <1>2

-----------------------------------------------------------------------------

LEMMA TypesInit == Init => LinkTypes
BY PacketFacts DEF Init, LinkTypes, ClientTypes, ServerTypes, SendTypes

LEMMA TypesStep ==
  ASSUME LinkTypes, [Next]_vars PROVE LinkTypes'
<1>1. CASE attemptConnection
  BY <1>1, ConnectStep
<1>2. CASE Drop
  BY <1>2, DroppedStep DEF Drop, history
<1>3. CASE ClientThread
  BY <1>3, WriteStep, ReadStep, WriteSocketStep DEF ClientThread
<1>4. ASSUME NEW type \in Requests, addPacketToQueue(type) PROVE LinkTypes'
  BY <1>4, AddStep
<1>5. CASE handleReceivingQueue
  BY <1>5, HandleStep
<1>6. CASE Update
  BY <1>6, ReceiveHeaderStep, ReceiveDataStep, SendHeaderStep, SendDataStep,
     DeleteStep DEF Update
<1>7. CASE HandlePacket \/ SecondUpdate \/ Accept \/ Pause
  BY <1>7, HandlePacketStep, RoundStep, PauseStep
<1>8. CASE UNCHANGED vars
  <2>1. SendTypes'
    BY <1>8 DEF vars, link, server, LinkTypes, SendTypes
  <2>2. QED
    BY <1>8, <2>1 DEF vars, link, client, server, history, LinkTypes,
                      ClientTypes, ServerTypes
<1>9. QED
  BY <1>1, <1>2, <1>3, <1>4, <1>5, <1>6, <1>7, <1>8 DEF Next, NetworkThread

-----------------------------------------------------------------------------
(* Induction, and what FlattenSeq computes.  Its function joins the first  *)
(* i of a sequence of sequences.                                           *)

\* The least number of a set: what induction rests on here.
LEMMA LeastOf ==
  ASSUME NEW T, T \subseteq Nat, T # {}
  PROVE  \E n \in T : \A m \in T : n <= m
<1> DEFINE Less == {ss \in Nat \X Nat : ss[1] < ss[2]}
<1>1. Less = OpToRel(<, Nat)
  BY Zenon DEF OpToRel
<1>2. IsWellFoundedOn(Less, Nat)
  BY <1>1, NatLessThanWellFounded, Zenon
<1>3. ASSUME NEW m \in Nat, NEW n \in Nat, m < n PROVE <<m, n>> \in Less
  BY <1>3
<1> HIDE DEF Less
<1>4. PICK n \in T : \A m \in T : ~ (<<m, n>> \in Less)
  BY <1>2, WFMin
<1>5. \A m \in T : n <= m
  <2>1. SUFFICES ASSUME NEW m \in T PROVE n <= m
    OBVIOUS
  <2>2. m \in Nat /\ n \in Nat /\ ~(m < n)
    BY <1>3, <1>4
  <2>3. QED
    BY <2>2
<1>6. QED
  BY <1>5

\* Induction over the naturals, as a fact about the set of those that have
\* a property.
LEMMA AllNaturals ==
  ASSUME NEW T, 0 \in T, \A n \in Nat : n \in T => n + 1 \in T
  PROVE  \A n \in Nat : n \in T
<1> SUFFICES ASSUME NEW k \in Nat \ T PROVE FALSE
  OBVIOUS
<1>1. PICK n \in Nat \ T : \A m \in Nat \ T : n <= m
  <2>1. Nat \ T \subseteq Nat /\ Nat \ T # {}
    OBVIOUS
  <2>2. QED
    BY <2>1, LeastOf
<1>2. n # 0 /\ n - 1 \in Nat
  OBVIOUS
<1>3. n - 1 \in T
  BY <1>1, <1>2
<1>4. QED
  BY <1>2, <1>3

Joins(s, n, g) ==
  g = [i \in 1..n |-> IF i = 1 THEN s[i] ELSE g[i - 1] \o s[i]]

LEMMA JoinExists ==
  ASSUME NEW s, NEW n \in Nat PROVE \E g : Joins(s, n, g)
<1> DEFINE T == {m \in Nat : \E g : Joins(s, m, g)}
<1>1. 0 \in T
  <2>1. Joins(s, 0, [i \in 1..0 |-> 0])
    BY DEF Joins
  <2>2. QED
    BY <2>1
<1>2. ASSUME NEW m \in Nat, m \in T PROVE m + 1 \in T
  <2>1. PICK g : Joins(s, m, g)
    BY <1>2
  <2> DEFINE h == [i \in 1..(m + 1) |->
                    IF i <= m THEN g[i]
                    ELSE IF i = 1 THEN s[i] ELSE g[i - 1] \o s[i]]
  <2>2. \A i \in 1..m : g[i] = IF i = 1 THEN s[i] ELSE g[i - 1] \o s[i]
    BY <2>1 DEF Joins
  <2>3. \A i \in 1..m : h[i] = g[i]
    OBVIOUS
  <2>4. ASSUME NEW i \in 1..(m + 1)
        PROVE  h[i] = IF i = 1 THEN s[i] ELSE h[i - 1] \o s[i]
    <3>1. i # 1 => i - 1 \in 1..m
      OBVIOUS
    <3>2. i # 1 => h[i - 1] = g[i - 1]
      BY <2>3, <3>1
    <3>3. CASE i <= m
      BY <2>2, <2>3, <3>2, <3>3
    <3>4. CASE i > m
      <4>1. h[i] = IF i = 1 THEN s[i] ELSE g[i - 1] \o s[i]
        BY <3>4
      <4>2. QED
        BY <3>2, <4>1
    <3>5. QED
      BY <3>3, <3>4
  <2>5. h = [i \in 1..(m + 1) |-> h[i]]
    OBVIOUS
  <2> HIDE DEF h
  <2>6. Joins(s, m + 1, h)
    BY <2>4, <2>5 DEF Joins
  <2>7. QED
    BY <2>6
<1> HIDE DEF T
<1>3. n \in T
  BY <1>1, <1>2, AllNaturals
<1>4. QED
  BY <1>3 DEF T

LEMMA JoinUnique ==
  ASSUME NEW s, NEW n \in Nat, NEW g, NEW h, Joins(s, n, g), Joins(s, n, h)
  PROVE  g = h
<1> DEFINE T == {m \in Nat : m \in 1..n => g[m] = h[m]}
<1>1. \A i \in 1..n : /\ g[i] = IF i = 1 THEN s[i] ELSE g[i - 1] \o s[i]
                      /\ h[i] = IF i = 1 THEN s[i] ELSE h[i - 1] \o s[i]
  BY DEF Joins
<1>2. 0 \in T
  OBVIOUS
<1>3. ASSUME NEW m \in Nat, m \in T PROVE m + 1 \in T
  <2>1. SUFFICES ASSUME m + 1 \in 1..n PROVE g[m + 1] = h[m + 1]
    OBVIOUS
  <2>2. CASE m = 0
    BY <1>1, <2>1, <2>2
  <2>3. CASE m # 0
    <3>1. m \in 1..n /\ m + 1 # 1 /\ (m + 1) - 1 = m
      BY <2>1, <2>3
    <3>2. g[m] = h[m]
      BY <1>3, <3>1
    <3>3. QED
      BY <1>1, <2>1, <3>1, <3>2
  <2>4. QED
    BY <2>2, <2>3
<1> HIDE DEF T
<1>4. \A m \in Nat : m \in T
  BY <1>2, <1>3, AllNaturals
<1>5. \A i \in 1..n : g[i] = h[i]
  BY <1>4 DEF T
<1>6. g = [i \in 1..n |-> g[i]] /\ h = [i \in 1..n |-> h[i]]
  BY DEF Joins
<1>7. QED
  BY <1>5, <1>6
\* FlattenSeq is the last of these joins.
LEMMA FlattenIsJoin ==
  ASSUME NEW s, Len(s) \in Nat, Len(s) # 0, NEW g, Joins(s, Len(s), g)
  PROVE  FlattenSeq(s) = g[Len(s)]
<1> DEFINE f == CHOOSE x : x = [i \in 1..Len(s) |->
                    IF i = 1 THEN s[i] ELSE x[i - 1] \o s[i]]
<1>1. FlattenSeq(s) = f[Len(s)]
  BY Zenon DEF FlattenSeq
<1>2. \E x : x = [i \in 1..Len(s) |->
                    IF i = 1 THEN s[i] ELSE x[i - 1] \o s[i]]
  BY Zenon DEF Joins
<1>3. f = [i \in 1..Len(s) |-> IF i = 1 THEN s[i] ELSE f[i - 1] \o s[i]]
  BY <1>2, Zenon
<1> HIDE DEF f
<1>4. Joins(s, Len(s), f)
  BY <1>3, Zenon DEF Joins
<1>5. f = g
  BY <1>4, JoinUnique
<1>6. QED
  BY <1>1, <1>5

LEMMA FlattenType ==
  ASSUME NEW S, NEW s \in Seq(Seq(S))
  PROVE  FlattenSeq(s) \in Seq(S)
<1>1. Len(s) \in Nat /\ \A i \in 1..Len(s) : s[i] \in Seq(S)
  BY LenProperties, ElementOfSeq
<1>2. CASE Len(s) = 0
  BY <1>2, EmptySeq DEF FlattenSeq
<1>3. CASE Len(s) # 0
  <2>1. PICK g : Joins(s, Len(s), g)
    BY <1>1, JoinExists
  <2>2. \A i \in 1..Len(s) : g[i] = IF i = 1 THEN s[i] ELSE g[i - 1] \o s[i]
    BY <2>1 DEF Joins
  <2> DEFINE T == {m \in Nat : m \in 1..Len(s) => g[m] \in Seq(S)}
  <2>3. 0 \in T
    OBVIOUS
  <2>4. ASSUME NEW m \in Nat, m \in T PROVE m + 1 \in T
    <3>1. SUFFICES ASSUME m + 1 \in 1..Len(s) PROVE g[m + 1] \in Seq(S)
      OBVIOUS
    <3>2. CASE m = 0
      BY <1>1, <2>2, <3>1, <3>2
    <3>3. CASE m # 0
      <4>1. m \in 1..Len(s) /\ m + 1 # 1 /\ (m + 1) - 1 = m
        BY <1>1, <3>1, <3>3
      <4>2. g[m] \in Seq(S)
        BY <2>4, <4>1
      <4>3. g[m + 1] = g[m] \o s[m + 1] /\ s[m + 1] \in Seq(S)
        BY <1>1, <2>2, <3>1, <4>1
      <4>4. QED
        BY <4>2, <4>3, ConcatProperties
    <3>4. QED
      BY <3>2, <3>3
  <2> HIDE DEF T
  <2>5. \A m \in Nat : m \in T
    BY <2>3, <2>4, AllNaturals
  <2>6. g[Len(s)] \in Seq(S)
    BY <1>1, <1>3, <2>5 DEF T
  <2>7. QED
    BY <1>1, <1>3, <2>1, <2>6, FlattenIsJoin
<1>4. QED
  BY <1>2, <1>3

LEMMA FlattenEmpty == FlattenSeq(<<>>) = <<>>
BY EmptySeq DEF FlattenSeq

LEMMA FlattenAppend ==
  ASSUME NEW S, NEW s \in Seq(Seq(S)), NEW e \in Seq(S)
  PROVE  FlattenSeq(Append(s, e)) = FlattenSeq(s) \o e
<1> DEFINE n == Len(s)
           t == Append(s, e)
<1>1. n \in Nat
  BY LenProperties
<1>2. /\ Len(t) = n + 1 /\ t[n + 1] = e
      /\ \A i \in 1..n : t[i] = s[i]
  BY AppendProperties
<1>3. PICK h : Joins(t, n + 1, h)
  BY <1>1, JoinExists
<1> HIDE DEF t, n
<1>4. \A i \in 1..(n + 1) :
        h[i] = IF i = 1 THEN t[i] ELSE h[i - 1] \o t[i]
  BY <1>3 DEF Joins
<1>5. FlattenSeq(t) = h[n + 1]
  BY <1>1, <1>2, <1>3, FlattenIsJoin
<1>6. CASE n = 0
  <2>1. FlattenSeq(t) = e
    BY <1>2, <1>4, <1>5, <1>6
  <2>2. FlattenSeq(s) = <<>>
    BY <1>6, EmptySeq, FlattenEmpty DEF n
  <2>3. QED
    BY <2>1, <2>2, ConcatEmptySeq DEF t
<1>7. CASE n # 0
  <2> DEFINE g == [i \in 1..n |-> h[i]]
  <2>1. ASSUME NEW i \in 1..n
        PROVE  g[i] = IF i = 1 THEN s[i] ELSE g[i - 1] \o s[i]
    <3>1. i \in 1..(n + 1) /\ (i # 1 => i - 1 \in 1..n)
      BY <1>1
    <3>2. g[i] = h[i] /\ (i # 1 => g[i - 1] = h[i - 1])
      BY <3>1
    <3>3. QED
      BY <1>2, <1>4, <3>1, <3>2
  <2>2. g = [i \in 1..n |-> g[i]]
    OBVIOUS
  <2>3. g[n] = h[n]
    BY <1>1, <1>7
  <2> HIDE DEF g
  <2>4. Joins(s, n, g)
    BY <2>1, <2>2 DEF Joins
  <2>5. FlattenSeq(s) = g[n]
    BY <1>1, <1>7, <2>4, FlattenIsJoin DEF n
  <2>6. h[n + 1] = h[n] \o e
    <3>1. n + 1 \in 1..(n + 1) /\ n + 1 # 1 /\ (n + 1) - 1 = n
      BY <1>1, <1>7
    <3>2. QED
      BY <1>2, <1>4, <3>1
  <2>7. QED
    BY <1>5, <2>3, <2>5, <2>6 DEF t
<1>8. QED
  BY <1>6, <1>7

LEMMA FlattenFirst ==
  ASSUME NEW S, NEW e \in Seq(S), NEW s \in Seq(Seq(S))
  PROVE  FlattenSeq(<<e>> \o s) = e \o FlattenSeq(s)
<1> DEFINE Holds(t) == FlattenSeq(<<e>> \o t) = e \o FlattenSeq(t)
           T == {n \in Nat : \A t \in Seq(Seq(S)) : Len(t) = n => Holds(t)}
<1>1. 0 \in T
  <2>1. SUFFICES ASSUME NEW t \in Seq(Seq(S)), Len(t) = 0 PROVE Holds(t)
    OBVIOUS
  <2>2. t = <<>>
    BY <2>1, EmptySeq
  <2>3. <<e>> \o t = Append(<<>>, e) /\ <<>> \in Seq(Seq(S))
    BY <2>2, ConcatEmptySeq
  <2>4. FlattenSeq(<<e>> \o t) = <<>> \o e
    BY <2>3, FlattenAppend, FlattenEmpty
  <2>5. QED
    BY <2>2, <2>4, FlattenEmpty, ConcatEmptySeq
<1>2. ASSUME NEW n \in Nat, n \in T PROVE n + 1 \in T
  <2>1. SUFFICES ASSUME NEW t \in Seq(Seq(S)), Len(t) = n + 1 PROVE Holds(t)
    <3> HIDE DEF Holds
    <3> QED
      OBVIOUS
  <2>2. t # <<>>
    BY <2>1, EmptySeq
  <2>3. PICK u \in Seq(Seq(S)), x \in Seq(S) : t = Append(u, x)
    BY <2>2, SequenceEmptyOrAppend
  <2>4. Len(u) = n
    BY <2>1, <2>3, AppendProperties, LenProperties
  <2>5. FlattenSeq(<<e>> \o u) = e \o FlattenSeq(u)
    BY <1>2, <2>4
  <2>6. <<e>> \o t = Append(<<e>> \o u, x) /\ <<e>> \o u \in Seq(Seq(S))
    <3>1. <<e>> \in Seq(Seq(S)) /\ <<x>> \in Seq(Seq(S))
      OBVIOUS
    <3>2. t = u \o <<x>> /\ <<e>> \o u \in Seq(Seq(S))
      BY <2>3, <3>1, AppendIsConcat, ConcatProperties
    <3>3. <<e>> \o (u \o <<x>>) = (<<e>> \o u) \o <<x>>
      BY <3>1, ConcatAssociative
    <3>4. QED
      BY <3>2, <3>3, AppendIsConcat
  <2>7. FlattenSeq(<<e>> \o t) = FlattenSeq(<<e>> \o u) \o x
    BY <2>6, FlattenAppend
  <2>8. FlattenSeq(t) = FlattenSeq(u) \o x
    BY <2>3, FlattenAppend
  <2>9. FlattenSeq(u) \in Seq(S)
    BY FlattenType
  <2>10. (e \o FlattenSeq(u)) \o x = e \o (FlattenSeq(u) \o x)
    BY <2>9, ConcatAssociative
  <2>11. QED
    BY <2>5, <2>7, <2>8, <2>10
<1> HIDE DEF T
<1>3. Len(s) \in T /\ Len(s) \in Nat
  BY <1>1, <1>2, AllNaturals, LenProperties
<1>4. QED
  BY <1>3 DEF T
-----------------------------------------------------------------------------
(* The bytes of a sequence of packets.                                     *)

AllBytes(s) == [k \in DOMAIN s |-> Bytes(s[k])]

LEMMA AllBytesFacts ==
  ASSUME NEW s \in Seq(Packet)
  PROVE  /\ AllBytes(s) \in Seq(Seq(BytesOf(Packet)))
         /\ Len(AllBytes(s)) = Len(s)
         /\ \A k \in 1..Len(s) : AllBytes(s)[k] = Bytes(s[k])
<1>1. Len(s) \in Nat /\ DOMAIN s = 1..Len(s)
  BY LenProperties
<1>2. \A k \in 1..Len(s) : Bytes(s[k]) \in Seq(BytesOf(Packet))
  BY ElementOfSeq, BytesFacts
<1>3. [k \in 1..Len(s) |-> Bytes(s[k])] \in Seq(Seq(BytesOf(Packet)))
      /\ Len([k \in 1..Len(s) |-> Bytes(s[k])]) = Len(s)
  BY <1>1, <1>2, IsASeq, LenProperties
<1>4. QED
  BY <1>1, <1>3 DEF AllBytes

LEMMA StreamType ==
  ASSUME NEW s \in Seq(Packet) PROVE Stream(s) \in Seq(BytesOf(Packet))
BY AllBytesFacts, FlattenType DEF Stream, AllBytes

LEMMA StreamEmpty == Stream(<<>>) = <<>>
<1>1. AllBytes(<<>>) = <<>>
  <2>1. <<>> \in Seq(Packet)
    OBVIOUS
  <2>2. Len(AllBytes(<<>>)) = 0 /\ AllBytes(<<>>) \in Seq(Seq(BytesOf(Packet)))
    BY <2>1, AllBytesFacts, EmptySeq
  <2>3. QED
    BY <2>2, EmptySeq
<1>2. QED
  BY <1>1, FlattenEmpty DEF Stream, AllBytes

LEMMA StreamAppend ==
  ASSUME NEW s \in Seq(Packet), NEW p \in Packet
  PROVE  Stream(Append(s, p)) = Stream(s) \o Bytes(p)
<1> DEFINE t == Append(s, p)
           a == Append(AllBytes(s), Bytes(p))
<1>1. Bytes(p) \in Seq(BytesOf(Packet))
  BY BytesFacts
<1>2. /\ Len(s) \in Nat /\ Len(t) = Len(s) + 1 /\ t \in Seq(Packet)
      /\ t[Len(s) + 1] = p /\ \A k \in 1..Len(s) : t[k] = s[k]
  BY AppendProperties, LenProperties
<1>3. /\ a \in Seq(Seq(BytesOf(Packet))) /\ Len(a) = Len(s) + 1
      /\ a[Len(s) + 1] = Bytes(p)
      /\ \A k \in 1..Len(s) : a[k] = Bytes(s[k])
  BY <1>1, AllBytesFacts, AppendProperties
<1>4. /\ AllBytes(t) \in Seq(Seq(BytesOf(Packet)))
      /\ Len(AllBytes(t)) = Len(t)
      /\ \A k \in 1..Len(t) : AllBytes(t)[k] = Bytes(t[k])
  BY <1>2, AllBytesFacts
<1> HIDE DEF t, a
<1>5. AllBytes(t) = a
  <2>1. ASSUME NEW k \in 1..Len(a) PROVE AllBytes(t)[k] = a[k]
    <3>1. k \in 1..Len(t) /\ (k = Len(s) + 1 \/ k \in 1..Len(s))
      BY <1>2, <1>3
    <3>2. CASE k = Len(s) + 1
      BY <1>2, <1>3, <1>4, <3>1, <3>2
    <3>3. CASE k \in 1..Len(s)
      BY <1>2, <1>3, <1>4, <3>1, <3>3
    <3>4. QED
      BY <3>1, <3>2, <3>3
  <2>2. Len(AllBytes(t)) = Len(a)
    BY <1>2, <1>3, <1>4
  <2>3. QED
    BY <1>3, <1>4, <2>1, <2>2, SeqEqual
<1>6. FlattenSeq(AllBytes(t)) = FlattenSeq(AllBytes(s)) \o Bytes(p)
  BY <1>1, <1>5, AllBytesFacts, FlattenAppend DEF a
<1>7. QED
  BY <1>6 DEF Stream, AllBytes, t

LEMMA StreamFirst ==
  ASSUME NEW p \in Packet, NEW s \in Seq(Packet)
  PROVE  Stream(<<p>> \o s) = Bytes(p) \o Stream(s)
<1> DEFINE t == <<p>> \o s
           a == <<Bytes(p)>> \o AllBytes(s)
<1>1. Bytes(p) \in Seq(BytesOf(Packet))
  BY BytesFacts
<1>2. /\ <<p>> \in Seq(Packet) /\ Len(<<p>>) = 1 /\ <<p>>[1] = p
      /\ <<Bytes(p)>> \in Seq(Seq(BytesOf(Packet))) /\ Len(<<Bytes(p)>>) = 1
      /\ <<Bytes(p)>>[1] = Bytes(p)
  BY <1>1
<1>3. /\ Len(s) \in Nat /\ t \in Seq(Packet) /\ Len(t) = Len(s) + 1
      /\ t[1] = p /\ \A k \in 2..(Len(s) + 1) : t[k] = s[k - 1]
  BY <1>2, ConcatProperties, LenProperties
<1>4. /\ a \in Seq(Seq(BytesOf(Packet))) /\ Len(a) = Len(s) + 1
      /\ a[1] = Bytes(p)
      /\ \A k \in 2..(Len(s) + 1) : a[k] = Bytes(s[k - 1])
  <2>1. /\ AllBytes(s) \in Seq(Seq(BytesOf(Packet)))
        /\ Len(AllBytes(s)) = Len(s)
        /\ \A k \in 1..Len(s) : AllBytes(s)[k] = Bytes(s[k])
    BY AllBytesFacts
  <2>2. \A k \in 2..(Len(s) + 1) : k - 1 \in 1..Len(s)
    BY <1>3
  <2>3. /\ a \in Seq(Seq(BytesOf(Packet))) /\ Len(a) = Len(s) + 1
        /\ a[1] = Bytes(p)
        /\ \A k \in 2..(Len(s) + 1) : a[k] = AllBytes(s)[k - 1]
    <3> DEFINE u == <<Bytes(p)>>
               v == AllBytes(s)
    <3>1. /\ u \in Seq(Seq(BytesOf(Packet))) /\ Len(u) = 1 /\ u[1] = Bytes(p)
          /\ v \in Seq(Seq(BytesOf(Packet))) /\ Len(v) = Len(s)
      BY <1>2, <2>1
    <3> HIDE DEF u, v
    <3>2. /\ u \o v \in Seq(Seq(BytesOf(Packet)))
          /\ Len(u \o v) = Len(s) + 1 /\ (u \o v)[1] = Bytes(p)
          /\ \A k \in 2..(Len(s) + 1) : (u \o v)[k] = v[k - 1]
      <4>1. /\ u \o v \in Seq(Seq(BytesOf(Packet)))
            /\ Len(u \o v) = Len(u) + Len(v)
            /\ \A k \in 1..(Len(u) + Len(v)) :
                 (u \o v)[k] = IF k <= Len(u) THEN u[k] ELSE v[k - Len(u)]
        BY <3>1, ConcatProperties
      <4>2. Len(u) + Len(v) = Len(s) + 1 /\ 1 \in 1..(Len(s) + 1)
        BY <1>3, <3>1
      <4>3. ASSUME NEW k \in 2..(Len(s) + 1) PROVE (u \o v)[k] = v[k - 1]
        BY <1>3, <3>1, <4>1, <4>2
      <4>4. (u \o v)[1] = Bytes(p)
        BY <3>1, <4>1, <4>2
      <4>5. QED
        BY <1>3, <3>1, <4>1, <4>2, <4>3, <4>4
    <3>3. QED
      BY <3>2 DEF u, v
  <2>4. QED
    BY <2>1, <2>2, <2>3
<1>5. /\ AllBytes(t) \in Seq(Seq(BytesOf(Packet)))
      /\ Len(AllBytes(t)) = Len(t)
      /\ \A k \in 1..Len(t) : AllBytes(t)[k] = Bytes(t[k])
  BY <1>3, AllBytesFacts
<1> HIDE DEF t, a
<1>6. AllBytes(t) = a
  <2>1. ASSUME NEW k \in 1..Len(a) PROVE AllBytes(t)[k] = a[k]
    <3>1. k = 1 \/ k \in 2..(Len(s) + 1)
      BY <1>3, <1>4
    <3>2. QED
      BY <1>3, <1>4, <1>5, <3>1
  <2>2. Len(AllBytes(t)) = Len(a)
    BY <1>3, <1>4, <1>5
  <2>3. QED
    BY <1>4, <1>5, <2>1, <2>2, SeqEqual
<1>7. FlattenSeq(AllBytes(t)) = Bytes(p) \o FlattenSeq(AllBytes(s))
  BY <1>1, <1>6, AllBytesFacts, FlattenFirst DEF a
<1>8. QED
  BY <1>7 DEF Stream, AllBytes, t
-----------------------------------------------------------------------------
(* What is carried: the packets between those out and those waiting.       *)

Carried(in, out, bytes, waiting) ==
  \E mid \in Seq(Packet) : /\ in = (out \o mid) \o waiting
                           /\ bytes = Stream(mid)

LEMMA TakeThenRest ==
  ASSUME NEW S, NEW q \in Seq(S), NEW n \in Int
  PROVE  Taken(q, n) \o Rest(q, Len(Taken(q, n))) = q
<1> DEFINE m == Least(n, Len(q))
<1>1. m \in Int /\ m <= Len(q) /\ Len(q) \in Nat
  BY LenProperties DEF Least
<1>2. CASE m < 1
  <2>1. Taken(q, n) = <<>>
    BY <1>1, <1>2, SubSeqEmpty DEF Taken
  <2>2. Rest(q, 0) = q
    BY SubSeqFull DEF Rest
  <2>3. QED
    BY <2>1, <2>2, ConcatEmptySeq
<1>3. CASE m >= 1
  <2>1. Taken(q, n) = SubSeq(q, 1, m) /\ Len(Taken(q, n)) = m
    BY <1>1, <1>3, SubSeqProperties DEF Taken
  <2>2. Rest(q, m) = SubSeq(q, m + 1, Len(q))
    BY DEF Rest
  <2> HIDE DEF m
  <2>3. SubSeq(q, 1, m) \o SubSeq(q, m + 1, Len(q)) = SubSeq(q, 1, Len(q))
    BY <1>1, <1>3, ConcatAdjacentSubSeq
  <2>4. QED
    BY <2>1, <2>2, <2>3, SubSeqFull
<1>4. QED
  BY <1>1, <1>2, <1>3

\* A read changes no byte and no order.
LEMMA MoveKeeps ==
  ASSUME NEW S, NEW q \in Seq(S), NEW r \in Seq(S), NEW n \in Int
  PROVE  LET got == r \o Taken(q, n)
         IN  got \o Rest(q, Len(got) - Len(r)) = r \o q
<1> DEFINE a == Taken(q, n)
<1>1. a \in Seq(S) /\ Len(a) \in 0..Len(q) /\ Len(q) \in Nat /\ Len(r) \in Nat
  BY TakenFacts, LenProperties
<1>2. a \o Rest(q, Len(a)) = q
  BY TakeThenRest
<1> HIDE DEF a
<1>3. Len(r \o a) - Len(r) = Len(a)
  BY <1>1, ConcatProperties
<1>4. Rest(q, Len(a)) \in Seq(S)
  BY <1>1, RestFacts
<1>5. (r \o a) \o Rest(q, Len(a)) = r \o (a \o Rest(q, Len(a)))
  BY <1>1, <1>4, ConcatAssociative
<1>6. QED
  BY <1>2, <1>3, <1>5 DEF a

LEMMA SplitUnique ==
  ASSUME NEW S, NEW a \in Seq(S), NEW b \in Seq(S), NEW c \in Seq(S),
         NEW d \in Seq(S), a \o b = c \o d, Len(a) = Len(c)
  PROVE  a = c /\ b = d
<1>1. /\ Len(a) \in Nat /\ Len(b) \in Nat /\ Len(d) \in Nat
      /\ Len(a \o b) = Len(a) + Len(b) /\ Len(c \o d) = Len(c) + Len(d)
      /\ \A i \in 1..(Len(a) + Len(b)) :
           (a \o b)[i] = IF i <= Len(a) THEN a[i] ELSE b[i - Len(a)]
      /\ \A i \in 1..(Len(c) + Len(d)) :
           (c \o d)[i] = IF i <= Len(c) THEN c[i] ELSE d[i - Len(c)]
  BY ConcatProperties, LenProperties
<1>2. Len(b) = Len(d)
  BY <1>1
<1>3. ASSUME NEW i \in 1..Len(a) PROVE a[i] = c[i]
  <2>1. i \in 1..(Len(a) + Len(b)) /\ i <= Len(a)
    BY <1>1
  <2>2. (a \o b)[i] = a[i] /\ (c \o d)[i] = c[i]
    BY <1>1, <1>2, <2>1
  <2>3. QED
    BY <2>2
<1>4. ASSUME NEW i \in 1..Len(b) PROVE b[i] = d[i]
  <2>1. /\ Len(a) + i \in 1..(Len(a) + Len(b)) /\ ~(Len(a) + i <= Len(a))
        /\ (Len(a) + i) - Len(a) = i
    BY <1>1
  <2>2. (a \o b)[Len(a) + i] = b[i] /\ (c \o d)[Len(a) + i] = d[i]
    BY <1>1, <1>2, <2>1
  <2>3. QED
    BY <2>2
<1>5. QED
  BY <1>2, <1>3, <1>4, SeqEqual

LEMMA CarriedNothing == Carried(<<>>, <<>>, <<>>, <<>>)
<1>1. <<>> \in Seq(Packet) /\ <<>> = (<<>> \o <<>>) \o <<>>
  BY ConcatEmptySeq
<1>2. QED
  BY <1>1, StreamEmpty DEF Carried

\* Packets put in wait behind the others.
LEMMA CarriedAdd ==
  ASSUME NEW in, NEW out \in Seq(Packet), NEW bytes,
         NEW waiting \in Seq(Packet), Carried(in, out, bytes, waiting),
         NEW more \in Seq(Packet)
  PROVE  Carried(in \o more, out, bytes, waiting \o more)
<1>1. PICK mid \in Seq(Packet) :
        in = (out \o mid) \o waiting /\ bytes = Stream(mid)
  BY DEF Carried
<1>2. out \o mid \in Seq(Packet)
  BY ConcatProperties
<1>3. ((out \o mid) \o waiting) \o more = (out \o mid) \o (waiting \o more)
  BY <1>2, ConcatAssociative
<1>4. QED
  BY <1>1, <1>3 DEF Carried

\* The first that waits is sent, its bytes behind all others.
LEMMA CarriedSend ==
  ASSUME NEW in, NEW out \in Seq(Packet), NEW bytes,
         NEW waiting \in Seq(Packet), Carried(in, out, bytes, waiting),
         waiting # <<>>
  PROVE  Carried(in, out, bytes \o Bytes(Head(waiting)), Tail(waiting))
<1> DEFINE h == Head(waiting)
           t == Tail(waiting)
<1>1. PICK mid \in Seq(Packet) :
        in = (out \o mid) \o waiting /\ bytes = Stream(mid)
  BY DEF Carried
<1>2. h \in Packet /\ t \in Seq(Packet) /\ waiting = <<h>> \o t
  BY HeadTailProperties
<1> HIDE DEF h, t
<1>3. /\ <<h>> \in Seq(Packet) /\ Append(mid, h) = mid \o <<h>>
      /\ Append(mid, h) \in Seq(Packet) /\ out \o mid \in Seq(Packet)
  BY <1>2, AppendIsConcat, AppendProperties, ConcatProperties
<1>4. (out \o mid) \o (<<h>> \o t) = ((out \o mid) \o <<h>>) \o t
  BY <1>2, <1>3, ConcatAssociative
<1>5. (out \o mid) \o <<h>> = out \o (mid \o <<h>>)
  BY <1>3, ConcatAssociative
<1>6. in = (out \o Append(mid, h)) \o t
  BY <1>1, <1>2, <1>3, <1>4, <1>5
<1>7. Stream(Append(mid, h)) = bytes \o Bytes(h)
  BY <1>1, <1>2, StreamAppend
<1>8. QED
  BY <1>3, <1>6, <1>7 DEF Carried, h, t

LEMMA AppendThenRest ==
  ASSUME NEW S, NEW s \in Seq(S), NEW e \in S, NEW t \in Seq(S)
  PROVE  s \o (<<e>> \o t) = Append(s, e) \o t
<1> DEFINE u == <<e>>
<1>1. u \in Seq(S) /\ Append(s, e) = s \o u
  BY AppendIsConcat
<1> HIDE DEF u
<1>2. (s \o u) \o t = s \o (u \o t)
  BY <1>1, ConcatAssociative
<1>3. QED
  BY <1>1, <1>2 DEF u

\* As many bytes as the first of them gives for a length are a packet, the
\* first one carried.
LEMMA CarriedReceive ==
  ASSUME NEW in, NEW out \in Seq(Packet), NEW waiting \in Seq(Packet),
         NEW got \in Seq(BytesOf(Packet)), NEW rest \in Seq(BytesOf(Packet)),
         Carried(in, out, got \o rest, waiting), Whole(got)
  PROVE  /\ got[1].p \in Packet
         /\ Carried(in, Append(out, got[1].p), rest, waiting)
<1>1. PICK mid \in Seq(Packet) :
        in = (out \o mid) \o waiting /\ got \o rest = Stream(mid)
  BY DEF Carried
<1>2. /\ HasHeader(got) /\ Len(got) \in Nat /\ Len(got) >= 1
      /\ Len(rest) \in Nat /\ Len(got) = Length(got[1].p)
      /\ Len(got \o rest) = Len(got) + Len(rest)
      /\ (got \o rest)[1] = got[1]
  <2>1. /\ HasHeader(got) /\ Len(got) = Length(got[1].p)
        /\ Len(got) \in Nat /\ Len(got) >= 1 /\ Len(rest) \in Nat
    BY LenProperties, PacketFacts DEF Whole, HasHeader
  <2>2. /\ Len(got \o rest) = Len(got) + Len(rest)
        /\ \A i \in 1..(Len(got) + Len(rest)) :
             (got \o rest)[i] =
               IF i <= Len(got) THEN got[i] ELSE rest[i - Len(got)]
    BY ConcatProperties
  <2>3. 1 \in 1..(Len(got) + Len(rest)) /\ 1 <= Len(got)
    BY <2>1
  <2>4. (got \o rest)[1] = got[1]
    BY <2>2, <2>3
  <2>5. QED
    BY <2>1, <2>2, <2>4
<1>3. mid # <<>>
  BY <1>1, <1>2, StreamEmpty
<1> DEFINE h == Head(mid)
           t == Tail(mid)
<1>4. h \in Packet /\ t \in Seq(Packet) /\ mid = <<h>> \o t
  BY <1>3, HeadTailProperties
<1> HIDE DEF h, t
<1>5. Length(h) \in Nat /\ Length(h) >= 1
  <2>1. Length(h) = HDR + Size[h.type] /\ Size[h.type] \in Nat
    BY <1>4, PacketFacts
  <2>2. HDR \in Nat /\ HDR >= 1
    BY PacketFacts
  <2>3. QED
    BY <2>1, <2>2
<1>6. /\ Bytes(h) \in Seq(BytesOf(Packet)) /\ Len(Bytes(h)) = Length(h)
      /\ Bytes(h)[1].p = h
  <2>1. Bytes(h) = [k \in 1..Length(h) |-> Byte(h, 0 + k)]
    BY DEF Bytes, BytesFrom
  <2>2. Bytes(h)[1].p = h
    BY <1>5, <2>1 DEF Byte
  <2>3. Len(Bytes(h)) = Length(h)
    BY <1>4, <1>5, BytesFromFacts DEF Bytes
  <2>4. QED
    BY <1>4, <2>2, <2>3, BytesFacts
<1>7. Stream(t) \in Seq(BytesOf(Packet))
  BY <1>4, StreamType
<1>8. got \o rest = Bytes(h) \o Stream(t)
  BY <1>1, <1>4, StreamFirst
<1>9. (Bytes(h) \o Stream(t))[1] = Bytes(h)[1]
  <2>1. \A i \in 1..(Len(Bytes(h)) + Len(Stream(t))) :
          (Bytes(h) \o Stream(t))[i] =
            IF i <= Len(Bytes(h)) THEN Bytes(h)[i]
                                  ELSE Stream(t)[i - Len(Bytes(h))]
    BY <1>6, <1>7, ConcatProperties
  <2>2. Len(Stream(t)) \in Nat
    BY <1>7, LenProperties
  <2>3. /\ 1 \in 1..(Len(Bytes(h)) + Len(Stream(t)))
        /\ 1 <= Len(Bytes(h))
    BY <1>5, <1>6, <2>2
  <2>4. QED
    BY <2>1, <2>3
<1>10. got[1].p = h
  BY <1>2, <1>6, <1>8, <1>9
<1>11. rest = Stream(t)
  BY <1>2, <1>6, <1>7, <1>8, <1>10, SplitUnique
<1>12. out \o (<<h>> \o t) = Append(out, h) \o t
  BY <1>4, AppendThenRest
<1>13. QED
  BY <1>1, <1>4, <1>10, <1>11, <1>12 DEF Carried
(* From there to prefixes, suffixes and the part between.                  *)

LEMMA ConcatAt ==
  ASSUME NEW S, NEW a \in Seq(S), NEW b \in Seq(S)
  PROVE  /\ a \o b \in Seq(S) /\ Len(a) \in Nat /\ Len(b) \in Nat
         /\ Len(a \o b) = Len(a) + Len(b)
         /\ \A i \in 1..Len(a) : (a \o b)[i] = a[i] /\ a[i] \in S
         /\ \A i \in 1..Len(b) : (a \o b)[Len(a) + i] = b[i] /\ b[i] \in S
<1>1. /\ a \o b \in Seq(S) /\ Len(a) \in Nat /\ Len(b) \in Nat
      /\ Len(a \o b) = Len(a) + Len(b)
      /\ \A i \in 1..(Len(a) + Len(b)) :
           (a \o b)[i] = IF i <= Len(a) THEN a[i] ELSE b[i - Len(a)]
  BY ConcatProperties, LenProperties
<1>2. ASSUME NEW i \in 1..Len(a) PROVE (a \o b)[i] = a[i] /\ a[i] \in S
  <2>1. i \in 1..(Len(a) + Len(b)) /\ i <= Len(a)
    BY <1>1
  <2>2. QED
    BY <1>1, <2>1, ElementOfSeq
<1>3. ASSUME NEW i \in 1..Len(b)
      PROVE  (a \o b)[Len(a) + i] = b[i] /\ b[i] \in S
  <2>1. /\ Len(a) + i \in 1..(Len(a) + Len(b)) /\ ~(Len(a) + i <= Len(a))
        /\ (Len(a) + i) - Len(a) = i
    BY <1>1
  <2>2. QED
    BY <1>1, <2>1, ElementOfSeq
<1>4. QED
  BY <1>1, <1>2, <1>3

LEMMA PrefixOfConcat ==
  ASSUME NEW S, NEW a \in Seq(S), NEW b \in Seq(S)
  PROVE  IsPrefix(a, a \o b)
<1> DEFINE c == a \o b
<1>1. /\ c \in Seq(S) /\ Len(a) \in Nat /\ Len(b) \in Nat
      /\ Len(c) = Len(a) + Len(b)
      /\ \A i \in 1..Len(a) : c[i] = a[i] /\ a[i] \in S
  BY ConcatAt
<1> HIDE DEF c
<1>2. /\ SubSeq(c, 1, Len(a)) \in Seq(S) /\ Len(SubSeq(c, 1, Len(a))) = Len(a)
      /\ \A i \in 1..Len(a) : SubSeq(c, 1, Len(a))[i] = c[i]
  <2>1. \A i \in 1..Len(a) : c[i] \in S
    BY <1>1
  <2>2. \A i \in 1..Len(a) : 1 + i - 1 = i
    BY <1>1
  <2>3. (IF 1 <= Len(a) THEN Len(a) - 1 + 1 ELSE 0) = Len(a)
        /\ Len(a) - 1 + 1 = Len(a)
    BY <1>1
  <2>4. QED
    BY <1>1, <2>1, <2>2, <2>3, SubSeqProperties
<1>3. SubSeq(c, 1, Len(a)) = a
  BY <1>1, <1>2, SeqEqual
<1>4. SubSeq(a, 1, Len(a)) = a
  BY SubSeqFull
<1>5. Len(a) <= Len(c)
  BY <1>1
<1>6. QED
  BY <1>3, <1>4, <1>5 DEF IsPrefix, c

LEMMA ReverseFacts ==
  ASSUME NEW S, NEW s \in Seq(S)
  PROVE  /\ Reverse(s) \in Seq(S) /\ Len(Reverse(s)) = Len(s)
         /\ \A i \in 1..Len(s) : Reverse(s)[i] = s[(Len(s) - i) + 1]
<1>1. Len(s) \in Nat
  BY LenProperties
<1>2. \A i \in 1..Len(s) : s[(Len(s) - i) + 1] \in S
  BY <1>1, ElementOfSeq
<1>3. /\ [i \in 1..Len(s) |-> s[(Len(s) - i) + 1]] \in Seq(S)
      /\ Len([i \in 1..Len(s) |-> s[(Len(s) - i) + 1]]) = Len(s)
  BY <1>1, <1>2, IsASeq, LenProperties
<1>4. QED
  BY <1>3 DEF Reverse

LEMMA ReverseConcat ==
  ASSUME NEW S, NEW a \in Seq(S), NEW b \in Seq(S)
  PROVE  Reverse(a \o b) = Reverse(b) \o Reverse(a)
<1> DEFINE c == a \o b
           d == Reverse(b) \o Reverse(a)
           n == Len(a)
           m == Len(b)
<1>1. /\ c \in Seq(S) /\ n \in Nat /\ m \in Nat /\ Len(c) = n + m
      /\ \A i \in 1..n : c[i] = a[i]
      /\ \A i \in 1..m : c[n + i] = b[i]
  BY ConcatAt
<1>2. /\ Reverse(a) \in Seq(S) /\ Len(Reverse(a)) = n
      /\ \A i \in 1..n : Reverse(a)[i] = a[(n - i) + 1]
      /\ Reverse(b) \in Seq(S) /\ Len(Reverse(b)) = m
      /\ \A i \in 1..m : Reverse(b)[i] = b[(m - i) + 1]
  BY ReverseFacts
<1>3. /\ d \in Seq(S) /\ Len(d) = n + m
      /\ \A i \in 1..m : d[i] = Reverse(b)[i]
      /\ \A i \in 1..n : d[m + i] = Reverse(a)[i]
  <2>1. PICK u \in Seq(S), v \in Seq(S) : u = Reverse(b) /\ v = Reverse(a)
    BY <1>2
  <2>2. /\ u \o v \in Seq(S) /\ Len(u \o v) = Len(u) + Len(v)
        /\ \A i \in 1..Len(u) : (u \o v)[i] = u[i]
        /\ \A i \in 1..Len(v) : (u \o v)[Len(u) + i] = v[i]
    BY ConcatAt
  <2>3. Len(u) = m /\ Len(v) = n /\ d = u \o v
    BY <1>2, <2>1
  <2> HIDE DEF d, n, m
  <2>4. QED
    BY <1>1, <2>1, <2>2, <2>3
<1>4. /\ Reverse(c) \in Seq(S) /\ Len(Reverse(c)) = Len(c)
      /\ \A i \in 1..Len(c) : Reverse(c)[i] = c[(Len(c) - i) + 1]
  BY <1>1, ReverseFacts
<1> HIDE DEF c, d, n, m
<1>5. ASSUME NEW i \in 1..(n + m) PROVE Reverse(c)[i] = d[i]
  <2>1. Reverse(c)[i] = c[((n + m) - i) + 1]
    BY <1>1, <1>4
  <2>2. CASE i \in 1..m
    <3>1. (m - i) + 1 \in 1..m /\ ((n + m) - i) + 1 = n + ((m - i) + 1)
      BY <1>1, <2>2
    <3>2. c[n + ((m - i) + 1)] = b[(m - i) + 1]
      BY <1>1, <3>1
    <3>3. d[i] = b[(m - i) + 1]
      BY <1>2, <1>3, <2>2
    <3>4. QED
      BY <2>1, <3>1, <3>2, <3>3
  <2>3. CASE i \notin 1..m
    <3> DEFINE j == i - m
    <3>1. /\ j \in 1..n /\ i = m + j /\ (n - j) + 1 \in 1..n
          /\ ((n + m) - i) + 1 = (n - j) + 1
      BY <1>1, <2>3
    <3> HIDE DEF j
    <3>2. c[(n - j) + 1] = a[(n - j) + 1]
      BY <1>1, <3>1
    <3>3. d[m + j] = a[(n - j) + 1]
      BY <1>2, <1>3, <3>1
    <3>4. QED
      BY <2>1, <3>1, <3>2, <3>3
  <2>4. QED
    BY <2>2, <2>3
<1>6. Reverse(c) = d
  BY <1>1, <1>3, <1>4, <1>5, SeqEqual
<1>7. QED
  BY <1>6 DEF c, d

LEMMA SuffixOfConcat ==
  ASSUME NEW S, NEW a \in Seq(S), NEW b \in Seq(S)
  PROVE  IsSuffix(b, a \o b)
<1>1. Reverse(a) \in Seq(S) /\ Reverse(b) \in Seq(S)
  BY ReverseFacts
<1>2. IsPrefix(Reverse(b), Reverse(b) \o Reverse(a))
  BY <1>1, PrefixOfConcat
<1>3. Reverse(a \o b) = Reverse(b) \o Reverse(a)
  BY ReverseConcat
<1>4. QED
  BY <1>2, <1>3 DEF IsSuffix

LEMMA MiddleOfConcat ==
  ASSUME NEW S, NEW a \in Seq(S), NEW b \in Seq(S), NEW c \in Seq(S)
  PROVE  LET s == (a \o b) \o c
         IN  SubSeq(s, Len(a) + 1, Len(s) - Len(c)) = b
<1> DEFINE s == (a \o b) \o c
           n == Len(a)
           m == Len(b)
<1>1. /\ a \o b \in Seq(S) /\ n \in Nat /\ m \in Nat /\ Len(a \o b) = n + m
      /\ \A i \in 1..m : (a \o b)[n + i] = b[i] /\ b[i] \in S
  BY ConcatAt
<1>2. /\ s \in Seq(S) /\ Len(c) \in Nat /\ Len(s) = Len(a \o b) + Len(c)
      /\ \A i \in 1..Len(a \o b) : s[i] = (a \o b)[i]
  BY <1>1, ConcatAt
<1> HIDE DEF s, n, m
<1>3. Len(s) - Len(c) = n + m /\ (n + m) - (n + 1) + 1 = m
  BY <1>1, <1>2
<1>4. ASSUME NEW i \in 1..m PROVE s[n + i] = b[i] /\ b[i] \in S
  <2>1. n + i \in 1..(n + m)
    BY <1>1
  <2>2. QED
    BY <1>1, <1>2, <2>1
<1> DEFINE u == SubSeq(s, n + 1, n + m)
<1>5. /\ u \in Seq(S) /\ Len(u) = m
      /\ \A i \in 1..m : u[i] = s[n + i]
  <2>1. \A i \in (n + 1)..(n + m) : s[i] \in S
    <3>1. SUFFICES ASSUME NEW i \in (n + 1)..(n + m) PROVE s[i] \in S
      OBVIOUS
    <3>2. i - n \in 1..m /\ n + (i - n) = i
      BY <1>1
    <3>3. QED
      BY <1>4, <3>2
  <2>2. /\ u \in Seq(S)
        /\ Len(u) = IF n + 1 <= n + m THEN (n + m) - (n + 1) + 1 ELSE 0
        /\ \A i \in 1..((n + m) - (n + 1) + 1) : u[i] = s[(n + 1) + i - 1]
    <3>1. PICK lo \in Int, hi \in Int : lo = n + 1 /\ hi = n + m
      BY <1>1
    <3>2. \A i \in lo..hi : s[i] \in S
      BY <2>1, <3>1
    <3>3. /\ SubSeq(s, lo, hi) \in Seq(S)
          /\ Len(SubSeq(s, lo, hi)) = IF lo <= hi THEN hi - lo + 1 ELSE 0
          /\ \A i \in 1..(hi - lo + 1) : SubSeq(s, lo, hi)[i] = s[lo + i - 1]
      BY <3>2, SubSeqProperties
    <3>4. QED
      BY <3>1, <3>3
  <2> HIDE DEF u
  <2>3. ASSUME NEW i \in 1..m PROVE u[i] = s[n + i]
    <3>1. i \in 1..((n + m) - (n + 1) + 1) /\ (n + 1) + i - 1 = n + i
      BY <1>1, <1>3
    <3>2. QED
      BY <2>2, <3>1
  <2>4. Len(u) = m
    BY <1>1, <2>2
  <2>5. QED
    BY <2>2, <2>3, <2>4
<1> HIDE DEF u
<1>6. \A i \in 1..Len(u) : u[i] = b[i]
  BY <1>4, <1>5
<1>7. u = b
  BY <1>5, <1>6, SeqEqual DEF m
<1>8. QED
  BY <1>3, <1>7 DEF u, s, n

LEMMA CarriedIsCarries ==
  ASSUME NEW in, NEW out \in Seq(Packet), NEW bytes,
         NEW waiting \in Seq(Packet), Carried(in, out, bytes, waiting)
  PROVE  Carries(in, out, bytes, waiting)
<1>1. PICK mid \in Seq(Packet) :
        in = (out \o mid) \o waiting /\ bytes = Stream(mid)
  BY DEF Carried
<1>2. out \o mid \in Seq(Packet) /\ mid \o waiting \in Seq(Packet)
  BY ConcatProperties
<1>3. IsPrefix(out, in)
  <2>1. in = out \o (mid \o waiting)
    BY <1>1, ConcatAssociative
  <2>2. QED
    BY <1>2, <2>1, PrefixOfConcat
<1>4. IsSuffix(waiting, in)
  BY <1>1, <1>2, SuffixOfConcat
<1>5. SubSeq(in, Len(out) + 1, Len(in) - Len(waiting)) = mid
  BY <1>1, MiddleOfConcat
<1>6. QED
  BY <1>1, <1>3, <1>4, <1>5 DEF Carries
-----------------------------------------------------------------------------
(* The state of the link: a client that is not connected holds nothing, a  *)
(* server that has not accepted the client, or deleted it, neither.        *)

Linked == conn \in {"pending", "open"}
LinkState ==
  /\ conn \in {"closed", "pending", "open", "gone", "kicked"}
  /\ cphase \in {"off", "login", "on", "dead"} /\ cpc \in {"read", "write"}
  /\ pc \in {"recvHeader", "recvData", "sendHeader", "sendData", "handle",
             "pause"}
  /\ user \in BOOLEAN
  /\ conn \in {"closed", "pending", "kicked"} =>
       O = <<>> /\ R = <<>> /\ Pin = <<>> /\ Pout = <<>> /\ user = FALSE
  /\ Linked => cphase \in {"login", "on"}
  /\ conn = "gone" => cphase \in {"off", "dead"}
  /\ cphase \in {"off", "dead"} => cPin = <<>> /\ cPout = <<>> /\ cR = <<>>

LEMMA LinkStateInit == Init => LinkState
BY DEF Init, LinkState, Linked

LEMMA DroppedState ==
  ASSUME LinkState, connectionDropped, cphase \in {"login", "on"},
         cpc' \in {"read", "write"}, UNCHANGED server
  PROVE  LinkState'
BY DEF LinkState, Linked, connectionDropped, server

LEMMA ReadState ==
  ASSUME LinkState, readSocket PROVE LinkState'
<1>1. /\ cphase \in {"login", "on"} /\ cpc' \in {"read", "write"}
      /\ UNCHANGED server
  BY DEF readSocket, CanRead
<1>2. CASE ReadRefused
  BY <1>1, <1>2, DroppedState DEF ReadRefused
<1>3. CASE ReadPart
  BY <1>1, <1>3 DEF ReadPart, ReadFrame, LinkState, Linked, server
<1>4. CASE ReadWhole
  BY <1>1, <1>4 DEF ReadWhole, ReadFrame, LinkState, Linked, server
<1>5. QED
  BY <1>2, <1>3, <1>4 DEF readSocket

LEMMA ClientState ==
  ASSUME LinkTypes, LinkState,
         \/ attemptConnection \/ Drop \/ ClientThread
         \/ \E type \in Requests : addPacketToQueue(type)
         \/ handleReceivingQueue
  PROVE  LinkState'
<1>1. CASE attemptConnection
  BY <1>1 DEF attemptConnection, LinkState, Linked, server
<1>2. CASE Drop
  <2>1. cphase \in {"login", "on"}
    BY <1>2 DEF Drop, LinkState
  <2>2. QED
    BY <1>2, <2>1, DroppedState DEF Drop
<1>3. CASE writeOperation
  <2>1. cphase \in {"login", "on"}
    <3>1. CASE cPout = <<>>
      <4>1. Len(cPout) = 0 /\ Cap - Len(up) \in Int
        BY <3>1, LenProperties, PacketFacts DEF LinkTypes, ClientTypes
      <4>2. PICK n \in 1..Least(0, Cap - Len(up)) : TRUE
        BY <1>3, <4>1 DEF writeOperation
      <4>3. QED
        BY <4>1, <4>2 DEF Least
    <3>2. CASE cPout # <<>>
      BY <3>2 DEF LinkState
    <3>3. QED
      BY <3>1, <3>2
  <2>2. QED
    BY <1>3, <2>1 DEF writeOperation, LinkState, Linked, server, history
<1>4. CASE readSocket
  BY <1>4, ReadState
<1>5. CASE writeSocket
  BY <1>5 DEF writeSocket, link, server, history, LinkState, Linked
<1>6. ASSUME NEW type \in Requests, addPacketToQueue(type) PROVE LinkState'
  BY <1>6 DEF addPacketToQueue, link, server, LinkState, Linked
<1>7. CASE handleReceivingQueue
  BY <1>7 DEF handleReceivingQueue, link, server, history, LinkState, Linked
<1>8. QED
  BY <1>1, <1>2, <1>3, <1>4, <1>5, <1>6, <1>7 DEF ClientThread

LEMMA ServerState ==
  ASSUME LinkState, NetworkThread PROVE LinkState'
<1>1. CASE ReceiveHeader \/ ReceiveData \/ SendHeader \/ SendData
  BY <1>1 DEF ReceiveHeader, ReceiveData, SendHeader, SendData, ServerAt,
              Outgoing, Frame, client, LinkState, Linked
<1>2. CASE DeleteClient
  BY <1>2 DEF DeleteClient, ServerAt, Frame, client, LinkState, Linked
<1>3. CASE HandlePacket
  <2>1. user' \in BOOLEAN
    BY <1>3 DEF HandlePacket, HandleAuth, HandleRequest, LinkState
  <2>2. QED
    BY <1>3, <2>1 DEF HandlePacket, ServerAt, link, Frame, client, LinkState,
                      Linked
<1>4. CASE SecondUpdate
  BY <1>4 DEF SecondUpdate, ServerAt, link, client, LinkState, Linked
<1>5. CASE Accept
  BY <1>5 DEF Accept, server, client, LinkState, Linked
<1>6. CASE Pause
  BY <1>6 DEF Pause, ServerAt, link, Frame, client, LinkState, Linked
<1>7. QED
  BY <1>1, <1>2, <1>3, <1>4, <1>5, <1>6 DEF NetworkThread, Update

LEMMA LinkStateStep ==
  ASSUME LinkTypes, LinkState, [Next]_vars PROVE LinkState'
<1>1. CASE UNCHANGED vars
  BY <1>1 DEF vars, link, client, server, history, LinkState, Linked
<1>2. QED
  BY <1>1, ClientState, ServerState DEF Next
-----------------------------------------------------------------------------
(* The packets of the history, and how much of a packet is held where.     *)

Histories ==
  /\ sent \in Seq(ClientPacket) /\ handled \in Seq(ClientPacket)
  /\ arrived \in Seq(Packet) /\ cR \in Seq(Packet)
Pieces ==
  /\ Len(up) <= Cap
  /\ HasHeader(Pin) => Len(Pin) <= Length(Pin[1].p)
  /\ cPin # <<>> => HasHeader(cPin) /\ Len(cPin) <= Length(cPin[1].p)
\* Past its packet, by the byte that stands for all behind it, is only a send
\* of data under a length in network order.
SentPart ==
  \A p \in Packet : Pout = <<p>> =>
    \/ bytesOut <= Length(p)
    \/ bytesOut = Length(p) + 1 /\ order = "net" /\ Size[p.type] > 0
PartsInv == LinkTypes /\ LinkState /\ Histories /\ Pieces /\ SentPart

LEMMA TakenPart ==
  ASSUME NEW S, NEW q \in Seq(S), NEW n \in Nat
  PROVE  /\ Taken(q, n) \in Seq(S)
         /\ Len(Taken(q, n)) = Least(n, Len(q)) /\ Len(q) \in Nat
         /\ \A i \in 1..Least(n, Len(q)) : Taken(q, n)[i] = q[i]
<1>1. PICK m \in Nat : m = Least(n, Len(q)) /\ m <= Len(q) /\ Len(q) \in Nat
  BY LenProperties DEF Least
<1>2. /\ SubSeq(q, 1, m) \in Seq(S)
      /\ Len(SubSeq(q, 1, m)) = IF 1 <= m THEN m - 1 + 1 ELSE 0
      /\ \A i \in 1..(m - 1 + 1) : SubSeq(q, 1, m)[i] = q[1 + i - 1]
  <2>1. \A i \in 1..m : q[i] \in S
    BY <1>1, ElementOfSeq
  <2>2. QED
    BY <2>1, SubSeqProperties
<1>3. \A i \in 1..m : SubSeq(q, 1, m)[i] = q[i]
  BY <1>2
<1>4. Taken(q, n) = SubSeq(q, 1, m)
  BY <1>1 DEF Taken
<1>5. Len(SubSeq(q, 1, m)) = m
  BY <1>2
<1>6. QED
  BY <1>1, <1>2, <1>3, <1>4, <1>5

\* A read of a packet's missing bytes takes no more than these.
LEMMA PartGrows ==
  ASSUME NEW r \in Seq(BytesOf(Packet)), NEW q \in Seq(BytesOf(Packet)),
         HasHeader(r), Len(r) <= Length(r[1].p)
  PROVE  LET got == r \o Taken(q, Length(r[1].p) - Len(r))
         IN  /\ got \in Seq(BytesOf(Packet)) /\ got[1] = r[1]
             /\ HasHeader(got) /\ Len(got) <= Length(got[1].p)
<1> DEFINE n == Length(r[1].p) - Len(r)
           a == Taken(q, n)
           got == r \o a
<1>1. /\ Len(r) \in Nat /\ Len(r) >= HDR /\ HDR \in Nat /\ HDR >= 1
      /\ r[1].p \in Packet
  BY LenProperties, PacketFacts, FirstByte DEF HasHeader
<1>2. Length(r[1].p) \in Nat /\ n \in Nat
  BY <1>1, PacketFacts
<1> HIDE DEF n
<1>3. /\ a \in Seq(BytesOf(Packet)) /\ Len(a) = Least(n, Len(q))
      /\ Len(q) \in Nat
  BY <1>2, TakenPart
<1>4. Len(a) <= n /\ Len(a) \in Nat
  BY <1>2, <1>3 DEF Least
<1> HIDE DEF a
<1>5. /\ got \in Seq(BytesOf(Packet)) /\ Len(got) = Len(r) + Len(a)
      /\ \A i \in 1..Len(r) : got[i] = r[i]
  BY <1>3, ConcatAt
<1> HIDE DEF got
<1>6. got[1] = r[1]
  BY <1>1, <1>5
<1>7. Len(got) >= HDR /\ Len(got) <= Length(got[1].p)
  BY <1>1, <1>2, <1>4, <1>5, <1>6 DEF n
<1>8. QED
  BY <1>5, <1>6, <1>7 DEF n, a, got, HasHeader

LEMMA ReadFacts ==
  ASSUME PartsInv
  PROVE  LET left == Rest(down, Len(ReadSome) - Len(cPin))
         IN  /\ ReadSome \in Seq(BytesOf(Packet))
             /\ left \in Seq(BytesOf(Packet))
             /\ ReadSome \o left = cPin \o down
             /\ ReadSome # <<>> => /\ HasHeader(ReadSome)
                                   /\ Len(ReadSome) <= Length(ReadSome[1].p)
<1>1. /\ cPin \in Seq(BytesOf(Packet)) /\ down \in Seq(BytesOf(Packet))
      /\ Len(cPin) \in Nat /\ Len(down) \in Nat /\ HDR \in Nat /\ HDR >= 1
  BY LenProperties, PacketFacts
     DEF PartsInv, LinkTypes, ClientTypes, SendTypes
<1>2. Wanted \in Int /\ (ReadSome # <<>> => /\ HasHeader(ReadSome)
                                     /\ Len(ReadSome) <= Length(ReadSome[1].p))
  <2>1. CASE cPin # <<>>
    <3>1. HasHeader(cPin) /\ Len(cPin) <= Length(cPin[1].p)
      BY <2>1 DEF PartsInv, Pieces
    <3>2. Wanted = Length(cPin[1].p) - Len(cPin)
      BY <3>1 DEF Wanted
    <3>3. HasHeader(ReadSome) /\ Len(ReadSome) <= Length(ReadSome[1].p)
      BY <1>1, <3>1, <3>2, PartGrows DEF ReadSome
    <3>4. cPin[1].p \in Packet
      BY <1>1, <3>1, FirstByte
    <3>5. Length(cPin[1].p) \in Nat
      BY <3>4, PacketFacts
    <3>6. QED
      BY <1>1, <3>2, <3>3, <3>5
  <2>2. CASE cPin = <<>> /\ Len(down) >= HDR
    <3>1. ~HasHeader(cPin)
      BY <1>1, <2>2 DEF HasHeader
    <3>2. Wanted = Length(down[1].p)
      BY <2>2, <3>1 DEF Wanted
    <3>3. down[1].p \in Packet
      BY <1>1, <2>2, FirstByte DEF HasHeader
    <3>4. PICK n \in Nat : n = Length(down[1].p) /\ n >= HDR
      <4>1. /\ Length(down[1].p) = HDR + Size[down[1].p.type]
            /\ Size[down[1].p.type] \in Nat
        BY <3>3, PacketFacts
      <4>2. QED
        BY <1>1, <4>1
    <3>5. ReadSome = Taken(down, n)
      <4>1. Taken(down, n) \in Seq(BytesOf(Packet))
        BY <1>1, <3>4, TakenPart
      <4>2. QED
        BY <2>2, <3>2, <3>4, <4>1, ConcatEmptySeq DEF ReadSome
    <3>6. /\ Len(ReadSome) = Least(n, Len(down))
          /\ \A i \in 1..Least(n, Len(down)) : ReadSome[i] = down[i]
      BY <1>1, <3>4, <3>5, TakenPart
    <3>7. Len(ReadSome) >= HDR /\ Len(ReadSome) <= n
      BY <1>1, <2>2, <3>4, <3>6 DEF Least
    <3>8. ReadSome[1] = down[1]
      <4>1. 1 \in 1..Least(n, Len(down))
        BY <1>1, <2>2, <3>4 DEF Least
      <4>2. QED
        BY <3>6, <4>1
    <3>9. QED
      BY <3>2, <3>4, <3>7, <3>8 DEF HasHeader
  <2>3. CASE cPin = <<>> /\ ~(Len(down) >= HDR)
    <3>1. ~HasHeader(cPin)
      BY <1>1, <2>3 DEF HasHeader
    <3>2. Wanted = 0
      BY <2>3, <3>1 DEF Wanted
    <3>3. Taken(down, 0) = <<>>
      <4>1. Least(0, Len(down)) = 0
        BY <1>1 DEF Least
      <4>2. SubSeq(down, 1, 0) = <<>>
        BY SubSeqEmpty
      <4>3. QED
        BY <4>1, <4>2 DEF Taken
    <3>4. ReadSome = <<>>
      BY <2>3, <3>2, <3>3, ConcatEmptySeq DEF ReadSome
    <3>5. QED
      BY <3>2, <3>4
  <2>4. QED
    BY <2>1, <2>2, <2>3
<1>3. QED
  BY <1>1, <1>2, MoveFacts, MoveKeeps DEF ReadSome
LEMMA HistoriesInit == Init => Histories /\ Pieces /\ SentPart
<1>1. SUFFICES ASSUME Init PROVE Histories /\ Pieces /\ SentPart
  OBVIOUS
<1>2. Histories
  BY <1>1 DEF Init, Histories
<1>3. ~HasHeader(<<>>)
  BY PacketFacts DEF HasHeader
<1>4. Pieces
  BY <1>1, <1>3, PacketFacts DEF Init, Pieces
<1>5. SentPart
  BY <1>1 DEF Init, SentPart
<1>6. QED
  BY <1>2, <1>4, <1>5

LEMMA ReadHistories ==
  ASSUME PartsInv, readSocket PROVE Histories'
<1>1. ReadSome \in Seq(BytesOf(Packet))
  BY ReadFacts
<1>2. Whole(ReadSome) => ReadSome[1].p \in Packet
  BY <1>1, FirstByte DEF Whole
<1>3. Histories
  BY DEF PartsInv
<1>4. UNCHANGED <<sent, handled>>
  BY DEF readSocket
<1>5. CASE ReadRefused
  <2>1. cR' = <<>>
    BY <1>5 DEF ReadRefused, connectionDropped
  <2>2. arrived' \in Seq(Packet)
    <3>1. CASE BadHeader
      BY <1>3, <1>5, <3>1 DEF ReadRefused, Histories
    <3>2. CASE ~BadHeader
      <4>1. Whole(ReadSome) /\ arrived' = Append(arrived, ReadSome[1].p)
        BY <1>5, <3>2 DEF ReadRefused, Refused
      <4>2. QED
        BY <1>2, <1>3, <4>1, AppendProperties DEF Histories
    <3>3. QED
      BY <3>1, <3>2
  <2>3. QED
    BY <1>3, <1>4, <2>1, <2>2 DEF Histories
<1>6. CASE ReadPart
  BY <1>3, <1>4, <1>6 DEF ReadPart, Histories
<1>7. CASE ReadWhole
  <2>1. PICK p \in Packet : p = ReadSome[1].p
    BY <1>2, <1>7 DEF ReadWhole
  <2>2. arrived' = Append(arrived, p) /\ (cR' = cR \/ cR' = <<p>> \o cR)
    BY <1>7, <2>1 DEF ReadWhole
  <2>3. arrived' \in Seq(Packet)
    BY <1>3, <2>2, AppendProperties DEF Histories
  <2>4. cR' \in Seq(Packet)
    <3>1. <<p>> \in Seq(Packet)
      OBVIOUS
    <3>2. <<p>> \o cR \in Seq(Packet)
      BY <1>3, <3>1, ConcatProperties DEF Histories
    <3>3. QED
      BY <1>3, <2>2, <3>2 DEF Histories
  <2>5. QED
    BY <1>3, <1>4, <2>3, <2>4 DEF Histories
<1>8. QED
  BY <1>5, <1>6, <1>7 DEF readSocket

\* What addPacketToQueue queues.
Asked(type) == Pkt(type, IF type \in Asks THEN repCounter ELSE 0, made + 1)
LEMMA AskedFacts ==
  ASSUME LinkTypes, NEW type \in Requests, addPacketToQueue(type)
  PROVE  /\ Asked(type) \in ClientPacket
         /\ cO' = Append(cO, Asked(type))
         /\ sent' = IF cphase = "on" THEN Append(sent, Asked(type)) ELSE sent
<1>1. type \in DOMAIN Answer
  BY LinkAssumption
<1>2. repCounter \in Nat /\ made \in Nat
  BY DEF LinkTypes, ClientTypes
<1>3. (IF type \in Asks THEN repCounter ELSE 0) \in Nat /\ made + 1 \in Nat
  BY <1>2
<1>4. Asked(type) \in ClientPacket
  BY <1>1, <1>3, PktFacts DEF Asked
<1>5. QED
  BY <1>4 DEF addPacketToQueue, Added, Asked

LEMMA HistoriesStep ==
  ASSUME PartsInv, [Next]_vars PROVE Histories'
<1>1. /\ Histories /\ LinkTypes
      /\ cO \in Seq(ClientPacket) /\ R \in Seq(ClientPacket)
  BY DEF PartsInv, LinkTypes, ClientTypes, ServerTypes
<1>2. CASE attemptConnection
  <2>1. PICK a \in ClientPacket : a = Auth
    BY PktFacts DEF Auth
  <2>2. PICK u \in Seq(ClientPacket) : u = <<a>>
    <3>1. <<a>> \in Seq(ClientPacket)
      OBVIOUS
    <3>2. QED
      BY <3>1
  <2>3. u \o cO \in Seq(ClientPacket)
    BY <1>1, <2>2, ConcatProperties
  <2>4. QED
    BY <1>1, <1>2, <2>1, <2>2, <2>3 DEF attemptConnection, Histories
<1>3. CASE Drop
  BY <1>1, <1>3 DEF Drop, connectionDropped, history, Histories
<1>4. CASE writeOperation \/ writeSocket
  BY <1>1, <1>4 DEF writeOperation, writeSocket, history, Histories
<1>5. CASE readSocket
  BY <1>5, ReadHistories
<1>6. ASSUME NEW type \in Requests, addPacketToQueue(type) PROVE Histories'
  <2>1. sent' \in Seq(ClientPacket)
    <3>1. PICK a \in ClientPacket : a = Asked(type)
      BY <1>1, <1>6, AskedFacts
    <3>2. sent' = sent \/ sent' = Append(sent, a)
      BY <1>1, <1>6, <3>1, AskedFacts
    <3>3. sent \in Seq(ClientPacket)
      BY <1>1 DEF Histories
    <3>4. Append(sent, a) \in Seq(ClientPacket)
      BY <3>3, AppendProperties
    <3>5. QED
      BY <3>2, <3>3, <3>4
  <2>2. QED
    BY <1>1, <1>6, <2>1 DEF addPacketToQueue, Histories
<1>7. CASE handleReceivingQueue
  <2>1. Tail(cR) \in Seq(Packet)
    BY <1>1, <1>7, HeadTailProperties DEF handleReceivingQueue, Histories
  <2>2. QED
    BY <1>1, <1>7, <2>1 DEF handleReceivingQueue, history, Histories
<1>8. CASE Update
  BY <1>1, <1>8 DEF Update, ReceiveHeader, ReceiveData, SendHeader, SendData,
                    DeleteClient, Frame, client, Histories
<1>9. CASE HandlePacket
  <2>1. handled' \in Seq(ClientPacket)
    BY <1>1, <1>9, HeadTailProperties, AppendProperties
       DEF HandlePacket, Histories
  <2>2. QED
    BY <1>1, <1>9, <2>1 DEF HandlePacket, Frame, client, Histories
<1>10. CASE SecondUpdate \/ Accept \/ Pause
  BY <1>1, <1>10 DEF SecondUpdate, Accept, Pause, Frame, client, history,
                     Histories
<1>11. CASE UNCHANGED vars
  BY <1>1, <1>11 DEF vars, client, history, Histories
<1>12. QED
  BY <1>2, <1>3, <1>4, <1>5, <1>6, <1>7, <1>8, <1>9, <1>10, <1>11
     DEF Next, ClientThread, NetworkThread
LEMMA PacketBytes == Seq(BytesOf(ClientPacket)) \subseteq Seq(BytesOf(Packet))
<1>1. BytesOf(ClientPacket) \subseteq BytesOf(Packet)
  BY PacketFacts DEF BytesOf
<1>2. QED
  BY <1>1, SeqMonotonic

\* The header and the data received: no bytes but those of up, and no more
\* than the packet has.
LEMMA HeaderFacts ==
  ASSUME PartsInv
  PROVE  LET left == Rest(up, Len(GotHeader) - Len(Pin))
         IN  /\ GotHeader \in Seq(BytesOf(ClientPacket))
             /\ left \in Seq(BytesOf(ClientPacket)) /\ Len(left) <= Len(up)
             /\ GotHeader \o left = Pin \o up
             /\ HasHeader(GotHeader) =>
                  Len(GotHeader) <= Length(GotHeader[1].p)
<1>1. /\ Pin \in Seq(BytesOf(ClientPacket)) /\ Len(Pin) \in Nat
      /\ up \in Seq(BytesOf(ClientPacket)) /\ Len(up) \in Nat
      /\ HDR \in Nat /\ HDR >= 1
  BY LenProperties, PacketFacts
     DEF PartsInv, LinkTypes, ClientTypes, ServerTypes
<1>2. CASE HasHeader(Pin)
  <2>1. GotHeader = Pin
    BY <1>2 DEF GotHeader
  <2>2. Rest(up, Len(GotHeader) - Len(Pin)) = up
    <3>1. Len(GotHeader) - Len(Pin) = 0
      BY <1>1, <2>1
    <3>2. Rest(up, 0) = up
      BY <1>1, SubSeqFull DEF Rest
    <3>3. QED
      BY <3>1, <3>2
  <2>3. QED
    BY <1>1, <1>2, <2>1, <2>2 DEF PartsInv, Pieces
<1>3. CASE ~HasHeader(Pin)
  <2>1. PICK n \in Nat : n = HeaderMissing /\ n = HDR - Len(Pin)
    BY <1>1, <1>3 DEF HeaderMissing, HasHeader
  <2>2. GotHeader = Pin \o Taken(up, n)
    BY <1>3, <2>1 DEF GotHeader
  <2>3. /\ GotHeader \in Seq(BytesOf(ClientPacket))
        /\ Len(GotHeader) = Len(Pin) + Len(Taken(up, n))
        /\ Len(Taken(up, n)) = Least(n, Len(up))
    BY <1>1, <2>2, TakenPart, ConcatAt
  <2>4. Len(GotHeader) <= HDR
    BY <1>1, <2>1, <2>3 DEF Least
  <2>5. HasHeader(GotHeader) => Len(GotHeader) <= Length(GotHeader[1].p)
    <3>1. SUFFICES ASSUME HasHeader(GotHeader)
                   PROVE  Len(GotHeader) <= Length(GotHeader[1].p)
      OBVIOUS
    <3>2. PICK p \in Packet : p = GotHeader[1].p
      BY <2>3, <3>1, FirstByte, PacketFacts
    <3>3. Length(p) = HDR + Size[p.type] /\ Size[p.type] \in Nat
      BY PacketFacts
    <3>4. Len(GotHeader) \in Nat
      BY <2>3, LenProperties
    <3>5. QED
      BY <1>1, <2>4, <3>2, <3>3, <3>4
  <2>6. QED
    <3>1. LET got == Pin \o Taken(up, n)
              left == Rest(up, Len(got) - Len(Pin))
          IN  /\ left \in Seq(BytesOf(ClientPacket)) /\ Len(left) <= Len(up)
              /\ got \o left = Pin \o up
      BY <1>1, MoveFacts, MoveKeeps
    <3>2. QED
      BY <2>2, <2>3, <2>5, <3>1
<1>4. QED
  BY <1>2, <1>3

LEMMA DataFacts ==
  ASSUME PartsInv
  PROVE  LET left == Rest(up, Len(GotData) - Len(Pin))
         IN  /\ GotData \in Seq(BytesOf(ClientPacket))
             /\ left \in Seq(BytesOf(ClientPacket)) /\ Len(left) <= Len(up)
             /\ GotData \o left = Pin \o up
             /\ HasHeader(GotData) => Len(GotData) <= Length(GotData[1].p)
<1>1. /\ Pin \in Seq(BytesOf(ClientPacket)) /\ Len(Pin) \in Nat
      /\ up \in Seq(BytesOf(ClientPacket)) /\ Len(up) \in Nat
  BY LenProperties
     DEF PartsInv, LinkTypes, ClientTypes, ServerTypes
<1>2. DataMissing \in Int /\
      (HasHeader(GotData) => Len(GotData) <= Length(GotData[1].p))
  <2>1. CASE HasHeader(Pin)
    <3>1. DataMissing = Length(Pin[1].p) - Len(Pin)
      BY <2>1 DEF DataMissing
    <3>2. Len(Pin) <= Length(Pin[1].p)
      BY <2>1 DEF PartsInv, Pieces
    <3>3. Len(GotData) <= Length(GotData[1].p)
      BY <1>1, <2>1, <3>1, <3>2, PacketBytes, PartGrows DEF GotData
    <3>4. Pin[1].p \in Packet
      BY <1>1, <2>1, FirstByte, PacketFacts
    <3>5. Length(Pin[1].p) \in Nat
      BY <3>4, PacketFacts
    <3>6. QED
      BY <1>1, <3>1, <3>3, <3>5
  <2>2. CASE ~HasHeader(Pin)
    <3>1. DataMissing = 0
      BY <2>2 DEF DataMissing
    <3>2. Taken(up, 0) = <<>>
      <4>1. Least(0, Len(up)) = 0
        BY <1>1 DEF Least
      <4>2. SubSeq(up, 1, 0) = <<>>
        BY SubSeqEmpty
      <4>3. QED
        BY <4>1, <4>2 DEF Taken
    <3>3. GotData = Pin
      BY <1>1, <3>1, <3>2, ConcatEmptySeq DEF GotData
    <3>4. QED
      BY <2>2, <3>1, <3>3
  <2>3. QED
    BY <2>1, <2>2
<1>3. QED
  BY <1>1, <1>2, MoveFacts, MoveKeeps DEF GotData

LEMMA PiecesStep ==
  ASSUME PartsInv, [Next]_vars PROVE Pieces'
<1>1. /\ Pieces /\ Len(up) \in Nat /\ Cap \in Nat
      /\ ~HasHeader(<<>>) /\ Len(<<>>) = 0
  <2>1. Len(up) \in Nat
    BY LenProperties DEF PartsInv, LinkTypes, ClientTypes
  <2>2. QED
    BY <2>1, PacketFacts DEF PartsInv, HasHeader
<1>2. CASE attemptConnection
  <2>1. up' = <<>> /\ Pin' = Pin /\ cPin' = cPin
    BY <1>2 DEF attemptConnection, server
  <2>2. QED
    BY <1>1, <2>1 DEF Pieces
<1>3. CASE Drop
  <2>1. up' = up /\ Pin' = Pin /\ cPin' = <<>>
    BY <1>3 DEF Drop, connectionDropped, server
  <2>2. QED
    BY <1>1, <2>1 DEF Pieces
<1>4. CASE writeOperation
  <2>1. PICK n \in 1..Least(Len(cPout), Cap - Len(up)) :
          up' = up \o Taken(cPout, n)
    BY <1>4 DEF writeOperation
  <2>2. /\ up \in Seq(BytesOf(ClientPacket))
        /\ cPout \in Seq(BytesOf(ClientPacket)) /\ Len(cPout) \in Nat
    BY LenProperties DEF PartsInv, LinkTypes, ClientTypes
  <2>3. n \in Nat /\ n <= Cap - Len(up)
    BY <1>1, <2>1, <2>2 DEF Least
  <2>4. /\ Taken(cPout, n) \in Seq(BytesOf(ClientPacket))
        /\ Len(Taken(cPout, n)) = Least(n, Len(cPout))
    BY <2>2, <2>3, TakenPart
  <2>5. Len(up') = Len(up) + Least(n, Len(cPout))
    BY <2>1, <2>2, <2>4, ConcatProperties
  <2>6. Len(up') <= Cap
    BY <1>1, <2>2, <2>3, <2>5 DEF Least
  <2>7. Pin' = Pin /\ cPin' = cPin
    BY <1>4 DEF writeOperation, server
  <2>8. QED
    BY <1>1, <2>6, <2>7 DEF Pieces
<1>5. CASE readSocket
  <2>1. up' = up /\ Pin' = Pin
    BY <1>5 DEF readSocket, server
  <2>2. cPin' = <<>> \/ cPin' = ReadSome
    BY <1>5 DEF readSocket, ReadRefused, ReadPart, ReadWhole,
                connectionDropped
  <2>3. QED
    BY <1>1, <2>1, <2>2, ReadFacts DEF Pieces
<1>6. CASE \/ writeSocket \/ handleReceivingQueue
           \/ \E type \in Requests : addPacketToQueue(type)
  <2>1. up' = up /\ Pin' = Pin /\ cPin' = cPin
    BY <1>6 DEF writeSocket, handleReceivingQueue, addPacketToQueue, link,
                server
  <2>2. QED
    BY <1>1, <2>1 DEF Pieces
<1>7. CASE ReceiveHeader
  <2>1. /\ Pin' = GotHeader /\ up' = Rest(up, Len(GotHeader) - Len(Pin))
        /\ cPin' = cPin
    BY <1>7 DEF ReceiveHeader, Frame, client
  <2>2. Len(up') \in Nat /\ Len(up') <= Len(up)
    BY <2>1, HeaderFacts, LenProperties
  <2>3. QED
    BY <1>1, <2>1, <2>2, HeaderFacts DEF Pieces
<1>8. CASE ReceiveData
  <2>1. /\ Pin' = GotData \/ Pin' = <<>>
        /\ up' = Rest(up, Len(GotData) - Len(Pin))
        /\ cPin' = cPin
    BY <1>8 DEF ReceiveData, Frame, client
  <2>2. Len(up') \in Nat /\ Len(up') <= Len(up)
    BY <2>1, DataFacts, LenProperties
  <2>3. QED
    BY <1>1, <2>1, <2>2, DataFacts DEF Pieces
<1>9. CASE DeleteClient
  <2>1. up' = <<>> /\ Pin' = <<>> /\ cPin' = cPin
    BY <1>9 DEF DeleteClient, Frame, client
  <2>2. QED
    BY <1>1, <2>1 DEF Pieces
<1>10. CASE \/ SendHeader \/ SendData \/ HandlePacket \/ SecondUpdate
            \/ Accept \/ Pause \/ UNCHANGED vars
  <2>1. up' = up /\ Pin' = Pin /\ cPin' = cPin
    BY <1>10 DEF SendHeader, SendData, HandlePacket, SecondUpdate, Accept,
                 Pause, link, Frame, client, server, vars
  <2>2. QED
    BY <1>1, <2>1 DEF Pieces
<1>11. QED
  BY <1>2, <1>3, <1>4, <1>5, <1>6, <1>7, <1>8, <1>9, <1>10
     DEF Next, ClientThread, NetworkThread, Update
-----------------------------------------------------------------------------
(* What is sent: the bytes of the packet from the first unsent one on.     *)

Remaining(p, k) == BytesFrom(p, k, Length(p) - k)

LEMMA UnsentIs ==
  /\ Pout = <<>> => Unsent = <<>>
  /\ \A p \in Packet : Pout = <<p>> => Unsent = Remaining(p, bytesOut)
BY DEF Unsent, Remaining

LEMMA BytesFromIs ==
  ASSUME NEW p \in Packet, NEW k \in Nat, NEW n \in Nat
  PROVE  /\ BytesFrom(p, k, n) \in Seq(BytesOf(Packet))
         /\ Len(BytesFrom(p, k, n)) = n
         /\ \A i \in 1..n : BytesFrom(p, k, n)[i] = Byte(p, k + i)
<1>1. /\ BytesFrom(p, k, n) \in Seq(BytesOf(Packet))
      /\ Len(BytesFrom(p, k, n)) = IF n < 0 THEN 0 ELSE n
  BY BytesFromFacts
<1>2. ~(n < 0)
  OBVIOUS
<1>3. \A i \in 1..n : BytesFrom(p, k, n)[i] = Byte(p, k + i)
  BY DEF BytesFrom
<1>4. QED
  BY <1>1, <1>2, <1>3

LEMMA BytesFromSplit ==
  ASSUME NEW p \in Packet, NEW k \in Nat, NEW m \in Nat, NEW left \in Nat
  PROVE  /\ BytesFrom(p, k, m) \in Seq(BytesOf(Packet))
         /\ BytesFrom(p, k + m, left) \in Seq(BytesOf(Packet))
         /\ BytesFrom(p, k, m) \o BytesFrom(p, k + m, left)
              = BytesFrom(p, k, m + left)
<1> DEFINE a == BytesFrom(p, k, m)
           b == BytesFrom(p, k + m, left)
           c == BytesFrom(p, k, m + left)
<1>1. k + m \in Nat /\ m + left \in Nat
  OBVIOUS
<1>2. /\ a \in Seq(BytesOf(Packet)) /\ Len(a) = m
      /\ \A i \in 1..m : a[i] = Byte(p, k + i)
  BY BytesFromIs
<1>3. /\ b \in Seq(BytesOf(Packet)) /\ Len(b) = left
      /\ \A i \in 1..left : b[i] = Byte(p, (k + m) + i)
  BY <1>1, BytesFromIs
<1>4. /\ c \in Seq(BytesOf(Packet)) /\ Len(c) = m + left
      /\ \A i \in 1..(m + left) : c[i] = Byte(p, k + i)
  BY <1>1, BytesFromIs
<1> HIDE DEF a, b, c
<1>5. /\ a \o b \in Seq(BytesOf(Packet)) /\ Len(a \o b) = m + left
      /\ \A i \in 1..m : (a \o b)[i] = a[i]
      /\ \A i \in 1..left : (a \o b)[m + i] = b[i]
  <2>1. /\ a \o b \in Seq(BytesOf(Packet))
        /\ Len(a \o b) = Len(a) + Len(b)
        /\ \A i \in 1..Len(a) : (a \o b)[i] = a[i]
        /\ \A i \in 1..Len(b) : (a \o b)[Len(a) + i] = b[i]
    <3>1. a \in Seq(BytesOf(Packet)) /\ b \in Seq(BytesOf(Packet))
      BY <1>2, <1>3
    <3>2. QED
      BY <3>1, ConcatAt
  <2>2. QED
    BY <1>2, <1>3, <2>1
<1>6. ASSUME NEW i \in 1..(m + left) PROVE (a \o b)[i] = c[i]
  <2>1. CASE i \in 1..m
    BY <1>2, <1>4, <1>5, <2>1
  <2>2. CASE i \notin 1..m
    <3>1. PICK j \in 1..left : i = m + j
      <4>1. i - m \in 1..left /\ i = m + (i - m)
        BY <2>2
      <4>2. QED
        BY <4>1
    <3>2. (a \o b)[i] = Byte(p, (k + m) + j)
      BY <1>3, <1>5, <3>1
    <3>3. c[i] = Byte(p, k + i) /\ (k + m) + j = k + i
      BY <1>4, <3>1
    <3>4. QED
      BY <3>2, <3>3
  <2>3. QED
    BY <2>1, <2>2
<1>7. a \o b = c
  BY <1>4, <1>5, <1>6, SeqEqual
<1>8. QED
  BY <1>2, <1>3, <1>7 DEF a, b, c

LEMMA RemainingSplit ==
  ASSUME NEW p \in Packet, NEW k \in Nat, NEW m \in Nat, k + m <= Length(p)
  PROVE  /\ BytesFrom(p, k, m) \in Seq(BytesOf(Packet))
         /\ Remaining(p, k) \in Seq(BytesOf(Packet))
         /\ Remaining(p, k + m) \in Seq(BytesOf(Packet))
         /\ BytesFrom(p, k, m) \o Remaining(p, k + m) = Remaining(p, k)
<1>1. PICK n \in Nat : n = Length(p)
  BY PacketFacts
<1>2. PICK left \in Nat : left = n - (k + m)
  BY <1>1
<1>3. n - k = m + left /\ m + left \in Nat
  BY <1>2
<1>4. /\ Remaining(p, k + m) = BytesFrom(p, k + m, left)
      /\ Remaining(p, k) = BytesFrom(p, k, m + left)
  BY <1>1, <1>2, <1>3 DEF Remaining
<1>5. /\ BytesFrom(p, k, m) \in Seq(BytesOf(Packet))
      /\ BytesFrom(p, k + m, left) \in Seq(BytesOf(Packet))
      /\ BytesFrom(p, k, m) \o BytesFrom(p, k + m, left)
           = BytesFrom(p, k, m + left)
  BY BytesFromSplit
<1>6. BytesFrom(p, k, m + left) \in Seq(BytesOf(Packet))
  BY <1>3, BytesFromIs
<1>7. QED
  BY <1>4, <1>5, <1>6

\* There is nothing behind the last byte of a packet but memory.
Memory(bytes) == \A i \in 1..Len(bytes) : bytes[i].k = 0

LEMMA BytesBehind ==
  ASSUME NEW p \in Packet, NEW k \in Nat, NEW n \in Nat, k >= Length(p)
  PROVE  /\ BytesFrom(p, k, n) \in Seq(BytesOf(Packet))
         /\ Memory(BytesFrom(p, k, n))
<1>1. Length(p) \in Nat
  BY PacketFacts
<1>2. ASSUME NEW i \in 1..n PROVE Byte(p, k + i).k = 0
  BY <1>1 DEF Byte
<1>3. /\ BytesFrom(p, k, n) \in Seq(BytesOf(Packet))
      /\ Len(BytesFrom(p, k, n)) = n
      /\ \A i \in 1..n : BytesFrom(p, k, n)[i] = Byte(p, k + i)
  BY BytesFromIs
<1>4. QED
  BY <1>2, <1>3 DEF Memory

LEMMA RemainingBehind ==
  ASSUME NEW p \in Packet PROVE Remaining(p, Length(p) + 1) = <<>>
<1>1. Length(p) + 1 \in Nat /\ Length(p) - (Length(p) + 1) = -1
  BY PacketFacts
<1>2. /\ BytesFrom(p, Length(p) + 1, -1) \in Seq(BytesOf(Packet))
      /\ Len(BytesFrom(p, Length(p) + 1, -1)) = 0
  BY <1>1, BytesFromFacts
<1>3. BytesFrom(p, Length(p) + 1, -1) = <<>>
  BY <1>2, EmptySeq
<1>4. QED
  BY <1>1, <1>3 DEF Remaining

LEMMA RemainingNone ==
  ASSUME NEW p \in Packet PROVE Remaining(p, Length(p)) = <<>>
<1>1. Length(p) \in Nat /\ Length(p) - Length(p) = 0
  BY PacketFacts
<1>2. /\ BytesFrom(p, Length(p), 0) \in Seq(BytesOf(Packet))
      /\ Len(BytesFrom(p, Length(p), 0)) = 0
  BY <1>1, BytesFromFacts
<1>3. BytesFrom(p, Length(p), 0) = <<>>
  BY <1>2, EmptySeq
<1>4. QED
  BY <1>1, <1>3 DEF Remaining

LEMMA SendStart ==
  ASSUME PartsInv
  PROVE  /\ HDR \in Nat /\ HDR > 0 /\ Cap \in Nat
         /\ down \in Seq(BytesOf(Packet)) /\ bytesOut \in Nat
         /\ order \in {"net", "host"} /\ Free \in Nat /\ Free <= Cap
         /\ \A p \in Packet : /\ Length(p) \in Nat /\ Size[p.type] \in Nat
                               /\ Length(p) = HDR + Size[p.type]
         /\ Pout = <<>> \/ \E p \in Packet : Pout = <<p>>
         /\ Unsent \in Seq(BytesOf(Packet)) /\ (Overrun => Unsent = <<>>)
<1>1. /\ LinkTypes /\ down \in Seq(BytesOf(Packet)) /\ bytesOut \in Nat
      /\ order \in {"net", "host"}
      /\ Pout = <<>> \/ \E p \in Packet : Pout = <<p>>
  BY DEF PartsInv, LinkTypes, SendTypes
<1>2. Free \in Nat /\ Free <= Cap /\ Cap \in Nat
  BY <1>1, FreeFacts, PacketFacts
<1>3. Unsent \in Seq(BytesOf(Packet)) /\ (Overrun => Unsent = <<>>)
  <2>1. CASE Pout = <<>>
    BY <2>1, UnsentIs
  <2>2. ASSUME NEW p \in Packet, Pout = <<p>>
        PROVE  Unsent \in Seq(BytesOf(Packet)) /\ (Overrun => Unsent = <<>>)
    <3>1. Length(p) \in Nat /\ Unsent = Remaining(p, bytesOut) /\ Pout[1] = p
      BY <2>2, PacketFacts, UnsentIs
    <3>2. CASE bytesOut <= Length(p)
      <4>1. bytesOut + 0 <= Length(p)
        BY <1>1, <3>2
      <4>2. Unsent \in Seq(BytesOf(Packet))
        BY <1>1, <3>1, <4>1, RemainingSplit
      <4>3. ~Overrun
        BY <1>1, <3>1, <3>2 DEF Overrun
      <4>4. QED
        BY <4>2, <4>3
    <3>3. CASE ~(bytesOut <= Length(p))
      <4>1. bytesOut = Length(p) + 1
        BY <2>2, <3>3 DEF PartsInv, SentPart
      <4>2. Unsent = <<>>
        BY <3>1, <4>1, RemainingBehind
      <4>3. QED
        BY <4>2
    <3>4. QED
      BY <3>2, <3>3
  <2>3. QED
    BY <1>1, <2>1, <2>2
<1>4. QED
  BY <1>1, <1>2, <1>3, PacketFacts

\* A send moves bytes of the packet to the socket, and of the memory behind it
\* once the packet is there.
Sends(a, j) ==
  /\ a \in Seq(BytesOf(Packet)) /\ j \in Seq(BytesOf(Packet)) /\ Memory(j)
  /\ down' = (down \o a) \o j
  /\ j # <<>> => Overrun'
  /\ Overrun => a = <<>> /\ Overrun'

\* The header of the packet at hand, or of the first that waits.
LEMMA HeaderSent ==
  ASSUME PartsInv, SendHeader
  PROVE  /\ SentPart' /\ Unsent' \in Seq(BytesOf(Packet))
         /\ \E a \in Seq(BytesOf(Packet)) :
              /\ Sends(a, <<>>)
              /\ Taking => /\ O # <<>> /\ O' = Tail(O) /\ Unsent = <<>>
                           /\ ~Overrun /\ a \o Unsent' = Bytes(Head(O))
              /\ ~Taking => O' = O /\ a \o Unsent' = Unsent
<1>1. /\ LinkTypes /\ SentPart /\ HDR \in Nat /\ HDR > 0
      /\ down \in Seq(BytesOf(Packet)) /\ bytesOut \in Nat
      /\ \A p \in Packet : /\ Length(p) \in Nat /\ Size[p.type] \in Nat
                            /\ Length(p) = HDR + Size[p.type]
  BY SendStart DEF PartsInv
<1>2. Taking => O # <<>> /\ O' = Tail(O) /\ Pout = <<>>
  BY DEF Taking, SendHeader
<1>3. ~Taking => O' = O /\ Current = Pout /\ Begun = bytesOut
                 /\ BegunOrder = order
  BY <1>1, CurrentFacts DEF SendHeader
<1>4. Taking => Unsent = <<>> /\ ~Overrun
  BY <1>2, UnsentIs DEF Overrun
<1>5. \A q \in Seq(BytesOf(Packet)) : (down \o q) \o <<>> = down \o q
  BY <1>1, ConcatProperties, ConcatEmptySeq
<1>6. <<>> \in Seq(BytesOf(Packet)) /\ Memory(<<>>)
  BY DEF Memory
<1>7. CASE Current = <<>>
  <2>1. ~Taking
    BY <1>1, <1>7, CurrentFacts
  <2>2. Pout = <<>> /\ Pout' = <<>> /\ down' = down
    BY <1>3, <1>7, <2>1 DEF SendHeader
  <2>3. Unsent = <<>> /\ Unsent' = <<>> /\ ~Overrun
    BY <2>2 DEF Unsent, Overrun
  <2>4. SentPart'
    BY <2>2 DEF SentPart
  <2>5. Sends(<<>>, <<>>)
    BY <1>1, <1>6, <2>2, <2>3, ConcatEmptySeq DEF Sends
  <2>6. QED
    BY <1>3, <1>6, <2>1, <2>3, <2>4, <2>5, ConcatEmptySeq
<1>8. CASE Current # <<>>
  <2>1. PICK p \in Packet : Current = <<p>>
    BY <1>1, <1>8, CurrentFacts
  <2>2. /\ Pout' = <<p>> /\ bytesOut' = Begun + HeaderCount
        /\ down' = down \o BytesFrom(p, Begun, HeaderCount)
        /\ order' = IF bytesOut' = HDR THEN Other[BegunOrder] ELSE BegunOrder
    BY <1>8, <2>1 DEF SendHeader
  <2>3. /\ Begun \in Nat /\ HeaderCount \in Nat
        /\ Begun < HDR => Begun + HeaderCount <= HDR
        /\ Begun >= HDR => HeaderCount = 0
    BY <1>1, CurrentFacts, HeaderCountFacts
  <2>4. Unsent' = Remaining(p, bytesOut')
    BY <2>2 DEF Unsent, Remaining
  <2>5. Overrun' <=> bytesOut' > Length(p)
    BY <2>2 DEF Overrun
  <2>6. CASE Begun <= Length(p)
    <3>1. Begun + HeaderCount <= Length(p)
      BY <1>1, <2>1, <2>3, <2>6
    <3>2. SentPart'
      <4>1. ASSUME NEW q \in Packet, Pout' = <<q>> PROVE bytesOut' <= Length(q)
        BY <2>2, <3>1, <4>1
      <4>2. QED
        BY <4>1 DEF SentPart
    <3>3. PICK a \in Seq(BytesOf(Packet)) :
            a = BytesFrom(p, Begun, HeaderCount)
      BY <2>3, <3>1, RemainingSplit
    <3>4. /\ Unsent' \in Seq(BytesOf(Packet))
          /\ a \o Unsent' = Remaining(p, Begun)
      BY <2>2, <2>3, <2>4, <3>1, <3>3, RemainingSplit
    <3>5. ~Overrun
      <4>1. CASE ~Taking
        <5>1. Pout = <<p>> /\ Begun = bytesOut
          BY <1>3, <2>1, <4>1
        <5>2. QED
          BY <1>1, <2>6, <5>1 DEF Overrun
      <4>2. QED
        BY <1>4, <4>1
    <3>6. Sends(a, <<>>)
      BY <1>5, <1>6, <2>2, <3>3, <3>5 DEF Sends
    <3>7. CASE Taking
      <4>1. p = Head(O) /\ Begun = 0
        BY <1>1, <2>1, <3>7, CurrentFacts DEF Current
      <4>2. Remaining(p, 0) = Bytes(p)
        BY <1>1 DEF Remaining, Bytes
      <4>3. QED
        BY <1>2, <1>4, <3>2, <3>4, <3>6, <3>7, <4>1, <4>2
    <3>8. CASE ~Taking
      <4>1. Unsent = Remaining(p, Begun)
        BY <1>3, <2>1, <3>8, UnsentIs
      <4>2. QED
        BY <1>3, <3>2, <3>4, <3>6, <3>8, <4>1
    <3>9. QED
      BY <3>7, <3>8
  <2>7. CASE ~(Begun <= Length(p))
    <3>1. ~Taking
      BY <1>1, <2>1, <2>7, CurrentFacts
    <3>2. /\ Pout = <<p>> /\ Begun = bytesOut /\ BegunOrder = order
          /\ bytesOut = Length(p) + 1 /\ order = "net" /\ Size[p.type] > 0
      BY <1>1, <1>3, <2>1, <2>7, <3>1 DEF SentPart
    <3>3. HeaderCount = 0 /\ bytesOut' = bytesOut /\ order' = order
      BY <1>1, <2>1, <2>2, <2>3, <3>2
    <3>4. SentPart'
      <4>1. ASSUME NEW q \in Packet, Pout' = <<q>>
            PROVE  /\ bytesOut' = Length(q) + 1 /\ order' = "net"
                   /\ Size[q.type] > 0
        <5>1. q = p
          BY <2>2, <4>1
        <5>2. QED
          BY <3>2, <3>3, <5>1
      <4>2. QED
        BY <4>1 DEF SentPart
    <3>5. BytesFrom(p, Begun, 0) = <<>>
      <4>1. BytesFrom(p, Begun, 0) \in Seq(BytesOf(Packet))
            /\ Len(BytesFrom(p, Begun, 0)) = 0
        BY <2>3, BytesFromIs
      <4>2. QED
        BY <4>1, EmptySeq
    <3>6. down' = down \o <<>>
      BY <2>2, <3>3, <3>5
    <3>7. Unsent' = Unsent /\ Unsent = <<>> /\ Overrun'
      <4>1. Unsent = Remaining(p, bytesOut)
        BY <3>2, UnsentIs
      <4>2. QED
        BY <1>1, <2>1, <2>4, <2>5, <3>2, <3>3, <4>1, RemainingBehind
    <3>8. Sends(<<>>, <<>>)
      BY <1>5, <1>6, <3>6, <3>7 DEF Sends
    <3>9. QED
      BY <1>3, <1>6, <3>1, <3>4, <3>7, <3>8, ConcatEmptySeq
  <2>8. QED
    BY <2>6, <2>7
<1>9. QED
  BY <1>7, <1>8

\* Its data: no more than the packet has under a length in host order, and
\* whatever the socket takes under one in network order.
LEMMA DataSent ==
  ASSUME PartsInv, SendData
  PROVE  /\ SentPart' /\ Unsent' \in Seq(BytesOf(Packet))
         /\ \E a, j \in Seq(BytesOf(Packet)) :
              Sends(a, j) /\ a \o Unsent' = Unsent
<1>1. /\ SentPart /\ HDR \in Nat /\ HDR > 0 /\ Cap \in Nat
      /\ down \in Seq(BytesOf(Packet)) /\ bytesOut \in Nat
      /\ order \in {"net", "host"} /\ Free \in Nat /\ Free <= Cap
      /\ \A p \in Packet : /\ Length(p) \in Nat /\ Size[p.type] \in Nat
                            /\ Length(p) = HDR + Size[p.type]
  BY SendStart DEF PartsInv
<1>2. <<>> \in Seq(BytesOf(Packet)) /\ Memory(<<>>)
  BY DEF Memory
<1>3. CASE Pout = <<>>
  <2>1. Pout' = <<>> /\ down' = down
    BY <1>3 DEF SendData
  <2>2. Unsent = <<>> /\ Unsent' = <<>> /\ ~Overrun /\ SentPart'
    BY <1>3, <2>1 DEF SentPart, Unsent, Overrun
  <2>3. Sends(<<>>, <<>>)
    BY <1>1, <1>2, <2>1, <2>2, ConcatEmptySeq DEF Sends
  <2>4. QED
    BY <1>2, <2>2, <2>3, ConcatEmptySeq
<1>4. CASE Pout # <<>>
  <2>1. PICK p \in Packet : Pout = <<p>>
    BY <1>4, SendStart
  <2>2. PICK n : n = DataCount(p)
    OBVIOUS
  <2>3. /\ down' = down \o BytesFrom(p, bytesOut, n)
        /\ bytesOut' = Least(bytesOut + n, Length(p) + 1)
        /\ Pout' = IF bytesOut >= HDR /\ n = DataLeft(p) THEN <<>> ELSE Pout
        /\ order' = order
    BY <1>4, <2>1, <2>2 DEF SendData
  <2>4. PICK L \in Nat : L = Length(p) /\ L = HDR + Size[p.type]
    BY <1>1, <2>1
  <2>5. Unsent = Remaining(p, bytesOut) /\ (Overrun <=> bytesOut > L)
    BY <2>1, <2>4, UnsentIs DEF Overrun
  <2>6. /\ n \in Nat
        /\ \/ bytesOut + n <= L
           \/ order = "net" /\ Size[p.type] > 0 /\ bytesOut' = L + 1
        /\ Pout' # Pout => Pout' = <<>> /\ bytesOut + n = L
    <3>1. CASE bytesOut < HDR
      <4>1. n = 0 /\ bytesOut + n <= L /\ Pout' = Pout
        BY <1>1, <2>2, <2>3, <2>4, <3>1 DEF DataCount
      <4>2. QED
        BY <4>1
    <3>2. CASE bytesOut >= HDR /\ order = "host"
      <4>1. bytesOut <= L
        BY <1>1, <2>1, <2>4, <3>2 DEF SentPart
      <4>2. DataLeft(p) = L - bytesOut /\ n = Least(L - bytesOut, Free)
        BY <1>1, <2>2, <2>4, <3>2 DEF DataLeft, DataCount
      <4>3. n \in Nat /\ bytesOut + n <= L
        BY <1>1, <4>1, <4>2 DEF Least
      <4>4. Pout' # Pout => Pout' = <<>> /\ n = L - bytesOut
        BY <2>3, <4>2
      <4>5. QED
        BY <1>1, <4>3, <4>4
    <3>3. CASE bytesOut >= HDR /\ order = "net" /\ Size[p.type] = 0
      <4>1. bytesOut = L
        BY <1>1, <2>1, <2>4, <3>3 DEF SentPart
      <4>2. n = 0
        BY <1>1, <2>2, <3>3 DEF DataLeft, DataCount, Least
      <4>3. Pout' = <<>>
        BY <1>1, <2>3, <3>3, <4>2 DEF DataLeft
      <4>4. QED
        BY <1>1, <4>1, <4>2, <4>3
    <3>4. CASE bytesOut >= HDR /\ order = "net" /\ Size[p.type] > 0
      <4>1. DataLeft(p) = Cap + 1
        BY <1>1, <2>1, <3>4 DEF DataLeft
      <4>2. n = Free
        BY <1>1, <2>2, <3>4, <4>1 DEF DataCount, Least
      <4>3. Pout' = Pout
        BY <1>1, <2>3, <4>1, <4>2
      <4>4. bytesOut' = L + 1 \/ bytesOut + n <= L
        BY <1>1, <2>3, <2>4, <4>2 DEF Least
      <4>5. QED
        BY <1>1, <3>4, <4>2, <4>3, <4>4
    <3>5. QED
      BY <1>1, <2>1, <3>1, <3>2, <3>3, <3>4
  <2>7. CASE bytesOut + n <= L
    <3>1. bytesOut' = bytesOut + n /\ ~Overrun
      BY <1>1, <2>3, <2>4, <2>5, <2>6, <2>7 DEF Least
    <3>2. SentPart'
      <4>1. ASSUME NEW q \in Packet, Pout' = <<q>> PROVE bytesOut' <= Length(q)
        <5>1. Pout' = Pout
          <6>1. <<q>> # <<>>
            OBVIOUS
          <6>2. QED
            BY <2>3, <4>1, <6>1
        <5>2. q = p
          BY <2>1, <4>1, <5>1
        <5>3. QED
          BY <2>4, <2>7, <3>1, <5>2
      <4>2. QED
        BY <4>1 DEF SentPart
    <3>3. Unsent' = Remaining(p, bytesOut + n)
      <4>1. CASE Pout' # Pout
        <5>1. bytesOut + n = Length(p) /\ Unsent' = <<>>
          BY <2>4, <2>6, <4>1 DEF Unsent
        <5>2. QED
          BY <5>1, RemainingNone
      <4>2. CASE Pout' = Pout
        BY <2>1, <3>1, <4>2 DEF Unsent, Remaining
      <4>3. QED
        BY <4>1, <4>2
    <3>4. PICK a \in Seq(BytesOf(Packet)) : a = BytesFrom(p, bytesOut, n)
      BY <1>1, <2>6, BytesFromIs
    <3>5. /\ Unsent' \in Seq(BytesOf(Packet))
          /\ a \o Unsent' = Unsent
      BY <1>1, <2>4, <2>5, <2>6, <2>7, <3>3, <3>4, RemainingSplit
    <3>6. (down \o a) \o <<>> = down'
      BY <1>1, <2>3, <3>4, ConcatProperties, ConcatEmptySeq
    <3>7. Sends(a, <<>>)
      BY <1>2, <3>1, <3>6 DEF Sends
    <3>8. QED
      BY <1>2, <3>2, <3>5, <3>7
  <2>8. CASE ~(bytesOut + n <= L)
    <3>1. /\ Pout' = <<p>> /\ bytesOut' = L + 1 /\ order' = "net"
          /\ Size[p.type] > 0
      BY <1>1, <2>1, <2>3, <2>6, <2>8
    <3>2. SentPart'
      <4>1. ASSUME NEW q \in Packet, Pout' = <<q>>
            PROVE  /\ bytesOut' = Length(q) + 1 /\ order' = "net"
                   /\ Size[q.type] > 0
        <5>1. q = p
          BY <3>1, <4>1
        <5>2. QED
          BY <2>4, <3>1, <5>1
      <4>2. QED
        BY <4>1 DEF SentPart
    <3>3. Overrun' /\ Unsent' = <<>>
      <4>1. Unsent' = Remaining(p, L + 1)
        BY <3>1 DEF Unsent, Remaining
      <4>2. Unsent' = <<>>
        BY <2>4, <4>1, RemainingBehind
      <4>3. Overrun' <=> bytesOut' > Length(p)
        BY <3>1 DEF Overrun
      <4>4. QED
        BY <2>4, <3>1, <4>2, <4>3
    <3>4. CASE bytesOut <= L
      <4>1. PICK m \in Nat, k \in Nat :
              bytesOut + m = L /\ n = m + k
        <5>1. L - bytesOut \in Nat /\ n - (L - bytesOut) \in Nat
          BY <1>1, <2>6, <2>8, <3>4
        <5>2. bytesOut + (L - bytesOut) = L
              /\ n = (L - bytesOut) + (n - (L - bytesOut))
          BY <1>1, <2>6
        <5>3. QED
          BY <5>1, <5>2
      <4>2. PICK a \in Seq(BytesOf(Packet)), j \in Seq(BytesOf(Packet)) :
              /\ a = BytesFrom(p, bytesOut, m) /\ j = BytesFrom(p, L, k)
              /\ a \o j = BytesFrom(p, bytesOut, n) /\ Memory(j)
        <5>1. /\ BytesFrom(p, bytesOut, m) \in Seq(BytesOf(Packet))
              /\ BytesFrom(p, bytesOut + m, k) \in Seq(BytesOf(Packet))
              /\ BytesFrom(p, bytesOut, m) \o BytesFrom(p, bytesOut + m, k)
                   = BytesFrom(p, bytesOut, m + k)
          <6>1. /\ p \in Packet /\ bytesOut \in Nat /\ m \in Nat /\ k \in Nat
            BY <1>1
          <6>2. QED
            BY ONLY <6>1, BytesFromSplit
        <5>2. L >= Length(p)
          BY <2>4
        <5>3. Memory(BytesFrom(p, L, k))
          BY <5>2, BytesBehind
        <5>4. QED
          BY <4>1, <5>1, <5>3
      <4>3. a = Unsent
        BY <1>1, <2>4, <2>5, <4>1, <4>2 DEF Remaining
      <4>4. down' = (down \o a) \o j
        <5>1. (down \o a) \o j = down \o (a \o j)
          <6>1. down \in Seq(BytesOf(Packet))
            BY <1>1
          <6>2. a \in Seq(BytesOf(Packet)) /\ j \in Seq(BytesOf(Packet))
            BY <4>2
          <6>3. QED
            BY ONLY <6>1, <6>2, ConcatAssociative
        <5>2. QED
          BY <2>3, <4>2, <5>1
      <4>5. Sends(a, j) /\ a \o Unsent' = Unsent
        BY <2>5, <3>3, <3>4, <4>2, <4>3, <4>4, <2>4, <1>1, ConcatEmptySeq
           DEF Sends
      <4>6. QED
        BY <1>2, <3>2, <3>3, <4>5
    <3>5. CASE ~(bytesOut <= L)
      <4>1. PICK j \in Seq(BytesOf(Packet)) :
              j = BytesFrom(p, bytesOut, n) /\ Memory(j)
        <5>1. bytesOut >= Length(p)
          BY <1>1, <2>4, <3>5
        <5>2. QED
          BY <1>1, <2>6, <5>1, BytesBehind
      <4>2. bytesOut = L + 1
        BY <1>1, <2>1, <2>4, <3>5 DEF SentPart
      <4>3. Unsent = <<>>
        BY <2>4, <2>5, <4>2, RemainingBehind
      <4>4. down' = (down \o <<>>) \o j
        BY <1>1, <2>3, <4>1, ConcatEmptySeq
      <4>5. Sends(<<>>, j) /\ <<>> \o Unsent' = Unsent
        BY <1>2, <3>3, <4>1, <4>3, <4>4, ConcatEmptySeq DEF Sends
      <4>6. QED
        BY <1>2, <3>2, <3>3, <4>1, <4>5
    <3>6. QED
      BY <3>4, <3>5
  <2>9. QED
    BY <2>7, <2>8
<1>5. QED
  BY <1>3, <1>4

LEMMA PartsInit == Init => PartsInv
BY TypesInit, LinkStateInit, HistoriesInit DEF PartsInv

LEMMA PartsStep ==
  ASSUME PartsInv, [Next]_vars PROVE PartsInv'
<1>1. LinkTypes' /\ LinkState' /\ Histories' /\ Pieces'
  BY TypesStep, LinkStateStep, HistoriesStep, PiecesStep DEF PartsInv
<1>2. SentPart'
  <2>1. CASE SendHeader
    BY <2>1, HeaderSent
  <2>2. CASE SendData
    BY <2>2, DataSent
  <2>3. CASE DeleteClient
    BY <2>3 DEF DeleteClient, SentPart
  <2>4. CASE UNCHANGED <<Pout, bytesOut, order>>
    BY <2>4 DEF PartsInv, SentPart
  <2>5. \/ SendHeader \/ SendData \/ DeleteClient
        \/ UNCHANGED <<Pout, bytesOut, order>>
    BY DEF Next, ClientThread, NetworkThread, Update, attemptConnection, Drop,
           writeOperation, readSocket, writeSocket, addPacketToQueue,
           handleReceivingQueue, ReceiveHeader, ReceiveData, HandlePacket,
           SecondUpdate, Accept, Pause, Outgoing, server, link, vars
  <2>6. QED
    BY <2>1, <2>2, <2>3, <2>4, <2>5
<1>3. QED
  BY <1>1, <1>2 DEF PartsInv
-----------------------------------------------------------------------------
(* The bytes on their way.                                                 *)

UpFlow   == Linked => Carried(sent, handled \o R, (Pin \o up) \o cPout, cO)
\* Behind the bytes of packets in the socket there may be memory, when a send
\* has run past its packet; no packet follows it.
DownParts(real, junk) ==
  /\ down = real \o junk /\ Memory(junk) /\ (junk # <<>> => Overrun)
  /\ Carried(queued, arrived, (cPin \o real) \o Unsent, O)
DownFlow == Linked => \E real, junk \in Seq(BytesOf(Packet)) :
                        DownParts(real, junk)
FlowInv  == PartsInv /\ UpFlow /\ DownFlow

LEMMA FlowTypes ==
  ASSUME PartsInv
  PROVE  /\ cO \in Seq(Packet) /\ R \in Seq(Packet) /\ O \in Seq(Packet)
         /\ sent \in Seq(Packet) /\ handled \in Seq(Packet)
         /\ queued \in Seq(Packet) /\ arrived \in Seq(Packet)
         /\ handled \o R \in Seq(Packet)
         /\ Pin \in Seq(BytesOf(Packet)) /\ up \in Seq(BytesOf(Packet))
         /\ cPin \in Seq(BytesOf(Packet)) /\ cPout \in Seq(BytesOf(Packet))
         /\ down \in Seq(BytesOf(Packet)) /\ Unsent \in Seq(BytesOf(Packet))
<1>1. Seq(ClientPacket) \subseteq Seq(Packet)
  BY PacketFacts, SeqMonotonic
<1>2. /\ cO \in Seq(Packet) /\ R \in Seq(Packet) /\ O \in Seq(Packet)
      /\ sent \in Seq(Packet) /\ handled \in Seq(Packet)
      /\ queued \in Seq(Packet) /\ arrived \in Seq(Packet)
      /\ Pin \in Seq(BytesOf(Packet)) /\ up \in Seq(BytesOf(Packet))
      /\ cPin \in Seq(BytesOf(Packet)) /\ cPout \in Seq(BytesOf(Packet))
      /\ down \in Seq(BytesOf(Packet))
  BY <1>1, PacketBytes DEF PartsInv, LinkTypes, ClientTypes,
                           ServerTypes, SendTypes, Histories
<1>3. Unsent \in Seq(BytesOf(Packet))
  BY SendStart
<1>4. handled \o R \in Seq(Packet)
  BY <1>2, ConcatProperties
<1>5. QED
  BY <1>2, <1>3, <1>4

LEMMA Regroup ==
  ASSUME NEW a \in Seq(BytesOf(Packet)), NEW b \in Seq(BytesOf(Packet)),
         NEW c \in Seq(BytesOf(Packet))
  PROVE  (a \o b) \o c = a \o (b \o c)
BY ConcatAssociative

LEMMA ConnectFlow ==
  ASSUME PartsInv, attemptConnection PROVE UpFlow' /\ DownFlow'
<1>1. /\ O = <<>> /\ R = <<>> /\ Pin = <<>> /\ Pout = <<>> /\ cPin = <<>>
  BY DEF PartsInv, LinkState, attemptConnection
<1>2. PICK a \in Packet : a = Auth
  BY PktFacts, PacketFacts DEF Auth
<1>3. /\ cO \in Seq(Packet) /\ Bytes(a) \in Seq(BytesOf(Packet))
  BY FlowTypes, BytesFacts
<1>4. UpFlow'
  <2>1. /\ sent' = <<a>> \o cO /\ handled' \o R' = <<>> \o <<>>
        /\ (Pin' \o up') \o cPout' = (<<>> \o <<>>) \o Bytes(a) /\ cO' = cO
    BY <1>1, <1>2 DEF attemptConnection, server
  <2>2. handled' \o R' = <<>> /\ (Pin' \o up') \o cPout' = Bytes(a)
    BY <1>3, <2>1, ConcatEmptySeq
  <2>3. PICK u \in Seq(Packet) : u = <<a>>
    <3>1. <<a>> \in Seq(Packet)
      OBVIOUS
    <3>2. QED
      BY <3>1
  <2>4. Stream(u) = Bytes(a)
    <3>1. u = Append(<<>>, a) /\ <<>> \in Seq(Packet)
      BY <2>3
    <3>2. Stream(u) = <<>> \o Bytes(a)
      BY <3>1, StreamAppend, StreamEmpty
    <3>3. QED
      BY <1>3, <3>2, ConcatEmptySeq
  <2>5. sent' = (<<>> \o u) \o cO'
    BY <2>1, <2>3, ConcatEmptySeq
  <2>6. Carried(sent', <<>>, Bytes(a), cO')
    BY <2>4, <2>5 DEF Carried
  <2>7. QED
    BY <2>2, <2>6 DEF UpFlow
<1>5. DownFlow'
  <2>1. /\ queued' = <<>> /\ arrived' = <<>> /\ O' = <<>>
        /\ cPin' = <<>> /\ down' = <<>> /\ Pout' = <<>>
    BY <1>1 DEF attemptConnection, server
  <2>2. Unsent' = <<>>
    BY <2>1 DEF Unsent
  <2>3. /\ (cPin' \o <<>>) \o Unsent' = <<>> /\ down' = <<>> \o <<>>
        /\ <<>> \in Seq(BytesOf(Packet))
    BY <2>1, <2>2, ConcatEmptySeq
  <2>4. DownParts(<<>>, <<>>)'
    BY <2>1, <2>3, CarriedNothing DEF DownParts, Memory
  <2>5. QED
    BY <2>3, <2>4 DEF DownFlow
<1>6. QED
  BY <1>4, <1>5

\* A write moves bytes of the packet to the socket.
LEMMA WriteFlow ==
  ASSUME PartsInv, UpFlow, writeOperation PROVE UpFlow'
<1>0. (Pin \o up) \o cPout = Pin \o (up \o cPout)
  <2>1. /\ Pin \in Seq(BytesOf(Packet)) /\ up \in Seq(BytesOf(Packet))
        /\ cPout \in Seq(BytesOf(Packet))
    BY FlowTypes
  <2>2. QED
    BY <2>1, Regroup
<1>1. PICK n \in 1..Least(Len(cPout), Cap - Len(up)) :
        up' = up \o Taken(cPout, n) /\ cPout' = Rest(cPout, n)
  BY DEF writeOperation
<1>2. /\ up \in Seq(BytesOf(Packet)) /\ cPout \in Seq(BytesOf(Packet))
      /\ Pin \in Seq(BytesOf(Packet)) /\ Len(cPout) \in Nat /\ Len(up) \in Nat
      /\ Cap \in Nat
  BY FlowTypes, LenProperties, PacketFacts
<1>3. n \in Nat /\ n <= Len(cPout)
  BY <1>1, <1>2 DEF Least
<1>4. PICK a \in Seq(BytesOf(Packet)) : a = Taken(cPout, n) /\ Len(a) = n
  BY <1>2, <1>3, TakenPart DEF Least
<1>5. PICK r \in Seq(BytesOf(Packet)) : r = Rest(cPout, n)
  BY <1>2, <1>3, RestFacts
<1>6. a \o r = cPout
  <2>1. Taken(cPout, n) \o Rest(cPout, Len(Taken(cPout, n))) = cPout
    BY <1>2, <1>3, TakeThenRest
  <2>2. QED
    BY <1>4, <1>5, <2>1
<1>7. up' \o cPout' = up \o cPout
  <2>1. (up \o a) \o r = up \o (a \o r)
    <3>1. up \in Seq(BytesOf(Packet))
      BY <1>2
    <3>2. QED
      BY <3>1, ConcatAssociative
  <2>2. QED
    BY <1>1, <1>4, <1>5, <1>6, <2>1
<1>8. up' \in Seq(BytesOf(Packet)) /\ cPout' \in Seq(BytesOf(Packet))
  BY <1>1, <1>2, <1>4, <1>5, ConcatProperties
<1>9. (Pin \o up') \o cPout' = (Pin \o up) \o cPout
  <2>1. PICK b \in Seq(BytesOf(Packet)), c \in Seq(BytesOf(Packet)) :
          b = up' /\ c = cPout'
    BY <1>8
  <2>2. (Pin \o b) \o c = Pin \o (b \o c)
    <3>1. Pin \in Seq(BytesOf(Packet))
      BY <1>2
    <3>2. QED
      BY <3>1, Regroup
  <2>3. QED
    BY <1>0, <1>7, <2>1, <2>2
<1>10. QED
  BY <1>9 DEF UpFlow, Linked, writeOperation, server, history

\* writeSocket begins the packet that has waited longest.
LEMMA WriteSocketFlow ==
  ASSUME PartsInv, UpFlow, writeSocket PROVE UpFlow'
<1>1. UNCHANGED <<conn, up, sent, handled, R, Pin>> /\ cPout = <<>>
  BY DEF writeSocket, link, server, history
<1>2. CASE cO = <<>> \/ ~Linked
  <2>1. Linked => UNCHANGED <<cO, cPout>>
    BY <1>2 DEF writeSocket
  <2>2. QED
    BY <1>1, <2>1 DEF UpFlow, Linked
<1>3. CASE cO # <<>> /\ Linked
  <2>1. cphase = "on"
    BY <1>3 DEF PartsInv, LinkState, writeSocket
  <2>2. cPout' = Bytes(Head(cO)) /\ cO' = Tail(cO)
    BY <1>3, <2>1 DEF writeSocket
  <2>3. PICK b \in Seq(BytesOf(Packet)) : b = Pin \o up
    BY FlowTypes, ConcatProperties
  <2>4. (Pin \o up) \o cPout = b
    BY <1>1, <2>3, ConcatEmptySeq
  <2>5. Carried(sent, handled \o R, b, cO)
    BY <1>3, <2>4 DEF UpFlow
  <2>6. Carried(sent, handled \o R, b \o Bytes(Head(cO)), Tail(cO))
    BY <1>3, <2>5, FlowTypes, CarriedSend
  <2>7. QED
    BY <1>1, <2>2, <2>3, <2>6 DEF UpFlow
<1>4. QED
  BY <1>2, <1>3

LEMMA AddFlow ==
  ASSUME PartsInv, UpFlow, NEW type \in Requests, addPacketToQueue(type)
  PROVE  UpFlow'
<1>1. UNCHANGED <<conn, up, handled, R, Pin, cPout>> /\ cphase # "login"
  BY DEF addPacketToQueue, link, server, Monitor
<1>2. SUFFICES ASSUME Linked
               PROVE  Carried(sent', handled \o R, (Pin \o up) \o cPout, cO')
  BY <1>1 DEF UpFlow, Linked
<1>3. cphase = "on"
  BY <1>1, <1>2 DEF PartsInv, LinkState
<1>4. PICK a \in Packet : a = Asked(type)
  BY AskedFacts, PacketFacts DEF PartsInv
<1>5. cO' = Append(cO, a) /\ sent' = Append(sent, a)
  BY <1>3, <1>4, AskedFacts DEF PartsInv
<1>6. PICK u \in Seq(Packet) : u = <<a>>
  <2>1. <<a>> \in Seq(Packet)
    OBVIOUS
  <2>2. QED
    BY <2>1
<1>7. cO' = cO \o u /\ sent' = sent \o u
  <2>1. cO \in Seq(Packet) /\ sent \in Seq(Packet)
    BY FlowTypes
  <2>2. QED
    BY <1>5, <1>6, <2>1, AppendIsConcat
<1>8. QED
  BY <1>2, <1>7, FlowTypes, CarriedAdd DEF UpFlow
LEMMA UpKept ==
  ASSUME UpFlow, Linked' => Linked,
         UNCHANGED <<sent, handled, R, Pin, up, cPout, cO>>
  PROVE  UpFlow'
BY DEF UpFlow

LEMMA DownKept ==
  ASSUME DownFlow, Linked' => Linked,
         UNCHANGED <<queued, arrived, cPin, down, Pout, bytesOut, O>>
  PROVE  DownFlow'
BY DEF DownFlow, DownParts, Unsent, Overrun

\* What is carried begins with a whole packet.
LEMMA CarriedFirst ==
  ASSUME NEW in, NEW out, NEW waiting, NEW bytes \in Seq(BytesOf(Packet)),
         Carried(in, out, bytes, waiting), bytes # <<>>
  PROVE  Length(bytes[1].p) <= Len(bytes)
<1>1. PICK mid \in Seq(Packet) : bytes = Stream(mid)
  BY DEF Carried
<1>2. mid # <<>>
  BY <1>1, StreamEmpty
<1>3. PICK h \in Packet, t \in Seq(Packet) : mid = <<h>> \o t
  <2>1. /\ Head(mid) \in Packet /\ Tail(mid) \in Seq(Packet)
        /\ mid = <<Head(mid)>> \o Tail(mid)
    BY <1>2, HeadTailProperties
  <2>2. QED
    BY <2>1
<1>4. PICK b \in Seq(BytesOf(Packet)), c \in Seq(BytesOf(Packet)) :
        b = Bytes(h) /\ c = Stream(t) /\ bytes = b \o c
  BY <1>1, <1>3, StreamFirst, StreamType, BytesFacts
<1>5. Length(h) \in Nat /\ Length(h) >= 1
  <2>1. Length(h) = HDR + Size[h.type] /\ Size[h.type] \in Nat
    BY PacketFacts
  <2>2. HDR \in Nat /\ HDR >= 1
    BY PacketFacts
  <2>3. QED
    BY <2>1, <2>2
<1>6. Len(b) = Length(h) /\ b[1].p = h
  <2>1. Bytes(h) = [k \in 1..Length(h) |-> Byte(h, 0 + k)]
    BY DEF Bytes, BytesFrom
  <2>2. Bytes(h)[1].p = h
    BY <1>5, <2>1 DEF Byte
  <2>3. Len(Bytes(h)) = Length(h)
    BY <1>5, BytesFromFacts DEF Bytes
  <2>4. QED
    BY <1>4, <2>2, <2>3
<1>7. /\ Len(bytes) = Len(b) + Len(c) /\ Len(c) \in Nat
      /\ \A i \in 1..Len(b) : bytes[i] = b[i]
  BY <1>4, ConcatAt
<1>8. bytes[1] = b[1]
  BY <1>5, <1>6, <1>7
<1>9. QED
  BY <1>5, <1>6, <1>7, <1>8

\* What is read without being refused is of packets, not of the memory behind
\* them: this has no magic number.
LEMMA ReadsPackets ==
  ASSUME PartsInv, ~Refused, NEW real \in Seq(BytesOf(Packet)),
         NEW junk \in Seq(BytesOf(Packet)), DownParts(real, junk)
  PROVE  \E more \in Seq(BytesOf(Packet)) :
           /\ Rest(down, Len(ReadSome) - Len(cPin)) = more \o junk
           /\ ReadSome \o more = cPin \o real
<1> DEFINE left == Rest(down, Len(ReadSome) - Len(cPin))
<1>1. PICK got, q :
        /\ got \in Seq(BytesOf(Packet)) /\ q \in Seq(BytesOf(Packet))
        /\ got = ReadSome /\ q = left /\ got \o q = cPin \o down
        /\ got # <<>> => HasHeader(got) /\ Len(got) <= Length(got[1].p)
  BY ReadFacts
<1> HIDE DEF left
<1>2. cPin \in Seq(BytesOf(Packet)) /\ Unsent \in Seq(BytesOf(Packet))
  BY FlowTypes
<1>3. PICK c : c \in Seq(BytesOf(Packet)) /\ c = cPin \o real
  BY <1>2, ConcatProperties
<1>4. got \o q = c \o junk
  <2>1. /\ cPin \in Seq(BytesOf(Packet)) /\ real \in Seq(BytesOf(Packet))
        /\ junk \in Seq(BytesOf(Packet))
    BY <1>2
  <2>2. (cPin \o real) \o junk = cPin \o (real \o junk)
    BY ONLY <2>1, Regroup
  <2>3. QED
    BY <1>1, <1>3, <2>2 DEF DownParts
<1>5. CASE junk = <<>>
  <2>1. c \o junk = c /\ q \o junk = q
    BY <1>1, <1>3, <1>5, ConcatEmptySeq
  <2>2. QED
    BY <1>1, <1>3, <1>4, <2>1 DEF left
<1>6. CASE junk # <<>>
  <2>1. Unsent = <<>>
    BY <1>6, SendStart DEF DownParts
  <2>2. Carried(queued, arrived, c, O)
    <3>1. c \o <<>> = c
      BY <1>3, ConcatEmptySeq
    <3>2. QED
      BY <1>3, <2>1, <3>1 DEF DownParts
  <2>3. Len(got) \in Nat /\ Len(c) \in Nat /\ Len(got) <= Len(c)
    <3>1. Len(got) \in Nat /\ Len(c) \in Nat
      BY <1>1, <1>3, LenProperties
    <3>2. CASE got = <<>>
      BY <1>1, <3>1, <3>2, EmptySeq
    <3>3. CASE got # <<>>
      <4>1. HasHeader(got) /\ InSync(got) /\ got[1].p \in Packet
        BY <1>1, <3>3, FirstByte DEF Refused, BadHeader
      <4>2. 1 \in 1..HDR /\ Len(got) >= 1 /\ Length(got[1].p) >= 1
        <5>1. HDR \in Nat /\ HDR >= 1 /\ Len(got) >= HDR
          BY <4>1, PacketFacts DEF HasHeader
        <5>2. /\ Length(got[1].p) = HDR + Size[got[1].p.type]
              /\ Size[got[1].p.type] \in Nat
          BY <4>1, PacketFacts
        <5>3. QED
          BY <3>1, <5>1, <5>2
      <4>3. got[1].k = 1
        <5>1. got[1] = Byte(got[1].p, 1)
          BY <4>1, <4>2 DEF InSync
        <5>2. Byte(got[1].p, 1).k = 1
          BY <4>2 DEF Byte
        <5>3. QED
          BY <5>1, <5>2
      <4>4. (got \o q)[1] = got[1]
        BY <3>1, <4>2, ConcatAt
      <4>5. c # <<>>
        <5>1. SUFFICES ASSUME c = <<>> PROVE FALSE
          OBVIOUS
        <5>2. c \o junk = junk
          BY <5>1, ConcatEmptySeq
        <5>3. 1 \in 1..Len(junk)
          BY <1>6, LenProperties, EmptySeq
        <5>4. junk[1].k = 0
          BY <5>3 DEF DownParts, Memory
        <5>5. QED
          BY <1>4, <4>3, <4>4, <5>2, <5>4
      <4>6. (c \o junk)[1] = c[1]
        <5>1. 1 \in 1..Len(c)
          BY <3>1, <4>5, EmptySeq
        <5>2. QED
          BY <5>1, ConcatAt
      <4>7. Length(c[1].p) <= Len(c) /\ c[1] = got[1]
        BY <1>3, <1>4, <2>2, <4>4, <4>5, <4>6, CarriedFirst
      <4>8. Length(got[1].p) \in Nat
        BY <4>1, PacketFacts
      <4>9. QED
        BY <1>1, <3>1, <3>3, <4>7, <4>8
    <3>4. QED
      BY <3>2, <3>3
  <2>4. PICK a, more :
          /\ a \in Seq(BytesOf(Packet)) /\ more \in Seq(BytesOf(Packet))
          /\ a \o more = c /\ Len(a) = Len(got)
    <3>1. PICK n : n \in Nat /\ n \in Int /\ n = Len(got) /\ n <= Len(c)
      BY <2>3
    <3>2. c \in Seq(BytesOf(Packet)) /\ Len(c) \in Nat
      BY <1>3, <2>3
    <3>3. /\ Taken(c, n) \in Seq(BytesOf(Packet))
          /\ Len(Taken(c, n)) = Least(n, Len(c))
      BY ONLY <3>1, <3>2, TakenPart
    <3>4. Least(n, Len(c)) = n
      BY <3>1, <3>2 DEF Least
    <3>5. Rest(c, n) \in Seq(BytesOf(Packet))
      BY ONLY <3>1, <3>2, RestFacts
    <3>6. Taken(c, n) \o Rest(c, Len(Taken(c, n))) = c
      BY ONLY <3>1, <3>2, TakeThenRest
    <3>7. QED
      BY <3>1, <3>3, <3>4, <3>5, <3>6
  <2>5. PICK r : r \in Seq(BytesOf(Packet)) /\ r = more \o junk
    BY <2>4, ConcatProperties
  <2>6. got \o q = a \o r
    <3>1. /\ a \in Seq(BytesOf(Packet)) /\ more \in Seq(BytesOf(Packet))
          /\ junk \in Seq(BytesOf(Packet))
      BY <2>4
    <3>2. (a \o more) \o junk = a \o (more \o junk)
      BY ONLY <3>1, Regroup
    <3>3. QED
      BY <1>4, <2>4, <2>5, <3>2
  <2>7. got = a /\ q = r
    BY <1>1, <2>4, <2>5, <2>6, SplitUnique
  <2>8. QED
    BY <1>1, <1>3, <2>4, <2>5, <2>7 DEF left
<1>7. QED
  BY <1>5, <1>6

\* What is read is the first packet under way once it is whole.
LEMMA ReadFlow ==
  ASSUME PartsInv, UpFlow, DownFlow, readSocket PROVE UpFlow' /\ DownFlow'
<1>1. Unsent' = Unsent /\ Overrun' = Overrun
  BY DEF readSocket, server, Unsent, Overrun
<1>2. CASE ReadRefused
  BY <1>2 DEF ReadRefused, connectionDropped, Linked, UpFlow, DownFlow
<1>3. CASE ReadPart \/ ReadWhole
  <2>1. /\ conn' = conn /\ down' = Rest(down, Len(ReadSome) - Len(cPin))
        /\ ~Refused
        /\ UNCHANGED <<sent, handled, R, Pin, up, cPout, cO, queued, O>>
    BY <1>3 DEF readSocket, ReadPart, ReadWhole, ReadFrame, server
  <2>2. UpFlow'
    BY <2>1, UpKept DEF Linked
  <2>3. SUFFICES ASSUME Linked
                 PROVE  \E more, junk \in Seq(BytesOf(Packet)) :
                          DownParts(more, junk)'
    BY <2>1, <2>2 DEF DownFlow, Linked
  <2>4. PICK real \in Seq(BytesOf(Packet)), junk \in Seq(BytesOf(Packet)) :
          DownParts(real, junk)
    BY <2>3 DEF DownFlow
  <2>5. PICK more \in Seq(BytesOf(Packet)) :
          /\ down' = more \o junk
          /\ ReadSome \o more = cPin \o real
    BY <2>1, <2>4, ReadsPackets
  <2>6. Carried(queued, arrived, (ReadSome \o more) \o Unsent, O)
    BY <2>4, <2>5 DEF DownParts
  <2>7. Carried(queued, arrived', (cPin' \o more) \o Unsent, O)
    <3>1. CASE ReadPart
      BY <2>6, <3>1 DEF ReadPart
    <3>2. CASE ReadWhole
      <4>1. PICK got \in Seq(BytesOf(Packet)), rest \in Seq(BytesOf(Packet)) :
              got = ReadSome /\ rest = more \o Unsent
        BY ReadFacts, FlowTypes, ConcatProperties
      <4>2. (ReadSome \o more) \o Unsent = got \o rest
        <5>1. Unsent \in Seq(BytesOf(Packet))
          BY FlowTypes
        <5>2. (got \o more) \o Unsent = got \o (more \o Unsent)
          BY <5>1, Regroup
        <5>3. QED
          BY <4>1, <5>2
      <4>3. /\ arrived \in Seq(Packet) /\ O \in Seq(Packet)
            /\ Carried(queued, arrived, got \o rest, O) /\ Whole(got)
        BY <2>6, <3>2, <4>1, <4>2, FlowTypes DEF ReadWhole
      <4>4. Carried(queued, Append(arrived, got[1].p), rest, O)
        BY <4>3, CarriedReceive
      <4>5. cPin' = <<>> /\ arrived' = Append(arrived, got[1].p)
        BY <3>2, <4>1 DEF ReadWhole
      <4>6. (<<>> \o more) \o Unsent = rest
        BY <4>1, ConcatEmptySeq
      <4>7. QED
        BY <4>4, <4>5, <4>6
    <3>3. QED
      BY <1>3, <3>1, <3>2
  <2>8. DownParts(more, junk)'
    BY <1>1, <2>1, <2>4, <2>5, <2>7 DEF DownParts
  <2>9. QED
    BY <2>8
<1>4. QED
  BY <1>2, <1>3 DEF readSocket

LEMMA ReceiveHeaderFlow ==
  ASSUME PartsInv, UpFlow, ReceiveHeader PROVE UpFlow'
<1>1. Pin' \o up' = Pin \o up
  BY HeaderFacts DEF ReceiveHeader
<1>2. UNCHANGED <<conn, sent, handled, R, cPout, cO>>
  BY DEF ReceiveHeader, Frame, client
<1>3. QED
  BY <1>1, <1>2 DEF UpFlow, Linked

LEMMA ReceiveDataFlow ==
  ASSUME PartsInv, UpFlow, ReceiveData PROVE UpFlow'
<1> DEFINE left == Rest(up, Len(GotData) - Len(Pin))
<1>1. /\ GotData \in Seq(BytesOf(Packet)) /\ left \in Seq(BytesOf(Packet))
      /\ GotData \o left = Pin \o up
  BY DataFacts, PacketBytes
<1>2. up' = left /\ UNCHANGED <<conn, sent, handled, cPout, cO>>
  BY DEF ReceiveData, Frame, client
<1>3. SUFFICES ASSUME Linked
               PROVE  Carried(sent, handled \o R', (Pin' \o left) \o cPout, cO)
  BY <1>2 DEF UpFlow, Linked
<1>4. Carried(sent, handled \o R, (GotData \o left) \o cPout, cO)
  BY <1>1, <1>3 DEF UpFlow
<1>5. CASE Whole(GotData)
  <2>1. PICK got \in Seq(BytesOf(Packet)), more \in Seq(BytesOf(Packet)) :
          got = GotData /\ more = left \o cPout
    BY <1>1, FlowTypes, ConcatProperties
  <2>2. (GotData \o left) \o cPout = got \o more
    <3>1. /\ GotData \in Seq(BytesOf(Packet)) /\ left \in Seq(BytesOf(Packet))
          /\ cPout \in Seq(BytesOf(Packet))
      BY <1>1, FlowTypes
    <3> HIDE DEF left
    <3>2. (GotData \o left) \o cPout = GotData \o (left \o cPout)
      BY <3>1, Regroup
    <3>3. QED
      BY <2>1, <3>2
  <2>3. /\ handled \o R \in Seq(Packet) /\ cO \in Seq(Packet)
        /\ Carried(sent, handled \o R, got \o more, cO) /\ Whole(got)
    BY <1>4, <1>5, <2>1, <2>2, FlowTypes
  <2>4. /\ got[1].p \in Packet
        /\ Carried(sent, Append(handled \o R, got[1].p), more, cO)
    BY <2>3, CarriedReceive
  <2>5. Pin' = <<>> /\ R' = Append(R, got[1].p)
    BY <1>5, <2>1 DEF ReceiveData
  <2>6. (<<>> \o left) \o cPout = more
    BY <1>1, <2>1, ConcatEmptySeq
  <2>7. handled \o R' = Append(handled \o R, got[1].p)
    <3>1. PICK p \in Packet : p = got[1].p
      BY <2>4
    <3>2. PICK u \in Seq(Packet) : u = <<p>>
      <4>1. <<p>> \in Seq(Packet)
        OBVIOUS
      <4>2. QED
        BY <4>1
    <3>3. /\ Append(R, p) = R \o u
          /\ Append(handled \o R, p) = (handled \o R) \o u
      BY <3>2, FlowTypes, AppendIsConcat
    <3>4. (handled \o R) \o u = handled \o (R \o u)
      <4>1. handled \in Seq(Packet) /\ R \in Seq(Packet)
        BY FlowTypes
      <4>2. QED
        BY <4>1, ConcatAssociative
    <3>5. QED
      BY <2>5, <3>1, <3>3, <3>4
  <2>8. QED
    BY <2>4, <2>5, <2>6, <2>7
<1>6. CASE ~Whole(GotData)
  BY <1>4, <1>6 DEF ReceiveData
<1>7. QED
  BY <1>5, <1>6

\* Sending keeps the packets' bytes together, and memory behind them.
LEMMA SendFlow ==
  ASSUME PartsInv, DownFlow, SendHeader \/ SendData
  PROVE  DownFlow'
<1>1. UNCHANGED <<conn, queued, arrived, cPin>>
  BY DEF SendHeader, SendData, Frame, client
<1>2. /\ cPin \in Seq(BytesOf(Packet)) /\ Unsent \in Seq(BytesOf(Packet))
      /\ O \in Seq(Packet) /\ arrived \in Seq(Packet)
  BY FlowTypes
<1>3. PICK a, j, u :
        /\ a \in Seq(BytesOf(Packet)) /\ j \in Seq(BytesOf(Packet))
        /\ u \in Seq(BytesOf(Packet))
        /\ Sends(a, j) /\ u = Unsent'
        /\ \/ /\ O # <<>> /\ O' = Tail(O) /\ Unsent = <<>> /\ ~Overrun
              /\ a \o u = Bytes(Head(O))
           \/ O' = O /\ a \o u = Unsent
  <2>1. CASE SendHeader
    <3>1. <<>> \in Seq(BytesOf(Packet))
      OBVIOUS
    <3>2. QED
      BY <2>1, <3>1, HeaderSent
  <2>2. CASE SendData
    <3>1. O' = O
      BY <2>2 DEF SendData
    <3>2. QED
      BY <2>2, <3>1, DataSent
  <2>3. QED
    BY <2>1, <2>2
<1>4. SUFFICES ASSUME Linked
               PROVE  \E real, junk \in Seq(BytesOf(Packet)) :
                        DownParts(real, junk)'
  BY <1>1 DEF DownFlow, Linked
<1>5. PICK real, junk :
        /\ real \in Seq(BytesOf(Packet)) /\ junk \in Seq(BytesOf(Packet))
        /\ DownParts(real, junk)
  BY <1>4 DEF DownFlow
<1>6. PICK r, m :
        /\ r \in Seq(BytesOf(Packet)) /\ m \in Seq(BytesOf(Packet))
        /\ r = real \o a /\ m = junk \o j
  BY <1>3, <1>5, ConcatProperties
<1>7. down' = r \o m /\ Memory(m) /\ (m # <<>> => Overrun')
  <2>1. down' = ((real \o junk) \o a) \o j
    BY <1>3, <1>5 DEF Sends, DownParts
  <2>2. CASE Overrun
    <3>1. a = <<>> /\ Overrun'
      BY <1>3, <2>2 DEF Sends
    <3>2. PICK d : d \in Seq(BytesOf(Packet)) /\ d = real \o junk
      BY <1>5, ConcatProperties
    <3>3. d \o a = d /\ real \o a = real
      BY <1>5, <3>1, <3>2, ConcatEmptySeq
    <3>4. (real \o junk) \o j = real \o (junk \o j)
      <4>1. /\ real \in Seq(BytesOf(Packet)) /\ junk \in Seq(BytesOf(Packet))
            /\ j \in Seq(BytesOf(Packet))
        BY <1>3, <1>5
      <4>2. QED
        BY ONLY <4>1, Regroup
    <3>5. Memory(m)
      <4>1. /\ Len(m) = Len(junk) + Len(j)
            /\ Len(junk) \in Nat /\ Len(j) \in Nat
            /\ \A i \in 1..(Len(junk) + Len(j)) :
                 m[i] = IF i <= Len(junk) THEN junk[i] ELSE j[i - Len(junk)]
        BY <1>3, <1>5, <1>6, ConcatProperties, LenProperties
      <4>2. Memory(junk) /\ Memory(j)
        BY <1>3, <1>5 DEF Sends, DownParts
      <4>3. ASSUME NEW i \in 1..Len(m) PROVE m[i].k = 0
        <5>1. CASE i <= Len(junk)
          <6>1. i \in 1..Len(junk) /\ m[i] = junk[i]
            BY <4>1, <5>1
          <6>2. QED
            BY <4>2, <6>1 DEF Memory
        <5>2. CASE ~(i <= Len(junk))
          <6>1. i - Len(junk) \in 1..Len(j) /\ m[i] = j[i - Len(junk)]
            BY <4>1, <5>2
          <6>2. QED
            BY <4>2, <6>1 DEF Memory
        <5>3. QED
          BY <5>1, <5>2
      <4>4. QED
        BY <4>3 DEF Memory
    <3>6. QED
      BY <1>6, <2>1, <3>1, <3>2, <3>3, <3>4, <3>5
  <2>3. CASE ~Overrun
    <3>1. junk = <<>>
      BY <1>5, <2>3 DEF DownParts
    <3>2. real \o junk = real /\ junk \o j = j
      BY <1>3, <1>5, <3>1, ConcatEmptySeq
    <3>3. QED
      BY <1>3, <1>6, <2>1, <3>2 DEF Sends
  <2>4. QED
    BY <2>2, <2>3
<1>8. PICK b : b \in Seq(BytesOf(Packet)) /\ b = cPin \o real
  BY <1>2, <1>5, ConcatProperties
<1>9. Carried(queued, arrived, b \o Unsent, O)
  BY <1>5, <1>8 DEF DownParts
<1>10. (cPin \o r) \o u = b \o (a \o u)
  <2>1. /\ cPin \in Seq(BytesOf(Packet)) /\ real \in Seq(BytesOf(Packet))
        /\ a \in Seq(BytesOf(Packet)) /\ b \in Seq(BytesOf(Packet))
        /\ u \in Seq(BytesOf(Packet))
    BY <1>2, <1>3, <1>5, <1>8
  <2>2. cPin \o (real \o a) = (cPin \o real) \o a
    BY ONLY <2>1, Regroup
  <2>3. (b \o a) \o u = b \o (a \o u)
    BY ONLY <2>1, Regroup
  <2>4. QED
    BY <1>6, <1>8, <2>2, <2>3
<1>11. Carried(queued, arrived, b \o (a \o u), O')
  <2>1. CASE /\ O # <<>> /\ O' = Tail(O) /\ Unsent = <<>>
             /\ a \o u = Bytes(Head(O))
    <3>1. b \o Unsent = b
      BY <1>8, <2>1, ConcatEmptySeq
    <3>2. Carried(queued, arrived, b \o Bytes(Head(O)), Tail(O))
      BY <1>2, <1>8, <1>9, <2>1, <3>1, CarriedSend
    <3>3. QED
      BY <2>1, <3>2
  <2>2. CASE O' = O /\ a \o u = Unsent
    BY <1>9, <2>2
  <2>3. QED
    BY <1>3, <2>1, <2>2
<1>12. DownParts(r, m)'
  <2>1. Carried(queued', arrived', (cPin' \o r) \o Unsent', O')
    BY <1>1, <1>3, <1>10, <1>11
  <2>2. QED
    BY <1>6, <1>7, <2>1 DEF DownParts
<1>13. QED
  BY <1>6, <1>12

LEMMA QueueFlow ==
  ASSUME PartsInv, DownFlow, NEW packets \in Seq(Packet), Queue(packets),
         UNCHANGED <<conn, arrived, cPin, down, Pout, bytesOut>>
  PROVE  DownFlow'
<1>1. O' = O \o packets /\ queued' = queued \o packets
  BY DEF Queue
<1>2. Unsent' = Unsent /\ Overrun' = Overrun
  BY DEF Unsent, Overrun
<1>3. O \in Seq(Packet) /\ arrived \in Seq(Packet)
  BY FlowTypes
<1>4. ASSUME NEW real, NEW junk, DownParts(real, junk)
      PROVE  DownParts(real, junk)'
  <2>1. Carried(queued \o packets, arrived, (cPin \o real) \o Unsent,
                O \o packets)
    BY <1>3, <1>4, CarriedAdd DEF DownParts
  <2>2. QED
    BY <1>1, <1>2, <1>4, <2>1 DEF DownParts
<1>5. QED
  BY <1>4 DEF DownFlow, Linked

\* The answers to a packet: one, or none.
LEMMA HandledQueues ==
  ASSUME LinkTypes, HandlePacket
  PROVE  /\ R # <<>> /\ Head(R) \in ClientPacket
         /\ \/ \E q \in Packet :
                 /\ Queue(<<q>>) /\ q.replyAddr = Head(R).replyAddr
                 /\ q.type = "YES" => user' /\ Head(R).type = "AUTH"
            \/ Queue(<<>>) /\ ~(user /\ Head(R).type = "SSLT")
         /\ Head(R).type # "AUTH" => user' = user
<1> DEFINE p == Head(R)
<1>1. R # <<>> /\ p \in ClientPacket
  BY HeadTailProperties DEF HandlePacket, LinkTypes, ServerTypes
<1>2. p.replyAddr \in Nat /\ Len(queued) + 1 \in Nat
  BY <1>1, LenProperties DEF ClientPacket, LinkTypes, ServerTypes
<1>3. ASSUME NEW type \in Types
      PROVE  /\ Reply(type, p.replyAddr) \in Packet
             /\ Reply(type, p.replyAddr).replyAddr = p.replyAddr
             /\ Reply(type, p.replyAddr).type = type
  BY <1>2, PktFacts DEF Reply, Pkt
<1>4. CASE p.type = "AUTH"
  <2>1. PICK type \in {"YES", "NO"} :
          Queue(<<Reply(type, p.replyAddr)>>) /\ (type = "YES" => user')
    BY <1>4 DEF HandlePacket, HandleAuth
  <2>2. type \in Types
    BY DEF Types
  <2>3. QED
    BY <1>1, <1>3, <1>4, <2>1, <2>2
<1>5. CASE p.type # "AUTH"
  <2>1. Answer[p.type] \in Types /\ Answer[p.type] # "YES"
    <3>1. p.type \in DOMAIN Answer
      BY <1>1, <1>5 DEF ClientPacket
    <3>2. Answer[p.type] \in Types
      BY <3>1 DEF Types
    <3>3. \A type \in DOMAIN Answer : Answer[type] # "YES"
      <4>1. DOMAIN Answer = {"SSLT", "RCTX", "STAT"}
        BY DEF Answer
      <4>2. /\ Answer["SSLT"] = "SSLT re" /\ Answer["RCTX"] = "RCTX re"
            /\ Answer["STAT"] = "STAT re"
        BY DEF Answer
      <4>3. QED
        BY <4>1, <4>2
    <3>4. QED
      BY <3>1, <3>2, <3>3
  <2>2. /\ \/ Queue(<<Reply(Answer[p.type], p.replyAddr)>>)
           \/ Queue(<<>>) /\ ~(user /\ p.type = "SSLT")
        /\ user' = user
    BY <1>5 DEF HandlePacket, HandleRequest
  <2>3. QED
    BY <1>1, <1>3, <1>5, <2>1, <2>2
<1>6. QED
  BY <1>4, <1>5

LEMMA HandlePacketFlow ==
  ASSUME PartsInv, UpFlow, DownFlow, HandlePacket PROVE UpFlow' /\ DownFlow'
<1>1. /\ UNCHANGED <<conn, up, down, sent, arrived, cPin, cPout, cO, Pin, Pout,
                     bytesOut>>
      /\ R # <<>> /\ R' = Tail(R) /\ handled' = Append(handled, Head(R))
  BY DEF HandlePacket, link, Frame, client
<1>2. UpFlow'
  <2>1. PICK h \in Packet, t \in Seq(Packet) :
          h = Head(R) /\ t = Tail(R) /\ R = <<h>> \o t
    <3>1. R \in Seq(Packet) /\ R # <<>>
      BY <1>1, FlowTypes
    <3>2. /\ Head(R) \in Packet /\ Tail(R) \in Seq(Packet)
          /\ R = <<Head(R)>> \o Tail(R)
      BY <3>1, HeadTailProperties
    <3>3. QED
      BY <3>2
  <2>2. handled \in Seq(Packet)
    BY FlowTypes
  <2>3. Append(handled, h) \o t = handled \o (<<h>> \o t)
    BY <2>2, AppendThenRest
  <2>4. handled' \o R' = handled \o R
    BY <1>1, <2>1, <2>3
  <2>5. QED
    BY <1>1, <2>4 DEF UpFlow, Linked
<1>3. PICK packets \in Seq(Packet) : Queue(packets)
  <2>1. CASE Queue(<<>>)
    <3>1. <<>> \in Seq(Packet)
      OBVIOUS
    <3>2. QED
      BY <2>1, <3>1
  <2>2. CASE \E q \in Packet : Queue(<<q>>)
    <3>1. PICK q \in Packet : Queue(<<q>>)
      BY <2>2
    <3>2. <<q>> \in Seq(Packet)
      OBVIOUS
    <3>3. QED
      BY <3>1, <3>2
  <2>3. QED
    BY <2>1, <2>2, HandledQueues DEF PartsInv
<1>4. DownFlow'
  BY <1>1, <1>3, QueueFlow
<1>5. QED
  BY <1>2, <1>4
\* The packets of a pause are the news that are due.
LEMMA PauseQueues ==
  ASSUME LinkTypes, Pause
  PROVE  \E packets \in Seq(Packet) :
           /\ Queue(packets)
           /\ \A p \in Range(packets) : p.replyAddr = 0 /\ p.type # "YES"
<1>1. PICK due \in {<<>>, <<"UPDT">>, <<"MDUD">>, <<"UPDT", "MDUD">>} :
        Queue([k \in 1..Len(due) |-> Pkt(due[k], 0, Len(queued) + k)])
  BY DEF Pause
<1>2. Len(due) \in Nat /\ \A k \in 1..Len(due) : due[k] \in Types
  BY DEF Types, Reports
<1>3. Len(queued) \in Nat
  BY LenProperties DEF LinkTypes, ServerTypes
<1>4. \A k \in 1..Len(due) : Pkt(due[k], 0, Len(queued) + k) \in Packet
  BY <1>2, <1>3, PktFacts
<1>5. [k \in 1..Len(due) |-> Pkt(due[k], 0, Len(queued) + k)] \in Seq(Packet)
  BY <1>2, <1>4, IsASeq
<1>6. \A k \in 1..Len(due) :
        LET p == Pkt(due[k], 0, Len(queued) + k)
        IN  p.replyAddr = 0 /\ p.type # "YES"
  <2>1. \A k \in 1..Len(due) : due[k] # "YES"
    BY DEF Reports
  <2>2. QED
    BY <2>1 DEF Pkt
<1>7. QED
  BY <1>1, <1>5, <1>6 DEF Range

\* One case for each action; what is under way stays what was put in and has
\* not come out.
LEMMA FlowStep ==
  ASSUME FlowInv, [Next]_vars PROVE FlowInv'
<1>1. PartsInv'
  BY PartsStep DEF FlowInv
<1>2. CASE attemptConnection
  BY <1>1, <1>2, ConnectFlow DEF FlowInv
<1>3. CASE Drop
  BY <1>1, <1>3 DEF Drop, connectionDropped, FlowInv, UpFlow, DownFlow, Linked
<1>4. CASE writeOperation \/ writeSocket
           \/ \E type \in Requests : addPacketToQueue(type)
  <2>1. UpFlow'
    BY <1>4, WriteFlow, WriteSocketFlow, AddFlow DEF FlowInv
  <2>2. /\ conn' = conn
        /\ UNCHANGED <<queued, arrived, cPin, down, Pout, bytesOut, O>>
    BY <1>4 DEF writeOperation, writeSocket, addPacketToQueue, server, history,
                link
  <2>3. DownFlow'
    BY <2>2, DownKept DEF FlowInv, Linked
  <2>4. QED
    BY <1>1, <2>1, <2>3 DEF FlowInv
<1>5. CASE readSocket
  BY <1>1, <1>5, ReadFlow DEF FlowInv
<1>6. CASE handleReceivingQueue \/ SecondUpdate \/ Accept \/ UNCHANGED vars
  <2>1. /\ Linked' => Linked
        /\ UNCHANGED <<sent, handled, R, Pin, up, cPout, cO>>
        /\ UNCHANGED <<queued, arrived, cPin, down, Pout, bytesOut, O>>
    BY <1>6 DEF handleReceivingQueue, SecondUpdate, Accept, Linked, link,
                client, server, history, vars
  <2>2. QED
    BY <1>1, <2>1, UpKept, DownKept DEF FlowInv
<1>7. CASE ReceiveHeader \/ ReceiveData
  <2>1. UpFlow'
    BY <1>7, ReceiveHeaderFlow, ReceiveDataFlow DEF FlowInv
  <2>2. /\ conn' = conn
        /\ UNCHANGED <<queued, arrived, cPin, down, Pout, bytesOut, O>>
    BY <1>7 DEF ReceiveHeader, ReceiveData, Frame, client, Outgoing
  <2>3. DownFlow'
    BY <2>2, DownKept DEF FlowInv, Linked
  <2>4. QED
    BY <1>1, <2>1, <2>3 DEF FlowInv
<1>8. CASE SendHeader \/ SendData
  <2>1. DownFlow'
    BY <1>8, SendFlow DEF FlowInv
  <2>2. /\ conn' = conn
        /\ UNCHANGED <<sent, handled, R, Pin, up, cPout, cO>>
    BY <1>8 DEF SendHeader, SendData, Frame, client
  <2>3. UpFlow'
    BY <2>2, UpKept DEF FlowInv, Linked
  <2>4. QED
    BY <1>1, <2>1, <2>3 DEF FlowInv
<1>9. CASE DeleteClient
  BY <1>1, <1>9 DEF DeleteClient, FlowInv, UpFlow, DownFlow, Linked
<1>10. CASE HandlePacket
  BY <1>1, <1>10, HandlePacketFlow DEF FlowInv
<1>11. CASE Pause
  <2>1. /\ UNCHANGED <<sent, handled, R, Pin, up, cPout, cO>>
        /\ UNCHANGED <<conn, arrived, cPin, down, Pout, bytesOut>>
    BY <1>11 DEF Pause, link, Frame, client
  <2>2. UpFlow'
    BY <2>1, UpKept DEF FlowInv, Linked
  <2>3. DownFlow'
    BY <1>11, <2>1, PauseQueues, QueueFlow DEF FlowInv, PartsInv
  <2>4. QED
    BY <1>1, <2>2, <2>3 DEF FlowInv
<1>12. QED
  BY <1>2, <1>3, <1>4, <1>5, <1>6, <1>7, <1>8, <1>9, <1>10, <1>11
     DEF Next, ClientThread, NetworkThread, Update

LEMMA FlowInit == Init => FlowInv
BY PartsInit DEF Init, FlowInv, UpFlow, DownFlow, Linked

LEMMA FlowAlways == Spec => []FlowInv
<1>1. FlowInv /\ [Next]_vars => FlowInv'
  BY FlowStep
<1>2. QED
  BY FlowInit, <1>1, PTL DEF Spec
\* Every variable keeps its type, for every capacity of the sockets and every
\* length of the packets; so neither side ever holds more of a packet than
\* its header promises, and no socket more than it takes.
THEOREM LinkTypesKept == Spec => []TypeOK
<1>1. PartsInv => TypeOK
  <2>1. ASSUME PartsInv PROVE TypeOK
    <3>1. /\ cO \in Seq(Packet) /\ R \in Seq(Packet) /\ O \in Seq(Packet)
          /\ sent \in Seq(Packet) /\ handled \in Seq(Packet)
          /\ queued \in Seq(Packet) /\ arrived \in Seq(Packet)
      BY <2>1, FlowTypes
    <3>2. /\ cR \in Seq(Packet) /\ Len(up) <= Cap
          /\ \A q \in {Pin, cPin} : HasHeader(q) => Len(q) <= Length(q[1].p)
      BY <2>1, PacketFacts DEF PartsInv, Histories, Pieces, HasHeader
    <3>3. Len(Pout) <= 1
      <4>1. Pout = <<>> \/ \E p \in Packet : Pout = <<p>>
        BY <2>1 DEF PartsInv, LinkTypes, SendTypes
      <4>2. CASE Pout = <<>>
        BY <4>2
      <4>3. ASSUME NEW p \in Packet, Pout = <<p>> PROVE Len(Pout) <= 1
        BY <4>3
      <4>4. QED
        BY <4>1, <4>2, <4>3
    <3>4. QED
      BY <2>1, <3>1, <3>2, <3>3
         DEF TypeOK, PartsInv, LinkState, LinkTypes, SendTypes
  <2>2. QED
    BY <2>1
<1>2. FlowInv => PartsInv
  BY DEF FlowInv
<1>3. QED
  BY FlowAlways, <1>1, <1>2, PTL

\* ClientCommunicator::update never loses its place in what the client
\* writes: for any sizes, capacity and cuts the sockets make, the packets
\* received, the bytes under way and the packets waiting are those queued.
THEOREM WholePacketsUp == Spec => []WholeUp
<1>1. FlowInv => WholeUp
  <2>1. ASSUME FlowInv, conn = "open"
        PROVE  Carries(sent, handled \o R, Pin \o up \o cPout, cO)
    <3>1. /\ Carried(sent, handled \o R, (Pin \o up) \o cPout, cO)
          /\ handled \o R \in Seq(Packet) /\ cO \in Seq(Packet)
      BY <2>1, FlowTypes DEF FlowInv, UpFlow, Linked
    <3>2. QED
      BY <3>1, CarriedIsCarries
  <2>2. QED
    BY <2>1 DEF WholeUp
<1>2. QED
  BY FlowAlways, <1>1, PTL

\* The server resumes an interrupted send where it stopped, in the header,
\* right after it or in the data: what the client has read, is about to read
\* and will be sent is what the server queued, once and in order, for any
\* sizes and capacity, until a send runs past the end of its packet.
THEOREM WholePacketsDown == Spec => []WholeDown
<1>1. FlowInv => WholeDown
  <2>1. ASSUME FlowInv, conn = "open", ~Overrun
        PROVE  Carries(queued, arrived, cPin \o down \o Unsent, O)
    <3>1. PICK real \in Seq(BytesOf(Packet)), junk \in Seq(BytesOf(Packet)) :
            DownParts(real, junk)
      BY <2>1 DEF FlowInv, DownFlow, Linked
    <3>2. down = real
      BY <2>1, <3>1, ConcatEmptySeq DEF DownParts
    <3>3. /\ Carried(queued, arrived, (cPin \o down) \o Unsent, O)
          /\ arrived \in Seq(Packet) /\ O \in Seq(Packet)
      BY <2>1, <3>1, <3>2, FlowTypes DEF FlowInv, DownParts
    <3>4. QED
      BY <3>3, CarriedIsCarries
  <2>2. QED
    BY <2>1 DEF WholeDown
<1>2. QED
  BY FlowAlways, <1>1, PTL
-----------------------------------------------------------------------------
(* How many packets have an address.                                       *)

At(s, r) == {k \in DOMAIN s : s[k].replyAddr = r}

LEMMA AddressedType ==
  ASSUME NEW s \in Seq(Packet), NEW r
  PROVE  /\ IsFiniteSet(At(s, r)) /\ Addressed(s, r) = Cardinality(At(s, r))
         /\ Addressed(s, r) \in Nat
<1>1. Len(s) \in Nat /\ DOMAIN s = 1..Len(s)
  BY LenProperties
<1>2. IsFiniteSet(1..Len(s))
  BY <1>1, FS_Interval
<1>3. At(s, r) \in SUBSET (1..Len(s))
  BY <1>1 DEF At
<1>4. IsFiniteSet(At(s, r))
  BY <1>2, <1>3, FS_Subset
<1>5. Addressed(s, r) = Cardinality(At(s, r))
  BY DEF Addressed, At
<1>6. QED
  BY <1>4, <1>5, FS_CardinalityType

LEMMA AddressedNone == \A r : Addressed(<<>>, r) = 0
<1>1. \A r : At(<<>>, r) = {}
  BY DEF At
<1>2. QED
  BY <1>1, FS_EmptySet DEF Addressed, At

\* One of them has it if and only if they are not none.
LEMMA AddressedSome ==
  ASSUME NEW s \in Seq(Packet), NEW r
  PROVE  Addressed(s, r) > 0 <=> \E p \in Range(s) : p.replyAddr = r
<1>1. Addressed(s, r) = 0 <=> At(s, r) = {}
  BY AddressedType, FS_EmptySet
<1>2. At(s, r) # {} <=> \E p \in Range(s) : p.replyAddr = r
  BY DEF At, Range
<1>3. QED
  BY <1>1, <1>2, AddressedType

\* The addresses of a concatenation are those of its parts.
LEMMA AddressedConcat ==
  ASSUME NEW s \in Seq(Packet), NEW t \in Seq(Packet), NEW r
  PROVE  Addressed(s \o t, r) = Addressed(s, r) + Addressed(t, r)
<1>1. /\ Len(s) \in Nat /\ Len(t) \in Nat
      /\ DOMAIN s = 1..Len(s) /\ DOMAIN t = 1..Len(t)
  BY LenProperties
<1>2. /\ s \o t \in Seq(Packet) /\ Len(s \o t) = Len(s) + Len(t)
      /\ DOMAIN (s \o t) = 1..(Len(s) + Len(t))
  BY ConcatProperties, LenProperties
<1>3. \A i \in 1..(Len(s) + Len(t)) :
        (s \o t)[i] = IF i <= Len(s) THEN s[i] ELSE t[i - Len(s)]
  BY ConcatProperties
<1> DEFINE later == {k \in (Len(s) + 1)..(Len(s) + Len(t)) :
                       t[k - Len(s)].replyAddr = r}
           f == [k \in At(t, r) |-> Len(s) + k]
<1>4. At(s \o t, r) = At(s, r) \cup later
  <2>1. ASSUME NEW k \in 1..(Len(s) + Len(t))
        PROVE  k \in At(s \o t, r) <=> k \in At(s, r) \cup later
    <3>1. k \in At(s \o t, r) <=> (s \o t)[k].replyAddr = r
      BY <1>2, <2>1 DEF At
    <3>2. CASE k <= Len(s)
      <4>1. (s \o t)[k] = s[k] /\ k \in 1..Len(s) /\ k \notin later
        BY <1>1, <1>3, <2>1, <3>2
      <4>2. QED
        BY <1>1, <3>1, <4>1 DEF At
    <3>3. CASE k > Len(s)
      <4>1. (s \o t)[k] = t[k - Len(s)] /\ k \notin 1..Len(s)
        BY <1>1, <1>3, <2>1, <3>3
      <4>2. k \in (Len(s) + 1)..(Len(s) + Len(t))
        BY <1>1, <2>1, <3>3
      <4>3. QED
        BY <1>1, <3>1, <4>1, <4>2 DEF At
    <3>4. QED
      BY <1>1, <2>1, <3>2, <3>3
  <2>2. At(s \o t, r) \subseteq 1..(Len(s) + Len(t))
    BY <1>2 DEF At
  <2>3. At(s, r) \cup later \subseteq 1..(Len(s) + Len(t))
    BY <1>1 DEF At
  <2>4. QED
    BY <2>1, <2>2, <2>3
<1>5. At(s, r) \cap later = {}
  BY <1>1 DEF At
<1>6. f \in Bijection(At(t, r), later)
  <2>1. f \in [At(t, r) -> later]
    BY <1>1 DEF At
  <2>2. \A k, m \in At(t, r) : f[k] = f[m] => k = m
    BY <1>1 DEF At
  <2>3. \A m \in later : \E k \in At(t, r) : f[k] = m
    <3>1. ASSUME NEW m \in later PROVE \E k \in At(t, r) : f[k] = m
      <4>1. m - Len(s) \in At(t, r)
        BY <1>1 DEF At
      <4>2. f[m - Len(s)] = m
        BY <1>1, <4>1
      <4>3. QED
        BY <4>1, <4>2
    <3>2. QED
      BY <3>1
  <2> HIDE DEF f, later
  <2>4. QED
    BY <2>1, <2>2, <2>3
       DEF Bijection, Injection, Surjection, IsInjective
<1> HIDE DEF f, later
<1>7. IsFiniteSet(later) /\ Cardinality(later) = Addressed(t, r)
  BY <1>6, AddressedType, FS_Bijection DEF ExistsBijection
<1>8. /\ IsFiniteSet(At(s, r)) /\ Addressed(s, r) = Cardinality(At(s, r))
      /\ Addressed(s \o t, r) = Cardinality(At(s \o t, r))
      /\ Addressed(s, r) \in Nat /\ Addressed(t, r) \in Nat
  BY <1>2, AddressedType
<1>9. Cardinality(At(s, r) \cup later)
        = Cardinality(At(s, r)) + Cardinality(later)
            - Cardinality(At(s, r) \cap later)
  BY <1>7, <1>8, FS_Union
<1>10. Cardinality(At(s, r) \cap later) = 0
  BY <1>5, FS_EmptySet
<1>11. QED
  BY <1>4, <1>7, <1>8, <1>9, <1>10

LEMMA AddressedOne ==
  ASSUME NEW p \in Packet, NEW r
  PROVE  /\ <<p>> \in Seq(Packet)
         /\ Addressed(<<p>>, r) = IF p.replyAddr = r THEN 1 ELSE 0
<1>1. At(<<p>>, r) = IF p.replyAddr = r THEN {1} ELSE {}
  BY DEF At
<1>2. Addressed(<<p>>, r) = Cardinality(At(<<p>>, r))
  BY DEF Addressed, At
<1>3. CASE p.replyAddr = r
  BY <1>1, <1>2, <1>3, FS_Singleton
<1>4. CASE p.replyAddr # r
  BY <1>1, <1>2, <1>4, FS_EmptySet
<1>5. QED
  BY <1>3, <1>4

LEMMA AddressedAppend ==
  ASSUME NEW s \in Seq(Packet), NEW p \in Packet, NEW r
  PROVE  Addressed(Append(s, p), r)
           = Addressed(s, r) + (IF p.replyAddr = r THEN 1 ELSE 0)
<1>1. PICK u \in Seq(Packet) : u = <<p>>
  BY AddressedOne
<1>2. Append(s, p) = s \o u
  BY <1>1, AppendIsConcat
<1>3. Addressed(u, r) = IF p.replyAddr = r THEN 1 ELSE 0
  BY <1>1, AddressedOne
<1>4. Addressed(s \o u, r) = Addressed(s, r) + Addressed(u, r)
  BY AddressedConcat
<1>5. QED
  BY <1>2, <1>3, <1>4
-----------------------------------------------------------------------------
(* The packets of a client: an address from 2 on is that of one packet,    *)
(* the one made with it, and the addresses to come are those of none.      *)

Own(s, next) ==
  /\ \A p \in Range(s) : p.type = "SSLT" => p.replyAddr >= 2
  /\ \A p, q \in Range(s) :
       p.replyAddr = q.replyAddr /\ p.replyAddr >= 2 => p = q
  /\ \A r \in Nat : r >= 2 => /\ Addressed(s, r) <= 1
                              /\ r >= next => Addressed(s, r) = 0

LEMMA RangeFacts ==
  /\ Range(<<>>) = {}
  /\ \A s \in Seq(Packet) : Range(s) \subseteq Packet
  /\ \A p \in Packet : <<p>> \in Seq(Packet) /\ Range(<<p>>) = {p}
  /\ \A s, t \in Seq(Packet) : Range(s \o t) = Range(s) \cup Range(t)
<1>1. Range(<<>>) = {}
  BY DEF Range
<1>2. \A s \in Seq(Packet) : Range(s) \subseteq Packet
  BY RangeOfSeq
<1>3. ASSUME NEW p \in Packet
      PROVE  <<p>> \in Seq(Packet) /\ Range(<<p>>) = {p}
  BY DEF Range
<1>4. \A s, t \in Seq(Packet) : Range(s \o t) = Range(s) \cup Range(t)
  BY RangeConcatenation
<1>5. QED
  BY <1>1, <1>2, <1>3, <1>4

LEMMA OwnNone == ASSUME NEW next PROVE Own(<<>>, next)
BY RangeFacts, AddressedNone DEF Own

\* A part is no less its own.
LEMMA OwnPart ==
  ASSUME NEW s \in Seq(Packet), NEW t \in Seq(Packet), NEW next \in Nat,
         Own(s \o t, next)
  PROVE  Own(t, next)
<1>1. Range(t) \subseteq Range(s \o t)
  BY RangeFacts
<1>2. ASSUME NEW r \in Nat, r >= 2
      PROVE  /\ Addressed(t, r) <= 1
             /\ r >= next => Addressed(t, r) = 0
  <2>1. /\ Addressed(s \o t, r) = Addressed(s, r) + Addressed(t, r)
        /\ Addressed(s, r) \in Nat /\ Addressed(t, r) \in Nat
    BY AddressedConcat, AddressedType
  <2>2. /\ Addressed(s \o t, r) <= 1
        /\ r >= next => Addressed(s \o t, r) = 0
    BY <1>2 DEF Own
  <2>3. QED
    BY <2>1, <2>2
<1>3. QED
  BY <1>1, <1>2 DEF Own

\* AUTH is put in front, with the address 1.
LEMMA OwnFirst ==
  ASSUME NEW s \in Seq(Packet), NEW next \in Nat, Own(s, next)
  PROVE  Own(<<Auth>> \o s, next)
<1>1. PICK a \in Packet : a = Auth
  BY PktFacts, PacketFacts DEF Auth
<1>2. a.replyAddr = 1 /\ a.type = "AUTH"
  BY <1>1, PktFacts DEF Auth, Pkt
<1>3. PICK u \in Seq(Packet) : u = <<a>>
  BY RangeFacts
<1>4. Range(u \o s) = {a} \cup Range(s)
  BY <1>3, RangeFacts
<1>5. ASSUME NEW r \in Nat, r >= 2 PROVE Addressed(u \o s, r) = Addressed(s, r)
  <2>1. Addressed(u, r) = 0
    BY <1>2, <1>3, <1>5, AddressedOne
  <2>2. QED
    BY <2>1, AddressedConcat, AddressedType
<1>6. Own(u \o s, next)
  BY <1>2, <1>4, <1>5 DEF Own
<1>7. QED
  BY <1>1, <1>3, <1>6

\* A new packet has the next address, or none.
LEMMA OwnAppend ==
  ASSUME NEW s \in Seq(Packet), NEW p \in Packet,
         NEW next \in Nat, NEW after \in Nat, next >= 2, Own(s, next),
         \/ p.replyAddr = next /\ after = next + 1
         \/ p.replyAddr = 0 /\ p.type # "SSLT" /\ after = next
  PROVE  Own(Append(s, p), after)
<1>1. PICK u \in Seq(Packet) : u = <<p>>
  BY RangeFacts
<1>2. Append(s, p) = s \o u
  BY <1>1, AppendIsConcat
<1>3. Range(s \o u) = Range(s) \cup {p}
  BY <1>1, RangeFacts
<1>4. ASSUME NEW q \in Range(s), q.replyAddr = p.replyAddr, q.replyAddr >= 2
      PROVE  FALSE
  <2>1. p.replyAddr = next
    BY <1>4
  <2>2. Addressed(s, next) = 0
    BY DEF Own
  <2>3. Addressed(s, next) > 0
    BY <1>4, <2>1, AddressedSome
  <2>4. QED
    BY <2>2, <2>3
<1>5. ASSUME NEW r \in Nat, r >= 2
      PROVE  /\ Addressed(s \o u, r) <= 1
             /\ r >= after => Addressed(s \o u, r) = 0
  <2>1. /\ Addressed(s \o u, r)
             = Addressed(s, r) + (IF p.replyAddr = r THEN 1 ELSE 0)
        /\ Addressed(s, r) \in Nat
    <3>1. Addressed(Append(s, p), r)
            = Addressed(s, r) + (IF p.replyAddr = r THEN 1 ELSE 0)
      BY AddressedAppend
    <3>2. Addressed(s, r) \in Nat
      BY AddressedType
    <3>3. QED
      BY <1>2, <3>1, <3>2
  <2>2. /\ Addressed(s, r) <= 1
        /\ r >= next => Addressed(s, r) = 0
    BY <1>5 DEF Own
  <2>3. QED
    BY <1>5, <2>1, <2>2
<1>6. \A q \in Range(s \o u) : q.type = "SSLT" => q.replyAddr >= 2
  BY <1>3 DEF Own
<1>7. \A q, w \in Range(s \o u) :
        q.replyAddr = w.replyAddr /\ q.replyAddr >= 2 => q = w
  BY <1>3, <1>4 DEF Own
<1>8. QED
  BY <1>2, <1>5, <1>6, <1>7 DEF Own
FreshInv ==
  /\ repCounter \in Nat /\ repCounter >= 2
  /\ Own(sent, repCounter) /\ Own(cO, repCounter)
  /\ \A p \in Range(cO) : p.type # "AUTH"

LEMMA FreshInit == Init => FreshInv
BY OwnNone, RangeFacts DEF Init, FreshInv

LEMMA HeadAndRest ==
  ASSUME NEW S, NEW s \in Seq(S), s # <<>>
  PROVE  /\ Head(s) \in S /\ Tail(s) \in Seq(S) /\ <<Head(s)>> \in Seq(S)
         /\ s = <<Head(s)>> \o Tail(s)
<1>1. Head(s) \in S /\ Tail(s) \in Seq(S)
  BY HeadTailProperties
<1>2. PICK h \in S, t \in Seq(S) : h = Head(s) /\ t = Tail(s)
  BY <1>1
<1>3. PICK u \in Seq(S) : u = <<h>>
  <2>1. <<h>> \in Seq(S)
    OBVIOUS
  <2>2. QED
    BY <2>1
<1>4. s = u \o t
  BY <1>2, <1>3, HeadTailProperties, SeqEqual, ConcatProperties
<1>5. QED
  BY <1>1, <1>2, <1>3, <1>4

LEMMA AskedIs ==
  ASSUME LinkTypes, NEW type \in Requests, addPacketToQueue(type)
  PROVE  /\ Asked(type) \in Packet /\ Asked(type).type = type
         /\ type \in DOMAIN Answer /\ type # "AUTH"
         /\ \/ /\ type \in Asks /\ Asked(type).replyAddr = repCounter
               /\ repCounter' = repCounter + 1 /\ REP' = REP \cup {repCounter}
            \/ /\ type \notin Asks /\ Asked(type).replyAddr = 0
               /\ type # "SSLT"
               /\ repCounter' = repCounter /\ REP' = REP
<1>1. type \in DOMAIN Answer
  BY LinkAssumption
<1>2. type # "AUTH"
  BY <1>1 DEF Answer
<1>3. Asked(type) \in Packet
  BY AskedFacts, PacketFacts
<1>4. /\ Asked(type).type = type
      /\ Asked(type).replyAddr = IF type \in Asks THEN repCounter ELSE 0
  BY DEF Asked, Pkt
<1>5. "SSLT" \in Asks
  BY DEF Asks
<1>6. QED
  BY <1>1, <1>2, <1>3, <1>4, <1>5 DEF addPacketToQueue

LEMMA FreshStep ==
  ASSUME PartsInv, FreshInv, [Next]_vars PROVE FreshInv'
<1>1. /\ cO \in Seq(Packet) /\ sent \in Seq(Packet)
      /\ repCounter \in Nat /\ repCounter >= 2
  BY FlowTypes DEF FreshInv
<1>2. CASE attemptConnection
  <2>1. sent' = <<Auth>> \o cO /\ UNCHANGED <<cO, repCounter>>
    BY <1>2 DEF attemptConnection
  <2>2. Own(<<Auth>> \o cO, repCounter)
    BY <1>1, OwnFirst DEF FreshInv
  <2>3. QED
    BY <2>1, <2>2 DEF FreshInv
<1>3. CASE cO' = <<>> /\ UNCHANGED <<sent, repCounter>>
  BY <1>3, OwnNone, RangeFacts DEF FreshInv
<1>4. CASE writeSocket /\ cO # <<>>
  <2>1. cO' = Tail(cO) /\ UNCHANGED <<sent, repCounter>>
    BY <1>4 DEF writeSocket, history
  <2>2. PICK u \in Seq(Packet), t \in Seq(Packet) :
          u = <<Head(cO)>> /\ t = Tail(cO) /\ cO = u \o t
    BY <1>1, <1>4, HeadAndRest
  <2>3. Own(t, repCounter)
    BY <1>1, <2>2, OwnPart DEF FreshInv
  <2>4. Range(t) \subseteq Range(cO)
    BY <2>2, RangeFacts
  <2>5. QED
    BY <2>1, <2>2, <2>3, <2>4 DEF FreshInv
<1>5. ASSUME NEW type \in Requests, addPacketToQueue(type) PROVE FreshInv'
  <2>1. PICK a \in Packet : a = Asked(type)
    BY <1>5, AskedIs DEF PartsInv
  <2>2. /\ cO' = Append(cO, a) /\ (sent' = Append(sent, a) \/ sent' = sent)
        /\ a.type # "AUTH" /\ repCounter' \in Nat
        /\ \/ a.replyAddr = repCounter /\ repCounter' = repCounter + 1
           \/ a.replyAddr = 0 /\ a.type # "SSLT" /\ repCounter' = repCounter
    BY <1>1, <1>5, <2>1, AskedIs, AskedFacts DEF PartsInv
  <2>3. Own(cO', repCounter')
    BY <1>1, <2>2, OwnAppend DEF FreshInv
  <2>4. Own(sent', repCounter')
    <3>1. CASE sent' = Append(sent, a)
      BY <1>1, <2>2, <3>1, OwnAppend DEF FreshInv
    <3>2. CASE sent' = sent
      BY <1>1, <2>2, <3>2 DEF FreshInv, Own
    <3>3. QED
      BY <2>2, <3>1, <3>2
  <2>5. \A p \in Range(cO') : p.type # "AUTH"
    <3>1. PICK u \in Seq(Packet) : u = <<a>> /\ Range(u) = {a}
      BY RangeFacts
    <3>2. cO' = cO \o u
      BY <1>1, <2>2, <3>1, AppendIsConcat
    <3>3. Range(cO') = Range(cO) \cup {a}
      <4>1. Range(cO \o u) = Range(cO) \cup Range(u)
        BY <1>1, RangeFacts
      <4>2. QED
        BY <3>1, <3>2, <4>1
    <3>4. QED
      BY <2>2, <3>3 DEF FreshInv
  <2>6. repCounter' \in Nat /\ repCounter' >= 2
    BY <1>1, <2>2
  <2>7. QED
    BY <2>3, <2>4, <2>5, <2>6 DEF FreshInv
<1>6. CASE UNCHANGED <<cO, sent, repCounter>>
  BY <1>6 DEF FreshInv
<1>7. \/ attemptConnection \/ (cO' = <<>> /\ UNCHANGED <<sent, repCounter>>)
      \/ (writeSocket /\ cO # <<>>)
      \/ (\E type \in Requests : addPacketToQueue(type))
      \/ UNCHANGED <<cO, sent, repCounter>>
  <2>1. CASE Drop
    BY <2>1 DEF Drop, connectionDropped, history
  <2>2. CASE readSocket
    BY <2>2 DEF readSocket, ReadRefused, ReadPart, ReadWhole, ReadFrame,
                connectionDropped
  <2>3. CASE writeOperation \/ (writeSocket /\ cO = <<>>)
    BY <2>3 DEF writeOperation, writeSocket, history
  <2>4. CASE handleReceivingQueue
    BY <2>4 DEF handleReceivingQueue, history
  <2>5. CASE NetworkThread \/ UNCHANGED vars
    BY <2>5 DEF NetworkThread, Update, ReceiveHeader, ReceiveData, SendHeader,
         SendData, DeleteClient, HandlePacket, SecondUpdate, Accept, Pause,
         Frame, client, history, vars
  <2>6. QED
    BY <2>1, <2>2, <2>3, <2>4, <2>5 DEF Next, ClientThread
<1>8. QED
  BY <1>2, <1>3, <1>4, <1>5, <1>6, <1>7
-----------------------------------------------------------------------------
(* Logging in.  A client searches once it has the server's consent, and    *)
(* the server does not forget the user it gave its consent to: it is asked *)
(* only once, first.                                                       *)

NoSearch(s) == \A p \in Range(s) : p.type # "SSLT"
Consent == \E p \in Range(queued) : p.type = "YES"
AskedOnce == \A i \in 2..Len(sent) : sent[i].type # "AUTH"
LoginInv ==
  /\ cphase # "on" => NoSearch(cO)
  /\ Linked => /\ AskedOnce
               /\ cphase = "login" => NoSearch(sent)
               /\ cphase = "on" => Consent
               /\ Consent => user /\ handled # <<>>

LEMMA LoginInit == Init => LoginInv
BY RangeFacts DEF Init, LoginInv, NoSearch, Linked

LEMMA LoginKept ==
  ASSUME LoginInv, Linked' => Linked, UNCHANGED <<cphase, sent>>,
         cO' = cO \/ cO' = <<>>,
         Linked' => UNCHANGED <<queued, user, handled>>
  PROVE  LoginInv'
BY RangeFacts DEF LoginInv, NoSearch, Consent, AskedOnce

LEMMA ConnectLogin ==
  ASSUME PartsInv, FreshInv, LoginInv, attemptConnection PROVE LoginInv'
<1>1. /\ cphase = "off" /\ cphase' = "login" /\ cO' = cO
      /\ sent' = <<Auth>> \o cO /\ queued' = <<>>
  BY DEF attemptConnection
<1>2. cO \in Seq(Packet) /\ NoSearch(cO)
  BY <1>1, FlowTypes DEF LoginInv
<1>3. PICK a \in Packet : a = Auth
  BY PktFacts, PacketFacts DEF Auth
<1>4. a.type = "AUTH"
  BY <1>3, PktFacts DEF Auth, Pkt
<1>5. PICK u \in Seq(Packet) : u = <<a>>
  BY RangeFacts
<1>6. sent' = u \o cO /\ Len(u) = 1
  BY <1>1, <1>3, <1>5
<1>7. NoSearch(sent')
  <2>1. Range(u \o cO) = {a} \cup Range(cO)
    BY <1>2, <1>5, RangeFacts
  <2>2. QED
    BY <1>2, <1>4, <1>6, <2>1 DEF NoSearch
<1>8. AskedOnce'
  <2>1. /\ Len(u \o cO) = 1 + Len(cO) /\ Len(cO) \in Nat
        /\ \A i \in 2..(1 + Len(cO)) : (u \o cO)[i] = cO[i - 1]
    <3>1. Len(cO) \in Nat
      BY <1>2, LenProperties
    <3>2. /\ Len(u \o cO) = Len(u) + Len(cO)
          /\ \A i \in 1..(Len(u) + Len(cO)) :
               (u \o cO)[i] = IF i <= Len(u) THEN u[i] ELSE cO[i - Len(u)]
      BY <1>2, ConcatProperties
    <3>3. QED
      BY <1>6, <3>1, <3>2
  <2>2. \A i \in 2..(1 + Len(cO)) : cO[i - 1] \in Range(cO)
    BY <1>2, <2>1 DEF Range
  <2>3. QED
    BY <1>6, <2>1, <2>2 DEF AskedOnce, FreshInv
<1>9. ~Consent'
  BY <1>1, RangeFacts DEF Consent
<1>10. QED
  BY <1>1, <1>2, <1>7, <1>8, <1>9 DEF LoginInv, NoSearch

LEMMA WriteSocketLogin ==
  ASSUME PartsInv, LoginInv, writeSocket PROVE LoginInv'
<1>1. /\ UNCHANGED <<conn, sent, queued, user, handled>>
      /\ cphase' = cphase \/ (cphase = "off" /\ cphase' = "dead")
      /\ cO' = cO \/ (cO # <<>> /\ cO' = Tail(cO))
  BY DEF writeSocket, link, server, history
<1>2. ASSUME cO # <<>>, NoSearch(cO) PROVE NoSearch(Tail(cO))
  <2>1. cO \in Seq(Packet)
    BY FlowTypes
  <2>2. PICK u \in Seq(Packet), t \in Seq(Packet) :
          t = Tail(cO) /\ cO = u \o t
    BY <1>2, <2>1, HeadAndRest
  <2>3. Range(t) \subseteq Range(cO)
    BY <2>2, RangeFacts
  <2>4. QED
    BY <1>2, <2>2, <2>3 DEF NoSearch
<1>3. cphase' # "on" => NoSearch(cO')
  BY <1>1, <1>2 DEF LoginInv
<1>4. Linked' => cphase' = cphase
  BY <1>1 DEF PartsInv, LinkState, Linked
<1>5. QED
  BY <1>1, <1>3, <1>4 DEF LoginInv, Linked, AskedOnce, Consent, NoSearch

LEMMA AddLogin ==
  ASSUME PartsInv, LoginInv, NEW type \in Requests, addPacketToQueue(type)
  PROVE  LoginInv'
<1>1. /\ UNCHANGED <<conn, cphase, queued, user, handled>>
      /\ cphase # "login" /\ (type = "SSLT" => cphase = "on")
  BY DEF addPacketToQueue, Monitor, link, server
<1>2. PICK a \in Packet : a = Asked(type)
  BY AskedIs DEF PartsInv
<1>3. /\ cO' = Append(cO, a) /\ a.type # "AUTH" /\ a.type = type
      /\ sent' = IF cphase = "on" THEN Append(sent, a) ELSE sent
  BY <1>2, AskedIs, AskedFacts DEF PartsInv
<1>4. cO \in Seq(Packet) /\ sent \in Seq(Packet)
  BY FlowTypes
<1>5. ASSUME cphase # "on" PROVE NoSearch(cO')
  <2>1. PICK u \in Seq(Packet) : u = <<a>> /\ Range(u) = {a}
    BY RangeFacts
  <2>2. cO' = cO \o u
    BY <1>3, <1>4, <2>1, AppendIsConcat
  <2>3. Range(cO \o u) = Range(cO) \cup Range(u)
    BY <1>4, RangeFacts
  <2>4. QED
    BY <1>1, <1>3, <1>5, <2>1, <2>2, <2>3 DEF LoginInv, NoSearch
<1>6. AskedOnce => AskedOnce'
  <2>1. CASE sent' = sent
    BY <2>1 DEF AskedOnce
  <2>2. CASE sent' = Append(sent, a)
    <3>1. /\ Len(sent') = Len(sent) + 1 /\ Len(sent) \in Nat
          /\ \A i \in 1..Len(sent) : sent'[i] = sent[i]
          /\ sent'[Len(sent) + 1] = a
      BY <1>4, <2>2, AppendProperties, LenProperties
    <3>2. QED
      BY <1>3, <3>1 DEF AskedOnce
  <2>3. QED
    BY <1>3, <2>1, <2>2
<1>7. QED
  BY <1>1, <1>5, <1>6 DEF LoginInv, Linked, Consent
\* What the client has read, the server has queued; what the server handles,
\* the client has sent.
LEMMA CarriedWithin ==
  ASSUME NEW in, NEW out \in Seq(Packet), NEW bytes,
         NEW waiting \in Seq(Packet), Carried(in, out, bytes, waiting)
  PROVE  /\ Range(out) \subseteq Range(in) /\ Range(waiting) \subseteq Range(in)
         /\ \A r : Addressed(out, r) <= Addressed(in, r)
<1>1. PICK mid \in Seq(Packet) : in = (out \o mid) \o waiting
  BY DEF Carried
<1>2. PICK front \in Seq(Packet) : front = out \o mid
  BY ConcatProperties
<1>3. /\ Range(front) = Range(out) \cup Range(mid)
      /\ Range(in) = Range(front) \cup Range(waiting)
  BY <1>1, <1>2, RangeFacts
<1>4. ASSUME NEW r PROVE Addressed(out, r) <= Addressed(in, r)
  <2>1. /\ Addressed(front, r) = Addressed(out, r) + Addressed(mid, r)
        /\ Addressed(in, r) = Addressed(front, r) + Addressed(waiting, r)
    <3>1. Addressed(out \o mid, r) = Addressed(out, r) + Addressed(mid, r)
      BY AddressedConcat
    <3>2. Addressed(front \o waiting, r)
            = Addressed(front, r) + Addressed(waiting, r)
      BY AddressedConcat
    <3>3. QED
      BY <1>1, <1>2, <3>1, <3>2
  <2>2. /\ Addressed(out, r) \in Nat /\ Addressed(mid, r) \in Nat
        /\ Addressed(waiting, r) \in Nat
    BY AddressedType
  <2>3. QED
    BY <2>1, <2>2
<1>5. QED
  BY <1>3, <1>4

\* The next packet to be handled is one that was sent, after those handled.
LEMMA NextIsSent ==
  ASSUME FlowInv, Linked, R # <<>>
  PROVE  /\ Len(handled) + 1 \in 1..Len(sent)
         /\ sent[Len(handled) + 1] = Head(R)
         /\ Head(R) \in Range(sent) /\ Head(R) \in Packet
<1>1. /\ handled \in Seq(Packet) /\ R \in Seq(Packet) /\ sent \in Seq(Packet)
      /\ handled \o R \in Seq(Packet) /\ cO \in Seq(Packet)
  BY FlowTypes DEF FlowInv
<1>2. PICK mid \in Seq(Packet) : sent = ((handled \o R) \o mid) \o cO
  BY DEF FlowInv, UpFlow, Carried
<1>3. PICK rest \in Seq(Packet) : rest = mid \o cO
  BY <1>1, ConcatProperties
<1>4. sent = (handled \o R) \o rest
  <2>1. ((handled \o R) \o mid) \o cO = (handled \o R) \o (mid \o cO)
    <3>1. PICK front \in Seq(Packet) : front = handled \o R
      BY <1>1
    <3>2. PICK last \in Seq(Packet) : last = cO
      BY <1>1
    <3>3. (front \o mid) \o last = front \o (mid \o last)
      BY ONLY ConcatAssociative, front \in Seq(Packet), mid \in Seq(Packet),
              last \in Seq(Packet)
    <3>4. QED
      BY <3>1, <3>2, <3>3
  <2>2. QED
    BY <1>2, <1>3, <2>1
<1>5. /\ Len(handled) \in Nat /\ Len(R) \in Nat /\ Len(rest) \in Nat
      /\ Len(R) >= 1 /\ Head(R) = R[1] /\ Head(R) \in Packet
  BY <1>1, LenProperties, EmptySeq, HeadTailProperties
<1>6. /\ Len(handled \o R) = Len(handled) + Len(R)
      /\ (handled \o R)[Len(handled) + 1] = R[1]
  BY <1>1, <1>5, ConcatAt
<1>7. /\ Len(sent) = Len(handled) + Len(R) + Len(rest)
      /\ sent[Len(handled) + 1] = (handled \o R)[Len(handled) + 1]
  BY <1>1, <1>4, <1>5, <1>6, ConcatAt
<1>8. QED
  BY <1>1, <1>5, <1>6, <1>7, LenProperties DEF Range
QueueTypes == /\ arrived \in Seq(Packet) /\ O \in Seq(Packet)
              /\ queued \in Seq(Packet)
              /\ handled \in Seq(Packet) /\ R \in Seq(Packet)
              /\ Linked => \E bytes : Carried(queued, arrived, bytes, O)
LEMMA FlowTyped == FlowInv => QueueTypes
BY FlowTypes DEF FlowInv, DownFlow, DownParts, QueueTypes

LEMMA ReadLogin ==
  ASSUME FlowInv, FlowInv', LoginInv, readSocket PROVE LoginInv'
<1>1. UNCHANGED <<sent, queued, user, handled>>
  BY DEF readSocket, server
<1>2. CASE ReadRefused
  <2>1. cO' = <<>> /\ ~Linked'
    BY <1>2 DEF ReadRefused, connectionDropped, Linked
  <2>2. QED
    BY <2>1, RangeFacts DEF LoginInv, NoSearch
<1>3. CASE ReadPart
  BY <1>1, <1>3 DEF ReadPart, ReadFrame, LoginInv, Linked, NoSearch, Consent,
                    AskedOnce
<1>4. CASE ReadWhole
  <2>1. /\ UNCHANGED <<conn, cO>> /\ cphase' = "on"
        /\ Whole(ReadSome) /\ ~Refused
        /\ arrived' = Append(arrived, ReadSome[1].p)
    BY <1>4 DEF ReadWhole, ReadFrame
  <2>2. cphase \in {"login", "on"}
    BY DEF readSocket, CanRead
  <2>3. SUFFICES ASSUME Linked PROVE Consent
    BY <1>1, <2>1, <2>2 DEF LoginInv, Linked, Consent, AskedOnce
  <2>4. CASE cphase = "on"
    BY <2>3, <2>4 DEF LoginInv
  <2>5. CASE cphase = "login"
    <3>1. PICK p \in Packet : p = ReadSome[1].p
      BY <2>1, ReadFacts, FirstByte DEF FlowInv, Whole
    <3>2. p.type = "YES"
      BY <2>1, <2>5, <3>1 DEF Refused
    <3>3. arrived \in Seq(Packet)
      BY FlowTypes DEF FlowInv
    <3>4. p \in Range(arrived')
      <4>1. PICK u \in Seq(Packet) : u = <<p>> /\ Range(u) = {p}
        BY RangeFacts
      <4>2. arrived' = arrived \o u
        BY <2>1, <3>1, <3>3, <4>1, AppendIsConcat
      <4>3. Range(arrived \o u) = Range(arrived) \cup Range(u)
        BY <3>3, RangeFacts
      <4>4. QED
        BY <4>1, <4>2, <4>3
    <3>5. Range(arrived') \subseteq Range(queued')
      <4>1. QueueTypes'
        BY FlowTyped, PTL
      <4>2. PICK bytes : Carried(queued', arrived', bytes, O')
        BY <2>1, <2>3, <4>1 DEF QueueTypes, Linked
      <4>3. arrived' \in Seq(Packet) /\ O' \in Seq(Packet)
        BY <4>1 DEF QueueTypes
      <4>4. QED
        BY <4>2, <4>3, CarriedWithin
    <3>6. QED
      BY <1>1, <3>2, <3>4, <3>5 DEF Consent
  <2>6. QED
    BY <2>2, <2>4, <2>5
<1>5. QED
  BY <1>2, <1>3, <1>4 DEF readSocket

LEMMA QueuePauseLogin ==
  ASSUME FlowInv, LoginInv, Pause PROVE LoginInv'
<1>1. UNCHANGED <<conn, cphase, cO, sent, user, handled>>
  BY DEF Pause, link, Frame, client
<1>2. PICK packets \in Seq(Packet) :
        Queue(packets) /\ \A p \in Range(packets) : p.type # "YES"
  BY PauseQueues DEF FlowInv, PartsInv
<1>3. queued' = queued \o packets /\ queued \in Seq(Packet)
  BY <1>2, FlowTypes DEF Queue, FlowInv
<1>4. Range(queued \o packets) = Range(queued) \cup Range(packets)
  BY <1>3, RangeFacts
<1>5. Consent' <=> Consent
  BY <1>2, <1>3, <1>4 DEF Consent
<1>6. QED
  BY <1>1, <1>5 DEF LoginInv, Linked, AskedOnce, NoSearch

\* A second AUTH would be sent[k], k > 1; the first is handled before there
\* is any consent.
LEMMA HandleLogin ==
  ASSUME FlowInv, LoginInv, HandlePacket PROVE LoginInv'
<1>1. /\ UNCHANGED <<conn, cphase, cO, sent>>
      /\ handled' = Append(handled, Head(R)) /\ R # <<>>
  BY DEF HandlePacket, link, Frame, client
<1>2. /\ handled \in Seq(Packet) /\ R \in Seq(Packet)
      /\ queued \in Seq(Packet)
  BY FlowTypes DEF FlowInv
<1>3. SUFFICES ASSUME Linked
               PROVE  /\ Consent => Consent'
                      /\ Consent' => user' /\ handled' # <<>>
  BY <1>1 DEF LoginInv, Linked, AskedOnce, NoSearch
<1>4. handled' # <<>>
  BY <1>1, <1>2, AppendProperties, HeadTailProperties
<1>5. Consent => Head(R).type # "AUTH"
  <2>1. SUFFICES ASSUME Consent PROVE Head(R).type # "AUTH"
    OBVIOUS
  <2>2. Len(handled) \in Nat /\ Len(handled) # 0
    BY <1>2, <1>3, <2>1, LenProperties, EmptySeq DEF LoginInv
  <2>3. /\ Len(handled) + 1 \in 1..Len(sent)
        /\ sent[Len(handled) + 1] = Head(R)
    BY <1>1, <1>3, NextIsSent
  <2>4. QED
    BY <1>3, <2>2, <2>3 DEF LoginInv, AskedOnce
<1>6. CASE \E q \in Packet : /\ Queue(<<q>>)
                             /\ q.type = "YES" =>
                                  user' /\ Head(R).type = "AUTH"
  <2>1. PICK q \in Packet : /\ Queue(<<q>>)
                            /\ q.type = "YES" =>
                                 user' /\ Head(R).type = "AUTH"
    BY <1>6
  <2>2. PICK u \in Seq(Packet) : u = <<q>> /\ Range(u) = {q}
    BY RangeFacts
  <2>3. queued' = queued \o u
    BY <2>1, <2>2 DEF Queue
  <2>4. Range(queued \o u) = Range(queued) \cup Range(u)
    BY <1>2, RangeFacts
  <2>5. Consent' <=> Consent \/ q.type = "YES"
    BY <2>2, <2>3, <2>4 DEF Consent
  <2>6. Consent => user'
    BY <1>3, <1>5, HandledQueues DEF LoginInv, FlowInv, PartsInv
  <2>7. QED
    BY <1>4, <2>1, <2>5, <2>6
<1>7. CASE Queue(<<>>)
  <2>1. queued' = queued
    BY <1>2, <1>7, ConcatEmptySeq DEF Queue
  <2>2. Consent => user'
    BY <1>3, <1>5, HandledQueues DEF LoginInv, FlowInv, PartsInv
  <2>3. QED
    BY <1>4, <2>1, <2>2 DEF Consent
<1>8. QED
  BY <1>6, <1>7, HandledQueues DEF FlowInv, PartsInv

LEMMA LoginStep ==
  ASSUME FlowInv, FlowInv', FreshInv, LoginInv, [Next]_vars PROVE LoginInv'
<1>1. CASE attemptConnection
  BY <1>1, ConnectLogin DEF FlowInv
<1>2. CASE Drop \/ DeleteClient
  <2>1. ~Linked' /\ (cO' = <<>> \/ (cO' = cO /\ cphase' = cphase))
    BY <1>2 DEF Drop, DeleteClient, connectionDropped, Linked, Frame, client
  <2>2. QED
    BY <2>1, RangeFacts DEF LoginInv, NoSearch
<1>3. CASE writeSocket
  BY <1>3, WriteSocketLogin DEF FlowInv
<1>4. CASE readSocket
  BY <1>4, ReadLogin
<1>5. ASSUME NEW type \in Requests, addPacketToQueue(type) PROVE LoginInv'
  BY <1>5, AddLogin DEF FlowInv
<1>6. CASE HandlePacket
  BY <1>6, HandleLogin
<1>7. CASE Pause
  BY <1>7, QueuePauseLogin
<1>8. CASE writeOperation \/ handleReceivingQueue \/ ReceiveHeader
           \/ ReceiveData \/ SendHeader \/ SendData \/ SecondUpdate
           \/ Accept \/ UNCHANGED vars
  <2>1. /\ Linked' => Linked
        /\ UNCHANGED <<cphase, sent, cO, queued, user, handled>>
    BY <1>8 DEF writeOperation, handleReceivingQueue, ReceiveHeader,
         ReceiveData, SendHeader, SendData, SecondUpdate, Accept, Linked,
         Frame, link, client, server, history, vars
  <2>2. QED
    BY <2>1, LoginKept
<1>9. QED
  BY <1>1, <1>2, <1>3, <1>4, <1>5, <1>6, <1>7, <1>8
     DEF Next, ClientThread, NetworkThread, Update
-----------------------------------------------------------------------------
(* Searches and their answers.                                             *)

Sought(r) == \E p \in Range(sent) : p.type = "SSLT" /\ p.replyAddr = r
Awaited(r) == Addressed(arrived, r) = 0 \/ Addressed(cR, r) > 0
AnswersOf(r) ==
  /\ Addressed(queued, r) <= Addressed(handled, r)
  /\ Addressed(cR, r) <= Addressed(arrived, r)
  /\ Sought(r) => /\ Addressed(queued, r) = Addressed(handled, r)
                  /\ r \in REP <=> Awaited(r)
AnswersInv == Linked => \A r \in Nat : r >= 2 => AnswersOf(r)
AnswerInv == FlowInv /\ FreshInv /\ LoginInv /\ AnswersInv

\* An address counts at most as often handled as sent, queued as handled,
\* read as queued, waiting as read; that is, once or not at all.
LEMMA AtMostOnce ==
  ASSUME AnswerInv, Linked, NEW r \in Nat, r >= 2
  PROVE  /\ Addressed(sent, r) \in Nat /\ Addressed(handled, r) \in Nat
         /\ Addressed(queued, r) \in Nat /\ Addressed(arrived, r) \in Nat
         /\ Addressed(cR, r) \in Nat
         /\ Addressed(sent, r) <= 1
         /\ Addressed(handled, r) + Addressed(R, r) <= Addressed(sent, r)
         /\ Addressed(R, r) \in Nat
         /\ Addressed(queued, r) <= Addressed(handled, r)
         /\ Addressed(arrived, r) <= Addressed(queued, r)
         /\ Addressed(cR, r) <= Addressed(arrived, r)
         /\ r >= repCounter => Addressed(sent, r) = 0
         /\ Sought(r) => Addressed(sent, r) > 0 /\ r < repCounter
<1>1. /\ sent \in Seq(Packet) /\ handled \in Seq(Packet)
      /\ queued \in Seq(Packet) /\ arrived \in Seq(Packet)
      /\ R \in Seq(Packet) /\ O \in Seq(Packet) /\ cO \in Seq(Packet)
      /\ handled \o R \in Seq(Packet) /\ cR \in Seq(Packet)
  BY FlowTypes DEF AnswerInv, FlowInv, PartsInv, Histories
<1>2. /\ Addressed(sent, r) \in Nat /\ Addressed(handled, r) \in Nat
      /\ Addressed(queued, r) \in Nat /\ Addressed(arrived, r) \in Nat
      /\ Addressed(cR, r) \in Nat /\ Addressed(R, r) \in Nat
  BY <1>1, AddressedType
<1>3. Addressed(handled \o R, r) = Addressed(handled, r) + Addressed(R, r)
  BY <1>1, AddressedConcat
<1>4. Addressed(handled \o R, r) <= Addressed(sent, r)
  BY <1>1, CarriedWithin DEF AnswerInv, FlowInv, UpFlow
<1>5. Addressed(arrived, r) <= Addressed(queued, r)
  <2>1. PICK bytes : Carried(queued, arrived, bytes, O)
    BY DEF AnswerInv, FlowInv, DownFlow, DownParts
  <2>2. QED
    BY <1>1, <2>1, CarriedWithin
<1>6. /\ Addressed(sent, r) <= 1
      /\ r >= repCounter => Addressed(sent, r) = 0
  BY DEF AnswerInv, FreshInv, Own
<1>7. Sought(r) => Addressed(sent, r) > 0
  BY <1>1, AddressedSome DEF Sought
<1>8. repCounter \in Nat
  BY DEF AnswerInv, FreshInv
<1>9. /\ Addressed(queued, r) <= Addressed(handled, r)
      /\ Addressed(cR, r) <= Addressed(arrived, r)
  BY DEF AnswerInv, AnswersInv, AnswersOf
<1>10. QED
  BY <1>2, <1>3, <1>4, <1>5, <1>6, <1>7, <1>8, <1>9

LEMMA AnswersInit == Init => AnswersInv
BY DEF Init, AnswersInv, Linked

LEMMA AnswersKept ==
  ASSUME AnswersInv, Linked' => Linked,
         UNCHANGED <<sent, handled, queued, arrived, cR, REP>>
  PROVE  AnswersInv'
BY DEF AnswersInv, AnswersOf, Sought, Awaited

\* Nothing has been sent, handled, queued or read when a session starts, but
\* requests that are not searches may wait to be sent.
LEMMA ConnectAnswers ==
  ASSUME PartsInv, LoginInv, attemptConnection PROVE AnswersInv'
<1>1. /\ cphase = "off" /\ sent' = <<Auth>> \o cO /\ cR' = cR
      /\ handled' = <<>> /\ queued' = <<>> /\ arrived' = <<>>
  BY DEF attemptConnection
<1>2. cR = <<>> /\ cO \in Seq(Packet) /\ NoSearch(cO)
  BY <1>1, FlowTypes DEF PartsInv, LinkState, LoginInv
<1>3. \A r : ~Sought(r)'
  <2>1. PICK a \in Packet : a = Auth
    BY PktFacts, PacketFacts DEF Auth
  <2>2. a.type = "AUTH"
    BY <2>1, PktFacts DEF Auth, Pkt
  <2>3. PICK u \in Seq(Packet) : u = <<a>> /\ Range(u) = {a}
    BY RangeFacts
  <2>4. Range(u \o cO) = Range(u) \cup Range(cO)
    BY <1>2, RangeFacts
  <2>5. sent' = u \o cO
    BY <1>1, <2>1, <2>3
  <2>6. \A p \in Range(sent') : p.type # "SSLT"
    BY <1>2, <2>2, <2>3, <2>4, <2>5 DEF NoSearch
  <2>7. QED
    BY <2>6 DEF Sought
<1>4. \A r : Addressed(<<>>, r) = 0
  BY AddressedNone
<1>5. ASSUME NEW r \in Nat PROVE AnswersOf(r)'
  BY <1>1, <1>2, <1>3, <1>4 DEF AnswersOf
<1>6. QED
  BY <1>5 DEF AnswersInv
\* A new search has an address nothing was sent with.
LEMMA AddAnswers ==
  ASSUME AnswerInv, NEW type \in Requests, addPacketToQueue(type)
  PROVE  AnswersInv'
<1>1. /\ UNCHANGED <<conn, cphase, handled, queued, arrived, cR>>
      /\ cphase # "login"
  BY DEF addPacketToQueue, Monitor, link
<1>2. SUFFICES ASSUME Linked, NEW r \in Nat, r >= 2 PROVE AnswersOf(r)'
  BY <1>1 DEF AnswersInv, Linked
<1>3. LinkTypes /\ cphase = "on"
  BY <1>1, <1>2 DEF AnswerInv, FlowInv, PartsInv, LinkState
<1>4. PICK a \in Packet : a = Asked(type)
  BY <1>3, AskedIs
<1>5. sent' = Append(sent, a) /\ sent \in Seq(Packet)
  BY <1>3, <1>4, AskedFacts, FlowTypes DEF AnswerInv, FlowInv
<1>6. \/ /\ a.replyAddr = repCounter /\ REP' = REP \cup {repCounter}
      \/ a.replyAddr = 0 /\ REP' = REP
  BY <1>3, <1>4, AskedIs
<1>7. Sought(r)' <=> Sought(r) \/ (a.type = "SSLT" /\ a.replyAddr = r)
  <2>1. PICK u \in Seq(Packet) : u = <<a>> /\ Range(u) = {a}
    BY RangeFacts
  <2>2. sent' = sent \o u
    BY <1>5, <2>1, AppendIsConcat
  <2>3. Range(sent \o u) = Range(sent) \cup Range(u)
    BY <1>5, RangeFacts
  <2>4. Range(sent') = Range(sent) \cup {a}
    BY <2>1, <2>2, <2>3
  <2>5. QED
    BY <2>4 DEF Sought
<1>8. Awaited(r)' <=> Awaited(r)
  BY <1>1 DEF Awaited
<1>9. AnswersOf(r)
  BY <1>2 DEF AnswerInv, AnswersInv
<1>10. CASE a.replyAddr = r
  <2>1. r = repCounter /\ r \in REP' /\ Addressed(sent, r) = 0
    BY <1>2, <1>6, <1>10, AtMostOnce
  <2>2. /\ Addressed(handled, r) = 0 /\ Addressed(queued, r) = 0
        /\ Addressed(arrived, r) = 0
    BY <1>2, <2>1, AtMostOnce
  <2>3. QED
    BY <1>1, <1>9, <2>1, <2>2 DEF AnswersOf, Awaited
<1>11. CASE a.replyAddr # r
  <2>1. Sought(r)' <=> Sought(r)
    BY <1>7, <1>11
  <2>2. Sought(r) => (r \in REP' <=> r \in REP)
    BY <1>2, <1>6, AtMostOnce
  <2>3. QED
    BY <1>1, <1>8, <1>9, <2>1, <2>2 DEF AnswersOf
<1>12. QED
  BY <1>10, <1>11

\* An answer is read at most once, while its replyer waits.
LEMMA ReadAnswers ==
  ASSUME AnswerInv, FlowInv', readSocket PROVE AnswersInv'
<1>1. UNCHANGED <<sent, handled, queued, REP>>
  BY DEF readSocket, ReadRefused, ReadPart, ReadWhole, ReadFrame,
         connectionDropped
<1>2. CASE ReadRefused
  BY <1>2 DEF ReadRefused, connectionDropped, Linked, AnswersInv
<1>3. CASE ReadPart
  <2>1. UNCHANGED <<conn, arrived, cR>>
    BY <1>3 DEF ReadPart
  <2>2. QED
    BY <1>1, <2>1, AnswersKept DEF AnswerInv, Linked
<1>4. CASE ReadWhole
  <2>1. /\ conn' = conn /\ Whole(ReadSome)
        /\ arrived' = Append(arrived, ReadSome[1].p)
        /\ cR' = IF cphase = "login" THEN cR ELSE <<ReadSome[1].p>> \o cR
    BY <1>4 DEF ReadWhole
  <2>2. SUFFICES ASSUME Linked, NEW r \in Nat, r >= 2 PROVE AnswersOf(r)'
    BY <2>1 DEF AnswersInv, Linked
  <2>3. PICK p \in Packet : p = ReadSome[1].p
    BY <2>1, ReadFacts, FirstByte DEF AnswerInv, FlowInv, Whole
  <2>4. arrived \in Seq(Packet) /\ cR \in Seq(Packet)
    BY FlowTypes DEF AnswerInv, FlowInv, PartsInv, Histories
  <2>5. Addressed(arrived', r)
          = Addressed(arrived, r) + (IF p.replyAddr = r THEN 1 ELSE 0)
    <3>1. Addressed(Append(arrived, p), r)
            = Addressed(arrived, r) + (IF p.replyAddr = r THEN 1 ELSE 0)
      BY <2>4, AddressedAppend
    <3>2. QED
      BY <2>1, <2>3, <3>1
  <2>6. Addressed(cR', r)
          = Addressed(cR, r) + (IF cphase # "login" /\ p.replyAddr = r
                                THEN 1 ELSE 0)
    <3>1. CASE cphase = "login"
      BY <2>1, <2>4, <3>1, AddressedType
    <3>2. CASE cphase # "login"
      <4>1. PICK u \in Seq(Packet) : u = <<p>>
        BY RangeFacts
      <4>2. Addressed(u, r) = IF p.replyAddr = r THEN 1 ELSE 0
        BY <4>1, AddressedOne
      <4>3. Addressed(u \o cR, r) = Addressed(u, r) + Addressed(cR, r)
        BY <2>4, AddressedConcat
      <4>4. cR' = u \o cR
        BY <2>1, <2>3, <3>2, <4>1
      <4>5. Addressed(cR, r) \in Nat
        BY <2>4, AddressedType
      <4>6. QED
        BY <3>2, <4>2, <4>3, <4>4, <4>5
    <3>3. QED
      BY <3>1, <3>2
  <2>7. Addressed(arrived', r) <= Addressed(queued', r)
    <3>1. QueueTypes'
      BY FlowTyped, PTL
    <3>2. PICK bytes : Carried(queued', arrived', bytes, O')
      BY <2>1, <2>2, <3>1 DEF QueueTypes, Linked
    <3>3. arrived' \in Seq(Packet) /\ O' \in Seq(Packet)
      BY <3>1 DEF QueueTypes
    <3>4. QED
      BY <3>2, <3>3, CarriedWithin
  <2>8. AnswersOf(r)
    BY <2>2 DEF AnswerInv, AnswersInv
  <2>9. Sought(r)' <=> Sought(r)
    BY <1>1 DEF Sought
  <2>10. CASE p.replyAddr # r
    <3>1. /\ Addressed(arrived', r) = Addressed(arrived, r)
          /\ Addressed(cR', r) = Addressed(cR, r)
      BY <2>2, <2>5, <2>6, <2>10, AtMostOnce
    <3>2. QED
      BY <1>1, <2>8, <2>9, <3>1 DEF AnswersOf, Awaited
  <2>11. CASE p.replyAddr = r
    <3>1. /\ Addressed(arrived, r) = 0 /\ Addressed(arrived', r) = 1
          /\ Addressed(cR, r) = 0
      BY <1>1, <2>2, <2>5, <2>7, <2>11, AtMostOnce
    <3>2. Addressed(cR', r) \in {0, 1}
      BY <2>6, <3>1
    <3>3. Sought(r) => cphase # "login"
      BY <2>2 DEF AnswerInv, LoginInv, NoSearch, Sought
    <3>4. Sought(r) => r \in REP' /\ Addressed(cR', r) = 1
      BY <1>1, <2>6, <2>8, <2>11, <3>1, <3>3 DEF AnswersOf, Awaited
    <3>5. QED
      BY <1>1, <2>8, <2>9, <3>1, <3>2, <3>4 DEF AnswersOf, Awaited
  <2>12. QED
    BY <2>10, <2>11
<1>5. QED
  BY <1>2, <1>3, <1>4 DEF readSocket
\* The user interface handles an answer: there is only one, and its replyer
\* is gone with it.
LEMMA UserAnswers ==
  ASSUME AnswerInv, handleReceivingQueue PROVE AnswersInv'
<1>1. /\ UNCHANGED <<conn, sent, handled, queued, arrived>>
      /\ cR # <<>> /\ cR' = Tail(cR) /\ REP' = REP \ {Head(cR).replyAddr}
  BY DEF handleReceivingQueue, link, history
<1>2. SUFFICES ASSUME Linked, NEW r \in Nat, r >= 2 PROVE AnswersOf(r)'
  BY <1>1 DEF AnswersInv, Linked
<1>3. cR \in Seq(Packet)
  BY DEF AnswerInv, FlowInv, PartsInv, Histories
<1>4. PICK h \in Packet, u \in Seq(Packet), t \in Seq(Packet) :
        h = Head(cR) /\ u = <<h>> /\ t = Tail(cR) /\ cR = u \o t
  <2>1. PICK u \in Seq(Packet), t \in Seq(Packet) :
          u = <<Head(cR)>> /\ t = Tail(cR) /\ cR = u \o t
    BY <1>1, <1>3, HeadAndRest
  <2>2. PICK h \in Packet : h = Head(cR)
    BY <1>1, <1>3, HeadAndRest
  <2>3. u = <<h>>
    BY <2>1, <2>2
  <2>4. QED
    BY <2>1, <2>2, <2>3
<1>5. /\ Addressed(u \o t, r) = Addressed(u, r) + Addressed(t, r)
      /\ Addressed(u, r) = IF h.replyAddr = r THEN 1 ELSE 0
      /\ Addressed(t, r) \in Nat
  BY <1>4, AddressedConcat, AddressedOne, AddressedType
<1>6. /\ Addressed(cR, r)
           = Addressed(cR', r) + (IF h.replyAddr = r THEN 1 ELSE 0)
      /\ Addressed(cR', r) \in Nat
  <2>1. cR = u \o t /\ cR' = t
    BY <1>1, <1>4
  <2>2. QED
    BY <1>5, <2>1
<1>7. AnswersOf(r)
  BY <1>2 DEF AnswerInv, AnswersInv
<1>8. Sought(r)' <=> Sought(r)
  BY <1>1 DEF Sought
<1>9. CASE h.replyAddr # r
  <2>1. Addressed(cR', r) = Addressed(cR, r) /\ (r \in REP' <=> r \in REP)
    BY <1>1, <1>4, <1>6, <1>9
  <2>2. QED
    BY <1>1, <1>7, <1>8, <2>1 DEF AnswersOf, Awaited
<1>10. CASE h.replyAddr = r
  <2>1. r \notin REP'
    BY <1>1, <1>4, <1>10
  <2>2. /\ Addressed(cR, r) = 1 /\ Addressed(cR', r) = 0
        /\ Addressed(arrived, r) = 1
    BY <1>2, <1>6, <1>10, AtMostOnce
  <2>3. QED
    BY <1>1, <1>7, <1>8, <2>1, <2>2 DEF AnswersOf, Awaited
<1>11. QED
  BY <1>9, <1>10

\* A search is answered when it is handled: there is only one packet with
\* its address, and the server knows the user.
LEMMA HandleAnswers ==
  ASSUME AnswerInv, HandlePacket PROVE AnswersInv'
<1>1. /\ UNCHANGED <<conn, sent, arrived, cR, REP>>
      /\ R # <<>> /\ handled' = Append(handled, Head(R))
  BY DEF HandlePacket, link, Frame, client
<1>2. SUFFICES ASSUME Linked, NEW r \in Nat, r >= 2 PROVE AnswersOf(r)'
  BY <1>1 DEF AnswersInv, Linked
<1>3. handled \in Seq(Packet) /\ queued \in Seq(Packet) /\ R \in Seq(Packet)
  BY FlowTypes DEF AnswerInv, FlowInv
<1>4. PICK h \in Packet : h = Head(R) /\ h \in Range(sent)
  BY <1>1, <1>2, NextIsSent DEF AnswerInv
<1>5. Addressed(handled', r)
        = Addressed(handled, r) + (IF h.replyAddr = r THEN 1 ELSE 0)
  <2>1. Addressed(Append(handled, h), r)
          = Addressed(handled, r) + (IF h.replyAddr = r THEN 1 ELSE 0)
    BY <1>3, AddressedAppend
  <2>2. QED
    BY <1>1, <1>4, <2>1
<1>6. \/ Addressed(queued', r)
           = Addressed(queued, r) + (IF h.replyAddr = r THEN 1 ELSE 0)
      \/ /\ Addressed(queued', r) = Addressed(queued, r)
         /\ ~(user /\ h.type = "SSLT")
  <2>1. CASE Queue(<<>>) /\ ~(user /\ h.type = "SSLT")
    <3>1. queued' = queued
      BY <1>3, <2>1, ConcatEmptySeq DEF Queue
    <3>2. QED
      BY <2>1, <3>1
  <2>2. CASE \E q \in Packet : Queue(<<q>>) /\ q.replyAddr = h.replyAddr
    <3>1. PICK q \in Packet : Queue(<<q>>) /\ q.replyAddr = h.replyAddr
      BY <2>2
    <3>2. PICK u \in Seq(Packet) : u = <<q>>
      BY RangeFacts
    <3>3. queued' = queued \o u
      BY <3>1, <3>2 DEF Queue
    <3>4. Addressed(queued \o u, r) = Addressed(queued, r) + Addressed(u, r)
      BY <1>3, AddressedConcat
    <3>5. Addressed(u, r) = IF q.replyAddr = r THEN 1 ELSE 0
      BY <3>2, AddressedOne
    <3>6. QED
      BY <3>1, <3>3, <3>4, <3>5
  <2>3. QED
    BY <1>4, <2>1, <2>2, HandledQueues DEF AnswerInv, FlowInv, PartsInv
<1>7. AnswersOf(r)
  BY <1>2 DEF AnswerInv, AnswersInv
<1>8. (Sought(r)' <=> Sought(r)) /\ (Awaited(r)' <=> Awaited(r))
  BY <1>1 DEF Sought, Awaited
<1>9. Sought(r) /\ h.replyAddr = r => user /\ h.type = "SSLT"
  <2>1. SUFFICES ASSUME Sought(r), h.replyAddr = r
                 PROVE  user /\ h.type = "SSLT"
    OBVIOUS
  <2>2. PICK p \in Range(sent) : p.type = "SSLT" /\ p.replyAddr = r
    BY <2>1 DEF Sought
  <2>3. h = p
    BY <1>2, <1>4, <2>1, <2>2 DEF AnswerInv, FreshInv, Own
  <2>4. cphase = "on"
    <3>1. cphase # "login"
      BY <1>2, <2>2 DEF AnswerInv, LoginInv, NoSearch
    <3>2. QED
      BY <1>2, <3>1 DEF AnswerInv, FlowInv, PartsInv, LinkState
  <2>5. user
    BY <1>2, <2>4 DEF AnswerInv, LoginInv
  <2>6. QED
    BY <2>2, <2>3, <2>5
<1>10. /\ Addressed(queued, r) \in Nat /\ Addressed(handled, r) \in Nat
  BY <1>3, AddressedType
<1>11. /\ Addressed(queued', r) <= Addressed(handled', r)
       /\ Sought(r) => Addressed(queued', r) = Addressed(handled', r)
  BY <1>5, <1>6, <1>7, <1>9, <1>10 DEF AnswersOf
<1>12. QED
  BY <1>1, <1>7, <1>8, <1>11 DEF AnswersOf

LEMMA PauseAnswers ==
  ASSUME AnswerInv, Pause PROVE AnswersInv'
<1>1. UNCHANGED <<conn, sent, handled, arrived, cR, REP>>
  BY DEF Pause, link, Frame, client
<1>2. SUFFICES ASSUME Linked, NEW r \in Nat, r >= 2 PROVE AnswersOf(r)'
  BY <1>1 DEF AnswersInv, Linked
<1>3. PICK packets \in Seq(Packet) :
        Queue(packets) /\ \A p \in Range(packets) : p.replyAddr = 0
  BY PauseQueues DEF AnswerInv, FlowInv, PartsInv
<1>4. queued \in Seq(Packet) /\ queued' = queued \o packets
  BY <1>3, FlowTypes DEF AnswerInv, FlowInv, Queue
<1>5. Addressed(packets, r) = 0
  BY <1>2, <1>3, AddressedSome, AddressedType
<1>6. Addressed(queued', r) = Addressed(queued, r)
  <2>1. Addressed(queued \o packets, r)
          = Addressed(queued, r) + Addressed(packets, r)
    BY <1>4, AddressedConcat
  <2>2. Addressed(queued, r) \in Nat
    BY <1>4, AddressedType
  <2>3. QED
    BY <1>4, <1>5, <2>1, <2>2
<1>7. AnswersOf(r)
  BY <1>2 DEF AnswerInv, AnswersInv
<1>8. QED
  BY <1>1, <1>6, <1>7 DEF AnswersOf, Sought, Awaited

LEMMA AnswersStep ==
  ASSUME AnswerInv, FlowInv', [Next]_vars PROVE AnswersInv'
<1>1. CASE attemptConnection
  BY <1>1, ConnectAnswers DEF AnswerInv, FlowInv
<1>2. CASE Drop \/ DeleteClient
  BY <1>2 DEF Drop, DeleteClient, connectionDropped, Linked, AnswersInv
<1>3. CASE readSocket
  BY <1>3, ReadAnswers
<1>4. ASSUME NEW type \in Requests, addPacketToQueue(type) PROVE AnswersInv'
  BY <1>4, AddAnswers
<1>5. CASE handleReceivingQueue
  BY <1>5, UserAnswers
<1>6. CASE HandlePacket
  BY <1>6, HandleAnswers
<1>7. CASE Pause
  BY <1>7, PauseAnswers
<1>8. CASE writeOperation \/ writeSocket \/ ReceiveHeader \/ ReceiveData
           \/ SendHeader \/ SendData \/ SecondUpdate \/ Accept
           \/ UNCHANGED vars
  <2>1. /\ Linked' => Linked
        /\ UNCHANGED <<sent, handled, queued, arrived, cR, REP>>
    BY <1>8 DEF writeOperation, writeSocket, ReceiveHeader, ReceiveData,
         SendHeader, SendData, SecondUpdate, Accept, Linked,
         Frame, link, client, server, history, vars
  <2>2. QED
    BY <2>1, AnswersKept DEF AnswerInv
<1>9. QED
  BY <1>1, <1>2, <1>3, <1>4, <1>5, <1>6, <1>7, <1>8
     DEF Next, ClientThread, NetworkThread, Update

\* A search sent in this session has its one answer once the server has
\* handled it (Client::handlePacket) and none before, and its replyer waits
\* until the user interface has handled that answer
\* (ServerConnection.handleReceivingQueue): for any sizes, capacity, number
\* of sessions and of requests.
THEOREM SearchesAnsweredOnce == Spec => []OneAnswer
<1>1. Init => AnswerInv
  BY FlowInit, FreshInit, LoginInit, AnswersInit DEF AnswerInv
<1>2. AnswerInv /\ [Next]_vars => AnswerInv'
  <2>1. ASSUME AnswerInv, [Next]_vars PROVE AnswerInv'
    <3>1. FlowInv'
      BY <2>1, FlowStep DEF AnswerInv
    <3>2. FreshInv'
      BY <2>1, FreshStep DEF AnswerInv, FlowInv
    <3>3. LoginInv'
      BY <2>1, <3>1, LoginStep DEF AnswerInv
    <3>4. AnswersInv'
      BY <2>1, <3>1, AnswersStep
    <3>5. QED
      BY <3>1, <3>2, <3>3, <3>4 DEF AnswerInv
  <2>2. QED
    BY <2>1
<1>3. AnswerInv => OneAnswer
  <2>1. ASSUME AnswerInv, conn = "open",
               NEW p \in Range(sent), p.type = "SSLT"
        PROVE  LET r == p.replyAddr
               IN  /\ Addressed(queued, r) = Addressed(handled, r)
                   /\ r \in REP <=> Awaited(r)
    <3>1. p \in Packet
      BY <2>1, FlowTypes, RangeFacts DEF AnswerInv, FlowInv
    <3>2. PICK r \in Nat : r = p.replyAddr
      BY <3>1 DEF Packet
    <3>3. r >= 2 /\ Sought(r)
      BY <2>1, <3>2 DEF AnswerInv, FreshInv, Own, Sought
    <3>4. AnswersOf(r)
      BY <2>1, <3>3 DEF AnswerInv, AnswersInv, Linked
    <3>5. QED
      BY <3>2, <3>3, <3>4 DEF AnswersOf
  <2>2. QED
    BY <2>1 DEF OneAnswer, Awaited
<1>4. QED
  BY <1>1, <1>2, <1>3, PTL DEF Spec
=============================================================================
