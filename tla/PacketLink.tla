----------------------------- MODULE PacketLink -----------------------------
(***************************************************************************)
(* One client and its connection to the server, packet by packet and byte  *)
(* by byte: ServerConnection and ServerPacket of the Java client, and      *)
(* ClientCommunicator, Client and ConnectionManager::threadMain of the     *)
(* server.                                                                 *)
(*                                                                         *)
(* The network thread repeats, for the client: update (receive a header,   *)
(* receive data, send a header, send data, each by one non-blocking call), *)
(* handle every packet received, update again, pause.  The client's thread *)
(* repeats: read what is there, write one packet and wait until it is      *)
(* gone.  Its user interface queues requests and handles what arrived.     *)
(***************************************************************************)
EXTENDS Integers, SequencesExt

CONSTANTS
  HDR,              \* sizeof(PacketHeader)
  Size,             \* data length of each type of packet
  Cap,              \* bound: bytes the sockets hold in one direction
  Requests,         \* the requests the user makes
  MaxSessions,      \* bound: connections the client makes
  MaxRequests,      \* bound: requests of the user
  MaxReports        \* bound: packets the server sends unasked

\* SSLT and RCTX are sent with a replyer; only SSLT is always answered.  The
\* answer to a STAT goes to a listener.
Asks    == {"SSLT", "RCTX"}
Answer  == [SSLT |-> "SSLT re", RCTX |-> "RCTX re", STAT |-> "STAT re"]
Reports == {"MDUD", "UPDT"}
Types   == {"AUTH", "YES", "NO"} \cup Reports \cup DOMAIN Answer
             \cup {Answer[t] : t \in DOMAIN Answer}

ASSUME LinkAssumption ==
  /\ HDR \in Nat \ {0} /\ Cap \in Nat \ {0} /\ Size \in [Types -> Nat]
  /\ Requests \subseteq DOMAIN Answer
  /\ MaxSessions \in Nat /\ MaxRequests \in Nat /\ MaxReports \in Nat

VARIABLES
  conn,       \* the server's socket
  up, down,   \* bytes on their way to the server, to the client
  \* ServerConnection: its phase, the next call of run, its two queues, the
  \* bytes read of a packet, the bytes left of a write, the replyers
  cphase, cpc, cO, cR, cPin, cPout, REP, repCounter, sessions,
  \* ClientCommunicator and Client: queues, packet being received, packet
  \* being sent, bytes of it sent, byte order of its length, logged in
  O, R, Pin, Pout, bytesOut, order, user,
  pc, second, reported,
  \* history: packets made by the client; of this session, those queued for
  \* the server and handled there, queued for the client and read there
  made, sent, handled, queued, arrived

link    == <<conn, up, down>>
client  == <<cphase, cpc, cO, cR, cPin, cPout, REP, repCounter, sessions>>
server  == <<O, R, Pin, Pout, bytesOut, order, user, pc, second, reported>>
history == <<made, sent, handled, queued, arrived>>
vars    == <<link, client, server, history>>

Packet == [type : Types, replyAddr : Nat, n : Nat]
Pkt(type, replyAddr, n) == [type |-> type, replyAddr |-> replyAddr, n |-> n]
Auth == Pkt("AUTH", 1, 0)

\* The bytes of a packet, the header first, and whatever is in memory there.
Length(p) == HDR + Size[p.type]
Byte(p, k) == [p |-> p, k |-> IF k <= Length(p) THEN k ELSE 0]
BytesFrom(p, first, n) == [k \in 1..n |-> Byte(p, first + k)]
Bytes(p) == BytesFrom(p, 0, Length(p))

Least(a, b) == IF a < b THEN a ELSE b
Taken(q, n) == SubSeq(q, 1, Least(n, Len(q)))
Rest(q, n) == SubSeq(q, n + 1, Len(q))
HasHeader(bytes) == Len(bytes) >= HDR
\* The magic number: a header starts where the reader thinks it does.
InSync(bytes) == \A k \in 1..HDR : bytes[k] = Byte(bytes[1].p, k)
Whole(bytes) == HasHeader(bytes) /\ Len(bytes) = Length(bytes[1].p)

Init ==
  /\ conn = "closed" /\ up = <<>> /\ down = <<>>
  /\ cphase = "off" /\ cpc = "read" /\ cO = <<>> /\ cR = <<>>
  /\ cPin = <<>> /\ cPout = <<>> /\ REP = {} /\ repCounter = 2 /\ sessions = 0
  /\ O = <<>> /\ R = <<>> /\ Pin = <<>> /\ Pout = <<>> /\ bytesOut = 0
  /\ order = "net" /\ user = FALSE
  /\ pc = "pause" /\ second = TRUE /\ reported = 0
  /\ made = 0 /\ sent = <<>> /\ handled = <<>>
  /\ queued = <<>> /\ arrived = <<>>

-----------------------------------------------------------------------------
(* The client's thread.                                                    *)

\* attemptConnection: a new socket, and the AUTH packet is pushed through it.
\* The server has a new Client for it; the last one is gone by then.
attemptConnection ==
  /\ cphase = "off" /\ cpc = "read" /\ conn = "closed" /\ sessions < MaxSessions
  /\ conn' = "pending" /\ cphase' = "login" /\ sessions' = sessions + 1
  /\ cPout' = Bytes(Auth) /\ sent' = <<Auth>> \o cO
  /\ up' = <<>> /\ down' = <<>>
  /\ handled' = <<>> /\ queued' = <<>> /\ arrived' = <<>>
  /\ UNCHANGED <<cpc, cO, cR, cPin, REP, repCounter, server, made>>

\* The replyers that wait are kept.
connectionDropped ==
  /\ cphase' = "off"
  /\ cO' = <<>> /\ cR' = <<>> /\ cPin' = <<>> /\ cPout' = <<>>
  /\ conn' = IF conn \in {"pending", "open"} THEN "gone" ELSE "closed"
  /\ down' = <<>>
  /\ UNCHANGED <<REP, repCounter, sessions>>

\* A write fails, or the log-in takes too long.
Drop ==
  /\ cPout # <<>> \/ cphase = "login"
  /\ connectionDropped /\ cpc' = "read"
  /\ UNCHANGED <<up, server, history>>

\* A blocking write goes on while the socket takes bytes; they arrive in
\* pieces of any size.
writeOperation ==
  /\ \E n \in 1..Least(Len(cPout), Cap - Len(up)) :
       up' = up \o Taken(cPout, n) /\ cPout' = Rest(cPout, n)
  /\ UNCHANGED <<conn, down, cphase, cpc, cO, cR, cPin, REP, repCounter,
                 sessions, server, history>>

\* mutant: nothing until the whole packet is there
WantedWhole ==
  IF down # <<>> /\ Len(down) >= Length(down[1].p) THEN Length(down[1].p) ELSE 0
\* readOperation and forceReadPacket: nothing until a whole header is there,
\* then as much of the packet as there is.
Wanted ==
  IF HasHeader(cPin) THEN Length(cPin[1].p) - Len(cPin)
  ELSE IF Len(down) >= HDR THEN Length(down[1].p) ELSE 0
ReadSome == cPin \o Taken(down, Wanted)
CanRead == cphase \in {"login", "on"} /\ cPout = <<>> /\ cpc = "read"
BadHeader == HasHeader(ReadSome) /\ ~InSync(ReadSome)
Refused == BadHeader \/ /\ cphase = "login" /\ Whole(ReadSome)
                        /\ ReadSome[1].p.type # "YES"
ReadFrame == <<cO, cPout, REP, repCounter, sessions>>

\* A bad header, or in authenticate a first packet that is not the consent.
ReadRefused ==
  /\ Refused
  /\ connectionDropped
  /\ arrived' = IF BadHeader THEN arrived ELSE Append(arrived, ReadSome[1].p)

ReadPart ==
  /\ ~Refused /\ ~Whole(ReadSome)
  /\ cPin' = ReadSome /\ down' = Rest(down, Len(ReadSome) - Len(cPin))
  /\ UNCHANGED <<conn, cphase, cR, arrived, ReadFrame>>

\* The consent ends authenticate; later packets are put in front.
ReadWhole ==
  /\ ~Refused /\ Whole(ReadSome)
  /\ cPin' = <<>> /\ down' = Rest(down, Len(ReadSome) - Len(cPin))
  /\ arrived' = Append(arrived, ReadSome[1].p)
  /\ cphase' = "on"
  /\ cR' = IF cphase = "login" THEN cR ELSE <<ReadSome[1].p>> \o cR
  /\ UNCHANGED <<conn, ReadFrame>>

readSocket ==
  /\ CanRead
  /\ ReadRefused \/ ReadPart \/ ReadWhole
  /\ cpc' = IF cphase = "on" THEN "write" ELSE "read"
  /\ UNCHANGED <<up, server, made, sent, handled, queued>>

\* writeSocket takes one packet; the write itself is writeOperation.  With
\* the connection dropped there is no stream to write to, and the exception
\* ends the thread.
writeSocket ==
  /\ cphase \in {"on", "off"} /\ cPout = <<>> /\ cpc = "write"
  /\ cpc' = "read"
  /\ IF cO = <<>> THEN UNCHANGED <<cphase, cO, cPout>>
     ELSE /\ cO' = Tail(cO)
          /\ IF cphase = "on" THEN cPout' = Bytes(Head(cO)) /\ UNCHANGED cphase
                              ELSE cphase' = "dead" /\ UNCHANGED cPout
  /\ UNCHANGED <<link, cR, cPin, REP, repCounter, sessions, server, history>>

ClientThread == writeOperation \/ readSocket \/ writeSocket

-----------------------------------------------------------------------------
(* The client's user interface.  Its calls wait for a write to end.  A     *)
(* search is made only when connected; the others do not look.             *)

\* mutant: queued like what is received, the last in front
AddedFirst(q, p) == <<p>> \o q
Added(q, p) == Append(q, p)
Monitor == cPout = <<>> /\ cphase # "login"
addPacketToQueue(type) ==
  /\ Monitor /\ made < MaxRequests
  /\ type = "SSLT" => cphase = "on"
  /\ LET p == Pkt(type, IF type \in Asks THEN repCounter ELSE 0, made + 1)
     IN /\ cO' = Added(cO, p)
        /\ sent' = IF cphase = "on" THEN Append(sent, p) ELSE sent
  /\ IF type \in Asks
     THEN REP' = REP \cup {repCounter} /\ repCounter' = repCounter + 1
     ELSE UNCHANGED <<REP, repCounter>>
  /\ made' = made + 1
  /\ UNCHANGED <<link, cphase, cpc, cR, cPin, cPout, sessions, server,
                 handled, queued, arrived>>

\* The packet that came last is handled first; an answer calls its replyer.
handleReceivingQueue ==
  /\ Monitor /\ cR # <<>>
  /\ cR' = Tail(cR)
  /\ REP' = REP \ {Head(cR).replyAddr}
  /\ UNCHANGED <<link, cphase, cpc, cO, cPin, cPout, repCounter, sessions,
                 server, history>>

-----------------------------------------------------------------------------
(* The network thread: ClientCommunicator::update, receiving.              *)

ServerAt(at) == conn \in {"open", "gone"} /\ pc = at
Frame == <<client, made, sent, arrived>>
Outgoing == <<O, Pout, bytesOut, order>>
EndOfStream == conn = "gone" /\ up = <<>>

\* mutant: a whole header is asked for again after a part of one
HeaderAgain == HDR
HeaderMissing == HDR - Len(Pin)
GotHeader == IF HasHeader(Pin) THEN Pin ELSE Pin \o Taken(up, HeaderMissing)
DataMissing == IF HasHeader(Pin) THEN Length(Pin[1].p) - Len(Pin) ELSE 0
GotData == Pin \o Taken(up, DataMissing)

ReceiveHeader ==
  /\ ServerAt("recvHeader") /\ pc' = "recvData"
  /\ HasHeader(Pin) \/ ~EndOfStream
  /\ HasHeader(GotHeader) => InSync(GotHeader)
  /\ Pin' = GotHeader /\ up' = Rest(up, Len(GotHeader) - Len(Pin))
  /\ UNCHANGED <<conn, down, R, Outgoing, user, second, reported, Frame,
                 handled, queued>>

ReceiveData ==
  /\ ServerAt("recvData") /\ pc' = "sendHeader"
  /\ DataMissing = 0 \/ ~EndOfStream
  /\ up' = Rest(up, Len(GotData) - Len(Pin))
  /\ IF Whole(GotData) THEN R' = Append(R, GotData[1].p) /\ Pin' = <<>>
                       ELSE Pin' = GotData /\ UNCHANGED R
  /\ UNCHANGED <<conn, down, Outgoing, user, second, reported, Frame,
                 handled, queued>>

(* Sending.  The front of the queue becomes Pout, with nothing of it sent, *)
(* and as much of its header goes as the socket takes.  With exactly the   *)
(* header sent, the byte order of its length is changed.                   *)

Free == Cap - Len(down)
Taking == Pout = <<>> /\ O # <<>>
\* mutant: the count of the last packet is kept
KeptCount == bytesOut
NoneSent == 0
Current == IF Taking THEN <<Head(O)>> ELSE Pout
Begun == IF Taking THEN NoneSent ELSE bytesOut
BegunOrder == IF Taking THEN "net" ELSE order
Other == [net |-> "host", host |-> "net"]

HeaderCount == IF Begun < HDR THEN Least(HDR - Begun, Free) ELSE 0
SendHeader ==
  /\ ServerAt("sendHeader") /\ pc' = "sendData"
  /\ Pout' = Current
  /\ O' = IF Taking THEN Tail(O) ELSE O
  /\ IF Current = <<>> THEN UNCHANGED <<down, bytesOut, order>>
     ELSE /\ down' = down \o BytesFrom(Current[1], Begun, HeaderCount)
          /\ bytesOut' = Begun + HeaderCount
          /\ order' = IF bytesOut' = HDR THEN Other[BegunOrder] ELSE BegunOrder
  /\ UNCHANGED <<conn, up, R, Pin, user, second, reported, Frame,
                 handled, queued>>

\* A length in network order is far more than the data; what lies behind it
\* in memory is sent too.  (bytesOut stops at the first such byte.)
DataLeft(p) == IF order = "host" THEN Length(p) - bytesOut
               ELSE IF Size[p.type] = 0 THEN 0 ELSE Cap + 1
DataCount(p) == IF bytesOut < HDR THEN 0 ELSE Least(DataLeft(p), Free)
SendData ==
  /\ ServerAt("sendData") /\ pc' = IF second THEN "pause" ELSE "handle"
  /\ IF Pout = <<>> THEN UNCHANGED <<down, bytesOut, Pout>>
     ELSE LET p == Pout[1]
              n == DataCount(p)
          IN /\ down' = down \o BytesFrom(p, bytesOut, n)
             /\ bytesOut' = Least(bytesOut + n, Length(p) + 1)
             /\ Pout' = IF bytesOut >= HDR /\ n = DataLeft(p)
                        THEN <<>> ELSE Pout
  /\ UNCHANGED <<conn, up, O, R, Pin, order, user, second, reported, Frame,
                 handled, queued>>

\* update returns false at the end of the stream, for a header without the
\* magic number, and when a send fails: the Client is deleted.
BadUpdate ==
  CASE pc = "recvHeader" -> ~HasHeader(Pin) /\ (EndOfStream \/
                              (HasHeader(GotHeader) /\ ~InSync(GotHeader)))
    [] pc = "recvData"   -> DataMissing > 0 /\ EndOfStream
    [] pc = "sendHeader" -> conn = "gone" /\ (Pout # <<>> \/ O # <<>>)
    [] pc = "sendData"   -> conn = "gone" /\ Pout # <<>> /\ bytesOut >= HDR
    [] OTHER -> FALSE
DeleteClient ==
  /\ ServerAt(pc) /\ BadUpdate
  /\ conn' = IF conn = "gone" THEN "closed" ELSE "kicked"
  /\ up' = <<>>
  /\ O' = <<>> /\ R' = <<>> /\ Pin' = <<>> /\ Pout' = <<>> /\ bytesOut' = 0
  /\ order' = "net" /\ user' = FALSE /\ pc' = "pause" /\ second' = TRUE
  /\ UNCHANGED <<down, reported, Frame, handled, queued>>

-----------------------------------------------------------------------------
(* Client::updateClient and the rest of a round of threadMain.             *)

Queue(packets) ==
  /\ O' = O \o packets
  /\ queued' = queued \o packets
\* mutant: an answer that forgets whom it answers
AnswerToNobody(type, replyTo) == Pkt(type, 0, Len(queued) + 1)
Reply(type, replyTo) == Pkt(type, replyTo, Len(queued) + 1)

\* The name is known or not, and the password right or not.
HandleAuth(p) ==
  \E known, right \in BOOLEAN :
    /\ user' = known
    /\ Queue(<<Reply(IF known /\ right THEN "YES" ELSE "NO", p.replyAddr)>>)

\* RCTX about a fractal without a row is not answered.
HandleRequest(p) ==
  \E found \in BOOLEAN :
    /\ Queue(IF user /\ (p.type = "RCTX" => found)
             THEN <<Reply(Answer[p.type], p.replyAddr)>> ELSE <<>>)
    /\ UNCHANGED user

HandlePacket ==
  /\ ServerAt("handle") /\ R # <<>>
  /\ R' = Tail(R) /\ handled' = Append(handled, Head(R))
  /\ IF Head(R).type = "AUTH" THEN HandleAuth(Head(R))
                              ELSE HandleRequest(Head(R))
  /\ UNCHANGED <<link, Pin, Pout, bytesOut, order, pc, second, reported, Frame>>

SecondUpdate ==
  /\ ServerAt("handle") /\ R = <<>>
  /\ second' = TRUE /\ pc' = "recvHeader"
  /\ UNCHANGED <<link, O, R, Pin, Pout, bytesOut, order, user, reported,
                 history, client>>

Accept ==
  /\ conn = "pending" /\ pc = "pause"
  /\ conn' = "open"
  /\ UNCHANGED <<up, down, client, server, history>>

\* Every client gets the changes of fractals, a user also the server message.
Pause ==
  /\ ServerAt("pause")
  /\ \E due \in {<<>>, <<"UPDT">>, <<"MDUD">>, <<"UPDT", "MDUD">>} :
       /\ due \notin {<<>>, <<"MDUD">>} => user
       /\ reported + Len(due) <= MaxReports
       /\ reported' = reported + Len(due)
       /\ Queue([k \in 1..Len(due) |-> Pkt(due[k], 0, Len(queued) + k)])
  /\ pc' = "recvHeader" /\ second' = FALSE
  /\ UNCHANGED <<link, R, Pin, Pout, bytesOut, order, user, Frame, handled>>

Update == ReceiveHeader \/ ReceiveData \/ SendHeader \/ SendData \/ DeleteClient
NetworkThread == Update \/ HandlePacket \/ SecondUpdate \/ Accept \/ Pause

Next ==
  \/ attemptConnection \/ Drop
  \/ ClientThread
  \/ \E type \in Requests : addPacketToQueue(type)
  \/ handleReceivingQueue
  \/ NetworkThread

Spec == Init /\ [][Next]_vars

\* Both threads are endless loops, and Swing runs what was posted to it.
Fairness == /\ WF_vars(ClientThread)
            /\ WF_vars(handleReceivingQueue)
            /\ WF_vars(NetworkThread)
FairSpec == Spec /\ Fairness

-----------------------------------------------------------------------------
(* Properties.                                                             *)

\* Of the packets put in, the first have come out, the last still wait, and
\* the bytes under way are those of the packets between.
Stream(packets) == FlattenSeq([k \in DOMAIN packets |-> Bytes(packets[k])])
Carries(in, out, bytes, waiting) ==
  /\ IsPrefix(out, in) /\ IsSuffix(waiting, in)
  /\ bytes = Stream(SubSeq(in, Len(out) + 1, Len(in) - Len(waiting)))
Unsent == IF Pout = <<>> THEN <<>>
          ELSE BytesFrom(Pout[1], bytesOut, Length(Pout[1]) - bytesOut)

\* TypeOK: every variable keeps its type.
TypeOK ==
  /\ conn \in {"closed", "pending", "open", "gone", "kicked"}
  /\ Len(up) <= Cap /\ Len(down) <= Cap
  /\ cphase \in {"off", "login", "on", "dead"} /\ cpc \in {"read", "write"}
  /\ {cO, cR, O, R, sent, handled, queued, arrived} \subseteq Seq(Packet)
  /\ Len(Pout) <= 1 /\ bytesOut \in Nat /\ order \in {"net", "host"}
  /\ \A q \in {Pin, cPin} : HasHeader(q) => Len(q) <= Length(q[1].p)
  /\ pc \in {"recvHeader", "recvData", "sendHeader", "sendData", "handle",
             "pause"}

\* WholeUp: whatever is cut by the sockets, the bytes the server has read and
\* those on their way are the packets the client queued, whole, once and in
\* order: update never loses its place (ClientCommunicator.cpp:162-226).
WholeUp ==
  conn = "open" /\ cphase # "dead" =>
    Carries(sent, handled \o R, Pin \o up \o cPout, cO)

\* More has been sent than the packet has: its length was in network order.
Overrun == Pout # <<>> /\ bytesOut > Length(Pout[1])

\* WholeDown: the same for what the server sends: a packet interrupted by a
\* full socket, in its header, right after it or in its data, is resumed where
\* it stopped (ClientCommunicator.cpp:229-289), until a send runs past its end.
WholeDown ==
  conn = "open" /\ ~Overrun
  => Carries(queued, arrived, cPin \o down \o Unsent, O)

\* OneAnswer: of a search sent in this session there is one answer once the
\* server has handled it, none before, and the replyer waits until its user
\* interface has handled that answer (ServerConnection.java:156-169).
Addressed(packets, r) ==
  Cardinality({k \in DOMAIN packets : packets[k].replyAddr = r})
OneAnswer ==
  conn = "open" => \A p \in Range(sent) : p.type = "SSLT" =>
    LET r == p.replyAddr
        pending == Addressed(arrived, r) = 0 \/ Addressed(cR, r) > 0
    IN /\ Addressed(queued, r) = Addressed(handled, r)
       /\ r \in REP <=> pending

\* Answered: while the connection stays, searches are answered in the end,
\* however little the sockets hold: the client's write waits for the server
\* to read, and the server never waits for the client (a user makes finitely
\* many searches here, so none waits for ever).
SearchWaits ==
  /\ conn = "open" /\ cphase = "on"
  /\ \E p \in Range(sent) : p.type = "SSLT" /\ p.replyAddr \in REP
Answered == SearchWaits ~> ~SearchWaits

\* LengthInHostOrder: "change length back to host to compare later"
\* (ClientCommunicator.cpp:247): while data is sent the length is a number.
LengthInHostOrder == Pout # <<>> /\ bytesOut > HDR => order = "host"
=============================================================================
