------------------------------ MODULE FileLink ------------------------------
(***************************************************************************)
(* The link without sockets: client and server run in one directory and    *)
(* pass each other one packet at a time through the files sin.sck and      *)
(* sout.sck.  A lock file says that there is a packet to be read; who has  *)
(* read it removes the lock.  One step is one operation on a file of       *)
(* either process.  The client may be closed and started again at any      *)
(* moment, and so may the server.                                          *)
(***************************************************************************)
EXTENDS Integers, SequencesExt

CONSTANTS
  MaxSessions,   \* bound: clients started, one after the other
  MaxAsks,       \* bound: requests of the last of them; the others make one
  MaxReports,    \* bound: packets the server sends unasked
  MaxRestarts    \* bound: restarts of the server, under the first client only

ASSUME FileLinkAssumption ==
  /\ MaxSessions \in Nat \ {0} /\ MaxAsks \in Nat \ {0}
  /\ MaxReports \in Nat /\ MaxRestarts \in Nat

VARIABLES
  \* the files: whether the lock of each direction is there, and a packet,
  \* Empty, or NoFile
  sinLck, sinSck, soutLck, soutSck,
  \* the client: next operation, queues, packet being written, replyers that
  \* wait, requests made, and whether the log-in was granted
  cpc, cO, cR, cPout, REP, asked, granted, session,
  \* the server: next operation, queues, packet being written, which update of
  \* the round, logged in, and the length field of Pin, which is never set
  spc, R, O, Pout, second, user, pinLen,
  reported, restarts,
  \* history: packets queued for the client so far, the last one it read, the
  \* last request of this session that was handled, whether the server has
  \* been restarted in this session
  made, seen, handled, restarted

files   == <<sinLck, sinSck, soutLck, soutSck>>
client  == <<cpc, cO, cR, cPout, REP, asked, granted, session>>
server  == <<spc, R, O, Pout, second, user, pinLen, reported, restarts>>
history == <<made, seen, handled, restarted>>
vars    == <<files, client, server, history>>

\* The first replyer of a client has address 2.
Request(k)    == [head |-> "SSLT", replyAddr |-> k + 1, session |-> session]
Auth          == [head |-> "AUTH", replyAddr |-> 1, session |-> session]
Addresses     == 2..(MaxAsks + 1)
UpPackets     == [head : {"SSLT", "AUTH"}, replyAddr : 1..(MaxAsks + 1), session : 1..MaxSessions]
DownPackets   ==
  [head : {"SSLT", "AUTH", "MDUD"}, replyAddr : {0} \cup Addresses, session : 0..MaxSessions, n : Nat]
NoPacket == [head |-> "none"]
Empty    == [head |-> "empty"]
NoFile   == [head |-> "no file"]

AuthSteps == {"delete sout.lck", "delete sin.lck", "delete sin.sck", "open AUTH", "write AUTH",
              "lock AUTH", "await answer", "read answer", "delete answer"}
ReadSteps == {"read", "take", "release"}
WriteSteps == {"write", "fill", "lock"}
ServerSteps == {"look", "take", "truncate", "unlock", "send", "fill", "lock", "handle", "pause", "dead"}

Init ==
  /\ sinLck \in BOOLEAN          \* left by an earlier client: never removed
  /\ sinSck = Empty /\ soutLck = FALSE /\ soutSck = Empty
  /\ cpc = "delete sout.lck" /\ cO = <<>> /\ cR = <<>> /\ cPout = NoPacket
  /\ REP = {} /\ asked = 0 /\ granted = 0 /\ session = 1
  /\ spc = "look" /\ R = <<>> /\ O = <<>> /\ Pout = NoPacket
  /\ second = FALSE /\ user = FALSE /\ pinLen \in {0, 1}
  /\ reported = 0 /\ restarts = 0
  /\ made = 0 /\ seen = 0 /\ handled = 0 /\ restarted = FALSE

-----------------------------------------------------------------------------
(* The client logs in: authenticate.                                         *)

DeleteOldFiles ==
  \/ /\ cpc = "delete sout.lck" /\ cpc' = "delete sin.lck"
     /\ soutLck' = FALSE /\ UNCHANGED <<sinLck, sinSck>>
  \/ /\ cpc = "delete sin.lck" /\ cpc' = "delete sin.sck"
     /\ sinLck' = FALSE /\ UNCHANGED <<soutLck, sinSck>>
  \/ /\ cpc = "delete sin.sck" /\ cpc' = "open AUTH"
     /\ sinSck' = NoFile /\ UNCHANGED <<soutLck, sinLck>>

\* forcePushEntirePacket: the lock is not looked at.
PushAuth ==
  /\ \/ cpc = "open AUTH" /\ cpc' = "write AUTH" /\ sinSck' = Empty /\ UNCHANGED sinLck
     \/ cpc = "write AUTH" /\ cpc' = "lock AUTH" /\ sinSck' = Auth /\ UNCHANGED sinLck
     \/ cpc = "lock AUTH" /\ cpc' = "await answer" /\ sinLck' = TRUE /\ UNCHANGED sinSck
  /\ UNCHANGED soutLck

LogIn ==
  /\ DeleteOldFiles \/ PushAuth
  /\ UNCHANGED <<soutSck, cO, cR, cPout, REP, asked, granted, session, server, history>>

\* After 60 attempts, or any other failure, the client goes on without an
\* answer: run never calls attemptConnection a second time.
GiveUp ==
  /\ cpc = "await answer" /\ cpc' = "read"
  /\ UNCHANGED <<files, cO, cR, cPout, REP, asked, granted, session, server, history>>

Answered ==
  /\ cpc = "await answer" /\ soutLck /\ cpc' = "read answer"
  /\ UNCHANGED <<files, cO, cR, cPout, REP, asked, granted, session, server, history>>

\* forceReadPacket gives up on an empty file; if there is none, the lock stays.
NotThere == {NoFile, Empty}
ReadAnswer ==
  /\ cpc = "read answer"
  /\ \/ soutSck = NoFile /\ cpc' = "read" /\ UNCHANGED <<granted, seen>>
     \/ soutSck = Empty /\ cpc' = "delete answer" /\ UNCHANGED <<granted, seen>>
     \/ /\ soutSck \notin NotThere /\ cpc' = "delete answer" /\ seen' = soutSck.n
        /\ granted' = IF soutSck.head = "AUTH" THEN soutSck.session ELSE 0
  /\ UNCHANGED <<files, cO, cR, cPout, REP, asked, session, server, made, handled, restarted>>

DeleteAnswer ==
  /\ cpc = "delete answer" /\ cpc' = "read" /\ soutLck' = FALSE
  /\ UNCHANGED <<sinLck, sinSck, soutSck, cO, cR, cPout, REP, asked, granted, session, server, history>>

-----------------------------------------------------------------------------
(* The client's thread, and its user interface, which waits while the thread *)
(* is inside readSocket or writeSocket.                                      *)

TakeFile ==
  IF soutSck \in NotThere THEN UNCHANGED <<cR, seen>>
  ELSE cR' = <<soutSck>> \o cR /\ seen' = soutSck.n
\* mutant: the lock is removed before the packet is read
ReleaseFirst ==
  \/ cpc = "read" /\ ~soutLck /\ cpc' = "write" /\ UNCHANGED <<cR, seen, soutLck>>
  \/ cpc = "read" /\ soutLck /\ cpc' = "take" /\ soutLck' = FALSE /\ UNCHANGED <<cR, seen>>
  \/ cpc = "take" /\ cpc' = "write" /\ TakeFile /\ UNCHANGED soutLck
ReadFile ==
  \/ cpc = "read" /\ ~soutLck /\ cpc' = "write" /\ UNCHANGED <<cR, seen, soutLck>>
  \/ cpc = "read" /\ soutLck /\ cpc' = "take" /\ UNCHANGED <<cR, seen, soutLck>>
  \/ cpc = "take" /\ cpc' = "release" /\ TakeFile /\ UNCHANGED soutLck
  \/ cpc = "release" /\ cpc' = "write" /\ soutLck' = FALSE /\ UNCHANGED <<cR, seen>>

readSocket ==
  /\ ReadFile
  /\ UNCHANGED <<sinLck, sinSck, soutSck, cO, cPout, REP, asked, granted, session, server,
                 made, handled, restarted>>

\* The packet taken from the queue waits in Pout until the lock is gone.
PopOut ==
  \/ (cPout # NoPacket \/ cO = <<>>) /\ UNCHANGED <<cO, cPout>>
  \/ cPout = NoPacket /\ cO # <<>> /\ cPout' = Head(cO) /\ cO' = Tail(cO)
MayWriteAlways == TRUE                                           \* mutant
MayWrite == ~sinLck
writeSocket ==
  /\ \/ /\ cpc = "write" /\ PopOut /\ UNCHANGED sinLck
        /\ IF cPout' # NoPacket /\ MayWrite
           THEN cpc' = "fill" /\ sinSck' = Empty
           ELSE cpc' = "read" /\ UNCHANGED sinSck
     \/ cpc = "fill" /\ cpc' = "lock" /\ sinSck' = cPout /\ UNCHANGED <<sinLck, cO, cPout>>
     \/ /\ cpc = "lock" /\ cpc' = "read"
        /\ sinLck' = TRUE /\ cPout' = NoPacket /\ UNCHANGED <<sinSck, cO>>
  /\ UNCHANGED <<soutLck, soutSck, cR, REP, asked, granted, session, server, history>>

Monitor == cpc \in {"read", "write"}

addPacketToQueue ==
  /\ Monitor /\ asked < (IF session < MaxSessions THEN 1 ELSE MaxAsks)
  /\ asked' = asked + 1
  /\ cO' = Append(cO, Request(asked + 1)) /\ REP' = REP \cup {asked + 2}
  /\ UNCHANGED <<files, cpc, cR, cPout, granted, session, server, history>>

\* What has no replyer goes to the listeners or is lost.
handleReceivingQueue ==
  /\ Monitor /\ cR # <<>>
  /\ cR' = Tail(cR) /\ REP' = REP \ {Head(cR).replyAddr}
  /\ UNCHANGED <<files, cpc, cO, cPout, asked, granted, session, server, history>>

\* The program is closed, and started again.
RestartClient ==
  /\ session < MaxSessions /\ restarts = 0 /\ session' = session + 1
  /\ cpc' = "delete sout.lck" /\ cO' = <<>> /\ cR' = <<>> /\ cPout' = NoPacket
  /\ REP' = {} /\ asked' = 0 /\ granted' = 0
  /\ handled' = 0 /\ seen' = 0 /\ restarted' = FALSE
  /\ UNCHANGED <<files, server, made>>

ClientThread == LogIn \/ GiveUp \/ Answered \/ ReadAnswer \/ DeleteAnswer \/ readSocket \/ writeSocket

-----------------------------------------------------------------------------
(* The server's network thread.                                              *)

Look == spc = "look" /\ spc' = (IF sinLck THEN "take" ELSE "send") /\ UNCHANGED <<files, R>>
Take ==
  /\ spc = "take" /\ spc' = (IF sinSck = NoFile THEN "unlock" ELSE "truncate")
  /\ R' = IF sinSck \in NotThere THEN R ELSE Append(R, sinSck)
  /\ UNCHANGED files
Truncate ==
  /\ spc = "truncate" /\ spc' = "unlock"
  /\ sinSck' = Empty /\ UNCHANGED <<sinLck, soutLck, soutSck, R>>
KeepLock == UNCHANGED sinLck                                     \* mutant
RemoveLock == sinLck' = FALSE
Unlock == spc = "unlock" /\ spc' = "send" /\ RemoveLock /\ UNCHANGED <<sinSck, soutLck, soutSck, R>>
Receive == (Look \/ Take \/ Truncate \/ Unlock) /\ UNCHANGED <<O, Pout>>

\* The packet is taken from the queue before the lock is looked at.
AfterSend == IF second THEN "pause" ELSE "handle"
SendAnyway == TRUE                                               \* mutant
MaySend == ~soutLck
Send ==
  /\ UNCHANGED <<sinLck, sinSck, R>>
  /\ \/ /\ spc = "send" /\ O = <<>> /\ spc' = AfterSend /\ UNCHANGED <<soutLck, soutSck, O, Pout>>
     \/ /\ spc = "send" /\ O # <<>> /\ O' = Tail(O)
        /\ IF MaySend
           THEN spc' = "fill" /\ soutSck' = Empty /\ Pout' = Head(O)
           ELSE spc' = AfterSend /\ UNCHANGED <<soutSck, Pout>>
        /\ UNCHANGED soutLck
     \/ /\ spc = "fill" /\ spc' = "lock" /\ soutSck' = Pout /\ UNCHANGED <<soutLck, O, Pout>>
     \/ /\ spc = "lock" /\ spc' = AfterSend /\ soutLck' = TRUE /\ Pout' = NoPacket
        /\ UNCHANGED <<soutSck, O>>

Update ==
  /\ Receive \/ Send
  /\ UNCHANGED <<client, second, user, pinLen, reported, restarts, history>>

Down(head, replyAddr, s) == [head |-> head, replyAddr |-> replyAddr, session |-> s, n |-> made + 1]
\* sendNoSocketAuthorization: what was queued for an earlier client is cleared,
\* and the answer goes to nobody.  Mutants: it is kept behind the answer, and
\* the answer goes to the sender.
AuthAhead(p) == <<p>> \o O
AuthAlone(p) == <<p>>
Sender == 1
Nobody == 0
HandleAuth(p) ==
  /\ user' = TRUE
  /\ O' = AuthAlone(Down("AUTH", Nobody, p.session)) /\ made' = made + 1
  /\ UNCHANGED handled
HandleRequest(p) ==
  /\ IF user THEN O' = Append(O, Down("SSLT", p.replyAddr, p.session)) /\ made' = made + 1
             ELSE UNCHANGED <<O, made>>
  /\ handled' = IF p.session = session THEN p.replyAddr - 1 ELSE handled
  /\ UNCHANGED user

\* The data of a packet is read only if the length in Pin, which nobody sets,
\* is not 0; without it, it is copied from nowhere when the packet is handled.
HandlePacket ==
  /\ spc = "handle" /\ R # <<>> /\ R' = Tail(R)
  /\ \/ pinLen = 0 /\ spc' = "dead" /\ UNCHANGED <<O, user, made, handled>>
     \/ /\ pinLen # 0 /\ UNCHANGED spc
        /\ \/ Head(R).head = "AUTH" /\ HandleAuth(Head(R))
           \/ Head(R).head = "SSLT" /\ HandleRequest(Head(R))
  /\ UNCHANGED <<files, client, Pout, second, pinLen, reported, restarts, seen, restarted>>

SecondUpdate ==
  /\ spc = "handle" /\ R = <<>> /\ spc' = "look" /\ second' = TRUE
  /\ UNCHANGED <<files, client, R, O, Pout, user, pinLen, reported, restarts, history>>

\* threadMain, between the rounds: reports are for clients logged in or not.
Report ==
  /\ spc = "pause" /\ reported < MaxReports
  /\ reported' = reported + 1
  /\ O' = Append(O, Down("MDUD", 0, 0)) /\ made' = made + 1
  /\ UNCHANGED <<files, client, spc, R, Pout, second, user, pinLen, restarts, seen, handled, restarted>>

NextRound ==
  /\ spc = "pause" /\ spc' = "look" /\ second' = FALSE
  /\ UNCHANGED <<files, client, R, O, Pout, user, pinLen, reported, restarts, history>>

\* ConnectionManager::init: sin.sck is removed twice, sin.lck never.
ServerStarts ==
  /\ restarts < MaxRestarts /\ session = 1 /\ restarts' = restarts + 1
  /\ sinSck' = Empty /\ soutSck' = Empty /\ soutLck' = FALSE /\ UNCHANGED sinLck
  /\ spc' = "look" /\ R' = <<>> /\ O' = <<>> /\ Pout' = NoPacket
  /\ second' = FALSE /\ user' = FALSE /\ pinLen' \in {0, 1}
  /\ restarted' = TRUE
  /\ UNCHANGED <<client, reported, made, seen, handled>>

NetworkThread == Update \/ HandlePacket \/ SecondUpdate \/ NextRound

Next ==
  \/ ClientThread \/ addPacketToQueue \/ handleReceivingQueue \/ RestartClient
  \/ NetworkThread \/ Report \/ ServerStarts

\* Both threads go on for ever, and the client's user interface handles what
\* it receives.
Fairness == WF_vars(ClientThread) /\ WF_vars(NetworkThread) /\ WF_vars(handleReceivingQueue)

Spec == Init /\ [][Next]_vars
FairSpec == Spec /\ Fairness

-----------------------------------------------------------------------------

\* Every variable has its type; in particular no packet has the address of the
\* AUTH, for which no replyer waits.
TypeOK ==
  /\ sinLck \in BOOLEAN /\ soutLck \in BOOLEAN
  /\ sinSck \in UpPackets \cup {NoFile, Empty} /\ soutSck \in DownPackets \cup {NoFile, Empty}
  /\ cpc \in AuthSteps \cup ReadSteps \cup WriteSteps
  /\ cO \in Seq(UpPackets) /\ cR \in Seq(DownPackets) /\ cPout \in UpPackets \cup {NoPacket}
  /\ REP \subseteq Addresses /\ asked \in 0..MaxAsks /\ granted \in 0..MaxSessions
  /\ session \in 1..MaxSessions
  /\ spc \in ServerSteps /\ R \in Seq(UpPackets) /\ O \in Seq(DownPackets)
  /\ Pout \in DownPackets \cup {NoPacket}
  /\ second \in BOOLEAN /\ user \in BOOLEAN /\ pinLen \in {0, 1}
  /\ reported \in 0..MaxReports /\ restarts \in 0..MaxRestarts
  /\ made \in Nat /\ seen \in 0..made /\ handled \in 0..asked /\ restarted \in BOOLEAN

\* The log-in was answered, and the server has been running since.
Undisturbed == granted > 0 /\ ~restarted

\* The requests of a client whose log-in was answered are handled once each
\* and in the order they were made, whatever lay in the directory when it came:
\* those not handled are in the server, in the file, in the packet being written
\* and in the client's queue, in this order.
InFile == IF sinLck /\ sinSck \in UpPackets /\ spc # "truncate" THEN <<sinSck>> ELSE <<>>
InPout == IF cPout = NoPacket THEN <<>> ELSE <<cPout>>
OnTheWay == (R \o InFile) \o (InPout \o cO)
Ours(s) == {i \in DOMAIN s : s[i].session = session /\ s[i].head = "SSLT"}
RequestsOnce ==
  Undisturbed =>
    /\ {OnTheWay[i].replyAddr - 1 : i \in Ours(OnTheWay)} = (handled + 1)..asked
    /\ \A i, j \in Ours(OnTheWay) :
         i < j => OnTheWay[i].replyAddr < OnTheWay[j].replyAddr

\* The addresses of every client start at 2.  Still, once its own AUTH has been
\* answered, what waits for one of its replyers is the answer to that request.
\* (The answer to the AUTH of an earlier client is taken for its own, and then
\* an answer to that client may come.)
OwnAnswers ==
  Undisturbed /\ granted = session =>
    \A i \in DOMAIN cR : cR[i].replyAddr # 0 =>
      /\ cR[i].session = session /\ cR[i].replyAddr \in REP
      /\ \A j \in DOMAIN cR : cR[j].replyAddr = cR[i].replyAddr => i = j

\* Packets may be dropped, but what a client reads it has not read before, and
\* nothing older comes after it, as long as the server is not restarted.
ReadInOrder ==
  [][~restarted /\ session' = session =>
       seen' >= seen /\ (Len(cR') > Len(cR) => seen' > seen)]_vars

\* A packet in sout.sck is not overwritten before the client it is for has read it.
NotOverwritten ==
  [][Undisturbed /\ session' = session /\ restarted' = restarted
       /\ soutSck \in DownPackets /\ soutSck.session = session /\ soutSck' # soutSck
     => seen >= soutSck.n]_vars

\* The server never stops working on the requests of a client that is logged in.
RequestsHandled == []<>(Undisturbed => handled = asked)
=============================================================================
