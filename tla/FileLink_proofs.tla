-------------------------- MODULE FileLink_proofs --------------------------
(***************************************************************************)
(* The link over files, for every number of clients, requests, reports and *)
(* restarts: while the server is not restarted, a client reads no packet   *)
(* twice and none is overwritten before it was read; requests reach the    *)
(* server once and in order, and replyers get the answers to them.         *)
(***************************************************************************)
EXTENDS FileLink, SequenceTheorems, TLAPS

-----------------------------------------------------------------------------
(* The types, and what packets there can be.                               *)

\* The packets there can be.  A client sends requests only when it has left
\* the log-in behind, so no packet holds a request it has not made.
UpNow ==
  {p \in UpPackets :
     /\ p.session <= session
     /\ p.head = "SSLT" => /\ p.replyAddr >= 2
                           /\ p.session = session => p.replyAddr <= asked + 1}
Mine == {p \in UpNow : p.session = session /\ p.head = "SSLT"}
DownNow ==
  {p \in DownPackets : /\ p.n \in 1..made /\ p.session <= session
                       /\ p.head = "SSLT" <=> p.replyAddr # 0}

Scalars ==
  /\ sinLck \in BOOLEAN /\ soutLck \in BOOLEAN
  /\ cpc \in AuthSteps \cup ReadSteps \cup WriteSteps /\ spc \in ServerSteps
  /\ REP \subseteq Addresses /\ asked \in 0..MaxAsks
  /\ granted \in 0..MaxSessions /\ session \in 1..MaxSessions
  /\ second \in BOOLEAN /\ user \in BOOLEAN /\ pinLen \in {0, 1}
  /\ reported \in 0..MaxReports /\ restarts \in 0..MaxRestarts
  /\ made \in Nat /\ seen \in 0..made /\ handled \in 0..asked
  /\ restarted \in BOOLEAN
UpShapes ==
  /\ sinSck \in UpNow \cup NotThere /\ R \in Seq(UpNow)
  /\ cO \in Seq(Mine) /\ cPout \in Mine \cup {NoPacket}
  /\ cpc \in {"fill", "lock"} => cPout # NoPacket
DownShapes ==
  /\ soutSck \in DownNow \cup NotThere /\ cR \in Seq(DownNow)
  /\ O \in Seq(DownNow) /\ Pout \in DownNow \cup {NoPacket}
  /\ spc \in {"fill", "lock"} <=> Pout # NoPacket
Base == Scalars /\ UpShapes /\ DownShapes

LEMMA Fixed ==
  /\ \A p \in UpPackets : p \notin NotThere /\ p # NoPacket
  /\ \A p \in DownPackets : p \notin NotThere /\ p # NoPacket
  /\ NoPacket \notin NotThere
<1>1. \A p \in UpPackets \cup DownPackets : p.head \in {"SSLT", "AUTH", "MDUD"}
  BY DEF UpPackets, DownPackets
<1>2. NoFile.head = "no file" /\ Empty.head = "empty" /\ NoPacket.head = "none"
  BY DEF NoFile, Empty, NoPacket
<1>3. \A p \in UpPackets \cup DownPackets : p # NoFile /\ p # Empty /\ p # NoPacket
  BY <1>1, <1>2
<1>. QED
  BY <1>2, <1>3 DEF NotThere

LEMMA Subsets == Mine \subseteq UpNow /\ UpNow \subseteq UpPackets /\ DownNow \subseteq DownPackets
BY DEF Mine, UpNow, DownNow

\* What may be in a queue goes on being so as the client asks and is started
\* again, and as the server numbers its packets.
LEMMA UpGrows ==
  ASSUME Scalars, \/ session' = session /\ asked' >= asked
                  \/ session' = session + 1
         , asked' \in Int
  PROVE  UpNow \subseteq UpNow'
BY DEF UpNow, Scalars, UpPackets
LEMMA DownGrows ==
  ASSUME Scalars, made' >= made, session' >= session, made' \in Nat, session' \in Nat
  PROVE  DownNow \subseteq DownNow'
BY DEF DownNow, Scalars, DownPackets
LEMMA Unmoved ==
  ASSUME UNCHANGED <<session, asked, made>>
  PROVE  UpNow' = UpNow /\ Mine' = Mine /\ DownNow' = DownNow
BY DEF UpNow, Mine, DownNow

LEMMA BaseTypes == ASSUME Base PROVE TypeOK
<1>1. R \in Seq(UpPackets) /\ cO \in Seq(UpPackets)
  BY Subsets, SeqMonotonic DEF Base, UpShapes
<1>2. O \in Seq(DownPackets) /\ cR \in Seq(DownPackets)
  BY Subsets, SeqMonotonic DEF Base, DownShapes
<1>3. /\ sinSck \in UpPackets \cup {NoFile, Empty} /\ cPout \in UpPackets \cup {NoPacket}
      /\ soutSck \in DownPackets \cup {NoFile, Empty} /\ Pout \in DownPackets \cup {NoPacket}
  BY Subsets DEF Base, UpShapes, DownShapes, NotThere
<1>. QED
  BY <1>1, <1>2, <1>3 DEF TypeOK, Base, Scalars

LEMMA BaseInit == Init => Base
<1>1. <<>> \in Seq(UpNow) /\ <<>> \in Seq(Mine) /\ <<>> \in Seq(DownNow)
  BY EmptySeq
<1>2. Init => Scalars
  <2>1. Init => /\ sinLck \in BOOLEAN /\ soutLck \in BOOLEAN
                /\ cpc \in AuthSteps \cup ReadSteps \cup WriteSteps
                /\ spc \in ServerSteps /\ second \in BOOLEAN /\ user \in BOOLEAN
                /\ pinLen \in {0, 1} /\ restarted \in BOOLEAN
    BY DEF Init, AuthSteps, ServerSteps
  <2>2. Init => /\ REP = {} /\ asked = 0 /\ granted = 0 /\ session = 1 /\ reported = 0
                /\ restarts = 0 /\ made = 0 /\ seen = 0 /\ handled = 0
    BY Zenon DEF Init
  <2>3. Init => /\ REP \subseteq Addresses /\ asked \in 0..MaxAsks
                /\ made \in Nat /\ seen \in 0..made /\ handled \in 0..asked
                /\ granted \in 0..MaxSessions /\ session \in 1..MaxSessions
                /\ reported \in 0..MaxReports /\ restarts \in 0..MaxRestarts
    BY <2>2, FileLinkAssumption
  <2>. QED
    BY <2>1, <2>2, <2>3 DEF Scalars
<1>3. Init => UpShapes /\ DownShapes
  BY <1>1 DEF Init, UpShapes, DownShapes, NotThere
<1>. QED
  BY <1>2, <1>3 DEF Base
LEMMA LogInBase == ASSUME Base, LogIn PROVE Base'
<1>1. UpNow' = UpNow /\ Mine' = Mine /\ DownNow' = DownNow
  BY Unmoved DEF LogIn, history
<1>2. Auth \in UpNow
  BY FileLinkAssumption DEF Auth, UpNow, UpPackets, Base, Scalars
<1>3. sinSck' \in {sinSck, NoFile, Empty, Auth}
  BY DEF LogIn, DeleteOldFiles, PushAuth
<1>4. UpShapes' /\ DownShapes'
  <2>1. cpc' \notin {"fill", "lock"}
    BY DEF LogIn, DeleteOldFiles, PushAuth
  <2>2. UNCHANGED <<soutSck, cO, cR, cPout, R, O, Pout, spc>>
    BY DEF LogIn, server
  <2>. QED
    BY <1>1, <1>2, <1>3, <2>1, <2>2 DEF Base, UpShapes, DownShapes, NotThere
<1>5. /\ soutLck' \in BOOLEAN /\ sinLck' \in BOOLEAN
      /\ cpc' \in AuthSteps \cup ReadSteps \cup WriteSteps
  BY DEF LogIn, DeleteOldFiles, PushAuth, Base, Scalars, AuthSteps
<1>6. Scalars'
  BY <1>5 DEF LogIn, Base, Scalars, server, history
<1>. QED
  BY <1>4, <1>6 DEF Base

LEMMA AnswerBase ==
  ASSUME Base, GiveUp \/ Answered \/ ReadAnswer \/ DeleteAnswer PROVE Base'
<1>1. UpNow' = UpNow /\ Mine' = Mine /\ DownNow' = DownNow
  BY Unmoved DEF GiveUp, Answered, ReadAnswer, DeleteAnswer, history
<1>2. UpShapes' /\ DownShapes'
  BY <1>1 DEF GiveUp, Answered, ReadAnswer, DeleteAnswer, Base, UpShapes, DownShapes,
              files, server
<1>3. cpc' \in AuthSteps \cup ReadSteps \cup WriteSteps
  BY DEF GiveUp, Answered, ReadAnswer, DeleteAnswer, AuthSteps, ReadSteps
<1>4. /\ granted' \in 0..MaxSessions /\ seen' \in 0..made' /\ made' = made
      /\ sinLck' \in BOOLEAN /\ soutLck' \in BOOLEAN
  <2>1. CASE ReadAnswer
    <3>1. soutSck \notin NotThere => soutSck.n \in 1..made /\ soutSck.session \in 0..MaxSessions
      BY DEF Base, DownShapes, DownNow, DownPackets
    <3>2. made' = made /\ sinLck' = sinLck /\ soutLck' = soutLck
      BY <2>1 DEF ReadAnswer, files
    <3>3. \/ granted' = granted /\ seen' = seen
          \/ soutSck \notin NotThere /\ seen' = soutSck.n /\ granted' \in {soutSck.session, 0}
      BY <2>1 DEF ReadAnswer
    <3>4. /\ granted \in 0..MaxSessions /\ seen \in 0..made /\ 0 \in 0..MaxSessions
          /\ made \in Nat /\ sinLck \in BOOLEAN /\ soutLck \in BOOLEAN
      BY FileLinkAssumption DEF Base, Scalars
    <3>. QED
      BY <3>1, <3>2, <3>3, <3>4
  <2>2. CASE GiveUp \/ Answered \/ DeleteAnswer
    BY <2>2 DEF GiveUp, Answered, DeleteAnswer, Base, Scalars, files, history
  <2>. QED
    BY <2>1, <2>2
<1>5. UNCHANGED <<REP, asked, session, spc, second, user, pinLen, reported, restarts,
                  handled, restarted>>
  BY DEF GiveUp, Answered, ReadAnswer, DeleteAnswer, server, history
<1>6. Scalars'
  BY <1>3, <1>4, <1>5 DEF Base, Scalars
<1>. QED
  BY <1>2, <1>6 DEF Base

LEMMA ReadBase == ASSUME Base, readSocket PROVE Base'
<1>1. UpNow' = UpNow /\ Mine' = Mine /\ DownNow' = DownNow
  BY Unmoved DEF readSocket
<1>2. /\ cR' \in Seq(DownNow) /\ seen' \in 0..made
  <2>1. CASE UNCHANGED <<cR, seen>>
    BY <2>1 DEF Base, Scalars, DownShapes
  <2>2. CASE soutSck \notin NotThere /\ cR' = <<soutSck>> \o cR /\ seen' = soutSck.n
    <3>1. soutSck \in DownNow
      BY <2>2 DEF Base, DownShapes
    <3>2. <<soutSck>> \in Seq(DownNow) /\ cR \in Seq(DownNow)
      BY <3>1 DEF Base, DownShapes
    <3>3. cR' \in Seq(DownNow)
      BY <2>2, <3>2, ConcatProperties
    <3>. QED
      BY <2>2, <3>1, <3>3 DEF DownNow, Base, Scalars
  <2>. QED
    BY <2>1, <2>2 DEF readSocket, ReadFile, TakeFile
<1>3. UpShapes' /\ DownShapes'
  <2>1. cpc' \notin {"fill", "lock"}
    BY DEF readSocket, ReadFile
  <2>. QED
    BY <1>1, <1>2, <2>1 DEF readSocket, Base, UpShapes, DownShapes, server
<1>4. cpc' \in AuthSteps \cup ReadSteps \cup WriteSteps /\ soutLck' \in BOOLEAN
  BY DEF readSocket, ReadFile, ReadSteps, WriteSteps, Base, Scalars
<1>5. Scalars'
  BY <1>2, <1>4 DEF readSocket, Base, Scalars, server
<1>. QED
  BY <1>3, <1>5 DEF Base

LEMMA WriteBase == ASSUME Base, writeSocket PROVE Base'
<1>1. UpNow' = UpNow /\ Mine' = Mine /\ DownNow' = DownNow
  BY Unmoved DEF writeSocket, history
<1>2. cO' \in Seq(Mine) /\ cPout' \in Mine \cup {NoPacket}
  <2>1. CASE PopOut
    <3>1. cO # <<>> => Head(cO) \in Mine /\ Tail(cO) \in Seq(Mine)
      BY HeadTailProperties DEF Base, UpShapes
    <3>. QED
      BY <2>1, <3>1 DEF PopOut, Base, UpShapes
  <2>2. CASE UNCHANGED <<cO, cPout>> \/ (cPout' = NoPacket /\ cO' = cO)
    BY <2>2 DEF Base, UpShapes
  <2>. QED
    BY <2>1, <2>2 DEF writeSocket
<1>3. sinSck' \in UpNow \cup NotThere
  <2>1. cpc = "fill" => cPout \in UpNow
    BY Subsets DEF Base, UpShapes
  <2>2. sinSck' \in {sinSck, Empty} \/ (cpc = "fill" /\ sinSck' = cPout)
    BY DEF writeSocket
  <2>. QED
    BY <2>1, <2>2 DEF Base, UpShapes, NotThere
<1>4. cpc' \in {"fill", "lock"} => cPout' # NoPacket
  BY DEF writeSocket, Base, UpShapes
<1>5. UpShapes' /\ DownShapes'
  BY <1>1, <1>2, <1>3, <1>4 DEF writeSocket, Base, UpShapes, DownShapes, server
<1>6. cpc' \in AuthSteps \cup ReadSteps \cup WriteSteps /\ sinLck' \in BOOLEAN
  BY DEF writeSocket, ReadSteps, WriteSteps, Base, Scalars
<1>7. Scalars'
  BY <1>6 DEF writeSocket, Base, Scalars, server, history
<1>. QED
  BY <1>5, <1>7 DEF Base
LEMMA AskBase == ASSUME Base, addPacketToQueue PROVE Base'
<1>1. /\ session' = session /\ asked' = asked + 1 /\ asked < MaxAsks
      /\ asked \in Nat /\ session \in 1..MaxSessions /\ made' = made
  BY FileLinkAssumption DEF addPacketToQueue, Base, Scalars, history
<1>2. UpNow \subseteq UpNow' /\ DownNow' = DownNow
  <2>1. UpNow \subseteq UpNow'
    BY <1>1, UpGrows DEF Base
  <2>2. DownNow' = DownNow
    BY <1>1 DEF DownNow
  <2>. QED
    BY <2>1, <2>2
<1>3. Mine \subseteq Mine' /\ Request(asked + 1) \in Mine'
  BY <1>1, <1>2, FileLinkAssumption DEF Mine, UpNow, UpPackets, Request
<1>4. cO' \in Seq(Mine')
  <2>1. cO \in Seq(Mine')
    BY <1>3, SeqMonotonic DEF Base, UpShapes
  <2>. QED
    BY <1>3, <2>1, AppendProperties DEF addPacketToQueue
<1>5. R \in Seq(UpNow')
  BY <1>2, SeqMonotonic DEF Base, UpShapes
<1>6. UpShapes' /\ DownShapes'
  <2>1. UNCHANGED <<sinSck, soutSck, cpc, spc, cR, cPout, R, O, Pout>>
    BY DEF addPacketToQueue, files, server
  <2>. QED
    BY <1>2, <1>3, <1>4, <1>5, <2>1 DEF Base, UpShapes, DownShapes
<1>7. Scalars'
  <2>1. asked + 2 \in Addresses
    BY <1>1, FileLinkAssumption DEF Addresses
  <2>2. asked' \in 0..MaxAsks /\ handled \in 0..asked'
    BY <1>1, FileLinkAssumption DEF Base, Scalars
  <2>. QED
    BY <2>1, <2>2 DEF addPacketToQueue, Base, Scalars, files, server, history
<1>. QED
  BY <1>6, <1>7 DEF Base

LEMMA ShowBase == ASSUME Base, handleReceivingQueue PROVE Base'
<1>1. UpNow' = UpNow /\ Mine' = Mine /\ DownNow' = DownNow
  BY Unmoved DEF handleReceivingQueue, history
<1>2. cR' \in Seq(DownNow)
  BY HeadTailProperties DEF handleReceivingQueue, Base, DownShapes
<1>3. UpShapes' /\ DownShapes'
  BY <1>1, <1>2 DEF handleReceivingQueue, Base, UpShapes, DownShapes, files, server
<1>4. Scalars'
  BY DEF handleReceivingQueue, Base, Scalars, files, server, history
<1>. QED
  BY <1>3, <1>4 DEF Base

LEMMA ClientAgainBase == ASSUME Base, RestartClient PROVE Base'
<1>1. /\ session' = session + 1 /\ session' \in 1..MaxSessions
      /\ session \in Nat /\ asked' = 0 /\ made' = made /\ made \in Nat
  <2>1. session' = session + 1 /\ asked' = 0 /\ made' = made /\ session < MaxSessions
    BY DEF RestartClient
  <2>2. session \in 1..MaxSessions /\ made \in Nat /\ MaxSessions \in Nat
    BY FileLinkAssumption DEF Base, Scalars
  <2>. QED
    BY <2>1, <2>2
<1>2. UpNow \subseteq UpNow' /\ DownNow \subseteq DownNow'
  <2>1. UpNow \subseteq UpNow'
    BY <1>1, UpGrows DEF Base
  <2>2. DownNow \subseteq DownNow'
    BY <1>1, DownGrows DEF Base
  <2>. QED
    BY <2>1, <2>2
<1>3. R \in Seq(UpNow') /\ O \in Seq(DownNow')
  BY <1>2, SeqMonotonic DEF Base, UpShapes, DownShapes
<1>4. UpShapes' /\ DownShapes'
  <2>1. UNCHANGED <<sinSck, soutSck, spc, R, O, Pout>>
    BY DEF RestartClient, files, server
  <2>2. cO' = <<>> /\ cR' = <<>> /\ cPout' = NoPacket /\ cpc' = "delete sout.lck"
    BY DEF RestartClient
  <2>3. cO' \in Seq(Mine') /\ cR' \in Seq(DownNow')
    BY <2>2, EmptySeq
  <2>. QED
    BY <1>2, <1>3, <2>1, <2>2, <2>3 DEF Base, UpShapes, DownShapes
<1>5. Scalars'
  <2>1. /\ cpc' \in AuthSteps /\ REP' = {} /\ granted' = 0 /\ handled' = 0
        /\ seen' = 0 /\ restarted' = FALSE
        /\ UNCHANGED <<sinLck, soutLck, spc, second, user, pinLen, reported, restarts>>
    BY DEF RestartClient, files, server, AuthSteps
  <2>2. /\ REP' \subseteq Addresses' /\ asked' \in 0..MaxAsks /\ granted' \in 0..MaxSessions
        /\ seen' \in 0..made' /\ handled' \in 0..asked' /\ made' \in Nat
    BY <1>1, <2>1, FileLinkAssumption
  <2>3. cpc' \in AuthSteps \cup ReadSteps \cup WriteSteps /\ restarted' \in BOOLEAN
    BY <2>1
  <2>. QED
    BY <1>1, <2>1, <2>2, <2>3 DEF Base, Scalars, Addresses
<1>. QED
  BY <1>4, <1>5 DEF Base

LEMMA UpdateBase == ASSUME Base, Update PROVE Base'
<1>1. UpNow' = UpNow /\ Mine' = Mine /\ DownNow' = DownNow
  BY Unmoved DEF Update, client, history
<1>2. R' \in Seq(UpNow) /\ sinSck' \in UpNow \cup NotThere
  <2>1. CASE R' = R /\ sinSck' \in {sinSck, Empty}
    BY <2>1 DEF Base, UpShapes, NotThere
  <2>2. CASE sinSck \notin NotThere /\ R' = Append(R, sinSck) /\ sinSck' = sinSck
    <3>1. sinSck \in UpNow /\ R \in Seq(UpNow)
      BY <2>2 DEF Base, UpShapes
    <3>. QED
      BY <2>2, <3>1, AppendProperties
  <2>. QED
    BY <2>1, <2>2 DEF Update, Receive, Look, Take, Truncate, Unlock, Send, files
<1>3. O' \in Seq(DownNow) /\ Pout' \in DownNow \cup {NoPacket}
  <2>1. O # <<>> => Head(O) \in DownNow /\ Tail(O) \in Seq(DownNow)
    BY HeadTailProperties DEF Base, DownShapes
  <2>2. O' = O \/ (O # <<>> /\ O' = Tail(O))
    BY DEF Update, Receive, Send
  <2>3. Pout' \in {Pout, NoPacket} \/ (O # <<>> /\ Pout' = Head(O))
    BY DEF Update, Receive, Send
  <2>. QED
    BY <2>1, <2>2, <2>3 DEF Base, DownShapes
<1>4. soutSck' \in DownNow \cup NotThere
  <2>1. soutSck' \in {soutSck, Empty} \/ (spc = "fill" /\ soutSck' = Pout)
    BY DEF Update, Receive, Look, Take, Truncate, Unlock, Send, files
  <2>. QED
    BY <2>1 DEF Base, DownShapes, NotThere
<1>5. spc' \in {"fill", "lock"} <=> Pout' # NoPacket
  <2>1. CASE Receive
    <3>1. spc \notin {"fill", "lock"} /\ spc' \notin {"fill", "lock"} /\ Pout' = Pout
      BY <2>1 DEF Receive, Look, Take, Truncate, Unlock
    <3>. QED
      BY <3>1 DEF Base, DownShapes
  <2>2. CASE Send
    <3>1. O # <<>> => Head(O) # NoPacket
      BY HeadTailProperties, Subsets, Fixed DEF Base, DownShapes
    <3>2. AfterSend \in {"pause", "handle"}
      BY DEF AfterSend
    <3>. QED
      BY <2>2, <3>1, <3>2 DEF Send, Base, DownShapes
  <2>. QED
    BY <2>1, <2>2 DEF Update
<1>6. UpShapes' /\ DownShapes'
  BY <1>1, <1>2, <1>3, <1>4, <1>5 DEF Update, Base, UpShapes, DownShapes, client
<1>7. spc' \in ServerSteps /\ sinLck' \in BOOLEAN /\ soutLck' \in BOOLEAN
  <2>1. AfterSend \in {"pause", "handle"}
    BY DEF AfterSend
  <2>. QED
    BY <2>1 DEF Update, Receive, Look, Take, Truncate, Unlock, RemoveLock, Send, files,
                Base, Scalars, ServerSteps
<1>8. Scalars'
  BY <1>7 DEF Update, Base, Scalars, client, history
<1>. QED
  BY <1>6, <1>8 DEF Base
LEMMA HandleBase == ASSUME Base, HandlePacket PROVE Base'
<1>1. /\ session' = session /\ asked' = asked /\ made' \in {made, made + 1}
      /\ made \in Nat /\ session \in 1..MaxSessions /\ asked \in 0..MaxAsks
  BY DEF HandlePacket, HandleAuth, HandleRequest, client, Base, Scalars
<1>2. UpNow' = UpNow /\ Mine' = Mine /\ DownNow \subseteq DownNow'
  <2>1. UpNow' = UpNow /\ Mine' = Mine
    BY <1>1 DEF UpNow, Mine
  <2>2. DownNow \subseteq DownNow'
    BY <1>1, DownGrows, FileLinkAssumption DEF Base
  <2>. QED
    BY <2>1, <2>2
<1>3. Head(R) \in UpNow /\ R' \in Seq(UpNow)
  BY HeadTailProperties DEF HandlePacket, Base, UpShapes
<1>4. ASSUME NEW head \in {"AUTH", "SSLT"}, made' = made + 1,
             NEW a \in {0} \cup Addresses, head = "SSLT" <=> a # 0
      PROVE  Down(head, a, Head(R).session) \in DownNow'
  <2>1. Head(R).session \in 1..session
    BY <1>1, <1>3, FileLinkAssumption DEF UpNow, UpPackets
  <2>2. Head(R).session \in 0..MaxSessions /\ made + 1 \in Nat
    BY <1>1, <2>1, FileLinkAssumption
  <2>3. Down(head, a, Head(R).session) \in DownPackets
    BY <2>2, <1>4 DEF Down, DownPackets
  <2>. QED
    BY <1>1, <1>4, <2>1, <2>3 DEF DownNow, Down
<1>5. O \in Seq(DownNow') /\ cR \in Seq(DownNow')
  BY <1>2, SeqMonotonic DEF Base, DownShapes
<1>6. CASE pinLen = 0
  <2>1. UNCHANGED <<sinSck, soutSck, cpc, cR, cO, cPout, O, Pout>>
    BY <1>6 DEF HandlePacket, files, client
  <2>2. spc = "handle" /\ spc' = "dead"
    BY <1>6 DEF HandlePacket
  <2>3. UpShapes' /\ DownShapes'
    BY <1>2, <1>3, <1>5, <2>1, <2>2 DEF Base, UpShapes, DownShapes
  <2>4. Scalars'
    BY <1>6 DEF HandlePacket, files, client, Base, Scalars, ServerSteps
  <2>. QED
    BY <2>3, <2>4 DEF Base
<1>7. CASE pinLen # 0
  <2>1. UNCHANGED <<sinSck, soutSck, cpc, spc, cR, cO, cPout, Pout>>
    BY <1>7 DEF HandlePacket, files, client
  <2>2. /\ O' \in Seq(DownNow') /\ user' \in BOOLEAN
        /\ handled' \in 0..asked /\ made' \in Nat /\ made' >= made
    <3>1. CASE HandleAuth(Head(R))
      <4>1. Down("AUTH", 0, Head(R).session) \in DownNow'
        BY <1>4, <3>1 DEF HandleAuth
      <4>2. <<Down("AUTH", 0, Head(R).session)>> \in Seq(DownNow')
        BY <4>1
      <4>. QED
        BY <1>1, <3>1, <4>2 DEF HandleAuth, AuthAlone, Nobody, Base, Scalars
    <3>2. CASE Head(R).head = "SSLT" /\ HandleRequest(Head(R))
      <4>1. /\ Head(R).replyAddr \in Addresses /\ Head(R).replyAddr \in Nat
            /\ Head(R).replyAddr >= 2
            /\ Head(R).session = session => Head(R).replyAddr <= asked + 1
        BY <1>3, <3>2, FileLinkAssumption DEF UpNow, UpPackets, Addresses
      <4>2. handled' \in 0..asked
        BY <1>1, <3>2, <4>1, FileLinkAssumption DEF HandleRequest, Base, Scalars
      <4>3. O' \in Seq(DownNow')
        <5>1. CASE user
          <6>1. Down("SSLT", Head(R).replyAddr, Head(R).session) \in DownNow'
            BY <1>4, <3>2, <4>1, <5>1 DEF HandleRequest
          <6>. QED
            BY <1>5, <3>2, <5>1, <6>1, AppendProperties DEF HandleRequest
        <5>2. CASE ~user
          BY <1>5, <3>2, <5>2 DEF HandleRequest
        <5>. QED
          BY <5>1, <5>2
      <4>. QED
        BY <1>1, <3>2, <4>2, <4>3 DEF HandleRequest, Base, Scalars
    <3>. QED
      BY <1>7, <3>1, <3>2 DEF HandlePacket
  <2>3. UpShapes' /\ DownShapes'
    BY <1>2, <1>3, <1>5, <2>1, <2>2 DEF Base, UpShapes, DownShapes
  <2>4. /\ seen' \in 0..made' /\ handled' \in 0..asked' /\ user' \in BOOLEAN
        /\ made' \in Nat
    BY <1>1, <2>2 DEF HandlePacket, Base, Scalars
  <2>5. Scalars'
    BY <2>1, <2>4 DEF HandlePacket, files, client, Base, Scalars
  <2>. QED
    BY <2>3, <2>5 DEF Base
<1>. QED
  BY <1>6, <1>7

LEMMA RoundBase == ASSUME Base, SecondUpdate \/ NextRound PROVE Base'
<1>1. UpNow' = UpNow /\ Mine' = Mine /\ DownNow' = DownNow
  BY Unmoved DEF SecondUpdate, NextRound, client, history
<1>2. spc \notin {"fill", "lock"} /\ spc' = "look" /\ second' \in BOOLEAN
  BY DEF SecondUpdate, NextRound
<1>3. UNCHANGED <<files, client, R, O, Pout, user, pinLen, reported, restarts, history>>
  BY DEF SecondUpdate, NextRound
<1>4. UpShapes' /\ DownShapes'
  BY <1>1, <1>2, <1>3 DEF Base, UpShapes, DownShapes, files, client
<1>5. Scalars'
  BY <1>2, <1>3 DEF Base, Scalars, files, client, history, ServerSteps
<1>. QED
  BY <1>4, <1>5 DEF Base

LEMMA ReportBase == ASSUME Base, Report PROVE Base'
<1>1. /\ session' = session /\ asked' = asked /\ made' = made + 1
      /\ made \in Nat /\ session \in 1..MaxSessions
  BY DEF Report, client, Base, Scalars
<1>2. UpNow' = UpNow /\ Mine' = Mine /\ DownNow \subseteq DownNow'
  <2>1. UpNow' = UpNow /\ Mine' = Mine
    BY <1>1 DEF UpNow, Mine
  <2>2. DownNow \subseteq DownNow'
    BY <1>1, DownGrows, FileLinkAssumption DEF Base
  <2>. QED
    BY <2>1, <2>2
<1>3. Down("MDUD", 0, 0) \in DownNow'
  <2>1. Down("MDUD", 0, 0) \in DownPackets
    BY <1>1, FileLinkAssumption DEF Down, DownPackets
  <2>. QED
    BY <1>1, <2>1 DEF DownNow, Down
<1>4. O' \in Seq(DownNow') /\ cR \in Seq(DownNow')
  <2>1. O \in Seq(DownNow') /\ cR \in Seq(DownNow')
    BY <1>2, SeqMonotonic DEF Base, DownShapes
  <2>. QED
    BY <1>3, <2>1, AppendProperties DEF Report
<1>5. UpShapes' /\ DownShapes'
  <2>1. UNCHANGED <<sinSck, soutSck, cpc, cR, cO, cPout, spc, R, Pout>>
    BY DEF Report, files, client
  <2>. QED
    BY <1>2, <1>4, <2>1 DEF Base, UpShapes, DownShapes
<1>6. Scalars'
  <2>1. reported' \in 0..MaxReports /\ seen' \in 0..made' /\ made' \in Nat
    BY <1>1, FileLinkAssumption DEF Report, Base, Scalars
  <2>. QED
    BY <2>1 DEF Report, Base, Scalars, files, client
<1>. QED
  BY <1>5, <1>6 DEF Base

LEMMA ServerAgainBase == ASSUME Base, ServerStarts PROVE Base'
<1>1. UpNow' = UpNow /\ Mine' = Mine /\ DownNow' = DownNow
  BY Unmoved DEF ServerStarts, client
<1>2. /\ sinSck' = Empty /\ soutSck' = Empty /\ R' = <<>> /\ O' = <<>>
      /\ Pout' = NoPacket /\ spc' = "look" /\ UNCHANGED <<cpc, cR, cO, cPout>>
  BY DEF ServerStarts, client
<1>3. R' \in Seq(UpNow) /\ O' \in Seq(DownNow)
  BY <1>2, EmptySeq
<1>4. UpShapes' /\ DownShapes'
  BY <1>1, <1>2, <1>3 DEF Base, UpShapes, DownShapes, NotThere
<1>5. Scalars'
  <2>1. restarts' \in 0..MaxRestarts
    BY FileLinkAssumption DEF ServerStarts, Base, Scalars
  <2>. QED
    BY <2>1 DEF ServerStarts, Base, Scalars, client, ServerSteps
<1>. QED
  BY <1>4, <1>5 DEF Base

LEMMA BaseStep == Base /\ [Next]_vars => Base'
<1> SUFFICES ASSUME Base, [Next]_vars PROVE Base'
  OBVIOUS
<1>1. CASE UNCHANGED vars
  <2>1. UpNow' = UpNow /\ Mine' = Mine /\ DownNow' = DownNow
    BY <1>1, Unmoved DEF vars, client, history
  <2>2. UNCHANGED files /\ UNCHANGED client /\ UNCHANGED server /\ UNCHANGED history
    BY <1>1 DEF vars
  <2>. QED
    BY <2>1, <2>2 DEF Base, Scalars, UpShapes, DownShapes, files, client, server, history
<1>2. CASE ClientThread
  BY <1>2, LogInBase, AnswerBase, ReadBase, WriteBase DEF ClientThread
<1>3. CASE addPacketToQueue \/ handleReceivingQueue \/ RestartClient
  BY <1>3, AskBase, ShowBase, ClientAgainBase
<1>4. CASE NetworkThread
  BY <1>4, UpdateBase, HandleBase, RoundBase DEF NetworkThread
<1>5. CASE Report \/ ServerStarts
  BY <1>5, ReportBase, ServerAgainBase
<1>. QED
  BY <1>1, <1>2, <1>3, <1>4, <1>5 DEF Next
\* Every variable has its type, in particular no packet has the address of the
\* AUTH; and no request is handled that was not made.
THEOREM FilesTyped == Spec => []TypeOK
BY BaseInit, BaseStep, BaseTypes, PTL DEF Spec

-----------------------------------------------------------------------------
(* The two protocols: who works on a file finds the lock as it left it.    *)

\* The client's thread while it logs in, up to the lock of the AUTH and up to
\* the answer.
Login == {"delete sout.lck", "delete sin.lck", "delete sin.sck", "open AUTH",
          "write AUTH", "lock AUTH"}
Unanswered == Login \cup {"await answer", "read answer"}

\* sin.lck: only a client that logs in disregards it.
UpLock ==
  /\ cpc \notin Login /\ spc \in {"take", "truncate", "unlock"} => sinLck
  /\ cpc \in {"fill", "lock"} => ~sinLck
  /\ ~restarted /\ cpc = "lock" => sinSck = cPout
  /\ spc = "unlock" /\ sinSck \notin NotThere => sinSck.head = "AUTH"
\* sout.lck: the server never disregards it.
DownLock ==
  /\ spc \in {"fill", "lock"} => ~soutLck
  /\ spc = "fill" => soutSck = Empty
  /\ spc = "lock" => soutSck = Pout
  /\ ~restarted /\ cpc \in {"take", "release", "read answer", "delete answer"} => soutLck
Beginning ==
  /\ restarted <=> restarts > 0
  /\ cpc \in AuthSteps => cO = <<>> /\ cPout = NoPacket /\ cR = <<>> /\ asked = 0
  /\ cpc \in Unanswered => granted = 0
\* A server whose Pin has no length dies of the first packet, so all it can
\* send are reports.
PinInv ==
  ~restarted /\ pinLen = 0 =>
    /\ granted = 0 /\ \A i \in 1..Len(O) : O[i].head = "MDUD"
    /\ Pout # NoPacket => Pout.head = "MDUD"
    /\ soutSck \notin NotThere => soutSck.head = "MDUD"
LockInv == Base /\ UpLock /\ DownLock /\ Beginning /\ PinInv

LEMMA LockInit == Init => LockInv
<1>1. Init => UpLock /\ DownLock
  BY DEF Init, UpLock, DownLock, Login
<1>2. ASSUME Init PROVE Beginning /\ PinInv
  <2>1. /\ restarts = 0 /\ restarted = FALSE /\ asked = 0 /\ granted = 0
        /\ cO = <<>> /\ cPout = NoPacket /\ cR = <<>> /\ O = <<>> /\ Pout = NoPacket
        /\ soutSck = Empty
    BY <1>2, Zenon DEF Init
  <2>2. Len(O) = 0
    BY <2>1
  <2>3. Beginning
    BY <2>1 DEF Beginning
  <2>4. PinInv
    BY <2>1, <2>2 DEF PinInv, NotThere
  <2>. QED
    BY <2>3, <2>4
<1>. QED
  BY <1>1, <1>2, BaseInit DEF LockInv

LEMMA UpLockStep == ASSUME Base, UpLock, [Next]_vars PROVE UpLock'
<1>1. CASE UNCHANGED vars
  BY <1>1 DEF UpLock, vars, files, client, server, history
<1>2. CASE LogIn
  <2>1. UNCHANGED <<spc, restarted, cPout>>
    BY <1>2 DEF LogIn, server, history
  <2>2. Auth.head = "AUTH"
    BY DEF Auth
  <2>. QED
    BY <1>2, <2>1, <2>2 DEF LogIn, DeleteOldFiles, PushAuth, UpLock, Login, NotThere
<1>3. CASE GiveUp \/ Answered \/ ReadAnswer \/ DeleteAnswer
  <2>1. cpc \notin Login /\ cpc' \notin {"fill", "lock"} /\ cpc' \notin Login
    BY <1>3 DEF GiveUp, Answered, ReadAnswer, DeleteAnswer, Login
  <2>2. UNCHANGED <<sinLck, sinSck, spc, restarted, cPout>>
    BY <1>3 DEF GiveUp, Answered, ReadAnswer, DeleteAnswer, files, server, history
  <2>. QED
    BY <2>1, <2>2 DEF UpLock
<1>4. CASE readSocket
  <2>1. cpc \notin Login /\ cpc' \notin {"fill", "lock"}
    BY <1>4 DEF readSocket, ReadFile, Login
  <2>2. UNCHANGED <<sinLck, sinSck, spc, restarted, cPout>>
    BY <1>4 DEF readSocket, server
  <2>. QED
    BY <2>1, <2>2 DEF UpLock
<1>5. CASE writeSocket
  <2>1. UNCHANGED <<spc, restarted>> /\ cpc \notin Login
    BY <1>5 DEF writeSocket, server, history, Login
  <2>2. CASE cpc = "write"
    BY <1>5, <2>1, <2>2 DEF writeSocket, MayWrite, UpLock, NotThere
  <2>3. CASE cpc = "fill"
    BY <1>5, <2>1, <2>3 DEF writeSocket, UpLock
  <2>4. CASE cpc = "lock"
    BY <1>5, <2>1, <2>4 DEF writeSocket, UpLock
  <2>. QED
    BY <1>5, <2>2, <2>3, <2>4 DEF writeSocket
<1>6. CASE addPacketToQueue \/ handleReceivingQueue
  <2>1. UNCHANGED <<cpc, spc, sinLck, sinSck, cPout, restarted>>
    BY <1>6 DEF addPacketToQueue, handleReceivingQueue, files, server, history
  <2>. QED
    BY <2>1 DEF UpLock
<1>7. CASE RestartClient
  <2>1. UNCHANGED <<spc, sinLck, sinSck>> /\ cpc' = "delete sout.lck"
    BY <1>7 DEF RestartClient, files, server
  <2>. QED
    BY <2>1 DEF UpLock, Login
<1>8. CASE Update
  <2>1. UNCHANGED <<cpc, cPout, restarted>>
    BY <1>8 DEF Update, client, history
  <2>2. CASE Receive
    <3>1. CASE Look
      BY <2>1, <3>1 DEF Look, UpLock, files
    <3>2. CASE Take
      BY <2>1, <3>2 DEF Take, UpLock, files, NotThere
    <3>3. CASE Truncate
      <4>1. cpc # "lock"
        BY <3>3 DEF Truncate, UpLock, Login
      <4>. QED
        BY <2>1, <3>3, <4>1 DEF Truncate, UpLock, NotThere
    <3>4. CASE Unlock
      BY <2>1, <3>4 DEF Unlock, RemoveLock, UpLock
    <3>. QED
      BY <2>2, <3>1, <3>2, <3>3, <3>4 DEF Receive
  <2>3. CASE Send
    <3>1. UNCHANGED <<sinLck, sinSck>> /\ spc' \notin {"take", "truncate", "unlock"}
      BY <2>3 DEF Send, AfterSend
    <3>. QED
      BY <2>1, <3>1 DEF UpLock
  <2>. QED
    BY <1>8, <2>2, <2>3 DEF Update
<1>9. CASE HandlePacket \/ SecondUpdate \/ NextRound \/ Report
  <2>1. UNCHANGED <<cpc, cPout, restarted, sinLck, sinSck>>
    BY <1>9 DEF HandlePacket, SecondUpdate, NextRound, Report, client, history, files
  <2>2. spc' \notin {"take", "truncate", "unlock"}
    BY <1>9 DEF HandlePacket, SecondUpdate, NextRound, Report
  <2>. QED
    BY <2>1, <2>2 DEF UpLock
<1>10. CASE ServerStarts
  <2>1. UNCHANGED <<cpc, cPout, sinLck>> /\ restarted' = TRUE /\ spc' = "look"
    BY <1>10 DEF ServerStarts, client
  <2>. QED
    BY <2>1 DEF UpLock
<1>. QED
  BY <1>1, <1>2, <1>3, <1>4, <1>5, <1>6, <1>7, <1>8, <1>9, <1>10
     DEF Next, ClientThread, NetworkThread

LEMMA DownLockStep == ASSUME Base, DownLock, [Next]_vars PROVE DownLock'
<1>0. /\ soutLck \in BOOLEAN /\ soutLck' \in BOOLEAN
      /\ restarted \in BOOLEAN /\ restarted' \in BOOLEAN
  BY BaseStep DEF Base, Scalars
<1>1. CASE UNCHANGED vars
  BY <1>1 DEF DownLock, vars, files, client, server, history
<1>2. CASE LogIn
  <2>1. /\ UNCHANGED <<spc, restarted, Pout, soutSck>> /\ soutLck' \in {soutLck, FALSE}
        /\ cpc' \notin {"take", "release", "read answer", "delete answer"}
    BY <1>2 DEF LogIn, server, history, DeleteOldFiles, PushAuth
  <2>2. soutLck' => soutLck
    BY <1>0, <2>1
  <2>3. UNCHANGED <<spc, restarted, Pout, soutSck>>
    BY <2>1
  <2>. QED
    BY <1>0, <2>1, <2>2, <2>3 DEF DownLock
<1>3. CASE GiveUp \/ Answered \/ ReadAnswer \/ DeleteAnswer
  <2>1. UNCHANGED <<spc, restarted, Pout, soutSck>>
    BY <1>3 DEF GiveUp, Answered, ReadAnswer, DeleteAnswer, files, server, history
  <2>2. CASE GiveUp \/ DeleteAnswer
    BY <1>0, <2>1, <2>2 DEF GiveUp, DeleteAnswer, DownLock, files
  <2>3. CASE Answered \/ ReadAnswer
    BY <1>0, <2>1, <2>3 DEF Answered, ReadAnswer, DownLock, files
  <2>. QED
    BY <1>3, <2>2, <2>3
<1>4. CASE readSocket
  <2>1. UNCHANGED <<spc, restarted, Pout, soutSck>>
    BY <1>4 DEF readSocket, server
  <2>2. CASE cpc \in {"read", "take"}
    <3>1. /\ soutLck' = soutLck
          /\ cpc' = "write" \/ (cpc = "read" /\ soutLck /\ cpc' = "take")
             \/ (cpc = "take" /\ cpc' = "release")
      BY <1>4, <2>2 DEF readSocket, ReadFile
    <3>. QED
      BY <1>0, <2>1, <3>1 DEF DownLock
  <2>3. CASE cpc = "release"
    BY <1>0, <1>4, <2>1, <2>3 DEF readSocket, ReadFile, DownLock
  <2>. QED
    BY <1>4, <2>2, <2>3 DEF readSocket, ReadFile
<1>5. CASE writeSocket
  <2>1. /\ UNCHANGED <<spc, restarted, Pout, soutSck, soutLck>>
        /\ cpc' \in {"fill", "lock", "read"}
    BY <1>5 DEF writeSocket, server, history
  <2>. QED
    BY <1>0, <2>1 DEF DownLock
<1>6. CASE addPacketToQueue \/ handleReceivingQueue
  <2>1. UNCHANGED <<cpc, spc, soutLck, soutSck, Pout, restarted>>
    BY <1>6 DEF addPacketToQueue, handleReceivingQueue, files, server, history
  <2>. QED
    BY <1>0, <2>1 DEF DownLock
<1>7. CASE RestartClient
  <2>1. UNCHANGED <<spc, soutLck, soutSck, Pout>> /\ cpc' = "delete sout.lck"
    BY <1>7 DEF RestartClient, files, server
  <2>. QED
    BY <1>0, <2>1 DEF DownLock
<1>8. CASE Update
  <2>1. UNCHANGED <<cpc, restarted>>
    BY <1>8 DEF Update, client, history
  <2>2. CASE Receive
    <3>1. UNCHANGED <<soutLck, soutSck, Pout>> /\ spc' \notin {"fill", "lock"}
      BY <2>2 DEF Receive, Look, Take, Truncate, Unlock, files
    <3>. QED
      BY <2>1, <3>1 DEF DownLock
  <2>3. CASE Send
    <3>1. AfterSend \in {"pause", "handle"}
      BY DEF AfterSend
    <3>2. CASE spc = "send"
      BY <1>0, <2>1, <2>3, <3>1, <3>2 DEF Send, MaySend, DownLock
    <3>3. CASE spc = "fill"
      BY <1>0, <2>1, <2>3, <3>1, <3>3 DEF Send, DownLock
    <3>4. CASE spc = "lock"
      BY <1>0, <2>1, <2>3, <3>1, <3>4 DEF Send, DownLock
    <3>. QED
      BY <2>3, <3>2, <3>3, <3>4 DEF Send
  <2>. QED
    BY <1>8, <2>2, <2>3 DEF Update
<1>9. CASE HandlePacket \/ SecondUpdate \/ NextRound \/ Report
  <2>1. UNCHANGED <<cpc, Pout, restarted, soutLck, soutSck>>
    BY <1>9 DEF HandlePacket, SecondUpdate, NextRound, Report, client, history, files
  <2>2. spc' \notin {"fill", "lock"}
    BY <1>9 DEF HandlePacket, SecondUpdate, NextRound, Report
  <2>. QED
    BY <1>0, <2>1, <2>2 DEF DownLock
<1>10. CASE ServerStarts
  <2>1. restarted' = TRUE /\ spc' = "look"
    BY <1>10 DEF ServerStarts
  <2>. QED
    BY <1>0, <2>1 DEF DownLock
<1>. QED
  BY <1>1, <1>2, <1>3, <1>4, <1>5, <1>6, <1>7, <1>8, <1>9, <1>10
     DEF Next, ClientThread, NetworkThread
LEMMA BeginningStep == ASSUME Base, Beginning, [Next]_vars PROVE Beginning'
<1>0. restarts \in Nat /\ restarts' \in Nat /\ restarted \in BOOLEAN
  BY FileLinkAssumption, BaseStep DEF Base, Scalars
<1>1. CASE UNCHANGED vars
  BY <1>1 DEF Beginning, vars, client, server, history
<1>2. CASE LogIn
  <2>1. UNCHANGED <<restarts, restarted, cO, cPout, cR, asked, granted>>
    BY <1>2 DEF LogIn, server, history
  <2>2. cpc \in AuthSteps /\ cpc \in Unanswered
    BY <1>2 DEF LogIn, DeleteOldFiles, PushAuth, AuthSteps, Unanswered, Login
  <2>. QED
    BY <2>1, <2>2 DEF Beginning
<1>3. CASE GiveUp \/ Answered \/ ReadAnswer \/ DeleteAnswer
  <2>1. UNCHANGED <<restarts, restarted, cO, cPout, cR, asked>>
    BY <1>3 DEF GiveUp, Answered, ReadAnswer, DeleteAnswer, server, history
  <2>2. cpc \in AuthSteps
    BY <1>3 DEF GiveUp, Answered, ReadAnswer, DeleteAnswer, AuthSteps
  <2>3. cpc' \in Unanswered => cpc \in Unanswered /\ granted' = granted
    BY <1>3 DEF GiveUp, Answered, ReadAnswer, DeleteAnswer, Unanswered, Login
  <2>. QED
    BY <2>1, <2>2, <2>3 DEF Beginning
<1>4. CASE readSocket \/ writeSocket
  <2>1. UNCHANGED <<restarts, restarted>>
    BY <1>4 DEF readSocket, writeSocket, server, history
  <2>2. cpc' \notin AuthSteps /\ cpc' \notin Unanswered
    BY <1>4 DEF readSocket, ReadFile, writeSocket, AuthSteps, Unanswered, Login
  <2>. QED
    BY <2>1, <2>2 DEF Beginning
<1>5. CASE addPacketToQueue \/ handleReceivingQueue
  <2>1. UNCHANGED <<restarts, restarted, cpc>>
    BY <1>5 DEF addPacketToQueue, handleReceivingQueue, server, history
  <2>2. cpc \notin AuthSteps /\ cpc \notin Unanswered
    BY <1>5 DEF addPacketToQueue, handleReceivingQueue, Monitor, AuthSteps, Unanswered, Login
  <2>. QED
    BY <2>1, <2>2 DEF Beginning
<1>6. CASE RestartClient
  <2>1. /\ restarts = 0 /\ restarts' = restarts /\ restarted' = FALSE /\ asked' = 0
        /\ cO' = <<>> /\ cR' = <<>> /\ cPout' = NoPacket /\ granted' = 0
    BY <1>6 DEF RestartClient, server
  <2>. QED
    BY <2>1 DEF Beginning
<1>7. CASE NetworkThread \/ Report
  <2>1. UNCHANGED client /\ restarts' = restarts /\ restarted' = restarted
    BY <1>7 DEF NetworkThread, Update, HandlePacket, SecondUpdate, NextRound, Report, history
  <2>. QED
    BY <2>1 DEF client, Beginning
<1>8. CASE ServerStarts
  <2>1. UNCHANGED client /\ restarts' = restarts + 1 /\ restarted' = TRUE
    BY <1>8 DEF ServerStarts
  <2>. QED
    BY <1>0, <2>1 DEF client, Beginning
<1>. QED
  BY <1>1, <1>2, <1>3, <1>4, <1>5, <1>6, <1>7, <1>8 DEF Next, ClientThread

LEMMA PinStep == ASSUME Base, Base', Beginning, PinInv, [Next]_vars PROVE PinInv'
<1>0. /\ restarted \in BOOLEAN /\ granted \in Nat
      /\ O \in Seq(DownNow) /\ O' \in Seq(DownNow')
  BY FileLinkAssumption DEF Base, Scalars, DownShapes
<1>1. SUFFICES ASSUME ~restarted', pinLen' = 0
               PROVE  /\ granted' = 0 /\ \A i \in 1..Len(O') : O'[i].head = "MDUD"
                      /\ Pout' # NoPacket => Pout'.head = "MDUD"
                      /\ soutSck' \notin NotThere => soutSck'.head = "MDUD"
  BY DEF PinInv
<1>2. ~ServerStarts
  BY <1>1 DEF ServerStarts
<1>3. ~restarted /\ pinLen = 0
  <2>1. CASE RestartClient
    <3>1. restarts = 0 /\ pinLen' = pinLen
      BY <2>1 DEF RestartClient, server
    <3>. QED
      BY <1>0, <1>1, <3>1 DEF Beginning
  <2>2. CASE ~RestartClient
    <3>1. UNCHANGED <<restarted, pinLen>>
      <4>1. CASE UNCHANGED vars
        BY <4>1 DEF vars, server, history
      <4>2. CASE ClientThread
        BY <4>2 DEF ClientThread, LogIn, GiveUp, Answered, ReadAnswer, DeleteAnswer,
                    readSocket, writeSocket, server, history
      <4>3. CASE addPacketToQueue \/ handleReceivingQueue
        BY <4>3 DEF addPacketToQueue, handleReceivingQueue, server, history
      <4>4. CASE NetworkThread \/ Report
        BY <4>4 DEF NetworkThread, Update, HandlePacket, SecondUpdate, NextRound, Report,
                    history
      <4>. QED
        BY <1>2, <2>2, <4>1, <4>2, <4>3, <4>4 DEF Next
    <3>. QED
      BY <1>1, <3>1
  <2>. QED
    BY <2>1, <2>2
<1>4. /\ granted = 0 /\ \A i \in 1..Len(O) : O[i].head = "MDUD"
      /\ Pout # NoPacket => Pout.head = "MDUD"
      /\ soutSck \notin NotThere => soutSck.head = "MDUD"
  BY <1>3 DEF PinInv
<1>5. CASE UNCHANGED <<granted, O, Pout, soutSck>>
  BY <1>4, <1>5
<1>6. CASE ReadAnswer
  <2>1. granted' = 0
    BY <1>4, <1>6 DEF ReadAnswer
  <2>. QED
    BY <1>4, <1>6, <2>1 DEF ReadAnswer, files, server
<1>7. CASE RestartClient
  BY <1>4, <1>7 DEF RestartClient, files, server
<1>8. CASE Update /\ Send
  <2>1. O # <<>> => /\ \A i \in 1..Len(Tail(O)) : Tail(O)[i] = O[i + 1] /\ i + 1 \in 1..Len(O)
                    /\ Head(O) = O[1] /\ 1 \in 1..Len(O)
    BY <1>0, HeadTailProperties, LenProperties
  <2>2. O # <<>> => /\ \A i \in 1..Len(Tail(O)) : Tail(O)[i].head = "MDUD"
                    /\ Head(O).head = "MDUD"
    BY <1>4, <2>1
  <2>3. \A i \in 1..Len(O') : O'[i].head = "MDUD"
    BY <1>4, <1>8, <2>2 DEF Send
  <2>4. Pout' # NoPacket => Pout'.head = "MDUD"
    BY <1>4, <1>8, <2>2 DEF Send
  <2>5. soutSck' \notin NotThere => soutSck'.head = "MDUD"
    BY <1>4, <1>8 DEF Send, NotThere, Base, DownShapes
  <2>6. granted' = granted
    BY <1>8 DEF Update, client
  <2>. QED
    BY <1>4, <2>3, <2>4, <2>5, <2>6
<1>9. CASE Report
  <2>1. O' = Append(O, Down("MDUD", 0, 0)) /\ UNCHANGED <<granted, Pout, soutSck>>
    BY <1>9 DEF Report, client, files
  <2>2. \A i \in 1..Len(O') : O'[i] = Down("MDUD", 0, 0) \/ (i \in 1..Len(O) /\ O'[i] = O[i])
    BY <1>0, <2>1, LenProperties
  <2>3. Down("MDUD", 0, 0).head = "MDUD"
    BY DEF Down
  <2>. QED
    BY <1>4, <2>1, <2>2, <2>3
<1>10. UNCHANGED <<granted, O, Pout, soutSck>> \/ ReadAnswer \/ RestartClient
         \/ (Update /\ Send) \/ Report
  <2>1. CASE UNCHANGED vars
    BY <2>1 DEF vars, files, client, server
  <2>2. CASE LogIn \/ GiveUp \/ Answered \/ DeleteAnswer
    BY <2>2 DEF LogIn, GiveUp, Answered, DeleteAnswer, files, server
  <2>3. CASE readSocket \/ writeSocket
    BY <2>3 DEF readSocket, writeSocket, server
  <2>4. CASE addPacketToQueue \/ handleReceivingQueue
    BY <2>4 DEF addPacketToQueue, handleReceivingQueue, files, server
  <2>5. CASE Update /\ Receive
    BY <2>5 DEF Update, Receive, Look, Take, Truncate, Unlock, client, files
  <2>6. CASE HandlePacket
    BY <1>3, <2>6 DEF HandlePacket, client, files
  <2>7. CASE SecondUpdate \/ NextRound
    BY <2>7 DEF SecondUpdate, NextRound, client, files
  <2>. QED
    BY <1>2, <2>1, <2>2, <2>3, <2>4, <2>5, <2>6, <2>7
       DEF Next, ClientThread, NetworkThread, Update
<1>. QED
  BY <1>5, <1>6, <1>7, <1>8, <1>9, <1>10

LEMMA LockStep == LockInv /\ [Next]_vars => LockInv'
BY BaseStep, UpLockStep, DownLockStep, BeginningStep, PinStep DEF LockInv
-----------------------------------------------------------------------------
(* The numbers of the packets for the client ascend from the file to the   *)
(* queue, and what is still to be read is newer than what was read.        *)

ToRead == soutLck /\ soutSck \notin NotThere
OrderKept ==
  /\ \A i, j \in 1..Len(O) : i < j => O[i].n < O[j].n
  /\ Pout # NoPacket => \A i \in 1..Len(O) : Pout.n < O[i].n
  /\ soutSck \notin NotThere => \A i \in 1..Len(O) : soutSck.n < O[i].n
Newer ==
  ~restarted =>
    /\ \A i \in 1..Len(O) : seen < O[i].n
    /\ Pout # NoPacket => seen < Pout.n
    /\ ToRead /\ cpc \in {"release", "delete answer"} => soutSck.n <= seen
    /\ ToRead /\ cpc \notin {"release", "delete answer"} => seen < soutSck.n
    /\ granted > 0 /\ ~soutLck /\ spc # "lock" /\ soutSck \notin NotThere
         => soutSck.n <= seen
NumbersInv == LockInv /\ OrderKept /\ Newer

LEMMA NumbersInit == Init => NumbersInv
<1> SUFFICES ASSUME Init PROVE NumbersInv
  OBVIOUS
<1>1. O = <<>> /\ Pout = NoPacket /\ soutSck = Empty
  BY Zenon DEF Init
<1>2. Len(O) = 0 /\ soutSck \in NotThere
  BY <1>1 DEF NotThere
<1>3. 1..Len(O) = {} /\ ~ToRead
  BY <1>2 DEF ToRead
<1>4. OrderKept
  BY <1>1, <1>2, <1>3 DEF OrderKept
<1>5. Newer
  BY <1>1, <1>2, <1>3 DEF Newer
<1>. QED
  BY <1>4, <1>5, LockInit DEF NumbersInv

\* Packets the server has there, and their numbers.
LEMMA Numbered ==
  ASSUME Base
  PROVE  /\ Len(O) \in Nat /\ \A i \in 1..Len(O) : O[i].n \in 1..made
         /\ Pout # NoPacket => Pout.n \in 1..made
         /\ soutSck \notin NotThere => soutSck.n \in 1..made
         /\ made \in Nat /\ seen \in Nat /\ seen <= made
<1>1. Len(O) \in Nat /\ \A i \in 1..Len(O) : O[i] \in DownNow
  BY LenProperties, ElementOfSeq DEF Base, DownShapes
<1>2. Pout # NoPacket => Pout \in DownNow
  BY DEF Base, DownShapes
<1>3. soutSck \notin NotThere => soutSck \in DownNow
  BY DEF Base, DownShapes
<1>. QED
  BY <1>1, <1>2, <1>3 DEF DownNow, Base, Scalars

\* A step that leaves the server's packets and what was read alone.
LEMMA QuietOrder == ASSUME OrderKept, UNCHANGED <<O, Pout, soutSck>> PROVE OrderKept'
BY DEF OrderKept

LEMMA TailOfQueue ==
  ASSUME Base, O # <<>>
  PROVE  /\ Len(Tail(O)) = Len(O) - 1 /\ Head(O) = O[1] /\ 1 \in 1..Len(O)
         /\ \A i \in 1..Len(Tail(O)) : i + 1 \in 1..Len(O) /\ Tail(O)[i] = O[i + 1]
BY HeadTailProperties, LenProperties DEF Base, DownShapes

LEMMA SendOrder == ASSUME LockInv, OrderKept, Update, Send PROVE OrderKept'
<1>1. Base /\ DownLock
  BY DEF LockInv
<1>2. CASE O = <<>> \/ O' = O
  <2>1. CASE UNCHANGED <<O, Pout, soutSck>>
    BY <2>1, QuietOrder
  <2>2. CASE O' = O /\ soutSck' = Pout /\ Pout' = Pout /\ Pout # NoPacket
    BY <2>2 DEF OrderKept
  <2>3. CASE O' = O /\ soutSck' = soutSck /\ Pout' = NoPacket
    BY <2>3 DEF OrderKept
  <2>. QED
    BY <1>1, <1>2, <2>1, <2>2, <2>3 DEF Send, Base, DownShapes
<1>3. CASE O # <<>> /\ O' = Tail(O) /\ spc = "send"
  <2>1. Pout' \in {Pout, Head(O)} /\ soutSck' \in {soutSck, Empty} /\ Pout = NoPacket
    BY <1>1, <1>3 DEF Send, Base, DownShapes
  <2>2. \A i, j \in 1..Len(O') : i < j => O'[i].n < O'[j].n
    BY <1>1, <1>3, TailOfQueue DEF OrderKept
  <2>3. \A i \in 1..Len(O') : Head(O).n < O'[i].n
    BY <1>1, <1>3, TailOfQueue DEF OrderKept
  <2>4. soutSck \notin NotThere => \A i \in 1..Len(O') : soutSck.n < O'[i].n
    BY <1>1, <1>3, TailOfQueue DEF OrderKept
  <2>. QED
    BY <2>1, <2>2, <2>3, <2>4 DEF OrderKept, NotThere
<1>. QED
  BY <1>2, <1>3 DEF Send

\* A packet with the next number goes to the end of the queue.
LEMMA AppendOrder ==
  ASSUME Base, OrderKept, NEW p, p.n = made + 1, O' = Append(O, p),
         UNCHANGED <<Pout, soutSck>>
  PROVE  OrderKept'
<1>1. /\ O \in Seq(DownNow) /\ Len(O) \in Nat /\ Len(O') = Len(O) + 1
      /\ \A i \in 1..Len(O) : O'[i] = O[i]
      /\ O'[Len(O) + 1] = p
  BY LenProperties DEF Base, DownShapes
<1>2. /\ \A i \in 1..Len(O) : O[i].n < p.n
      /\ Pout # NoPacket => Pout.n < p.n
      /\ soutSck \notin NotThere => soutSck.n < p.n
  BY Numbered
<1>3. \A i, j \in 1..Len(O') : i < j => O'[i].n < O'[j].n
  <2> SUFFICES ASSUME NEW i \in 1..Len(O'), NEW j \in 1..Len(O'), i < j
               PROVE  O'[i].n < O'[j].n
    OBVIOUS
  <2>1. i \in 1..Len(O) /\ (j \in 1..Len(O) \/ j = Len(O) + 1)
    BY <1>1
  <2>. QED
    BY <1>1, <1>2, <2>1 DEF OrderKept
<1>4. \A i \in 1..Len(O') : i \in 1..Len(O) \/ i = Len(O) + 1
  BY <1>1
<1>5. Pout # NoPacket => \A i \in 1..Len(O') : Pout.n < O'[i].n
  BY <1>1, <1>2, <1>4 DEF OrderKept
<1>6. soutSck \notin NotThere => \A i \in 1..Len(O') : soutSck.n < O'[i].n
  BY <1>1, <1>2, <1>4 DEF OrderKept
<1>. QED
  BY <1>3, <1>5, <1>6 DEF OrderKept

LEMMA OrderStep == ASSUME LockInv, OrderKept, [Next]_vars PROVE OrderKept'
<1>0. Base
  BY DEF LockInv
<1>1. CASE UNCHANGED <<O, Pout, soutSck>>
  BY <1>1, QuietOrder
<1>2. CASE Update /\ Send
  BY <1>2, SendOrder
<1>3. CASE HandlePacket
  <2>1. UNCHANGED <<Pout, soutSck>>
    BY <1>3 DEF HandlePacket, files
  <2>2. CASE pinLen # 0 /\ HandleAuth(Head(R))
    <3>1. PICK p : O' = <<p>> /\ p.n = made + 1
      BY <2>2 DEF HandleAuth, AuthAlone, Down
    <3>2. Len(O') = 1 /\ O'[1] = p
      BY <3>1
    <3>. QED
      BY <1>0, <2>1, <3>1, <3>2, Numbered DEF OrderKept
  <2>3. CASE pinLen # 0 /\ HandleRequest(Head(R)) /\ user
    <3>1. PICK p : O' = Append(O, p) /\ p.n = made + 1
      BY <2>3 DEF HandleRequest, Down
    <3>. QED
      BY <1>0, <2>1, <3>1, AppendOrder
  <2>4. CASE O' = O
    BY <2>1, <2>4, QuietOrder
  <2>. QED
    BY <1>3, <2>2, <2>3, <2>4 DEF HandlePacket, HandleRequest
<1>4. CASE Report
  <2>1. PICK p : O' = Append(O, p) /\ p.n = made + 1
    BY <1>4 DEF Report, Down
  <2>. QED
    BY <1>0, <1>4, <2>1, AppendOrder DEF Report, files
<1>5. CASE ServerStarts
  <2>1. O' = <<>> /\ Len(O') = 0
    BY <1>5 DEF ServerStarts
  <2>. QED
    BY <2>1 DEF OrderKept
<1>6. UNCHANGED <<O, Pout, soutSck>> \/ (Update /\ Send) \/ HandlePacket \/ Report
         \/ ServerStarts
  <2>1. CASE UNCHANGED vars
    BY <2>1 DEF vars, files, client, server
  <2>2. CASE LogIn \/ GiveUp \/ Answered \/ ReadAnswer \/ DeleteAnswer
    BY <2>2 DEF LogIn, GiveUp, Answered, ReadAnswer, DeleteAnswer, files, server
  <2>3. CASE readSocket \/ writeSocket
    BY <2>3 DEF readSocket, writeSocket, server
  <2>4. CASE addPacketToQueue \/ handleReceivingQueue \/ RestartClient
    BY <2>4 DEF addPacketToQueue, handleReceivingQueue, RestartClient, files, server
  <2>5. CASE Update /\ Receive
    BY <2>5 DEF Update, Receive, Look, Take, Truncate, Unlock, files
  <2>6. CASE SecondUpdate \/ NextRound
    BY <2>6 DEF SecondUpdate, NextRound, files
  <2>. QED
    BY <2>1, <2>2, <2>3, <2>4, <2>5, <2>6 DEF Next, ClientThread, NetworkThread, Update
<1>. QED
  BY <1>1, <1>2, <1>3, <1>4, <1>5, <1>6
\* The client's thread leaves the packet alone, removes the lock of a packet it
\* has read, or reads it; or there is nothing to be read.
After == {"release", "delete answer"}
Leaves == /\ UNCHANGED <<seen, soutLck>> /\ (cpc \in After <=> cpc' \in After)
          /\ granted' > 0 => granted > 0
Unlocks == /\ ~soutLck' /\ seen' = seen
           /\ granted' > 0 => soutLck /\ cpc \in After
Reads == /\ soutSck \notin NotThere /\ seen' = soutSck.n /\ soutLck /\ soutLck'
         /\ cpc \notin After /\ cpc' \in After
FindsNothing == soutSck \in NotThere /\ seen' = seen

LEMMA ClientEffect ==
  ASSUME LockInv, ~restarted, ClientThread
  PROVE  /\ UNCHANGED <<O, Pout, soutSck, spc>>
         /\ Leaves \/ Unlocks \/ Reads \/ FindsNothing
<1>0. Base /\ DownLock /\ Beginning /\ soutLck \in BOOLEAN /\ granted \in Nat
  BY FileLinkAssumption DEF LockInv, Base, Scalars
<1>1. UNCHANGED <<O, Pout, soutSck, spc>>
  BY DEF ClientThread, LogIn, GiveUp, Answered, ReadAnswer, DeleteAnswer, readSocket,
         writeSocket, files, server
<1>2. CASE LogIn
  <2>1. UNCHANGED <<seen, granted>> /\ cpc \in Unanswered
    BY <1>2 DEF LogIn, DeleteOldFiles, PushAuth, history, Unanswered, Login
  <2>2. granted = 0
    BY <1>0, <2>1 DEF Beginning
  <2>3. soutLck' = FALSE \/ (soutLck' = soutLck /\ cpc \notin After /\ cpc' \notin After)
    BY <1>2 DEF LogIn, DeleteOldFiles, PushAuth, After
  <2>. QED
    BY <1>1, <2>1, <2>2, <2>3 DEF Leaves, Unlocks
<1>3. CASE GiveUp \/ Answered
  BY <1>1, <1>3 DEF GiveUp, Answered, files, history, Leaves, After
<1>4. CASE ReadAnswer
  <2>1. cpc = "read answer" /\ soutLck /\ soutLck' = soutLck
    BY <1>0, <1>4 DEF ReadAnswer, DownLock, files
  <2>2. CASE soutSck \in NotThere
    BY <1>1, <1>4, <2>2 DEF ReadAnswer, NotThere, FindsNothing
  <2>3. CASE soutSck \notin NotThere
    BY <1>1, <1>4, <2>1, <2>3 DEF ReadAnswer, NotThere, Reads, After
  <2>. QED
    BY <2>2, <2>3
<1>5. CASE DeleteAnswer
  <2>1. cpc = "delete answer" /\ soutLck /\ soutLck' = FALSE /\ seen' = seen
    BY <1>0, <1>5 DEF DeleteAnswer, DownLock, history
  <2>. QED
    BY <1>1, <2>1 DEF Unlocks, After
<1>6. CASE readSocket
  <2>1. granted' = granted
    BY <1>6 DEF readSocket
  <2>2. CASE cpc = "read"
    BY <1>1, <1>6, <2>1, <2>2 DEF readSocket, ReadFile, Leaves, After
  <2>3. CASE cpc = "take"
    <3>1. soutLck /\ soutLck' = soutLck
      BY <1>0, <1>6, <2>3 DEF readSocket, ReadFile, DownLock
    <3>. QED
      BY <1>1, <1>6, <2>3, <3>1 DEF readSocket, ReadFile, TakeFile, Reads, FindsNothing, After
  <2>4. CASE cpc = "release"
    <3>1. soutLck /\ soutLck' = FALSE /\ seen' = seen
      BY <1>0, <1>6, <2>4 DEF readSocket, ReadFile, DownLock
    <3>. QED
      BY <1>1, <2>4, <3>1 DEF Unlocks, After
  <2>. QED
    BY <1>6, <2>2, <2>3, <2>4 DEF readSocket, ReadFile
<1>7. CASE writeSocket
  BY <1>1, <1>7 DEF writeSocket, history, Leaves, After
<1>. QED
  BY <1>2, <1>3, <1>4, <1>5, <1>6, <1>7 DEF ClientThread

LEMMA ClientNewer ==
  ASSUME LockInv, OrderKept, Newer, ~restarted, ClientThread PROVE Newer'
<1>0. Base /\ DownLock /\ UNCHANGED <<O, Pout, soutSck, spc>>
  BY ClientEffect DEF LockInv
<1>1. CASE Leaves
  BY <1>0, <1>1 DEF Leaves, Newer, ToRead, After
<1>2. CASE Unlocks
  <2>1. ~ToRead'
    BY <1>2 DEF Unlocks, ToRead
  <2>2. granted' > 0 /\ soutSck \notin NotThere => soutSck.n <= seen
    BY <1>2 DEF Unlocks, Newer, ToRead, After
  <2>. QED
    BY <1>0, <1>2, <2>1, <2>2 DEF Unlocks, Newer
<1>3. CASE Reads
  <2>1. Pout = NoPacket
    BY <1>0, <1>3 DEF Reads, DownLock, Base, DownShapes
  <2>2. \A i \in 1..Len(O) : soutSck.n < O[i].n
    BY <1>3 DEF Reads, OrderKept
  <2>3. soutSck.n \in Nat
    BY <1>0, <1>3, Numbered DEF Reads
  <2>4. cpc' \in {"release", "delete answer"} /\ soutLck' /\ seen' = soutSck.n
    BY <1>3 DEF Reads, After
  <2>5. soutSck'.n <= seen'
    <3>1. soutSck' = soutSck
      BY <1>0
    <3>2. seen' = soutSck.n
      BY <2>4
    <3>3. soutSck'.n = soutSck.n
      BY <3>1, Zenon
    <3>. QED
      BY <2>3, <3>2, <3>3
  <2>. QED
    BY <1>0, <2>1, <2>2, <2>4, <2>5 DEF Newer
<1>4. CASE FindsNothing
  <2>1. ~ToRead'
    BY <1>0, <1>4 DEF FindsNothing, ToRead
  <2>. QED
    BY <1>0, <1>4, <2>1 DEF FindsNothing, Newer
<1>. QED
  BY <1>1, <1>2, <1>3, <1>4, ClientEffect

LEMMA SendNewer ==
  ASSUME LockInv, OrderKept, Newer, ~restarted, Update, Send PROVE Newer'
<1>0. /\ Base /\ DownLock /\ UNCHANGED <<seen, cpc, granted, restarted>>
      /\ AfterSend \in {"pause", "handle"}
  BY DEF LockInv, Update, client, history, AfterSend
<1>1. CASE spc = "send" /\ UNCHANGED <<O, Pout, soutSck, soutLck>> /\ spc' # "lock"
  BY <1>0, <1>1 DEF Newer, ToRead
<1>2. CASE spc = "send" /\ O # <<>> /\ O' = Tail(O) /\ UNCHANGED <<soutLck, soutSck, Pout>>
           /\ spc' # "lock"
  <2>1. \A i \in 1..Len(O') : seen < O'[i].n
    BY <1>0, <1>2, TailOfQueue DEF Newer
  <2>. QED
    BY <1>0, <1>2, <2>1 DEF Newer, ToRead
<1>3. CASE spc = "send" /\ O # <<>> /\ O' = Tail(O) /\ soutSck' = Empty
           /\ Pout' = Head(O) /\ spc' = "fill"
  <2>1. (\A i \in 1..Len(O') : seen < O'[i].n) /\ seen < Head(O).n
    BY <1>0, <1>3, TailOfQueue DEF Newer
  <2>2. soutSck' \in NotThere
    BY <1>3 DEF NotThere
  <2>. QED
    BY <1>0, <1>3, <2>1, <2>2 DEF Newer, ToRead
<1>4. CASE spc = "fill"
  <2>1. soutSck' = Pout /\ spc' = "lock" /\ ~soutLck /\ UNCHANGED <<soutLck, O, Pout>>
    BY <1>0, <1>4 DEF Send, DownLock
  <2>. QED
    BY <1>0, <2>1 DEF Newer, ToRead
<1>5. CASE spc = "lock"
  <2>1. soutSck = Pout /\ Pout # NoPacket /\ soutLck' /\ Pout' = NoPacket /\ ~soutLck
        /\ UNCHANGED <<soutSck, O>>
    BY <1>0, <1>5 DEF Send, DownLock, Base, DownShapes
  <2>2. seen < soutSck.n
    BY <2>1 DEF Newer
  <2>3. cpc \notin After
    BY <1>0, <2>1 DEF DownLock, After
  <2>. QED
    BY <1>0, <2>1, <2>2, <2>3 DEF Newer, ToRead, After
<1>. QED
  BY <1>0, <1>1, <1>2, <1>3, <1>4, <1>5 DEF Send

LEMMA AppendNewer ==
  ASSUME Base, Newer, ~restarted, NEW p, p.n = made + 1, O' = Append(O, p),
         UNCHANGED <<cpc, seen, granted, soutLck, soutSck, Pout, restarted>>,
         spc # "lock", spc' # "lock"
  PROVE  Newer'
<1>1. \A i \in 1..Len(O') : (i \in 1..Len(O) /\ O'[i] = O[i]) \/ O'[i] = p
  BY LenProperties DEF Base, DownShapes
<1>2. seen < p.n
  BY Numbered
<1>3. \A i \in 1..Len(O') : seen < O'[i].n
  BY <1>1, <1>2 DEF Newer
<1>. QED
  BY <1>3 DEF Newer, ToRead

LEMMA NewerStep == ASSUME LockInv, OrderKept, Newer, [Next]_vars PROVE Newer'
<1>0. Base /\ DownLock /\ Beginning
  BY DEF LockInv
<1>1. CASE RestartClient
  <2>1. /\ seen' = 0 /\ granted' = 0 /\ cpc' = "delete sout.lck"
        /\ UNCHANGED <<O, Pout, soutSck, soutLck>>
    BY <1>1 DEF RestartClient, files, server
  <2>2. /\ \A i \in 1..Len(O) : 0 < O[i].n
        /\ Pout # NoPacket => 0 < Pout.n
        /\ soutSck \notin NotThere => 0 < soutSck.n
    BY <1>0, Numbered
  <2>3. ~(granted' > 0) /\ cpc' \notin {"release", "delete answer"}
    <3>1. granted' = 0
      BY <2>1, Zenon
    <3>2. ~(granted' > 0)
      BY <3>1
    <3>. QED
      BY <2>1, <3>2
  <2>4. ToRead' => soutSck' \notin NotThere
    BY DEF ToRead
  <2>5. seen' = 0 /\ UNCHANGED <<O, Pout, soutSck>>
    BY <2>1
  <2>. QED
    BY <2>2, <2>3, <2>4, <2>5 DEF Newer
<1>2. CASE ServerStarts
  BY <1>2 DEF ServerStarts, Newer
<1>3. ~RestartClient /\ ~ServerStarts => restarted' = restarted
  <2>1. CASE UNCHANGED vars
    BY <2>1 DEF vars, history
  <2>2. CASE ClientThread
    BY <2>2 DEF ClientThread, LogIn, GiveUp, Answered, ReadAnswer, DeleteAnswer, readSocket,
                writeSocket, history
  <2>3. CASE addPacketToQueue \/ handleReceivingQueue
    BY <2>3 DEF addPacketToQueue, handleReceivingQueue, history
  <2>4. CASE NetworkThread \/ Report
    BY <2>4 DEF NetworkThread, Update, HandlePacket, SecondUpdate, NextRound, Report, history
  <2>. QED
    BY <2>1, <2>2, <2>3, <2>4 DEF Next
<1>4. CASE restarted' /\ ~RestartClient /\ ~ServerStarts
  BY <1>4 DEF Newer
<1>5. CASE ~restarted /\ ~restarted' /\ ~RestartClient /\ ~ServerStarts
  <2>1. CASE UNCHANGED <<O, Pout, soutSck, soutLck, seen, cpc, granted>>
             /\ (spc = "lock" <=> spc' = "lock")
    BY <1>5, <2>1 DEF Newer, ToRead
  <2>2. CASE ClientThread
    BY <1>5, <2>2, ClientNewer
  <2>3. CASE Update /\ Send
    BY <1>5, <2>3, SendNewer
  <2>4. CASE HandlePacket
    <3>1. /\ UNCHANGED <<Pout, soutSck, soutLck, seen, cpc, granted, restarted>>
          /\ spc = "handle" /\ spc' # "lock"
      BY <2>4 DEF HandlePacket, files, client
    <3>2. CASE pinLen # 0 /\ HandleAuth(Head(R))
      <4>1. PICK p : O' = <<p>> /\ p.n = made + 1
        BY <3>2 DEF HandleAuth, AuthAlone, Down
      <4>2. Len(O') = 1 /\ O'[1] = p /\ seen < p.n
        BY <1>0, <4>1, Numbered
      <4>3. \A i \in 1..Len(O') : seen < O'[i].n
        BY <4>2
      <4>. QED
        BY <1>5, <3>1, <4>3 DEF Newer, ToRead
    <3>3. CASE pinLen # 0 /\ HandleRequest(Head(R)) /\ user
      <4>1. PICK p : O' = Append(O, p) /\ p.n = made + 1
        BY <3>3 DEF HandleRequest, Down
      <4>. QED
        BY <1>0, <1>5, <3>1, <4>1, AppendNewer
    <3>4. CASE O' = O
      BY <1>5, <3>1, <3>4 DEF Newer, ToRead
    <3>. QED
      BY <2>4, <3>2, <3>3, <3>4 DEF HandlePacket, HandleRequest
  <2>5. CASE Report
    <3>1. PICK p : O' = Append(O, p) /\ p.n = made + 1
      BY <2>5 DEF Report, Down
    <3>. QED
      BY <1>0, <1>5, <2>5, <3>1, AppendNewer DEF Report, files, client
  <2>6. \/ /\ UNCHANGED <<O, Pout, soutSck, soutLck, seen, cpc, granted>>
           /\ spc = "lock" <=> spc' = "lock"
        \/ ClientThread \/ (Update /\ Send) \/ HandlePacket \/ Report
    <3>1. CASE UNCHANGED vars
      BY <3>1 DEF vars, files, client, server, history
    <3>2. CASE addPacketToQueue \/ handleReceivingQueue
      BY <3>2 DEF addPacketToQueue, handleReceivingQueue, files, server, history
    <3>3. CASE Update /\ Receive
      BY <3>3 DEF Update, Receive, Look, Take, Truncate, Unlock, files, client, history
    <3>4. CASE SecondUpdate \/ NextRound
      BY <3>4 DEF SecondUpdate, NextRound, files, client, history
    <3>. QED
      BY <1>5, <3>1, <3>2, <3>3, <3>4 DEF Next, NetworkThread, Update
  <2>. QED
    BY <2>1, <2>2, <2>3, <2>4, <2>5, <2>6
<1>6. restarted \in BOOLEAN
  BY <1>0 DEF Base, Scalars
<1>. QED
  BY <1>1, <1>2, <1>3, <1>4, <1>5, <1>6

LEMMA NumbersStep == NumbersInv /\ [Next]_vars => NumbersInv'
BY LockStep, OrderStep, NewerStep DEF NumbersInv
LEMMA ReadingStep ==
  ASSUME NumbersInv, [Next]_vars, ~restarted, session' = session
  PROVE  seen' >= seen /\ (Len(cR') > Len(cR) => seen' > seen)
<1>0. /\ Base /\ LockInv /\ Newer /\ seen \in Nat
      /\ cR \in Seq(DownNow) /\ Len(cR) \in Nat /\ session \in Nat
  BY FileLinkAssumption, LenProperties DEF NumbersInv, LockInv, Base, Scalars, DownShapes
<1>1. CASE seen' = seen /\ (cR' = cR \/ (cR # <<>> /\ cR' = Tail(cR)))
  <2>1. Len(cR') <= Len(cR)
    BY <1>0, <1>1, HeadTailProperties
  <2>2. Len(cR') \in Nat
    BY <1>0, <1>1, HeadTailProperties, LenProperties
  <2>. QED
    BY <1>0, <1>1, <2>1, <2>2
<1>2. CASE Reads
  <2>1. seen < soutSck.n /\ seen' = soutSck.n
    BY <1>0, <1>2 DEF Reads, Newer, ToRead, After
  <2>2. soutSck.n \in Nat
    BY <1>0, <1>2, Numbered DEF Reads
  <2>. QED
    BY <1>0, <2>1, <2>2
<1>3. CASE ClientThread
  <2>1. CASE ReadAnswer
    <3>1. cR' = cR
      BY <2>1 DEF ReadAnswer
    <3>2. Reads \/ seen' = seen
      BY <1>0, <1>3, ClientEffect DEF Leaves, Unlocks, FindsNothing
    <3>. QED
      BY <1>1, <1>2, <3>1, <3>2
  <2>2. CASE readSocket
    <3>1. CASE cpc = "take"
      <4>1. CASE soutSck \in NotThere
        BY <1>1, <2>2, <3>1, <4>1 DEF readSocket, ReadFile, TakeFile
      <4>2. CASE soutSck \notin NotThere
        <5>1. soutLck /\ soutLck' = soutLck
          BY <1>0, <2>2, <3>1 DEF readSocket, ReadFile, LockInv, DownLock
        <5>2. Reads
          BY <2>2, <3>1, <4>2, <5>1 DEF readSocket, ReadFile, TakeFile, Reads, After
        <5>. QED
          BY <1>2, <5>2
      <4>. QED
        BY <4>1, <4>2
    <3>2. CASE cpc # "take"
      BY <1>1, <2>2, <3>2 DEF readSocket, ReadFile
    <3>. QED
      BY <3>1, <3>2
  <2>3. CASE LogIn \/ GiveUp \/ Answered \/ DeleteAnswer \/ writeSocket
    BY <1>1, <2>3 DEF LogIn, GiveUp, Answered, DeleteAnswer, writeSocket, history
  <2>. QED
    BY <1>3, <2>1, <2>2, <2>3 DEF ClientThread
<1>4. CASE ~ClientThread
  <2>1. CASE UNCHANGED vars
    BY <1>1, <2>1 DEF vars, client, history
  <2>2. CASE addPacketToQueue \/ handleReceivingQueue
    BY <1>1, <2>2 DEF addPacketToQueue, handleReceivingQueue, history
  <2>3. CASE RestartClient
    <3>1. session' = session + 1
      BY <2>3 DEF RestartClient
    <3>. QED
      BY <1>0, <3>1
  <2>4. CASE NetworkThread \/ Report \/ ServerStarts
    <3>1. UNCHANGED client /\ seen' = seen
      BY <2>4 DEF NetworkThread, Update, HandlePacket, SecondUpdate, NextRound, Report,
                  ServerStarts, history
    <3>. QED
      BY <1>1, <3>1 DEF client
  <2>. QED
    BY <1>4, <2>1, <2>2, <2>3, <2>4 DEF Next
<1>. QED
  BY <1>3, <1>4

LEMMA WritingStep ==
  ASSUME NumbersInv, [Next]_vars, Undisturbed, restarted' = restarted,
         soutSck \in DownPackets, soutSck' # soutSck
  PROVE  seen >= soutSck.n
<1>0. /\ Base /\ DownLock /\ Newer /\ seen \in Nat /\ ~restarted /\ granted > 0
      /\ soutSck \notin NotThere
  BY FileLinkAssumption, Fixed DEF NumbersInv, LockInv, Base, Scalars, Undisturbed
<1>1. Update /\ Send
  <2>1. CASE ServerStarts
    BY <1>0, <2>1 DEF ServerStarts
  <2>2. CASE UNCHANGED vars
    BY <2>2 DEF vars, files
  <2>3. CASE ClientThread
    BY <2>3 DEF ClientThread, LogIn, GiveUp, Answered, ReadAnswer, DeleteAnswer, readSocket,
                writeSocket, files
  <2>4. CASE addPacketToQueue \/ handleReceivingQueue \/ RestartClient
    BY <2>4 DEF addPacketToQueue, handleReceivingQueue, RestartClient, files
  <2>5. CASE Update /\ Receive
    BY <2>5 DEF Update, Receive, Look, Take, Truncate, Unlock, files
  <2>6. CASE HandlePacket \/ SecondUpdate \/ NextRound \/ Report
    BY <2>6 DEF HandlePacket, SecondUpdate, NextRound, Report, files
  <2>. QED
    BY <2>1, <2>2, <2>3, <2>4, <2>5, <2>6 DEF Next, NetworkThread, Update
<1>2. spc # "fill"
  BY <1>0 DEF DownLock, NotThere
<1>3. spc = "send" /\ ~soutLck
  BY <1>1, <1>2 DEF Send, MaySend
<1>4. soutSck.n <= seen
  BY <1>0, <1>3 DEF Newer
<1>5. soutSck.n \in Nat
  BY <1>0, Numbered
<1>. QED
  BY <1>0, <1>4, <1>5

\* Packets may be dropped, but what a client reads it has not read before, and
\* nothing older comes after it, as long as the server is not restarted: the
\* client removes the lock of a packet it has read, and the server touches the
\* file only without it.
THEOREM PacketsReadInOrder == Spec => ReadInOrder
<1> DEFINE Read == ~restarted /\ session' = session =>
                     seen' >= seen /\ (Len(cR') > Len(cR) => seen' > seen)
<1>1. NumbersInv /\ [Next]_vars => [Read]_vars
  BY ReadingStep
<1>2. QED
  BY NumbersInit, NumbersStep, <1>1, PTL DEF Spec, ReadInOrder

\* A packet in sout.sck is not overwritten before the client it is for has read it.
THEOREM UnreadPacketsStay == Spec => NotOverwritten
<1> DEFINE Stays == Undisturbed /\ session' = session /\ restarted' = restarted
                      /\ soutSck \in DownPackets /\ soutSck.session = session
                      /\ soutSck' # soutSck
                    => seen >= soutSck.n
<1>1. NumbersInv /\ [Next]_vars => [Stays]_vars
  BY WritingStep
<1>2. QED
  BY NumbersInit, NumbersStep, <1>1, PTL DEF Spec, NotOverwritten
-----------------------------------------------------------------------------
(* The requests of a session that are in a sequence of packets: their      *)
(* numbers, and whether they are in order.                                 *)

Asks(p, k) == p.session = k /\ p.head = "SSLT"
Numbers(s, k) == {s[i].replyAddr - 1 : i \in {j \in 1..Len(s) : Asks(s[j], k)}}
Ascends(s, k) == \A i, j \in 1..Len(s) :
                   Asks(s[i], k) /\ Asks(s[j], k) /\ i < j
                     => s[i].replyAddr < s[j].replyAddr

LEMMA UpNumbers == \A p \in UpPackets : p.replyAddr \in Int /\ p.session \in Int
BY FileLinkAssumption DEF UpPackets

LEMMA NumberIn ==
  ASSUME NEW s, NEW k, NEW i \in 1..Len(s), Asks(s[i], k)
  PROVE  s[i].replyAddr - 1 \in Numbers(s, k)
BY DEF Numbers

LEMMA NumbersHave ==
  ASSUME NEW s, NEW k, NEW n \in Numbers(s, k)
  PROVE  \E i \in 1..Len(s) : Asks(s[i], k) /\ n = s[i].replyAddr - 1
BY DEF Numbers

LEMMA Joined ==
  ASSUME NEW s \in Seq(UpPackets), NEW t \in Seq(UpPackets)
  PROVE  /\ s \o t \in Seq(UpPackets) /\ Len(s \o t) = Len(s) + Len(t)
         /\ Len(s) \in Nat /\ Len(t) \in Nat
         /\ \A i \in 1..Len(s) : (s \o t)[i] = s[i] /\ s[i] \in UpPackets
         /\ \A i \in 1..Len(t) : (s \o t)[Len(s) + i] = t[i] /\ t[i] \in UpPackets
BY ConcatProperties, LenProperties, ElementOfSeq

LEMMA Associates ==
  ASSUME NEW s \in Seq(UpPackets), NEW t \in Seq(UpPackets), NEW u \in Seq(UpPackets)
  PROVE  (s \o t) \o u = s \o (t \o u)
BY ConcatAssociative

LEMMA NumbersOfBoth ==
  ASSUME NEW s \in Seq(UpPackets), NEW t \in Seq(UpPackets), NEW k
  PROVE  Numbers(s \o t, k) = Numbers(s, k) \cup Numbers(t, k)
<1>1. ASSUME NEW n \in Numbers(s \o t, k) PROVE n \in Numbers(s, k) \cup Numbers(t, k)
  <2>1. PICK i \in 1..Len(s \o t) : Asks((s \o t)[i], k) /\ n = (s \o t)[i].replyAddr - 1
    BY <1>1, NumbersHave
  <2>2. CASE i \in 1..Len(s)
    BY <2>1, <2>2, Joined, NumberIn
  <2>3. CASE i \notin 1..Len(s)
    <3>1. PICK j \in 1..Len(t) : i = Len(s) + j
      <4>1. i - Len(s) \in 1..Len(t) /\ i = Len(s) + (i - Len(s))
        BY <2>3, Joined
      <4>. QED
        BY <4>1
    <3>. QED
      BY <2>1, <3>1, Joined, NumberIn
  <2>. QED
    BY <2>2, <2>3
<1>2. ASSUME NEW n \in Numbers(s, k) PROVE n \in Numbers(s \o t, k)
  <2>1. PICK i \in 1..Len(s) : Asks(s[i], k) /\ n = s[i].replyAddr - 1
    BY <1>2, NumbersHave
  <2>2. i \in 1..Len(s \o t) /\ (s \o t)[i] = s[i]
    BY Joined
  <2>. QED
    BY <2>1, <2>2, NumberIn
<1>3. ASSUME NEW n \in Numbers(t, k) PROVE n \in Numbers(s \o t, k)
  <2>1. PICK i \in 1..Len(t) : Asks(t[i], k) /\ n = t[i].replyAddr - 1
    BY <1>3, NumbersHave
  <2>2. Len(s) + i \in 1..Len(s \o t) /\ (s \o t)[Len(s) + i] = t[i]
    BY Joined
  <2>. QED
    BY <2>1, <2>2, NumberIn
<1>. QED
  BY <1>1, <1>2, <1>3

LEMMA AscendBoth ==
  ASSUME NEW s \in Seq(UpPackets), NEW t \in Seq(UpPackets), NEW k,
         Ascends(s, k), Ascends(t, k),
         \A m \in Numbers(s, k), n \in Numbers(t, k) : m < n
  PROVE  Ascends(s \o t, k)
<1> SUFFICES ASSUME NEW i \in 1..Len(s \o t), NEW j \in 1..Len(s \o t),
                    Asks((s \o t)[i], k), Asks((s \o t)[j], k), i < j
             PROVE  (s \o t)[i].replyAddr < (s \o t)[j].replyAddr
  BY DEF Ascends
<1>1. CASE j \in 1..Len(s)
  <2>1. i \in 1..Len(s)
    BY <1>1, Joined
  <2>. QED
    BY <1>1, <2>1, Joined DEF Ascends
<1>2. CASE i \in 1..Len(s) /\ j \notin 1..Len(s)
  <2>1. PICK h \in 1..Len(t) : j = Len(s) + h
    <3>1. j - Len(s) \in 1..Len(t) /\ j = Len(s) + (j - Len(s))
      BY <1>2, Joined
    <3>. QED
      BY <3>1
  <2>2. (s \o t)[i] = s[i] /\ (s \o t)[j] = t[h] /\ s[i] \in UpPackets /\ t[h] \in UpPackets
    BY <1>2, <2>1, Joined
  <2>3. s[i].replyAddr - 1 < t[h].replyAddr - 1
    <3>1. s[i].replyAddr - 1 \in Numbers(s, k) /\ t[h].replyAddr - 1 \in Numbers(t, k)
      BY <1>2, <2>2, NumberIn
    <3>. QED
      BY <3>1
  <2>4. s[i].replyAddr \in Int /\ t[h].replyAddr \in Int
    <3>1. 1..(MaxAsks + 1) \subseteq Int
      OBVIOUS
    <3>2. s[i].replyAddr \in 1..(MaxAsks + 1) /\ t[h].replyAddr \in 1..(MaxAsks + 1)
      BY <2>2 DEF UpPackets
    <3>. QED
      BY <3>1, <3>2
  <2>5. s[i].replyAddr < t[h].replyAddr
    BY <2>3, <2>4
  <2>. QED
    BY <2>2, <2>5
<1>3. CASE i \notin 1..Len(s)
  <2>1. PICK g \in 1..Len(t), h \in 1..Len(t) : i = Len(s) + g /\ j = Len(s) + h
    <3>1. /\ i - Len(s) \in 1..Len(t) /\ i = Len(s) + (i - Len(s))
          /\ j - Len(s) \in 1..Len(t) /\ j = Len(s) + (j - Len(s))
      BY <1>3, Joined
    <3>. QED
      BY <3>1
  <2>2. (s \o t)[i] = t[g] /\ (s \o t)[j] = t[h] /\ g < h
    BY <2>1, Joined
  <2>. QED
    BY <2>2 DEF Ascends
<1>. QED
  BY <1>1, <1>2, <1>3

\* The converse.
LEMMA PartsAscend ==
  ASSUME NEW s \in Seq(UpPackets), NEW t \in Seq(UpPackets), NEW k, Ascends(s \o t, k)
  PROVE  /\ Ascends(s, k) /\ Ascends(t, k)
         /\ \A m \in Numbers(s, k), n \in Numbers(t, k) : m < n
<1>1. Ascends(s, k)
  <2> SUFFICES ASSUME NEW i \in 1..Len(s), NEW j \in 1..Len(s),
                      Asks(s[i], k), Asks(s[j], k), i < j
               PROVE  s[i].replyAddr < s[j].replyAddr
    BY DEF Ascends
  <2>1. /\ i \in 1..Len(s \o t) /\ (s \o t)[i] = s[i]
        /\ j \in 1..Len(s \o t) /\ (s \o t)[j] = s[j]
    BY Joined
  <2>. QED
    BY <2>1 DEF Ascends
<1>2. Ascends(t, k)
  <2> SUFFICES ASSUME NEW i \in 1..Len(t), NEW j \in 1..Len(t),
                      Asks(t[i], k), Asks(t[j], k), i < j
               PROVE  t[i].replyAddr < t[j].replyAddr
    BY DEF Ascends
  <2>1. /\ Len(s) + i \in 1..Len(s \o t) /\ (s \o t)[Len(s) + i] = t[i]
        /\ Len(s) + j \in 1..Len(s \o t) /\ (s \o t)[Len(s) + j] = t[j]
        /\ Len(s) + i < Len(s) + j
    BY Joined
  <2>. QED
    BY <2>1 DEF Ascends
<1>3. ASSUME NEW m \in Numbers(s, k), NEW n \in Numbers(t, k) PROVE m < n
  <2>1. PICK i \in 1..Len(s) : Asks(s[i], k) /\ m = s[i].replyAddr - 1
    BY <1>3, NumbersHave
  <2>2. PICK j \in 1..Len(t) : Asks(t[j], k) /\ n = t[j].replyAddr - 1
    BY <1>3, NumbersHave
  <2>3. /\ i \in 1..Len(s \o t) /\ (s \o t)[i] = s[i] /\ s[i] \in UpPackets
        /\ Len(s) + j \in 1..Len(s \o t) /\ (s \o t)[Len(s) + j] = t[j] /\ t[j] \in UpPackets
        /\ i < Len(s) + j
    BY Joined
  <2>4. s[i].replyAddr < t[j].replyAddr
    BY <2>1, <2>2, <2>3 DEF Ascends
  <2>5. s[i].replyAddr \in Int /\ t[j].replyAddr \in Int
    BY <2>3, UpNumbers
  <2>6. m = s[i].replyAddr - 1 /\ n = t[j].replyAddr - 1
    BY <2>1, <2>2
  <2>. QED
    BY <2>4, <2>5, <2>6
<1>. QED
  BY <1>1, <1>2, <1>3

LEMMA SingleNumber ==
  ASSUME NEW p \in UpPackets, NEW k
  PROVE  /\ <<p>> \in Seq(UpPackets) /\ Ascends(<<p>>, k)
         /\ Asks(p, k) => Numbers(<<p>>, k) = {p.replyAddr - 1}
         /\ ~Asks(p, k) => Numbers(<<p>>, k) = {}
<1>1. Len(<<p>>) = 1 /\ <<p>>[1] = p /\ <<p>> \in Seq(UpPackets)
  OBVIOUS
<1>2. Ascends(<<p>>, k)
  BY <1>1 DEF Ascends
<1>3. \A n \in Numbers(<<p>>, k) : Asks(p, k) /\ n = p.replyAddr - 1
  BY <1>1, NumbersHave
<1>4. Asks(p, k) => p.replyAddr - 1 \in Numbers(<<p>>, k)
  BY <1>1, NumberIn
<1>. QED
  BY <1>1, <1>2, <1>3, <1>4
-----------------------------------------------------------------------------
(* The requests of the client that is running: handled, or on their way.   *)

RequestsKept ==
  ~restarted /\ pinLen # 0 =>
    /\ Numbers(OnTheWay, session) = (handled + 1)..asked
    /\ Ascends(OnTheWay, session)
RequestsInv == NumbersInv /\ RequestsKept

LEMMA PartTypes ==
  ASSUME Base
  PROVE  /\ R \in Seq(UpNow) /\ InFile \in Seq(UpNow)
         /\ InPout \in Seq(UpNow) /\ cO \in Seq(UpNow)
         /\ R \in Seq(UpPackets) /\ InFile \in Seq(UpPackets)
         /\ InPout \in Seq(UpPackets) /\ cO \in Seq(UpPackets)
<1>1. R \in Seq(UpNow) /\ cO \in Seq(UpNow)
  BY Subsets, SeqMonotonic DEF Base, UpShapes
<1>2. InFile \in Seq(UpNow)
  <2>1. sinSck \in UpPackets => sinSck \in UpNow
    BY Fixed DEF Base, UpShapes
  <2>. QED
    BY <2>1, EmptySeq DEF InFile
<1>3. InPout \in Seq(UpNow)
  <2>1. cPout # NoPacket => cPout \in UpNow
    BY Subsets DEF Base, UpShapes
  <2>. QED
    BY <2>1, EmptySeq DEF InPout
<1>4. Seq(UpNow) \subseteq Seq(UpPackets)
  BY Subsets, SeqMonotonic
<1>. QED
  BY <1>1, <1>2, <1>3, <1>4

LEMMA NothingAsked ==
  ASSUME Base, asked = 0
  PROVE  Numbers(OnTheWay, session) = (handled + 1)..asked /\ Ascends(OnTheWay, session)
<1>1. OnTheWay \in Seq(UpNow)
  <2>1. R \o InFile \in Seq(UpNow) /\ InPout \o cO \in Seq(UpNow)
    BY PartTypes, ConcatProperties
  <2>. QED
    BY <2>1, ConcatProperties DEF OnTheWay
<1>2. \A p \in UpNow : ~Asks(p, session)
  BY UpNumbers DEF UpNow, Asks
<1>3. \A i \in 1..Len(OnTheWay) : ~Asks(OnTheWay[i], session)
  BY <1>1, <1>2, ElementOfSeq
<1>4. Numbers(OnTheWay, session) = {} /\ Ascends(OnTheWay, session)
  <2>1. Ascends(OnTheWay, session)
    BY <1>3 DEF Ascends
  <2>2. \A n \in Numbers(OnTheWay, session) : FALSE
    BY <1>3, NumbersHave
  <2>. QED
    BY <2>1, <2>2
<1>5. handled = 0
  BY DEF Base, Scalars
<1>6. (handled + 1)..asked = {}
  BY <1>5
<1>. QED
  BY <1>4, <1>6

InLine == Numbers(OnTheWay, session) = (handled + 1)..asked /\ Ascends(OnTheWay, session)
Fresh == Base /\ asked = 0
LEMMA NothingAskedNow == Fresh => InLine
BY NothingAsked DEF Fresh, InLine
LEMMA NothingAskedThen == Fresh' => InLine'
BY NothingAskedNow, PTL

LEMMA RequestsInit == Init => RequestsInv
<1> SUFFICES ASSUME Init PROVE RequestsInv
  OBVIOUS
<1>1. asked = 0 /\ Base
  <2>1. asked = 0
    BY Zenon DEF Init
  <2>. QED
    BY <2>1, BaseInit
<1>. QED
  BY <1>1, NothingAsked, NumbersInit DEF RequestsInv, RequestsKept

\* What is handed on stays in line.
LEMMA HandedOn ==
  ASSUME NEW s \in Seq(UpPackets), NEW t \in Seq(UpPackets),
         NEW u \in Seq(UpPackets), NEW v \in Seq(UpPackets)
  PROVE  /\ ((s \o t) \o <<>>) \o (u \o v) = (s \o t) \o (u \o v)
         /\ (s \o u) \o (<<>> \o v) = (s \o <<>>) \o (u \o v)
         /\ s \o <<>> = s /\ <<>> \o s = s
<1>1. s \o t \in Seq(UpPackets) /\ u \o v \in Seq(UpPackets)
  BY ConcatProperties
<1>2. /\ (s \o t) \o <<>> = s \o t /\ s \o <<>> = s /\ <<>> \o v = v /\ <<>> \o s = s
  BY <1>1, ConcatEmptySeq
<1>3. (s \o u) \o v = s \o (u \o v)
  BY Associates
<1>. QED
  BY <1>2, <1>3

\* Every packet is handed on in one step: none is lost, and none is in two places.
LEMMA TakeLine ==
  ASSUME LockInv, Take, UNCHANGED <<cPout, cO>>, cpc \notin Login
  PROVE  OnTheWay' = OnTheWay
<1>1. Base /\ UpLock /\ sinLck /\ spc = "take" /\ sinSck' = sinSck /\ sinLck' = sinLck
  BY DEF LockInv, UpLock, Take, files
<1>2. InPout' = InPout
  BY DEF InPout
<1>3. CASE sinSck \in NotThere
  <2>1. R' = R /\ InFile = <<>> /\ InFile' = <<>>
    BY <1>1, <1>3, Fixed DEF Take, InFile
  <2>. QED
    BY <1>2, <2>1 DEF OnTheWay
<1>4. CASE sinSck \notin NotThere
  <2>1. sinSck \in UpPackets
    BY <1>1, <1>4, Subsets DEF Base, UpShapes
  <2>2. InFile = <<sinSck>> /\ InFile' = <<>> /\ R' = Append(R, sinSck)
    BY <1>1, <1>4, <2>1 DEF Take, InFile, NotThere
  <2>3. R' = R \o InFile
    BY <1>1, <2>1, <2>2, PartTypes, AppendIsConcat
  <2>. QED
    BY <1>1, <1>2, <2>2, <2>3, PartTypes, HandedOn DEF OnTheWay
<1>. QED
  BY <1>3, <1>4

LEMMA WriteLine ==
  ASSUME LockInv, writeSocket, ~restarted
  PROVE  OnTheWay' = OnTheWay
<1>1. Base /\ UpLock /\ R' = R /\ spc' = spc /\ cpc \notin Login
  BY DEF LockInv, writeSocket, server, Login
<1>2. CASE cpc = "write"
  <2>1. InPout' \o cO' = InPout \o cO
    <3>1. CASE UNCHANGED <<cO, cPout>>
      BY <3>1 DEF InPout
    <3>2. CASE cPout = NoPacket /\ cO # <<>> /\ cPout' = Head(cO) /\ cO' = Tail(cO)
      <4>1. Head(cO) # NoPacket
        BY <1>1, <3>2, HeadTailProperties, Subsets, Fixed DEF Base, UpShapes
      <4>2. InPout = <<>> /\ InPout' = <<Head(cO)>>
        BY <3>2, <4>1 DEF InPout
      <4>3. <<Head(cO)>> \o Tail(cO) = cO /\ <<>> \o cO = cO
        BY <1>1, <3>2, PartTypes, HeadTailProperties, ConcatEmptySeq
      <4>. QED
        BY <3>2, <4>2, <4>3
    <3>. QED
      BY <1>2, <3>1, <3>2 DEF writeSocket, PopOut
  <2>2. InFile' = InFile
    <3>1. CASE UNCHANGED <<sinSck, sinLck>>
      BY <1>1, <3>1 DEF InFile
    <3>2. CASE ~sinLck /\ sinLck' = sinLck
      BY <3>2 DEF InFile
    <3>. QED
      BY <1>2, <3>1, <3>2 DEF writeSocket, MayWrite
  <2>. QED
    BY <1>1, <2>1, <2>2 DEF OnTheWay
<1>3. CASE cpc = "fill"
  <2>1. ~sinLck /\ UNCHANGED <<sinLck, cO, cPout>>
    BY <1>1, <1>3 DEF writeSocket, UpLock
  <2>2. InFile' = InFile /\ InPout' = InPout
    BY <2>1 DEF InFile, InPout
  <2>. QED
    BY <1>1, <2>1, <2>2 DEF OnTheWay
<1>4. CASE cpc = "lock"
  <2>1. /\ ~sinLck /\ sinLck' /\ cPout # NoPacket /\ cPout' = NoPacket
        /\ UNCHANGED <<sinSck, cO>> /\ sinSck = cPout /\ spc # "truncate"
    BY <1>1, <1>4 DEF writeSocket, UpLock, Base, UpShapes
  <2>2. cPout \in UpPackets
    BY <1>1, <2>1, Subsets DEF Base, UpShapes
  <2>3. InFile = <<>> /\ InFile' = InPout /\ InPout' = <<>>
    BY <1>1, <2>1, <2>2 DEF InFile, InPout
  <2>. QED
    BY <1>1, <2>1, <2>3, PartTypes, HandedOn DEF OnTheWay
<1>. QED
  BY <1>2, <1>3, <1>4 DEF writeSocket

\* A lock that is removed hides no request.
LEMMA UnlockLine ==
  ASSUME LockInv, Unlock, UNCHANGED <<cPout, cO>>, NEW k
  PROVE  /\ Numbers(OnTheWay', k) = Numbers(OnTheWay, k)
         /\ Ascends(OnTheWay, k) => Ascends(OnTheWay', k)
<1>1. Base /\ UpLock /\ R' = R /\ sinLck' = FALSE /\ InPout' = InPout /\ spc = "unlock"
  BY DEF LockInv, Unlock, RemoveLock, InPout
<1>2. InFile' = <<>>
  BY <1>1 DEF InFile
<1>3. Numbers(InFile, k) = {}
  <2>1. CASE InFile = <<>>
    <3>1. Len(InFile) = 0
      BY <2>1
    <3>2. \A n \in Numbers(InFile, k) : FALSE
      BY <3>1, NumbersHave
    <3>. QED
      BY <3>2
  <2>2. CASE InFile = <<sinSck>> /\ sinSck \in UpPackets
    <3>1. ~Asks(sinSck, k)
      BY <1>1, <2>2, Fixed DEF UpLock, Asks
    <3>. QED
      BY <2>2, <3>1, SingleNumber
  <2>. QED
    BY <2>1, <2>2 DEF InFile
<1> DEFINE rest == InPout \o cO
<1>4. R \in Seq(UpPackets) /\ InFile \in Seq(UpPackets) /\ rest \in Seq(UpPackets)
  BY <1>1, PartTypes, ConcatProperties
<1>5. OnTheWay' = R \o rest /\ OnTheWay = (R \o InFile) \o rest
  <2>1. R \o <<>> = R
    BY <1>4, ConcatEmptySeq
  <2>. QED
    BY <1>1, <1>2, <2>1 DEF OnTheWay
<1> HIDE DEF rest
<1>6. R \o InFile \in Seq(UpPackets) /\ Numbers(R \o InFile, k) = Numbers(R, k)
  <2>1. R \o InFile \in Seq(UpPackets)
    BY <1>4, ConcatProperties
  <2>2. Numbers(R \o InFile, k) = Numbers(R, k) \cup Numbers(InFile, k)
    BY <1>4, NumbersOfBoth
  <2>. QED
    BY <1>3, <2>1, <2>2
<1>7. Numbers(OnTheWay', k) = Numbers(OnTheWay, k)
  <2>1. Numbers(R \o rest, k) = Numbers(R, k) \cup Numbers(rest, k)
    BY <1>4, NumbersOfBoth
  <2>2. Numbers((R \o InFile) \o rest, k) = Numbers(R \o InFile, k) \cup Numbers(rest, k)
    BY <1>4, <1>6, NumbersOfBoth
  <2>. QED
    BY <1>5, <1>6, <2>1, <2>2
<1>8. ASSUME Ascends(OnTheWay, k) PROVE Ascends(OnTheWay', k)
  <2>1. /\ Ascends(R \o InFile, k) /\ Ascends(rest, k)
        /\ \A m \in Numbers(R \o InFile, k), n \in Numbers(rest, k) : m < n
    BY <1>4, <1>5, <1>6, <1>8, PartsAscend
  <2>2. Ascends(R, k)
    BY <1>4, <2>1, PartsAscend
  <2>. QED
    BY <1>4, <1>5, <1>6, <2>1, <2>2, AscendBoth
<1>. QED
  BY <1>7, <1>8
\* The first in line is handled.
LineFrom(s, k, m, n) == Numbers(s, k) = (m + 1)..n /\ Ascends(s, k)
LineAfter(h, s, k, m, n) ==
  /\ Ascends(s, k)
  /\ ~Asks(h, k) => Numbers(s, k) = (m + 1)..n
  /\ Asks(h, k) => /\ h.replyAddr - 1 = m + 1 /\ m + 1 <= n
                   /\ Numbers(s, k) = (m + 2)..n

LEMMA HandleLine ==
  ASSUME NEW h \in UpPackets, NEW s \in Seq(UpPackets), NEW k, NEW m \in Nat, NEW n \in Nat,
         LineFrom(<<h>> \o s, k, m, n)
  PROVE  LineAfter(h, s, k, m, n)
<1>0. Numbers(<<h>> \o s, k) = (m + 1)..n /\ Ascends(<<h>> \o s, k)
  BY DEF LineFrom
<1>1. <<h>> \in Seq(UpPackets)
  BY SingleNumber
<1>2. Numbers(<<h>>, k) \cup Numbers(s, k) = (m + 1)..n
  BY <1>0, <1>1, NumbersOfBoth
<1>3. Ascends(s, k) /\ \A a \in Numbers(<<h>>, k), b \in Numbers(s, k) : a < b
  BY <1>0, <1>1, PartsAscend
<1>4. CASE ~Asks(h, k)
  <2>1. Numbers(<<h>>, k) = {}
    BY <1>4, SingleNumber
  <2>. QED
    BY <1>2, <1>3, <1>4, <2>1 DEF LineAfter
<1>5. CASE Asks(h, k)
  <2>1. Numbers(<<h>>, k) = {h.replyAddr - 1}
    BY <1>5, SingleNumber
  <2>2. PICK a \in Int : a = h.replyAddr - 1
    BY UpNumbers
  <2>3. a \in (m + 1)..n /\ \A b \in Numbers(s, k) : a < b
    BY <1>2, <1>3, <2>1, <2>2
  <2>4. a = m + 1
    <3>1. m + 1 \in (m + 1)..n
      BY <2>3
    <3>2. m + 1 = a \/ m + 1 \in Numbers(s, k)
      BY <1>2, <2>1, <2>2, <3>1
    <3>. QED
      BY <2>3, <3>2
  <2>5. m + 1 <= n /\ \A b \in Numbers(s, k) : b \in (m + 1)..n
    BY <1>2, <2>3, <2>4
  <2>6. \A b \in (m + 1)..n : b = a \/ b \in Numbers(s, k)
    BY <1>2, <2>1, <2>2
  <2>7. \A b \in Numbers(s, k) : b \in (m + 2)..n
    BY <2>3, <2>4, <2>5
  <2>8. \A b \in (m + 2)..n : b \in Numbers(s, k)
    <3> SUFFICES ASSUME NEW b \in (m + 2)..n PROVE b \in Numbers(s, k)
      OBVIOUS
    <3>1. b \in (m + 1)..n /\ b # m + 1
      OBVIOUS
    <3>. QED
      BY <2>4, <2>6, <3>1
  <2>. QED
    BY <1>3, <1>5, <2>2, <2>4, <2>5, <2>7, <2>8 DEF LineAfter
<1>. QED
  BY <1>4, <1>5

\* A new request goes to the end of the line.
LEMMA AskLine ==
  ASSUME NEW s \in Seq(UpPackets), NEW p \in UpPackets, NEW k, NEW m \in Nat, NEW n \in Nat,
         Numbers(s, k) = (m + 1)..n, Ascends(s, k), m <= n,
         Asks(p, k), p.replyAddr = n + 2
  PROVE  Numbers(s \o <<p>>, k) = (m + 1)..(n + 1) /\ Ascends(s \o <<p>>, k)
<1>1. /\ <<p>> \in Seq(UpPackets) /\ Ascends(<<p>>, k)
      /\ Numbers(<<p>>, k) = {n + 1}
  BY SingleNumber
<1>2. Numbers(s \o <<p>>, k) = ((m + 1)..n) \cup {n + 1}
  <2>1. Numbers(s \o <<p>>, k) = Numbers(s, k) \cup Numbers(<<p>>, k)
    BY <1>1, NumbersOfBoth
  <2>. QED
    BY <1>1, <2>1, Zenon
<1>3. ((m + 1)..n) \cup {n + 1} = (m + 1)..(n + 1)
  OBVIOUS
<1>4. \A a \in Numbers(s, k), b \in Numbers(<<p>>, k) : a < b
  BY <1>1
<1>. QED
  BY <1>1, <1>2, <1>3, <1>4, AscendBoth

LEMMA HandledIsFirst ==
  ASSUME RequestsInv, HandlePacket, ~restarted, pinLen # 0
  PROVE  /\ Ascends(OnTheWay', session)
         /\ ~Asks(Head(R), session) => Numbers(OnTheWay', session) = (handled + 1)..asked
         /\ Asks(Head(R), session) => /\ Head(R).replyAddr - 1 = handled + 1
                                      /\ handled + 1 <= asked
                                      /\ Numbers(OnTheWay', session) = (handled + 2)..asked
<1>1. /\ Base /\ asked' = asked /\ session' = session /\ spc = "handle" /\ spc' = spc
      /\ UNCHANGED <<sinLck, sinSck, cPout, cO>> /\ handled \in Nat /\ asked \in Nat
      /\ R # <<>> /\ R' = Tail(R)
  BY FileLinkAssumption
     DEF RequestsInv, NumbersInv, LockInv, Base, Scalars, HandlePacket, client, files
<1>2. PICK h \in UpPackets, t \in Seq(UpPackets) : h = Head(R) /\ t = Tail(R) /\ R = <<h>> \o t
  <2>1. Head(R) \in UpPackets /\ Tail(R) \in Seq(UpPackets) /\ R = <<Head(R)>> \o Tail(R)
    BY <1>1, PartTypes, HeadTailProperties
  <2>. QED
    BY <2>1
<1>3. PICK f \in Seq(UpPackets), g \in Seq(UpPackets) : f = InFile /\ g = InPout \o cO
  BY <1>1, PartTypes, ConcatProperties
<1>4. InFile' = f /\ (InPout \o cO)' = g
  BY <1>1, <1>3 DEF InFile, InPout
<1>5. PICK s \in Seq(UpPackets) : s = (t \o f) \o g
  BY ConcatProperties
<1>6. OnTheWay' = s
  BY <1>1, <1>2, <1>4, <1>5 DEF OnTheWay
<1>7. OnTheWay = <<h>> \o s
  <2>1. <<h>> \in Seq(UpPackets) /\ t \o f \in Seq(UpPackets)
    BY ConcatProperties, SingleNumber
  <2>2. (<<h>> \o t) \o f = <<h>> \o (t \o f)
    BY <2>1, Associates
  <2>3. (<<h>> \o (t \o f)) \o g = <<h>> \o ((t \o f) \o g)
    BY <2>1, Associates
  <2>. QED
    BY <1>2, <1>3, <1>5, <2>2, <2>3 DEF OnTheWay
<1>8. Numbers(<<h>> \o s, session) = (handled + 1)..asked /\ Ascends(<<h>> \o s, session)
  BY <1>7 DEF RequestsInv, RequestsKept
<1>9. /\ Ascends(s, session)
      /\ ~Asks(h, session) => Numbers(s, session) = (handled + 1)..asked
      /\ Asks(h, session) => /\ h.replyAddr - 1 = handled + 1 /\ handled + 1 <= asked
                             /\ Numbers(s, session) = (handled + 2)..asked
  <2>1. PICK k \in Nat, m \in Nat, n \in Nat : k = session /\ m = handled /\ n = asked
    BY <1>1, FileLinkAssumption DEF Base, Scalars
  <2>2. LineFrom(<<h>> \o s, k, m, n)
    BY <1>8, <2>1 DEF LineFrom
  <2>3. LineAfter(h, s, k, m, n)
    BY <2>2, HandleLine
  <2>. QED
    BY <2>1, <2>3 DEF LineAfter
<1>. QED
  BY <1>2, <1>6, <1>9

LEMMA HandleRequests ==
  ASSUME RequestsInv, HandlePacket, ~restarted, pinLen # 0
  PROVE  RequestsKept'
<1>1. /\ asked' = asked /\ session' = session /\ handled \in Nat /\ asked \in Nat
  BY FileLinkAssumption
     DEF RequestsInv, NumbersInv, LockInv, Base, Scalars, HandlePacket, client
<1>2. handled' = IF Asks(Head(R), session) THEN Head(R).replyAddr - 1 ELSE handled
  <2>1. CASE Head(R).head = "AUTH" /\ HandleAuth(Head(R))
    BY <2>1 DEF HandleAuth, Asks
  <2>2. CASE Head(R).head = "SSLT" /\ HandleRequest(Head(R))
    BY <2>2 DEF HandleRequest, Asks
  <2>. QED
    BY <2>1, <2>2 DEF HandlePacket
<1>3. Numbers(OnTheWay', session') = (handled' + 1)..asked'
  <2>1. CASE Asks(Head(R), session)
    <3>1. handled' = handled + 1
      BY <1>2, <2>1, HandledIsFirst
    <3>2. (handled' + 1)..asked' = (handled + 2)..asked
      BY <1>1, <3>1
    <3>. QED
      BY <1>1, <2>1, <3>2, HandledIsFirst
  <2>2. CASE ~Asks(Head(R), session)
    BY <1>1, <1>2, <2>2, HandledIsFirst
  <2>. QED
    BY <2>1, <2>2
<1>. QED
  BY <1>1, <1>3, HandledIsFirst DEF RequestsKept

LEMMA AskRequests ==
  ASSUME RequestsInv, addPacketToQueue, ~restarted, pinLen # 0
  PROVE  RequestsKept'
<1>1. /\ Base /\ UNCHANGED <<session, handled, R, sinLck, sinSck, spc, cPout>>
      /\ handled \in Nat /\ asked \in Nat /\ handled <= asked /\ asked' = asked + 1
  BY FileLinkAssumption
     DEF RequestsInv, NumbersInv, LockInv, Base, Scalars, addPacketToQueue, files, server, history
<1>2. PICK p \in UpPackets : p = Request(asked + 1)
  <2>1. /\ asked < MaxAsks /\ session \in 1..MaxSessions
    BY <1>1, FileLinkAssumption DEF addPacketToQueue, Base, Scalars
  <2>2. Request(asked + 1) \in UpPackets
    BY <1>1, <2>1, FileLinkAssumption DEF Request, UpPackets
  <2>. QED
    BY <2>2
<1>3. Asks(p, session) /\ p.replyAddr = asked + 2
  BY <1>1, <1>2 DEF Request, Asks
<1>4. PICK s \in Seq(UpPackets), f \in Seq(UpPackets), g \in Seq(UpPackets) :
        s = R \o InFile /\ f = InPout /\ g = cO
  BY <1>1, PartTypes, ConcatProperties
<1>5. OnTheWay = s \o (f \o g)
  BY <1>4 DEF OnTheWay
<1>6. OnTheWay' = (s \o (f \o g)) \o <<p>>
  <2>1. (R \o InFile)' = s /\ InPout' = f
    BY <1>1, <1>4 DEF InFile, InPout
  <2>2. cO' = g \o <<p>>
    BY <1>2, <1>4, AppendIsConcat DEF addPacketToQueue
  <2>3. <<p>> \in Seq(UpPackets) /\ f \o g \in Seq(UpPackets)
    BY SingleNumber, ConcatProperties
  <2>4. f \o (g \o <<p>>) = (f \o g) \o <<p>>
    BY <2>3, Associates
  <2>5. s \o ((f \o g) \o <<p>>) = (s \o (f \o g)) \o <<p>>
    BY <2>3, Associates
  <2>. QED
    BY <2>1, <2>2, <2>4, <2>5 DEF OnTheWay
<1>7. PICK l \in Seq(UpPackets) : l = s \o (f \o g)
  BY ConcatProperties
<1>8. Numbers(l, session) = (handled + 1)..asked /\ Ascends(l, session)
  BY <1>5, <1>7 DEF RequestsInv, RequestsKept
<1>9. /\ Numbers(l \o <<p>>, session) = (handled + 1)..(asked + 1)
      /\ Ascends(l \o <<p>>, session)
  BY <1>1, <1>3, <1>8, AskLine
<1>. QED
  BY <1>1, <1>6, <1>7, <1>9 DEF RequestsKept
\* The client's thread, where it has left the log-in behind.
LEMMA ClientLine ==
  ASSUME LockInv, ~restarted, asked # 0, ClientThread
  PROVE  OnTheWay' = OnTheWay
<1>1. cpc \notin AuthSteps
  BY DEF LockInv, Beginning
<1>2. CASE writeSocket
  BY <1>2, WriteLine
<1>3. CASE readSocket
  <2>1. UNCHANGED <<R, spc, sinLck, sinSck, cPout, cO>>
    BY <1>3 DEF readSocket, server
  <2>. QED
    BY <2>1 DEF OnTheWay, InFile, InPout
<1>. QED
  BY <1>1, <1>2, <1>3 DEF ClientThread, LogIn, DeleteOldFiles, PushAuth, GiveUp, Answered,
                          ReadAnswer, DeleteAnswer, AuthSteps

\* What the server's thread does before it handles packets, and between.
LEMMA ServerLine ==
  ASSUME LockInv, ~restarted, asked # 0, NEW k,
         Update \/ SecondUpdate \/ NextRound \/ Report
  PROVE  /\ Numbers(OnTheWay', k) = Numbers(OnTheWay, k)
         /\ Ascends(OnTheWay, k) => Ascends(OnTheWay', k)
<1>1. cpc \notin AuthSteps
  BY DEF LockInv, Beginning
<1>2. UNCHANGED <<cPout, cO>>
  BY DEF Update, SecondUpdate, NextRound, Report, client
<1>3. CASE UNCHANGED <<R, sinLck, sinSck>> /\ spc # "truncate" /\ spc' # "truncate"
  <2>1. OnTheWay' = OnTheWay
    BY <1>2, <1>3 DEF OnTheWay, InFile, InPout
  <2>. QED
    BY <2>1
<1>4. CASE Take
  <2>1. cpc \notin Login
    BY <1>1 DEF AuthSteps, Login
  <2>. QED
    BY <1>2, <1>4, <2>1, TakeLine
<1>5. CASE Truncate
  <2>1. InFile' = InFile
    BY <1>5, Fixed DEF Truncate, InFile, NotThere
  <2>2. OnTheWay' = OnTheWay
    BY <1>2, <1>5, <2>1 DEF Truncate, OnTheWay, InPout
  <2>. QED
    BY <2>2
<1>6. CASE Unlock
  BY <1>2, <1>6, UnlockLine
<1>7. CASE Look
  BY <1>3, <1>7 DEF Look, files
<1>8. CASE Send
  <2>1. spc # "truncate" /\ spc' # "truncate"
    BY <1>8 DEF Send, AfterSend
  <2>. QED
    BY <1>3, <1>8, <2>1 DEF Send
<1>9. CASE SecondUpdate \/ NextRound \/ Report
  <2>1. spc # "truncate" /\ spc' # "truncate"
    BY <1>9 DEF SecondUpdate, NextRound, Report
  <2>. QED
    BY <1>3, <1>9, <2>1 DEF SecondUpdate, NextRound, Report, files
<1>. QED
  BY <1>4, <1>5, <1>6, <1>7, <1>8, <1>9 DEF Update, Receive

LEMMA RequestsStep == RequestsInv /\ [Next]_vars => RequestsInv'
<1> SUFFICES ASSUME RequestsInv, [Next]_vars PROVE RequestsKept'
  BY NumbersStep DEF RequestsInv
<1>1. LockInv /\ LockInv' /\ Base /\ Base'
  BY LockStep DEF RequestsInv, NumbersInv, LockInv
<1>2. CASE restarted' \/ pinLen' = 0
  BY <1>2 DEF RequestsKept
<1>3. CASE asked' = 0
  BY <1>1, <1>3, NothingAskedThen DEF Fresh, InLine, RequestsKept
<1>4. CASE ~restarted' /\ pinLen' # 0 /\ asked' # 0
  <2>1. CASE UNCHANGED vars
    <3>1. /\ UNCHANGED <<restarted, pinLen, asked, handled, session>>
          /\ OnTheWay' = OnTheWay
      BY <2>1 DEF vars, files, client, server, history, OnTheWay, InFile, InPout
    <3>. QED
      BY <1>4, <3>1 DEF RequestsInv, RequestsKept
  <2>2. CASE ClientThread
    <3>1. UNCHANGED <<restarted, pinLen, asked, handled, session>>
      BY <2>2 DEF ClientThread, LogIn, GiveUp, Answered, ReadAnswer, DeleteAnswer, readSocket,
                  writeSocket, server, history
    <3>2. OnTheWay' = OnTheWay
      BY <1>1, <1>4, <2>2, <3>1, ClientLine
    <3>. QED
      BY <1>4, <3>1, <3>2 DEF RequestsInv, RequestsKept
  <2>3. CASE addPacketToQueue
    BY <1>4, <2>3, AskRequests DEF addPacketToQueue, server, history
  <2>4. CASE handleReceivingQueue
    <3>1. /\ UNCHANGED <<restarted, pinLen, asked, handled, session>>
          /\ OnTheWay' = OnTheWay
      BY <2>4 DEF handleReceivingQueue, files, server, history, OnTheWay, InFile, InPout
    <3>. QED
      BY <1>4, <3>1 DEF RequestsInv, RequestsKept
  <2>5. CASE RestartClient
    BY <1>4, <2>5 DEF RestartClient
  <2>6. CASE HandlePacket
    BY <1>4, <2>6, HandleRequests DEF HandlePacket
  <2>7. CASE Update \/ SecondUpdate \/ NextRound \/ Report
    <3>1. UNCHANGED <<restarted, pinLen, asked, handled, session>>
      BY <2>7 DEF Update, SecondUpdate, NextRound, Report, client, history
    <3>2. PICK k : k = session
      OBVIOUS
    <3>3. /\ Numbers(OnTheWay', k) = Numbers(OnTheWay, k)
          /\ Ascends(OnTheWay, k) => Ascends(OnTheWay', k)
      BY <1>1, <1>4, <2>7, <3>1, ServerLine
    <3>4. Numbers(OnTheWay, session) = (handled + 1)..asked /\ Ascends(OnTheWay, session)
      BY <1>4, <3>1 DEF RequestsInv, RequestsKept
    <3>. QED
      BY <3>1, <3>2, <3>3, <3>4 DEF RequestsKept
  <2>8. CASE ServerStarts
    BY <1>4, <2>8 DEF ServerStarts
  <2>. QED
    BY <2>1, <2>2, <2>3, <2>4, <2>5, <2>6, <2>7, <2>8 DEF Next, NetworkThread
<1>. QED
  BY <1>2, <1>3, <1>4

\* The requests of a client whose log-in was answered are handled once each and
\* in the order they were made, whatever lay in the directory when it came.
THEOREM RequestsHandledOnce == Spec => []RequestsOnce
<1>1. RequestsInv => RequestsOnce
  <2> SUFFICES ASSUME RequestsInv, Undisturbed PROVE RequestsOnce
    BY DEF RequestsOnce
  <2>1. ~restarted /\ pinLen # 0 /\ Base
    BY FileLinkAssumption
       DEF RequestsInv, NumbersInv, LockInv, PinInv, Undisturbed
  <2>2. PICK s \in Seq(UpPackets) : s = OnTheWay
    BY <2>1, PartTypes, ConcatProperties DEF OnTheWay
  <2>3. Numbers(s, session) = (handled + 1)..asked /\ Ascends(s, session)
    BY <2>1, <2>2 DEF RequestsInv, RequestsKept
  <2>4. Ours(s) = {i \in 1..Len(s) : Asks(s[i], session)}
    BY DEF Ours, Asks
  <2>5. {s[i].replyAddr - 1 : i \in Ours(s)} = (handled + 1)..asked
    BY <2>3, <2>4 DEF Numbers
  <2>6. \A i, j \in Ours(s) : i < j => s[i].replyAddr < s[j].replyAddr
    BY <2>3, <2>4 DEF Ascends
  <2>. QED
    BY <2>2, <2>5, <2>6 DEF RequestsOnce
<1>2. QED
  BY RequestsInit, RequestsStep, <1>1, PTL DEF Spec
-----------------------------------------------------------------------------
(* The packets for the client: received, or in the file, being written and *)
(* in the queue.  Coming are those it still has before it.                 *)

Underway == {p \in {soutSck, Pout} : p \notin NotThere /\ p # NoPacket}
              \cup {O[i] : i \in 1..Len(O)}
Received == {cR[i] : i \in 1..Len(cR)}
Coming == Received \cup {p \in Underway : seen < p.n}
Granting(p) == p.head = "AUTH" /\ p.session = session
Admitted == granted = session \/ \E p \in Underway : Granting(p)

\* Packets of an earlier session come to the server before those of a later
\* one, and none of them is left once the log-in of this session is handled.
UpKept ==
  /\ \A i, j \in 1..Len(R) : i < j => R[i].session <= R[j].session
  /\ sinSck \notin NotThere => \A i \in 1..Len(R) : R[i].session <= sinSck.session
  /\ Admitted => /\ \A i \in 1..Len(R) : R[i].session = session
                 /\ sinSck \notin NotThere => sinSck.session = session
\* Only what was handled is answered, and nothing for an earlier session comes
\* after the answer to the log-in.
DownKept ==
  /\ \A p \in Received \cup Underway :
       p.head = "SSLT" /\ p.session = session => p.replyAddr <= handled + 1
  /\ \A p, q \in Underway : Granting(p) /\ p.n < q.n => q.head = "MDUD" \/ q.session = session
  /\ \A i, j \in 1..Len(cR) : i < j => cR[j].n < cR[i].n
  /\ \A i \in 1..Len(cR) : cR[i].n <= seen
\* Every replyer waits for one answer at most, and does so until it has come.
GrantedKept ==
  granted = session =>
    /\ \A p \in Coming : p.replyAddr # 0 => p.session = session /\ p.replyAddr \in REP
    /\ \A p, q \in Coming : p.replyAddr # 0 /\ p.replyAddr = q.replyAddr => p = q
    /\ (handled + 2)..(asked + 1) \subseteq REP
AnswersKept == UpKept /\ DownKept /\ GrantedKept
AnswersInv == RequestsInv /\ (~restarted => AnswersKept)

LEMMA DownTypes ==
  ASSUME Base
  PROVE  /\ Underway \subseteq DownNow /\ Received \subseteq DownNow
         /\ \A p \in DownNow : /\ p.n \in 1..made /\ p.n \in Nat
                               /\ p.session \in Nat /\ p.session <= session
                               /\ p.replyAddr \in Nat /\ p.replyAddr # 1
                               /\ p.head = "SSLT" <=> p.replyAddr # 0
         /\ cR \in Seq(DownNow) /\ Len(cR) \in Nat /\ O \in Seq(DownNow) /\ Len(O) \in Nat
<1>1. /\ cR \in Seq(DownNow) /\ Len(cR) \in Nat /\ O \in Seq(DownNow) /\ Len(O) \in Nat
  BY LenProperties DEF Base, DownShapes
<1>2. \A i \in 1..Len(cR) : cR[i] \in DownNow
  BY <1>1, ElementOfSeq
<1>3. \A i \in 1..Len(O) : O[i] \in DownNow
  BY <1>1, ElementOfSeq
<1>4. /\ soutSck \notin NotThere => soutSck \in DownNow
      /\ Pout # NoPacket => Pout \in DownNow
  BY DEF Base, DownShapes
<1>5. Underway \subseteq DownNow /\ Received \subseteq DownNow
  BY <1>2, <1>3, <1>4 DEF Underway, Received
<1>6. ASSUME NEW p \in DownNow
      PROVE  /\ p.n \in 1..made /\ p.n \in Nat
             /\ p.session \in Nat /\ p.session <= session
             /\ p.replyAddr \in Nat /\ p.replyAddr # 1
             /\ p.head = "SSLT" <=> p.replyAddr # 0
  <2>1. p.n \in 1..made /\ p.session <= session /\ (p.head = "SSLT" <=> p.replyAddr # 0)
    BY DEF DownNow
  <2>2. p.n \in Nat /\ p.session \in 0..MaxSessions /\ p.replyAddr \in {0} \cup Addresses
    BY DEF DownNow, DownPackets
  <2>3. p.session \in Nat /\ p.replyAddr \in Nat /\ p.replyAddr # 1
    BY <2>2, FileLinkAssumption DEF Addresses
  <2>. QED
    BY <2>1, <2>2, <2>3
<1>. QED
  BY <1>1, <1>5, <1>6

LEMMA UpTypes ==
  ASSUME Base
  PROVE  /\ R \in Seq(UpNow) /\ Len(R) \in Nat /\ \A i \in 1..Len(R) : R[i] \in UpNow
         /\ sinSck \notin NotThere => sinSck \in UpNow
         /\ \A p \in UpNow : /\ p.session \in 1..MaxSessions /\ p.session \in Nat
                             /\ p.session <= session
                             /\ p.replyAddr \in Nat
         /\ \A p \in Mine : p \in UpNow /\ p.session = session
         /\ session \in Nat /\ session >= 1
<1>1. R \in Seq(UpNow) /\ Len(R) \in Nat /\ \A i \in 1..Len(R) : R[i] \in UpNow
  BY LenProperties, ElementOfSeq DEF Base, UpShapes
<1>2. sinSck \notin NotThere => sinSck \in UpNow
  BY DEF Base, UpShapes
<1>3. \A p \in UpNow : /\ p.session \in 1..MaxSessions /\ p.session \in Nat
                       /\ p.session <= session /\ p.replyAddr \in Nat
  BY FileLinkAssumption DEF UpNow, UpPackets
<1>4. \A p \in Mine : p \in UpNow /\ p.session = session
  BY DEF Mine
<1>5. session \in Nat /\ session >= 1
  BY FileLinkAssumption DEF Base, Scalars
<1>. QED
  BY <1>1, <1>2, <1>3, <1>4, <1>5

LEMMA AnswersInit == Init => AnswersInv
<1> SUFFICES ASSUME Init PROVE AnswersInv
  OBVIOUS
<1>1. /\ O = <<>> /\ cR = <<>> /\ R = <<>> /\ Pout = NoPacket /\ soutSck = Empty /\ sinSck = Empty
      /\ granted = 0 /\ session = 1
  BY Zenon DEF Init
<1>2. Len(O) = 0 /\ Len(cR) = 0 /\ Len(R) = 0 /\ soutSck \in NotThere /\ sinSck \in NotThere
  BY <1>1 DEF NotThere
<1>3. Underway = {} /\ Received = {}
  <2>1. \A p \in Underway : FALSE
    BY <1>1, <1>2 DEF Underway
  <2>2. \A p \in Received : FALSE
    BY <1>2 DEF Received
  <2>. QED
    BY <2>1, <2>2
<1>4. UpKept
  BY <1>1, <1>2, <1>3 DEF UpKept, Admitted
<1>5. DownKept
  BY <1>1, <1>2, <1>3 DEF DownKept
<1>6. GrantedKept
  BY <1>1 DEF GrantedKept
<1>. QED
  BY <1>4, <1>5, <1>6, RequestsInit DEF AnswersInv, AnswersKept

\* What a step does that touches nothing that is sent to the client.
LEMMA SameDown ==
  ASSUME UNCHANGED <<soutSck, Pout, O, cR, session, handled, seen, granted>>
  PROVE  /\ Underway' = Underway /\ Received' = Received /\ Coming' = Coming
         /\ Admitted' <=> Admitted
         /\ DownKept => DownKept'
         /\ GrantedKept /\ UNCHANGED <<REP, asked>> => GrantedKept'
         /\ UpKept /\ UNCHANGED <<R, sinSck>> => UpKept'
<1>1. Underway' = Underway /\ Received' = Received
  BY DEF Underway, Received
<1>2. Coming' = Coming /\ (Admitted' <=> Admitted)
  BY <1>1 DEF Coming, Admitted, Granting
<1>3. DownKept => DownKept'
  BY <1>1 DEF DownKept, Granting
<1>4. GrantedKept /\ UNCHANGED <<REP, asked>> => GrantedKept'
  BY <1>2 DEF GrantedKept
<1>5. UpKept /\ UNCHANGED <<R, sinSck>> => UpKept'
  BY <1>2 DEF UpKept
<1>. QED
  BY <1>1, <1>2, <1>3, <1>4, <1>5

\* A file filled by the client, or emptied.
LEMMA FillUp ==
  ASSUME Base, UpKept, R' = R, session' = session, Admitted' => Admitted,
         sinSck' \in NotThere \/ (sinSck' \in UpNow /\ sinSck'.session = session)
  PROVE  UpKept'
BY UpTypes DEF UpKept
LEMMA LogInAnswers == ASSUME Base, AnswersKept, LogIn PROVE AnswersKept'
<1>1. UNCHANGED <<soutSck, Pout, O, cR, session, handled, seen, granted, REP, asked, R>>
  BY DEF LogIn, server, history
<1>2. Auth \in UpNow /\ Auth.session = session
  BY FileLinkAssumption DEF Auth, UpNow, UpPackets, Base, Scalars
<1>3. sinSck' = sinSck \/ sinSck' \in NotThere \/ sinSck' = Auth
  BY DEF LogIn, DeleteOldFiles, PushAuth, NotThere
<1>4. UpKept'
  <2>1. UpKept /\ (Admitted' => Admitted)
    BY <1>1, SameDown DEF AnswersKept
  <2>2. CASE sinSck' = sinSck
    BY <1>1, <2>1, <2>2, SameDown
  <2>3. CASE sinSck' \in NotThere \/ (sinSck' \in UpNow /\ sinSck'.session = session)
    <3>1. R' = R /\ session' = session
      BY <1>1
    <3>. QED
      BY <2>1, <2>3, <3>1, FillUp, Zenon
  <2>. QED
    BY <1>2, <1>3, <2>2, <2>3
<1>. QED
  BY <1>1, <1>4, SameDown DEF AnswersKept

LEMMA WriteAnswers == ASSUME Base, AnswersKept, writeSocket PROVE AnswersKept'
<1>1. UNCHANGED <<soutSck, Pout, O, cR, session, handled, seen, granted, REP, asked, R>>
  BY DEF writeSocket, server, history
<1>2. sinSck' = sinSck \/ sinSck' \in NotThere \/ (sinSck' = cPout /\ cpc = "fill")
  BY DEF writeSocket, NotThere
<1>3. cpc = "fill" => cPout \in UpNow /\ cPout.session = session
  BY UpTypes DEF Base, UpShapes
<1>4. UpKept'
  <2>1. UpKept /\ (Admitted' => Admitted)
    BY <1>1, SameDown DEF AnswersKept
  <2>2. CASE sinSck' = sinSck
    BY <1>1, <2>1, <2>2, SameDown
  <2>3. CASE sinSck' \in NotThere \/ (sinSck' \in UpNow /\ sinSck'.session = session)
    <3>1. R' = R /\ session' = session
      BY <1>1
    <3>. QED
      BY <2>1, <2>3, <3>1, FillUp, Zenon
  <2>. QED
    BY <1>2, <1>3, <2>2, <2>3
<1>. QED
  BY <1>1, <1>4, SameDown DEF AnswersKept

\* The packet read goes to the end of what was received.
LEMMA TakeUp ==
  ASSUME Base, UpKept, Take, session' = session, Admitted' => Admitted
  PROVE  UpKept'
<1>1. sinSck' = sinSck
  BY DEF Take, files
<1>2. CASE R' = R
  BY <1>1, <1>2 DEF UpKept
<1>3. CASE sinSck \notin NotThere /\ R' = Append(R, sinSck)
  <2>1. /\ Len(R) \in Nat /\ Len(R') = Len(R) + 1 /\ R'[Len(R) + 1] = sinSck
        /\ \A i \in 1..Len(R) : R'[i] = R[i]
        /\ \A i \in 1..Len(R') : i \in 1..Len(R) \/ i = Len(R) + 1
    BY <1>3, UpTypes, LenProperties
  <2>2. \A i \in 1..Len(R) : R[i].session <= sinSck.session
    BY <1>3 DEF UpKept
  <2>3. sinSck.session \in Nat
    BY <1>3, UpTypes
  <2>4. \A i \in 1..Len(R') : R'[i].session <= sinSck.session
    BY <2>1, <2>2, <2>3
  <2>5. ASSUME NEW i \in 1..Len(R'), NEW j \in 1..Len(R'), i < j
        PROVE  R'[i].session <= R'[j].session
    <3>1. i \in 1..Len(R)
      BY <2>1, <2>5
    <3>2. CASE j \in 1..Len(R)
      BY <2>1, <2>5, <3>1, <3>2 DEF UpKept
    <3>3. CASE j = Len(R) + 1
      BY <2>1, <2>2, <3>1, <3>3
    <3>. QED
      BY <2>1, <3>2, <3>3
  <2>6. Admitted' => \A i \in 1..Len(R') : R'[i].session = session
    BY <1>3, <2>1 DEF UpKept
  <2>. QED
    BY <1>1, <1>3, <2>4, <2>5, <2>6 DEF UpKept
<1>. QED
  BY <1>2, <1>3 DEF Take

LEMMA ReceiveAnswers == ASSUME Base, AnswersKept, Update, Receive PROVE AnswersKept'
<1>1. UNCHANGED <<soutSck, Pout, O, cR, session, handled, seen, granted, REP, asked>>
  BY DEF Update, Receive, Look, Take, Truncate, Unlock, client, history, files
<1>2. CASE Take
  BY <1>1, <1>2, SameDown, TakeUp DEF AnswersKept
<1>3. CASE Truncate
  <2>1. R' = R /\ sinSck' \in NotThere
    BY <1>3 DEF Truncate, NotThere
  <2>2. UpKept /\ (Admitted' => Admitted)
    BY <1>1, SameDown DEF AnswersKept
  <2>3. UpKept'
    BY <1>1, <2>1, <2>2, FillUp, Zenon
  <2>. QED
    BY <1>1, <2>3, SameDown DEF AnswersKept
<1>4. CASE Look \/ Unlock
  <2>1. UNCHANGED <<R, sinSck>>
    BY <1>4 DEF Look, Unlock, files
  <2>. QED
    BY <1>1, <2>1, SameDown DEF AnswersKept
<1>. QED
  BY <1>2, <1>3, <1>4 DEF Receive

\* A new client has been sent nothing, and nothing is newer than its log-in.
LEMMA ClientAgainAnswers == ASSUME Base, AnswersKept, RestartClient PROVE AnswersKept'
<1>1. /\ session' = session + 1 /\ granted' = 0 /\ cR' = <<>>
      /\ UNCHANGED <<soutSck, Pout, O, R, sinSck>>
  BY DEF RestartClient, files, server
<1>2. Underway' = Underway /\ Received' = {} /\ Len(cR') = 0
  <2>1. Len(cR') = 0
    BY <1>1
  <2>2. \A p \in Received' : FALSE
    BY <2>1 DEF Received
  <2>. QED
    BY <1>1, <2>1, <2>2 DEF Underway
<1>3. \A p \in Underway : p.session # session'
  BY <1>1, DownTypes, UpTypes
<1>4. granted' # session'
  BY <1>1, UpTypes
<1>5. ~Admitted'
  BY <1>2, <1>3, <1>4 DEF Admitted, Granting
<1>6. UpKept'
  BY <1>1, <1>5 DEF AnswersKept, UpKept
<1>7. DownKept'
  BY <1>2, <1>3 DEF DownKept, Granting
<1>8. GrantedKept'
  BY <1>4 DEF GrantedKept
<1>. QED
  BY <1>6, <1>7, <1>8 DEF AnswersKept

\* What the answer to the log-in lets the client expect.
LEMMA ReadAnswerAnswers ==
  ASSUME RequestsInv, AnswersKept, ~restarted, ReadAnswer PROVE AnswersKept'
<1>1. /\ Base /\ Beginning /\ cpc = "read answer"
      /\ UNCHANGED <<soutSck, Pout, O, cR, session, handled, REP, asked, R, sinSck>>
  BY DEF RequestsInv, NumbersInv, LockInv, ReadAnswer, files, server
<1>2. cR = <<>> /\ asked = 0 /\ handled = 0 /\ granted = 0 /\ Len(cR) = 0
  <2>1. cR = <<>> /\ asked = 0 /\ granted = 0
    BY <1>1 DEF Beginning, AuthSteps, Unanswered
  <2>2. handled \in 0..asked
    BY <1>1 DEF Base, Scalars
  <2>3. handled = 0
    BY <2>1, <2>2
  <2>. QED
    BY <2>1, <2>3
<1>3. Underway' = Underway /\ Received' = Received /\ Received = {}
  <2>1. \A p \in Received : FALSE
    BY <1>2 DEF Received
  <2>. QED
    BY <1>1, <2>1 DEF Underway, Received
<1>4. granted' = session => Granting(soutSck) /\ soutSck \in Underway /\ seen' = soutSck.n
  <2>1. session # 0
    <3>1. session \in Nat /\ session >= 1
      BY <1>1, UpTypes
    <3>. QED
      BY <3>1
  <2>2. granted' = session => soutSck \notin NotThere /\ soutSck.head = "AUTH"
                                /\ soutSck.session = session /\ seen' = soutSck.n
    BY <1>2, <2>1 DEF ReadAnswer, NotThere
  <2>3. soutSck \notin NotThere => soutSck # NoPacket
    BY <1>1, Subsets, Fixed DEF Base, DownShapes
  <2>. QED
    BY <2>2, <2>3 DEF Granting, Underway
<1>5. Admitted' => Admitted
  BY <1>1, <1>3, <1>4 DEF Admitted, Granting
<1>6. UpKept'
  BY <1>1, <1>5 DEF AnswersKept, UpKept
<1>7. DownKept'
  <2>1. 1..Len(cR') = {}
    <3>1. Len(cR') = 0
      BY <1>1, <1>2, Zenon
    <3>. QED
      BY <3>1
  <2>2. DownKept
    BY DEF AnswersKept
  <2>3. \A p \in Received' \cup Underway' :
          p.head = "SSLT" /\ p.session = session' => p.replyAddr <= handled' + 1
    BY <1>1, <1>3, <2>2 DEF DownKept
  <2>4. \A p, q \in Underway' :
          p.head = "AUTH" /\ p.session = session' /\ p.n < q.n
            => q.head = "MDUD" \/ q.session = session'
    BY <1>1, <1>3, <2>2 DEF DownKept, Granting
  <2>5. /\ \A i, j \in 1..Len(cR') : i < j => cR'[j].n < cR'[i].n
        /\ \A i \in 1..Len(cR') : cR'[i].n <= seen'
    BY <2>1
  <2>. QED
    BY <2>3, <2>4, <2>5 DEF DownKept, Granting
<1>8. ASSUME granted' = session PROVE \A p \in Coming' : p.replyAddr = 0
  <2> SUFFICES ASSUME NEW p \in Underway, seen' < p.n, p.replyAddr # 0 PROVE FALSE
    BY <1>3 DEF Coming
  <2>1. p.head = "SSLT" /\ p.replyAddr \in Nat /\ p.replyAddr # 1
    BY <1>1, DownTypes
  <2>2. p.session = session
    BY <1>4, <1>8, <2>1 DEF AnswersKept, DownKept
  <2>3. p.replyAddr <= handled + 1
    BY <2>1, <2>2 DEF AnswersKept, DownKept
  <2>. QED
    BY <1>2, <2>1, <2>3
<1>9. (handled' + 2)..(asked' + 1) = {}
  <2>1. handled' = 0 /\ asked' = 0
    BY <1>1, <1>2
  <2>. QED
    BY <2>1
<1>10. GrantedKept'
  BY <1>1, <1>8, <1>9 DEF GrantedKept
<1>. QED
  BY <1>6, <1>7, <1>10 DEF AnswersKept
\* A step after which the client has nothing before it that it had not already.
LEMMA FewerDown ==
  ASSUME Underway' \subseteq Underway, UNCHANGED <<cR, session, handled, seen, granted, REP, asked>>
  PROVE  /\ Admitted' => Admitted
         /\ DownKept => DownKept'
         /\ GrantedKept => GrantedKept'
<1>1. Received' = Received
  BY DEF Received
<1>2. Admitted' => Admitted
  BY DEF Admitted, Granting
<1>3. DownKept => DownKept'
  BY <1>1 DEF DownKept, Granting
<1>4. Coming' \subseteq Coming
  BY <1>1 DEF Coming
<1>5. GrantedKept => GrantedKept'
  BY <1>4 DEF GrantedKept
<1>. QED
  BY <1>2, <1>3, <1>5

LEMMA SendUnderway ==
  ASSUME Base, DownLock, Send PROVE Underway' \subseteq Underway
<1>1. CASE UNCHANGED <<O, Pout, soutSck>>
  BY <1>1 DEF Underway
<1>2. CASE O # <<>> /\ O' = Tail(O) /\ UNCHANGED <<Pout, soutSck>>
  <2>1. \A i \in 1..Len(O') : i + 1 \in 1..Len(O) /\ O'[i] = O[i + 1]
    BY <1>2, TailOfQueue
  <2>. QED
    BY <1>2, <2>1 DEF Underway
<1>3. CASE O # <<>> /\ O' = Tail(O) /\ Pout' = Head(O) /\ soutSck' = Empty
  <2>1. \A i \in 1..Len(O') : i + 1 \in 1..Len(O) /\ O'[i] = O[i + 1]
    BY <1>3, TailOfQueue
  <2>2. Pout' = O[1] /\ 1 \in 1..Len(O) /\ soutSck' \in NotThere
    BY <1>3, TailOfQueue DEF NotThere
  <2>. QED
    BY <2>1, <2>2 DEF Underway
<1>4. CASE spc = "fill" /\ soutSck' = Pout /\ UNCHANGED <<O, Pout>>
  BY <1>4 DEF Underway
<1>5. CASE Pout' = NoPacket /\ UNCHANGED <<O, soutSck>>
  BY <1>5 DEF Underway
<1>. QED
  BY <1>1, <1>2, <1>3, <1>4, <1>5 DEF Send

LEMMA SendAnswers ==
  ASSUME Base, DownLock, AnswersKept, Update, Send PROVE AnswersKept'
<1>1. UNCHANGED <<cR, session, handled, seen, granted, REP, asked, R, sinSck>>
  BY DEF Update, Send, client, history
<1>2. Admitted' => Admitted
  BY <1>1, SendUnderway, FewerDown
<1>3. UpKept'
  BY <1>1, <1>2 DEF AnswersKept, UpKept
<1>4. DownKept' /\ GrantedKept'
  BY <1>1, SendUnderway, FewerDown DEF AnswersKept
<1>. QED
  BY <1>3, <1>4 DEF AnswersKept

\* What the client takes from the file was coming to it, and goes in front of
\* what it received before.
LEMMA TakeAnswers ==
  ASSUME RequestsInv, AnswersKept, ~restarted, readSocket, cpc = "take", soutSck \notin NotThere
  PROVE  AnswersKept'
<1>1. /\ Base /\ DownLock /\ Newer
      /\ UNCHANGED <<soutSck, soutLck, Pout, O, session, handled, granted, REP, asked, R, sinSck>>
      /\ cR' = <<soutSck>> \o cR /\ seen' = soutSck.n /\ soutLck
  BY DEF RequestsInv, NumbersInv, LockInv, DownLock, readSocket, ReadFile, TakeFile, server
<1>2. soutSck \in DownNow /\ soutSck \in Underway /\ seen < soutSck.n /\ soutSck.n \in Nat
      /\ seen \in Nat
  <2>1. soutSck \in DownNow /\ soutSck # NoPacket
    BY <1>1, Subsets, Fixed DEF Base, DownShapes
  <2>2. soutSck \in Underway
    BY <2>1 DEF Underway
  <2>3. seen < soutSck.n
    BY <1>1 DEF Newer, ToRead
  <2>. QED
    BY <1>1, <2>1, <2>2, <2>3, Numbered, DownTypes
<1>3. /\ Len(cR) \in Nat /\ Len(cR') = Len(cR) + 1 /\ cR'[1] = soutSck
      /\ \A i \in 1..Len(cR') : i = 1 \/ (i - 1 \in 1..Len(cR) /\ cR'[i] = cR[i - 1])
      /\ \A i \in 1..Len(cR) : cR[i].n \in Nat
  <2>1. cR \in Seq(DownNow) /\ <<soutSck>> \in Seq(DownNow) /\ Len(<<soutSck>>) = 1
        /\ <<soutSck>>[1] = soutSck
    BY <1>1, <1>2, DownTypes
  <2>2. /\ Len(cR) \in Nat /\ Len(<<soutSck>> \o cR) = 1 + Len(cR)
        /\ \A i \in 1..(1 + Len(cR)) :
             (<<soutSck>> \o cR)[i] = IF i <= 1 THEN <<soutSck>>[i] ELSE cR[i - 1]
    BY <2>1, ConcatProperties, LenProperties
  <2>3. \A i \in 1..Len(cR) : cR[i].n \in Nat
    BY <1>1, DownTypes DEF Received
  <2>. QED
    BY <1>1, <2>1, <2>2, <2>3
<1>4. Underway' = Underway
  BY <1>1 DEF Underway
<1>5. Received' \subseteq Received \cup {soutSck}
  BY <1>3 DEF Received
<1>6. Coming' \subseteq Coming
  <2>1. \A p \in Underway : p.n \in Nat
    BY <1>1, DownTypes
  <2>2. \A p \in Underway : soutSck.n < p.n => seen < p.n
    BY <1>2, <2>1
  <2>. QED
    BY <1>1, <1>2, <1>4, <1>5, <2>2 DEF Coming
<1>7. Admitted' => Admitted
  BY <1>1, <1>4 DEF Admitted, Granting
<1>8. UpKept'
  BY <1>1, <1>7 DEF AnswersKept, UpKept
<1>9. GrantedKept'
  BY <1>1, <1>6 DEF AnswersKept, GrantedKept
<1>10. DownKept'
  <2>1. DownKept /\ \A i \in 1..Len(cR) : cR[i].n < soutSck.n
    BY <1>2, <1>3 DEF AnswersKept, DownKept
  <2>2. \A i, j \in 1..Len(cR') : i < j => cR'[j].n < cR'[i].n
    <3> SUFFICES ASSUME NEW i \in 1..Len(cR'), NEW j \in 1..Len(cR'), i < j
                 PROVE  cR'[j].n < cR'[i].n
      OBVIOUS
    <3>1. j # 1 /\ j - 1 \in 1..Len(cR) /\ cR'[j] = cR[j - 1]
      BY <1>3
    <3>2. CASE i = 1
      BY <1>3, <2>1, <3>1, <3>2
    <3>3. CASE i # 1
      <4>1. i - 1 \in 1..Len(cR) /\ cR'[i] = cR[i - 1] /\ i - 1 < j - 1
        BY <1>3, <3>3
      <4>. QED
        BY <2>1, <3>1, <4>1 DEF DownKept
    <3>. QED
      BY <3>2, <3>3
  <2>3. \A i \in 1..Len(cR') : cR'[i].n <= soutSck.n
    BY <1>2, <1>3, <2>1
  <2>4. \A p \in Received' \cup Underway' :
          p.head = "SSLT" /\ p.session = session' => p.replyAddr <= handled' + 1
    BY <1>1, <1>2, <1>4, <1>5, <2>1 DEF DownKept
  <2>5. \A p, q \in Underway' :
          p.head = "AUTH" /\ p.session = session' /\ p.n < q.n
            => q.head = "MDUD" \/ q.session = session'
    BY <1>1, <1>4, <2>1 DEF DownKept, Granting
  <2>. QED
    BY <1>1, <2>2, <2>3, <2>4, <2>5 DEF DownKept, Granting
<1>. QED
  BY <1>8, <1>9, <1>10 DEF AnswersKept
LEMMA AskAnswers == ASSUME Base, AnswersKept, addPacketToQueue PROVE AnswersKept'
<1>1. /\ UNCHANGED <<soutSck, Pout, O, cR, session, handled, seen, granted, R, sinSck>>
      /\ asked' = asked + 1 /\ REP' = REP \cup {asked + 2}
  BY DEF addPacketToQueue, files, server, history
<1>2. UpKept' /\ DownKept' /\ Coming' = Coming
  BY <1>1, SameDown DEF AnswersKept
<1>3. asked \in Nat /\ handled \in Nat
  BY FileLinkAssumption DEF Base, Scalars
<1>4. GrantedKept'
  <2> SUFFICES ASSUME granted = session
               PROVE  /\ \A p \in Coming : p.replyAddr # 0 => p.session = session /\ p.replyAddr \in REP'
                      /\ \A p, q \in Coming : p.replyAddr # 0 /\ p.replyAddr = q.replyAddr => p = q
                      /\ (handled' + 2)..(asked' + 1) \subseteq REP'
    BY <1>1, <1>2 DEF GrantedKept
  <2>1. (handled + 2)..(asked + 1) \subseteq REP
    BY DEF AnswersKept, GrantedKept
  <2>2. \A n \in (handled + 2)..(asked + 2) : n \in (handled + 2)..(asked + 1) \/ n = asked + 2
    BY <1>3
  <2>3. handled' + 2 = handled + 2 /\ asked' + 1 = asked + 2
    BY <1>1, <1>3
  <2>4. (handled' + 2)..(asked' + 1) \subseteq REP'
    BY <1>1, <2>1, <2>2, <2>3
  <2>5. /\ \A p \in Coming : p.replyAddr # 0 => p.session = session /\ p.replyAddr \in REP'
        /\ \A p, q \in Coming : p.replyAddr # 0 /\ p.replyAddr = q.replyAddr => p = q
    BY <1>1 DEF AnswersKept, GrantedKept
  <2>. QED
    BY <2>4, <2>5
<1>. QED
  BY <1>2, <1>4 DEF AnswersKept

\* The replyer of the packet that is handled is gone, and no other packet is for it.
LEMMA ShowAnswers ==
  ASSUME Base, AnswersKept, handleReceivingQueue PROVE AnswersKept'
<1>1. /\ UNCHANGED <<soutSck, Pout, O, session, handled, seen, granted, asked, R, sinSck>>
      /\ cR # <<>> /\ cR' = Tail(cR) /\ REP' = REP \ {Head(cR).replyAddr}
  BY DEF handleReceivingQueue, files, server, history
<1>2. /\ Len(cR) \in Nat /\ Len(cR') = Len(cR) - 1 /\ Head(cR) = cR[1] /\ 1 \in 1..Len(cR)
      /\ \A i \in 1..Len(cR') : i + 1 \in 1..Len(cR) /\ cR'[i] = cR[i + 1]
  BY <1>1, DownTypes, HeadTailProperties, LenProperties
<1>3. Underway' = Underway /\ Received' \subseteq Received /\ Head(cR) \in Received
  BY <1>1, <1>2 DEF Underway, Received
<1>4. Admitted' => Admitted
  BY <1>1, <1>3 DEF Admitted, Granting
<1>5. UpKept'
  BY <1>1, <1>4 DEF AnswersKept, UpKept
<1>6. DownKept'
  <2>1. DownKept
    BY DEF AnswersKept
  <2>2. /\ \A i, j \in 1..Len(cR') : i < j => cR'[j].n < cR'[i].n
        /\ \A i \in 1..Len(cR') : cR'[i].n <= seen
    <3>1. /\ \A i, j \in 1..Len(cR) : i < j => cR[j].n < cR[i].n
          /\ \A i \in 1..Len(cR) : cR[i].n <= seen
      BY <2>1 DEF DownKept
    <3>2. ASSUME NEW i \in 1..Len(cR'), NEW j \in 1..Len(cR'), i < j
          PROVE  cR'[j].n < cR'[i].n
      <4>1. /\ i + 1 \in 1..Len(cR) /\ j + 1 \in 1..Len(cR) /\ i + 1 < j + 1
            /\ cR'[i] = cR[i + 1] /\ cR'[j] = cR[j + 1]
        BY <1>2, <3>2
      <4>. QED
        BY <3>1, <4>1
    <3>3. \A i \in 1..Len(cR') : cR'[i].n <= seen
      BY <1>2, <3>1
    <3>. QED
      BY <3>2, <3>3
  <2>3. \A p \in Received' \cup Underway' :
          p.head = "SSLT" /\ p.session = session' => p.replyAddr <= handled' + 1
    BY <1>1, <1>3, <2>1 DEF DownKept
  <2>4. \A p, q \in Underway' :
          p.head = "AUTH" /\ p.session = session' /\ p.n < q.n
            => q.head = "MDUD" \/ q.session = session'
    BY <1>1, <1>3, <2>1 DEF DownKept, Granting
  <2>. QED
    BY <1>1, <2>2, <2>3, <2>4 DEF DownKept, Granting
<1>7. Coming' \subseteq Coming /\ Head(cR) \notin Coming'
  <2>1. Coming' \subseteq Coming
    BY <1>1, <1>3 DEF Coming
  <2>2. \A i \in 1..Len(cR') : cR'[i].n < Head(cR).n
    BY <1>2 DEF AnswersKept, DownKept
  <2>3. Head(cR).n \in Nat /\ Head(cR).n <= seen /\ seen \in Nat
    BY <1>2, <1>3, DownTypes, Numbered DEF AnswersKept, DownKept
  <2>4. Head(cR) \notin Received'
    BY <2>2, <2>3 DEF Received
  <2>5. ~(seen < Head(cR).n)
    BY <2>3
  <2>. QED
    BY <1>1, <2>1, <2>4, <2>5 DEF Coming
<1>8. ASSUME granted = session
      PROVE  /\ \A p \in Coming' : p.replyAddr # 0 => p.session = session /\ p.replyAddr \in REP'
             /\ \A p, q \in Coming' : p.replyAddr # 0 /\ p.replyAddr = q.replyAddr => p = q
             /\ (handled + 2)..(asked + 1) \subseteq REP'
  <2>1. /\ \A p \in Coming : p.replyAddr # 0 => p.session = session /\ p.replyAddr \in REP
        /\ \A p, q \in Coming : p.replyAddr # 0 /\ p.replyAddr = q.replyAddr => p = q
        /\ (handled + 2)..(asked + 1) \subseteq REP
    BY <1>8 DEF AnswersKept, GrantedKept
  <2>2. Head(cR) \in Coming
    BY <1>3 DEF Coming
  <2>3. \A p \in Coming' : p.replyAddr # 0 => p.replyAddr # Head(cR).replyAddr
    BY <1>7, <2>1, <2>2
  <2>4. Head(cR).replyAddr \notin (handled + 2)..(asked + 1)
    <3>1. Head(cR).replyAddr = 0 \/ Head(cR).replyAddr <= handled + 1
      BY <1>3, <2>1, <2>2, DownTypes DEF AnswersKept, DownKept
    <3>2. handled \in Nat /\ Head(cR).replyAddr \in Nat
      BY <1>3, DownTypes, FileLinkAssumption DEF Base, Scalars
    <3>. QED
      BY <3>1, <3>2
  <2>. QED
    BY <1>1, <1>7, <2>1, <2>3, <2>4
<1>9. GrantedKept'
  BY <1>1, <1>8 DEF GrantedKept
<1>. QED
  BY <1>5, <1>6, <1>9 DEF AnswersKept

\* A packet with the next number joins those that are underway.
Joins(p) ==
  /\ Underway' \subseteq Underway \cup {p} /\ p.n = made + 1
  /\ UNCHANGED <<cR, session, seen, granted, REP, asked>>

LEMMA JoinUnderway ==
  ASSUME Base, NEW p, p.n = made + 1, O' = Append(O, p) \/ O' = <<p>>,
         UNCHANGED <<soutSck, Pout, cR, session, seen, granted, REP, asked>>
  PROVE  Joins(p)
<1>1. \A i \in 1..Len(O') : O'[i] = p \/ (i \in 1..Len(O) /\ O'[i] = O[i])
  BY DownTypes, LenProperties
<1>2. Underway' \subseteq Underway \cup {p}
  BY <1>1 DEF Underway
<1>. QED
  BY <1>2 DEF Joins

LEMMA JoinDown ==
  ASSUME Base, DownKept, NEW p, Joins(p), handled' \in Nat, handled' >= handled,
         p.head = "SSLT" /\ p.session = session => p.replyAddr <= handled' + 1,
         Admitted => p.head = "MDUD" \/ p.session = session
  PROVE  DownKept'
<1>1. handled \in Nat /\ made \in Nat
  BY FileLinkAssumption DEF Base, Scalars
<1>2. Received' = Received /\ UNCHANGED <<cR, session, seen>> /\ Underway' \subseteq Underway \cup {p}
  BY DEF Joins, Received
<1>3. \A q \in Received' \cup Underway' :
        q.head = "SSLT" /\ q.session = session' => q.replyAddr <= handled' + 1
  <2> SUFFICES ASSUME NEW q \in Received \cup Underway, q.head = "SSLT", q.session = session
               PROVE  q.replyAddr <= handled' + 1
    BY <1>2
  <2>1. q.replyAddr <= handled + 1
    BY DEF DownKept
  <2>2. q.replyAddr \in Nat
    BY DownTypes
  <2>. QED
    BY <1>1, <2>1, <2>2
<1>4. \A q, r \in Underway' :
        q.head = "AUTH" /\ q.session = session' /\ q.n < r.n
          => r.head = "MDUD" \/ r.session = session'
  <2> SUFFICES ASSUME NEW q \in Underway', NEW r \in Underway', Granting(q), q.n < r.n
               PROVE  r.head = "MDUD" \/ r.session = session
    BY <1>2 DEF Granting
  <2>1. q \in Underway
    <3>1. CASE r \in Underway /\ q = p
      <4>1. r.n \in 1..made /\ q.n = made + 1
        BY <3>1, DownTypes DEF Joins
      <4>. QED
        BY <1>1, <4>1
    <3>2. CASE r = p /\ q = p
      BY <1>1, <3>2 DEF Joins
    <3>. QED
      BY <1>2, <3>1, <3>2
  <2>2. CASE r \in Underway
    BY <2>1, <2>2 DEF DownKept
  <2>3. CASE r = p
    BY <2>1, <2>3 DEF Admitted
  <2>. QED
    BY <1>2, <2>2, <2>3
<1>. QED
  BY <1>2, <1>3, <1>4 DEF DownKept, Granting
LEMMA JoinGranted ==
  ASSUME Base, AnswersKept, NEW p, Joins(p), UNCHANGED handled, p.replyAddr = 0
  PROVE  GrantedKept'
<1>1. /\ UNCHANGED <<session, seen, granted, REP, asked, handled>>
      /\ Coming' \subseteq Coming \cup {p}
  BY DEF Joins, Coming, Received
<1>2. GrantedKept
  BY DEF AnswersKept
<1>. QED
  BY <1>1, <1>2 DEF GrantedKept

LEMMA ReportAnswers == ASSUME Base, AnswersKept, Report PROVE AnswersKept'
<1>1. PICK p : p = Down("MDUD", 0, 0)
  OBVIOUS
<1>2. p.n = made + 1 /\ p.head = "MDUD" /\ p.replyAddr = 0
  BY <1>1 DEF Down
<1>3. /\ UNCHANGED <<soutSck, Pout, cR, session, seen, granted, REP, asked, handled, R, sinSck>>
      /\ O' = Append(O, p)
  BY <1>1 DEF Report, client, files
<1>4. Joins(p)
  BY <1>2, <1>3, JoinUnderway
<1>5. Admitted' => Admitted
  BY <1>2, <1>3, <1>4 DEF Joins, Admitted, Granting
<1>6. UpKept'
  BY <1>3, <1>5 DEF AnswersKept, UpKept
<1>7. handled' \in Nat /\ handled' >= handled
  BY <1>3, FileLinkAssumption DEF Base, Scalars
<1>8. DownKept'
  BY <1>2, <1>4, <1>7, JoinDown DEF AnswersKept
<1>9. GrantedKept'
  BY <1>2, <1>3, <1>4, JoinGranted
<1>. QED
  BY <1>6, <1>8, <1>9 DEF AnswersKept

\* What is left of the received packets keeps the order of the sessions.
LEMMA HandleUp ==
  ASSUME Base, UpKept, R # <<>>, R' = Tail(R), UNCHANGED <<sinSck, session>>,
         Admitted' => Admitted \/ Head(R).session = session
  PROVE  UpKept'
<1>1. /\ Len(R) \in Nat /\ Len(R') = Len(R) - 1 /\ Head(R) = R[1] /\ 1 \in 1..Len(R)
      /\ \A i \in 1..Len(R') : i + 1 \in 1..Len(R) /\ R'[i] = R[i + 1]
  BY UpTypes, HeadTailProperties, LenProperties
<1>2. \A i, j \in 1..Len(R') : i < j => R'[i].session <= R'[j].session
  <2> SUFFICES ASSUME NEW i \in 1..Len(R'), NEW j \in 1..Len(R'), i < j
               PROVE  R'[i].session <= R'[j].session
    OBVIOUS
  <2>1. /\ i + 1 \in 1..Len(R) /\ j + 1 \in 1..Len(R) /\ i + 1 < j + 1
        /\ R'[i] = R[i + 1] /\ R'[j] = R[j + 1]
    BY <1>1
  <2>. QED
    BY <2>1 DEF UpKept
<1>3. sinSck' \notin NotThere => \A i \in 1..Len(R') : R'[i].session <= sinSck'.session
  BY <1>1 DEF UpKept
<1>4. ASSUME Admitted'
      PROVE  /\ \A i \in 1..Len(R') : R'[i].session = session
             /\ sinSck \notin NotThere => sinSck.session = session
  <2>1. CASE Admitted
    BY <1>1, <2>1 DEF UpKept
  <2>2. CASE Head(R).session = session
    <3>1. \A i \in 1..Len(R) : R[i].session <= session /\ R[i].session \in Nat
      BY UpTypes
    <3>2. \A i \in 1..Len(R') : session <= R'[i].session
      <4> SUFFICES ASSUME NEW i \in 1..Len(R') PROVE session <= R'[i].session
        OBVIOUS
      <4>1. i + 1 \in 1..Len(R) /\ 1 < i + 1 /\ R'[i] = R[i + 1]
        BY <1>1
      <4>. QED
        BY <1>1, <2>2, <4>1 DEF UpKept
    <3>3. \A i \in 1..Len(R') : R'[i].session = session
      <4> SUFFICES ASSUME NEW i \in 1..Len(R') PROVE R'[i].session = session
        OBVIOUS
      <4>1. R'[i].session \in Nat /\ R'[i].session <= session /\ session <= R'[i].session
        BY <1>1, <3>1, <3>2
      <4>. QED
        BY <4>1, UpTypes
    <3>4. sinSck \notin NotThere => sinSck.session = session
      <4> SUFFICES ASSUME sinSck \notin NotThere PROVE sinSck.session = session
        OBVIOUS
      <4>1. session <= sinSck.session
        BY <1>1, <2>2 DEF UpKept
      <4>2. sinSck.session <= session /\ sinSck.session \in Nat /\ session \in Nat
        BY UpTypes
      <4>. QED
        BY <4>1, <4>2
    <3>. QED
      BY <3>3, <3>4
  <2>. QED
    BY <1>4, <2>1, <2>2
<1>. QED
  BY <1>2, <1>3, <1>4 DEF UpKept

\* The answer to a log-in is alone in the queue.
LEMMA HandleAuthAnswers ==
  ASSUME Base, AnswersKept, HandlePacket, pinLen # 0, HandleAuth(Head(R))
  PROVE  AnswersKept'
<1>1. PICK p : p = Down("AUTH", 0, Head(R).session)
  OBVIOUS
<1>2. p.n = made + 1 /\ p.head = "AUTH" /\ p.replyAddr = 0 /\ p.session = Head(R).session
  BY <1>1 DEF Down
<1>3. /\ UNCHANGED <<soutSck, Pout, cR, session, seen, granted, REP, asked, handled, sinSck>>
      /\ O' = <<p>> /\ R # <<>> /\ R' = Tail(R)
  BY <1>1 DEF HandlePacket, HandleAuth, AuthAlone, Nobody, client, files
<1>4. Joins(p)
  BY <1>2, <1>3, JoinUnderway
<1>5. Admitted' => Admitted \/ Head(R).session = session
  BY <1>2, <1>3, <1>4 DEF Joins, Admitted, Granting
<1>6. UpKept'
  BY <1>3, <1>5, HandleUp DEF AnswersKept
<1>7. handled' \in Nat /\ handled' >= handled
  BY <1>3, FileLinkAssumption DEF Base, Scalars
<1>8. Admitted => p.session = session
  BY <1>2, <1>3, UpTypes, HeadTailProperties, LenProperties DEF AnswersKept, UpKept
<1>9. DownKept'
  BY <1>2, <1>4, <1>7, <1>8, JoinDown DEF AnswersKept
<1>10. GrantedKept'
  BY <1>2, <1>3, <1>4, JoinGranted
<1>. QED
  BY <1>6, <1>9, <1>10 DEF AnswersKept

\* The request that is handled is the one whose turn it is.
LEMMA HandledIsNext ==
  ASSUME RequestsInv, ~restarted, HandlePacket, pinLen # 0, HandleRequest(Head(R)),
         Head(R).head = "SSLT"
  PROVE  /\ Head(R).session = session =>
              /\ Head(R).replyAddr = handled + 2 /\ handled' = handled + 1
              /\ handled + 2 <= asked + 1
         /\ Head(R).session # session => handled' = handled
<1>1. /\ Base /\ handled \in Nat /\ asked \in Nat /\ asked' = asked /\ session' = session
      /\ R # <<>> /\ R' = Tail(R)
  BY FileLinkAssumption
     DEF RequestsInv, NumbersInv, LockInv, Base, Scalars, HandlePacket, client
<1>2. CASE Head(R).session # session
  BY <1>2 DEF HandleRequest
<1>3. CASE Head(R).session = session
  <2>1. handled' = Head(R).replyAddr - 1
    BY <1>3 DEF HandleRequest
  <2>2. /\ Head(R).replyAddr - 1 = handled + 1 /\ handled + 1 <= asked
    BY <1>3, HandledIsFirst DEF Asks
  <2>3. Head(R) \in UpNow
    BY <1>1, UpTypes, HeadTailProperties
  <2>4. Head(R).replyAddr \in Nat
    BY <1>1, <2>3, UpTypes
  <2>. QED
    BY <1>1, <1>3, <2>1, <2>2, <2>4
<1>. QED
  BY <1>2, <1>3
LEMMA LaterStart ==
  \A m, n, k \in Nat : m <= n => (n + 2)..(k + 1) \subseteq (m + 2)..(k + 1)
OBVIOUS

\* Every answer is for a replyer of the client that asks, which waits for it, as
\* only its packets are left when its log-in has been answered.
LEMMA HandleRequestAnswers ==
  ASSUME RequestsInv, AnswersKept, ~restarted, HandlePacket, pinLen # 0,
         HandleRequest(Head(R)), Head(R).head = "SSLT", user
  PROVE  AnswersKept'
<1>1. PICK p : p = Down("SSLT", Head(R).replyAddr, Head(R).session)
  OBVIOUS
<1>2. /\ p.n = made + 1 /\ p.head = "SSLT" /\ p.replyAddr = Head(R).replyAddr
      /\ p.session = Head(R).session
  BY <1>1 DEF Down
<1>3. /\ UNCHANGED <<soutSck, Pout, cR, session, seen, granted, REP, asked, sinSck>>
      /\ O' = Append(O, p) /\ R # <<>> /\ R' = Tail(R)
  BY <1>1 DEF HandlePacket, HandleRequest, client, files
<1>4. Base /\ handled \in Nat /\ asked \in Nat
  BY FileLinkAssumption DEF RequestsInv, NumbersInv, LockInv, Base, Scalars
<1>5. Joins(p)
  BY <1>2, <1>3, <1>4, JoinUnderway
<1>6. Admitted' => Admitted
  BY <1>2, <1>3, <1>5 DEF Joins, Admitted, Granting
<1>7. UpKept'
  BY <1>3, <1>4, <1>6, HandleUp DEF AnswersKept
<1>8. /\ p.session = session => /\ p.replyAddr = handled + 2 /\ handled' = handled + 1
                                /\ handled + 2 <= asked + 1
      /\ p.session # session => handled' = handled
  BY <1>2, HandledIsNext
<1>9. handled' \in Nat /\ handled' >= handled
  BY <1>4, <1>8
<1>10. Admitted => p.session = session
  BY <1>2, <1>3, <1>4, UpTypes, HeadTailProperties, LenProperties DEF AnswersKept, UpKept
<1>11. DownKept'
  <2>1. p.session = session => p.replyAddr <= handled' + 1
    BY <1>4, <1>8
  <2>. QED
    BY <1>4, <1>5, <1>9, <1>10, <2>1, JoinDown DEF AnswersKept
<1>12. ASSUME granted = session
       PROVE  /\ \A q \in Coming' : q.replyAddr # 0 => q.session = session /\ q.replyAddr \in REP
              /\ \A q, r \in Coming' : q.replyAddr # 0 /\ q.replyAddr = r.replyAddr => q = r
              /\ (handled' + 2)..(asked + 1) \subseteq REP
  <2>1. Coming' \subseteq Coming \cup {p}
    BY <1>5 DEF Joins, Coming, Received
  <2>2. /\ \A q \in Coming : q.replyAddr # 0 => q.session = session /\ q.replyAddr \in REP
        /\ \A q, r \in Coming : q.replyAddr # 0 /\ q.replyAddr = r.replyAddr => q = r
        /\ (handled + 2)..(asked + 1) \subseteq REP
    BY <1>12 DEF AnswersKept, GrantedKept
  <2>3. p.session = session
    BY <1>10, <1>12 DEF Admitted
  <2>4. p.replyAddr \in REP
    <3>1. handled + 2 \in (handled + 2)..(asked + 1)
      BY <1>4, <1>8, <2>3
    <3>. QED
      BY <1>8, <2>2, <2>3, <3>1
  <2>5. \A q \in Coming : q.replyAddr # 0 => q.replyAddr # p.replyAddr
    <3> SUFFICES ASSUME NEW q \in Coming, q.replyAddr # 0 PROVE q.replyAddr # p.replyAddr
      OBVIOUS
    <3>1. q \in Received \cup Underway
      BY DEF Coming
    <3>2. q.head = "SSLT" /\ q.session = session /\ q.replyAddr \in Nat
      BY <1>4, <2>2, <3>1, DownTypes
    <3>3. q.replyAddr <= handled + 1
      BY <3>1, <3>2 DEF AnswersKept, DownKept
    <3>. QED
      BY <1>4, <1>8, <2>3, <3>2, <3>3
  <2>6. (handled' + 2)..(asked + 1) \subseteq REP
    <3>1. (handled' + 2)..(asked + 1) \subseteq (handled + 2)..(asked + 1)
      BY <1>4, <1>9, LaterStart
    <3>. QED
      BY <2>2, <3>1
  <2>. QED
    BY <2>1, <2>2, <2>3, <2>4, <2>5, <2>6
<1>13. GrantedKept'
  BY <1>3, <1>12 DEF GrantedKept
<1>. QED
  BY <1>7, <1>11, <1>13 DEF AnswersKept

\* What is handled without an answer.
LEMMA HandleSilently ==
  ASSUME RequestsInv, AnswersKept, HandlePacket, O' = O, handled' \in Nat, handled' >= handled
  PROVE  AnswersKept'
<1>1. /\ UNCHANGED <<soutSck, Pout, cR, session, seen, granted, REP, asked, sinSck>>
      /\ R # <<>> /\ R' = Tail(R)
  BY DEF HandlePacket, client, files
<1>2. Base /\ handled \in Nat /\ asked \in Nat
  BY FileLinkAssumption DEF RequestsInv, NumbersInv, LockInv, Base, Scalars
<1>3. Underway' = Underway /\ Received' = Received /\ Coming' = Coming
  BY <1>1 DEF Underway, Received, Coming
<1>4. Admitted' => Admitted
  BY <1>1, <1>3 DEF Admitted, Granting
<1>5. UpKept'
  BY <1>1, <1>2, <1>4, HandleUp DEF AnswersKept
<1>6. DownKept'
  <2>1. DownKept
    BY DEF AnswersKept
  <2>2. \A p \in Received' \cup Underway' :
          p.head = "SSLT" /\ p.session = session' => p.replyAddr <= handled' + 1
    <3> SUFFICES ASSUME NEW p \in Received \cup Underway, p.head = "SSLT", p.session = session
                 PROVE  p.replyAddr <= handled' + 1
      BY <1>1, <1>3
    <3>1. p.replyAddr <= handled + 1 /\ p.replyAddr \in Nat
      BY <1>2, <2>1, DownTypes DEF DownKept
    <3>. QED
      BY <1>2, <3>1
  <2>3. \A p, q \in Underway' :
          p.head = "AUTH" /\ p.session = session' /\ p.n < q.n
            => q.head = "MDUD" \/ q.session = session'
    BY <1>1, <1>3, <2>1 DEF DownKept, Granting
  <2>. QED
    BY <1>1, <2>1, <2>2, <2>3 DEF DownKept, Granting
<1>7. GrantedKept'
  <2>1. (handled' + 2)..(asked + 1) \subseteq (handled + 2)..(asked + 1)
    BY <1>2, LaterStart
  <2>. QED
    BY <1>1, <1>3, <2>1 DEF AnswersKept, GrantedKept
<1>. QED
  BY <1>5, <1>6, <1>7 DEF AnswersKept

LEMMA HandleAnswers ==
  ASSUME RequestsInv, AnswersKept, ~restarted, HandlePacket PROVE AnswersKept'
<1>1. Base /\ handled \in Nat
  BY FileLinkAssumption DEF RequestsInv, NumbersInv, LockInv, Base, Scalars
<1>2. CASE pinLen = 0
  <2>1. O' = O /\ handled' = handled
    BY <1>2 DEF HandlePacket
  <2>. QED
    BY <1>1, <2>1, HandleSilently
<1>3. CASE pinLen # 0 /\ Head(R).head = "AUTH" /\ HandleAuth(Head(R))
  BY <1>1, <1>3, HandleAuthAnswers
<1>4. CASE pinLen # 0 /\ Head(R).head = "SSLT" /\ HandleRequest(Head(R))
  <2>1. CASE user
    BY <1>4, <2>1, HandleRequestAnswers
  <2>2. CASE ~user
    <3>1. O' = O
      BY <1>4, <2>2 DEF HandleRequest
    <3>2. handled' = handled \/ handled' = handled + 1
      BY <1>4, HandledIsNext
    <3>. QED
      BY <1>1, <3>1, <3>2, HandleSilently
  <2>. QED
    BY <2>1, <2>2
<1>. QED
  BY <1>2, <1>3, <1>4 DEF HandlePacket

LEMMA AnswersStep == AnswersInv /\ [Next]_vars => AnswersInv'
<1> SUFFICES ASSUME AnswersInv, [Next]_vars, ~restarted' PROVE AnswersKept'
  BY RequestsStep DEF AnswersInv
<1>1. RequestsInv /\ Base /\ DownLock /\ Beginning
  BY DEF AnswersInv, RequestsInv, NumbersInv, LockInv
<1>2. ~restarted
  <2>1. CASE RestartClient
    <3>1. restarts = 0
      BY <2>1 DEF RestartClient
    <3>. QED
      BY <1>1, <3>1 DEF Beginning, Base, Scalars
  <2>2. CASE ServerStarts
    BY <2>2 DEF ServerStarts
  <2>3. CASE UNCHANGED vars
    BY <2>3 DEF vars, history
  <2>4. CASE ClientThread
    BY <2>4 DEF ClientThread, LogIn, GiveUp, Answered, ReadAnswer, DeleteAnswer, readSocket,
                writeSocket, history
  <2>5. CASE addPacketToQueue \/ handleReceivingQueue
    BY <2>5 DEF addPacketToQueue, handleReceivingQueue, history
  <2>6. CASE NetworkThread \/ Report
    BY <2>6 DEF NetworkThread, Update, HandlePacket, SecondUpdate, NextRound, Report, history
  <2>. QED
    BY <2>1, <2>2, <2>3, <2>4, <2>5, <2>6 DEF Next
<1>3. AnswersKept
  BY <1>2 DEF AnswersInv
<1>4. CASE UNCHANGED <<soutSck, Pout, O, cR, session, handled, seen, granted, REP, asked, R, sinSck>>
  BY <1>3, <1>4, SameDown DEF AnswersKept
<1>5. CASE readSocket
  <2>1. CASE cpc = "take" /\ soutSck \notin NotThere
    BY <1>1, <1>2, <1>3, <1>5, <2>1, TakeAnswers
  <2>2. CASE cpc # "take" \/ soutSck \in NotThere
    BY <1>4, <1>5, <2>2 DEF readSocket, ReadFile, TakeFile, server
  <2>. QED
    BY <2>1, <2>2
<1>6. CASE UNCHANGED vars
  BY <1>4, <1>6 DEF vars, files, client, server, history
<1>7. CASE GiveUp \/ Answered \/ DeleteAnswer
  BY <1>4, <1>7 DEF GiveUp, Answered, DeleteAnswer, files, server, history
<1>8. CASE SecondUpdate \/ NextRound
  BY <1>4, <1>8 DEF SecondUpdate, NextRound, files, client, history
<1>9. ~ServerStarts
  BY DEF ServerStarts
<1>. QED
  BY <1>1, <1>2, <1>3, <1>5, <1>6, <1>7, <1>8, <1>9, LogInAnswers, WriteAnswers,
     ReceiveAnswers, ClientAgainAnswers, ReadAnswerAnswers, SendAnswers, AskAnswers,
     ShowAnswers, ReportAnswers, HandleAnswers
     DEF Next, ClientThread, NetworkThread, Update

\* Once the client's own log-in has been answered, what waits for one of its
\* replyers is the answer to that request, and the only one.
THEOREM AnswersAreOwn == Spec => []OwnAnswers
<1>1. AnswersInv => OwnAnswers
  <2> SUFFICES ASSUME AnswersInv, Undisturbed, granted = session,
                      NEW i \in 1..Len(cR), cR[i].replyAddr # 0
               PROVE  /\ cR[i].session = session /\ cR[i].replyAddr \in REP
                      /\ \A j \in 1..Len(cR) : cR[j].replyAddr = cR[i].replyAddr => i = j
    <3>1. AnswersInv => cR \in Seq(DownNow)
      BY DEF AnswersInv, RequestsInv, NumbersInv, LockInv, Base, DownShapes
    <3>2. AnswersInv => DOMAIN cR = 1..Len(cR)
      BY <3>1, LenProperties
    <3>. QED
      BY <3>2 DEF OwnAnswers
  <2>1. DownKept /\ GrantedKept /\ Base
    BY DEF AnswersInv, AnswersKept, Undisturbed, RequestsInv, NumbersInv, LockInv
  <2>2. \A j \in 1..Len(cR) : cR[j] \in Coming
    BY DEF Coming, Received
  <2>3. cR[i].session = session /\ cR[i].replyAddr \in REP
    BY <2>1, <2>2 DEF GrantedKept
  <2>4. ASSUME NEW j \in 1..Len(cR), cR[j].replyAddr = cR[i].replyAddr PROVE i = j
    <3>1. cR[j] = cR[i]
      BY <2>1, <2>2, <2>4 DEF GrantedKept
    <3>2. cR[i].n \in Nat /\ i \in Nat /\ j \in Nat
      BY <2>1, DownTypes DEF Received
    <3>3. ~(i < j) /\ ~(j < i)
      BY <2>1, <3>1, <3>2 DEF DownKept
    <3>. QED
      BY <3>2, <3>3
  <2>. QED
    BY <2>3, <2>4
<1>2. QED
  BY AnswersInit, AnswersStep, <1>1, PTL DEF Spec
=============================================================================
