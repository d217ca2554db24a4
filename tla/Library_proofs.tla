--------------------------- MODULE Library_proofs ---------------------------
(***************************************************************************)
(* The ledger, for every number of jobs: rows and stages agree.  The       *)
(* library of a client on top of it, for every number of jobs, packets,    *)
(* contexts and older fractals and whatever its user presses: it changes   *)
(* the ledger only as the ledger allows, and while all is calm its tiles   *)
(* are told of everything and never go back from a verdict.                *)
(***************************************************************************)
EXTENDS Library, SequenceTheorems, WellFoundedInduction, TLAPS

-----------------------------------------------------------------------------
(* The ledger's variables keep their types.                                *)

LEMMA TypeInit == Init => TypeOK
  BY DEF Init, TypeOK, RowStatus, Stages

LEMMA TypeStep == TypeOK /\ [Next]_vars => TypeOK'
<1> SUFFICES ASSUME TypeOK, [Next]_vars PROVE TypeOK'
  OBVIOUS
<1> USE DEF TypeOK, RowStatus, Stages, MoveTo, WriteRow
<1>1. CASE UNCHANGED vars
  BY <1>1 DEF vars
<1>2. ASSUME NEW id \in Ids, Submit(id) PROVE TypeOK'
  BY <1>2 DEF Submit
<1>3. ASSUME NEW id \in Ids, Insert(id) PROVE TypeOK'
  BY <1>3 DEF Insert
<1>4. ASSUME NEW id \in Ids, Start(id) PROVE TypeOK'
  BY <1>4 DEF Start
<1>5. ASSUME NEW id \in Ids, CancelWaiting(id) PROVE TypeOK'
  BY <1>5 DEF CancelWaiting, Verdicts
<1>6. ASSUME NEW id \in Ids, CancelActive(id) PROVE TypeOK'
  BY <1>6 DEF CancelActive, Verdicts
<1>7. ASSUME NEW id \in Ids, NEW v \in Verdicts, Close(id, v) PROVE TypeOK'
  BY <1>7 DEF Close
<1>8. ASSUME NEW id \in Ids, Delete(id) PROVE TypeOK'
  BY <1>8 DEF Delete
<1>9. CASE Restart
  BY <1>9 DEF Restart, Lost, Verdicts
<1>10. QED
  BY <1>1, <1>2, <1>3, <1>4, <1>5, <1>6, <1>7, <1>8, <1>9 DEF Next

\* Every variable of the ledger keeps its type.
THEOREM LedgerTyped == Spec => []TypeOK
BY TypeInit, TypeStep, PTL DEF Spec

-----------------------------------------------------------------------------
(* Rows, stages and late rows only make sense together: a row inserted late *)
(* says QUEUED whatever the stage, so nothing may depend on QUEUED rows,    *)
(* and a stage is "unused" only without a row.                              *)

LedgerInv == TypeOK /\ RowMatchesStage /\ PendingHasNoRow

LEMMA LedgerInit == Init => LedgerInv
  BY TypeInit
  DEF Init, LedgerInv, RowMatchesStage, PendingHasNoRow, Present, RowStatus

LEMMA LedgerStep == LedgerInv /\ [Next]_vars => LedgerInv'
<1> SUFFICES ASSUME LedgerInv, [Next]_vars PROVE LedgerInv'
  OBVIOUS
<1> TypeOK /\ TypeOK'
  BY TypeStep DEF LedgerInv
<1> USE DEF LedgerInv, TypeOK, RowMatchesStage, PendingHasNoRow, Present,
            RowStatus, Stages, MoveTo, WriteRow
<1>1. CASE UNCHANGED vars
  BY <1>1 DEF vars
<1>2. ASSUME NEW id \in Ids, Submit(id) PROVE LedgerInv'
  BY <1>2 DEF Submit
<1>3. ASSUME NEW id \in Ids, Insert(id) PROVE LedgerInv'
  BY <1>3 DEF Insert
<1>4. ASSUME NEW id \in Ids, Start(id) PROVE LedgerInv'
  BY <1>4 DEF Start
<1>5. ASSUME NEW id \in Ids, CancelWaiting(id) PROVE LedgerInv'
  BY <1>5 DEF CancelWaiting
<1>6. ASSUME NEW id \in Ids, CancelActive(id) PROVE LedgerInv'
  BY <1>6 DEF CancelActive
<1>7. ASSUME NEW id \in Ids, NEW v \in Verdicts, Close(id, v) PROVE LedgerInv'
  BY <1>7 DEF Close, Verdicts
<1>8. ASSUME NEW id \in Ids, Delete(id) PROVE LedgerInv'
  BY <1>8 DEF Delete
<1>9. CASE Restart
  BY <1>9, MaxJobsAssumption DEF Restart, Lost, Reusable, Ids
<1>10. QED
  BY <1>1, <1>2, <1>3, <1>4, <1>5, <1>6, <1>7, <1>8, <1>9 DEF Next

\* A row never tells of a job that is not there.
THEOREM RowsMatchStages == Spec => []RowMatchesStage
<1>1. LedgerInv => RowMatchesStage
  BY DEF LedgerInv
<1>2. QED
  BY <1>1, LedgerInit, LedgerStep, PTL DEF Spec

\* A job whose row is still to be inserted has none yet, and an id that was
\* not handed out has no row.
THEOREM PendingJobsHaveNoRow == Spec => []PendingHasNoRow
<1>1. LedgerInv => PendingHasNoRow
  BY DEF LedgerInv
<1>2. QED
  BY <1>1, LedgerInit, LedgerStep, PTL DEF Spec

\* A row and the stage of its job agree at all times: submission, insertion,
\* cancel, verdict, deletion and restart never let one go without the other.
THEOREM RowsAgreeWithStages == Spec => []RowsAgree
<1>1. LedgerInv => RowsAgree
  BY DEF LedgerInv, RowsAgree
<1>2. QED
  BY <1>1, LedgerInit, LedgerStep, PTL DEF Spec

-----------------------------------------------------------------------------
(* The server of the library is the ledger: whatever else a step does, the  *)
(* rows, stages and late rows change as an action of JobLedger changes them. *)

LEMMA LedgerUnchanged == UNCHANGED ledger => UNCHANGED vars
  BY DEF ledger, vars

LEMMA MainIsLedger == ASSUME NEW id \in Ids, Main(id) PROVE Next
<1>1. Start(id) \/ CancelWaiting(id) \/ CancelActive(id)
        \/ Close(id, "COMPLETE") \/ Delete(id)
  BY DEF Main, LibStart, LibCancel, LibClose, LibDelete
<1>2. "COMPLETE" \in Verdicts
  BY DEF Verdicts
<1>. QED
  BY <1>1, <1>2 DEF Next

LEMMA NetworkIsLedger == ASSUME Network PROVE [Next]_vars
<1>1. CASE ServeSearch
  BY <1>1, LedgerUnchanged DEF ServeSearch
<1>2. CASE \E id \in Ids : ServeInfo(id) \/ DeliverReport(id) \/ DeliverDeletion(id)
  BY <1>2, LedgerUnchanged DEF ServeInfo, DeliverReport, DeliverDeletion
<1>3. CASE \E id \in Ids : ServeJob(id) \/ ServeOther(id) \/ InsertRow(id)
  <2>1. \E id \in Ids : Submit(id) \/ Insert(id)
    BY <1>3 DEF ServeJob, ServeOther, InsertRow
  <2>. QED
    BY <2>1 DEF Next
<1>. QED
  BY <1>1, <1>2, <1>3 DEF Network

LEMMA LibIsLedger == [LibNext]_libVars => [Next]_vars
<1>1. ASSUME LibNext PROVE [Next]_vars
  <2>1. CASE \E id \in Ids : Main(id)
    BY <2>1, MainIsLedger
  <2>2. CASE Network
    BY <2>2, NetworkIsLedger
  <2>3. CASE LibRestart
    BY <2>3 DEF LibRestart, Next
  <2>4. CASE \/ \E id \in Ids : UserAsks(id)
             \/ UserDeclines \/ UserOpens
             \/ Receive \/ Handle \/ TimerSearch \/ TimerAgain \/ UserSubmits
             \/ Break \/ ConnectionDropped
    BY <2>4, LedgerUnchanged
       DEF UserAsks, UserDeclines, UserOpens, Receive, Handle, TimerSearch, TimerAgain,
           UserSubmits,
           Break, ConnectionDropped
  <2>. QED
    BY <1>1, <2>1, <2>2, <2>3, <2>4 DEF LibNext
<1>2. ASSUME UNCHANGED libVars PROVE UNCHANGED vars
  BY <1>2 DEF libVars, ledger, vars
<1>. QED
  BY <1>1, <1>2

\* Whatever clients, links, searches and reports do, the rows and the jobs
\* behind them change only as the ledger says: the library implements it.
THEOREM LibraryKeepsLedger == LibSpec => Spec
<1>1. LibInit => Init
  BY DEF LibInit
<1>. QED
  BY <1>1, LibIsLedger, PTL DEF LibSpec, Spec

-----------------------------------------------------------------------------
(* The variables keep their types.                                         *)

Context == [id : Ids, status : Updateable]

\* A set of naturals that is not empty has a least member.
LEMMA LeastOf ==
  ASSUME NEW S, S \subseteq Nat, S # {}
  PROVE  \E n \in S : \A m \in S : n <= m
<1> DEFINE Less == {ss \in Nat \X Nat : ss[1] < ss[2]}
<1>1. Less = OpToRel(<, Nat)
  BY Zenon DEF OpToRel
<1>2. IsWellFoundedOn(Less, Nat)
  BY <1>1, NatLessThanWellFounded, Zenon
<1>3. ASSUME NEW m \in Nat, NEW n \in Nat, m < n PROVE <<m, n>> \in Less
  BY <1>3
<1> HIDE DEF Less
<1>4. PICK n \in S : \A m \in S : ~ (<<m, n>> \in Less)
  BY <1>2, WFMin
<1>5. ASSUME NEW m \in S PROVE n <= m
  <2>1. m \in Nat /\ n \in Nat /\ ~(m < n)
    BY <1>3, <1>4
  <2>. QED
    BY <2>1
<1>. QED
  BY <1>5

LEMMA RemoveAtType ==
  ASSUME NEW S, NEW s \in Seq(S), NEW i \in 1..Len(s)
  PROVE  RemoveAt(s, i) \in Seq(S)
<1>1. SubSeq(s, 1, i - 1) \in Seq(S) /\ SubSeq(s, i + 1, Len(s)) \in Seq(S)
  BY SubSeqProperties, LenProperties
<1>. QED
  BY <1>1, ConcatProperties DEF RemoveAt

\* What a packet to the client carries.
LEMMA PacketFields ==
  ASSUME NEW m \in Answers
  PROVE  /\ m.head \in {"SSLT", "SJOB", "DELF", "MDUD"}
         /\ m.head = "SSLT" => m.ids \subseteq Ids
         /\ m.head \in {"SJOB", "DELF", "MDUD"} => m.id \in Ids
         /\ m.head = "MDUD" => m.status \in RowStatus \ {"NONE"}
  BY DEF Answers

LEMMA PacketTypes ==
  ASSUME LibTypeOK, NEW id \in Ids
  PROVE  /\ Present(id) => Status(id) \in Answers
         /\ Submitted(id) \in Answers /\ Deleted(id) \in Answers
         /\ \A S \in SUBSET Ids, e \in BOOLEAN : Found(S, e) \in Answers
         /\ Info(id) \in Requests /\ Job \in Requests /\ Search \in Requests
<1>1. Present(id) => Status(id) \in Answers
  BY DEF LibTypeOK, TypeOK, Present, Status, Answers
<1>2. Submitted(id) \in Answers /\ Deleted(id) \in Answers
  BY DEF Submitted, Deleted, Answers
<1>3. \A S \in SUBSET Ids, e \in BOOLEAN : Found(S, e) \in Answers
  BY DEF Found, Answers
<1>4. Info(id) \in Requests /\ Job \in Requests /\ Search \in Requests
  BY DEF Requests
<1>. QED
  BY <1>1, <1>2, <1>3, <1>4

LEMMA SendType ==
  ASSUME LibTypeOK, NEW m \in Answers, Send(m) PROVE down' \in Seq(Answers)
<1>1. down \in Seq(Answers)
  BY DEF LibTypeOK
<1>2. Append(down, m) \in Seq(Answers)
  BY <1>1, AppendProperties
<1>. QED
  BY <1>1, <1>2 DEF Send

LEMMA SendStatusType ==
  ASSUME LibTypeOK, NEW id \in Ids, SendStatus(id) PROVE down' \in Seq(Answers)
<1>1. CASE Present(id)
  BY <1>1, PacketTypes, SendType DEF SendStatus
<1>2. CASE ~Present(id)
  BY <1>2 DEF SendStatus, LibTypeOK
<1>. QED
  BY <1>1, <1>2

\* A context is removed, and put at the end if it still waits.
LEMMA ShownInType ==
  ASSUME NEW cs \in Seq(Context), NEW id \in Ids, NEW s
  PROVE  ShownIn(cs, id, s) \in Seq(Context)
<1> DEFINE other == {i \in DOMAIN cs : cs[i].id = id /\ cs[i].status # s}
           i == CHOOSE i \in other : \A j \in other : i <= j
<1>1. CASE other = {}
  BY <1>1 DEF ShownIn
<1>2. CASE other # {}
  <2>1. other \subseteq Nat /\ DOMAIN cs = 1..Len(cs)
    BY LenProperties
  <2>2. \E k \in other : \A j \in other : k <= j
    BY <1>2, <2>1, LeastOf
  <2>3. i \in other
    BY <2>2
  <2>4. i \in 1..Len(cs)
    BY <2>1, <2>3
  <2>5. RemoveAt(cs, i) \in Seq(Context)
    <3>. HIDE DEF i, other
    <3>. QED
      BY <2>4, RemoveAtType
  <2>6. s \in Updateable
          => Append(RemoveAt(cs, i), [id |-> id, status |-> s]) \in Seq(Context)
    <3>1. s \in Updateable => [id |-> id, status |-> s] \in Context
      BY DEF Context
    <3>. HIDE DEF i, other
    <3>. QED
      BY <2>5, <3>1, AppendProperties
  <2>7. ShownIn(cs, id, s)
          = IF s \in Updateable
            THEN Append(RemoveAt(cs, i), [id |-> id, status |-> s])
            ELSE RemoveAt(cs, i)
    BY <1>2 DEF ShownIn
  <2>. HIDE DEF i, other
  <2>. QED
    BY <2>5, <2>6, <2>7
<1>. QED
  BY <1>1, <1>2
LEMMA LibTypeInit == LibInit => LibTypeOK
<1> SUFFICES ASSUME LibInit PROVE LibTypeOK
  OBVIOUS
<1>1. TypeOK
  BY TypeInit DEF LibInit
<1>2. down \in Seq(Answers) /\ R \in Seq(Answers) /\ C \in Seq(Context)
  BY EmptySeq DEF LibInit
<1>3. T \in [Ids -> TileStatus]
  BY DEF LibInit, TileStatus, RowStatus
<1>. QED
  BY <1>1, <1>2, <1>3 DEF LibInit, LibTypeOK, Context

LEMMA MainTypes ==
  ASSUME LibTypeOK, TypeOK', NEW id \in Ids, Main(id) PROVE LibTypeOK'
<1>1. reports' \subseteq Ids /\ gone' \subseteq Ids
  BY DEF Main, LibStart, LibCancel, LibClose, LibDelete, Report, LibTypeOK
<1>2. UNCHANGED <<link, down, up, R, T, C, D, late, weather, older>>
  BY DEF Main, client, dialog
<1>. QED
  BY <1>1, <1>2 DEF LibTypeOK

LEMMA NetworkTypes ==
  ASSUME LibTypeOK, TypeOK', Network PROVE LibTypeOK'
<1>1. CASE ServeSearch
  <2>1. Found(SearchResult, SearchResult = {} /\ older = 0) \in Answers
    <3>1. SearchResult \subseteq Ids
      BY DEF SearchResult
    <3>. QED
      BY <3>1 DEF Found, Answers
  <2>2. down' \in Seq(Answers)
    BY <1>1, <2>1, SendType DEF ServeSearch
  <2>. QED
    BY <1>1, <2>2 DEF ServeSearch, Takes, LibTypeOK, server, dialog
<1>2. ASSUME NEW id \in Ids, ServeInfo(id) PROVE LibTypeOK'
  <2>1. down' \in Seq(Answers)
    BY <1>2, SendStatusType DEF ServeInfo
  <2>. QED
    BY <1>2, <2>1 DEF ServeInfo, Takes, LibTypeOK, server, dialog
<1>3. ASSUME NEW id \in Ids, ServeJob(id) PROVE LibTypeOK'
  <2>1. up' \subseteq Requests
    BY <1>3 DEF ServeJob, LibTypeOK, Requests
  <2>. QED
    BY <1>3, <2>1 DEF ServeJob, LibTypeOK, server, dialog
<1>4. ASSUME NEW id \in Ids, InsertRow(id) PROVE LibTypeOK'
  <2>1. down' \in Seq(Answers)
    <3>1. down \in Seq(Answers)
      BY DEF LibTypeOK
    <3>. QED
      BY <1>4, <3>1, SendType, PacketTypes DEF InsertRow
  <2>2. up' \subseteq Requests
    BY <1>4 DEF InsertRow, LibTypeOK
  <2>. QED
    BY <1>4, <2>1, <2>2 DEF InsertRow, LibTypeOK, server, dialog
<1>5. ASSUME NEW id \in Ids, DeliverReport(id) PROVE LibTypeOK'
  <2>1. down' \in Seq(Answers)
    BY <1>5, SendStatusType DEF DeliverReport
  <2>. QED
    BY <1>5, <2>1 DEF DeliverReport, LibTypeOK, client, dialog
<1>6. ASSUME NEW id \in Ids, DeliverDeletion(id) PROVE LibTypeOK'
  <2>1. down' \in Seq(Answers)
    BY <1>6, SendType, PacketTypes DEF DeliverDeletion
  <2>. QED
    BY <1>6, <2>1 DEF DeliverDeletion, LibTypeOK, client, dialog
<1>7. ASSUME NEW id \in Ids, ServeOther(id) PROVE LibTypeOK'
  BY <1>7 DEF ServeOther, LibTypeOK, server, client, dialog
<1>. QED
  BY <1>1, <1>2, <1>3, <1>4, <1>5, <1>6, <1>7 DEF Network

LEMMA ReceiveTypes ==
  ASSUME LibTypeOK, TypeOK', Receive PROVE LibTypeOK'
<1>1. down \in Seq(Answers) /\ down # <<>> /\ R \in Seq(Answers)
  BY DEF Receive, LibTypeOK
<1>2. Head(down) \in Answers /\ Tail(down) \in Seq(Answers)
  BY <1>1, HeadTailProperties
<1>3. PICK m \in Answers : m = Head(down)
  BY <1>2
<1>4. <<m>> \in Seq(Answers)
  OBVIOUS
<1>5. <<m>> \o R \in Seq(Answers)
  BY <1>1, <1>4, ConcatProperties
<1>6. R' \in Seq(Answers) /\ down' \in Seq(Answers)
  BY <1>2, <1>3, <1>5 DEF Receive
<1>. QED
  BY <1>6 DEF Receive, LibTypeOK, server, dialog

LEMMA HandleTypes ==
  ASSUME LibTypeOK, TypeOK', Handle PROVE LibTypeOK'
<1> DEFINE m == Head(R)
<1>1. R \in Seq(Answers) /\ R # <<>> /\ R' = Tail(R)
  BY DEF Handle, LibTypeOK
<1>2. m \in Answers /\ R' \in Seq(Answers)
  BY <1>1, HeadTailProperties
<1>3. /\ T \in [Ids -> TileStatus] /\ C \in Seq(Context) /\ up \subseteq Requests
  BY DEF LibTypeOK, Context
<1>4. UNCHANGED <<reports, gone, link, down, late, weather, older>>
  BY DEF Handle, server
<1>. HIDE DEF m
<1> DEFINE Dialog == [id : Ids, says : {InLibrary} \cup TileStatus]
<1>6. D' \subseteq Dialog
  <2>1. D \subseteq Dialog /\ T \in [Ids -> TileStatus]
    BY DEF LibTypeOK
  <2>2. ASSUME NEW S, TakenOut(S) PROVE D' \subseteq Dialog
    BY <2>1, <2>2 DEF TakenOut
  <2>3. D' = D \/ \E S : TakenOut(S)
    <3>1. CASE \/ m.head = "MDUD" /\ HandleStatus(m.id, m.status)
               \/ m.head = "SJOB" /\ HandleSubmitted(m.id)
      BY <3>1 DEF HandleStatus, HandleSubmitted
    <3>2. CASE m.head = "DELF" /\ HandleDeletion(m.id)
      BY <3>2 DEF HandleDeletion
    <3>3. CASE m.head = "SSLT" /\ HandleSearch(m.ids, m.empty)
      BY <3>3 DEF HandleSearch
    <3>. QED
      BY <3>1, <3>2, <3>3 DEF Handle, m
  <2>. QED
    BY <2>1, <2>2, <2>3
<1>5. T' \in [Ids -> TileStatus] /\ C' \in Seq(Context) /\ up' \subseteq Requests
  <2>1. CASE m.head = "MDUD" /\ HandleStatus(m.id, m.status)
    <3>1. m.id \in Ids /\ m.status \in RowStatus
      BY <1>2, <2>1, PacketFields
    <3>2. C' \in Seq(Context)
      BY <1>3, <2>1, <3>1, ShownInType DEF HandleStatus
    <3>. QED
      BY <1>3, <2>1, <3>1, <3>2 DEF HandleStatus, TileStatus
  <2>2. CASE m.head = "DELF" /\ HandleDeletion(m.id)
    BY <1>3, <2>2 DEF HandleDeletion, TileStatus, RowStatus
  <2>3. CASE m.head = "SSLT" /\ HandleSearch(m.ids, m.empty)
    <3>1. m.ids \subseteq Ids
      BY <1>2, <2>3, PacketFields
    <3>2. up' \subseteq Requests
      BY <1>3, <2>3, <3>1 DEF HandleSearch, Ask, Unknown, Requests
    <3>3. T' \in [Ids -> TileStatus]
      BY <1>3, <2>3 DEF HandleSearch, TileStatus, RowStatus
    <3>. QED
      BY <1>3, <2>3, <3>2, <3>3 DEF HandleSearch
  <2>4. CASE m.head = "SJOB" /\ HandleSubmitted(m.id)
    <3>1. m.id \in Ids
      BY <1>2, <2>4, PacketFields
    <3>2. [id |-> m.id, status |-> "SUBMITTED"] \in Context
      BY <3>1 DEF Context, Updateable
    <3>3. Append(C, [id |-> m.id, status |-> "SUBMITTED"]) \in Seq(Context)
      BY <1>3, <3>2, AppendProperties
    <3>. QED
      BY <1>3, <2>4, <3>1, <3>3, ShownInType DEF HandleSubmitted
  <2>. QED
    BY <2>1, <2>2, <2>3, <2>4 DEF Handle, m
<1>. QED
  BY <1>2, <1>4, <1>5, <1>6 DEF LibTypeOK, Context

LEMMA UserTypes ==
  ASSUME LibTypeOK, TypeOK',
         \/ TimerSearch \/ TimerAgain \/ UserSubmits \/ UserDeclines \/ UserOpens
         \/ \E id \in Ids : UserAsks(id)
  PROVE  LibTypeOK'
<1>1. CASE TimerSearch \/ UserSubmits
  BY <1>1 DEF TimerSearch, UserSubmits, LibTypeOK, server, dialog, Requests
<1>2. CASE TimerAgain
  BY <1>2 DEF TimerAgain, Ask, LibTypeOK, server, dialog, Requests
<1>3. CASE UserDeclines \/ \E id \in Ids : UserAsks(id)
  BY <1>3 DEF UserDeclines, UserAsks, LibTypeOK, server
<1>4. CASE UserOpens
  <2>1. PICK d \in D :
          /\ D' = {}
          /\ \/ UNCHANGED <<C, late>>
             \/ /\ Opening(d)
                /\ C' = Append(C, [id |-> d.id, status |-> Pressed(d)])
                /\ late' \in {late, late \cup {d.id}}
          /\ UNCHANGED <<ledger, server, link, down, up, R, T, weather, older>>
    BY <1>4 DEF UserOpens
  <2>2. d.id \in Ids /\ C \in Seq(Context)
    BY <2>1 DEF LibTypeOK, Context
  <2>3. Opening(d) => [id |-> d.id, status |-> Pressed(d)] \in Context
    BY <2>2 DEF Opening, Context, Updateable
  <2>4. C' \in Seq(Context)
    BY <2>1, <2>2, <2>3, AppendProperties
  <2>. QED
    BY <2>1, <2>2, <2>4 DEF LibTypeOK, server, Context
<1>. QED
  BY <1>1, <1>2, <1>3, <1>4

LEMMA LinkTypes ==
  ASSUME LibTypeOK, TypeOK', Break \/ LibRestart \/ ConnectionDropped
  PROVE  LibTypeOK'
<1>1. LoseSome => down' \in Seq(Answers)
  <2>1. ASSUME NEW n \in 0..Len(down) PROVE SubSeq(down, 1, n) \in Seq(Answers)
    BY SubSeqProperties, LenProperties DEF LibTypeOK
  <2>. QED
    BY <2>1 DEF LoseSome
<1>2. CASE Break
  BY <1>1, <1>2 DEF Break, LibTypeOK, server, client, dialog
<1>3. CASE LibRestart
  BY <1>1, <1>3 DEF LibRestart, LibTypeOK, client, dialog
<1>4. CASE ConnectionDropped
  BY <1>4, EmptySeq DEF ConnectionDropped, LibTypeOK, server, dialog
<1>. QED
  BY <1>2, <1>3, <1>4

LEMMA LibTypeStep == LibTypeOK /\ [LibNext]_libVars => LibTypeOK'
<1> SUFFICES ASSUME LibTypeOK, [LibNext]_libVars PROVE LibTypeOK'
  OBVIOUS
<1>1. TypeOK'
  BY LibIsLedger, TypeStep DEF LibTypeOK
<1>2. CASE UNCHANGED libVars
  BY <1>1, <1>2 DEF LibTypeOK, libVars, server, client, dialog
<1>3. CASE LibNext
  BY <1>1, <1>3, MainTypes, NetworkTypes, ReceiveTypes, HandleTypes, UserTypes,
     LinkTypes
     DEF LibNext
<1>. QED
  BY <1>2, <1>3

\* The ledger, the reports, the link, the packets, the tiles and the contexts
\* keep their types: what is sent is about a row that is there, and a context
\* that stays waits for something.
THEOREM LibraryTyped == LibSpec => []LibTypeOK
  BY LibTypeInit, LibTypeStep, PTL DEF LibSpec
-----------------------------------------------------------------------------
(* While all is calm, packets are handled in the order they were sent:     *)
(* those received and those on their way are one queue.  For each fractal  *)
(* it ends in the truth, or the tile shows it, unless a report is still to *)
(* be sent (Telling); what was deleted is gone for good (Deaths); and once  *)
(* a verdict has been sent or shown, only verdicts follow (Final).          *)

Line == R \o down

About(p, id) == p.head \in {"MDUD", "DELF"} /\ p.id = id
Shows(p, id) == p.head = "MDUD" /\ p.id = id
Deletes(p, id) == p.head = "DELF" /\ p.id = id

Unheard(s, id) == \A i \in 1..Len(s) : ~About(s[i], id)
\* m is the last packet of s about id.
Heard(s, id, m) ==
  \E i \in 1..Len(s) : /\ s[i] = m /\ About(m, id)
                       /\ \A j \in (i + 1)..Len(s) : ~About(s[j], id)

Told(s, id) ==
  /\ Unheard(s, id) => T[id] \in {"NONE", "UNLINKED", row[id]}
  /\ \A m \in Answers : Heard(s, id, m) =>
       IF m.head = "MDUD" THEN m.status = row[id] ELSE ~Present(id)
\* Of a fractal without a row nothing is told, or its deletion.
GoneTold(s, id) ==
  /\ Unheard(s, id) => T[id] \in {"NONE", "UNLINKED"}
  /\ \A m \in Answers : Heard(s, id, m) => m.head = "DELF"
Telling(s, id) ==
  /\ id \notin reports \cup gone => Told(s, id)
  /\ id \notin gone /\ ~Present(id) => GoneTold(s, id)

Dead(id) == ~Present(id) /\ stage[id] # "unused" /\ id \notin pending
Deaths(s, id) ==
  /\ id \in gone => Dead(id)
  /\ \A i \in 1..Len(s) : Deletes(s[i], id) => Dead(id)

Over(id) ==
  /\ row[id] \in Verdicts \cup {"NONE"}
  /\ stage[id] \in {"active", "over"} /\ id \notin pending
VerdictsFrom(s, id, i) ==
  \A j \in 1..Len(s) : i <= j /\ Shows(s[j], id) => s[j].status \in Verdicts
Final(s, id) ==
  /\ T[id] \in Verdicts => Over(id) /\ VerdictsFrom(s, id, 1)
  /\ \A i \in 1..Len(s) : Shows(s[i], id) /\ s[i].status \in Verdicts
       => Over(id) /\ VerdictsFrom(s, id, i)

CalmInv ==
  weather = "calm" =>
    /\ link = "open" /\ Len(R) <= 1
    /\ \A id \in Ids : Telling(Line, id) /\ Deaths(Line, id) /\ Final(Line, id)

LibInv == LibTypeOK /\ LedgerInv /\ CalmInv

LEMMA LineType == ASSUME LibTypeOK PROVE Line \in Seq(Answers)
  BY ConcatProperties DEF LibTypeOK, Line

\* What a packet put at the end of the queue changes.
LEMMA HearingAppend ==
  ASSUME NEW s \in Seq(Answers), NEW m \in Answers, NEW id \in Ids
  PROVE  /\ ~About(m, id) =>
              /\ Unheard(Append(s, m), id) => Unheard(s, id)
              /\ \A n \in Answers : Heard(Append(s, m), id, n) => Heard(s, id, n)
         /\ About(m, id) =>
              /\ ~Unheard(Append(s, m), id)
              /\ \A n \in Answers : Heard(Append(s, m), id, n) => n = m
<1> DEFINE z == Append(s, m)
<1>1. /\ Len(z) = Len(s) + 1 /\ z[Len(s) + 1] = m /\ Len(s) \in Nat
      /\ \A i \in 1..Len(s) : z[i] = s[i]
  BY AppendProperties, LenProperties
<1>. HIDE DEF z
<1>2. ASSUME ~About(m, id), Unheard(z, id) PROVE Unheard(s, id)
  BY <1>1, <1>2 DEF Unheard
<1>3. ASSUME ~About(m, id), NEW n \in Answers, Heard(z, id, n)
      PROVE  Heard(s, id, n)
  <2>1. PICK i \in 1..Len(z) : /\ z[i] = n /\ About(n, id)
                               /\ \A j \in (i + 1)..Len(z) : ~About(z[j], id)
    BY <1>3 DEF Heard
  <2>2. i \in 1..Len(s)
    BY <1>1, <1>3, <2>1
  <2>3. \A j \in (i + 1)..Len(s) : ~About(s[j], id)
    BY <1>1, <2>1, <2>2
  <2>. QED
    BY <1>1, <2>1, <2>2, <2>3 DEF Heard
<1>4. ASSUME About(m, id) PROVE ~Unheard(z, id)
  BY <1>1, <1>4 DEF Unheard
<1>5. ASSUME About(m, id), NEW n \in Answers, Heard(z, id, n) PROVE n = m
  <2>1. PICK i \in 1..Len(z) : /\ z[i] = n /\ About(n, id)
                               /\ \A j \in (i + 1)..Len(z) : ~About(z[j], id)
    BY <1>5 DEF Heard
  <2>2. i = Len(s) + 1
    BY <1>1, <1>5, <2>1
  <2>. QED
    BY <1>1, <2>1, <2>2
<1>. QED
  BY <1>2, <1>3, <1>4, <1>5 DEF z

\* What taking the first packet from the queue changes.
LEMMA HearingTail ==
  ASSUME NEW s \in Seq(Answers), s # <<>>, NEW id \in Ids
  PROVE  /\ Unheard(Tail(s), id) => Unheard(s, id) \/ Heard(s, id, Head(s))
         /\ Unheard(Tail(s), id) /\ ~About(Head(s), id) => Unheard(s, id)
         /\ \A n \in Answers : Heard(Tail(s), id, n) => Heard(s, id, n)
<1> DEFINE z == Tail(s)
<1>1. /\ Len(s) \in Nat \ {0} /\ Len(z) = Len(s) - 1 /\ Head(s) = s[1]
      /\ \A i \in 1..Len(z) : z[i] = s[i + 1]
  BY HeadTailProperties, LenProperties, EmptySeq
<1>. HIDE DEF z
<1>2. ASSUME NEW j \in 2..Len(s) PROVE j - 1 \in 1..Len(z) /\ z[j - 1] = s[j]
  BY <1>1, <1>2
<1>3. ASSUME Unheard(z, id) PROVE \A j \in 2..Len(s) : ~About(s[j], id)
  BY <1>2, <1>3 DEF Unheard
<1>4. ASSUME Unheard(z, id), ~About(Head(s), id) PROVE Unheard(s, id)
  BY <1>1, <1>3, <1>4 DEF Unheard
<1>5. ASSUME Unheard(z, id), About(Head(s), id) PROVE Heard(s, id, Head(s))
  <2>1. 1 \in 1..Len(s) /\ \A j \in (1 + 1)..Len(s) : ~About(s[j], id)
    BY <1>1, <1>3, <1>5
  <2>. QED
    BY <1>1, <1>5, <2>1 DEF Heard
<1>6. ASSUME NEW n \in Answers, Heard(z, id, n) PROVE Heard(s, id, n)
  <2>1. PICK i \in 1..Len(z) : /\ z[i] = n /\ About(n, id)
                               /\ \A j \in (i + 1)..Len(z) : ~About(z[j], id)
    BY <1>6 DEF Heard
  <2>2. i + 1 \in 1..Len(s) /\ s[i + 1] = n
    BY <1>1, <2>1
  <2>3. ASSUME NEW j \in (i + 1 + 1)..Len(s) PROVE ~About(s[j], id)
    <3>1. j \in 2..Len(s) /\ j - 1 \in (i + 1)..Len(z)
      BY <1>1, <2>1, <2>3
    <3>. QED
      BY <1>2, <2>1, <3>1
  <2>. QED
    BY <2>1, <2>2, <2>3 DEF Heard
<1>. QED
  BY <1>4, <1>5, <1>6 DEF z
\* What the ledger does while the server keeps running.
CalmLedger ==
  \/ UNCHANGED vars
  \/ \E id \in Ids : \/ Submit(id) \/ Insert(id) \/ Start(id) \/ Delete(id)
                     \/ CancelWaiting(id) \/ CancelActive(id)
                     \/ Close(id, "COMPLETE")

\* What is deleted has no row and gets none, ...
LEMMA DeadStaysDead ==
  ASSUME TypeOK, CalmLedger, NEW id \in Ids, Dead(id) PROVE Dead(id)'
<1> USE DEF Dead, Present, TypeOK, MoveTo, WriteRow
<1>1. CASE UNCHANGED vars
  BY <1>1 DEF vars
<1>2. ASSUME NEW j \in Ids, Submit(j) PROVE Dead(id)'
  BY <1>2 DEF Submit
<1>3. ASSUME NEW j \in Ids, Insert(j) PROVE Dead(id)'
  BY <1>3 DEF Insert
<1>4. ASSUME NEW j \in Ids, Start(j) PROVE Dead(id)'
  BY <1>4 DEF Start
<1>5. ASSUME NEW j \in Ids, Delete(j) PROVE Dead(id)'
  BY <1>5 DEF Delete
<1>6. ASSUME NEW j \in Ids, CancelWaiting(j) \/ CancelActive(j) PROVE Dead(id)'
  BY <1>6 DEF CancelWaiting, CancelActive
<1>7. ASSUME NEW j \in Ids, Close(j, "COMPLETE") PROVE Dead(id)'
  BY <1>7 DEF Close
<1>. QED
  BY <1>1, <1>2, <1>3, <1>4, <1>5, <1>6, <1>7 DEF CalmLedger

\* ... and a row with a verdict keeps one until it is deleted.
LEMMA OverKept ==
  ASSUME TypeOK, CalmLedger, NEW id \in Ids, Over(id) PROVE Over(id)'
<1> USE DEF Over, Present, TypeOK, MoveTo, WriteRow, Verdicts
<1>1. CASE UNCHANGED vars
  BY <1>1 DEF vars
<1>2. ASSUME NEW j \in Ids, Submit(j) PROVE Over(id)'
  BY <1>2 DEF Submit
<1>3. ASSUME NEW j \in Ids, Insert(j) PROVE Over(id)'
  BY <1>3 DEF Insert
<1>4. ASSUME NEW j \in Ids, Start(j) PROVE Over(id)'
  BY <1>4 DEF Start
<1>5. ASSUME NEW j \in Ids, Delete(j) PROVE Over(id)'
  BY <1>5 DEF Delete
<1>6. ASSUME NEW j \in Ids, CancelWaiting(j) \/ CancelActive(j) PROVE Over(id)'
  BY <1>6 DEF CancelWaiting, CancelActive
<1>7. ASSUME NEW j \in Ids, Close(j, "COMPLETE") PROVE Over(id)'
  BY <1>7 DEF Close
<1>. QED
  BY <1>1, <1>2, <1>3, <1>4, <1>5, <1>6, <1>7 DEF CalmLedger

LEMMA FinalQuiet ==
  ASSUME NEW s \in Seq(Answers), NEW id \in Ids, Final(s, id),
         Over(id) => Over(id)', T'[id] \in {T[id], "NONE", "UNLINKED"}
  PROVE  Final(s, id)'
<1>1. T'[id] \in Verdicts => T'[id] = T[id]
  BY DEF Verdicts
<1>. HIDE DEF Over
<1>. QED
  BY <1>1 DEF Final, VerdictsFrom

LEMMA FinalAppend ==
  ASSUME NEW s \in Seq(Answers), NEW m \in Answers, NEW id \in Ids,
         LedgerInv, Final(s, id), Over(id) => Over(id)', T'[id] = T[id],
         Shows(m, id) => m.status = row[id]
  PROVE  Final(Append(s, m), id)'
<1> DEFINE z == Append(s, m)
<1>1. /\ Len(z) = Len(s) + 1 /\ z[Len(s) + 1] = m /\ Len(s) \in Nat
      /\ \A i \in 1..Len(s) : z[i] = s[i]
  BY AppendProperties, LenProperties
<1>2. Shows(m, id) => m.status \in RowStatus \ {"NONE"} /\ m.status = row[id]
  BY PacketFields DEF Shows
<1>3. Shows(m, id) /\ m.status \in Verdicts => Over(id)
  BY <1>2 DEF LedgerInv, RowMatchesStage, PendingHasNoRow, Present, Over, Verdicts
<1>4. Shows(m, id) /\ Over(id) => m.status \in Verdicts
  BY <1>2 DEF Over
<1>. HIDE DEF z, Over
<1>5. ASSUME NEW i \in 1..(Len(s) + 1), VerdictsFrom(s, id, i), Over(id)
      PROVE  VerdictsFrom(z, id, i)
  BY <1>1, <1>4, <1>5 DEF VerdictsFrom
<1>6. T[id] \in Verdicts => Over(id) /\ VerdictsFrom(z, id, 1)
  BY <1>1, <1>5 DEF Final
<1>7. ASSUME NEW i \in 1..Len(z), Shows(z[i], id), z[i].status \in Verdicts
      PROVE  Over(id) /\ VerdictsFrom(z, id, i)
  <2>1. CASE i \in 1..Len(s)
    BY <1>1, <1>5, <1>7, <2>1 DEF Final
  <2>2. CASE i = Len(s) + 1
    <3>1. VerdictsFrom(s, id, i)
      BY <1>1, <2>2 DEF VerdictsFrom
    <3>. QED
      BY <1>1, <1>3, <1>5, <1>7, <2>2, <3>1
  <2>. QED
    BY <1>1, <2>1, <2>2
<1>8. Final(z, id)'
  BY <1>6, <1>7 DEF Final, VerdictsFrom
<1>. QED
  BY <1>8 DEF z

LEMMA FinalTail ==
  ASSUME NEW s \in Seq(Answers), s # <<>>, NEW id \in Ids,
         Final(s, id), Over(id) => Over(id)',
         \/ T'[id] \in {T[id], "NONE", "UNLINKED"}
         \/ Shows(Head(s), id) /\ T'[id] = Head(s).status
  PROVE  Final(Tail(s), id)'
<1> DEFINE z == Tail(s)
<1>1. /\ Len(s) \in Nat \ {0} /\ Len(z) = Len(s) - 1 /\ Head(s) = s[1]
      /\ \A i \in 1..Len(z) : z[i] = s[i + 1]
  BY HeadTailProperties, LenProperties, EmptySeq
<1>. HIDE DEF z, Over
<1>2. ASSUME NEW i \in 1..Len(s), VerdictsFrom(s, id, i)
      PROVE  \A k \in Nat : i <= k + 1 => VerdictsFrom(z, id, k)
  BY <1>1, <1>2 DEF VerdictsFrom
<1>3. ASSUME T'[id] \in Verdicts PROVE Over(id) /\ VerdictsFrom(z, id, 1)
  <2>1. 1 \in 1..Len(s)
    BY <1>1
  <2>2. Over(id) /\ VerdictsFrom(s, id, 1)
    <3>1. CASE T'[id] = T[id]
      BY <1>3, <3>1 DEF Final
    <3>2. CASE Shows(s[1], id) /\ T'[id] = s[1].status
      BY <1>3, <2>1, <3>2 DEF Final
    <3>. QED
      BY <1>1, <1>3, <3>1, <3>2 DEF Verdicts
  <2>. QED
    BY <1>2, <2>1, <2>2
<1>4. ASSUME NEW i \in 1..Len(z), Shows(z[i], id), z[i].status \in Verdicts
      PROVE  Over(id) /\ VerdictsFrom(z, id, i)
  <2>1. i + 1 \in 1..Len(s) /\ z[i] = s[i + 1]
    BY <1>1
  <2>2. Over(id) /\ VerdictsFrom(s, id, i + 1)
    BY <1>4, <2>1 DEF Final
  <2>. QED
    BY <1>2, <2>1, <2>2
<1>5. Final(z, id)'
  BY <1>3, <1>4 DEF Final, VerdictsFrom
<1>. QED
  BY <1>5 DEF z
LEMMA DeathsQuiet ==
  ASSUME NEW s \in Seq(Answers), NEW id \in Ids, Deaths(s, id),
         Dead(id) => Dead(id)', id \in gone' => id \in gone \/ Dead(id)'
  PROVE  Deaths(s, id)'
<1>. HIDE DEF Dead
<1>. QED
  BY DEF Deaths

LEMMA DeathsAppend ==
  ASSUME NEW s \in Seq(Answers), NEW m \in Answers, NEW id \in Ids, Deaths(s, id),
         Dead(id) => Dead(id)', id \in gone' => id \in gone,
         Deletes(m, id) => Dead(id)
  PROVE  Deaths(Append(s, m), id)'
<1> DEFINE z == Append(s, m)
<1>1. /\ Len(z) = Len(s) + 1 /\ z[Len(s) + 1] = m /\ Len(s) \in Nat
      /\ \A i \in 1..Len(s) : z[i] = s[i]
  BY AppendProperties, LenProperties
<1>. HIDE DEF z, Dead
<1>2. ASSUME NEW i \in 1..Len(z), Deletes(z[i], id) PROVE Dead(id)
  BY <1>1, <1>2 DEF Deaths
<1>3. Deaths(z, id)'
  BY <1>2 DEF Deaths
<1>. QED
  BY <1>3 DEF z

LEMMA DeathsTail ==
  ASSUME NEW s \in Seq(Answers), s # <<>>, NEW id \in Ids, Deaths(s, id),
         Dead(id) => Dead(id)', gone' = gone
  PROVE  Deaths(Tail(s), id)'
<1> DEFINE z == Tail(s)
<1>1. /\ Len(s) \in Nat \ {0} /\ Len(z) = Len(s) - 1
      /\ \A i \in 1..Len(z) : z[i] = s[i + 1]
  BY HeadTailProperties, LenProperties, EmptySeq
<1>. HIDE DEF z, Dead
<1>2. ASSUME NEW i \in 1..Len(z), Deletes(z[i], id) PROVE Dead(id)
  BY <1>1, <1>2 DEF Deaths
<1>3. Deaths(z, id)'
  BY <1>2 DEF Deaths
<1>. QED
  BY <1>3 DEF z

LEMMA TellingQuiet ==
  ASSUME NEW s \in Seq(Answers), NEW id \in Ids, Telling(s, id),
         T'[id] = T[id], row'[id] = row[id],
         id \in reports \cup gone => id \in reports' \cup gone',
         id \in gone => id \in gone'
  PROVE  Telling(s, id)'
  BY DEF Telling, Told, GoneTold, Present

LEMMA TellingAppend ==
  ASSUME NEW s \in Seq(Answers), NEW m \in Answers, NEW id \in Ids,
         Telling(s, id), T'[id] = T[id], row'[id] = row[id],
         Shows(m, id) => m.status = row[id] /\ Present(id),
         Deletes(m, id) => ~Present(id),
         ~About(m, id) => /\ id \in reports \cup gone => id \in reports' \cup gone'
                          /\ id \in gone => id \in gone'
  PROVE  Telling(Append(s, m), id)'
<1> DEFINE z == Append(s, m)
<1>1. /\ ~About(m, id) => /\ Unheard(z, id) => Unheard(s, id)
                          /\ \A n \in Answers : Heard(z, id, n) => Heard(s, id, n)
      /\ About(m, id) => /\ ~Unheard(z, id)
                         /\ \A n \in Answers : Heard(z, id, n) => n = m
  BY HearingAppend
<1>. HIDE DEF z
<1>2. CASE ~About(m, id)
  <2>1. Telling(z, id)
    BY <1>1, <1>2 DEF Telling, Told, GoneTold
  <2>. HIDE DEF Unheard, Heard
  <2>2. Telling(z, id)'
    BY <1>2, <2>1 DEF Telling, Told, GoneTold, Present
  <2>. QED
    BY <2>2 DEF z
<1>3. CASE About(m, id)
  <2>1. IF m.head = "MDUD" THEN m.status = row[id] /\ Present(id)
                           ELSE m.head = "DELF" /\ ~Present(id)
    BY <1>3 DEF About, Shows, Deletes
  <2>2. Told(z, id)'
    BY <1>1, <1>3, <2>1 DEF Told, Present
  <2>3. ~Present(id)' => GoneTold(z, id)'
    BY <1>1, <1>3, <2>1 DEF GoneTold, Present
  <2>4. Telling(z, id)'
    BY <2>2, <2>3 DEF Telling
  <2>. QED
    BY <2>4 DEF z
<1>. QED
  BY <1>2, <1>3

LEMMA TellingTail ==
  ASSUME NEW s \in Seq(Answers), s # <<>>, NEW id \in Ids, Telling(s, id),
         row'[id] = row[id], reports' = reports, gone' = gone,
         \/ ~About(Head(s), id) /\ T'[id] \in {T[id], "NONE", "UNLINKED"}
         \/ Shows(Head(s), id) /\ T'[id] \in {"NONE", Head(s).status}
         \/ Deletes(Head(s), id) /\ T'[id] = "NONE"
  PROVE  Telling(Tail(s), id)'
<1> DEFINE z == Tail(s)
<1>1. /\ Unheard(z, id) => Unheard(s, id) \/ Heard(s, id, Head(s))
      /\ Unheard(z, id) /\ ~About(Head(s), id) => Unheard(s, id)
      /\ \A n \in Answers : Heard(z, id, n) => Heard(s, id, n)
  BY HearingTail
<1>2. Head(s) \in Answers
  BY HeadTailProperties
<1>3. Unheard(s, id) => ~About(Head(s), id)
  BY HeadTailProperties, LenProperties, EmptySeq DEF Unheard
<1>. HIDE DEF z
<1>4. Told(s, id) => Told(z, id)'
  <2>1. ASSUME Told(s, id), Unheard(z, id)
        PROVE  T'[id] \in {"NONE", "UNLINKED", row[id]}
    <3>1. CASE ~About(Head(s), id)
      BY <1>1, <2>1, <3>1 DEF Told, Shows, Deletes, About
    <3>2. CASE About(Head(s), id)
      <4>1. Heard(s, id, Head(s))
        BY <1>1, <1>3, <2>1, <3>2
      <4>. QED
        BY <1>2, <2>1, <3>2, <4>1 DEF Told, Shows, Deletes, About
    <3>. QED
      BY <3>1, <3>2
  <2>2. ASSUME Told(s, id), NEW m \in Answers, Heard(z, id, m)
        PROVE  IF m.head = "MDUD" THEN m.status = row[id] ELSE ~Present(id)
    BY <1>1, <2>2 DEF Told
  <2>. QED
    BY <2>1, <2>2 DEF Told, Present
<1>5. GoneTold(s, id) => GoneTold(z, id)'
  <2>1. ASSUME GoneTold(s, id), Unheard(z, id) PROVE T'[id] \in {"NONE", "UNLINKED"}
    <3>1. CASE ~About(Head(s), id)
      BY <1>1, <2>1, <3>1 DEF GoneTold, Shows, Deletes, About
    <3>2. CASE About(Head(s), id)
      <4>1. Heard(s, id, Head(s))
        BY <1>1, <1>3, <2>1, <3>2
      <4>. QED
        BY <1>2, <2>1, <3>2, <4>1 DEF GoneTold, Shows, Deletes, About
    <3>. QED
      BY <3>1, <3>2
  <2>. QED
    BY <1>1, <2>1 DEF GoneTold
<1>6. Telling(z, id)'
  BY <1>4, <1>5 DEF Telling, Present
<1>. QED
  BY <1>6 DEF z
-----------------------------------------------------------------------------
(* How the queue changes while all is calm.                                *)

LEMMA LineSend ==
  ASSUME LibTypeOK, link = "open", NEW m \in Answers, Send(m), R' = R
  PROVE  Line' = Append(Line, m)
<1>1. R \in Seq(Answers) /\ down \in Seq(Answers) /\ <<m>> \in Seq(Answers)
  BY DEF LibTypeOK
<1>2. down' = Append(down, m)
  BY DEF Send
<1>3. Append(down, m) = down \o <<m>>
  BY <1>1, AppendIsConcat
<1>4. Append(R \o down, m) = (R \o down) \o <<m>>
  BY <1>1, ConcatProperties, AppendIsConcat
<1>5. R \o (down \o <<m>>) = (R \o down) \o <<m>>
  BY <1>1, ConcatAssociative
<1>. QED
  BY <1>2, <1>3, <1>4, <1>5 DEF Line

LEMMA LineReceive ==
  ASSUME LibTypeOK, Receive, R = <<>> PROVE Line' = Line /\ Len(R') <= 1
<1>1. down \in Seq(Answers) /\ down # <<>>
  BY DEF LibTypeOK, Receive
<1>2. PICK m \in Answers : m = Head(down)
  BY <1>1, HeadTailProperties
<1>3. <<m>> \in Seq(Answers) /\ Len(<<m>>) = 1 /\ Tail(down) \in Seq(Answers)
  BY <1>1, HeadTailProperties
<1>4. <<m>> \o <<>> = <<m>> /\ <<>> \o down = down
  BY <1>1, <1>3, ConcatEmptySeq
<1>5. <<m>> \o Tail(down) = down
  BY <1>1, <1>2, HeadTailProperties
<1>6. R' = <<m>> /\ down' = Tail(down)
  BY <1>2, <1>4 DEF Receive
<1>. QED
  BY <1>3, <1>4, <1>5, <1>6 DEF Line

LEMMA LineHandle ==
  ASSUME LibTypeOK, Handle, Len(R) <= 1
  PROVE  /\ Line # <<>> /\ Head(Line) = Head(R) /\ Line' = Tail(Line)
         /\ R' = <<>>
<1>1. R \in Seq(Answers) /\ R # <<>> /\ down \in Seq(Answers) /\ down' = down
  BY DEF LibTypeOK, Handle
<1>2. Len(R) = 1
  <2>1. PICK n \in Nat : n = Len(R)
    BY <1>1, LenProperties
  <2>2. n # 0 /\ n <= 1
    BY <1>1, <2>1, EmptySeq
  <2>. QED
    BY <2>1, <2>2
<1>3. PICK m \in Answers : m = Head(R)
  BY <1>1, HeadTailProperties
<1>4. R = <<m>>
  BY <1>1, <1>2, <1>3, SeqEqual, HeadTailProperties
<1>5. R' = <<>>
  BY <1>4 DEF Handle
<1>6. <<m>> \in Seq(Answers) /\ Len(<<m>>) = 1 /\ <<m>>[1] = m
  OBVIOUS
<1>7. PICK z \in Seq(Answers) : z = <<m>> \o down
  BY <1>1, <1>6, ConcatProperties
<1>8. /\ Len(z) = 1 + Len(down) /\ z[1] = m /\ Len(down) \in Nat
      /\ \A i \in 1..Len(down) : z[i + 1] = down[i]
  BY <1>1, <1>6, <1>7, ConcatProperties, LenProperties
<1>9. z # <<>> /\ Head(z) = m /\ Tail(z) = down
  BY <1>1, <1>8, HeadTailProperties, EmptySeq, SeqEqual
<1>10. <<>> \o down = down
  BY <1>1, ConcatEmptySeq
<1>. QED
  BY <1>1, <1>3, <1>4, <1>5, <1>7, <1>9, <1>10 DEF Line
-----------------------------------------------------------------------------
(* The steps, while all is calm.                                           *)

Calm == LibInv /\ weather = "calm"

\* Nothing breaks, and only what is said below touches the queue.
LEMMA CalmSteps ==
  ASSUME Calm, LibNext
  PROVE  /\ link = "open" /\ link' = "open" /\ weather' = "calm" /\ CalmLedger
         /\ \/ \E id \in Ids : Main(id) \/ UserAsks(id)
            \/ Network \/ Receive \/ Handle
            \/ TimerSearch \/ TimerAgain \/ UserSubmits
            \/ UserDeclines \/ UserOpens
<1>1. weather = "calm" /\ link = "open"
  BY DEF Calm, LibInv, CalmInv
<1>2. ~Break /\ ~LibRestart /\ ~ConnectionDropped
  BY <1>1 DEF Break, LibRestart, ConnectionDropped
<1>3. ASSUME NEW id \in Ids, Main(id)
      PROVE  link' = link /\ weather' = weather /\ CalmLedger
  BY <1>3 DEF Main, LibStart, LibCancel, LibClose, LibDelete, CalmLedger
<1>4. CASE Network
  <2>1. link' = link /\ weather' = weather
    BY <1>4 DEF Network, ServeSearch, ServeInfo, ServeJob, ServeOther, InsertRow,
                DeliverReport, DeliverDeletion
  <2>2. CalmLedger
    <3>1. CASE ServeSearch
      BY <3>1, LedgerUnchanged DEF ServeSearch, CalmLedger
    <3>2. CASE \E id \in Ids : ServeInfo(id) \/ DeliverReport(id) \/ DeliverDeletion(id)
      BY <3>2, LedgerUnchanged
         DEF ServeInfo, DeliverReport, DeliverDeletion, CalmLedger
    <3>3. CASE \E id \in Ids : ServeJob(id) \/ ServeOther(id) \/ InsertRow(id)
      <4>1. \E id \in Ids : Submit(id) \/ Insert(id)
        BY <3>3 DEF ServeJob, ServeOther, InsertRow
      <4>. QED
        BY <4>1 DEF CalmLedger
    <3>. QED
      BY <1>4, <3>1, <3>2, <3>3 DEF Network
  <2>. QED
    BY <1>1, <1>4, <2>1, <2>2
<1>5. CASE \/ \E id \in Ids : UserAsks(id)
           \/ Receive \/ Handle \/ TimerSearch \/ TimerAgain \/ UserSubmits
           \/ UserDeclines \/ UserOpens
  <2>1. UNCHANGED <<ledger, link, weather>>
    BY <1>5 DEF UserAsks, UserDeclines, UserOpens, Receive, Handle, TimerSearch, TimerAgain,
           UserSubmits
  <2>2. UNCHANGED vars
    BY <2>1, LedgerUnchanged
  <2>. QED
    BY <1>1, <1>5, <2>1, <2>2 DEF CalmLedger
<1>. QED
  BY <1>1, <1>2, <1>3, <1>4, <1>5 DEF LibNext

\* The queue and the tiles stay as they are.
LEMMA CalmQuiet ==
  ASSUME Calm, CalmLedger, link' = "open", weather' = "calm", Len(R') <= 1,
         T' = T, NEW s \in Seq(Answers), s = Line, s = Line',
         \A id \in Ids : id \in gone' => id \in gone \/ Dead(id)',
         \A id \in Ids : Telling(s, id)'
  PROVE  CalmInv'
<1>. HIDE DEF Line, Telling, Deaths, Final, Dead, Over, CalmLedger
<1>1. TypeOK /\ \A id \in Ids : Deaths(s, id) /\ Final(s, id)
  BY DEF Calm, LibInv, LibTypeOK, CalmInv
<1>2. ASSUME NEW id \in Ids PROVE Deaths(s, id)' /\ Final(s, id)'
  <2>1. (Dead(id) => Dead(id)') /\ (Over(id) => Over(id)')
    BY <1>1, DeadStaysDead, OverKept
  <2>. QED
    BY <1>1, <2>1, DeathsQuiet, FinalQuiet
<1>. QED
  BY <1>2 DEF CalmInv

\* A packet is put at the end of the queue.
LEMMA CalmSend ==
  ASSUME Calm, CalmLedger, link' = "open", weather' = "calm", R' = R, T' = T,
         NEW s \in Seq(Answers), s = Line, NEW m \in Answers, Line' = Append(s, m),
         gone' \subseteq gone,
         \A id \in Ids : Shows(m, id) => m.status = row[id],
         \A id \in Ids : Deletes(m, id) => Dead(id),
         \A id \in Ids : Telling(Append(s, m), id)'
  PROVE  CalmInv'
<1>. HIDE DEF Line, Telling, Deaths, Final, Dead, Over, CalmLedger
<1>1. /\ TypeOK /\ LedgerInv /\ Len(R) <= 1
      /\ \A id \in Ids : Deaths(s, id) /\ Final(s, id)
  BY DEF Calm, LibInv, LibTypeOK, CalmInv
<1>2. PICK z \in Seq(Answers) : z = Append(s, m)
  BY AppendProperties
<1>3. ASSUME NEW id \in Ids
      PROVE  Telling(z, id)' /\ Deaths(z, id)' /\ Final(z, id)'
  <2>1. (Dead(id) => Dead(id)') /\ (Over(id) => Over(id)')
    BY <1>1, DeadStaysDead, OverKept
  <2>2. T'[id] = T[id] /\ (id \in gone' => id \in gone)
    OBVIOUS
  <2>3. Deaths(Append(s, m), id)'
    BY <1>1, <2>1, <2>2, DeathsAppend
  <2>4. Final(Append(s, m), id)'
    BY <1>1, <2>1, <2>2, FinalAppend
  <2>. QED
    BY <1>2, <2>3, <2>4
<1>4. Line' = z
  BY <1>2
<1>. QED
  BY <1>1, <1>3, <1>4 DEF CalmInv
LEMMA CalmParts ==
  ASSUME Calm
  PROVE  /\ LibTypeOK /\ TypeOK /\ LedgerInv /\ Len(R) <= 1 /\ link = "open"
         /\ Line \in Seq(Answers)
         /\ \A id \in Ids : /\ Telling(Line, id) /\ Deaths(Line, id)
                            /\ Final(Line, id)
  BY LineType DEF Calm, LibInv, LibTypeOK, CalmInv

\* main changes a row and reports it, or deletes it and keeps its id.
LEMMA CalmMain == ASSUME Calm, LibNext, NEW id \in Ids, Main(id) PROVE CalmInv'
<1>1. link' = "open" /\ weather' = "calm" /\ CalmLedger
  BY CalmSteps
<1>2. R' = R /\ T' = T /\ Line' = Line
  BY DEF Main, client, Line
<1>3. PICK s \in Seq(Answers) : s = Line
  BY CalmParts
<1>. HIDE DEF Line
<1>4. /\ TypeOK /\ Len(R') <= 1 /\ s = Line'
      /\ \A j \in Ids : Telling(s, j)
  BY <1>2, <1>3, CalmParts
<1>5. CASE LibStart(id) \/ LibCancel(id) \/ LibClose(id)
  <2>1. /\ Report(id) /\ gone' = gone
        /\ \A j \in Ids \ {id} : row'[j] = row[j]
        /\ Present(id) => row'[id] # "NONE"
        /\ ~Present(id) => row'[id] = row[id]
    <3>1. Report(id) /\ gone' = gone
             /\ \E v \in {"RENDERING", "CANCEL", "COMPLETE"} : WriteRow(id, v)
      BY <1>5 DEF LibStart, LibCancel, LibClose, Start, CancelWaiting,
                  CancelActive, Close
    <3>. QED
      BY <1>4, <3>1 DEF WriteRow, TypeOK
  <2>2. ASSUME NEW j \in Ids PROVE Telling(s, j)'
    <3>1. CASE j # id \/ ~Present(id)
      <4>1. T'[j] = T[j] /\ row'[j] = row[j] /\ (j \in gone => j \in gone')
        BY <1>2, <2>1, <3>1
      <4>2. j \in reports \cup gone => j \in reports' \cup gone'
        BY <2>1 DEF Report
      <4>. QED
        BY <1>4, <4>1, <4>2, TellingQuiet
    <3>2. CASE j = id /\ Present(id)
      BY <2>1, <3>2 DEF Telling, Report, Present
    <3>. QED
      BY <3>1, <3>2
  <2>. QED
    BY <1>1, <1>2, <1>3, <1>4, <2>1, <2>2, CalmQuiet
<1>6. CASE LibDelete(id)
  <2>1. /\ gone' = gone \cup {id} /\ reports' = reports
        /\ Present(id) /\ row' = [row EXCEPT ![id] = "NONE"]
        /\ UNCHANGED <<stage, pending>>
    BY <1>6 DEF LibDelete, Delete
  <2>2. Dead(id)'
    BY <1>4, <2>1, CalmParts
       DEF Dead, Present, LedgerInv, PendingHasNoRow, TypeOK
  <2>3. ASSUME NEW j \in Ids PROVE Telling(s, j)'
    <3>1. CASE j # id
      <4>1. T'[j] = T[j] /\ row'[j] = row[j]
        BY <1>2, <1>4, <2>1, <3>1 DEF TypeOK
      <4>. QED
        BY <1>4, <2>1, <4>1, TellingQuiet
    <3>2. CASE j = id
      BY <2>1, <3>2 DEF Telling
    <3>. QED
      BY <3>1, <3>2
  <2>4. ASSUME NEW j \in Ids, j \in gone' PROVE j \in gone \/ Dead(j)'
    <3>1. CASE j = id
      BY <2>2, <3>1
    <3>. QED
      BY <2>1, <2>4, <3>1
  <2>. QED
    BY <1>1, <1>2, <1>3, <1>4, <2>3, <2>4, CalmQuiet
<1>. QED
  BY <1>5, <1>6 DEF Main

\* Requests of the user and the timers, and what the client receives.
LEMMA CalmClient ==
  ASSUME Calm, LibNext,
         \/ Receive \/ TimerSearch \/ TimerAgain \/ UserSubmits \/ UserDeclines \/ UserOpens
         \/ \E id \in Ids : UserAsks(id)
  PROVE  CalmInv'
<1>1. link' = "open" /\ weather' = "calm" /\ CalmLedger
  BY CalmSteps
<1>2. UNCHANGED <<row, reports, gone, T>>
  BY DEF Receive, TimerSearch, TimerAgain, UserSubmits, UserAsks, UserDeclines,
         UserOpens, ledger, server
<1>3. Line' = Line /\ Len(R') <= 1
  <2>1. CASE Receive
    <3>1. R = <<>>
      BY <2>1 DEF Receive, Calm
    <3>. QED
      BY <2>1, <3>1, LineReceive, CalmParts
  <2>2. CASE ~Receive
    <3>1. R' = R /\ down' = down
      BY <2>2 DEF TimerSearch, TimerAgain, UserSubmits, UserAsks, UserDeclines, UserOpens
    <3>. QED
      BY <3>1, CalmParts DEF Line
  <2>. QED
    BY <2>1, <2>2
<1>4. PICK s \in Seq(Answers) : s = Line
  BY CalmParts
<1>. HIDE DEF Line
<1>5. ASSUME NEW j \in Ids PROVE Telling(s, j)'
  BY <1>2, <1>4, CalmParts, TellingQuiet
<1>. QED
  BY <1>1, <1>2, <1>3, <1>4, <1>5, CalmQuiet
\* What is sent about a fractal is its row at that time.
LEMMA CalmStatus ==
  ASSUME Calm, LibNext, NEW id \in Ids, SendStatus(id),
         UNCHANGED <<row, gone, R, T>>,
         reports' \in {reports, reports \ {id}}
  PROVE  CalmInv'
<1>1. link = "open" /\ link' = "open" /\ weather' = "calm" /\ CalmLedger
  BY CalmSteps
<1>2. PICK s \in Seq(Answers) : s = Line
  BY CalmParts
<1>3. CASE Present(id)
  <2>1. PICK m \in Answers : m = Status(id)
    BY <1>3, PacketTypes, CalmParts
  <2>2. m.head = "MDUD" /\ m.id = id /\ m.status = row[id]
    BY <2>1 DEF Status
  <2>3. Line' = Append(s, m)
    BY <1>1, <1>2, <1>3, <2>1, LineSend, CalmParts DEF SendStatus
  <2>. HIDE DEF Line
  <2>4. \A j \in Ids : /\ Shows(m, j) => m.status = row[j] /\ Present(j)
                       /\ ~Deletes(m, j)
                       /\ ~About(m, j) => j # id
    BY <1>3, <2>2 DEF Shows, Deletes, About
  <2>5. ASSUME NEW j \in Ids PROVE Telling(Append(s, m), j)'
    <3>1. Telling(s, j) /\ T'[j] = T[j] /\ row'[j] = row[j]
      BY <1>2, CalmParts
    <3>2. ~About(m, j) => /\ j \in reports \cup gone => j \in reports' \cup gone'
                          /\ j \in gone => j \in gone'
      BY <2>4
    <3>. QED
      BY <2>4, <3>1, <3>2, TellingAppend
  <2>. QED
    BY <1>1, <1>2, <2>3, <2>4, <2>5, CalmSend
<1>4. CASE ~Present(id)
  <2>1. Line' = Line /\ Len(R') <= 1
    BY <1>4, CalmParts DEF SendStatus, Line
  <2>. HIDE DEF Line
  <2>2. ASSUME NEW j \in Ids PROVE Telling(s, j)'
    <3>1. Telling(s, j)
      BY <1>2, CalmParts
    <3>2. CASE j # id
      BY <3>1, <3>2, TellingQuiet
    <3>3. CASE j = id
      <4>1. j \notin gone => GoneTold(s, j)
        BY <1>4, <3>1, <3>3 DEF Telling
      <4>2. GoneTold(s, j) => Told(s, j)
        BY <1>4, <3>3 DEF GoneTold, Told
      <4>3. (Told(s, j) => Told(s, j)') /\ (GoneTold(s, j) => GoneTold(s, j)')
        BY DEF Told, GoneTold, Present
      <4>. QED
        BY <4>1, <4>2, <4>3 DEF Telling
    <3>. QED
      BY <3>2, <3>3
  <2>. QED
    BY <1>1, <1>2, <2>1, <2>2, CalmQuiet
<1>. QED
  BY <1>3, <1>4

\* A packet that is not about the state of a fractal changes nothing.
LEMMA CalmOther ==
  ASSUME Calm, LibNext, NEW m \in Answers, m.head \in {"SSLT", "SJOB"}, Send(m),
         UNCHANGED <<row, gone, reports, R, T>>
  PROVE  CalmInv'
<1>1. link = "open" /\ link' = "open" /\ weather' = "calm" /\ CalmLedger
  BY CalmSteps
<1>2. PICK s \in Seq(Answers) : s = Line
  BY CalmParts
<1>3. Line' = Append(s, m)
  BY <1>1, <1>2, LineSend, CalmParts
<1>. HIDE DEF Line
<1>4. \A j \in Ids : ~Shows(m, j) /\ ~Deletes(m, j) /\ ~About(m, j)
  BY DEF Shows, Deletes, About
<1>5. ASSUME NEW j \in Ids PROVE Telling(Append(s, m), j)'
  <2>1. Telling(s, j) /\ T'[j] = T[j] /\ row'[j] = row[j]
    BY <1>2, CalmParts
  <2>. QED
    BY <1>4, <2>1, TellingAppend
<1>. QED
  BY <1>1, <1>2, <1>3, <1>4, <1>5, CalmSend

\* The row of a job that waited for it had never been told of, and an answer to
\* whom submitted it tells no tile of it.
LEMMA InsertTelling ==
  ASSUME Calm, LibNext, NEW id \in Ids, InsertRow(id),
         NEW s \in Seq(Answers), s = Line, NEW z \in Seq(Answers),
         z = s \/ \E m \in Answers : m.head = "SJOB" /\ z = Append(s, m),
         NEW j \in Ids
  PROVE  Telling(z, j)'
<1>1. /\ T' = T /\ gone' = gone /\ reports' = reports
      /\ id \in pending /\ row' = [row EXCEPT ![id] = "QUEUED"]
  BY DEF InsertRow, Insert, server
<1>2. TypeOK /\ LedgerInv /\ Telling(s, j) /\ Telling(s, id) /\ Deaths(s, id)
  BY CalmParts
<1>. HIDE DEF Line
<1>3. row'[id] = "QUEUED" /\ \A w \in Ids \ {id} : row'[w] = row[w]
  BY <1>1, <1>2 DEF TypeOK
<1>4. ASSUME NEW m \in Answers, m.head = "SJOB", NEW w \in Ids
      PROVE  ~Shows(m, w) /\ ~Deletes(m, w) /\ ~About(m, w)
  BY <1>4 DEF Shows, Deletes, About
<1>5. CASE j # id
  <2>1. T'[j] = T[j] /\ row'[j] = row[j]
    BY <1>1, <1>3, <1>5
  <2>2. CASE z = s
    BY <1>1, <1>2, <2>1, <2>2, TellingQuiet
  <2>3. CASE z # s
    BY <1>1, <1>2, <1>4, <2>1, <2>3, TellingAppend
  <2>. QED
    BY <2>2, <2>3
<1>6. CASE j = id
  <2>1. ~Present(id) /\ ~Dead(id)
    BY <1>1, <1>2 DEF LedgerInv, PendingHasNoRow, Dead
  <2>2. id \notin gone /\ \A i \in 1..Len(s) : ~Deletes(s[i], id)
    BY <1>2, <2>1 DEF Deaths
  <2>3. GoneTold(s, id)
    BY <1>2, <2>1, <2>2 DEF Telling
  <2>4. \A n \in Answers : ~Heard(s, id, n)
    BY <2>2, <2>3 DEF GoneTold, Heard, About, Deletes
  <2>5. /\ \A n \in Answers : ~Heard(z, id, n)
        /\ Unheard(z, id) => Unheard(s, id)
    <3>1. CASE z = s
      BY <2>4, <3>1
    <3>2. CASE z # s
      <4>1. PICK m \in Answers : m.head = "SJOB" /\ z = Append(s, m)
        BY <3>2
      <4>2. ~About(m, id)
        BY <1>4, <4>1
      <4>3. /\ \A n \in Answers : Heard(z, id, n) => Heard(s, id, n)
            /\ Unheard(z, id) => Unheard(s, id)
        BY <4>1, <4>2, HearingAppend
      <4>. QED
        BY <2>4, <4>3
    <3>. QED
      BY <3>1, <3>2
  <2>6. Unheard(z, id) => T[id] \in {"NONE", "UNLINKED"}
    BY <2>3, <2>5 DEF GoneTold
  <2>7. Told(z, id)' /\ Present(id)'
    BY <1>1, <1>3, <2>5, <2>6 DEF Told, Present
  <2>. QED
    BY <1>6, <2>7 DEF Telling
<1>. QED
  BY <1>5, <1>6

LEMMA CalmInsert ==
  ASSUME Calm, LibNext, NEW id \in Ids, InsertRow(id) PROVE CalmInv'
<1>1. link = "open" /\ link' = "open" /\ weather' = "calm" /\ CalmLedger
  BY CalmSteps
<1>2. PICK s \in Seq(Answers) : s = Line
  BY CalmParts
<1>3. PICK m \in Answers : m = Submitted(id) /\ m.head = "SJOB"
  BY PacketTypes, CalmParts DEF Submitted
<1>4. R' = R /\ T' = T /\ gone' = gone /\ reports' = reports
  BY DEF InsertRow, server
<1>5. CASE Send(m)
  <2>1. Line' = Append(s, m)
    BY <1>1, <1>2, <1>4, <1>5, LineSend, CalmParts
  <2>2. PICK z \in Seq(Answers) : z = Append(s, m)
    BY AppendProperties
  <2>. HIDE DEF Line
  <2>3. \A j \in Ids : ~Shows(m, j) /\ ~Deletes(m, j) /\ ~About(m, j)
    BY <1>3 DEF Shows, Deletes, About
  <2>4. ASSUME NEW j \in Ids PROVE Telling(Append(s, m), j)'
    <3>1. Telling(z, j)'
      BY <1>2, <1>3, <2>2, InsertTelling
    <3>. QED
      BY <2>2, <3>1
  <2>. QED
    BY <1>1, <1>2, <1>4, <1>5, <2>1, <2>3, <2>4, CalmSend
<1>6. CASE down' = down
  <2>1. Line' = Line /\ Len(R') <= 1
    BY <1>4, <1>6, CalmParts DEF Line
  <2>. HIDE DEF Line
  <2>2. ASSUME NEW j \in Ids PROVE Telling(s, j)'
    BY <1>2, InsertTelling
  <2>. QED
    BY <1>1, <1>2, <1>4, <2>1, <2>2, CalmQuiet
<1>. QED
  BY <1>3, <1>5, <1>6 DEF InsertRow

LEMMA CalmDeletion ==
  ASSUME Calm, LibNext, NEW id \in Ids, DeliverDeletion(id) PROVE CalmInv'
<1>1. link = "open" /\ link' = "open" /\ weather' = "calm" /\ CalmLedger
  BY CalmSteps
<1>2. PICK s \in Seq(Answers) : s = Line
  BY CalmParts
<1>3. PICK m \in Answers : m = Deleted(id)
  BY PacketTypes, CalmParts
<1>4. /\ Send(m) /\ R' = R /\ T' = T /\ id \in gone /\ gone' = gone \ {id}
      /\ reports' = reports /\ row' = row
  BY <1>3 DEF DeliverDeletion, ledger, client
<1>5. Line' = Append(s, m)
  BY <1>1, <1>2, <1>4, LineSend, CalmParts
<1>. HIDE DEF Line
<1>6. Dead(id)
  BY <1>4, CalmParts DEF Deaths
<1>7. \A j \in Ids : /\ ~Shows(m, j) /\ (Deletes(m, j) => Dead(j))
                     /\ ~About(m, j) => j # id
  BY <1>3, <1>6 DEF Deleted, Shows, Deletes, About
<1>8. ASSUME NEW j \in Ids PROVE Telling(Append(s, m), j)'
  <2>1. Telling(s, j) /\ T'[j] = T[j] /\ row'[j] = row[j]
    BY <1>2, <1>4, CalmParts
  <2>2. Deletes(m, j) => ~Present(j)
    BY <1>7 DEF Dead
  <2>3. ~About(m, j) => /\ j \in reports \cup gone => j \in reports' \cup gone'
                        /\ j \in gone => j \in gone'
    BY <1>4, <1>7
  <2>. QED
    BY <1>7, <2>1, <2>2, <2>3, TellingAppend
<1>. QED
  BY <1>1, <1>2, <1>4, <1>5, <1>7, <1>8, CalmSend

LEMMA CalmNetwork == ASSUME Calm, LibNext, Network PROVE CalmInv'
<1>1. CASE ServeSearch
  <2>1. PICK m \in Answers : m = Found(SearchResult, SearchResult = {} /\ older = 0)
    <3>1. SearchResult \subseteq Ids
      BY DEF SearchResult
    <3>2. Found(SearchResult, SearchResult = {} /\ older = 0) \in Answers
      BY <3>1 DEF Found, Answers
    <3>. QED
      BY <3>2
  <2>2. m.head = "SSLT" /\ Send(m) /\ UNCHANGED <<row, gone, reports, R, T>>
    BY <1>1, <2>1 DEF ServeSearch, Found, ledger, server
  <2>. QED
    BY <2>2, CalmOther
<1>2. ASSUME NEW id \in Ids, ServeInfo(id) PROVE CalmInv'
  BY <1>2, CalmStatus DEF ServeInfo, ledger, server
<1>3. ASSUME NEW id \in Ids, ServeJob(id) \/ ServeOther(id) PROVE CalmInv'
  <2>1. link' = "open" /\ weather' = "calm" /\ CalmLedger
    BY CalmSteps
  <2>2. PICK s \in Seq(Answers) : s = Line
    BY CalmParts
  <2>3. UNCHANGED <<row, gone, reports, T>> /\ Line' = Line /\ Len(R') <= 1
    BY <1>3, CalmParts DEF ServeJob, ServeOther, Submit, server, client, Line
  <2>. HIDE DEF Line
  <2>4. ASSUME NEW j \in Ids PROVE Telling(s, j)'
    BY <2>2, <2>3, CalmParts, TellingQuiet
  <2>. QED
    BY <2>1, <2>2, <2>3, <2>4, CalmQuiet
<1>4. ASSUME NEW id \in Ids, InsertRow(id) PROVE CalmInv'
  BY <1>4, CalmInsert
<1>5. ASSUME NEW id \in Ids, DeliverReport(id) PROVE CalmInv'
  BY <1>5, CalmStatus DEF DeliverReport, ledger, client
<1>6. ASSUME NEW id \in Ids, DeliverDeletion(id) PROVE CalmInv'
  BY <1>6, CalmDeletion
<1>. QED
  BY <1>1, <1>2, <1>3, <1>4, <1>5, <1>6 DEF Network
\* What the first packet of the queue does to a tile.
TileStep(m, id) ==
  \/ ~About(m, id) /\ T'[id] \in {T[id], "NONE", "UNLINKED"}
  \/ Shows(m, id) /\ T'[id] \in {"NONE", m.status}
  \/ Deletes(m, id) /\ T'[id] = "NONE"

LEMMA HandleTile ==
  ASSUME LibTypeOK, Handle, NEW id \in Ids
  PROVE  /\ TileStep(Head(R), id)
         /\ T[id] \in Verdicts /\ T'[id] \notin {T[id], "NONE"}
              => Shows(Head(R), id) /\ T'[id] = Head(R).status
<1> DEFINE m == Head(R)
<1>1. m \in Answers /\ T \in [Ids -> TileStatus]
  BY HeadTailProperties DEF Handle, LibTypeOK
<1>2. \/ m.head = "MDUD" /\ HandleStatus(m.id, m.status)
      \/ m.head = "DELF" /\ HandleDeletion(m.id)
      \/ m.head = "SSLT" /\ HandleSearch(m.ids, m.empty)
      \/ m.head = "SJOB" /\ HandleSubmitted(m.id)
  BY DEF Handle
<1>. HIDE DEF m
<1>3. CASE m.head = "MDUD" /\ HandleStatus(m.id, m.status)
  <2>1. /\ m.id # id => ~About(m, id) /\ T'[id] = T[id]
        /\ m.id = id => /\ Shows(m, id)
                        /\ T'[id] = IF T[id] = "NONE" THEN "NONE" ELSE m.status
    BY <1>1, <1>3 DEF HandleStatus, About, Shows
  <2>. QED
    BY <1>3, <2>1 DEF TileStep, m
<1>4. CASE m.head = "DELF" /\ HandleDeletion(m.id)
  <2>1. /\ m.id # id => ~About(m, id) /\ T'[id] = T[id]
        /\ m.id = id => Deletes(m, id) /\ T'[id] = "NONE"
    BY <1>1, <1>4 DEF HandleDeletion, About, Deletes
  <2>. QED
    BY <1>4, <2>1 DEF TileStep, m
<1>5. CASE m.head = "SSLT" /\ HandleSearch(m.ids, m.empty)
  <2>1. ~About(m, id)
    BY <1>5 DEF About
  <2>2. /\ T'[id] \in {T[id], "NONE", "UNLINKED"}
        /\ T[id] \in Verdicts => T'[id] \in {T[id], "NONE"}
    BY <1>1, <1>5 DEF HandleSearch, Unknown, Live, Verdicts
  <2>. QED
    BY <2>1, <2>2 DEF TileStep, m
<1>6. CASE m.head = "SJOB" /\ HandleSubmitted(m.id)
  <2>1. ~About(m, id) /\ T' = T
    BY <1>6 DEF About, HandleSubmitted
  <2>. QED
    BY <2>1 DEF TileStep, m
<1>. QED
  BY <1>2, <1>3, <1>4, <1>5, <1>6

LEMMA CalmHandle == ASSUME Calm, LibNext, Handle PROVE CalmInv'
<1>1. link' = "open" /\ weather' = "calm"
  BY CalmSteps
<1>2. PICK s \in Seq(Answers) : s = Line
  BY CalmParts
<1>3. s # <<>> /\ Head(s) = Head(R) /\ Line' = Tail(s) /\ R' = <<>>
  BY <1>2, CalmParts, LineHandle
<1>4. Len(R') <= 1
  BY <1>3
<1>5. UNCHANGED <<row, stage, pending, gone, reports>>
  BY DEF Handle, ledger, server
<1>. HIDE DEF Line
<1>6. \A j \in Ids : Telling(s, j) /\ Deaths(s, j) /\ Final(s, j)
  BY <1>2, CalmParts
<1>7. PICK z \in Seq(Answers) : z = Tail(s)
  BY <1>3, HeadTailProperties
<1>8. ASSUME NEW j \in Ids
      PROVE  Telling(z, j)' /\ Deaths(z, j)' /\ Final(z, j)'
  <2>1. TileStep(Head(s), j)
    BY <1>3, HandleTile, CalmParts
  <2>2. (Dead(j) => Dead(j)') /\ (Over(j) => Over(j)')
    BY <1>5 DEF Dead, Over, Present
  <2>3. Telling(Tail(s), j)'
    BY <1>3, <1>5, <1>6, <2>1, TellingTail DEF TileStep
  <2>4. Deaths(Tail(s), j)'
    BY <1>3, <1>5, <1>6, <2>2, DeathsTail
  <2>5. \/ T'[j] \in {T[j], "NONE", "UNLINKED"}
        \/ Shows(Head(s), j) /\ T'[j] = Head(s).status
    BY <2>1 DEF TileStep
  <2>6. Final(Tail(s), j)'
    BY <1>3, <1>6, <2>2, <2>5, FinalTail
  <2>. QED
    BY <1>7, <2>3, <2>4, <2>6
<1>9. Line' = z
  BY <1>3, <1>7
<1>. QED
  BY <1>1, <1>4, <1>8, <1>9 DEF CalmInv

LEMMA LibInvInit == LibInit => LibInv
<1> SUFFICES ASSUME LibInit PROVE LibInv
  OBVIOUS
<1>1. LibTypeOK /\ LedgerInv
  BY LibTypeInit, LedgerInit DEF LibInit
<1>2. Line = <<>> /\ Len(R) = 0 /\ link = "open"
  BY ConcatEmptySeq, EmptySeq DEF LibInit, Line
<1>3. ASSUME NEW id \in Ids PROVE T[id] = "NONE" /\ id \notin gone
  BY <1>3 DEF LibInit
<1>4. \A id \in Ids : \A m : Unheard(<<>>, id) /\ ~Heard(<<>>, id, m)
  BY DEF Unheard, Heard
<1>5. ASSUME NEW id \in Ids
      PROVE  Telling(<<>>, id) /\ Deaths(<<>>, id) /\ Final(<<>>, id)
  BY <1>3, <1>4 DEF Telling, Told, GoneTold, Deaths, Final, VerdictsFrom, Verdicts
<1>. HIDE DEF Line
<1>6. CalmInv
  BY <1>2, <1>5 DEF CalmInv
<1>. QED
  BY <1>1, <1>6 DEF LibInv

LEMMA LibInvStep == LibInv /\ [LibNext]_libVars => LibInv'
<1> SUFFICES ASSUME LibInv, [LibNext]_libVars PROVE LibInv'
  OBVIOUS
<1>1. LibTypeOK' /\ LedgerInv'
  BY LibTypeStep, LibIsLedger, LedgerStep DEF LibInv
<1>2. CalmInv'
  <2>1. CASE UNCHANGED libVars
    <3>1. Line' = Line /\ UNCHANGED <<row, stage, pending, gone, reports, T, R, link, weather>>
      BY <2>1 DEF libVars, ledger, server, client, Line
    <3>. HIDE DEF Line
    <3>2. ASSUME NEW id \in Ids
          PROVE  /\ Telling(Line, id)' <=> Telling(Line, id)
                 /\ Deaths(Line, id)' <=> Deaths(Line, id)
                 /\ Final(Line, id)' <=> Final(Line, id)
      BY <3>1 DEF Telling, Told, GoneTold, Deaths, Dead, Final, Over,
                  VerdictsFrom, Present
    <3>. QED
      BY <3>1, <3>2 DEF LibInv, CalmInv
  <2>2. CASE LibNext /\ weather = "calm"
    <3>1. Calm
      BY <2>2 DEF Calm
    <3>. QED
      BY <2>2, <3>1, CalmSteps, CalmMain, CalmClient, CalmNetwork, CalmHandle
  <2>3. CASE LibNext /\ weather # "calm"
    <3>1. weather' = weather
      BY <2>3 DEF LibNext, Main, UserAsks, UserDeclines, UserOpens, Network,
                  ServeSearch, ServeInfo, ServeJob, ServeOther,
                  InsertRow, DeliverReport, DeliverDeletion, Receive, Handle,
                  TimerSearch, TimerAgain, UserSubmits, Break, LibRestart,
                  ConnectionDropped
    <3>. QED
      BY <2>3, <3>1 DEF CalmInv
  <2>. QED
    BY <2>1, <2>2, <2>3
<1>. QED
  BY <1>1, <1>2 DEF LibInv

LEMMA AlwaysLibInv == LibSpec => []LibInv
  BY LibInvInit, LibInvStep, PTL DEF LibSpec
LEMMA GreatestOf ==
  ASSUME NEW n \in Nat, NEW S, S \subseteq 1..n, S # {}
  PROVE  \E k \in S : \A m \in S : m <= k
<1> DEFINE below == {d \in Nat : n - d \in S}
<1>1. below \subseteq Nat /\ below # {}
  <2>1. PICK k \in S : k \in 1..n
    OBVIOUS
  <2>2. n - k \in Nat /\ n - (n - k) = k
    BY <2>1
  <2>. QED
    BY <2>2
<1>2. PICK d \in below : \A e \in below : d <= e
  <2>. HIDE DEF below
  <2>. QED
    BY <1>1, LeastOf
<1>3. ASSUME NEW m \in S PROVE m <= n - d
  <2>1. m \in 1..n /\ n - m \in Nat /\ n - (n - m) = m
    BY <1>3
  <2>2. n - m \in below
    BY <2>1
  <2>3. d <= n - m /\ d \in Nat
    BY <1>2, <2>2
  <2>. QED
    BY <2>1, <2>3
<1>. QED
  BY <1>2, <1>3

LEMMA NewestFact ==
  ASSUME NEW s \in Seq(Answers), NEW id \in Ids
  PROVE  /\ Newest(s, id) = 0 => Unheard(s, id)
         /\ Newest(s, id) # 0 => Heard(s, id, s[Newest(s, id)])
                                 /\ s[Newest(s, id)] \in Answers
<1> DEFINE about == {i \in DOMAIN s : s[i].head \in {"MDUD", "DELF"} /\ s[i].id = id}
<1>1. DOMAIN s = 1..Len(s) /\ Len(s) \in Nat
  BY LenProperties
<1>2. \A i \in 1..Len(s) : i \in about <=> About(s[i], id)
  BY <1>1 DEF About
<1>3. CASE about = {}
  <2>1. Newest(s, id) = 0
    BY <1>3 DEF Newest
  <2>2. Unheard(s, id)
    BY <1>2, <1>3 DEF Unheard
  <2>. QED
    BY <2>1, <2>2
<1>4. CASE about # {}
  <2>1. \E i \in about : \A j \in about : j <= i
    <3>1. about \subseteq 1..Len(s)
      BY <1>1
    <3>. HIDE DEF about
    <3>. QED
      BY <1>1, <1>4, <3>1, GreatestOf
  <2>2. Newest(s, id) = CHOOSE i \in about : \A j \in about : j <= i
    BY <1>4 DEF Newest
  <2>3. PICK i \in about : Newest(s, id) = i /\ \A j \in about : j <= i
    BY <2>1, <2>2
  <2>4. i \in 1..Len(s) /\ About(s[i], id)
    BY <1>1, <1>2
  <2>5. \A j \in (i + 1)..Len(s) : ~About(s[j], id)
    <3>. HIDE DEF about
    <3>. QED
      BY <1>1, <1>2, <2>3, <2>4
  <2>6. Heard(s, id, s[i])
    BY <2>4, <2>5 DEF Heard
  <2>7. s[i] \in Answers /\ i # 0
    BY <2>4, ElementOfSeq
  <2>. QED
    BY <2>3, <2>6, <2>7
<1>. QED
  BY <1>3, <1>4

\* While all is calm a tile shows the truth, or will when everything on its way
\* has been handled, unless a report is still to be sent: for any number of
\* fractals and packets, and whatever is searched, deleted or inserted late.
THEOREM TilesAreTold == LibSpec => []TilesTold
<1>1. LibInv => TilesTold
  <2> SUFFICES ASSUME LibInv, weather = "calm", NEW id \in Ids \ (reports \cup gone)
               PROVE  LET i == Newest(Line, id)
                      IN  IF i = 0 THEN T[id] \in {"NONE", "UNLINKED", row[id]}
                          ELSE IF Line[i].head = "MDUD"
                               THEN Line[i].status = row[id] ELSE ~Present(id)
    BY DEF TilesTold, Line
  <2>1. Line \in Seq(Answers) /\ Told(Line, id)
    BY LineType DEF LibInv, CalmInv, Telling
  <2>. HIDE DEF Line
  <2>2. /\ Newest(Line, id) = 0 => Unheard(Line, id)
        /\ Newest(Line, id) # 0 => Heard(Line, id, Line[Newest(Line, id)])
                                   /\ Line[Newest(Line, id)] \in Answers
    BY <2>1, NewestFact
  <2>. QED
    BY <2>1, <2>2 DEF Told
<1>. QED
  BY <1>1, AlwaysLibInv, PTL

\* A tile that showed a verdict never shows its fractal as waiting or being
\* rendered again while all is calm: verdicts are final in the table, and no
\* older status is still on its way.
THEOREM VerdictsAreKept == LibSpec => VerdictsStay
<1> DEFINE Stay == weather = "calm" => \A id \in Ids :
                     T[id] \in Verdicts => T'[id] \in Verdicts \cup {"NONE"}
<1>1. LibInv /\ [LibNext]_libVars => [Stay]_libVars
  <2> SUFFICES ASSUME LibInv, LibNext, weather = "calm", NEW id \in Ids,
                      T[id] \in Verdicts
               PROVE  T'[id] \in Verdicts \cup {"NONE"}
    OBVIOUS
  <2>1. Calm
    BY DEF Calm
  <2>2. CASE Handle
    <3>1. T'[id] \notin {T[id], "NONE"} => Shows(Head(R), id) /\ T'[id] = Head(R).status
      BY <2>1, <2>2, HandleTile, CalmParts
    <3>2. PICK s \in Seq(Answers) : s = Line
      BY <2>1, CalmParts
    <3>3. s # <<>> /\ Head(s) = Head(R)
      BY <2>1, <2>2, <3>2, CalmParts, LineHandle
    <3>4. 1 \in 1..Len(s) /\ Head(s) = s[1]
      BY <3>3, HeadTailProperties, LenProperties, EmptySeq
    <3>. HIDE DEF Line
    <3>5. VerdictsFrom(s, id, 1)
      BY <2>1, <3>2, CalmParts DEF Final
    <3>6. Shows(Head(s), id) => Head(s).status \in Verdicts
      BY <3>4, <3>5 DEF VerdictsFrom
    <3>. QED
      BY <3>1, <3>3, <3>6
  <2>3. CASE ~Handle
    <3>1. T' = T
      BY <2>1, <2>3, CalmSteps
         DEF Main, UserAsks, UserDeclines, UserOpens, Network, ServeSearch, ServeInfo,
             ServeJob, ServeOther, InsertRow,
             DeliverReport, DeliverDeletion, Receive, TimerSearch, TimerAgain,
             UserSubmits, client
    <3>. QED
      BY <3>1
  <2>. QED
    BY <2>2, <2>3
<1>2. LibSpec => [][Stay]_libVars
  BY <1>1, AlwaysLibInv, PTL DEF LibSpec
<1>. QED
  BY <1>2 DEF VerdictsStay
=============================================================================
