------------------------------ MODULE Library ------------------------------
(***************************************************************************)
(* What a client shows of the fractals: the tiles of its library and the   *)
(* contexts of the jobs it has opened.  The server is its job ledger,      *)
(* whose changes are reported; the client also searches, and asks again    *)
(* for what it does not know.  One client, seen on a link that keeps order *)
(* (PacketLink) but may break; others only submit jobs.                    *)
(***************************************************************************)
EXTENDS JobLedger, FiniteSets, SequencesExt

CONSTANTS
  Weathers,      \* the kinds of weather, see below
  SearchLimit,   \* rows in the answer to a search (20 in the code)
  MaxOlder,      \* bound: fractals that were complete before, and stay so
  MaxDown,       \* bound: packets on their way to the client, or not yet handled
  MaxContexts,   \* bound: contexts of unfinished jobs
  Company        \* bound: kinds of weather in which another client submits jobs
                 \* and the user presses tiles

ASSUME LibraryAssumption ==
  /\ Weathers \subseteq {"calm", "late", "rough"}
  /\ SearchLimit \in Nat \ {0} /\ MaxOlder \in Nat
  /\ MaxDown \in Nat \ {0} /\ MaxContexts \in Nat
  /\ Company \subseteq Weathers

VARIABLES
  weather,    \* "calm": the link holds, the server keeps running, and the user
              \* interface handles each packet before the next one comes;
              \* "late": it may not; "rough": links break, servers are restarted
  older,      \* number of older fractals
  reports,    \* fractals whose change has to be reported
  gone,       \* fractals whose deletion has to be reported
  link,       \* "open", or "broken" while the client has not noticed
  up,         \* requests of the client that have not been answered
  down,       \* packets on their way to the client
  R,          \* packets received, the next one to be handled first
  T,          \* status the tile of a fractal shows, or "NONE"
  C,          \* open contexts of jobs that are not over, as far as they know
  D,          \* the tile about whose context the user is asked, if there is one
  late        \* history: fractals a context of which was opened from a tile that
              \* had left the library, when the fractal was over

ledger == <<row, stage, pending>>
server == <<reports, gone>>
dialog == <<D, late>>
client == <<up, R, T, C, dialog>>
libVars == <<ledger, server, link, down, client, weather, older>>

Live == {"UNLINKED", "QUEUED", "RENDERING"}           \* isUpdatableStatus
TileStatus == RowStatus \cup {"UNLINKED"}
Updateable == {"QUEUED", "RENDERING", "SUBMITTED"}    \* isUpdateableState

Search == [head |-> "SSLT"]
Info(id) == [head |-> "RJIF", id |-> id]
Job == [head |-> "SJOB"]
Found(S, empty) == [head |-> "SSLT", ids |-> S, empty |-> empty]
Status(id) == [head |-> "MDUD", id |-> id, status |-> row[id]]
Submitted(id) == [head |-> "SJOB", id |-> id]
Deleted(id) == [head |-> "DELF", id |-> id]
\* A submission being served is the answer that is due for it.
Requests == {Search, Job} \cup {Info(id) : id \in Ids} \cup {Submitted(id) : id \in Ids}
Answers ==
  [head : {"SSLT"}, ids : SUBSET Ids, empty : BOOLEAN] \cup [head : {"SJOB", "DELF"}, id : Ids]
    \cup [head : {"MDUD"}, id : Ids, status : RowStatus \ {"NONE"}]

LibInit ==
  /\ Init
  /\ weather \in Weathers /\ older \in 0..MaxOlder
  /\ reports = {} /\ gone = {}
  /\ link = "open" /\ up = {} /\ down = <<>> /\ R = <<>>
  /\ T = [id \in Ids |-> "NONE"] /\ C = <<>>
  /\ D = {} /\ late = {}

-----------------------------------------------------------------------------
(* Main's side of the ledger.  A row that is not found is reported with id   *)
(* -1, that is, not at all; the insertion is not reported either.            *)

ReportNothing(id) == UNCHANGED reports                  \* mutant
Report(id) == reports' = IF Present(id) THEN reports \cup {id} ELSE reports

LibStart(id) == Start(id) /\ Report(id) /\ UNCHANGED gone
LibCancel(id) ==
  /\ CancelWaiting(id) \/ CancelActive(id)
  /\ Report(id) /\ UNCHANGED gone
\* Those who cancel or ask for too much aside, a job ends well.
LibClose(id) == Close(id, "COMPLETE") /\ Report(id) /\ UNCHANGED gone
LibDelete(id) == Delete(id) /\ gone' = gone \cup {id} /\ UNCHANGED reports

Main(id) ==
  /\ LibStart(id) \/ LibCancel(id) \/ LibClose(id) \/ LibDelete(id)
  /\ UNCHANGED <<link, down, client, weather, older>>

-----------------------------------------------------------------------------
(* The network thread: while a submission waits for its row, nothing else.   *)

Send(m) == down' = IF link = "open" THEN Append(down, m) ELSE down
SendStatusAnyway(id) == Send(Status(id))      \* mutant: of a row that is not there
SendStatus(id) == IF Present(id) THEN Send(Status(id)) ELSE UNCHANGED down
Room == Len(down) + Len(R) < MaxDown

\* ORDER BY STATUS ASC, ID DESC LIMIT
Rank(s) == CASE s = "RENDERING" -> 0 [] s = "COMPLETE" -> 10 [] s = "QUEUED" -> 20
             [] s = "CANCEL" -> 30 [] s = "TIMEOUT" -> 40 [] OTHER -> 50
Before(i, j) == Rank(row[i]) < Rank(row[j]) \/ (row[i] = row[j] /\ i > j)
OlderBefore(id) == IF Rank("COMPLETE") < Rank(row[id]) THEN older ELSE 0
SearchResult ==
  {id \in Ids : Present(id)
     /\ Cardinality({j \in Ids : Present(j) /\ Before(j, id)}) + OlderBefore(id) < SearchLimit}

\* The order of the requests makes no difference to their answers.
Takes(m) == link = "open" /\ pending = {} /\ m \in up /\ up' = up \ {m}

ServeSearch ==
  /\ Takes(Search) /\ Room
  /\ Send(Found(SearchResult, SearchResult = {} /\ older = 0))
  /\ UNCHANGED <<ledger, server, link, R, T, C, dialog, weather, older>>

\* fillMDUDRequest: a row that is not there is not answered.
ServeInfo(id) ==
  /\ Takes(Info(id)) /\ Room
  /\ SendStatus(id)
  /\ UNCHANGED <<ledger, server, link, R, T, C, dialog, weather, older>>

\* submitJob: the job is known to main before its row is inserted ...
ServeJob(id) ==
  /\ link = "open" /\ Job \in up /\ Room
  /\ Submit(id) /\ up' = (up \ {Job}) \cup {Submitted(id)}
  /\ UNCHANGED <<server, link, down, R, T, C, dialog, weather, older>>

\* ... the same for another client ...
ServeOther(id) ==
  /\ weather \in Company
  /\ Submit(id)
  /\ UNCHANGED <<server, link, down, client, weather, older>>

\* ... and who submitted the job is answered when its row has been inserted.
InsertRow(id) ==
  /\ Insert(id)
  /\ \/ Submitted(id) \in up /\ up' = up \ {Submitted(id)} /\ Send(Submitted(id))
     \/ Submitted(id) \notin up /\ UNCHANGED <<up, down>>
  /\ UNCHANGED <<server, link, R, T, C, dialog, weather, older>>

\* Reports carry an id; the row is read when it is sent to the clients.
DeliverReport(id) ==
  /\ pending = {} /\ id \in reports /\ Room
  /\ reports' = reports \ {id}
  /\ SendStatus(id)
  /\ UNCHANGED <<ledger, gone, link, client, weather, older>>

DeliverDeletion(id) ==
  /\ pending = {} /\ id \in gone /\ Room
  /\ gone' = gone \ {id} /\ Send(Deleted(id))
  /\ UNCHANGED <<ledger, reports, link, client, weather, older>>

Network ==
  \/ ServeSearch
  \/ \E id \in Ids :
       \/ ServeInfo(id) \/ ServeJob(id) \/ ServeOther(id) \/ InsertRow(id)
       \/ DeliverReport(id) \/ DeliverDeletion(id)

-----------------------------------------------------------------------------
(* The client's thread and its user interface.                               *)

\* What is received is put in front of what has not been handled.
Receive ==
  /\ down # <<>>
  /\ weather # "late" => R = <<>>
  /\ R' = <<Head(down)>> \o R /\ down' = Tail(down)
  /\ UNCHANGED <<ledger, server, link, up, T, C, dialog, weather, older>>

\* mutant: the verdict is not shown in the context
ShownInLive(cs, id, s) ==
  IF s \in Updateable /\ \E i \in DOMAIN cs : cs[i].id = id
  THEN <<[id |-> id, status |-> s]>> ELSE cs
\* recievedFractalStatusUpdate: the first context of the fractal that shows
\* something else is replaced; one that is over is not listened for any more.
ShownIn(cs, id, s) ==
  LET other == {i \in DOMAIN cs : cs[i].id = id /\ cs[i].status # s}
      i == CHOOSE i \in other : \A j \in other : i <= j
  IN  IF other = {} THEN cs
      ELSE IF s \in Updateable THEN Append(RemoveAt(cs, i), [id |-> id, status |-> s])
      ELSE RemoveAt(cs, i)

HandleStatus(id, s) ==
  /\ T' = IF T[id] = "NONE" THEN T ELSE [T EXCEPT ![id] = s]
  /\ C' = ShownIn(C, id, s)
  /\ UNCHANGED <<up, D>>

\* A tile the library shows follows T; one that has been taken out, or replaced
\* by a new one, keeps for ever what it said.
InLibrary == "in the library"
TakenOut(ids) ==
  D' = {IF d.id \in ids /\ d.says = InLibrary THEN [d EXCEPT !.says = T[d.id]] ELSE d : d \in D}

HandleDeletion(id) ==
  /\ T' = [T EXCEPT ![id] = "NONE"] /\ TakenOut({id})
  /\ UNCHANGED <<up, C>>

\* onReceiveSLSTReply: tiles with a verdict are kept, all others made anew.
\* Mutants: tiles being rendered are kept, all are made anew, none is cleared.
UnknownNoRendering(ids) == {id \in ids : T[id] \in {"NONE", "UNLINKED", "QUEUED"}}
UnknownAll(ids) == ids
Unknown(ids) == {id \in ids : T[id] \in Live \cup {"NONE"}}
Ask(S) == up' = up \cup {Info(id) : id \in S}
HandleSearchKeeps(ids, empty) ==
  /\ T' = [id \in Ids |-> IF id \in Unknown(ids) THEN "UNLINKED" ELSE T[id]]
  /\ Ask(Unknown(ids)) /\ TakenOut(Unknown(ids))
  /\ UNCHANGED C
HandleSearch(ids, empty) ==
  /\ IF empty
     THEN UNCHANGED <<T, up, D>>
     ELSE /\ T' = [id \in Ids |-> IF id \notin ids THEN "NONE"
                                  ELSE IF id \in Unknown(ids) THEN "UNLINKED" ELSE T[id]]
          /\ Ask(Unknown(ids)) /\ TakenOut(Ids \ (ids \ Unknown(ids)))
  /\ UNCHANGED C

\* becameSubmittedJob
HandleSubmitted(id) ==
  /\ C' = ShownIn(Append(C, [id |-> id, status |-> "SUBMITTED"]), id, "QUEUED")
  /\ UNCHANGED <<T, up, D>>

Handle ==
  /\ R # <<>> /\ R' = Tail(R)
  /\ LET m == Head(R)
     IN  \/ m.head = "MDUD" /\ HandleStatus(m.id, m.status)
         \/ m.head = "DELF" /\ HandleDeletion(m.id)
         \/ m.head = "SSLT" /\ HandleSearch(m.ids, m.empty)
         \/ m.head = "SJOB" /\ HandleSubmitted(m.id)
  /\ UNCHANGED <<ledger, server, link, down, late, weather, older>>

\* The timer of the library searches every minute.
\* Bound: one search, or its answer, on its way at a time.
OnItsWay(head) == \E i \in DOMAIN (R \o down) : (R \o down)[i].head = head
TimerSearch ==
  /\ Search \notin up /\ ~OnItsWay("SSLT")
  /\ up' = up \cup {Search}
  /\ UNCHANGED <<ledger, server, link, down, R, T, C, dialog, weather, older>>

\* A second one asks again about tiles that have never been told.
\* Bound: not while they are still being asked for.
TimerAgain ==
  LET unlinked == {id \in Ids : T[id] = "UNLINKED"}
  IN  /\ unlinked # {} /\ \A id \in unlinked : Info(id) \notin up
      /\ Ask(unlinked)
      /\ UNCHANGED <<ledger, server, link, down, R, T, C, dialog, weather, older>>

\* The user submits a job.  Bound: one submission waiting at a time.
UserSubmits ==
  /\ D = {}
  /\ Job \notin up /\ Len(C) < MaxContexts
  /\ up' = up \cup {Job}
  /\ UNCHANGED <<ledger, server, link, down, R, T, C, dialog, weather, older>>

\* mousePressed: a modal dialog asks whether a context shall be opened of a
\* tile; packets are handled and timers run while it is there.
UserAsks(id) ==
  /\ weather \in Company
  /\ D = {} /\ T[id] \notin {"NONE", "UNLINKED"}
  /\ D' = {[id |-> id, says |-> InLibrary]}
  /\ UNCHANGED <<ledger, server, link, down, up, R, T, C, late, weather, older>>

UserDeclines ==
  /\ D # {} /\ D' = {}
  /\ UNCHANGED <<ledger, server, link, down, up, R, T, C, late, weather, older>>

\* openNewContext reads the status of the tile that was pressed, wherever that
\* is by now.  There is one context of a fractal that can be updated; those
\* that cannot are not in C.  Bound: only while there is room for it.
Pressed(d) == IF d.says = InLibrary THEN T[d.id] ELSE d.says
Opening(d) == Pressed(d) \in {"QUEUED", "RENDERING"} /\ \A i \in DOMAIN C : C[i].id # d.id
OpensLate(d) == d.says # InLibrary /\ row[d.id] \in Verdicts
UserOpens ==
  \E d \in D :
    /\ D' = {}
    /\ IF Opening(d)
       THEN /\ Len(C) < MaxContexts
            /\ C' = Append(C, [id |-> d.id, status |-> Pressed(d)])
            /\ late' = IF OpensLate(d) THEN late \cup {d.id} ELSE late
       ELSE UNCHANGED <<C, late>>
    /\ UNCHANGED <<ledger, server, link, down, up, R, T, weather, older>>

-----------------------------------------------------------------------------
(* The link breaks, or the server is restarted: some of what was on its way  *)
(* still arrives.  The tiles and contexts stay.                              *)

LoseSome == \E n \in 0..Len(down) : down' = SubSeq(down, 1, n)

Break ==
  /\ weather = "rough" /\ link = "open" /\ pending = {}
  /\ link' = "broken" /\ LoseSome
  /\ UNCHANGED <<ledger, server, client, weather, older>>

LibRestart ==
  /\ weather = "rough"
  /\ Restart /\ reports' = {} /\ gone' = {}
  /\ link' = "broken"
  /\ LoseSome
  /\ UNCHANGED <<client, weather, older>>

\* The client's lists are cleared, and it connects again before anything else.
ConnectionDropped ==
  /\ link = "broken"
  /\ link' = "open" /\ up' = {} /\ down' = <<>> /\ R' = <<>>
  /\ UNCHANGED <<ledger, server, T, C, dialog, weather, older>>

LibNext ==
  \/ \E id \in Ids : Main(id) \/ UserAsks(id)
  \/ Network \/ Receive \/ Handle
  \/ TimerSearch \/ TimerAgain \/ UserSubmits \/ UserDeclines \/ UserOpens
  \/ Break \/ LibRestart \/ ConnectionDropped

\* The network thread answers searches and questions in turn and delivers
\* reports, the client's thread, Swing and the timer of the searches go on.
\* Nothing is asked of the second timer, of the deletion reports, or of anybody
\* who submits, cancels, deletes or presses a tile.
LibFairness ==
  /\ SF_libVars(ServeSearch) /\ WF_libVars(Receive \/ Handle) /\ WF_libVars(TimerSearch)
  /\ \A id \in Ids : /\ SF_libVars(ServeInfo(id)) /\ WF_libVars(InsertRow(id))
                     /\ SF_libVars(DeliverReport(id))

LibSpec == LibInit /\ [][LibNext]_libVars
FairLibSpec == LibSpec /\ LibFairness

-----------------------------------------------------------------------------

\* The variables of the ledger and of the library have their types.
LibTypeOK ==
  /\ TypeOK
  /\ weather \in Weathers /\ older \in 0..MaxOlder
  /\ reports \subseteq Ids /\ gone \subseteq Ids
  /\ link \in {"open", "broken"}
  /\ up \subseteq Requests /\ down \in Seq(Answers) /\ R \in Seq(Answers)
  /\ T \in [Ids -> TileStatus]
  /\ C \in Seq([id : Ids, status : Updateable])
  /\ D \subseteq [id : Ids, says : {InLibrary} \cup TileStatus]
  /\ late \subseteq Ids

\* What a tile shows, or will show when everything on its way has been
\* handled, is the truth, unless a report is still to be sent: no change of a
\* row gets past the clients, whatever is searched, inserted late or deleted
\* meanwhile.  If all is calm.
Newest(s, id) ==
  LET about == {i \in DOMAIN s : s[i].head \in {"MDUD", "DELF"} /\ s[i].id = id}
  IN  IF about = {} THEN 0 ELSE CHOOSE i \in about : \A j \in about : j <= i
TilesTold ==
  weather = "calm" => \A id \in Ids \ (reports \cup gone) :
    LET s == R \o down
        i == Newest(s, id)
    IN  IF i = 0 THEN T[id] \in {"NONE", "UNLINKED", row[id]}
        ELSE IF s[i].head = "MDUD" THEN s[i].status = row[id] ELSE ~Present(id)

\* A tile that showed a verdict never shows its fractal as waiting or being
\* rendered again.
VerdictsStay ==
  [][weather = "calm" => \A id \in Ids :
       T[id] \in Verdicts => T'[id] \in Verdicts \cup {"NONE"}]_libVars

\* Whatever is lost, late or handled in the wrong order: once a fractal is
\* over and the link holds, its tile does not show it as waiting, being
\* rendered or unknown for ever.
LiveTilesSettle ==
  \A id \in Ids : <>[](link = "open" /\ row[id] \in Verdicts) => <>[](T[id] \notin Live)

\* The tile of a deleted fractal goes, as long as another fractal is left.
GhostsGo ==
  \A id \in Ids :
    <>[](link = "open" /\ ~Present(id) /\ (older > 0 \/ \E j \in Ids : Present(j))) => <>[](T[id] = "NONE")

\* No context waits for ever for a fractal that is over, unless it was opened
\* then from a tile the library had meanwhile replaced: the dialog was answered
\* too late.  Of every other context, opened with whatever status, the library
\* hears again (PanelContextLibrary.java:30-72).
ContextsSettle ==
  weather = "calm" => \A id \in Ids :
    <>[](row[id] \in Verdicts /\ id \notin late) => <>[](\A i \in DOMAIN C : C[i].id # id)
=============================================================================
