----------------------------- MODULE JobEditor -----------------------------
(***************************************************************************)
(* A job from the editor of the Java client to the frames of its           *)
(* animation on the server.  The user chooses what the selectors offer,    *)
(* which shows and hides groups of the schema (PanelProperties,            *)
(* ParamsElementSelector), and sets key frames of the one integer          *)
(* (AnimationWindow, AnimationParamPanel, AnimationSelectKF).  What is     *)
(* submitted is what the editor holds, whether or not it marked it red:    *)
(* only the server's checks decide (runGen, spawnJobs).  The job asks for  *)
(* an animation; one that does not has no key frames to speak of.          *)
(***************************************************************************)
EXTENDS Schema

CONSTANTS
  EditMethods, EditValues,    \* what the user enters
  FrameCounts, DefaultFrames,
  MaxDepth,                   \* bound: groups built inside one another
  MaxKeys,                    \* bound: key frames
  MaxEdits                    \* bound: operations of the user

VARIABLES
  phase,        \* "edit", "submitted", "valid", "spawned" or "rejected"
  edits,        \* operations of the user so far
  job,          \* the groups in the job
  choice,       \* per selector its choice; its default until it is in the job
  number,       \* its integer
  G,            \* groups that are displayed
  registered,   \* the integer has had a text field since switchContext
  kfs,          \* its key frames, as in the job
  frameCount,   \* frames of the animation, NoAnim: none was ever set
  open,         \* the animation window exists
  sel           \* index of its selectedParamKF, 0: null

editor == <<job, choice, number, G, registered, kfs, frameCount, open, sel>>
vars == <<phase, edits, editor, keyVars>>

NoAnim == -1

Mentions(s) == UNION {Options[s][c].hide \cup ToSet(Options[s][c].show) : c \in ChoiceOf(s)}

\* In etc/schema.json the groups that one selector hides and shows are its own, and
\* groups that show groups end.
ASSUME SchemaIsTree ==
  /\ \A g, h \in Groups : \A s \in ToSet(Selectors[g]), r \in ToSet(Selectors[h]) :
       /\ s = r => g = h
       /\ s # r => Mentions(s) \cap Mentions(r) = {}
  /\ \A g \in Groups : \A s \in ToSet(Selectors[g]) : Mentions(s) \cap ToSet(ActiveGroups) = {}
  /\ \E depth \in [Groups -> 0..(MaxDepth - 1)] :
       \A g \in Groups : \A s \in ToSet(Selectors[g]) : \A k \in Mentions(s) : depth[k] < depth[g]

ASSUME EditorAssumption ==
  /\ EditMethods \subseteq Methods /\ EditValues \subseteq Given
  /\ FrameCounts \subseteq Given /\ DefaultFrames \in Nat
  /\ {MaxDepth, MaxKeys, MaxEdits} \subseteq Nat

-----------------------------------------------------------------------------
(* The groups on display.                                                  *)

Panels == [job : SUBSET Groups, G : SUBSET Groups, registered : BOOLEAN]
Panel == [job |-> job, G |-> G, registered |-> registered]

\* A selector's verify(): its choice hides groups, then shows others.  add[g][st]
\* is what addGroup makes of st.
hideActuator(st, option) == [st EXCEPT !.G = @ \ option.hide]
showActuator(st, option, add) ==
  Each([g \in Groups |-> [t \in Panels |-> IF g \in t.G THEN t ELSE add[g][t]]],
       option.show, st)

ShowFirst(st, option, add) == hideActuator(showActuator(st, option, add), option)    \* mutant
HideFirst(st, option, add) == showActuator(hideActuator(st, option), option, add)

VerifySelector(st, option, add) == HideFirst(st, option, add)

\* A group without data gets the defaults; its elements are made, and their
\* choices act, before it counts as displayed.
BuildGroup(g, chosen, st, add) ==
  LET made == [st EXCEPT !.job = @ \cup {g}, !.registered = @ \/ g = NumberGroup]
      verify == [s \in DOMAIN Options |->
                  [t \in Panels |-> VerifySelector(t, Options[s][chosen[s]], add)]]
  IN  [Each(verify, Selectors[g], made) EXCEPT !.G = @ \cup {g}]

\* The groups shown while a group is built are built with one call less to go.
addGroup(chosen) ==
  LET add[d \in 0..MaxDepth] ==
        [g \in Groups |-> [st \in Panels |->
          IF d = 0 THEN st ELSE BuildGroup(g, chosen, st, add[d - 1])]]
  IN  add[MaxDepth]

switchContext(groups, chosen) ==
  Each(addGroup(chosen), ActiveGroups, [job |-> groups, G |-> {}, registered |-> FALSE])

SetPanel(st) == job' = st.job /\ G' = st.G /\ registered' = st.registered

-----------------------------------------------------------------------------
(* The animation window.                                                   *)

\* getIntVal: a text that is no number counts as 0.
IntVal(n) == IF n = NotNumeric THEN 0 ELSE n

\* updatedAnimationParams: key frames of an integer that has no text field are
\* dropped, those behind the last frame are moved to it.
Clamped(k, n) == [k EXCEPT !.frameno = IF @ > IntVal(n) THEN IntVal(n) ELSE @]
Updated(keys, reg, n) ==
  IF reg THEN [i \in DOMAIN keys |-> Clamped(keys[i], n)] ELSE <<>>

Edit == phase = "edit" /\ edits < MaxEdits /\ edits' = edits + 1 /\ UNCHANGED <<phase, keyVars>>

\* A selector's action listener.  The window, if it was ever opened, follows.
SelectChoice(g, s, c) ==
  /\ Edit /\ g \in G
  /\ choice' = [choice EXCEPT ![s] = c]
  /\ LET st == VerifySelector(Panel, Options[s][c], addGroup(choice'))
     IN  /\ SetPanel(st)
         /\ kfs' = IF open THEN Updated(kfs, st.registered, frameCount) ELSE kfs
  /\ UNCHANGED <<number, frameCount, open, sel>>

EditNumber(v) ==
  /\ Edit /\ NumberGroup \in G
  /\ number' = v
  /\ UNCHANGED <<job, choice, G, registered, kfs, frameCount, open, sel>>

\* To another context and back.
SwitchContext ==
  /\ Edit
  /\ SetPanel(switchContext(job, choice))
  /\ open' = FALSE /\ sel' = 0
  /\ UNCHANGED <<choice, number, kfs, frameCount>>

OpenWindow ==
  /\ Edit
  /\ open' = TRUE /\ sel' = 0
  /\ frameCount' = IF frameCount = NoAnim THEN DefaultFrames ELSE frameCount
  /\ kfs' = Updated(kfs, registered, frameCount')
  /\ UNCHANGED <<job, choice, number, G, registered>>

\* The key frames stay as they are until the next update.
SetFrameCount(n) ==
  /\ Edit /\ open
  /\ frameCount' = n
  /\ UNCHANGED <<job, choice, number, G, registered, kfs, open, sel>>

\* frameSelected: the first key frame with that number, or a new one at the end.
frameSelected(f) ==
  LET at == SelectInSeq(kfs, LAMBDA k : k.frameno = f)
      new == [frameno |-> f, val |-> DefaultNumber, interp |-> "linear"]
      keys == IF at = 0 THEN Append(kfs, new) ELSE kfs
  IN  /\ Len(keys) <= MaxKeys
      /\ kfs' = Updated(keys, registered, frameCount)
      /\ sel' = IF at = 0 THEN Len(keys) ELSE at

\* The dialog takes frames from 2 to the last, ...
SelectKF(f) ==
  /\ Edit /\ open /\ registered
  /\ frameSelected(f)
  /\ UNCHANGED <<job, choice, number, G, registered, frameCount, open>>

\* ... a click on the time line takes the key frame next to it, though never
\* the first frame.
ClickKF(i) ==
  /\ Edit /\ open /\ i \in DOMAIN kfs
  /\ frameSelected(IF kfs[i].frameno = 1 THEN 2 ELSE kfs[i].frameno)
  /\ UNCHANGED <<job, choice, number, G, registered, frameCount, open>>

EditKey(v) ==
  /\ Edit /\ open /\ sel # 0
  /\ kfs' = [kfs EXCEPT ![sel].val = v]
  /\ UNCHANGED <<job, choice, number, G, registered, frameCount, open, sel>>

EditInterp(m) ==
  /\ Edit /\ open /\ sel # 0
  /\ kfs' = [kfs EXCEPT ![sel].interp = m]
  /\ UNCHANGED <<job, choice, number, G, registered, frameCount, open, sel>>

StillSelected == sel      \* mutant: the deleted key frame stays selected
AfterDelete == 0

\* remove() takes the first key frame that equals the selected one.
DeleteKey ==
  /\ Edit /\ open /\ sel # 0
  /\ kfs' = Updated(RemoveAt(kfs, SelectInSeq(kfs, LAMBDA k : k = kfs[sel])),
                    registered, frameCount)
  /\ sel' = AfterDelete
  /\ UNCHANGED <<job, choice, number, G, registered, frameCount, open>>

\* The job is sent as it is.
Submit ==
  /\ phase = "edit" /\ phase' = "submitted"
  /\ open' = FALSE /\ sel' = 0
  /\ UNCHANGED <<edits, job, choice, number, G, registered, kfs, frameCount, keyVars>>

-----------------------------------------------------------------------------
(* The server: runGen and spawnJobs.                                       *)

\* validateParamaters fills in the default of a number it looks at.
Validate ==
  /\ phase = "submitted"
  /\ phase' = IF validateParamaters(job, choice, number) THEN "valid" ELSE "rejected"
  /\ number' = IF NumberGroup \in Walk(job, choice).validated THEN Verified(number) ELSE number
  /\ UNCHANGED <<edits, job, choice, G, registered, kfs, frameCount, open, sel, keyVars>>

AnyValue(v) == TRUE      \* mutant: values of key frames are not checked
InConstraints(v) == NumberOK(v)

\* validateAnimationParam works on copies: no default is filled in.
validateAnimationParam(keys, n) ==
  \A i \in DOMAIN keys : keys[i].frameno \in 2..n /\ InConstraints(keys[i].val)

FramesOK == frameCount # NotNumeric /\ frameCount >= 1

\* Key frames of a number that is not in the job are left out.
SpawnJobs ==
  /\ phase = "valid" /\ FramesOK /\ validateAnimationParam(kfs, frameCount)
  /\ phase' = "spawned"
  /\ buildAnimatedParams(IF NumberGroup \in job THEN kfs ELSE <<>>,
                         number, frameCount)
  /\ UNCHANGED <<edits, editor>>

RejectAnimation ==
  /\ phase = "valid" /\ ~(FramesOK /\ validateAnimationParam(kfs, frameCount))
  /\ phase' = "rejected"
  /\ UNCHANGED <<edits, editor, keyVars>>

BuildFrame == interpolateFrame /\ UNCHANGED <<phase, edits, editor>>
Spawned == AllSpawned /\ UNCHANGED <<phase, edits, editor>>

-----------------------------------------------------------------------------

Init ==
  /\ phase = "edit" /\ edits = 0
  /\ choice = [s \in DOMAIN Options |-> Default[s]]
  /\ LET st == switchContext({}, choice)
     IN  job = st.job /\ G = st.G /\ registered = st.registered
  /\ number = DefaultNumber /\ kfs = <<>> /\ frameCount = NoAnim
  /\ open = FALSE /\ sel = 0
  /\ KeysInit

Next ==
  \/ \E g \in G : \E s \in ToSet(Selectors[g]) : \E c \in ChoiceOf(s) : SelectChoice(g, s, c)
  \/ \E v \in EditValues : EditNumber(v) \/ EditKey(v)
  \/ SwitchContext \/ OpenWindow
  \/ \E n \in FrameCounts : SetFrameCount(n)
  \/ \E f \in 2..IntVal(frameCount) : SelectKF(f)
  \/ \E i \in DOMAIN kfs : ClickKF(i)
  \/ \E m \in EditMethods : EditInterp(m)
  \/ DeleteKey \/ Submit
  \/ Validate \/ SpawnJobs \/ RejectAnimation \/ BuildFrame \/ Spawned

Spec == Init /\ [][Next]_vars

-----------------------------------------------------------------------------

\* The editor and the builder keep the types of what they hold, and what is
\* displayed is in the job.
JobTypeOK ==
  /\ KeyTypes
  /\ phase \in {"edit", "submitted", "valid", "spawned", "rejected"}
  /\ edits \in 0..MaxEdits /\ open \in BOOLEAN /\ registered \in BOOLEAN
  /\ G \subseteq job /\ job \subseteq Groups
  /\ DOMAIN choice = DOMAIN Options /\ \A s \in DOMAIN Options : choice[s] \in ChoiceOf(s)
  /\ kfs \in Seq(KeyFrame) /\ sel \in 0..Len(kfs)
  /\ number \in Given /\ frameCount \in Int \cup {NotNumeric}

\* Whatever the user has chosen, every group the server will look at is in the
\* job and on display: the editor's hiding and showing, done as each group is
\* built, agrees with the queue of the server (validateParamaters), so no
\* job of the editor lacks a necessary group.
GroupsShown ==
  LET s == Walk(job, choice)
  IN  ~s.missing /\ s.validated \subseteq G

AscendingKeys == \A i \in 1..(Len(F) - 1) : F[i].frameno < F[i + 1].frameno
Tame(m) == m \in {"none", "linear", "sqroot", "cuberoot"}

\* Once an animation is queued, every frame's job will pass its own validation,
\* provided that the key frames ascend and no method overshoots: the value
\* lies between two checked ones.
FramesValid ==
  pc = "queued" /\ AscendingKeys /\ (\A i \in DOMAIN F : Tame(F[i].interp))
    => \A n \in DOMAIN jobs : validateParamaters(job, choice, jobs[n])
=============================================================================
