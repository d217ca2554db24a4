------------------------------- MODULE Schema -------------------------------
(***************************************************************************)
(* The schema of a job, and what the server makes of a job by it            *)
(* (SchemaManager::validateParamaters): a queue of groups that starts with *)
(* the unconditional ones, to which the choices of the groups validated so *)
(* far add others, or from which they keep others out.                     *)
(*                                                                         *)
(* A group is its selectors; of the other fields one integer, which can be *)
(* animated, is looked at.  job has the groups that are in the job, choice *)
(* what each selector is set to.                                           *)
(***************************************************************************)
EXTENDS KeyFrames, SequencesExt

CONSTANTS
  Groups,         \* ids of the groups
  ActiveGroups,   \* the unconditional ones, in the order of their ids
  Selectors,      \* per group the ids of its selectors, in order
  Options,        \* per selector its choices: [hide, show], wildcards expanded
  Default,        \* the choice of a selector that is not set
  NumberGroup,    \* the group of the integer field ...
  MinNumber, MaxNumber, DefaultNumber,    \* ... and its constraints
  MaxPops         \* bound: groups taken from the queue

ChoiceOf(s) == DOMAIN Options[s]

ASSUME SchemaAssumption ==
  /\ Selectors \in [Groups -> Seq(DOMAIN Options)]
  /\ \A s \in DOMAIN Options :
       /\ Default[s] \in ChoiceOf(s)
       /\ \A c \in ChoiceOf(s) :
            Options[s][c].hide \subseteq Groups /\ Options[s][c].show \in Seq(Groups)
  /\ ActiveGroups \in Seq(Groups) /\ NumberGroup \in Groups
  /\ {MinNumber, MaxNumber} \subseteq Int /\ DefaultNumber \in MinNumber..MaxNumber
  /\ MaxPops \in Nat

\* The integer field: anything but a number is replaced by the default.
\* Garbage is INT_MIN, or little more: it violates every minimum.
NumberOK(v) == v = NotNumeric \/ (v # Garbage /\ v \in MinNumber..MaxNumber)
Verified(v) == IF v = NotNumeric THEN DefaultNumber ELSE v

-----------------------------------------------------------------------------
\* A loop over seq: each x in turn makes f[x][st] of the state st.  With functions
\* in place of the operators of a fold, it can be proved about.
Each(f, seq, st) ==
  LET after[n \in 0..Len(seq)] == IF n = 0 THEN st ELSE f[seq[n]][after[n - 1]]
  IN  after[Len(seq)]

Walks == [queue : Seq(Groups), parsed : SUBSET Groups,
          validated : SUBSET Groups, missing : BOOLEAN]

\* insertMatchesFromGroupList: what is shown is queued, what is hidden and not
\* shown counts as parsed.
InsertMatches(s, option) ==
  [s EXCEPT !.queue = @ \o option.show,
            !.parsed = @ \cup (option.hide \ ToSet(option.show))]

\* One round of the loop.
PopGroup(job, choice, s) ==
  LET id == Head(s.queue)
      rest == [s EXCEPT !.queue = Tail(@)]
      seen == [rest EXCEPT !.parsed = @ \cup {id}, !.validated = @ \cup {id}]
      insert == [sel \in DOMAIN Options |->
                  [t \in Walks |-> InsertMatches(t, Options[sel][choice[sel]])]]
  IN  CASE id \in s.parsed -> rest
        [] id \notin s.parsed /\ id \notin job ->
             [rest EXCEPT !.queue = <<>>, !.missing = TRUE]
        [] OTHER -> Each(insert, Selectors[id], seen)

Queued(queue) == [queue |-> queue, parsed |-> {}, validated |-> {}, missing |-> FALSE]

\* The loop, until the queue is empty.
Walk(job, choice) ==
  LET round == [s \in Walks |-> IF s.queue = <<>> THEN s ELSE PopGroup(job, choice, s)]
  IN  Each([n \in 1..MaxPops |-> round], [n \in 1..MaxPops |-> n], Queued(ActiveGroups))

\* No group is missing, and the integer is right if its group is looked at.
validateParamaters(job, choice, number) ==
  LET s == Walk(job, choice)
  IN  ~s.missing /\ (NumberGroup \in s.validated => NumberOK(number))
=============================================================================
