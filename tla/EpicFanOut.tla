------------------------------ MODULE EpicFanOut ------------------------------
(****************************************************************************)
(* The splitting of an epic ticket into runs: decompose_epic and            *)
(* LlmDecomposer.decompose (engines/), intake_epic and the epic queries of  *)
(* orchestrator.py, and compute_epic_rollup (epics.py).                     *)
(*                                                                          *)
(* A ticket is a record of the repositories its Repositories section lists, *)
(* those it is associated with, those a model proposes, and the words that  *)
(* ground a proposal; sequences, because the order is kept.                 *)
(****************************************************************************)
EXTENDS RunStatus, Integers, Sequences, FiniteSets

CONSTANTS
  Starters,       \* threads that start a run for a ticket
  Epics,          \* ticket name -> ticket
  Slug,           \* repository -> the token its child's issue id is made with
  MaxRuns,        \* bound on runs
  NoParent

\* A ticket names repositories, and a run's id is a number.
ASSUME EpicAssumption ==
  /\ MaxRuns \in Nat
  /\ NoParent \notin Nat
  /\ \A epic \in DOMAIN Epics :
       /\ Epics[epic].section \in Seq(DOMAIN Slug)
       /\ Epics[epic].known \in Seq(DOMAIN Slug)
       /\ Epics[epic].proposed \in Seq(DOMAIN Slug)

VARIABLES
  family,      \* the runs: a sequence of [issue, parent, status]
  starter      \* what each starter is at

epicVars == <<family, starter>>

Waiting == [pc |-> "idle"]

InitEpics ==
  /\ family = <<>>
  /\ starter = [s \in Starters |-> Waiting]

----------------------------------------------------------------------------
(* Decomposition.                                                           *)

\* _dedupe_first, of the names that are wanted.
DedupeFirst(names, wanted) ==
  LET first == {i \in DOMAIN names :
                  names[i] \in wanted /\ \A j \in 1..i - 1 : names[j] # names[i]}
      nth(k) == CHOOSE i \in first : Cardinality({j \in first : j <= i}) = k
  IN  [k \in 1..Cardinality(first) |-> names[nth(k)]]

\* decompose_epic: the section if it lists two repositories, else the
\* associated repositories if they are two.  An empty result is not an epic.
DecomposeEpic(ticket) ==
  LET listed == DedupeFirst(ticket.section, DOMAIN Slug)
      known == DedupeFirst(ticket.known, DOMAIN Slug)
  IN  IF Len(listed) >= 2 THEN listed
      ELSE IF Len(known) >= 2 THEN known
      ELSE <<>>

\* LlmDecomposer.decompose: the model is asked only when the floor declines,
\* and only grounded names count.
Decompose(ticket) ==
  LET floor == DecomposeEpic(ticket)
      grounded == DedupeFirst(ticket.proposed, ticket.words)
  IN  IF floor # <<>> THEN floor
      ELSE IF Len(grounded) >= 2 THEN grounded ELSE <<>>

\* _child_ticket: "<epic>::<slug>".
ChildIssue(epic, repo) == <<epic, Slug[repo]>>
RootIssue(epic) == <<epic>>

----------------------------------------------------------------------------
(* intake_and_plan, of one ticket: a look for an active run, the engines,   *)
(* and an insert that attaches to the run that won.                         *)

ActiveRuns(issue) ==
  {r \in DOMAIN family : family[r].issue = issue /\ family[r].status \in ActiveStatuses}

\* The ticket a starter is planning: the epic's, then its children's.
IssueOf(job) ==
  IF job.next = 0 THEN RootIssue(job.epic)
  ELSE ChildIssue(job.epic, job.repos[job.next])

Begin(s, epic) ==
  /\ starter[s].pc \in {"idle", "done"}
  /\ starter' = [starter EXCEPT ![s] =
       [pc |-> "check", epic |-> epic, repos |-> Decompose(Epics[epic]),
        next |-> 0, parent |-> NoParent, children |-> <<>>]]
  /\ UNCHANGED family

\* find_active_run_id_for_issue and _validate_epic_parent: an active run, a
\* missing parent or a parent that is a child itself raises, and the epic
\* stays as far as it got.
Check(s) ==
  LET job == starter[s]
      orphan == job.next > 0 /\
                  (job.parent \notin DOMAIN family \/ family[job.parent].parent # NoParent)
  IN  /\ job.pc = "check"
      /\ starter' = [starter EXCEPT ![s] =
           IF ActiveRuns(IssueOf(job)) # {} \/ orphan THEN Waiting
           ELSE [job EXCEPT !.pc = "insert"]]
      /\ UNCHANGED family

\* The run of this ticket is id: go on to the next child.
Planned(job, id) ==
  LET now == IF job.next = 0 THEN [job EXCEPT !.parent = id]
             ELSE [job EXCEPT !.children = Append(@, id)]
  IN  IF job.next = Len(job.repos)
      THEN [now EXCEPT !.pc = "done"]
      ELSE [now EXCEPT !.pc = "check", !.next = @ + 1]

\* Slip: every run is inserted as a run of its own.
InsertUnlinked(s) ==
  LET job == starter[s]
      row == [issue |-> IssueOf(job), status |-> "waiting_approval", parent |-> NoParent]
  IN  /\ job.pc = "insert"
      /\ ActiveRuns(IssueOf(job)) = {}
      /\ Len(family) < MaxRuns
      /\ family' = Append(family, row)
      /\ starter' = [starter EXCEPT ![s] = Planned(job, Len(family) + 1)]

InsertRun(s) ==
  LET job == starter[s]
      row == [issue |-> IssueOf(job), status |-> "waiting_approval",
              parent |-> IF job.next = 0 THEN NoParent ELSE job.parent]
  IN  /\ job.pc = "insert"
      /\ ActiveRuns(IssueOf(job)) = {}
      /\ Len(family) < MaxRuns
      /\ family' = Append(family, row)
      /\ starter' = [starter EXCEPT ![s] = Planned(job, Len(family) + 1)]

\* The insert loses the race and attaches to the run that won it.
Attach(s) ==
  LET job == starter[s]
  IN  /\ job.pc = "insert"
      /\ \E id \in ActiveRuns(IssueOf(job)) :
           starter' = [starter EXCEPT ![s] = Planned(job, id)]
      /\ UNCHANGED family

\* An engine raises, or the process dies.
GiveUp(s) ==
  /\ starter[s].pc \in {"check", "insert"}
  /\ starter' = [starter EXCEPT ![s] = Waiting]
  /\ UNCHANGED family

\* A run ends, on its own: nothing ends a parent or a child with it.
EndRun(r) ==
  /\ family[r].status \in ActiveStatuses
  /\ \E status \in {"complete", "blocked"} :
       family' = [family EXCEPT ![r].status = status]
  /\ UNCHANGED starter

NextEpics ==
  \/ \E s \in Starters :
       \/ \E epic \in DOMAIN Epics : Begin(s, epic)
       \/ Check(s) \/ InsertRun(s) \/ Attach(s) \/ GiveUp(s)
  \/ \E r \in DOMAIN family : EndRun(r)

----------------------------------------------------------------------------
(* The epic queries.                                                        *)

ChildRuns(id) == {r \in DOMAIN family : family[r].parent = id}

ListEpics == {r \in DOMAIN family : ChildRuns(r) # {}}

EpicRootId(id) == IF family[id].parent # NoParent THEN family[id].parent ELSE id

\* _bucket.
Bucket(status) ==
  IF status \in ActiveStatuses THEN "active"
  ELSE IF status = "complete" THEN "complete"
  ELSE "unsuccessful"

Counted(runs, bucket) == Cardinality({r \in runs : Bucket(family[r].status) = bucket})

\* _rollup_status, of a set of runs.
RollupStatus(runs) ==
  IF runs = {} THEN "empty"
  ELSE IF Counted(runs, "active") > 0 THEN "in_progress"
  ELSE IF Counted(runs, "complete") = Cardinality(runs) THEN "complete"
  ELSE IF Counted(runs, "complete") = 0 THEN "failed"
  ELSE "partial"

EpicRollup(id) == RollupStatus(ChildRuns(id))

----------------------------------------------------------------------------
EpicIssues == {RootIssue(e) : e \in DOMAIN Epics}
             \cup {<<e, slug>> : e \in DOMAIN Epics, slug \in {Slug[r] : r \in DOMAIN Slug}}

EpicTypeOK ==
  /\ Len(family) <= MaxRuns
  /\ \A r \in DOMAIN family :
       /\ family[r].issue \in EpicIssues
       /\ family[r].parent \in {NoParent} \cup DOMAIN family
       /\ family[r].status \in RunStatuses
  /\ \A s \in Starters : starter[s].pc \in {"idle", "check", "insert", "done"}

\* A child belongs to a root run of its own epic, and to one epic only.
LineageHolds ==
  /\ \A r \in DOMAIN family :
       family[r].parent # NoParent =>
         /\ family[family[r].parent].parent = NoParent
         /\ family[family[r].parent].issue = RootIssue(family[r].issue[1])
         /\ Len(family[r].issue) = 2
         /\ EpicRootId(r) \in ListEpics
  /\ \A e, f \in ListEpics : e # f => ChildRuns(e) \cap ChildRuns(f) = {}

\* A fan-out that returned has one run for each repository of its ticket, of
\* that repository and under a root of that epic: the parent it returned, or
\* one that an earlier or a racing fan-out had.
FanOutsAreWhole ==
  \A s \in Starters :
    LET job == starter[s]
    IN  job.pc = "done" =>
          /\ family[job.parent].issue = RootIssue(job.epic)
          /\ Len(job.children) = Len(job.repos)
          /\ \A i \in DOMAIN job.children :
               LET child == family[job.children[i]]
               IN  /\ child.issue = ChildIssue(job.epic, job.repos[i])
                   /\ child.parent # NoParent
                   /\ family[child.parent].issue = RootIssue(job.epic)

\* An epic is decided when none of its children is active; it is complete if
\* all of them are, and failed if none is.
RollupsAddUp ==
  \A e \in DOMAIN family :
    LET done == {family[r].status : r \in ChildRuns(e)}
    IN  /\ EpicRollup(e) = "in_progress" <=> done \cap ActiveStatuses # {}
        /\ EpicRollup(e) = "complete" <=> done = {"complete"}
        /\ EpicRollup(e) = "failed" <=> done # {} /\ done \cap (ActiveStatuses \cup {"complete"}) = {}

\* "No gate is weakened: this only opens more normal runs" (intake_epic): one
\* active run per issue, children under one root, whole fan-outs, and a
\* roll-up that says what the children's statuses say.
EpicsHold ==
  /\ \A q, r \in DOMAIN family :
       q # r /\ family[q].issue = family[r].issue =>
         {family[q].status, family[r].status} \cap TerminalStatuses # {}
  /\ LineageHolds /\ FanOutsAreWhole /\ RollupsAddUp
=============================================================================
