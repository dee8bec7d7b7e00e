---------------------------- MODULE WebhookIntake ----------------------------
(****************************************************************************)
(* The webhook surface of api/app.py with api/dedup.py, api/mapping.py and  *)
(* api/webhook_org.py.  Server processes take deliveries that senders may   *)
(* repeat at will; a process may die between the transactions of a handler. *)
(*                                                                          *)
(* A delivery is a record of what the handlers look at:                     *)
(*   provider   "linear", "github", "gitlab", "jira", "slack" or "teams"    *)
(*   key        the delivery id, or NoKey                                   *)
(*   secret     the secret it was signed with                               *)
(*   stamp      the sender's clock when it was made, or NoStamp             *)
(*   event      "issue", "comment", "pull_request" or "other"               *)
(*   labelled   whether the payload's issue carries the trigger label       *)
(*              (or, for Linear, is in the trigger state)                   *)
(*   command    the /foundry command it contains, or "none"; "/foundry      *)
(*              analyse" counts as "start"                                  *)
(*   issue      the issue it names or correlates to, or NoIssue             *)
(*   sender     the acting user                                             *)
(*                                                                          *)
(* The orchestrator is what RunLifecycle shows it to be: a start attaches   *)
(* to the issue's active run if there is one.                               *)
(****************************************************************************)
EXTENDS Integers, Sequences

CONSTANTS
  Processes,        \* server processes
  Deliveries,       \* the deliveries senders make, and may repeat
  Issues, NoIssue,
  Orgs,             \* tenants, DefaultOrg among them
  DefaultOrg, NoOrg,
  GlobalSecrets,    \* provider -> the secret of the default org, or NoSecret
  OrgSecrets,       \* tenants with a secret of their own -> that secret
  NoSecret,
  Approvers,        \* the committed approvers
  NoKey, NoStamp,
  DedupTtl,         \* webhook_dedup_ttl_seconds
  ReplayMaxAge,     \* webhook_replay_max_age_seconds, or NoGuard
  NoGuard,
  SlackMaxAge,      \* SLACK_MAX_AGE_SECONDS
  MaxClock,         \* bound on the clock
  MaxArrivals       \* bound on the deliveries that arrive

\* The default org is a tenant. from_pairs and create_app refuse secrets that
\* break the next three; Settings refuses times that break the last two.
ASSUME IntakeAssumption ==
  /\ DefaultOrg \in Orgs
  /\ DOMAIN OrgSecrets \subseteq Orgs \ {DefaultOrg}
  /\ NoSecret \notin {OrgSecrets[o] : o \in DOMAIN OrgSecrets}
  /\ \A o, p \in DOMAIN OrgSecrets : OrgSecrets[o] = OrgSecrets[p] => o = p
  /\ \A o \in DOMAIN OrgSecrets, v \in DOMAIN GlobalSecrets :
       GlobalSecrets[v] # OrgSecrets[o]
  /\ {DedupTtl, MaxClock, MaxArrivals} \subseteq Nat
  /\ ReplayMaxAge # NoGuard => ReplayMaxAge <= DedupTtl

VARIABLES
  clock,
  rows,        \* dedup rows: <<provider, key>> -> [org, at]
  runOf,       \* org -> issue -> "none", "active" or "ended"
  process,     \* what each process is at
  arrivals,    \* deliveries that arrived, repeats counted (bounded)
  handled,     \* delivery -> when it was recorded as new (history)
  touched      \* delivery -> the orgs whose runs it touched (history)

intakeVars == <<clock, rows, runOf, process, arrivals, handled, touched>>

Idle == [pc |-> "idle"]
Busy == [pc : {"route", "start"}, delivery : Deliveries, org : Orgs]

IntakeTypeOK ==
  /\ clock \in 0..MaxClock
  /\ DOMAIN rows \subseteq {<<d.provider, d.key>> : d \in Deliveries}
  /\ \A k \in DOMAIN rows : rows[k] \in [org : Orgs, at : 0..MaxClock]
  /\ runOf \in [Orgs -> [Issues -> {"none", "active", "ended"}]]
  /\ process \in [Processes -> {Idle} \cup Busy]
  /\ arrivals \in 0..MaxArrivals
  /\ handled \in [Deliveries -> Seq(0..MaxClock)]
  /\ touched \in [Deliveries -> SUBSET Orgs]

InitIntake ==
  /\ clock = 0
  /\ rows = <<>>
  /\ runOf = [o \in Orgs |-> [i \in Issues |-> "none"]]
  /\ process = [p \in Processes |-> Idle]
  /\ arrivals = 0
  /\ handled = [d \in Deliveries |-> <<>>]
  /\ touched = [d \in Deliveries |-> {}]

----------------------------------------------------------------------------
(* Whose delivery is it, and is it fresh?                                   *)

\* resolve_hmac, resolve_token.
TenantOf(secret) ==
  LET matching == {o \in DOMAIN OrgSecrets : OrgSecrets[o] = secret}
  IN  IF matching = {} THEN NoOrg ELSE CHOOSE o \in matching : TRUE

\* org_for_hmac, org_for_token; slack_webhook and teams_webhook know the
\* global secret only.
OrgOf(d) ==
  IF d.secret = NoSecret THEN NoOrg
  ELSE IF d.secret = GlobalSecrets[d.provider] THEN DefaultOrg
  ELSE IF d.provider \in {"slack", "teams"} THEN NoOrg
  ELSE TenantOf(d.secret)

Within(age, d) ==
  /\ d.stamp # NoStamp
  /\ clock - d.stamp \in -age..age

Deduplicated(d) == d.provider \in {"linear", "github"} /\ d.key # NoKey

Stay(p) == process' = [process EXCEPT ![p] = Idle]
Go(p, pc) == process' = [process EXCEPT ![p].pc = pc]

----------------------------------------------------------------------------
(* What a delivery asks for.                                                *)

\* parse_command and the decision branch of each handler.
Decides(d) ==
  /\ d.command \in {"approve", "reject", "stop"}
  /\ d.event # "pull_request"
  /\ d.provider # "gitlab"

\* _is_trigger for Linear; _handle_github_issue_event, _handle_jira_event.
Triggers(d) ==
  /\ d.provider \in {"linear", "github", "jira"}
  /\ \/ d.command = "start"
     \/ d.labelled /\ (d.provider = "linear" \/ d.event = "issue")
  /\ d.issue # NoIssue

\* _apply_decision, up to its call of the driver.
DecisionTaken(d, org) ==
  /\ d.issue # NoIssue
  /\ d.sender \in Approvers
  /\ runOf[org][d.issue] = "active"

\* correlate_pr finds a run of this org.
Correlates(d, org) == d.issue # NoIssue /\ runOf[org][d.issue] # "none"

----------------------------------------------------------------------------
(* The handler.                                                             *)

\* Slip: the TTL is compared the wrong way at its boundary.
KeptTooBriefly(org) ==
  [k \in {l \in DOMAIN rows : rows[l].org # org \/ clock - rows[l].at < DedupTtl}
     |-> rows[k]]

\* _prune: the rows of the org in context that are past the TTL.
Kept(org) ==
  [k \in {l \in DOMAIN rows : rows[l].org # org \/ clock - rows[l].at <= DedupTtl}
     |-> rows[k]]

\* seen answers FALSE: prune and insert, in one transaction.  A missing id is
\* always new.
Recorded(d, org) ==
  LET key == <<d.provider, d.key>>
      row == [org |-> org, at |-> clock]
  IN  IF Deduplicated(d)
      THEN /\ key \notin DOMAIN Kept(org)
           /\ rows' = [k \in DOMAIN Kept(org) \cup {key} |->
                         IF k = key THEN row ELSE Kept(org)[k]]
           /\ handled' = [handled EXCEPT ![d] = Append(@, clock)]
      ELSE UNCHANGED <<rows, handled>>

\* A delivery arrives at a free process; one that is authenticated, fresh and
\* new goes on to be routed.  The others are answered 401, 403 or "duplicate"
\* (a duplicate's insert fails and takes the prune back with it).
Arrive(p, d, fresh) ==
  /\ process[p] = Idle
  /\ arrivals < MaxArrivals
  /\ arrivals' = arrivals + 1
  /\ \/ /\ OrgOf(d) # NoOrg /\ fresh
        /\ Recorded(d, OrgOf(d))
        /\ process' = [process EXCEPT ![p] =
             [pc |-> "route", delivery |-> d, org |-> OrgOf(d)]]
     \/ /\ \/ OrgOf(d) = NoOrg \/ ~fresh
           \/ Deduplicated(d) /\ <<d.provider, d.key>> \in DOMAIN Kept(OrgOf(d))
        /\ UNCHANGED <<rows, handled, process>>
  /\ UNCHANGED <<clock, runOf, touched>>

LinearWebhook(p, d) ==
  /\ d.provider = "linear"
  /\ Arrive(p, d, ReplayMaxAge = NoGuard \/ Within(ReplayMaxAge, d))

GithubWebhook(p, d) == d.provider = "github" /\ Arrive(p, d, TRUE)
GitlabWebhook(p, d) == d.provider = "gitlab" /\ Arrive(p, d, TRUE)
JiraWebhook(p, d) == d.provider = "jira" /\ Arrive(p, d, TRUE)
SlackWebhook(p, d) == d.provider = "slack" /\ Arrive(p, d, Within(SlackMaxAge, d))
TeamsWebhook(p, d) == d.provider = "teams" /\ Arrive(p, d, TRUE)

AnyWebhook(p, d) ==
  \/ LinearWebhook(p, d) \/ GithubWebhook(p, d) \/ GitlabWebhook(p, d)
  \/ JiraWebhook(p, d) \/ SlackWebhook(p, d) \/ TeamsWebhook(p, d)

Touch(d, org) == touched' = [touched EXCEPT ![d] = @ \cup {org}]

\* A decision goes to the driver, which may end the run (reject, stop).
RouteDecision(p) ==
  LET d == process[p].delivery  org == process[p].org
  IN  /\ process[p].pc = "route"
      /\ Decides(d)
      /\ IF DecisionTaken(d, org)
         THEN /\ Touch(d, org)
              /\ runOf' \in {runOf} \cup
                   (IF d.command = "approve" THEN {}
                    ELSE {[runOf EXCEPT ![org][d.issue] = "ended"]})
         ELSE UNCHANGED <<runOf, touched>>
      /\ Stay(p)
      /\ UNCHANGED <<clock, rows, arrivals, handled>>

\* A trigger looks for an active run of its issue; if there is none it goes
\* on to start one.
RouteTrigger(p) ==
  LET d == process[p].delivery
  IN  /\ process[p].pc = "route"
      /\ ~Decides(d)
      /\ Triggers(d)
      /\ IF runOf[process[p].org][d.issue] = "active" THEN Stay(p) ELSE Go(p, "start")
      /\ UNCHANGED <<clock, rows, runOf, arrivals, handled, touched>>

\* driver.start: intake_and_plan attaches to the active run or inserts one.
StartRun(p) ==
  LET d == process[p].delivery  org == process[p].org
  IN  /\ process[p].pc = "start"
      /\ runOf' = [runOf EXCEPT ![org][d.issue] = "active"]
      /\ Touch(d, org)
      /\ Stay(p)
      /\ UNCHANGED <<clock, rows, arrivals, handled>>

\* _observe_pr: a pull request event of a known run is recorded, which may end
\* the run; the rest is acknowledged.
RouteRest(p) ==
  LET d == process[p].delivery  org == process[p].org
  IN  /\ process[p].pc = "route"
      /\ ~Decides(d) /\ ~Triggers(d)
      /\ IF d.event = "pull_request" /\ Correlates(d, org)
         THEN /\ Touch(d, org)
              /\ runOf' \in {runOf} \cup
                   (IF runOf[org][d.issue] = "active"
                    THEN {[runOf EXCEPT ![org][d.issue] = "ended"]} ELSE {})
         ELSE UNCHANGED <<runOf, touched>>
      /\ Stay(p)
      /\ UNCHANGED <<clock, rows, arrivals, handled>>

\* The process dies; what it committed stays.
Die(p) ==
  /\ process[p] # Idle
  /\ Stay(p)
  /\ UNCHANGED <<clock, rows, runOf, arrivals, handled, touched>>

Pass ==
  /\ clock < MaxClock
  /\ clock' = clock + 1
  /\ UNCHANGED <<rows, runOf, process, arrivals, handled, touched>>

HandlerStep(p) ==
  RouteDecision(p) \/ RouteTrigger(p) \/ StartRun(p) \/ RouteRest(p)

NextIntake ==
  \/ \E p \in Processes :
       \/ \E d \in Deliveries : AnyWebhook(p, d)
       \/ HandlerStep(p)
       \/ Die(p)
  \/ Pass

----------------------------------------------------------------------------
\* A delivery that carries an id is handled once per TTL, whatever repeats it
\* and whichever process dies, and touches no tenant's runs but those of the
\* org whose secret signed it (dedup.py:1-20, webhook_org.py:9-19).
HandledOncePerTtl ==
  \A d \in Deliveries :
    /\ Deduplicated(d) =>
         \A i, j \in DOMAIN handled[d] :
           i < j => handled[d][j] - handled[d][i] > DedupTtl
    /\ touched[d] \subseteq {OrgOf(d)}
=============================================================================
