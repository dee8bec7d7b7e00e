------------------------------ MODULE MCServices ------------------------------
(****************************************************************************)
(* Small instances of the components around the run lifecycle, each checked *)
(* by itself: focus says which one moves, the others stay as they begin, so *)
(* their states add up instead of multiplying.                              *)
(****************************************************************************)
EXTENDS RateLimiter, WebhookIntake, AuditChain, CatalogSync, ArtifactKeys,
        EpicFanOut, ChangeFreeze, DeliveryMetrics, HistoryRouting, PriorsCache,
        IntakeEngines, ScimDirectory, SsoSession, JwksCache, UpstreamCalls, TLC

CONSTANT Focuses    \* the components that are checked

\* There is a component in focus, and it is one of these.
Components ==
  {"limiter", "intake", "audit", "catalog", "keys", "epics", "freeze", "memory",
   "history", "priors", "engines", "directory", "sso", "jwks", "upstream"}

ASSUME FocusAssumption == Focuses \subseteq Components

VARIABLE focus

Still(component, vars) == focus # component => UNCHANGED vars

OthersStay ==
  /\ UNCHANGED focus
  /\ Still("limiter", limiterVars)
  /\ Still("intake", intakeVars)
  /\ Still("audit", auditVars)
  /\ Still("catalog", catalogVars)
  /\ Still("keys", keysVars)
  /\ Still("epics", epicVars)
  /\ Still("freeze", freezeVars)
  /\ Still("memory", memoryVars)
  /\ Still("history", historyVars)
  /\ Still("priors", priorsVars)
  /\ Still("engines", engineVars)
  /\ Still("directory", directoryVars)
  /\ Still("sso", ssoVars)
  /\ Still("jwks", jwksVars)
  /\ Still("upstream", upstreamVars)

InitServices ==
  /\ focus \in Focuses
  /\ InitLimiter /\ InitIntake /\ InitAudit /\ InitCatalog /\ InitKeys
  /\ InitEpics /\ InitFreeze /\ InitMemory /\ InitHistory /\ InitPriors /\ InitEngines
  /\ InitDirectory /\ InitSso /\ InitJwks /\ InitUpstream
  /\ focus # "audit" => trail = {}
  /\ focus # "engines" => ticket = CHOOSE t \in FirstTickets : TRUE

NextServices ==
  \/ focus = "limiter" /\ NextLimiter /\ OthersStay
  \/ focus = "intake" /\ NextIntake /\ OthersStay
  \/ focus = "audit" /\ NextAudit /\ OthersStay
  \/ focus = "catalog" /\ NextCatalog /\ OthersStay
  \/ focus = "keys" /\ NextKeys /\ OthersStay
  \/ focus = "epics" /\ NextEpics /\ OthersStay
  \/ focus = "freeze" /\ NextFreeze /\ OthersStay
  \/ focus = "memory" /\ NextMemory /\ OthersStay
  \/ focus = "history" /\ NextHistory /\ OthersStay
  \/ focus = "priors" /\ NextPriors /\ OthersStay
  \/ focus = "engines" /\ NextEngines /\ OthersStay
  \/ focus = "directory" /\ NextDirectory /\ OthersStay
  \/ focus = "sso" /\ NextSso /\ OthersStay
  \/ focus = "jwks" /\ NextJwks /\ OthersStay
  \/ focus = "upstream" /\ NextUpstream /\ OthersStay

servicesVars ==
  <<focus, limiterVars, intakeVars, auditVars, catalogVars, keysVars, epicVars,
    freezeVars, memoryVars, historyVars, priorsVars, engineVars, directoryVars, ssoVars,
    jwksVars, upstreamVars>>

ServicesSpec == InitServices /\ [][NextServices]_servicesVars

----------------------------------------------------------------------------
(* The properties of the components, each looked at where it is in focus.   *)

\* Every component keeps its types.
ServicesTypeOK ==
  CASE focus = "limiter" -> LimiterTypeOK
    [] focus = "intake" -> IntakeTypeOK
    [] focus = "audit" -> AuditTypeOK
    [] focus = "catalog" -> CatalogTypeOK
    [] focus = "keys" -> KeysTypeOK
    [] focus = "epics" -> EpicTypeOK
    [] focus = "freeze" -> FreezeTypeOK
    [] focus = "memory" -> MemoryTypeOK
    [] focus = "history" -> HistoryTypeOK
    [] focus = "priors" -> PriorsTypeOK
    [] focus = "engines" -> EnginesTypeOK
    [] focus = "directory" -> DirectoryTypeOK
    [] focus = "sso" -> SsoTypeOK
    [] focus = "jwks" -> JwksTypeOK
    [] focus = "upstream" -> UpstreamTypeOK

\* A client gets at most two windows' worth in any window's length, and a
\* refused one gets in again once it waited as told (ratelimit.py).
LimiterHolds == focus = "limiter" => LimiterKeepsItsWord

\* A delivery with an id is handled once per TTL and touches its own tenant's
\* runs only (dedup.py, webhook_org.py).
IntakeHolds == focus = "intake" => HandledOncePerTtl

\* The audit trail is gapless, chained and tamper-evident however sessions
\* overlap (db/base.py, db/chain.py).
AuditHolds == focus = "audit" => AuditTrailHolds

\* A sweep that ends leaves the catalogue as the organisation was, within its
\* call budget, and touches no other organisation's rows (catalog/sync.py).
CatalogHolds == focus = "catalog" => SweepsConverge

\* A key that a finished pass retired is needed by no stored payload
\* (db/maintenance.py).
KeyringHolds == focus = "keys" => RetiredKeysAreUnused

\* An issue has one active run, a fan-out that returned has a child for each
\* repository, and the roll-up says what the children's statuses say
\* (orchestrator.py).
EpicsStayWhole == focus = "epics" => EpicsHold

\* The verdict of the freeze windows is the calendar's, also over midnight and
\* when clocks change (policy/freeze.py).
FreezesHold == focus = "freeze" => FreezeHolds

\* The outcome row of a run tells of the run what its trail tells
\* (memory/outcomes.py).
MemoryHolds == focus = "memory" => OutcomeRowsHold

\* The metrics add up, however they are cut (memory/metrics.py).
ViewsHold == focus = "memory" => ViewsAgree

\* A run's waiting clock shows since when it waits (memory/metrics.py).
ClocksHold == focus = "memory" => ClocksAreFaithful

\* The priors behind their shared cache are recent (memory/priors.py).
PriorsHold == focus = "priors" => PriorsAreCurrent

\* History routes by what mostly merged, adds up however it is cut, and rewards
\* what worked (memory/priors.py, memory/scorecards.py).
HistoryHolds ==
  /\ [](focus = "history" => PriorsAreSound /\ ScorecardsAddUp)
  /\ [][focus = "history" => MergesNeverDemote]_historyVars

\* The engines only ever add risk to the deterministic floor, and offer for
\* approval only what can be built (engines/, catalog/enrichment.py).
EnginesHold ==
  /\ [](focus = "engines" =>
          ModelOnlyAdds /\ ApprovableRunsAreBuildable /\ StaleRowsDecideNothing)
  /\ [][focus = "engines" => OnlyEscalates /\ AgeingNeverConvinces]_engineVars

\* Who may do what: provisioning keeps its tables and promises, browser
\* sessions their limits, and the cached signing keys follow the provider's
\* (api/scim.py, api/oidc_login.py, api/oidc.py).
AccessHolds ==
  /\ [](/\ focus = "directory" => DirectoryIntact
        /\ focus = "sso" => SessionsAreCapped /\ IdleSessionsDie
        /\ focus = "jwks" => WithdrawnKeysFade /\ RotationsAreSeen)
  /\ [][focus = "directory" =>
          PutsAreExact /\ RetractionsNarrow /\ DeactivationStands]_directoryVars

\* Retries repeat no write, the issue keeps its labels and listings are whole
\* (connectors/transport.py, github_issues.py, github.py).
UpstreamHolds == focus = "upstream" => UpstreamKeepsPromises

----------------------------------------------------------------------------
(* The instances.                                                           *)

CONSTANTS
  ana, bob,                                   \* people
  acme,                                       \* a tenant beside the default org
  i1,                                         \* an issue
  s0, s1,                                     \* webhook secrets
  k1, k2, k3, k4,                             \* delivery ids, keys
  api, web,                                   \* repositories
  claude, cursor,                             \* agent providers
  crash, login, repro, gdpr,                  \* words of tickets
  u1, u2, g1, leads, engineer                 \* the provisioned directory

\* Webhooks: the tenant signs with s1, the default org with s0.
Delivery(provider, key, secret, event, command) ==
  [provider |-> provider, key |-> key, secret |-> secret,
   stamp |-> IF provider \in {"linear", "slack"} THEN 1 ELSE NoStamp,
   event |-> event, labelled |-> event = "issue", command |-> command,
   issue |-> i1, sender |-> ana]

IntakeDeliveries ==
  {Delivery("linear", k1, s1, "issue", "none"),
   Delivery("github", k2, s1, "issue", "none"),
   Delivery("github", k3, s1, "comment", "stop"),
   Delivery("github", k4, s1, "pull_request", "none"),
   Delivery("jira", NoKey, s1, "comment", "start"),
   Delivery("gitlab", NoKey, s1, "pull_request", "none"),
   Delivery("slack", NoKey, s0, "comment", "approve"),
   Delivery("teams", NoKey, s1, "comment", "approve")}

IntakeGlobalSecrets ==
  [v \in {"linear", "github", "jira", "gitlab", "slack", "teams"} |-> s0]

IntakeOrgSecrets == [o \in {acme} |-> s1]

\* Catalog: two pages of one repository each.
CatalogListing == <<api, web>>

\* A fetch gets everything, or misses the README and a file, or the tree.
CatalogHauls == {Parts, {"tree"}, {"about"}}

\* Epics: a section that repeats a repository, and one that is proposed.
EpicTickets ==
  [epic |-> [section |-> <<web, api, web>>, known |-> <<>>,
             proposed |-> <<>>, words |-> {}],
   guess |-> [section |-> <<api>>, known |-> <<api>>,
              proposed |-> <<api, web, cursor>>, words |-> {api, web}]]

EpicSlugs == [r \in {api, web, cursor} |-> r]

\* Change freezes: days of four minutes; one zone puts its clock forward, one
\* puts it back.
FreezeZones ==
  [utc |-> [m \in 0..LastMinute |-> 0],
   spring |-> [m \in 0..LastMinute |-> IF m < 9 THEN -1 ELSE 0],
   autumn |-> [m \in 0..LastMinute |-> IF m < 21 THEN 2 ELSE 1]]

FreezeOffered ==
  [days : {{6}, {0, 1}}, start : 0..3, end : {0, 2},
   zone : {"utc", "spring", "autumn"}] \cup {[from |-> 3, to |-> 9]}

\* Delivery memory: a ticket that dispatches and one the policy denies.
MemoryTicketsOffered ==
  [clear |-> [lands |-> "ready", workType |-> "bug", confidence |-> 85,
              repo |-> api, prefix |-> "ENG"],
   denied |-> [lands |-> "policy_denied", workType |-> "feature", confidence |-> 40,
               repo |-> web, prefix |-> "ENG"]]

Report(state, diff, failing) ==
  [state |-> state, diff |-> diff, ciFailing |-> failing, changesRequested |-> FALSE]

MemoryReports ==
  {Report("open", "none", TRUE), Report("open", "escalates", FALSE),
   Report("merged", "none", FALSE)}

\* History: rows that favour one provider for bugs and the other for features.
Outcome(type, repo, provider, merged, jobs, cost) ==
  [prefix |-> "ENG", workType |-> type, repo |-> repo, provider |-> provider,
   merged |-> merged, jobs |-> jobs, cost |-> cost]

HistoryOffered ==
  {Outcome("bug", api, claude, TRUE, 1, 2),
   Outcome("bug", api, claude, FALSE, 2, Unreported),
   Outcome("bug", api, cursor, TRUE, 1, 3),
   Outcome("feature", web, cursor, TRUE, 2, Unreported),
   Outcome("feature", api, cursor, FALSE, 2, Unreported)}

HistoryAgents == <<claude, cursor>>

\* Engines: words that name an area, a type, a repository, a policy category.
EngineFirstTickets ==
  {[text |-> {}, comments |-> {}, criteria |-> FALSE, length |-> 1,
    known |-> {}, linked |-> {}],
   [text |-> {api}, comments |-> {}, criteria |-> TRUE, length |-> 3,
    known |-> {api}, linked |-> {}]}

EngineAreaWords == [a \in SensitiveAreas |-> IF a = "auth" THEN {login} ELSE {}]
EngineTypeWords == << <<"bug", {crash}>>, <<"question", {repro}>> >>
EngineExtraWords ==
  [a \in SensitiveAreas |-> IF a = "payments" THEN {api}
                            ELSE IF a = "database_migration" THEN {gdpr} ELSE {}]
EngineCategoryWords == [k \in {"keys"} |-> {gdpr}]
EngineCategoryRoles == [k \in {"keys"} |-> {"security"}]
EngineWords == (api :> {api, login}) @@ (web :> {})
EngineRoles == (api :> {"qa"}) @@ (web :> {})
EnginePriors == (api :> 0) @@ (web :> 66)
EngineCatalogWords == (api :> {api, crash}) @@ (web :> {crash, login, gdpr})
EngineAnalyses ==
  {Unavailable} \cup
  [workType : {"feature"}, readiness : {"ready"}, criteria : BOOLEAN]
EngineRisks ==
  {Unavailable, [overall |-> "low", areas |-> {}],
   [overall |-> "low", areas |-> {"infrastructure"}], [overall |-> "high", areas |-> {}]}

\* Directory: leads are engineers; ana is one by configuration.
DirectoryApprovers == (ana :> {engineer}) @@ (bob :> {})
DirectoryTokenGroups == (ana :> {}) @@ (bob :> {leads})
DirectoryRoleMap == leads :> {engineer}
===============================================================================
