------------------------------ MODULE CatalogSync ------------------------------
(****************************************************************************)
(* CatalogSync (catalog/sync.py), the sweep that copies an organisation's   *)
(* repositories into foundry_repo_catalog, beside pushes to them and the    *)
(* webhook that marks a pushed repository (_nudge_catalog_pushed_at).       *)
(*                                                                          *)
(* The content of a repository is a version number.  A row holds parts of   *)
(* it, which are fetched one call after the other and fail one by one.      *)
(* Only changes and nudges advance the clock: what is stored bears the      *)
(* instant of the last of them, and a later one bears a later instant.      *)
(****************************************************************************)
EXTENDS Integers, Sequences, FiniteSets

CONSTANTS
  Listing,         \* the organisation's repositories, in the order it lists them
  OtherOrgs,       \* repositories of other organisations in the catalog
  PerPage,         \* repositories on a page of the listing
  CallBudget,      \* call_budget
  BaseCalls,       \* calls of a deep fetch that asks for no files
  Reservation,     \* _per_repo_reservation: the most calls one repository takes
  Hauls,           \* the parts a deep fetch may come back with
  MaxChanges,      \* bound on pushes, archivings, creations and removals
  MaxSweeps,       \* bound on sweeps
  Never            \* NULL: never done, or not held

OrgRepos == {Listing[i] : i \in DOMAIN Listing}

\* What a deep fetch reads: README, directories and merged pull requests; the
\* tree of files; CODEOWNERS and manifests.
Parts == {"about", "tree", "files"}

\* A listing names a repository once; one is in one organisation.  Without the
\* tree nobody knows which files to ask for.
ASSUME CatalogAssumption ==
  /\ Listing \in Seq(OrgRepos)
  /\ \A i, j \in DOMAIN Listing : Listing[i] = Listing[j] => i = j
  /\ OrgRepos \cap OtherOrgs = {}
  /\ PerPage \in Nat \ {0}
  /\ CallBudget \in Nat /\ BaseCalls \in Nat /\ Reservation \in Nat
  /\ BaseCalls <= Reservation
  /\ \A got \in Hauls : got \subseteq Parts /\ ("files" \in got => "tree" \in got)
  /\ MaxChanges \in Nat /\ MaxSweeps \in Nat

VARIABLES
  github,      \* repository -> [exists, archived, version, pushed]
  catalog,     \* repository -> [archived, pushed, synced, held], for the rows
  sweep,       \* what the sweep is at
  instant,     \* the clock
  changes,     \* changes at GitHub so far (bounded)
  sweeps,      \* sweeps begun so far (bounded)
  hooks,       \* repositories whose push webhook is on its way
  since,       \* repositories changed since the sweep began (history)
  overtaken    \* repositories whose latest stored tree was older than their
               \* content when it was stored (history)

catalogVars ==
  <<github, catalog, sweep, instant, changes, sweeps, hooks, since, overtaken>>

Quiet == [pc |-> "idle"]

\* All parts at one version, or none of them.
AllAt(version) == [part \in Parts |-> version]

InitCatalog ==
  /\ github = [r \in OrgRepos |->
       [exists |-> TRUE, archived |-> FALSE, version |-> 0, pushed |-> 0]]
  /\ catalog = [r \in OtherOrgs |->
       [archived |-> FALSE, pushed |-> 0, synced |-> 0, held |-> AllAt(0)]]
  /\ sweep = Quiet
  /\ instant = 0
  /\ changes = 0 /\ sweeps = 0
  /\ hooks = {}
  /\ since = {} /\ overtaken = {}

----------------------------------------------------------------------------
(* The organisation.                                                        *)

Change(r, now) ==
  /\ changes < MaxChanges
  /\ changes' = changes + 1
  /\ instant' = instant + 1
  /\ github' = [github EXCEPT ![r] = now]
  /\ since' = since \cup {r}
  /\ UNCHANGED <<catalog, sweep, sweeps, overtaken>>

Push(r) ==
  /\ github[r].exists
  /\ Change(r, [github[r] EXCEPT !.version = @ + 1, !.pushed = instant + 1])
  /\ hooks' = hooks \cup {r}

\* A repository is archived, removed, or comes back.
Archive(r) ==
  /\ github[r].exists
  /\ Change(r, [github[r] EXCEPT !.archived = ~@])
  /\ UNCHANGED hooks

Delete(r) ==
  /\ Change(r, [github[r] EXCEPT !.exists = ~@, !.version = 0, !.pushed = instant + 1])
  /\ UNCHANGED hooks

\* _nudge_catalog_pushed_at, whenever the push webhook arrives.
Nudge(r) ==
  /\ r \in hooks
  /\ hooks' = hooks \ {r}
  /\ catalog' = IF r \in DOMAIN catalog
                THEN [catalog EXCEPT ![r].pushed = instant + 1] ELSE catalog
  /\ instant' = instant + 1
  /\ UNCHANGED <<github, sweep, changes, sweeps, since, overtaken>>

----------------------------------------------------------------------------
(* The sweep.                                                               *)

StartSweep(bootstrap) ==
  /\ sweep.pc \in {"idle", "done"}
  /\ sweep' = [pc |-> "list", page |-> 1, calls |-> 0, bootstrap |-> bootstrap,
               listed |-> <<>>]
  /\ since' = {}
  /\ sweeps < MaxSweeps /\ sweeps' = sweeps + 1
  /\ UNCHANGED <<github, catalog, instant, changes, hooks, overtaken>>

Page(n) ==
  LET live == {i \in DOMAIN Listing : github[Listing[i]].exists}
      rank(i) == Cardinality({j \in live : j <= i})
  IN  {Listing[i] : i \in {j \in live : (rank(j) - 1) \div PerPage = n - 1}}

\* A page of the listing; a page that is not full is the last one.
ListPage ==
  LET page == Page(sweep.page)
      seen == [r \in DOMAIN sweep.listed \cup page |->
                 IF r \in page
                 THEN [archived |-> github[r].archived, pushed |-> github[r].pushed]
                 ELSE sweep.listed[r]]
      read == [sweep EXCEPT !.listed = seen, !.calls = @ + 1]
  IN  /\ sweep.pc = "list"
      /\ sweep.calls < CallBudget
      /\ sweep' = IF Cardinality(page) < PerPage
                  THEN [read EXCEPT !.pc = "upsert"]
                  ELSE [read EXCEPT !.page = @ + 1]
      /\ UNCHANGED <<github, catalog, instant, changes, sweeps, hooks, since, overtaken>>

\* The listing fails, the budget is spent in it, or the process dies.
Abandon ==
  /\ sweep.pc \notin {"idle", "done"}
  /\ sweep' = Quiet
  /\ UNCHANGED <<github, catalog, instant, changes, sweeps, hooks, since, overtaken>>

SweepTo(pc) == sweep' = [sweep EXCEPT !.pc = pc]

\* The listed fields of every listed repository, in one transaction.
Upsert ==
  LET row(r) ==
        IF r \in DOMAIN catalog
        THEN [catalog[r] EXCEPT !.archived = sweep.listed[r].archived,
                                !.pushed = sweep.listed[r].pushed]
        ELSE [archived |-> sweep.listed[r].archived,
              pushed |-> sweep.listed[r].pushed, synced |-> Never, held |-> AllAt(Never)]
  IN  /\ sweep.pc = "upsert"
      /\ catalog' = [r \in DOMAIN catalog \cup DOMAIN sweep.listed |->
                       IF r \in DOMAIN sweep.listed THEN row(r) ELSE catalog[r]]
      /\ SweepTo("prune")
      /\ UNCHANGED <<github, instant, changes, sweeps, hooks, since, overtaken>>

\* Rows of this organisation that were not listed are deleted.
Prune ==
  /\ sweep.pc = "prune"
  /\ catalog' = [r \in DOMAIN catalog \ (OrgRepos \ DOMAIN sweep.listed) |-> catalog[r]]
  /\ SweepTo("select")
  /\ UNCHANGED <<github, instant, changes, sweeps, hooks, since, overtaken>>

NeedsDeep(row) ==
  /\ ~row.archived
  /\ \/ row.synced = Never
     \/ sweep.bootstrap
     \/ row.pushed > row.synced

\* Which rows to fetch, those of other organisations included.
Select ==
  /\ sweep.pc = "select"
  /\ sweep' = [pc |-> "deep", bootstrap |-> sweep.bootstrap, calls |-> sweep.calls,
               todo |-> {r \in DOMAIN catalog : NeedsDeep(catalog[r])},
               degraded |-> {}, missed |-> {}]
  /\ UNCHANGED <<github, catalog, instant, changes, sweeps, hooks, since, overtaken>>

\* _deep_fetch up to its transaction.  Any of its calls may fail; what it got is
\* the content as it is now, or for a repository that is gone, that of an empty
\* one.  A push between two of its calls counts as one after them.
Fetch(r, calls, got) ==
  /\ sweep.pc = "deep" /\ r \in sweep.todo
  /\ CallBudget - sweep.calls >= Reservation
  /\ sweep' = [pc |-> "store", bootstrap |-> sweep.bootstrap, calls |-> sweep.calls + calls,
               todo |-> sweep.todo \ {r},
               degraded |-> IF "tree" \in got THEN sweep.degraded ELSE sweep.degraded \cup {r},
               missed |-> IF got = Parts THEN sweep.missed ELSE sweep.missed \cup {r},
               fetched |-> [repo |-> r, got |-> got,
                            version |-> IF r \in OrgRepos THEN github[r].version ELSE 0]]
  /\ UNCHANGED <<github, catalog, instant, changes, sweeps, hooks, since, overtaken>>

\* The columns after a fetch.  README, directories and pull requests are written
\* in any case, empty if their call failed; the code facts only if the tree was
\* fetched, without the files whose fetch failed.
Learned(held, fetched) ==
  [part \in Parts |->
     IF part # "about" /\ "tree" \notin fetched.got THEN held[part]
     ELSE IF part \in fetched.got THEN fetched.version ELSE Never]

\* What the repository held when it was fetched is stored over what it holds now.
Overtakes(fetched) ==
  overtaken' = IF "tree" \notin fetched.got \/ fetched.repo \notin OrgRepos THEN overtaken
               ELSE IF fetched.version = github[fetched.repo].version
                    THEN overtaken \ {fetched.repo} ELSE overtaken \cup {fetched.repo}

StoreAs(synced) ==
  LET r == sweep.fetched.repo
  IN  /\ sweep.pc = "store"
      /\ catalog' = IF r \in DOMAIN catalog
                    THEN [catalog EXCEPT ![r].held = Learned(@, sweep.fetched),
                                         ![r].synced = synced]
                    ELSE catalog
      /\ Overtakes(sweep.fetched)
      /\ sweep' = [pc |-> "deep", bootstrap |-> sweep.bootstrap, calls |-> sweep.calls,
                   todo |-> sweep.todo, degraded |-> sweep.degraded,
                   missed |-> sweep.missed]
      /\ UNCHANGED <<github, instant, changes, sweeps, hooks, since>>

\* Slip: a degraded fetch counts as a fetch.
StoreDegraded == StoreAs(instant)

\* synced_at is stored with the code facts; a degraded fetch leaves both alone.
Store == StoreAs(IF "tree" \in sweep.fetched.got \/ sweep.fetched.repo \notin DOMAIN catalog
                 THEN instant ELSE catalog[sweep.fetched.repo].synced)

\* The budget is spent before every repository is fetched.
Exhausted ==
  /\ sweep.pc = "deep" /\ sweep.todo # {}
  /\ CallBudget - sweep.calls < Reservation
  /\ sweep' = Quiet
  /\ UNCHANGED <<github, catalog, instant, changes, sweeps, hooks, since, overtaken>>

Finish ==
  /\ sweep.pc = "deep" /\ sweep.todo = {}
  /\ sweep' = [pc |-> "done", bootstrap |-> sweep.bootstrap,
               degraded |-> sweep.degraded, missed |-> sweep.missed]
  /\ UNCHANGED <<github, catalog, instant, changes, sweeps, hooks, since, overtaken>>

NextSweep ==
  \/ \E bootstrap \in BOOLEAN : StartSweep(bootstrap)
  \/ ListPage \/ Upsert \/ Prune \/ Select \/ Store \/ Exhausted \/ Finish \/ Abandon
  \/ \E r \in OrgRepos \cup OtherOrgs, calls \in {BaseCalls, Reservation}, got \in Hauls :
       /\ "tree" \notin got => calls = BaseCalls
       /\ Fetch(r, calls, got)

NextCatalog ==
  \/ NextSweep
  \/ \E r \in OrgRepos : Push(r) \/ Archive(r) \/ Delete(r) \/ Nudge(r)

----------------------------------------------------------------------------
Instants == 0..instant

CatalogTypeOK ==
  /\ DOMAIN github = OrgRepos
  /\ \A r \in OrgRepos : github[r].pushed \in Instants /\ github[r].version \in 0..MaxChanges
  /\ \A r \in DOMAIN catalog :
       /\ catalog[r].pushed \in Instants
       /\ catalog[r].synced \in Instants \cup {Never}
       /\ \A part \in Parts : catalog[r].held[part] \in (0..MaxChanges) \cup {Never}
  /\ sweep.pc \in {"idle", "list", "upsert", "prune", "select", "deep", "store", "done"}

\* A row tells the tree of a version, and nothing of any other.
Tells(row, version) ==
  row.held["tree"] = version /\ \A part \in Parts : row.held[part] \in {version, Never}

\* The next listing makes a sweep fetch it.
Due(r) == catalog[r].synced = Never \/ github[r].pushed > catalog[r].synced

\* A row that lags behind its repository is due, unless a push overtook the
\* fetch that was stored last: then it reads as current, and stays so until the
\* next push or bootstrap.
LaggingRowsAreDue ==
  \A r \in OrgRepos \cap DOMAIN catalog :
    Tells(catalog[r], github[r].version) \/ Due(r) \/ r \in overtaken

\* A sweep that ran to its end, over an organisation that did not change under
\* it, leaves a row for exactly the organisation's repositories.  The rows it
\* did not degrade on hold nothing but what the repositories hold, those that
\* were overtaken before apart, which only a bootstrap heals; and after a
\* bootstrap they hold all of it, if no call failed.  Rows of other
\* organisations survive every sweep ("rows from other orgs sharing this DB must
\* survive", sync.py:160-162).
SweepsConverge ==
  /\ OtherOrgs \subseteq DOMAIN catalog
  /\ LaggingRowsAreDue
  /\ sweep.pc = "done" /\ since = {} =>
       /\ OrgRepos \cap DOMAIN catalog = {r \in OrgRepos : github[r].exists}
       /\ \A r \in (OrgRepos \cap DOMAIN catalog) \ sweep.degraded :
            \/ github[r].archived
            \/ r \in overtaken /\ ~sweep.bootstrap
            \/ /\ Tells(catalog[r], github[r].version)
               /\ sweep.bootstrap /\ r \notin sweep.missed =>
                    catalog[r].held = AllAt(github[r].version)
=============================================================================
