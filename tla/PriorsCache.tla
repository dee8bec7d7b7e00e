----------------------------- MODULE PriorsCache -----------------------------
(****************************************************************************)
(* The cache of DeliveryMemoryPriors (memory/priors.py).  One object serves *)
(* every thread of a process and every organisation, without a lock: each   *)
(* thread checks it, may refill it by a query and three writes, and reads   *)
(* its two tables one after the other.  A query sees the outcome rows of    *)
(* the thread's own organisation (db/tenant.py).                            *)
(*                                                                          *)
(* A table is told by what it was built from: the rows of one organisation, *)
(* up to one of them.  What candidates it yields is HistoryRouting's part.  *)
(****************************************************************************)
EXTENDS Integers, Sequences

CONSTANTS
  Tenants,       \* organisations
  Routers,       \* threads that route tickets
  PriorsTtl,     \* cache_ttl_seconds, in ticks
  MaxStall,      \* bound on the ticks a thread takes from its check to its reads
  MaxEndings,    \* bound on outcome rows
  MaxPriorsTick, \* bound on the clock
  NoTenant

ASSUME PriorsAssumption ==
  /\ NoTenant \notin Tenants
  /\ PriorsTtl \in Nat \ {0}
  /\ {MaxStall, MaxEndings, MaxPriorsTick} \subseteq Nat

VARIABLES
  endings,       \* outcome rows in the order they were written, [tenant, at]
  priorsTick,    \* the clock
  priors,        \* the shared object: [at, pair, prefix], its two tables
  routers        \* what each thread is at, [pc, tenant, now, rows]

priorsVars == <<endings, priorsTick, priors, routers>>

NoTable == [tenant |-> NoTenant, upTo |-> 0]

\* _cached_at is None.
Unfilled == -1

AtRest == [pc |-> "idle", tenant |-> NoTenant, now |-> 0, rows |-> NoTable]

InitPriors ==
  /\ endings = <<>>
  /\ priorsTick = 0
  /\ priors = [at |-> Unfilled, pair |-> NoTable, prefix |-> NoTable]
  /\ routers = [t \in Routers |-> AtRest]

----------------------------------------------------------------------------
\* Slip: the cache lives a moment longer than its time to live.
PriorsOutlive(now) == priors.at # Unfilled /\ now - priors.at <= PriorsTtl

PriorsFresh(now) == priors.at # Unfilled /\ now - priors.at < PriorsTtl

RouterAt(t, pc) == routers[t].pc = pc

RouterTo(t, next) == routers' = [routers EXCEPT ![t] = next]

\* candidates_for begins: the time is read, then the cache is checked.
CheckPriors(t, tenant) ==
  /\ RouterAt(t, "idle")
  /\ RouterTo(t, [pc |-> IF PriorsFresh(priorsTick) THEN "read pair" ELSE "query",
                  tenant |-> tenant, now |-> priorsTick, rows |-> NoTable])
  /\ UNCHANGED <<endings, priorsTick, priors>>

\* routing_prior_rows, in the thread's organisation.
QueryOutcomes(t) ==
  /\ RouterAt(t, "query")
  /\ RouterTo(t, [routers[t] EXCEPT !.pc = "write pair",
                    !.rows = [tenant |-> routers[t].tenant, upTo |-> Len(endings)]])
  /\ UNCHANGED <<endings, priorsTick, priors>>

\* It raises: this ticket is routed without priors.
QueryRaises(t) ==
  /\ RouterAt(t, "query")
  /\ RouterTo(t, AtRest)
  /\ UNCHANGED <<endings, priorsTick, priors>>

WriteByPair(t) ==
  /\ RouterAt(t, "write pair")
  /\ priors' = [priors EXCEPT !.pair = routers[t].rows]
  /\ RouterTo(t, [routers[t] EXCEPT !.pc = "write prefix"])
  /\ UNCHANGED <<endings, priorsTick>>

WriteByPrefix(t) ==
  /\ RouterAt(t, "write prefix")
  /\ priors' = [priors EXCEPT !.prefix = routers[t].rows]
  /\ RouterTo(t, [routers[t] EXCEPT !.pc = "stamp"])
  /\ UNCHANGED <<endings, priorsTick>>

\* The time stored is the one of the check.
StampPriors(t) ==
  /\ RouterAt(t, "stamp")
  /\ priors' = [priors EXCEPT !.at = routers[t].now]
  /\ RouterTo(t, [routers[t] EXCEPT !.pc = "read pair", !.rows = NoTable])
  /\ UNCHANGED <<endings, priorsTick>>

\* The pair of team and work type decides, unless it has too few rows.
ReadByPair(t, enough) ==
  /\ RouterAt(t, "read pair")
  /\ RouterTo(t, IF enough THEN AtRest ELSE [routers[t] EXCEPT !.pc = "read prefix"])
  /\ UNCHANGED <<endings, priorsTick, priors>>

ReadByPrefix(t) ==
  /\ RouterAt(t, "read prefix")
  /\ RouterTo(t, AtRest)
  /\ UNCHANGED <<endings, priorsTick, priors>>

\* invalidate: the tables stay.
Invalidate ==
  /\ priors' = [priors EXCEPT !.at = Unfilled]
  /\ UNCHANGED <<endings, priorsTick, routers>>

----------------------------------------------------------------------------
WriteEnding(tenant) ==
  /\ Len(endings) < MaxEndings
  /\ endings' = Append(endings, [tenant |-> tenant, at |-> priorsTick])
  /\ UNCHANGED <<priorsTick, priors, routers>>

PriorsTicks ==
  /\ priorsTick < MaxPriorsTick
  /\ \A t \in Routers : ~RouterAt(t, "idle") => priorsTick - routers[t].now < MaxStall
  /\ priorsTick' = priorsTick + 1
  /\ UNCHANGED <<endings, priors, routers>>

Routes(t) ==
  \/ \E tenant \in Tenants : CheckPriors(t, tenant)
  \/ QueryOutcomes(t) \/ QueryRaises(t)
  \/ WriteByPair(t) \/ WriteByPrefix(t) \/ StampPriors(t)
  \/ \E enough \in BOOLEAN : ReadByPair(t, enough)
  \/ ReadByPrefix(t)

NextPriors ==
  \/ \E t \in Routers : Routes(t)
  \/ \E tenant \in Tenants : WriteEnding(tenant)
  \/ Invalidate \/ PriorsTicks

PriorsSpec == InitPriors /\ [][NextPriors]_priorsVars

----------------------------------------------------------------------------
RouterPcs ==
  {"idle", "query", "write pair", "write prefix", "stamp", "read pair", "read prefix"}

\* What a table is built from; the rows it does not hold come after upTo.
PriorsTables == [tenant : Tenants \cup {NoTenant}, upTo : 0..Len(endings)]

PriorsTypeOK ==
  /\ Len(endings) <= MaxEndings
  /\ \A i \in DOMAIN endings : endings[i].tenant \in Tenants /\ endings[i].at \in 0..priorsTick
  /\ priors \in [at : Unfilled..priorsTick, pair : PriorsTables, prefix : PriorsTables]
  /\ routers \in [Routers -> [pc : RouterPcs, tenant : Tenants \cup {NoTenant},
                              now : 0..priorsTick, rows : PriorsTables]]

\* The table a thread is about to decide by.
DecidedBy(t) == IF RouterAt(t, "read pair") THEN priors.pair ELSE priors.prefix

RouterDecides(t) == RouterAt(t, "read pair") \/ RouterAt(t, "read prefix")

\* Whichever threads refill the cache meanwhile, and in whatever order their
\* writes come: a ticket is decided by every outcome of the organisation its
\* table was read for that is older than the time to live and the longest stall.
PriorsAreCurrent ==
  \A t \in Routers : RouterDecides(t) =>
    \A i \in DOMAIN endings :
      /\ endings[i].tenant = DecidedBy(t).tenant
      /\ endings[i].at + PriorsTtl + MaxStall <= routers[t].now
      => i <= DecidedBy(t).upTo

\* "a unit of work scoped to one org can neither read nor write another org's
\* rows" (db/tenant.py:13-14): no ticket is decided by a row of another one.
PriorsStayHome ==
  \A t \in Routers : RouterDecides(t) =>
    \A i \in 1..DecidedBy(t).upTo :
      endings[i].tenant = DecidedBy(t).tenant => endings[i].tenant = routers[t].tenant
=============================================================================
