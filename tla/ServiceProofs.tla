---------------------------- MODULE ServiceProofs ----------------------------
(****************************************************************************)
(* The promises of the components around the run lifecycle, proved for      *)
(* every value of the constants.  Each component is proved on its own Init  *)
(* and Next, and its theorem carried over to ServicesSpec, under which the  *)
(* run checks all of them: a step of ServicesSpec is a step of the          *)
(* component in focus, and none of the others.                              *)
(****************************************************************************)
EXTENDS MCServices, SequenceTheorems, FiniteSetTheorems,
        WellFoundedInduction, TLAPS

-----------------------------------------------------------------------------
(* ArtifactKeys: a retired key is needed by no row                           *)

Values == Keys \cup {Plain, Unwritten}

\* A pass knows the ring it works with and the rows it read.
Passes ==
  [pc : {"running", "ended"}, ring : Seq(Keys) \ {<<>>}, rows : [Payloads -> Values],
   failed : SUBSET Payloads]

KeysTypes ==
  /\ configured \in Seq(Keys)
  /\ serverKeys \in [Servers -> Seq(Keys)]
  /\ stored \in [Payloads -> Values]
  /\ rewrap \in Passes \cup {NoPass}

\* While a pass is on its way, and after it, every server writes under one of
\* `primaries', and a row that the pass did not read was written since.
KeysInv ==
  /\ KeysTypes
  /\ rewrap # NoPass => \A s \in Servers : Encrypted(serverKeys[s]) \in primaries
  /\ rewrap.pc = "running" =>
       \A p \in Payloads :
         \/ stored[p] = rewrap.rows[p]
         \/ rewrap.rows[p] = Unwritten /\ stored[p] \in primaries
  /\ rewrap.pc = "ended" /\ rewrap.failed = {} =>
       \A p \in Payloads : stored[p] \in {Unwritten, rewrap.ring[1]} \cup primaries

LEMMA PassOrNone ==
  ASSUME KeysTypes
  PROVE  /\ NoPass.pc = "none"
         /\ rewrap = NoPass \/ (rewrap \in Passes /\ rewrap.pc \in {"running", "ended"})
         /\ rewrap # NoPass <=> rewrap.pc \in {"running", "ended"}
<1>1. NoPass.pc = "none"
  BY DEF NoPass
<1>2. rewrap \in Passes => rewrap.pc \in {"running", "ended"}
  BY DEF Passes
<1> QED
  BY <1>1, <1>2 DEF KeysTypes

LEMMA KeysInit == InitKeys => KeysInv
<1> SUFFICES ASSUME InitKeys PROVE KeysInv
  OBVIOUS
<1>1. KeysTypes
  BY DEF InitKeys, KeysTypes, Values
<1>2. rewrap = NoPass /\ NoPass.pc = "none"
  BY DEF InitKeys, NoPass
<1> QED
  BY <1>1, <1>2 DEF KeysInv

LEMMA EncryptedType ==
  ASSUME NEW ring \in Seq(Keys)
  PROVE  Encrypted(ring) \in Keys \cup {Plain}
<1>1. ring # <<>> => ring[1] \in Keys
  <2>1. ring # <<>> => Len(ring) \in Nat \ {0}
    BY EmptySeq, LenProperties
  <2> QED
    BY <2>1, ElementOfSeq
<1> QED
  BY <1>1 DEF Encrypted

\* A pass that ends leaves a row as it read it, re-wrapped, or failed.
LEMMA KeysEndPass ==
  ASSUME KeysInv, NEW dryRun \in BOOLEAN, EndPass(dryRun)
  PROVE  KeysInv'
<1> DEFINE due == {p \in Scanned : NeedsRewrap(rewrap.rows[p], rewrap.ring)}
           good == {p \in due : Readable(rewrap.rows[p], rewrap.ring)}
<1>1. /\ rewrap.pc = "running" /\ rewrap \in Passes
      /\ UNCHANGED <<configured, serverKeys, primaries>>
      /\ KeysTypes
  BY PassOrNone DEF EndPass, KeysInv
<1>2. /\ stored' = [p \in Payloads |->
                      IF p \in good /\ ~dryRun THEN Encrypted(rewrap.ring) ELSE stored[p]]
      /\ rewrap' = IF dryRun THEN NoPass
                   ELSE [rewrap EXCEPT !.pc = "ended", !.failed = due \ good]
  BY DEF EndPass
<1>3. due \subseteq Payloads
  BY DEF Scanned
<1>4. Encrypted(rewrap.ring) = rewrap.ring[1] /\ rewrap.ring[1] \in Keys
  BY <1>1, EncryptedType DEF Encrypted, Passes, KeysAssumption
<1>5. \A p \in Payloads : p \notin due =>
        rewrap.rows[p] = Unwritten \/ rewrap.rows[p] = rewrap.ring[1]
  BY DEF Scanned, NeedsRewrap
<1> HIDE DEF due, good
<1>6. stored' \in [Payloads -> Values]
  BY <1>1, <1>2, <1>4 DEF KeysTypes, Values
<1>7. CASE dryRun
  <2>1. rewrap' = NoPass
    BY <1>2, <1>7
  <2> QED
    BY <1>1, <1>6, <2>1 DEF KeysInv, KeysTypes, NoPass
<1>8. CASE ~dryRun
  <2>1. rewrap' = [rewrap EXCEPT !.pc = "ended", !.failed = due \ good]
    BY <1>2, <1>8
  <2>2. /\ rewrap' \in Passes /\ rewrap'.pc = "ended" /\ rewrap'.failed = due \ good
        /\ rewrap'.ring = rewrap.ring
    BY <1>1, <1>3, <2>1 DEF Passes
  <2>3. ASSUME due \ good = {}, NEW p \in Payloads
        PROVE  stored'[p] \in {Unwritten, rewrap.ring[1]} \cup primaries
    <3>1. CASE p \in due
      BY <1>2, <1>4, <1>8, <2>3, <3>1
    <3>2. CASE p \notin due
      <4>1. stored'[p] = stored[p]
        BY <1>2, <3>2 DEF good
      <4> QED
        BY <1>1, <1>5, <3>2, <4>1 DEF KeysInv
    <3> QED
      BY <3>1, <3>2
  <2>4. rewrap # NoPass /\ rewrap' # NoPass
    BY <1>1, <2>2 DEF NoPass
  <2> QED
    BY <1>1, <1>6, <2>2, <2>3, <2>4 DEF KeysInv, KeysTypes
<1> QED
  BY <1>7, <1>8

LEMMA KeysNext == KeysInv /\ [NextKeys]_keysVars => KeysInv'
<1> SUFFICES ASSUME KeysInv, [NextKeys]_keysVars PROVE KeysInv'
  OBVIOUS
<1>t. KeysTypes
  BY DEF KeysInv
<1>p. /\ NoPass.pc = "none"
      /\ rewrap # NoPass <=> rewrap.pc \in {"running", "ended"}
  BY <1>t, PassOrNone
<1>1. ASSUME NEW k \in Keys, Rotate(k) PROVE KeysInv'
  <2>1. configured' \in Seq(Keys) /\ UNCHANGED <<serverKeys, stored, rewrap, primaries>>
    BY <1>1, <1>t DEF Rotate, KeysTypes
  <2> QED
    BY <2>1 DEF KeysInv, KeysTypes
<1>2. CASE Retire
  <2>1. configured' \in Seq(Keys) /\ UNCHANGED <<serverKeys, stored, rewrap, primaries>>
    <3>1. Len(configured) = 2 /\ configured' = <<configured[1]>>
          /\ UNCHANGED <<serverKeys, stored, rewrap, primaries>>
      BY <1>2 DEF Retire
    <3>2. configured \in Seq(Keys) /\ 1 \in 1..Len(configured)
      BY <1>t, <3>1 DEF KeysTypes
    <3>3. configured[1] \in Keys
      BY <3>2, ElementOfSeq
    <3> QED
      BY <3>1, <3>2
  <2> QED
    BY <2>1 DEF KeysInv, KeysTypes
<1>3. ASSUME NEW s \in Servers, Restart(s) PROVE KeysInv'
  <2>1. /\ serverKeys' \in [Servers -> Seq(Keys)]
        /\ \A r \in Servers : serverKeys'[r] = IF r = s THEN configured ELSE serverKeys[r]
        /\ primaries' = primaries \cup {Encrypted(configured)}
        /\ UNCHANGED <<configured, stored, rewrap>>
    BY <1>3, <1>t DEF Restart, KeysTypes
  <2>2. rewrap # NoPass => \A r \in Servers : Encrypted(serverKeys'[r]) \in primaries'
    BY <2>1 DEF KeysInv
  <2> QED
    BY <2>1, <2>2 DEF KeysInv, KeysTypes, Encrypted
<1>4. ASSUME NEW s \in Servers, NEW p \in Payloads, WritePayload(s, p) PROVE KeysInv'
  <2> DEFINE x == Encrypted(serverKeys[s])
  <2>1. /\ x \in Values
        /\ stored' = [stored EXCEPT ![p] = x] /\ stored[p] = Unwritten
        /\ UNCHANGED <<configured, serverKeys, rewrap, primaries>>
    BY <1>4, <1>t, EncryptedType DEF WritePayload, KeysTypes, Values
  <2>2. rewrap # NoPass => x \in primaries
    BY DEF KeysInv
  <2> HIDE DEF x
  <2>3. \A q \in Payloads : stored'[q] = IF q = p THEN x ELSE stored[q]
    BY <1>t, <2>1 DEF KeysTypes
  <2>4. KeysTypes'
    BY <1>t, <2>1 DEF KeysTypes
  <2> QED
    BY <1>p, <2>1, <2>2, <2>3, <2>4 DEF KeysInv, Encrypted
<1>5. CASE StartPass
  <2>1. /\ rewrap' = [pc |-> "running", ring |-> configured, rows |-> stored, failed |-> {}]
        /\ primaries' = {Encrypted(serverKeys[s]) : s \in Servers}
        /\ configured # <<>>
        /\ UNCHANGED <<configured, serverKeys, stored>>
    BY <1>5 DEF StartPass
  <2>2. rewrap' \in Passes /\ rewrap'.pc = "running" /\ rewrap'.rows = stored
    BY <1>t, <2>1 DEF Passes, KeysTypes
  <2> QED
    BY <1>t, <2>1, <2>2 DEF KeysInv, KeysTypes, Encrypted
<1>6. CASE CrashPass
  BY <1>6, <1>t, <1>p DEF CrashPass, KeysInv, KeysTypes
<1>7. CASE UNCHANGED keysVars
  BY <1>7 DEF keysVars, KeysInv, KeysTypes
<1> QED
  BY <1>1, <1>2, <1>3, <1>4, <1>5, <1>6, <1>7, KeysEndPass DEF NextKeys

KeysSpec == InitKeys /\ [][NextKeys]_keysVars

\* A pass that ended well leaves no row that needs another key than the
\* primary, whatever servers wrote meanwhile: the old keys can be dropped.
THEOREM RetiredKeysCanGo == KeysSpec => []RetiredKeysAreUnused
<1>1. KeysInv => RetiredKeysAreUnused
  BY DEF KeysInv, RetiredKeysAreUnused
<1> QED
  BY <1>1, KeysInit, KeysNext, PTL DEF KeysSpec

LEMMA KeysAlone == ServicesSpec => KeysSpec
<1>1. [NextServices]_servicesVars => [NextKeys]_keysVars
  BY DEF NextServices, servicesVars, OthersStay, Still
<1> QED
  BY <1>1, PTL DEF ServicesSpec, InitServices, KeysSpec

\* The same, of the run that checks every component.
THEOREM KeyringIsKept == ServicesSpec => []KeyringHolds
<1>1. RetiredKeysAreUnused => KeyringHolds
  BY DEF KeyringHolds
<1> QED
  BY <1>1, KeysAlone, RetiredKeysCanGo, PTL

-----------------------------------------------------------------------------
(* WebhookIntake: a delivery is handled once, for its own tenant             *)

DedupKey(d) == <<d.provider, d.key>>

\* What a process is at names the org that the delivery was signed for.
Tasks ==
  {Idle} \cup
  {t \in [pc : {"route", "start"}, delivery : Deliveries,
          org : {OrgOf(d) : d \in Deliveries}] : t.org = OrgOf(t.delivery)}

\* A delivery that was handled within the TTL still has its row, or a younger
\* one under the same key.
Remembered(d, t, now, table) ==
  /\ t \in Nat /\ t <= now
  /\ now - t <= DedupTtl =>
       DedupKey(d) \in DOMAIN table /\ table[DedupKey(d)].at >= t

IntakeInv ==
  /\ clock \in Nat
  /\ \A k \in DOMAIN rows : rows[k].at \in Nat
  /\ process \in [Processes -> Tasks]
  /\ handled \in [Deliveries -> Seq(Nat)]
  /\ touched \in [Deliveries -> SUBSET {OrgOf(d) : d \in Deliveries}]
  /\ \A d \in Deliveries : touched[d] \subseteq {OrgOf(d)}
  /\ \A d \in Deliveries :
       Deduplicated(d) => \A i \in DOMAIN handled[d] : Remembered(d, handled[d][i], clock, rows)
  /\ HandledOncePerTtl

LEMMA IntakeInit == InitIntake => IntakeInv
<1> SUFFICES ASSUME InitIntake PROVE IntakeInv
  OBVIOUS
<1>1. process \in [Processes -> Tasks]
  BY DEF InitIntake, Tasks
<1>2. /\ handled \in [Deliveries -> Seq(Nat)]
      /\ \A d \in Deliveries : DOMAIN handled[d] = {}
  BY DEF InitIntake
<1>3. /\ touched \in [Deliveries -> SUBSET {OrgOf(d) : d \in Deliveries}]
      /\ \A d \in Deliveries : touched[d] = {}
  BY DEF InitIntake
<1>4. clock \in Nat /\ DOMAIN rows = {}
  BY DEF InitIntake
<1> QED
  BY <1>1, <1>2, <1>3, <1>4 DEF IntakeInv, HandledOncePerTtl

\* The TTL of what was handled only grows.
LEMMA Recording ==
  ASSUME IntakeInv, NEW d \in Deliveries, NEW org, Recorded(d, org), UNCHANGED clock
  PROVE  /\ \A k \in DOMAIN rows' : rows'[k].at \in Nat
         /\ handled' \in [Deliveries -> Seq(Nat)]
         /\ \A e \in Deliveries :
              Deduplicated(e) =>
                /\ \A i \in DOMAIN handled'[e] : Remembered(e, handled'[e][i], clock', rows')
                /\ \A i, j \in DOMAIN handled'[e] :
                     i < j => handled'[e][j] - handled'[e][i] > DedupTtl
<1> DEFINE key == DedupKey(d)
<1>t. /\ clock \in Nat /\ clock' = clock /\ DedupTtl \in Nat
      /\ handled \in [Deliveries -> Seq(Nat)]
      /\ \A k \in DOMAIN rows : rows[k].at \in Nat
  BY IntakeAssumption DEF IntakeInv
<1>1. CASE ~Deduplicated(d)
  <2>1. UNCHANGED <<rows, handled>>
    BY <1>1 DEF Recorded
  <2> QED
    BY <1>t, <2>1 DEF IntakeInv, HandledOncePerTtl, Remembered
<1>2. CASE Deduplicated(d)
  <2>1. /\ key \notin DOMAIN Kept(org)
        /\ rows' = [k \in DOMAIN Kept(org) \cup {key} |->
                      IF k = key THEN [org |-> org, at |-> clock] ELSE Kept(org)[k]]
        /\ handled' = [handled EXCEPT ![d] = Append(@, clock)]
    BY <1>2 DEF Recorded, DedupKey
  <2>2. /\ \A k \in DOMAIN Kept(org) : k \in DOMAIN rows /\ Kept(org)[k] = rows[k]
        /\ \A k \in DOMAIN rows : k \notin DOMAIN Kept(org) => clock - rows[k].at > DedupTtl
    <3>1. \A k \in DOMAIN rows :
            ~(clock - rows[k].at <= DedupTtl) => clock - rows[k].at > DedupTtl
      BY <1>t
    <3> QED
      BY <3>1 DEF Kept
  <2>3. /\ DOMAIN rows' = DOMAIN Kept(org) \cup {key}
        /\ rows'[key].at = clock
        /\ \A k \in DOMAIN rows' : k # key => rows'[k] = rows[k] /\ k \in DOMAIN rows
    BY <2>1, <2>2
  <2>4. handled[d] \in Seq(Nat) /\ Len(handled[d]) \in Nat
    BY <1>t
  <2> DEFINE n == Len(handled[d]) + 1
  <2>5. /\ handled' \in [Deliveries -> Seq(Nat)]
        /\ \A e \in Deliveries : e # d => handled'[e] = handled[e]
        /\ DOMAIN handled[d] = 1..(n - 1) /\ DOMAIN handled'[d] = 1..n
        /\ \A i \in 1..(n - 1) : handled'[d][i] = handled[d][i]
        /\ handled'[d][n] = clock
    BY <1>t, <2>1, <2>4, AppendProperties
  <2>n. n \in Nat
    BY <2>4
  <2> HIDE DEF n, key
  <2>6. ASSUME NEW e \in Deliveries, Deduplicated(e), NEW t, Remembered(e, t, clock, rows)
        PROVE  Remembered(e, t, clock', rows')
    <3>1. CASE DedupKey(e) = key
      BY <1>t, <2>3, <2>6, <3>1 DEF Remembered
    <3>2. CASE DedupKey(e) # key
      <4>1. ASSUME clock - t <= DedupTtl
            PROVE  DedupKey(e) \in DOMAIN rows' /\ rows'[DedupKey(e)].at >= t
        <5>1. DedupKey(e) \in DOMAIN rows /\ rows[DedupKey(e)].at >= t /\ t \in Nat
          BY <2>6, <4>1 DEF Remembered
        <5>2. ~(clock - rows[DedupKey(e)].at > DedupTtl)
          BY <1>t, <4>1, <5>1
        <5>3. DedupKey(e) \in DOMAIN Kept(org)
          BY <2>2, <5>1, <5>2
        <5> QED
          BY <2>3, <3>2, <5>1, <5>3
      <4> QED
        BY <1>t, <2>6, <4>1 DEF Remembered, DedupKey
    <3> QED
      BY <3>1, <3>2
  <2>7. \A i \in 1..(n - 1) : clock - handled[d][i] > DedupTtl
    <3> SUFFICES ASSUME NEW i \in 1..(n - 1) PROVE clock - handled[d][i] > DedupTtl
      OBVIOUS
    <3>1. Remembered(d, handled[d][i], clock, rows)
      BY <1>2, <2>5 DEF IntakeInv
    <3>2. CASE key \notin DOMAIN rows
      BY <1>t, <3>1, <3>2 DEF Remembered, key
    <3>3. CASE key \in DOMAIN rows
      <4>1. clock - rows[key].at > DedupTtl /\ rows[key].at \in Nat
        BY <1>t, <2>1, <2>2, <3>3
      <4> QED
        BY <1>t, <3>1, <4>1 DEF Remembered, key
    <3> QED
      BY <3>2, <3>3
  <2>8. Remembered(d, clock, clock', rows')
    BY <1>t, <2>3 DEF Remembered, DedupKey, key
  <2>9. \A k \in DOMAIN rows' : rows'[k].at \in Nat
    BY <1>t, <2>3
  <2>10. ASSUME NEW e \in Deliveries, Deduplicated(e)
         PROVE /\ \A i \in DOMAIN handled'[e] : Remembered(e, handled'[e][i], clock', rows')
               /\ \A i, j \in DOMAIN handled'[e] :
                    i < j => handled'[e][j] - handled'[e][i] > DedupTtl
    <3>1. CASE e # d
      <4>1. \A i \in DOMAIN handled[e] : Remembered(e, handled[e][i], clock, rows)
        BY <2>10 DEF IntakeInv
      <4>2. \A i, j \in DOMAIN handled[e] :
              i < j => handled[e][j] - handled[e][i] > DedupTtl
        BY <2>10 DEF IntakeInv, HandledOncePerTtl
      <4>3. handled'[e] = handled[e]
        BY <2>5, <3>1
      <4>4. ASSUME NEW i \in DOMAIN handled'[e] PROVE Remembered(e, handled'[e][i], clock', rows')
        <5>1. Remembered(e, handled[e][i], clock, rows)
          BY <4>1, <4>3
        <5>2. Remembered(e, handled[e][i], clock', rows')
          BY <2>6, <2>10, <5>1 DEF Remembered
        <5> QED
          BY <4>3, <5>2 DEF Remembered
      <4> QED
        BY <4>2, <4>3, <4>4
    <3>2. CASE e = d
      <4>1. \A i \in 1..(n - 1) : Remembered(d, handled[d][i], clock, rows)
        BY <1>2, <2>5 DEF IntakeInv
      <4>2. ASSUME NEW i \in 1..n PROVE Remembered(d, handled'[d][i], clock', rows')
        <5>1. CASE i = n
          BY <2>5, <2>8, <5>1, <1>t DEF Remembered
        <5>2. CASE i # n
          <6>1. i \in 1..(n - 1)
            BY <2>n, <5>2
          <6>2. Remembered(d, handled[d][i], clock', rows')
            BY <1>2, <2>6, <4>1, <6>1 DEF Remembered
          <6> QED
            BY <2>5, <6>1, <6>2 DEF Remembered
        <5> QED
          BY <5>1, <5>2
      <4>3. \A i, j \in 1..(n - 1) : i < j => handled[d][j] - handled[d][i] > DedupTtl
        BY <1>2, <2>5 DEF IntakeInv, HandledOncePerTtl
      <4>4. ASSUME NEW i \in 1..n, NEW j \in 1..n, i < j
            PROVE handled'[d][j] - handled'[d][i] > DedupTtl
        <5>1. CASE j = n
          <6>1. i \in 1..(n - 1)
            BY <2>n, <4>4, <5>1
          <6> QED
            BY <2>5, <2>7, <5>1, <6>1
        <5>2. CASE j # n
          <6>1. i \in 1..(n - 1) /\ j \in 1..(n - 1)
            BY <2>n, <4>4, <5>2
          <6> QED
            BY <2>5, <4>3, <4>4, <6>1
        <5> QED
          BY <5>1, <5>2
      <4> QED
        BY <2>5, <3>2, <4>2, <4>4
    <3> QED
      BY <3>1, <3>2
  <2> QED
    BY <2>5, <2>9, <2>10
<1> QED
  BY <1>1, <1>2

LEMMA IntakeArrive ==
  ASSUME IntakeInv, NEW p \in Processes, NEW d \in Deliveries, NEW fresh, Arrive(p, d, fresh)
  PROVE  IntakeInv'
<1>t. /\ UNCHANGED <<clock, touched>> /\ process \in [Processes -> Tasks]
  BY DEF Arrive, IntakeInv
<1>1. CASE Recorded(d, OrgOf(d)) /\
           process' = [process EXCEPT ![p] =
             [pc |-> "route", delivery |-> d, org |-> OrgOf(d)]]
  <2>1. process' \in [Processes -> Tasks]
    BY <1>t, <1>1 DEF Tasks
  <2> QED
    BY <1>t, <1>1, <2>1, Recording DEF IntakeInv, HandledOncePerTtl
<1>2. CASE UNCHANGED <<rows, handled, process>>
  BY <1>t, <1>2 DEF IntakeInv, HandledOncePerTtl, Remembered
<1> QED
  BY <1>1, <1>2 DEF Arrive

\* A step that leaves clock and rows alone, and touches only what the process
\* was signed for.
LEMMA IntakeRoute ==
  ASSUME IntakeInv, NEW p \in Processes, NEW pc \in {"idle", "start"},
         process[p].pc \in {"route", "start"},
         UNCHANGED <<clock, rows, handled>>,
         touched' = touched \/ Touch(process[p].delivery, process[p].org),
         Stay(p) \/ Go(p, "start")
  PROVE  IntakeInv'
<1>1. /\ process \in [Processes -> Tasks] /\ process[p] # Idle
      /\ touched \in [Deliveries -> SUBSET {OrgOf(d) : d \in Deliveries}]
      /\ \A d \in Deliveries : touched[d] \subseteq {OrgOf(d)}
  BY DEF IntakeInv, Idle
<1>2. /\ process[p].delivery \in Deliveries /\ process[p].org = OrgOf(process[p].delivery)
      /\ [process[p] EXCEPT !.pc = "start"] \in Tasks
  BY <1>1 DEF Tasks
<1>3. process' \in [Processes -> Tasks]
  BY <1>1, <1>2 DEF Stay, Go, Tasks
<1>4. /\ touched' \in [Deliveries -> SUBSET {OrgOf(d) : d \in Deliveries}]
      /\ \A d \in Deliveries : touched'[d] \subseteq {OrgOf(d)}
  BY <1>1, <1>2 DEF Touch
<1> QED
  BY <1>3, <1>4 DEF IntakeInv, HandledOncePerTtl, Remembered

LEMMA IntakeNext == IntakeInv /\ [NextIntake]_intakeVars => IntakeInv'
<1> SUFFICES ASSUME IntakeInv, [NextIntake]_intakeVars PROVE IntakeInv'
  OBVIOUS
<1>1. ASSUME NEW p \in Processes, NEW d \in Deliveries, AnyWebhook(p, d) PROVE IntakeInv'
  <2>1. \E fresh : Arrive(p, d, fresh)
    BY <1>1 DEF AnyWebhook, LinearWebhook, GithubWebhook, GitlabWebhook, JiraWebhook,
                SlackWebhook, TeamsWebhook
  <2> QED
    BY <2>1, IntakeArrive
<1>2. ASSUME NEW p \in Processes, RouteDecision(p) PROVE IntakeInv'
  BY <1>2, IntakeRoute DEF RouteDecision
<1>3. ASSUME NEW p \in Processes, RouteTrigger(p) PROVE IntakeInv'
  BY <1>3, IntakeRoute DEF RouteTrigger
<1>4. ASSUME NEW p \in Processes, StartRun(p) PROVE IntakeInv'
  BY <1>4, IntakeRoute DEF StartRun
<1>5. ASSUME NEW p \in Processes, RouteRest(p) PROVE IntakeInv'
  BY <1>5, IntakeRoute DEF RouteRest
<1>6. ASSUME NEW p \in Processes, Die(p) PROVE IntakeInv'
  <2>1. process[p].pc \in {"route", "start"}
    BY <1>6 DEF Die, IntakeInv, Tasks
  <2> QED
    BY <1>6, <2>1, IntakeRoute DEF Die
<1>7. CASE Pass
  <2>1. /\ clock' = clock + 1 /\ clock \in Nat /\ DedupTtl \in Nat
        /\ UNCHANGED <<rows, process, handled, touched>>
    BY <1>7, IntakeAssumption DEF Pass, IntakeInv
  <2>2. ASSUME NEW d, NEW t, Remembered(d, t, clock, rows)
        PROVE  Remembered(d, t, clock', rows')
    BY <2>1, <2>2 DEF Remembered, DedupKey
  <2> QED
    BY <2>1, <2>2 DEF IntakeInv, HandledOncePerTtl, Remembered
<1>8. CASE UNCHANGED intakeVars
  BY <1>8 DEF intakeVars, IntakeInv, HandledOncePerTtl, Remembered
<1> QED
  BY <1>1, <1>2, <1>3, <1>4, <1>5, <1>6, <1>7, <1>8 DEF NextIntake, HandlerStep

IntakeSpec == InitIntake /\ [][NextIntake]_intakeVars

\* A delivery that carries an id is handled once per TTL, whatever repeats it
\* and whichever process dies, and touches its own tenant's runs only.
THEOREM DeliveriesAreHandledOnce == IntakeSpec => []HandledOncePerTtl
<1>1. IntakeInv => HandledOncePerTtl
  BY DEF IntakeInv
<1> QED
  BY <1>1, IntakeInit, IntakeNext, PTL DEF IntakeSpec

LEMMA IntakeAlone == ServicesSpec => IntakeSpec
<1>1. [NextServices]_servicesVars => [NextIntake]_intakeVars
  BY DEF NextServices, servicesVars, OthersStay, Still
<1> QED
  BY <1>1, PTL DEF ServicesSpec, InitServices, IntakeSpec

\* The same, of the run that checks every component.
THEOREM IntakeIsKept == ServicesSpec => []IntakeHolds
<1>1. HandledOncePerTtl => IntakeHolds
  BY DEF IntakeHolds
<1> QED
  BY <1>1, IntakeAlone, DeliveriesAreHandledOnce, PTL

-----------------------------------------------------------------------------
(* EpicFanOut: one active run per issue, whole fan-outs, honest roll-ups     *)

ChildNames == {ChildIssue(e, Decompose(Epics[e])[i]) : e \in DOMAIN Epics, i \in Nat}
RootNames == {RootIssue(e) : e \in DOMAIN Epics}

Rows == [issue : RootNames \cup ChildNames, status : RunStatuses,
         parent : Nat \cup {NoParent}]

Jobs ==
  {j \in [pc : {"check", "insert", "done"}, epic : DOMAIN Epics,
          repos : {Decompose(Epics[e]) : e \in DOMAIN Epics}, next : Nat,
          parent : Nat \cup {NoParent}, children : Seq(Nat)] :
     j.repos = Decompose(Epics[j.epic]) /\ j.next <= Len(j.repos)}

EpicTypes ==
  /\ family \in Seq(Rows)
  /\ starter \in [Starters -> Jobs \cup {Waiting}]

\* A run is a root, or the child of a root of its epic.
Rooted(r, runs) ==
  \/ runs[r].issue \in RootNames /\ runs[r].parent = NoParent
  \/ /\ runs[r].issue \in ChildNames
     /\ runs[r].parent \in DOMAIN runs
     /\ runs[runs[r].parent].parent = NoParent
     /\ runs[runs[r].parent].issue = RootIssue(runs[r].issue[1])

OneActivePerIssue(runs) ==
  \A q, r \in DOMAIN runs :
    q # r /\ runs[q].issue = runs[r].issue =>
      runs[q].status \notin ActiveStatuses \/ runs[r].status \notin ActiveStatuses

\* What a starter has of its epic: the parent, and a run for each repository
\* before the next.
JobHolds(job, runs) ==
  /\ job.pc = "done" => job.next = Len(job.repos)
  /\ job.next = 0 => job.children = <<>>
  /\ job.next > 0 => Len(job.children) = IF job.pc = "done" THEN job.next ELSE job.next - 1
  /\ job.next > 0 \/ job.pc = "done" =>
       /\ job.parent \in DOMAIN runs
       /\ runs[job.parent].issue = RootIssue(job.epic)
  /\ \A i \in DOMAIN job.children :
       /\ job.children[i] \in DOMAIN runs
       /\ runs[job.children[i]].issue = ChildIssue(job.epic, job.repos[i])

EpicInv ==
  /\ EpicTypes
  /\ \A r \in DOMAIN family : Rooted(r, family)
  /\ OneActivePerIssue(family)
  /\ \A s \in Starters : starter[s] # Waiting => JobHolds(starter[s], family)

LEMMA JobOrWaiting ==
  /\ Waiting.pc = "idle"
  /\ \A j \in Jobs : j # Waiting
<1>1. Waiting.pc = "idle"
  BY DEF Waiting
<1> QED
  BY <1>1 DEF Jobs

\* An issue says whether it is an epic's or a child's, and of which epic.
LEMMA IssueShapes ==
  /\ \A e, f : RootIssue(e) = RootIssue(f) => e = f
  /\ \A e, f, r : ChildIssue(e, r) # RootIssue(f)
  /\ \A e, r : ChildIssue(e, r)[1] = e /\ Len(ChildIssue(e, r)) = 2
  /\ \A n \in RootNames : n \notin ChildNames
<1>1. \A e : Len(RootIssue(e)) = 1 /\ RootIssue(e)[1] = e
  BY DEF RootIssue
<1>2. \A e, r : ChildIssue(e, r)[1] = e /\ Len(ChildIssue(e, r)) = 2
  BY DEF ChildIssue
<1>3. \A e, f, r : ChildIssue(e, r) # RootIssue(f)
  BY <1>1, <1>2
<1> QED
  BY <1>1, <1>2, <1>3 DEF RootNames, ChildNames

\* Keeping the first of each name keeps a number of names.
LEMMA DedupeLength ==
  ASSUME NEW names \in Seq(DOMAIN Slug), NEW wanted
  PROVE  Len(DedupeFirst(names, wanted)) \in Nat
<1> DEFINE first == {i \in DOMAIN names :
                       names[i] \in wanted /\ \A j \in 1..i - 1 : names[j] # names[i]}
           nth(k) == CHOOSE i \in first : Cardinality({j \in first : j <= i}) = k
<1>1. Len(names) \in Nat /\ DOMAIN names = 1..Len(names)
  OBVIOUS
<1>2. IsFiniteSet(1..Len(names))
  BY <1>1, FS_Interval
<1>3. first \subseteq 1..Len(names)
  BY <1>1
<1>4. IsFiniteSet(first)
  BY <1>2, <1>3, FS_Subset
<1>5. Cardinality(first) \in Nat
  BY <1>4, FS_CardinalityType
<1>6. DedupeFirst(names, wanted) = [k \in 1..Cardinality(first) |-> names[nth(k)]]
  BY Zenon DEF DedupeFirst
<1> HIDE DEF first, nth
<1>7. Len([k \in 1..Cardinality(first) |-> names[nth(k)]]) = Cardinality(first)
  BY <1>5
<1> QED
  BY <1>5, <1>6, <1>7

LEMMA DecomposeLength ==
  ASSUME NEW epic \in DOMAIN Epics
  PROVE  Len(Decompose(Epics[epic])) \in Nat
<1> DEFINE t == Epics[epic]
           listed == DedupeFirst(t.section, DOMAIN Slug)
           known == DedupeFirst(t.known, DOMAIN Slug)
           grounded == DedupeFirst(t.proposed, t.words)
<1>1. Len(listed) \in Nat /\ Len(known) \in Nat /\ Len(grounded) \in Nat
  BY EpicAssumption, DedupeLength
<1>2. Decompose(t) \in {listed, known, grounded, <<>>}
  BY DEF Decompose, DecomposeEpic
<1>3. Len(<<>>) = 0
  OBVIOUS
<1> HIDE DEF listed, known, grounded
<1> QED
  BY <1>1, <1>2, <1>3

LEMMA EpicsInit == InitEpics => EpicInv
<1> SUFFICES ASSUME InitEpics PROVE EpicInv
  OBVIOUS
<1>1. family \in Seq(Rows) /\ DOMAIN family = {}
  BY DEF InitEpics
<1>2. starter = [s \in Starters |-> Waiting]
  BY DEF InitEpics
<1> QED
  BY <1>1, <1>2 DEF EpicInv, EpicTypes, OneActivePerIssue

\* Runs keep their issue and their parent.
Grows(runs, later) ==
  /\ DOMAIN runs \subseteq DOMAIN later
  /\ \A r \in DOMAIN runs : later[r].issue = runs[r].issue /\ later[r].parent = runs[r].parent

LEMMA GrowthKeepsJobs ==
  ASSUME NEW runs, NEW later, Grows(runs, later), NEW job, JobHolds(job, runs)
  PROVE  JobHolds(job, later)
BY DEF Grows, JobHolds

LEMMA GrowthKeepsRoots ==
  ASSUME NEW runs, NEW later, Grows(runs, later), NEW r \in DOMAIN runs, Rooted(r, runs)
  PROVE  Rooted(r, later)
BY DEF Grows, Rooted

\* A run for the issue it was at takes a starter to its next issue.
LEMMA PlannedHolds ==
  ASSUME NEW job \in Jobs, NEW runs, JobHolds(job, runs), job.pc = "insert",
         NEW id \in DOMAIN runs, id \in Nat, runs[id].issue = IssueOf(job)
  PROVE  Planned(job, id) \in Jobs /\ JobHolds(Planned(job, id), runs)
<1> DEFINE next == Planned(job, id)
           n == job.next
           m == Len(job.repos)
<1>1. /\ n \in Nat /\ m \in Nat /\ n <= m /\ job.children \in Seq(Nat)
      /\ job.epic \in DOMAIN Epics /\ job.repos = Decompose(Epics[job.epic])
      /\ job.parent \in Nat \cup {NoParent}
  BY DecomposeLength DEF Jobs
<1>2. CASE n = 0
  <2> DEFINE now == [job EXCEPT !.parent = id]
  <2>1. next = IF n = m THEN [now EXCEPT !.pc = "done"]
               ELSE [now EXCEPT !.pc = "check", !.next = @ + 1]
    BY <1>2 DEF Planned
  <2>5. now \in Jobs /\ now.next = 0 /\ now.parent = id /\ now.pc = "insert"
        /\ now.repos = job.repos /\ now.epic = job.epic /\ now.children = job.children
    BY <1>1, <1>2 DEF Jobs
  <2> HIDE DEF next, now
  <2>2. /\ next.repos = job.repos /\ next.epic = job.epic /\ next.parent = id
        /\ next.children = job.children
        /\ next.pc = IF n = m THEN "done" ELSE "check"
        /\ next.next = IF n = m THEN 0 ELSE 1
        /\ next \in Jobs
    <3>1. CASE n = m
      <4>1. next = [now EXCEPT !.pc = "done"]
        BY <2>1, <3>1
      <4> QED
        BY <2>5, <3>1, <4>1, <1>2 DEF Jobs
    <3>2. CASE n # m
      <4>1. next = [[now EXCEPT !.pc = "check"] EXCEPT !.next = 1]
        BY <2>1, <2>5, <3>2
      <4>2. 1 <= m
        BY <1>1, <1>2, <3>2
      <4> QED
        BY <2>5, <3>2, <4>1, <4>2, <1>2 DEF Jobs
    <3> QED
      BY <3>1, <3>2
  <2>3. runs[id].issue = RootIssue(job.epic)
    BY <1>2 DEF IssueOf
  <2>4. job.children = <<>> /\ Len(job.children) = 0 /\ DOMAIN job.children = {}
    BY <1>2 DEF JobHolds
  <2>6. n = m => JobHolds(next, runs)
    <3> SUFFICES ASSUME n = m PROVE JobHolds(next, runs)
      OBVIOUS
    <3>1. next.pc = "done" /\ next.next = 0 /\ Len(next.repos) = 0
      BY <1>2, <2>2
    <3> QED
      BY <2>2, <2>3, <2>4, <3>1 DEF JobHolds
  <2>7. n # m => JobHolds(next, runs)
    <3> SUFFICES ASSUME n # m PROVE JobHolds(next, runs)
      OBVIOUS
    <3>1. next.pc = "check" /\ next.next = 1
      BY <2>2
    <3> QED
      BY <2>2, <2>3, <2>4, <3>1 DEF JobHolds
  <2> QED
    BY <2>2, <2>6, <2>7 DEF next
<1>3. CASE n # 0
  <2> DEFINE now == [job EXCEPT !.children = Append(@, id)]
  <2>1. next = IF n = m THEN [now EXCEPT !.pc = "done"]
               ELSE [now EXCEPT !.pc = "check", !.next = @ + 1]
    BY <1>3 DEF Planned
  <2>a. Append(job.children, id) \in Seq(Nat)
    BY <1>1, AppendProperties
  <2>b. now \in Jobs /\ now.next = n /\ now.parent = job.parent /\ now.pc = "insert"
        /\ now.repos = job.repos /\ now.epic = job.epic
        /\ now.children = Append(job.children, id)
    BY <1>1, <2>a DEF Jobs
  <2> HIDE DEF next, now
  <2>2. /\ next.repos = job.repos /\ next.epic = job.epic /\ next.parent = job.parent
        /\ next.children = Append(job.children, id)
        /\ next.pc = IF n = m THEN "done" ELSE "check"
        /\ next.next = IF n = m THEN n ELSE n + 1
        /\ next \in Jobs
    <3>1. CASE n = m
      <4>1. next = [now EXCEPT !.pc = "done"]
        BY <2>1, <3>1
      <4> QED
        BY <2>b, <3>1, <4>1 DEF Jobs
    <3>2. CASE n # m
      <4>1. next = [[now EXCEPT !.pc = "check"] EXCEPT !.next = n + 1]
        BY <2>1, <2>b, <3>2
      <4>2. n + 1 <= m /\ n + 1 \in Nat
        BY <1>1, <3>2
      <4> QED
        BY <2>b, <3>2, <4>1, <4>2 DEF Jobs
    <3> QED
      BY <3>1, <3>2
  <2>3. runs[id].issue = ChildIssue(job.epic, job.repos[n])
    BY <1>3 DEF IssueOf
  <2>4. Len(job.children) = n - 1
    BY <1>1, <1>3 DEF JobHolds
  <2>5. /\ Len(next.children) = n /\ DOMAIN next.children = 1..n
        /\ next.children[n] = id
        /\ \A i \in 1..(n - 1) : next.children[i] = job.children[i]
        /\ DOMAIN job.children = 1..(n - 1)
    BY <1>1, <2>2, <2>4, AppendProperties
  <2> HIDE DEF next, m
  <2>6. ASSUME NEW i \in DOMAIN next.children
        PROVE  /\ next.children[i] \in DOMAIN runs
               /\ runs[next.children[i]].issue = ChildIssue(next.epic, next.repos[i])
    <3>1. CASE i = n
      BY <2>2, <2>3, <2>5, <3>1
    <3>2. CASE i # n
      <4>1. i \in 1..(n - 1)
        BY <1>1, <2>5, <3>2
      <4> QED
        BY <2>2, <2>5, <4>1 DEF JobHolds
    <3> QED
      BY <3>1, <3>2
  <2>7. job.parent \in DOMAIN runs /\ runs[job.parent].issue = RootIssue(job.epic)
    BY <1>1, <1>3 DEF JobHolds
  <2>8. n = m => JobHolds(next, runs)
    <3> SUFFICES ASSUME n = m PROVE JobHolds(next, runs)
      OBVIOUS
    <3>1. next.pc = "done" /\ next.next = n /\ Len(next.repos) = n
      BY <2>2 DEF m
    <3> QED
      BY <1>1, <1>3, <2>2, <2>5, <2>6, <2>7, <3>1 DEF JobHolds
  <2>9. n # m => JobHolds(next, runs)
    <3> SUFFICES ASSUME n # m PROVE JobHolds(next, runs)
      OBVIOUS
    <3>1. next.pc = "check" /\ next.next = n + 1 /\ n + 1 > 0 /\ (n + 1) - 1 = n
      BY <1>1, <2>2
    <3> QED
      BY <1>1, <1>3, <2>2, <2>5, <2>6, <2>7, <3>1 DEF JobHolds
  <2> QED
    BY <2>2, <2>8, <2>9 DEF next
<1> QED
  BY <1>2, <1>3

\* A starter's step leaves the runs alone, or adds one.
LEMMA StarterMoves ==
  ASSUME EpicInv, NEW s \in Starters, NEW job, job = Waiting \/ job \in Jobs,
         starter' = [starter EXCEPT ![s] = job],
         Grows(family, family'), job # Waiting => JobHolds(job, family')
  PROVE  /\ starter' \in [Starters -> Jobs \cup {Waiting}]
         /\ \A r \in Starters : starter'[r] # Waiting => JobHolds(starter'[r], family')
<1>1. starter \in [Starters -> Jobs \cup {Waiting}]
  BY DEF EpicInv, EpicTypes
<1>2. \A r \in Starters : starter'[r] = IF r = s THEN job ELSE starter[r]
  BY <1>1
<1>3. ASSUME NEW r \in Starters, r # s, starter[r] # Waiting
      PROVE  JobHolds(starter[r], family')
  BY <1>3, GrowthKeepsJobs DEF EpicInv
<1> QED
  BY <1>1, <1>2, <1>3

LEMMA NothingGrows == UNCHANGED family => Grows(family, family')
BY DEF Grows

LEMMA EpicsBegin ==
  ASSUME EpicInv, NEW s \in Starters, NEW epic \in DOMAIN Epics, Begin(s, epic)
  PROVE  EpicInv'
<1> DEFINE job == [pc |-> "check", epic |-> epic, repos |-> Decompose(Epics[epic]),
                   next |-> 0, parent |-> NoParent, children |-> <<>>]
<1>1. /\ starter' = [starter EXCEPT ![s] = job]
      /\ UNCHANGED family
  BY DEF Begin
<1>2. job \in Jobs
  <2>1. Len(Decompose(Epics[epic])) \in Nat /\ <<>> \in Seq(Nat)
    BY DecomposeLength
  <2> QED
    BY <2>1 DEF Jobs
<1>3. JobHolds(job, family')
  BY DEF JobHolds
<1> HIDE DEF job
<1>4. /\ starter' \in [Starters -> Jobs \cup {Waiting}]
      /\ \A r \in Starters : starter'[r] # Waiting => JobHolds(starter'[r], family')
  BY <1>1, <1>2, <1>3, NothingGrows, StarterMoves
<1> QED
  BY <1>1, <1>4 DEF EpicInv, EpicTypes, OneActivePerIssue

LEMMA EpicsCheck ==
  ASSUME EpicInv, NEW s \in Starters, Check(s)
  PROVE  EpicInv'
<1> DEFINE job == starter[s]
           now == [job EXCEPT !.pc = "insert"]
<1>1. job.pc = "check" /\ UNCHANGED family
  BY DEF Check
<1>2. starter' = [starter EXCEPT ![s] = Waiting] \/ starter' = [starter EXCEPT ![s] = now]
  BY DEF Check
<1>3. job \in Jobs /\ JobHolds(job, family)
  BY <1>1, JobOrWaiting DEF EpicInv, EpicTypes
<1>4. now \in Jobs
  BY <1>3 DEF Jobs
<1>5. /\ now.pc = "insert" /\ now.epic = job.epic /\ now.repos = job.repos
      /\ now.next = job.next /\ now.parent = job.parent /\ now.children = job.children
  BY <1>3 DEF Jobs
<1> HIDE DEF job, now
<1>6. JobHolds(now, family')
  BY <1>1, <1>3, <1>5 DEF JobHolds
<1>7. /\ starter' \in [Starters -> Jobs \cup {Waiting}]
      /\ \A r \in Starters : starter'[r] # Waiting => JobHolds(starter'[r], family')
  BY <1>1, <1>2, <1>4, <1>6, NothingGrows, StarterMoves
<1> QED
  BY <1>1, <1>7 DEF EpicInv, EpicTypes, OneActivePerIssue

LEMMA EpicsInsert ==
  ASSUME EpicInv, NEW s \in Starters, InsertRun(s)
  PROVE  EpicInv'
<1> DEFINE job == starter[s]
           row == [issue |-> IssueOf(job), status |-> "waiting_approval",
                   parent |-> IF job.next = 0 THEN NoParent ELSE job.parent]
           id == Len(family) + 1
           now == Planned(job, id)
<1>1. /\ job.pc = "insert" /\ ActiveRuns(IssueOf(job)) = {}
      /\ family' = Append(family, row)
      /\ starter' = [starter EXCEPT ![s] = now]
  BY DEF InsertRun
<1>2. job \in Jobs /\ JobHolds(job, family)
  BY <1>1, JobOrWaiting DEF EpicInv, EpicTypes
<1>3. /\ job.epic \in DOMAIN Epics /\ job.next \in Nat
      /\ job.repos = Decompose(Epics[job.epic])
      /\ job.parent \in Nat \cup {NoParent}
  BY <1>2 DEF Jobs
<1>4. /\ job.next = 0 => IssueOf(job) = RootIssue(job.epic)
      /\ job.next # 0 => IssueOf(job) = ChildIssue(job.epic, job.repos[job.next])
      /\ job.next = 0 => IssueOf(job) \in RootNames
      /\ job.next # 0 => IssueOf(job) \in ChildNames
  BY <1>3 DEF IssueOf, RootNames, ChildNames
<1>5. row \in Rows
  BY <1>3, <1>4 DEF Rows, RunStatuses, ActiveStatuses
<1>r. /\ row.issue = IssueOf(job)
      /\ row.parent = IF job.next = 0 THEN NoParent ELSE job.parent
  OBVIOUS
<1> HIDE DEF row, job, now
<1>6. family \in Seq(Rows) /\ Len(family) \in Nat
  BY DEF EpicInv, EpicTypes
<1>7. /\ family' \in Seq(Rows) /\ DOMAIN family = 1..Len(family)
      /\ DOMAIN family' = 1..id /\ id \in Nat
      /\ \A r \in 1..Len(family) : family'[r] = family[r]
      /\ family'[id] = row
  BY <1>1, <1>5, <1>6, AppendProperties
<1>8. /\ Grows(family, family') /\ id \in DOMAIN family' /\ id \notin DOMAIN family
      /\ DOMAIN family' = DOMAIN family \cup {id}
      /\ \A r \in DOMAIN family : family'[r] = family[r]
  BY <1>6, <1>7 DEF Grows
<1> HIDE DEF id
<1>9. JobHolds(job, family')
  BY <1>2, <1>8, GrowthKeepsJobs
<1>10. now \in Jobs /\ JobHolds(now, family')
  BY <1>1, <1>2, <1>7, <1>8, <1>9, <1>r, PlannedHolds DEF now
<1>11. /\ starter' \in [Starters -> Jobs \cup {Waiting}]
       /\ \A r \in Starters : starter'[r] # Waiting => JobHolds(starter'[r], family')
  BY <1>1, <1>8, <1>10, StarterMoves
<1>12. ASSUME NEW r \in DOMAIN family' PROVE Rooted(r, family')
  <2>1. CASE r \in DOMAIN family
    BY <1>8, <2>1, GrowthKeepsRoots DEF EpicInv
  <2>2. CASE r = id /\ job.next = 0
    BY <1>4, <1>7, <1>r, <2>2 DEF Rooted
  <2>3. CASE r = id /\ job.next # 0
    <3>1. job.parent \in DOMAIN family /\ family[job.parent].issue = RootIssue(job.epic)
      BY <1>2, <1>3, <2>3 DEF JobHolds
    <3>2. family[job.parent].parent = NoParent
      <4>1. Rooted(job.parent, family)
        BY <3>1 DEF EpicInv
      <4>2. RootIssue(job.epic) \notin ChildNames
        BY <1>3, IssueShapes DEF RootNames
      <4> QED
        BY <3>1, <4>1, <4>2 DEF Rooted
    <3>3. /\ family'[r].parent = job.parent
          /\ family'[r].issue \in ChildNames /\ family'[r].issue[1] = job.epic
      BY <1>4, <1>7, <1>r, <2>3, IssueShapes
    <3> QED
      BY <1>8, <3>1, <3>2, <3>3 DEF Rooted
  <2> QED
    BY <1>8, <2>1, <2>2, <2>3
<1>13. \A r \in DOMAIN family :
         family[r].issue = row.issue => family[r].status \notin ActiveStatuses
  BY <1>1, <1>r DEF ActiveRuns
<1>14. OneActivePerIssue(family')
  BY <1>7, <1>8, <1>13 DEF EpicInv, OneActivePerIssue
<1> QED
  BY <1>7, <1>11, <1>12, <1>14 DEF EpicInv, EpicTypes

LEMMA EpicsAttach ==
  ASSUME EpicInv, NEW s \in Starters, Attach(s)
  PROVE  EpicInv'
<1> DEFINE job == starter[s]
<1>1. /\ job.pc = "insert" /\ UNCHANGED family
      /\ \E id \in ActiveRuns(IssueOf(job)) :
           starter' = [starter EXCEPT ![s] = Planned(job, id)]
  BY DEF Attach
<1>2. job \in Jobs /\ JobHolds(job, family)
  BY <1>1, JobOrWaiting DEF EpicInv, EpicTypes
<1> HIDE DEF job
<1>3. PICK id \in ActiveRuns(IssueOf(job)) :
        starter' = [starter EXCEPT ![s] = Planned(job, id)]
  BY <1>1
<1>4. id \in DOMAIN family /\ family[id].issue = IssueOf(job) /\ id \in Nat
  BY DEF ActiveRuns, EpicInv, EpicTypes
<1>5. Planned(job, id) \in Jobs /\ JobHolds(Planned(job, id), family)
  BY <1>1, <1>2, <1>4, PlannedHolds
<1>6. /\ starter' \in [Starters -> Jobs \cup {Waiting}]
      /\ \A r \in Starters : starter'[r] # Waiting => JobHolds(starter'[r], family')
  BY <1>1, <1>3, <1>5, NothingGrows, StarterMoves
<1> QED
  BY <1>1, <1>6 DEF EpicInv, EpicTypes, OneActivePerIssue

LEMMA EpicsGiveUp ==
  ASSUME EpicInv, NEW s \in Starters, GiveUp(s)
  PROVE  EpicInv'
<1>1. starter' = [starter EXCEPT ![s] = Waiting] /\ UNCHANGED family
  BY DEF GiveUp
<1>2. /\ starter' \in [Starters -> Jobs \cup {Waiting}]
      /\ \A r \in Starters : starter'[r] # Waiting => JobHolds(starter'[r], family')
  BY <1>1, NothingGrows, StarterMoves
<1> QED
  BY <1>1, <1>2 DEF EpicInv, EpicTypes, OneActivePerIssue

LEMMA EpicsEndRun ==
  ASSUME EpicInv, NEW r \in DOMAIN family, EndRun(r)
  PROVE  EpicInv'
<1>1. PICK status \in {"complete", "blocked"} :
        family' = [family EXCEPT ![r].status = status]
  BY DEF EndRun
<1>2. UNCHANGED starter
  BY DEF EndRun
<1>3. /\ family \in Seq(Rows) /\ family[r] \in Rows
      /\ status \in RunStatuses /\ status \notin ActiveStatuses
  BY DEF EpicInv, EpicTypes, RunStatuses, ActiveStatuses, TerminalStatuses
<1>4. /\ family' \in Seq(Rows) /\ DOMAIN family' = DOMAIN family
      /\ \A q \in DOMAIN family :
           /\ family'[q].issue = family[q].issue /\ family'[q].parent = family[q].parent
           /\ family'[q].status = IF q = r THEN status ELSE family[q].status
  <2>1. [family[r] EXCEPT !.status = status] \in Rows
    BY <1>3 DEF Rows
  <2>2. /\ [family[r] EXCEPT !.status = status].issue = family[r].issue
        /\ [family[r] EXCEPT !.status = status].parent = family[r].parent
        /\ [family[r] EXCEPT !.status = status].status = status
    BY <1>3 DEF Rows
  <2> DEFINE row == [family[r] EXCEPT !.status = status]
  <2>3. family' = [family EXCEPT ![r] = row]
    BY <1>1
  <2> HIDE DEF row
  <2>4. family' \in Seq(Rows) /\ DOMAIN family' = DOMAIN family
    BY <1>3, <2>1, <2>3, ExceptSeq DEF row
  <2> QED
    BY <2>2, <2>3, <2>4 DEF row
<1>5. Grows(family, family')
  BY <1>4 DEF Grows
<1>6. \A s \in Starters : starter'[s] # Waiting => JobHolds(starter'[s], family')
  BY <1>2, <1>5, GrowthKeepsJobs DEF EpicInv
<1>7. \A q \in DOMAIN family' : Rooted(q, family')
  BY <1>4, <1>5, GrowthKeepsRoots DEF EpicInv
<1>8. OneActivePerIssue(family')
  BY <1>3, <1>4 DEF EpicInv, OneActivePerIssue
<1> QED
  BY <1>2, <1>4, <1>6, <1>7, <1>8 DEF EpicInv, EpicTypes

LEMMA EpicsNext == EpicInv /\ [NextEpics]_epicVars => EpicInv'
<1> SUFFICES ASSUME EpicInv, [NextEpics]_epicVars PROVE EpicInv'
  OBVIOUS
<1>1. CASE UNCHANGED epicVars
  BY <1>1 DEF epicVars, EpicInv, EpicTypes, OneActivePerIssue
<1> QED
  BY <1>1, EpicsBegin, EpicsCheck, EpicsInsert, EpicsAttach, EpicsGiveUp, EpicsEndRun
     DEF NextEpics

\* What the roll-up counts is what the children's statuses are.
LEMMA RollupsFollow == EpicInv => RollupsAddUp
<1> SUFFICES ASSUME EpicInv, NEW e \in DOMAIN family
    PROVE  LET done == {family[r].status : r \in ChildRuns(e)}
           IN  /\ EpicRollup(e) = "in_progress" <=> done \cap ActiveStatuses # {}
               /\ EpicRollup(e) = "complete" <=> done = {"complete"}
               /\ EpicRollup(e) = "failed" <=>
                    done # {} /\ done \cap (ActiveStatuses \cup {"complete"}) = {}
  BY DEF RollupsAddUp
<1> DEFINE runs == ChildRuns(e)
           active == {r \in runs : Bucket(family[r].status) = "active"}
           whole == {r \in runs : Bucket(family[r].status) = "complete"}
<1>1. IsFiniteSet(runs)
  <2>1. IsFiniteSet(1..Len(family))
    BY FS_Interval DEF EpicInv, EpicTypes
  <2>2. runs \subseteq 1..Len(family)
    BY DEF ChildRuns, EpicInv, EpicTypes
  <2> QED
    BY <2>1, <2>2, FS_Subset
<1>2. active \subseteq runs /\ whole \subseteq runs
  OBVIOUS
<1>3. /\ IsFiniteSet(active) /\ IsFiniteSet(whole)
      /\ Cardinality(active) \in Nat /\ Cardinality(whole) \in Nat /\ Cardinality(runs) \in Nat
      /\ Cardinality(whole) = Cardinality(runs) => whole = runs
  BY <1>1, <1>2, FS_Subset, FS_CardinalityType
<1>4. /\ Cardinality(active) = 0 <=> active = {}
      /\ Cardinality(whole) = 0 <=> whole = {}
  BY <1>3, FS_EmptySet
<1>5. /\ active = {r \in runs : family[r].status \in ActiveStatuses}
      /\ whole = {r \in runs : family[r].status = "complete"}
      /\ "complete" \notin ActiveStatuses
  BY DEF Bucket, ActiveStatuses
<1>6. EpicRollup(e) =
        IF runs = {} THEN "empty"
        ELSE IF Cardinality(active) > 0 THEN "in_progress"
        ELSE IF Cardinality(whole) = Cardinality(runs) THEN "complete"
        ELSE IF Cardinality(whole) = 0 THEN "failed" ELSE "partial"
  BY DEF EpicRollup, RollupStatus, Counted
<1> HIDE DEF runs, active, whole
<1>7. EpicRollup(e) =
        IF runs = {} THEN "empty"
        ELSE IF active # {} THEN "in_progress"
        ELSE IF whole = runs THEN "complete"
        ELSE IF whole = {} THEN "failed" ELSE "partial"
  BY <1>3, <1>4, <1>6
<1> DEFINE done == {family[r].status : r \in runs}
<1>8. /\ done \cap ActiveStatuses # {} <=> active # {}
      /\ done # {} <=> runs # {}
      /\ "complete" \in done <=> whole # {}
      /\ done = {"complete"} <=> runs # {} /\ whole = runs
  BY <1>5
<1>9. done \cap (ActiveStatuses \cup {"complete"}) = {} <=> active = {} /\ whole = {}
  BY <1>5
<1>10. (runs # {} /\ whole = runs) => active = {}
  BY <1>5
<1> HIDE DEF done
<1>11. /\ EpicRollup(e) = "in_progress" <=> done \cap ActiveStatuses # {}
       /\ EpicRollup(e) = "complete" <=> done = {"complete"}
       /\ EpicRollup(e) = "failed" <=>
            done # {} /\ done \cap (ActiveStatuses \cup {"complete"}) = {}
  BY <1>2, <1>7, <1>8, <1>9, <1>10
<1> QED
  BY <1>11 DEF done, runs

LEMMA EpicsAreHeld == EpicInv => EpicsHold
<1> SUFFICES ASSUME EpicInv PROVE EpicsHold
  OBVIOUS
<1>1. ASSUME NEW q \in DOMAIN family, NEW r \in DOMAIN family,
             q # r, family[q].issue = family[r].issue
      PROVE  {family[q].status, family[r].status} \cap TerminalStatuses # {}
  <2>1. family[q].status \in RunStatuses /\ family[r].status \in RunStatuses
    <3>1. family[q] \in Rows /\ family[r] \in Rows
      BY DEF EpicInv, EpicTypes
    <3> QED
      BY <3>1 DEF Rows
  <2>2. family[q].status \notin ActiveStatuses \/ family[r].status \notin ActiveStatuses
    BY <1>1 DEF EpicInv, OneActivePerIssue
  <2> QED
    BY <2>1, <2>2 DEF RunStatuses
<1>2. LineageHolds
  <2>1. ASSUME NEW r \in DOMAIN family, family[r].parent # NoParent
        PROVE  /\ family[family[r].parent].parent = NoParent
               /\ family[family[r].parent].issue = RootIssue(family[r].issue[1])
               /\ Len(family[r].issue) = 2
               /\ EpicRootId(r) \in ListEpics
    <3>1. Rooted(r, family) /\ family[r].issue \in ChildNames
          /\ family[r].parent \in DOMAIN family
      BY <2>1 DEF EpicInv, Rooted
    <3>2. Len(family[r].issue) = 2
      BY <3>1, IssueShapes DEF ChildNames
    <3>3. EpicRootId(r) \in ListEpics
      BY <2>1, <3>1 DEF EpicRootId, ListEpics, ChildRuns
    <3> QED
      BY <2>1, <3>1, <3>2, <3>3 DEF Rooted
  <2>2. \A e, f \in ListEpics : e # f => ChildRuns(e) \cap ChildRuns(f) = {}
    BY DEF ChildRuns
  <2> QED
    BY <2>1, <2>2 DEF LineageHolds
<1>3. FanOutsAreWhole
  <2> SUFFICES ASSUME NEW s \in Starters, starter[s].pc = "done"
      PROVE  LET job == starter[s]
             IN  /\ family[job.parent].issue = RootIssue(job.epic)
                 /\ Len(job.children) = Len(job.repos)
                 /\ \A i \in DOMAIN job.children :
                      LET child == family[job.children[i]]
                      IN  /\ child.issue = ChildIssue(job.epic, job.repos[i])
                          /\ child.parent # NoParent
                          /\ family[child.parent].issue = RootIssue(job.epic)
    BY DEF FanOutsAreWhole
  <2> DEFINE job == starter[s]
  <2>1. job \in Jobs /\ JobHolds(job, family)
    BY JobOrWaiting DEF EpicInv, EpicTypes
  <2> HIDE DEF job
  <2>p. job.pc = "done"
    BY DEF job
  <2>2. family[job.parent].issue = RootIssue(job.epic)
    BY <2>1, <2>p DEF JobHolds
  <2>3. Len(job.children) = Len(job.repos)
    <3>1. job.next \in Nat
      BY <2>1 DEF Jobs
    <3>2. Len(<<>>) = 0
      OBVIOUS
    <3>3. CASE job.next = 0
      BY <2>1, <2>p, <3>2, <3>3 DEF JobHolds
    <3>4. CASE job.next # 0
      BY <2>1, <2>p, <3>1, <3>4 DEF JobHolds
    <3> QED
      BY <3>3, <3>4
  <2>4. ASSUME NEW i \in DOMAIN job.children
        PROVE  LET child == family[job.children[i]]
               IN  /\ child.issue = ChildIssue(job.epic, job.repos[i])
                   /\ child.parent # NoParent
                   /\ family[child.parent].issue = RootIssue(job.epic)
    <3> DEFINE c == job.children[i]
    <3>1. c \in DOMAIN family /\ family[c].issue = ChildIssue(job.epic, job.repos[i])
      BY <2>1 DEF JobHolds
    <3>2. Rooted(c, family)
      BY <3>1 DEF EpicInv
    <3>3. family[c].issue \notin RootNames /\ family[c].issue[1] = job.epic
      BY <3>1, IssueShapes DEF RootNames
    <3>4. NoParent \notin DOMAIN family
      BY EpicAssumption DEF EpicInv, EpicTypes
    <3> QED
      BY <3>1, <3>2, <3>3, <3>4 DEF Rooted
  <2> QED
    BY <2>2, <2>3, <2>4 DEF job
<1> QED
  BY <1>1, <1>2, <1>3, RollupsFollow DEF EpicsHold

EpicsSpec == InitEpics /\ [][NextEpics]_epicVars

\* An issue has one active run however starters race, children hang under a
\* root of their epic, a fan-out that returned is whole, and the roll-up says
\* what the children's statuses say.
THEOREM EpicsComeWhole == EpicsSpec => []EpicsHold
<1> QED
  BY EpicsInit, EpicsNext, EpicsAreHeld, PTL DEF EpicsSpec

LEMMA EpicsAlone == ServicesSpec => EpicsSpec
<1>1. [NextServices]_servicesVars => [NextEpics]_epicVars
  BY DEF NextServices, servicesVars, OthersStay, Still
<1> QED
  BY <1>1, PTL DEF ServicesSpec, InitServices, EpicsSpec

\* The same, of the run that checks every component.
THEOREM EpicsAreKept == ServicesSpec => []EpicsStayWhole
<1>1. EpicsHold => EpicsStayWhole
  BY DEF EpicsStayWhole
<1> QED
  BY <1>1, EpicsAlone, EpicsComeWhole, PTL

-----------------------------------------------------------------------------
(* RateLimiter: at most two windows' worth in any window's length            *)

\* The last `count' requests of c were admitted in the window that starts at
\* `start'; those before them before it, and all but RateLimit of those before
\* the window before it.
Fills(c, start, count) ==
  LET n == Len(admitted[c])
  IN  /\ start \in Nat /\ start <= tick /\ count \in 0..RateLimit /\ count <= n
      /\ \A i \in 1..n :
           /\ admitted[c][i] < start + RateWindow
           /\ i <= n - count => admitted[c][i] < start
           /\ i > n - count => admitted[c][i] >= start
           /\ i <= n - count - RateLimit => admitted[c][i] < start - RateWindow

\* The window of a key that is not in the table was over when it was dropped.
Over(c) ==
  LET n == Len(admitted[c])
  IN  \A i \in 1..n :
        /\ admitted[c][i] < tick
        /\ i <= n - RateLimit => admitted[c][i] < tick - RateWindow

LimiterTypes ==
  /\ tick \in Nat
  /\ admitted \in [Clients -> Seq(Nat)]
  /\ DOMAIN buckets \subseteq Clients
  /\ \A c \in DOMAIN buckets : buckets[c] \in [start : Nat, count : 0..RateLimit]
  /\ \A c \in Clients : \A i \in 1..Len(admitted[c]) : admitted[c][i] <= tick

Refusals == [allowed : {FALSE}, client : Clients, at : Nat, window : Nat, retry : Nat]

\* What a refused client was told.
AnswerHolds ==
  \/ answer.allowed = TRUE
  \/ /\ answer \in Refusals
     /\ answer.at <= tick
     /\ answer.at + answer.retry * TicksPerSecond >= answer.window + RateWindow
     /\ AdmittedWithin(answer.client, answer.at - RateWindow + 1, answer.at) >= RateLimit

LimiterInv ==
  /\ LimiterTypes
  /\ \A c \in DOMAIN buckets : Fills(c, buckets[c].start, buckets[c].count)
  /\ \A c \in Clients \ DOMAIN buckets : Over(c)
  /\ \A c \in Clients, from \in Nat :
       AdmittedWithin(c, from, from + RateWindow - 1) <= 2 * RateLimit
  /\ AnswerHolds

LEMMA LimiterConstants ==
  /\ RateLimit \in Nat /\ RateLimit > 0
  /\ RateWindow \in Nat /\ RateWindow > 0
  /\ TicksPerSecond \in Nat /\ TicksPerSecond > 0
BY LimiterAssumption

LEMMA LimiterInit == InitLimiter => LimiterInv
<1> SUFFICES ASSUME InitLimiter PROVE LimiterInv
  OBVIOUS
<1>1. /\ tick = 0 /\ DOMAIN buckets = {} /\ answer.allowed = TRUE
      /\ admitted = [c \in Clients |-> <<>>]
      /\ \A c \in Clients : admitted[c] = <<>>
  BY DEF InitLimiter
<1>2. \A c \in Clients : Len(admitted[c]) = 0 /\ DOMAIN admitted[c] = {}
  BY <1>1
<1>3. ASSUME NEW c \in Clients, NEW from \in Nat
      PROVE  AdmittedWithin(c, from, from + RateWindow - 1) <= 2 * RateLimit
  <2>1. {i \in DOMAIN admitted[c] : admitted[c][i] \in from..(from + RateWindow - 1)} = {}
    BY <1>2
  <2> QED
    BY <2>1, LimiterConstants, FS_EmptySet DEF AdmittedWithin
<1>4. LimiterTypes
  BY <1>1, <1>2 DEF LimiterTypes
<1>5. \A c \in Clients : Over(c)
  BY <1>2 DEF Over
<1> QED
  BY <1>1, <1>3, <1>4, <1>5 DEF LimiterInv, AnswerHolds

LEMMA AdmittedTicks ==
  ASSUME LimiterTypes, NEW c \in Clients
  PROVE  /\ admitted[c] \in Seq(Nat) /\ Len(admitted[c]) \in Nat
         /\ DOMAIN admitted[c] = 1..Len(admitted[c])
         /\ \A i \in 1..Len(admitted[c]) : admitted[c][i] \in Nat /\ admitted[c][i] <= tick
<1>1. admitted[c] \in Seq(Nat)
  BY DEF LimiterTypes
<1>2. Len(admitted[c]) \in Nat /\ DOMAIN admitted[c] = 1..Len(admitted[c])
  BY <1>1
<1>3. \A i \in 1..Len(admitted[c]) : admitted[c][i] \in Nat
  BY <1>1, <1>2, ElementOfSeq
<1> QED
  BY <1>1, <1>2, <1>3 DEF LimiterTypes

\* Counting admitted requests.
LEMMA CountingAdmitted ==
  ASSUME LimiterTypes, NEW c \in Clients, NEW from, NEW to
  PROVE  /\ IsFiniteSet({i \in DOMAIN admitted[c] : admitted[c][i] \in from..to})
         /\ AdmittedWithin(c, from, to) \in Nat
<1>1. IsFiniteSet(1..Len(admitted[c]))
  BY AdmittedTicks, FS_Interval
<1>2. {i \in DOMAIN admitted[c] : admitted[c][i] \in from..to} \subseteq 1..Len(admitted[c])
  BY AdmittedTicks
<1>3. IsFiniteSet({i \in DOMAIN admitted[c] : admitted[c][i] \in from..to})
  BY <1>1, <1>2, FS_Subset
<1> QED
  BY <1>3, FS_CardinalityType DEF AdmittedWithin

\* A window that is over leaves nothing that a new one could add up with.
LEMMA ElapsedIsOver ==
  ASSUME LimiterInv, NEW c \in Clients, NEW start, NEW count,
         Fills(c, start, count), tick - start >= RateWindow
  PROVE  Over(c)
<1> DEFINE n == Len(admitted[c])
<1>1. /\ tick \in Nat /\ start \in Nat /\ count \in 0..RateLimit /\ n \in Nat
      /\ RateLimit \in Nat /\ RateWindow \in Nat
      /\ \A i \in 1..n : admitted[c][i] \in Nat
  BY AdmittedTicks, LimiterConstants DEF LimiterInv, LimiterTypes, Fills
<1>2. ASSUME NEW i \in 1..n
      PROVE  /\ admitted[c][i] < tick
             /\ i <= n - RateLimit => admitted[c][i] < tick - RateWindow
  <2>1. /\ admitted[c][i] < start + RateWindow
        /\ i <= n - count => admitted[c][i] < start
    BY DEF Fills
  <2>2. admitted[c][i] \in Nat
    BY <1>1
  <2> HIDE DEF n
  <2> QED
    BY <1>1, <2>1, <2>2
<1> QED
  BY <1>2 DEF Over

\* Whatever window a request falls into is filled by the latest requests.
LEMMA CurrentFills ==
  ASSUME LimiterInv, NEW c \in Clients, NEW w, w = CurrentWindow(Swept, c)
  PROVE  /\ w \in [start : Nat, count : 0..RateLimit]
         /\ Fills(c, w.start, w.count)
         /\ tick - w.start < RateWindow
<1>t. /\ tick \in Nat /\ RateLimit \in Nat /\ RateLimit > 0
      /\ RateWindow \in Nat /\ RateWindow > 0 /\ Len(admitted[c]) \in Nat
      /\ \A i \in 1..Len(admitted[c]) : admitted[c][i] \in Nat
  BY LimiterConstants, AdmittedTicks DEF LimiterInv, LimiterTypes
<1>1. /\ \A d \in DOMAIN Swept : d \in DOMAIN buckets /\ Swept[d] = buckets[d]
      /\ \A d \in DOMAIN buckets : d \notin DOMAIN Swept => Elapsed(buckets[d])
  BY DEF Swept
<1>2. CASE c \in DOMAIN Swept /\ ~Elapsed(Swept[c])
  <2>1. w = buckets[c] /\ c \in DOMAIN buckets /\ ~Elapsed(buckets[c])
    BY <1>1, <1>2 DEF CurrentWindow
  <2>2. w \in [start : Nat, count : 0..RateLimit] /\ Fills(c, w.start, w.count)
    BY <2>1 DEF LimiterInv, LimiterTypes
  <2>3. w.start \in Nat /\ ~(tick - w.start >= RateWindow)
    BY <2>1, <2>2 DEF Elapsed
  <2> QED
    BY <1>t, <2>2, <2>3
<1>3. CASE ~(c \in DOMAIN Swept /\ ~Elapsed(Swept[c]))
  <2>1. w = [start |-> tick, count |-> 0]
    BY <1>3 DEF CurrentWindow
  <2>2. Over(c)
    <3>1. CASE c \notin DOMAIN buckets
      BY <3>1 DEF LimiterInv
    <3>2. CASE c \in DOMAIN buckets
      <4>1. Elapsed(buckets[c]) /\ Fills(c, buckets[c].start, buckets[c].count)
        BY <1>1, <1>3, <3>2 DEF LimiterInv
      <4> QED
        BY <4>1, ElapsedIsOver DEF Elapsed
    <3> QED
      BY <3>1, <3>2
  <2>3. w.start = tick /\ w.count = 0 /\ w \in [start : Nat, count : 0..RateLimit]
    BY <1>t, <2>1
  <2>4. Fills(c, tick, 0)
    BY <1>t, <2>2 DEF Fills, Over
  <2> QED
    BY <1>t, <2>3, <2>4
<1> QED
  BY <1>2, <1>3

\* What a sweep drops was over.
LEMMA SweepDropsTheOver ==
  ASSUME LimiterInv
  PROVE  /\ DOMAIN Swept \subseteq DOMAIN buckets
         /\ \A d \in DOMAIN Swept : Swept[d] = buckets[d]
         /\ \A d \in Clients : d \notin DOMAIN Swept => Over(d)
<1>1. /\ DOMAIN Swept \subseteq DOMAIN buckets
      /\ \A d \in DOMAIN Swept : Swept[d] = buckets[d]
      /\ \A d \in DOMAIN buckets : d \notin DOMAIN Swept => Elapsed(buckets[d])
  BY DEF Swept
<1>2. ASSUME NEW d \in Clients, d \notin DOMAIN Swept PROVE Over(d)
  <2>1. CASE d \notin DOMAIN buckets
    BY <2>1 DEF LimiterInv
  <2>2. CASE d \in DOMAIN buckets
    <3>1. Elapsed(buckets[d]) /\ Fills(d, buckets[d].start, buckets[d].count)
      BY <1>1, <1>2, <2>2 DEF LimiterInv
    <3> QED
      BY <3>1, ElapsedIsOver DEF Elapsed
  <2> QED
    BY <2>1, <2>2
<1> QED
  BY <1>1, <1>2

\* The count of a refused client's full window.
LEMMA FullWindow ==
  ASSUME LimiterTypes, NEW c \in Clients, NEW start,
         Fills(c, start, RateLimit), tick - start < RateWindow
  PROVE  AdmittedWithin(c, tick - RateWindow + 1, tick) >= RateLimit
<1> DEFINE n == Len(admitted[c])
           within == {i \in DOMAIN admitted[c] :
                        admitted[c][i] \in (tick - RateWindow + 1)..tick}
           last == (n - RateLimit + 1)..n
<1>1. /\ n \in Nat /\ tick \in Nat /\ start \in Nat /\ RateLimit \in Nat /\ RateLimit <= n
      /\ RateWindow \in Nat /\ DOMAIN admitted[c] = 1..n
      /\ \A i \in 1..n : admitted[c][i] \in Nat /\ admitted[c][i] <= tick
  BY LimiterConstants, AdmittedTicks DEF LimiterTypes, Fills
<1>2. last \subseteq within
  <2> SUFFICES ASSUME NEW i \in last PROVE i \in within
    OBVIOUS
  <2>1. i \in 1..n /\ i > n - RateLimit
    BY <1>1
  <2>2. admitted[c][i] >= start
    BY <2>1 DEF Fills
  <2> QED
    BY <1>1, <2>1, <2>2
<1>3. IsFiniteSet(within) /\ AdmittedWithin(c, tick - RateWindow + 1, tick) = Cardinality(within)
  BY CountingAdmitted DEF AdmittedWithin
<1> HIDE DEF within
<1>4. Cardinality(last) = RateLimit
  <2> DEFINE first == n - RateLimit + 1
  <2>1. first \in Int /\ n \in Int
    BY <1>1
  <2> HIDE DEF n, first
  <2>2. Cardinality(first..n) = IF first > n THEN 0 ELSE n - first + 1
    BY <2>1, FS_Interval
  <2> QED
    BY <1>1, <2>2, LimiterConstants DEF first
<1>5. Cardinality(last) <= Cardinality(within)
  BY <1>2, <1>3, FS_Subset
<1> QED
  BY <1>3, <1>4, <1>5

\* A request that is admitted at some tick is the last of at most RateLimit in
\* its window, and RateLimit before that.
LEMMA AdmittedFits ==
  ASSUME LimiterInv, NEW c \in Clients, Admit(c), NEW from \in Nat
  PROVE  AdmittedWithin(c, from, from + RateWindow - 1)' <= 2 * RateLimit
<1> DEFINE n == Len(admitted[c])
           w == CurrentWindow(Swept, c)
           to == from + RateWindow - 1
           before == {i \in DOMAIN admitted[c] : admitted[c][i] \in from..to}
           after == {i \in DOMAIN admitted'[c] : admitted'[c][i] \in from..to}
           first == n + 2 - 2 * RateLimit
<1>0. LimiterTypes
  BY DEF LimiterInv
<1>1. /\ n \in Nat /\ tick \in Nat /\ RateLimit \in Nat /\ RateLimit > 0
      /\ RateWindow \in Nat /\ RateWindow > 0
      /\ \A i \in 1..n : admitted[c][i] \in Nat
      /\ DOMAIN admitted[c] = 1..n
  BY <1>0, LimiterConstants, AdmittedTicks DEF LimiterTypes
<1>2. /\ w.start \in Nat /\ w.count \in 0..RateLimit /\ w.count < RateLimit
      /\ Fills(c, w.start, w.count)
  <2>1. w \in [start : Nat, count : 0..RateLimit] /\ Fills(c, w.start, w.count)
    BY CurrentFills
  <2>2. w.count < RateLimit
    BY DEF Admit, Fits
  <2> QED
    BY <2>1, <2>2
<1>3. /\ DOMAIN admitted'[c] = 1..(n + 1) /\ admitted'[c][n + 1] = tick
      /\ \A i \in 1..n : admitted'[c][i] = admitted[c][i]
  <2>1. admitted' = [admitted EXCEPT ![c] = Append(@, tick)]
    BY DEF Admit
  <2>2. admitted \in [Clients -> Seq(Nat)]
    BY <1>0 DEF LimiterTypes
  <2>3. admitted[c] \in Seq(Nat) /\ admitted'[c] = Append(admitted[c], tick)
    BY <2>1, <2>2
  <2> QED
    BY <1>1, <2>3, AppendProperties
<1>4. AdmittedWithin(c, from, to)' = Cardinality(after)
  BY DEF AdmittedWithin
<1>5. AdmittedWithin(c, from, to) = Cardinality(before) /\ Cardinality(before) <= 2 * RateLimit
  BY DEF AdmittedWithin, LimiterInv
<1>6. CASE tick \notin from..to
  <2>1. after = before
    <3>1. n + 1 \notin after
      BY <1>3, <1>6
    <3>2. \A i : i \in 1..(n + 1) => i \in 1..n \/ i = n + 1
      BY <1>1
    <3> QED
      BY <1>1, <1>3, <3>1, <3>2
  <2> QED
    BY <1>4, <1>5, <2>1
<1>7. CASE tick \in from..to
  <2>1. after \subseteq first..(n + 1)
    <3> SUFFICES ASSUME NEW i \in after PROVE i \in first..(n + 1)
      OBVIOUS
    <3>1. i \in 1..(n + 1)
      BY <1>3
    <3>2. CASE i = n + 1
      <4> HIDE DEF n
      <4> QED
        BY <1>1, <3>2
    <3>3. CASE i # n + 1
      <4>1. i \in 1..n
        BY <1>1, <3>1, <3>3
      <4>2. admitted[c][i] >= from /\ admitted[c][i] \in Nat
        BY <1>1, <1>3, <4>1
      <4>3. i <= n - w.count - RateLimit => admitted[c][i] < w.start - RateWindow
        BY <1>2, <4>1 DEF Fills
      <4>4. w.start <= tick
        BY <1>2 DEF Fills
      <4> HIDE DEF n, w
      <4>5. ~(i <= n - w.count - RateLimit)
        BY <1>1, <1>2, <1>7, <4>2, <4>3, <4>4
      <4> QED
        BY <1>1, <1>2, <4>1, <4>5
    <3> QED
      BY <3>2, <3>3
  <2>2. Cardinality(first..(n + 1)) = 2 * RateLimit /\ IsFiniteSet(first..(n + 1))
    <3> DEFINE m == n + 1
    <3>1. first \in Int /\ m \in Int
      BY <1>1
    <3> HIDE DEF n, first, m
    <3>2. /\ Cardinality(first..m) = IF first > m THEN 0 ELSE m - first + 1
          /\ IsFiniteSet(first..m)
      BY <3>1, FS_Interval
    <3> QED
      BY <1>1, <3>2 DEF first, m
  <2> HIDE DEF after, first, n
  <2>3. Cardinality(after) <= Cardinality(first..(n + 1))
    BY <2>1, <2>2, FS_Subset
  <2> QED
    BY <1>4, <2>2, <2>3
<1> QED
  BY <1>6, <1>7

LEMMA LimiterAdmit ==
  ASSUME LimiterInv, NEW c \in Clients, Admit(c)
  PROVE  LimiterInv'
<1> DEFINE n == Len(admitted[c])
           w == CurrentWindow(Swept, c)
           counted == [w EXCEPT !.count = @ + 1]
<1>0. LimiterTypes
  BY DEF LimiterInv
<1>1. /\ buckets' = [d \in DOMAIN Swept \cup {c} |-> IF d = c THEN counted ELSE Swept[d]]
      /\ admitted' = [admitted EXCEPT ![c] = Append(@, tick)]
      /\ answer'.allowed = TRUE /\ tick' = tick /\ w.count < RateLimit
  BY DEF Admit, Fits
<1>2. /\ w \in [start : Nat, count : 0..RateLimit] /\ Fills(c, w.start, w.count)
      /\ tick - w.start < RateWindow
  BY CurrentFills
<1>3. /\ counted.start = w.start /\ counted.count = w.count + 1
      /\ counted \in [start : Nat, count : 0..RateLimit]
  BY <1>1, <1>2, LimiterConstants
<1>4. /\ n \in Nat /\ tick \in Nat /\ RateLimit \in Nat /\ RateWindow \in Nat
      /\ w.start \in Nat /\ w.count \in 0..RateLimit
      /\ \A i \in 1..n : admitted[c][i] \in Nat /\ admitted[c][i] <= tick
      /\ admitted[c] \in Seq(Nat)
  BY <1>0, <1>2, LimiterConstants, AdmittedTicks DEF LimiterTypes
<1>5. /\ admitted' \in [Clients -> Seq(Nat)]
      /\ Len(admitted'[c]) = n + 1 /\ admitted'[c][n + 1] = tick
      /\ \A i \in 1..n : admitted'[c][i] = admitted[c][i]
      /\ \A d \in Clients : d # c => admitted'[d] = admitted[d]
  <2>1. admitted \in [Clients -> Seq(Nat)]
    BY <1>0 DEF LimiterTypes
  <2>2. admitted'[c] = Append(admitted[c], tick) /\ Append(admitted[c], tick) \in Seq(Nat)
    BY <1>1, <1>4, <2>1, AppendProperties
  <2> QED
    BY <1>1, <1>4, <2>1, <2>2, AppendProperties
<1>b. /\ DOMAIN buckets' = DOMAIN Swept \cup {c} /\ buckets'[c] = counted
      /\ \A d \in DOMAIN Swept : d # c => buckets'[d] = buckets[d]
      /\ DOMAIN Swept \subseteq DOMAIN buckets
  BY <1>1, SweepDropsTheOver
<1> HIDE DEF n, w, counted
<1>i. \A i \in 1..(n + 1) : i \in 1..n \/ i = n + 1
  BY <1>4
<1>6. LimiterTypes'
  <2>1. \A d \in Clients : \A i \in 1..Len(admitted'[d]) : admitted'[d][i] <= tick'
    <3> SUFFICES ASSUME NEW d \in Clients, NEW i \in 1..Len(admitted'[d])
        PROVE admitted'[d][i] <= tick'
      OBVIOUS
    <3>1. CASE d = c
      BY <1>1, <1>4, <1>5, <1>i, <3>1
    <3>2. CASE d # c
      BY <1>0, <1>1, <1>5, <3>2 DEF LimiterTypes
    <3> QED
      BY <3>1, <3>2
  <2> QED
    BY <1>0, <1>1, <1>3, <1>5, <1>b, <2>1 DEF LimiterTypes
<1>7. Fills(c, buckets[c].start, buckets[c].count)'
  <2> SUFFICES ASSUME NEW i \in 1..(n + 1)
      PROVE /\ admitted'[c][i] < w.start + RateWindow
            /\ i <= n - w.count => admitted'[c][i] < w.start
            /\ i > n - w.count => admitted'[c][i] >= w.start
            /\ i <= n - w.count - RateLimit => admitted'[c][i] < w.start - RateWindow
    <3>1. /\ w.start <= tick /\ w.count <= n
      BY <1>2 DEF Fills, n
    <3>2. counted.count \in 0..RateLimit /\ counted.count <= n + 1
      BY <1>3, <1>4, <3>1
    <3>3. (n + 1) - counted.count = n - w.count
      BY <1>3, <1>4
    <3>4. /\ w.start \in Nat /\ w.start <= tick'
          /\ counted.count \in 0..RateLimit /\ counted.count <= Len(admitted'[c])
      BY <1>1, <1>4, <1>5, <3>1, <3>2
    <3>5. \A i \in 1..Len(admitted'[c]) :
            /\ admitted'[c][i] < w.start + RateWindow
            /\ i <= Len(admitted'[c]) - counted.count => admitted'[c][i] < w.start
            /\ i > Len(admitted'[c]) - counted.count => admitted'[c][i] >= w.start
            /\ i <= Len(admitted'[c]) - counted.count - RateLimit =>
                 admitted'[c][i] < w.start - RateWindow
      BY <1>5, <3>3
    <3>6. buckets'[c].start = w.start /\ buckets'[c].count = counted.count
      BY <1>3, <1>b
    <3> QED
      BY <3>4, <3>5, <3>6 DEF Fills
  <2>1. CASE i = n + 1
    <3>1. w.start <= tick
      BY <1>2 DEF Fills
    <3> QED
      BY <1>2, <1>4, <1>5, <2>1, <3>1
  <2>2. CASE i \in 1..n
    BY <1>2, <1>4, <1>5, <2>2 DEF Fills, n
  <2> QED
    BY <1>i, <2>1, <2>2
<1>8. \A d \in DOMAIN buckets' : Fills(d, buckets[d].start, buckets[d].count)'
  <2> SUFFICES ASSUME NEW d \in DOMAIN buckets'
      PROVE Fills(d, buckets[d].start, buckets[d].count)'
    OBVIOUS
  <2>1. CASE d = c
    BY <1>7, <2>1
  <2>2. CASE d # c
    <3>1. d \in DOMAIN buckets /\ buckets'[d] = buckets[d] /\ admitted'[d] = admitted[d]
      BY <1>0, <1>5, <1>b, <2>2 DEF LimiterTypes
    <3> QED
      BY <1>1, <3>1 DEF LimiterInv, Fills
  <2> QED
    BY <2>1, <2>2
<1>9. \A d \in Clients \ DOMAIN buckets' : Over(d)'
  BY <1>1, <1>5, <1>b, SweepDropsTheOver DEF Over
<1>10. ASSUME NEW d \in Clients, NEW from \in Nat
       PROVE  AdmittedWithin(d, from, from + RateWindow - 1)' <= 2 * RateLimit
  <2>1. CASE d = c
    BY <2>1, AdmittedFits
  <2>2. CASE d # c
    BY <1>5, <2>2 DEF LimiterInv, AdmittedWithin
  <2> QED
    BY <2>1, <2>2
<1> QED
  BY <1>1, <1>6, <1>8, <1>9, <1>10 DEF LimiterInv, AnswerHolds

\* Dividing leaves a remainder below the divisor.
LEMMA DivisionLeaves ==
  ASSUME NEW x \in Nat, NEW k \in Nat, k > 0
  PROVE  /\ x \div k \in Int /\ x % k \in 0..(k - 1)
         /\ x = k * (x \div k) + (x % k)
  OBVIOUS

\* The seconds a refused client waits take it past its window.
LEMMA WaitingSuffices ==
  ASSUME tick \in Nat, NEW w, w.start \in Nat, tick - w.start < RateWindow
  PROVE  /\ RetryAfter(w) \in Nat
         /\ tick + RetryAfter(w) * TicksPerSecond >= w.start + RateWindow
<1> DEFINE left == w.start + RateWindow - tick
           seconds == (left + TicksPerSecond - 1) \div TicksPerSecond
           s == RetryAfter(w)
<1>1. left \in Nat /\ left > 0
  BY LimiterConstants
<1>2. s = IF seconds > 1 THEN seconds ELSE 1
  BY DEF RetryAfter
<1> HIDE DEF s
<1>3. seconds \in Int /\ seconds * TicksPerSecond >= left
  <2> HIDE DEF left
  <2> DEFINE x == left + TicksPerSecond - 1
             rest == x % TicksPerSecond
  <2>1. x \in Nat /\ x = left + TicksPerSecond - 1
    BY <1>1, LimiterConstants
  <2> HIDE DEF x
  <2>2. seconds \in Int /\ rest \in 0..(TicksPerSecond - 1)
        /\ x = TicksPerSecond * seconds + rest
    <3>1. TicksPerSecond \in Nat /\ TicksPerSecond > 0
      BY LimiterConstants
    <3> QED
      BY <2>1, <3>1, DivisionLeaves DEF x
  <2> QED
    BY <1>1, <2>1, <2>2, LimiterConstants
<1> HIDE DEF seconds
<1>4. s \in Nat /\ s >= seconds
  BY <1>2, <1>3
<1>5. s * TicksPerSecond >= seconds * TicksPerSecond
  BY <1>3, <1>4, LimiterConstants
<1>6. s * TicksPerSecond \in Int /\ seconds * TicksPerSecond \in Int
  BY <1>3, <1>4, LimiterConstants
<1>7. s * TicksPerSecond >= left
  BY <1>1, <1>3, <1>5, <1>6
<1> QED
  BY <1>1, <1>4, <1>6, <1>7, LimiterConstants DEF s

LEMMA LimiterRefuse ==
  ASSUME LimiterInv, NEW c \in Clients, Refuse(c)
  PROVE  LimiterInv'
<1> DEFINE w == CurrentWindow(Swept, c)
<1>0. LimiterTypes
  BY DEF LimiterInv
<1>1. /\ buckets' = Swept /\ UNCHANGED <<tick, admitted>> /\ ~(w.count < RateLimit)
      /\ answer' = [allowed |-> FALSE, client |-> c, at |-> tick,
                    window |-> w.start, retry |-> RetryAfter(w)]
  BY DEF Refuse, Fits
<1>2. /\ w \in [start : Nat, count : 0..RateLimit] /\ Fills(c, w.start, w.count)
      /\ tick - w.start < RateWindow
  BY CurrentFills
<1> HIDE DEF w
<1>3. w.start \in Nat /\ w.count = RateLimit /\ tick \in Nat
  BY <1>0, <1>1, <1>2, LimiterConstants DEF LimiterTypes
<1>4. /\ RetryAfter(w) \in Nat
      /\ tick + RetryAfter(w) * TicksPerSecond >= w.start + RateWindow
  BY <1>2, <1>3, WaitingSuffices
<1>5. AdmittedWithin(c, tick - RateWindow + 1, tick) >= RateLimit
  BY <1>0, <1>2, <1>3, FullWindow
<1>6. answer' \in Refusals
  BY <1>1, <1>3, <1>4 DEF Refusals
<1>7. AnswerHolds'
  <2>1. /\ answer'.at = tick /\ answer'.client = c /\ answer'.window = w.start
        /\ answer'.retry = RetryAfter(w)
    BY <1>1
  <2>2. AdmittedWithin(answer.client, answer.at - RateWindow + 1, answer.at)' >= RateLimit
    BY <1>1, <1>5, <2>1 DEF AdmittedWithin
  <2> QED
    BY <1>1, <1>3, <1>4, <1>6, <2>1, <2>2 DEF AnswerHolds
<1>8. LimiterTypes'
  BY <1>0, <1>1, SweepDropsTheOver DEF LimiterTypes
<1>9. \A d \in DOMAIN buckets' : Fills(d, buckets[d].start, buckets[d].count)'
  BY <1>1, SweepDropsTheOver DEF LimiterInv, Fills
<1>10. \A d \in Clients \ DOMAIN buckets' : Over(d)'
  BY <1>1, SweepDropsTheOver DEF Over
<1> QED
  BY <1>1, <1>7, <1>8, <1>9, <1>10 DEF LimiterInv, AdmittedWithin

LEMMA LimiterTick ==
  ASSUME LimiterInv, Tick
  PROVE  LimiterInv'
<1>0. LimiterTypes
  BY DEF LimiterInv
<1>1. /\ tick' = tick + 1 /\ tick \in Nat /\ UNCHANGED <<buckets, admitted, answer>>
      /\ RateWindow \in Nat
  BY <1>0, LimiterConstants DEF Tick, LimiterTypes
<1>2. LimiterTypes'
  BY <1>0, <1>1, AdmittedTicks DEF LimiterTypes
<1>3. ASSUME NEW c, NEW start, NEW count, Fills(c, start, count)
      PROVE  Fills(c, start, count)'
  BY <1>1, <1>3 DEF Fills
<1>4. ASSUME NEW c \in Clients, Over(c) PROVE Over(c)'
  <2>1. \A i \in 1..Len(admitted[c]) : admitted[c][i] \in Nat
    BY <1>0, AdmittedTicks
  <2> QED
    BY <1>1, <1>4, <2>1 DEF Over
<1>5. AnswerHolds'
  <2>1. answer \in Refusals /\ answer.at <= tick => answer.at <= tick'
    BY <1>1 DEF Refusals
  <2> QED
    BY <1>1, <2>1 DEF LimiterInv, AnswerHolds, AdmittedWithin
<1>6. \A c \in DOMAIN buckets' : Fills(c, buckets[c].start, buckets[c].count)'
  BY <1>1, <1>3 DEF LimiterInv, Fills
<1> QED
  BY <1>1, <1>2, <1>4, <1>5, <1>6 DEF LimiterInv, AdmittedWithin

LEMMA LimiterNext == LimiterInv /\ [NextLimiter]_limiterVars => LimiterInv'
<1> SUFFICES ASSUME LimiterInv, [NextLimiter]_limiterVars PROVE LimiterInv'
  OBVIOUS
<1>1. CASE UNCHANGED limiterVars
  BY <1>1 DEF limiterVars, LimiterInv, LimiterTypes, Fills, Over, AnswerHolds, AdmittedWithin
<1> QED
  BY <1>1, LimiterAdmit, LimiterRefuse, LimiterTick DEF NextLimiter

\* A client whose wait is over falls into a window that began after the one it
\* was refused in.
LEMMA LimiterIsFair == LimiterInv => LimiterKeepsItsWord
<1> SUFFICES ASSUME LimiterInv PROVE LimiterKeepsItsWord
  OBVIOUS
<1>1. BurstBounded
  BY DEF BurstBounded, LimiterInv, LimiterTypes
<1>2. ASSUME ~answer.allowed
      PROVE  /\ AdmittedWithin(answer.client, answer.at - RateWindow + 1, answer.at) >= RateLimit
             /\ tick >= answer.at + answer.retry * TicksPerSecond =>
                  CurrentWindow(buckets, answer.client).start # answer.window
  <2>1. /\ answer \in Refusals
        /\ answer.at + answer.retry * TicksPerSecond >= answer.window + RateWindow
        /\ AdmittedWithin(answer.client, answer.at - RateWindow + 1, answer.at) >= RateLimit
    BY <1>2 DEF LimiterInv, AnswerHolds
  <2>2. /\ tick \in Nat /\ answer.at \in Nat /\ answer.retry \in Nat /\ answer.window \in Nat
        /\ RateWindow \in Nat /\ RateWindow > 0 /\ answer.retry * TicksPerSecond \in Int
    BY <2>1, LimiterConstants DEF LimiterInv, LimiterTypes, Refusals
  <2>3. ASSUME tick >= answer.at + answer.retry * TicksPerSecond
        PROVE  CurrentWindow(buckets, answer.client).start # answer.window
    <3> DEFINE c == answer.client
    <3>1. tick - answer.window >= RateWindow
      BY <2>1, <2>2, <2>3
    <3>2. CASE c \in DOMAIN buckets /\ ~Elapsed(buckets[c])
      <4>1. ~(tick - buckets[c].start >= RateWindow)
        BY <3>2 DEF Elapsed
      <4> QED
        BY <3>1, <3>2, <4>1 DEF CurrentWindow
    <3>3. CASE ~(c \in DOMAIN buckets /\ ~Elapsed(buckets[c]))
      <4>1. CurrentWindow(buckets, c).start = tick
        BY <3>3 DEF CurrentWindow
      <4> QED
        BY <2>2, <3>1, <4>1
    <3> QED
      BY <3>2, <3>3
  <2> QED
    BY <2>1, <2>3
<1> QED
  BY <1>1, <1>2 DEF LimiterKeepsItsWord, RefusalEnds

LimiterSpec == InitLimiter /\ [][NextLimiter]_limiterVars

\* No interval of one window's length admits more than two windows' worth of
\* a client's requests, sweeps included, and a refused client that waits as it
\* was told finds a new window.
THEOREM LimiterIsBounded == LimiterSpec => []LimiterKeepsItsWord
<1> QED
  BY LimiterInit, LimiterNext, LimiterIsFair, PTL DEF LimiterSpec

LEMMA LimiterAlone == ServicesSpec => LimiterSpec
<1>1. [NextServices]_servicesVars => [NextLimiter]_limiterVars
  BY DEF NextServices, servicesVars, OthersStay, Still
<1> QED
  BY <1>1, PTL DEF ServicesSpec, InitServices, LimiterSpec

\* The same, of the run that checks every component.
THEOREM LimiterIsKept == ServicesSpec => []LimiterHolds
<1>1. LimiterKeepsItsWord => LimiterHolds
  BY DEF LimiterHolds
<1> QED
  BY <1>1, LimiterAlone, LimiterIsBounded, PTL

-----------------------------------------------------------------------------
(* AuditChain: a gapless chain that shows what was altered                   *)

Commitments == Nat \X Nat \X {"written", "altered"}
Hashes == Seq(Commitments)

AuditRows == [id : Nat, sequence : Nat, fields : {"written"}, hash : Hashes \cup {NoHash}]

\* The rows have the numbers below n, each once.
Numbered(events, n) ==
  /\ \A d, e \in events : d # e => d.sequence # e.sequence
  /\ SequencesOf(events) = 0..n - 1

\* What a row's hash goes on from, given the row before it.
From(d) == IF d.hash = NoHash THEN Genesis ELSE d.hash

Linked(events) ==
  \A e \in events : e.hash # NoHash =>
    /\ e.sequence = 0 => e.hash = ChainHash(Genesis, e)
    /\ \A d \in events : d.sequence = e.sequence - 1 => e.hash = ChainHash(From(d), e)

Whole(events) ==
  /\ events \subseteq AuditRows
  /\ \E n \in Nat : Numbered(events, n)
  /\ Linked(events)

Disjoint(a, b) == SequencesOf(a) \cap SequencesOf(b) = {}

SessionStates == [pc : {"closed", "open", "insert"},
                  ready : SUBSET AuditRows, pending : SUBSET AuditRows]

\* A session would leave the trail whole if it committed what it inserted; what
\* it is about to insert fits too, or repeats a committed number.
GoesOn(events, f) ==
  /\ Whole(events \cup f.pending)
  /\ Disjoint(events, f.pending)
  /\ f.pc = "insert" =>
       /\ f.ready # {}
       /\ ~Disjoint(events, f.ready) \/ Whole((events \cup f.pending) \cup f.ready)

\* Only one session has inserted rows that go on from the trail.
Tracked(events, at, next) ==
  /\ next \in Nat
  /\ Whole(events)
  /\ at \in [Sessions -> SessionStates]
  /\ \A s \in Sessions : GoesOn(events, at[s])
  /\ \A s, t \in Sessions : s # t => Disjoint(at[s].pending, at[t].pending)

AuditInv == Tracked(trail, flushing, issued)

\* The tip of numbered rows is the one with the last number.
LEMMA TipIsLast ==
  ASSUME NEW events, NEW n \in Nat \ {0}, Numbered(events, n),
         \A e \in events : e.sequence \in Nat
  PROVE  TipOf(events) \in events /\ TipOf(events).sequence = n - 1
<1>1. n - 1 \in SequencesOf(events)
  BY DEF Numbered
<1>2. PICK e \in events : e.sequence = n - 1
  BY <1>1 DEF SequencesOf
<1>3. \A d \in events : d.sequence <= n - 1
  <2>1. \A d \in events : d.sequence \in SequencesOf(events)
    BY DEF SequencesOf
  <2> QED
    BY <2>1 DEF Numbered
<1>4. \A d \in events : d.sequence <= e.sequence
  BY <1>2, <1>3
<1>5. /\ TipOf(events) \in events
      /\ \A d \in events : d.sequence <= TipOf(events).sequence
  BY <1>2, <1>4 DEF TipOf
<1>6. e.sequence <= TipOf(events).sequence /\ TipOf(events).sequence <= n - 1
  BY <1>2, <1>3, <1>5
<1> QED
  BY <1>2, <1>5, <1>6

\* The rows before a row are numbered up to it.
LEMMA RowsBefore ==
  ASSUME NEW events, NEW n \in Nat, Numbered(events, n), NEW e \in events,
         \A d \in events : d.sequence \in Nat
  PROVE  LET before == {d \in events : d.sequence < e.sequence}
         IN  /\ Numbered(before, e.sequence)
             /\ before = {} <=> e.sequence = 0
             /\ before # {} => TipOf(before) \in events /\ TipOf(before).sequence = e.sequence - 1
<1> DEFINE before == {d \in events : d.sequence < e.sequence}
           k == e.sequence
<1>1. /\ k \in Nat /\ k \in 0..n - 1
  BY DEF Numbered, SequencesOf
<1>2. SequencesOf(before) = 0..k - 1
  <2>1. ASSUME NEW i \in 0..k - 1 PROVE i \in SequencesOf(before)
    <3>1. i \in SequencesOf(events)
      BY <1>1 DEF Numbered
    <3>2. PICK d \in events : d.sequence = i
      BY <3>1 DEF SequencesOf
    <3>3. d \in before
      BY <1>1, <3>2
    <3> QED
      BY <3>2, <3>3 DEF SequencesOf
  <2>2. ASSUME NEW i \in SequencesOf(before) PROVE i \in 0..k - 1
    <3>1. PICK d \in before : d.sequence = i
      BY DEF SequencesOf
    <3> QED
      BY <1>1, <3>1
  <2> QED
    BY <2>1, <2>2
<1>3. Numbered(before, k)
  BY <1>2 DEF Numbered
<1>4. before = {} <=> k = 0
  <2>1. k # 0 => 0 \in SequencesOf(before)
    BY <1>1, <1>2
  <2>2. before # {} => k # 0
    <3> SUFFICES ASSUME NEW d \in before PROVE k # 0
      OBVIOUS
    <3> QED
      BY <1>1
  <2> QED
    BY <2>1, <2>2 DEF SequencesOf
<1>5. before # {} => TipOf(before) \in events /\ TipOf(before).sequence = k - 1
  <2> SUFFICES ASSUME before # {} PROVE TipOf(before) \in events /\ TipOf(before).sequence = k - 1
    OBVIOUS
  <2>1. k \in Nat \ {0} /\ \A d \in before : d.sequence \in Nat
    BY <1>1, <1>4
  <2>2. before \subseteq events
    OBVIOUS
  <2> HIDE DEF before, k
  <2>3. TipOf(before) \in before /\ TipOf(before).sequence = k - 1
    BY <1>3, <2>1, TipIsLast
  <2> QED
    BY <2>2, <2>3
<1> QED
  BY <1>3, <1>4, <1>5

\* Rows that go on after numbered ones have the next number.
LEMMA NextNumber ==
  ASSUME NEW events, NEW more, NEW m \in Nat, Numbered(events, m),
         NEW k \in Nat, Numbered(events \cup more, k), Disjoint(events, more), more # {}
  PROVE  m \in SequencesOf(more)
<1>1. PICK r \in more : TRUE
  OBVIOUS
<1>2. r.sequence \in 0..k - 1 /\ r.sequence \notin 0..m - 1
  BY <1>1 DEF Numbered, Disjoint, SequencesOf
<1>3. m \in 0..k - 1 /\ m \notin 0..m - 1
  BY <1>2
<1>4. m \in SequencesOf(events \cup more) /\ m \notin SequencesOf(events)
  BY <1>3 DEF Numbered
<1> QED
  BY <1>4 DEF SequencesOf

\* One row after the tip.
LEMMA OneMore ==
  ASSUME NEW events, Whole(events), NEW m \in Nat, Numbered(events, m),
         NEW e \in AuditRows, e.sequence = m,
         e.hash = ChainHash(IF events = {} \/ TipOf(events).hash = NoHash
                            THEN Genesis ELSE TipOf(events).hash, e)
  PROVE  /\ Whole(events \cup {e}) /\ Numbered(events \cup {e}, m + 1)
         /\ e \notin events /\ TipOf(events \cup {e}) = e
<1>1. \A d \in events : d \in AuditRows /\ d.sequence \in 0..m - 1
  BY DEF Whole, Numbered, SequencesOf
<1>2. \A d \in events : d.sequence < m /\ d # e
  BY <1>1
<1>3. SequencesOf(events \cup {e}) = 0..m
  <2>1. SequencesOf(events \cup {e}) = SequencesOf(events) \cup {m}
    BY DEF SequencesOf
  <2>2. (0..m - 1) \cup {m} = 0..m
    OBVIOUS
  <2> QED
    BY <2>1, <2>2 DEF Numbered
<1>4. Numbered(events \cup {e}, m + 1)
  BY <1>2, <1>3 DEF Numbered
<1>5. \A d \in events \cup {e} : d.sequence \in Nat
  BY <1>1
<1>6. TipOf(events \cup {e}) = e
  <2>1. /\ TipOf(events \cup {e}) \in events \cup {e}
        /\ TipOf(events \cup {e}).sequence = (m + 1) - 1
    BY <1>4, <1>5, TipIsLast
  <2> QED
    BY <1>2, <2>1
<1>7. Linked(events \cup {e})
  <2>1. \A d \in events : ~(e.sequence = d.sequence - 1)
    BY <1>1
  <2>2. Linked(events)
    BY DEF Whole
  <2>3. e.sequence = 0 => e.hash = ChainHash(Genesis, e)
    <3>1. m = 0 => events = {}
      BY <1>1
    <3> QED
      BY <3>1
  <2>4. ASSUME NEW d \in events, d.sequence = e.sequence - 1
        PROVE  e.hash = ChainHash(From(d), e)
    <3>1. m \in Nat \ {0}
      BY <1>1
    <3>2. TipOf(events) \in events /\ TipOf(events).sequence = m - 1
      BY <1>1, <1>5, <3>1, TipIsLast
    <3>3. TipOf(events) = d
      BY <2>4, <3>2 DEF Numbered
    <3> QED
      BY <3>3 DEF From
  <2>5. e.sequence # e.sequence - 1
    BY <1>5
  <2> QED
    BY <2>1, <2>2, <2>3, <2>4, <2>5 DEF Linked
<1> QED
  BY <1>2, <1>4, <1>6, <1>7 DEF Whole

\* New rows, one or two, each with the hash of the one before.
LEMMA AssignedRows ==
  ASSUME NEW visible, NEW n \in 1..2, issued \in Nat,
         NEW first \in Nat, first = IF visible = {} THEN 0 ELSE TipOf(visible).sequence + 1,
         NEW start \in Hashes, start = IF visible = {} \/ TipOf(visible).hash = NoHash
                                      THEN Genesis ELSE TipOf(visible).hash
  PROVE  \E d, e \in AuditRows :
           /\ d.sequence = first /\ d.hash = ChainHash(start, d)
           /\ e.sequence = first + 1 /\ e.hash = ChainHash(d.hash, e)
           /\ d.hash # NoHash
           /\ Assigned(visible, n) = IF n = 1 THEN {d} ELSE {d, e}
<1> DEFINE event(i) == [id |-> issued + i - 1, sequence |-> first + i - 1,
                        fields |-> "written"]
           hash[i \in 0..n] == IF i = 0 THEN start ELSE ChainHash(hash[i - 1], event(i))
           row(i) == [id |-> event(i).id, sequence |-> event(i).sequence,
                      fields |-> event(i).fields, hash |-> hash[i]]
<1>1. Assigned(visible, n) = {row(i) : i \in 1..n}
  BY DEF Assigned
<1> DEFINE h1 == ChainHash(start, event(1))
           h2 == ChainHash(h1, event(2))
           step(g) == [i \in 0..n |-> IF i = 0 THEN start ELSE ChainHash(g[i - 1], event(i))]
           known == [i \in 0..n |-> IF i = 0 THEN start ELSE IF i = 1 THEN h1 ELSE h2]
<1>2. hash = step(hash)
  <2>1. known = step(known)
    <3> SUFFICES ASSUME NEW i \in 0..n PROVE known[i] = step(known)[i]
      OBVIOUS
    <3>1. i \in {0, 1, 2} /\ (i = 2 => n = 2)
      OBVIOUS
    <3>2. CASE i = 0
      BY <3>2
    <3>3. CASE i = 1
      <4>1. known[1] = h1 /\ known[0] = start
        OBVIOUS
      <4>2. step(known)[1] = ChainHash(known[0], event(1))
        OBVIOUS
      <4> QED
        BY <3>3, <4>1, <4>2
    <3>4. CASE i = 2
      <4>1. known[2] = h2 /\ known[1] = h1
        BY <3>1, <3>4
      <4>2. step(known)[2] = ChainHash(known[1], event(2))
        BY <3>1, <3>4
      <4> QED
        BY <3>4, <4>1, <4>2
    <3> QED
      BY <3>1, <3>2, <3>3, <3>4
  <2> HIDE DEF known
  <2>2. \E g : g = step(g)
    BY <2>1
  <2>3. hash = CHOOSE g : g = step(g)
    OBVIOUS
  <2> QED
    BY <2>2, <2>3
<1> HIDE DEF hash
<1>3. /\ hash[1] = ChainHash(start, event(1))
      /\ n = 2 => hash[2] = ChainHash(hash[1], event(2))
  <2> HIDE DEF event
  <2>0. \A i \in 0..n :
          hash[i] = IF i = 0 THEN start ELSE ChainHash(hash[i - 1], event(i))
    BY <1>2
  <2>1. hash[0] = start
    BY <2>0
  <2>2. hash[1] = ChainHash(hash[0], event(1))
    <3>1. 1 \in 0..n /\ 1 # 0 /\ 1 - 1 = 0
      OBVIOUS
    <3>2. hash[1] = IF 1 = 0 THEN start ELSE ChainHash(hash[1 - 1], event(1))
      BY <2>0, <3>1
    <3> QED
      BY <3>1, <3>2
  <2>3. n = 2 => hash[2] = ChainHash(hash[1], event(2))
    BY <2>0
  <2> QED
    BY <2>1, <2>2, <2>3
<1> DEFINE d == [id |-> issued, sequence |-> first, fields |-> "written",
                 hash |-> ChainHash(start, event(1))]
           e == [id |-> issued + 1, sequence |-> first + 1, fields |-> "written",
                 hash |-> ChainHash(d.hash, event(2))]
<1>4. /\ event(1) = [id |-> issued, sequence |-> first, fields |-> "written"]
      /\ event(2) = [id |-> issued + 1, sequence |-> first + 1, fields |-> "written"]
  OBVIOUS
<1>5. /\ ChainHash(start, event(1)) = ChainHash(start, d)
      /\ ChainHash(d.hash, event(2)) = ChainHash(d.hash, e)
  BY <1>4 DEF ChainHash
<1>6. d.hash \in Hashes /\ e.hash \in Hashes
  <2>1. \A h \in Hashes, c \in Commitments : Append(h, c) \in Hashes
    BY AppendProperties DEF Hashes
  <2>2. /\ <<issued, first, "written">> \in Commitments
        /\ <<issued + 1, first + 1, "written">> \in Commitments
    BY DEF Commitments
  <2>3. d.hash = Append(start, <<issued, first, "written">>)
    BY <1>4 DEF ChainHash
  <2>4. d.hash \in Hashes
    BY <2>1, <2>2, <2>3
  <2>5. e.hash = Append(d.hash, <<issued + 1, first + 1, "written">>)
    BY <1>4 DEF ChainHash
  <2> QED
    BY <2>1, <2>2, <2>4, <2>5
<1>7. d \in AuditRows /\ e \in AuditRows
  BY <1>6 DEF AuditRows
<1>8. d.hash # NoHash
  BY <1>6, AuditAssumption DEF Hashes, Commitments
<1>9. row(1) = d /\ (n = 2 => row(2) = e)
  BY <1>3, <1>4
<1>10. Assigned(visible, n) = IF n = 1 THEN {d} ELSE {d, e}
  <2>1. n = 1 => 1..n = {1}
    OBVIOUS
  <2>2. n = 2 => 1..n = {1, 2}
    OBVIOUS
  <2> HIDE DEF row, d, e
  <2> QED
    BY <1>1, <1>9, <2>1, <2>2
<1>11. d.sequence = first /\ e.sequence = first + 1
  OBVIOUS
<1>12. d.hash = ChainHash(start, d) /\ e.hash = ChainHash(d.hash, e)
  BY <1>5
<1> HIDE DEF d, e
<1> QED
  BY <1>7, <1>8, <1>10, <1>11, <1>12

\* What a flush assigns goes on after the rows it saw.
LEMMA AssignedExtends ==
  ASSUME NEW visible, Whole(visible), NEW n \in 1..2, issued \in Nat
  PROVE  /\ Whole(visible \cup Assigned(visible, n))
         /\ Assigned(visible, n) # {} /\ Assigned(visible, n) \subseteq AuditRows
<1>1. PICK m \in Nat : Numbered(visible, m)
  BY DEF Whole
<1>2. \A d \in visible : d \in AuditRows /\ d.sequence \in Nat
  BY DEF Whole, AuditRows
<1>3. visible = {} <=> m = 0
  <2>1. visible = {} <=> SequencesOf(visible) = {}
    BY DEF SequencesOf
  <2>2. m = 0 <=> 0..m - 1 = {}
    <3>1. m # 0 => 0 \in 0..m - 1
      OBVIOUS
    <3> QED
      BY <3>1
  <2> QED
    BY <1>1, <2>1, <2>2 DEF Numbered
<1>4. visible # {} => TipOf(visible) \in visible /\ TipOf(visible).sequence = m - 1
  BY <1>1, <1>2, <1>3, TipIsLast
<1> DEFINE start == IF visible = {} \/ TipOf(visible).hash = NoHash
                    THEN Genesis ELSE TipOf(visible).hash
<1>5. m = IF visible = {} THEN 0 ELSE TipOf(visible).sequence + 1
  BY <1>3, <1>4
<1>6. start \in Hashes
  <2>1. Genesis \in Hashes
    BY EmptySeq DEF Genesis, Hashes
  <2>2. visible # {} => TipOf(visible).hash \in Hashes \cup {NoHash}
    BY <1>2, <1>4 DEF AuditRows
  <2> QED
    BY <2>1, <2>2
<1> HIDE DEF start
<1>7. PICK d \in AuditRows, e \in AuditRows :
        /\ d.sequence = m /\ d.hash = ChainHash(start, d)
        /\ e.sequence = m + 1 /\ e.hash = ChainHash(d.hash, e)
        /\ d.hash # NoHash
        /\ Assigned(visible, n) = IF n = 1 THEN {d} ELSE {d, e}
  BY <1>5, <1>6, AssignedRows DEF start
<1>8. /\ Whole(visible \cup {d}) /\ Numbered(visible \cup {d}, m + 1)
      /\ TipOf(visible \cup {d}) = d
  BY <1>1, <1>7, OneMore DEF start
<1>9. Whole((visible \cup {d}) \cup {e})
  <2>1. visible \cup {d} # {} /\ m + 1 \in Nat
    OBVIOUS
  <2> QED
    BY <1>7, <1>8, <2>1, OneMore
<1>10. visible \cup {d, e} = (visible \cup {d}) \cup {e}
  OBVIOUS
<1> QED
  BY <1>7, <1>8, <1>9, <1>10

LEMMA AuditInit == InitAudit => AuditInv
<1> SUFFICES ASSUME InitAudit PROVE AuditInv
  OBVIOUS
<1>1. PICK legacy \in {0, LegacyRows} :
        trail = {[id |-> n, sequence |-> n, fields |-> "written", hash |-> NoHash] :
                   n \in 0..legacy - 1}
  BY DEF InitAudit
<1>2. legacy \in Nat /\ issued \in Nat /\ flushing = [s \in Sessions |-> Closed]
  BY AuditAssumption DEF InitAudit
<1>3. \A e \in trail : e \in AuditRows /\ e.hash = NoHash
  BY <1>1, <1>2 DEF AuditRows
<1>4. Numbered(trail, legacy)
  <2>1. SequencesOf(trail) = 0..legacy - 1
    <3> DEFINE row(n) == [id |-> n, sequence |-> n, fields |-> "written", hash |-> NoHash]
    <3>1. \A n : row(n).sequence = n
      OBVIOUS
    <3>2. trail = {row(n) : n \in 0..legacy - 1}
      BY <1>1
    <3> HIDE DEF row
    <3> QED
      BY <3>1, <3>2 DEF SequencesOf
  <2>2. \A d, e \in trail : d # e => d.sequence # e.sequence
    BY <1>1
  <2> QED
    BY <2>1, <2>2 DEF Numbered
<1>5. Whole(trail)
  BY <1>2, <1>3, <1>4 DEF Whole, Linked
<1>6. \A events : Disjoint(events, {}) /\ Disjoint({}, events)
  BY DEF Disjoint, SequencesOf
<1>7. /\ Closed \in SessionStates /\ Closed.pc = "closed" /\ Closed.pending = {}
      /\ trail \cup {} = trail
  BY DEF Closed, SessionStates
<1>8. GoesOn(trail, Closed)
  BY <1>5, <1>6, <1>7 DEF GoesOn
<1>9. flushing \in [Sessions -> SessionStates] /\ \A s \in Sessions : flushing[s] = Closed
  BY <1>2, <1>7
<1> QED
  BY <1>2, <1>5, <1>6, <1>7, <1>8, <1>9 DEF AuditInv, Tracked

\* A session moves, and the trail does not.
LEMMA SessionMoves ==
  ASSUME AuditInv, NEW s \in Sessions, UNCHANGED trail, issued' \in Nat,
         NEW f \in SessionStates, flushing' = [flushing EXCEPT ![s] = f], GoesOn(trail, f),
         \A t \in Sessions \ {s} : Disjoint(f.pending, flushing[t].pending)
  PROVE  AuditInv'
<1>1. /\ flushing \in [Sessions -> SessionStates] /\ Whole(trail)
      /\ \A t \in Sessions : GoesOn(trail, flushing[t])
      /\ \A r, t \in Sessions : r # t => Disjoint(flushing[r].pending, flushing[t].pending)
  BY DEF AuditInv, Tracked
<1>2. /\ flushing' \in [Sessions -> SessionStates]
      /\ flushing'[s] = f
      /\ \A t \in Sessions : t # s => flushing'[t] = flushing[t]
  BY <1>1
<1>3. \A a, b : Disjoint(a, b) => Disjoint(b, a)
  BY DEF Disjoint
<1>4. \A r, t \in Sessions :
        r # t => Disjoint(flushing'[r].pending, flushing'[t].pending)
  BY <1>1, <1>2, <1>3
<1>5. \A t \in Sessions : GoesOn(trail', flushing'[t])
  BY <1>1, <1>2
<1> QED
  BY <1>1, <1>2, <1>4, <1>5 DEF AuditInv, Tracked

\* A session that has nothing fits anywhere.
LEMMA ClosedFits ==
  ASSUME NEW events, Whole(events)
  PROVE  /\ GoesOn(events, Closed) /\ Closed \in SessionStates
         /\ \A other : Disjoint(Closed.pending, other) /\ Disjoint(other, Closed.pending)
<1>1. /\ Closed \in SessionStates /\ Closed.pc = "closed" /\ Closed.pending = {}
      /\ events \cup {} = events
  BY DEF Closed, SessionStates
<1>2. \A other : Disjoint({}, other) /\ Disjoint(other, {})
  BY DEF Disjoint, SequencesOf
<1> QED
  BY <1>1, <1>2 DEF GoesOn

LEMMA SessionCloses ==
  ASSUME AuditInv, NEW s \in Sessions, UNCHANGED <<trail, issued>>,
         flushing' = [flushing EXCEPT ![s] = Closed]
  PROVE  AuditInv'
<1>1. Whole(trail) /\ issued' \in Nat
  BY DEF AuditInv, Tracked
<1> QED
  BY <1>1, ClosedFits, SessionMoves

LEMMA AuditFlush ==
  ASSUME AuditInv, NEW s \in Sessions, NEW n \in 1..2, Flush(s, n)
  PROVE  AuditInv'
<1> DEFINE visible == trail \cup flushing[s].pending
           new == Assigned(visible, n)
           f == [flushing[s] EXCEPT !.pc = "insert", !.ready = new]
<1>1. /\ flushing' = [flushing EXCEPT ![s] = f] /\ UNCHANGED trail
      /\ issued' = issued + n
  BY DEF Flush
<1>2. /\ issued \in Nat /\ flushing[s] \in SessionStates /\ GoesOn(trail, flushing[s])
      /\ \A t \in Sessions \ {s} : Disjoint(flushing[s].pending, flushing[t].pending)
  BY DEF AuditInv, Tracked
<1>3. Whole(visible \cup new) /\ new # {} /\ new \subseteq AuditRows
  BY <1>2, AssignedExtends DEF GoesOn
<1> HIDE DEF new
<1>4. /\ f \in SessionStates
      /\ f.pc = "insert" /\ f.ready = new /\ f.pending = flushing[s].pending
  BY <1>2, <1>3 DEF SessionStates
<1> HIDE DEF f
<1>5. GoesOn(trail, f)
  BY <1>2, <1>3, <1>4 DEF GoesOn
<1>6. issued' \in Nat
  BY <1>1, <1>2
<1> QED
  BY <1>1, <1>2, <1>4, <1>5, <1>6, SessionMoves

LEMMA AuditInsert ==
  ASSUME AuditInv, NEW s \in Sessions, Insert(s)
  PROVE  AuditInv'
<1> DEFINE ready == flushing[s].ready
           all == flushing[s].pending \cup ready
           f == [pc |-> "open", ready |-> {}, pending |-> all]
<1>1. /\ flushing[s].pc = "insert" /\ UNCHANGED <<trail, issued>>
      /\ \A t \in Sessions \ {s} : Disjoint(flushing[t].pending, ready)
      /\ ~Disjoint(trail, ready) => flushing' = [flushing EXCEPT ![s] = Closed]
      /\ Disjoint(trail, ready) => flushing' = [flushing EXCEPT ![s] = f]
  BY DEF Insert, Disjoint
<1>2. /\ issued \in Nat /\ flushing[s] \in SessionStates /\ GoesOn(trail, flushing[s])
      /\ \A t \in Sessions \ {s} : Disjoint(flushing[s].pending, flushing[t].pending)
  BY DEF AuditInv, Tracked
<1>3. CASE ~Disjoint(trail, ready)
  BY <1>1, <1>3, SessionCloses
<1>4. CASE Disjoint(trail, ready)
  <2>1. f \in SessionStates /\ f.pc = "open" /\ f.pending = all
    BY <1>2 DEF SessionStates
  <2>2. Whole((trail \cup flushing[s].pending) \cup ready)
    BY <1>1, <1>2, <1>4 DEF GoesOn
  <2>3. (trail \cup flushing[s].pending) \cup ready = trail \cup all
    OBVIOUS
  <2>4. \A a, b, c : Disjoint(a, b) /\ Disjoint(a, c) => Disjoint(a, b \cup c)
    BY DEF Disjoint, SequencesOf
  <2>5. \A a, b : Disjoint(a, b) => Disjoint(b, a)
    BY DEF Disjoint
  <2>6. Disjoint(trail, all)
    BY <1>2, <1>4, <2>4 DEF GoesOn
  <2>7. \A t \in Sessions \ {s} : Disjoint(all, flushing[t].pending)
    BY <1>1, <1>2, <2>4, <2>5
  <2> HIDE DEF f, all
  <2>8. GoesOn(trail, f)
    BY <2>1, <2>2, <2>3, <2>6 DEF GoesOn
  <2>9. UNCHANGED trail /\ issued' \in Nat
    BY <1>1, <1>2
  <2>10. \A t \in Sessions \ {s} : Disjoint(f.pending, flushing[t].pending)
    BY <2>1, <2>7
  <2>11. flushing' = [flushing EXCEPT ![s] = f]
    BY <1>1, <1>4
  <2> QED
    BY <2>1, <2>8, <2>9, <2>10, <2>11, SessionMoves
<1> QED
  BY <1>3, <1>4

\* The session that commits is the only one with rows inserted, and what another
\* session is about to insert now repeats a number.
LEMMA AuditCommit ==
  ASSUME AuditInv, NEW s \in Sessions, CommitEvents(s)
  PROVE  AuditInv'
<1> DEFINE mine == flushing[s].pending
<1>1. /\ trail' = trail \cup mine /\ flushing' = [flushing EXCEPT ![s] = Closed]
      /\ UNCHANGED issued
  BY DEF CommitEvents
<1>2. /\ issued \in Nat /\ Whole(trail) /\ flushing \in [Sessions -> SessionStates]
      /\ \A t \in Sessions : GoesOn(trail, flushing[t])
      /\ \A r, t \in Sessions : r # t => Disjoint(flushing[r].pending, flushing[t].pending)
  BY DEF AuditInv, Tracked
<1>3. CASE mine = {}
  <2>1. UNCHANGED <<trail, issued>>
    BY <1>1, <1>3
  <2> QED
    BY <1>1, <2>1, SessionCloses
<1>4. CASE mine # {}
  <2>1. PICK m \in Nat : Numbered(trail, m)
    BY <1>2 DEF Whole
  <2>2. /\ flushing' \in [Sessions -> SessionStates]
        /\ flushing'[s] = Closed
        /\ \A t \in Sessions : t # s => flushing'[t] = flushing[t]
    BY <1>1, <1>2, ClosedFits
  <2>3. \A t \in Sessions : flushing[t].pending # {} => m \in SequencesOf(flushing[t].pending)
    BY <1>2, <2>1, NextNumber DEF GoesOn, Whole
  <2>4. \A t \in Sessions : t # s => flushing[t].pending = {}
    BY <1>2, <1>4, <2>3 DEF Disjoint
  <2>5. Whole(trail \cup mine) /\ m \in SequencesOf(mine)
    BY <1>2, <1>4, <2>3 DEF GoesOn
  <2> HIDE DEF mine
  <2>6. ASSUME NEW t \in Sessions, t # s
        PROVE  GoesOn(trail \cup mine, flushing[t])
    <3> DEFINE ready == flushing[t].ready
    <3>1. flushing[t].pending = {}
      BY <2>4, <2>6
    <3>2. /\ (trail \cup mine) \cup {} = trail \cup mine
          /\ (trail \cup {}) \cup ready = trail \cup ready
      OBVIOUS
    <3>3. Disjoint(trail \cup mine, {})
      BY DEF Disjoint, SequencesOf
    <3>4. ASSUME flushing[t].pc = "insert"
          PROVE  ready # {} /\ ~Disjoint(trail \cup mine, ready)
      <4>1. /\ ready # {}
            /\ ~Disjoint(trail, ready) \/ Whole(trail \cup ready)
        BY <1>2, <3>1, <3>2, <3>4 DEF GoesOn
      <4>2. SequencesOf(trail \cup mine) = SequencesOf(trail) \cup SequencesOf(mine)
        BY DEF SequencesOf
      <4>3. Disjoint(trail, ready) => m \in SequencesOf(ready)
        BY <2>1, <4>1, NextNumber DEF Whole
      <4> QED
        BY <2>5, <4>1, <4>2, <4>3 DEF Disjoint
    <3> QED
      BY <2>5, <3>1, <3>2, <3>3, <3>4 DEF GoesOn
  <2>7. \A t \in Sessions : GoesOn(trail', flushing'[t])
    BY <1>1, <2>2, <2>5, <2>6, ClosedFits
  <2>8. \A r, t \in Sessions :
          r # t => Disjoint(flushing'[r].pending, flushing'[t].pending)
    <3>1. \A t \in Sessions : flushing'[t].pending = {}
      BY <2>2, <2>4 DEF Closed
    <3> QED
      BY <3>1 DEF Disjoint, SequencesOf
  <2>9. Whole(trail') /\ issued' \in Nat
    BY <1>1, <1>2, <2>5
  <2> QED
    BY <2>2, <2>7, <2>8, <2>9 DEF AuditInv, Tracked
<1> QED
  BY <1>3, <1>4

LEMMA AuditNext == AuditInv /\ [NextAudit]_auditVars => AuditInv'
<1> SUFFICES ASSUME AuditInv, [NextAudit]_auditVars PROVE AuditInv'
  OBVIOUS
<1>1. ASSUME NEW s \in Sessions, Load(s) PROVE AuditInv'
  <2> DEFINE f == [flushing[s] EXCEPT !.pc = "open"]
  <2>1. flushing' = [flushing EXCEPT ![s] = f] /\ UNCHANGED <<trail, issued>>
    BY <1>1 DEF Load
  <2>2. /\ issued \in Nat /\ flushing[s] \in SessionStates /\ GoesOn(trail, flushing[s])
        /\ \A t \in Sessions \ {s} : Disjoint(flushing[s].pending, flushing[t].pending)
    BY DEF AuditInv, Tracked
  <2>3. f \in SessionStates /\ f.pc = "open" /\ f.pending = flushing[s].pending
    BY <2>2 DEF SessionStates
  <2> HIDE DEF f
  <2>4. GoesOn(trail, f) /\ UNCHANGED trail /\ issued' \in Nat
    BY <2>1, <2>2, <2>3 DEF GoesOn
  <2>5. \A t \in Sessions \ {s} : Disjoint(f.pending, flushing[t].pending)
    BY <2>2, <2>3
  <2> QED
    BY <2>1, <2>3, <2>4, <2>5, SessionMoves
<1>2. ASSUME NEW s \in Sessions, Rollback(s) PROVE AuditInv'
  BY <1>2, SessionCloses DEF Rollback
<1>3. CASE UNCHANGED auditVars
  BY <1>3 DEF auditVars, AuditInv
<1> QED
  BY <1>1, <1>2, <1>3, AuditFlush, AuditInsert, AuditCommit DEF NextAudit

\* Numbered rows are as many as their numbers.
LEMMA AsManyRows ==
  ASSUME NEW events, NEW n \in Nat, Numbered(events, n)
  PROVE  IsFiniteSet(events) /\ Cardinality(events) = n
<1> DEFINE at(i) == CHOOSE e \in events : e.sequence = i
           f == [i \in 0..n - 1 |-> at(i)]
<1>1. \A i \in 0..n - 1 : at(i) \in events /\ at(i).sequence = i
  BY DEF Numbered, SequencesOf
<1>2. \A e \in events : e.sequence \in 0..n - 1
  BY DEF Numbered, SequencesOf
<1>3. \A e \in events : at(e.sequence) = e
  BY <1>1, <1>2 DEF Numbered
<1> HIDE DEF at
<1>4. f \in [0..n - 1 -> events]
  BY <1>1
<1>5. f \in Bijection(0..n - 1, events)
  <2>1. \A i, j \in 0..n - 1 : f[i] = f[j] => i = j
    BY <1>1
  <2>2. \A e \in events : \E i \in 0..n - 1 : f[i] = e
    BY <1>2, <1>3
  <2> QED
    BY <1>4, <2>1, <2>2 DEF Bijection, Injection, Surjection, IsInjective
<1>6. IsFiniteSet(0..n - 1) /\ Cardinality(0..n - 1) = n
  BY FS_Interval
<1> QED
  BY <1>5, <1>6, FS_Bijection DEF ExistsBijection

LEMMA WholeVerifies ==
  ASSUME NEW events, Whole(events)
  PROVE  Verified(events) /\ IsFiniteSet(events)
<1>1. PICK n \in Nat : Numbered(events, n)
  BY DEF Whole
<1>2. IsFiniteSet(events) /\ Cardinality(events) = n
  BY <1>1, AsManyRows
<1>3. SequenceOk(events)
  BY <1>1, <1>2 DEF SequenceOk, Numbered
<1>4. ASSUME \A e \in events : e.hash # NoHash, NEW e \in events
      PROVE  LET before == {d \in events : d.sequence < e.sequence}
                 prev == IF before = {} THEN Genesis ELSE TipOf(before).hash
             IN  e.hash = ChainHash(prev, e)
  <2> DEFINE before == {d \in events : d.sequence < e.sequence}
  <2>1. \A d \in events : d.sequence \in Nat
    BY DEF Whole, AuditRows
  <2>2. /\ before = {} <=> e.sequence = 0
        /\ before # {} => TipOf(before) \in events /\ TipOf(before).sequence = e.sequence - 1
    BY <1>1, <2>1, RowsBefore
  <2> HIDE DEF before
  <2>3. /\ e.sequence = 0 => e.hash = ChainHash(Genesis, e)
        /\ \A d \in events : d.sequence = e.sequence - 1 => e.hash = ChainHash(d.hash, e)
    BY <1>4 DEF Whole, Linked, From
  <2>4. CASE before = {}
    BY <2>2, <2>3, <2>4 DEF before
  <2>5. CASE before # {}
    <3>1. e.hash = ChainHash(TipOf(before).hash, e)
      BY <2>2, <2>3, <2>5
    <3> QED
      BY <2>5, <3>1 DEF before
  <2> QED
    BY <2>4, <2>5
<1> QED
  BY <1>2, <1>3, <1>4 DEF Verified, ChainOk

-----------------------------------------------------------------------------
(* AuditChain: an altered trail                                              *)

\* A chain's hashes are the same only when they commit to the same.
LEMMA HashTellsApart ==
  ASSUME NEW prev \in Hashes, NEW other \in Hashes,
         NEW c \in Commitments, NEW d \in Commitments, Append(prev, c) = Append(other, d)
  PROVE  c = d
<1>1. /\ Len(Append(prev, c)) = Len(prev) + 1 /\ Append(prev, c)[Len(prev) + 1] = c
      /\ Len(Append(other, d)) = Len(other) + 1 /\ Append(other, d)[Len(other) + 1] = d
  BY AppendProperties DEF Hashes
<1>2. Len(prev) \in Nat /\ Len(other) \in Nat
  BY LenProperties DEF Hashes
<1>3. Len(prev) = Len(other)
  BY <1>1, <1>2
<1> QED
  BY <1>1, <1>3

\* The rows a reader may find: the fields are not what they were.
FoundRows == [id : Nat, sequence : Nat, fields : {"written", "altered"}, hash : Hashes]

\* In rows that verify, each goes on from the hash before it.
LEMMA VerifiedRow ==
  ASSUME NEW found, found \subseteq FoundRows, IsFiniteSet(found), Verified(found),
         NEW r \in found
  PROVE  \E prev \in Hashes :
           /\ r.hash = ChainHash(prev, r)
           /\ r.sequence = 0 => prev = Genesis
           /\ \A d \in found : d.sequence = r.sequence - 1 => prev = d.hash
<1> DEFINE n == Cardinality(found)
           before == {d \in found : d.sequence < r.sequence}
           prev == IF before = {} THEN Genesis ELSE TipOf(before).hash
<1>1. n \in Nat
  BY FS_CardinalityType
<1>2. Numbered(found, n)
  BY DEF Verified, SequenceOk, Numbered
<1>3. \A d \in found : d.sequence \in Nat /\ d.hash \in Hashes
  BY DEF FoundRows
<1>4. NoHash \notin Hashes
  BY AuditAssumption DEF Hashes, Commitments
<1>5. r.hash = ChainHash(prev, r)
  BY <1>3, <1>4 DEF Verified, ChainOk
<1> HIDE DEF n
<1>6. /\ before = {} <=> r.sequence = 0
      /\ before # {} => TipOf(before) \in found /\ TipOf(before).sequence = r.sequence - 1
  BY <1>1, <1>2, <1>3, RowsBefore
<1>7. Genesis \in Hashes
  BY EmptySeq DEF Genesis, Hashes
<1> HIDE DEF before
<1>8. prev \in Hashes
  BY <1>3, <1>6, <1>7
<1>9. r.sequence = 0 => prev = Genesis
  BY <1>6
<1>10. ASSUME NEW d \in found, d.sequence = r.sequence - 1
       PROVE  prev = d.hash
  <2>1. r.sequence # 0
    BY <1>3, <1>10
  <2>2. TipOf(before) = d
    BY <1>2, <1>6, <1>10, <2>1 DEF Numbered
  <2> QED
    BY <1>6, <2>1, <2>2
<1> HIDE DEF prev
<1> QED
  BY <1>5, <1>8, <1>9, <1>10

LEMMA FiniteAltered ==
  ASSUME NEW S, IsFiniteSet(S), NEW A, NEW x, NEW y
  PROVE  IsFiniteSet((S \ A) \cup {x, y})
<1>1. IsFiniteSet(S \ A)
  BY FS_Subset
<1>2. IsFiniteSet({x, y})
  <2>1. IsFiniteSet({} \cup {x})
    BY FS_EmptySet, FS_AddElement
  <2>2. IsFiniteSet(({} \cup {x}) \cup {y})
    BY <2>1, FS_AddElement
  <2>3. ({} \cup {x}) \cup {y} = {x, y}
    OBVIOUS
  <2> QED
    BY <2>2, <2>3
<1> QED
  BY <1>1, <1>2, FS_Union

\* A row whose hash was kept commits to what it was written as.
LEMMA KeptHash ==
  ASSUME NEW events, events \subseteq FoundRows, IsFiniteSet(events), Verified(events),
         NEW e \in events,
         NEW found, found \subseteq FoundRows, IsFiniteSet(found), Verified(found),
         NEW r \in found, r.hash = e.hash
  PROVE  r.sequence = e.sequence /\ r.fields = e.fields
<1>1. PICK prev \in Hashes : e.hash = ChainHash(prev, e)
  BY VerifiedRow
<1>2. PICK other \in Hashes : r.hash = ChainHash(other, r)
  BY VerifiedRow
<1>3. /\ <<e.id, e.sequence, e.fields>> \in Commitments
      /\ <<r.id, r.sequence, r.fields>> \in Commitments
  BY DEF Commitments, FoundRows
<1>4. Append(prev, <<e.id, e.sequence, e.fields>>) = Append(other, <<r.id, r.sequence, r.fields>>)
  BY <1>1, <1>2 DEF ChainHash
<1>5. <<e.id, e.sequence, e.fields>> = <<r.id, r.sequence, r.fields>>
  BY <1>1, <1>2, <1>3, <1>4, HashTellsApart
<1> QED
  BY <1>5

\* Whatever row is altered, the chain does not verify.
LEMMA AlteredShows ==
  ASSUME NEW events, Whole(events), events # {}, \A e \in events : e.hash # NoHash,
         NEW found \in Altered(events)
  PROVE  ~Verified(found)
<1> SUFFICES ASSUME Verified(found) PROVE FALSE
  OBVIOUS
<1>1. Verified(events) /\ IsFiniteSet(events)
  BY WholeVerifies
<1>2. events \subseteq FoundRows /\ \A e \in events : e.fields = "written"
  BY DEF Whole, AuditRows, FoundRows
<1>3. PICK n \in Nat : Numbered(events, n)
  BY DEF Whole
<1>4. \A e \in events : e.sequence \in 0..n - 1
  BY <1>3 DEF Numbered, SequencesOf
<1>5. n \in Nat \ {0} /\ \A e \in events : e.sequence \in Nat
  BY <1>4
<1>6. TipOf(events) \in events /\ TipOf(events).sequence = n - 1
  BY <1>3, <1>5, TipIsLast
<1>7. CASE found \in Edited(events)
  <2>1. PICK e \in events : found = (events \ {e}) \cup {[e EXCEPT !.fields = "altered"]}
    BY <1>7 DEF Edited
  <2> DEFINE r == [e EXCEPT !.fields = "altered"]
  <2>2. r \in FoundRows /\ r.hash = e.hash /\ r.fields = "altered"
    BY <1>2 DEF FoundRows
  <2>3. found = (events \ {e}) \cup {r, r}
    BY <2>1
  <2> HIDE DEF r
  <2>4. found \subseteq FoundRows /\ IsFiniteSet(found) /\ r \in found
    BY <1>1, <1>2, <2>2, <2>3, FiniteAltered
  <2>5. r.fields = e.fields
    BY <1>1, <1>2, <2>2, <2>4, KeptHash
  <2> QED
    BY <1>2, <2>2, <2>5
<1>8. CASE found \in Rehashed(events)
  <2>1. PICK e \in events, h \in {Genesis} \cup {d.hash : d \in events} :
          e.hash # h /\ found = (events \ {e}) \cup {[e EXCEPT !.hash = h]}
    BY <1>8 DEF Rehashed
  <2> DEFINE r == [e EXCEPT !.hash = h]
  <2>2. h \in Hashes
    <3>1. Genesis \in Hashes
      BY EmptySeq DEF Genesis, Hashes
    <3> QED
      BY <1>2, <2>1, <3>1 DEF FoundRows
  <2>3. /\ r \in FoundRows /\ r.hash = h
        /\ r.id = e.id /\ r.sequence = e.sequence /\ r.fields = e.fields
    BY <1>2, <2>2 DEF FoundRows
  <2>4. found = (events \ {e}) \cup {r, r}
    BY <2>1
  <2> HIDE DEF r
  <2>5. found \subseteq FoundRows /\ IsFiniteSet(found) /\ r \in found
    BY <1>1, <1>2, <2>3, <2>4, FiniteAltered
  <2>6. PICK prev \in Hashes :
          /\ e.hash = ChainHash(prev, e)
          /\ e.sequence = 0 => prev = Genesis
          /\ \A d \in events : d.sequence = e.sequence - 1 => prev = d.hash
    BY <1>1, <1>2, VerifiedRow
  <2>7. PICK other \in Hashes :
          /\ r.hash = ChainHash(other, r)
          /\ r.sequence = 0 => other = Genesis
          /\ \A d \in found : d.sequence = r.sequence - 1 => other = d.hash
    BY <2>5, VerifiedRow
  <2>8. prev = other
    <3>1. CASE e.sequence = 0
      BY <2>3, <2>6, <2>7, <3>1
    <3>2. CASE e.sequence # 0
      <4>1. e.sequence - 1 \in SequencesOf(events)
        BY <1>3, <1>4, <3>2 DEF Numbered
      <4>2. PICK d \in events : d.sequence = e.sequence - 1
        BY <4>1 DEF SequencesOf
      <4>3. d \in found
        BY <1>5, <2>4, <4>2
      <4> QED
        BY <2>3, <2>6, <2>7, <4>2, <4>3
    <3> QED
      BY <3>1, <3>2
  <2> QED
    BY <2>1, <2>3, <2>6, <2>7, <2>8 DEF ChainHash
<1>9. CASE found \in Dropped(events)
  <2>1. PICK e \in events : e # TipOf(events) /\ found = events \ {e}
    BY <1>9 DEF Dropped
  <2>2. Cardinality(found) \in Nat
    BY <1>1, <2>1, FS_Subset, FS_CardinalityType
  <2>3. SequencesOf(found) = 0..Cardinality(found) - 1
    BY DEF Verified, SequenceOk
  <2>4. n - 1 \in SequencesOf(found)
    BY <1>6, <2>1 DEF SequencesOf
  <2>5. e.sequence \in SequencesOf(found)
    BY <1>4, <2>2, <2>3, <2>4
  <2>6. PICK d \in found : d.sequence = e.sequence
    BY <2>5 DEF SequencesOf
  <2> QED
    BY <1>3, <2>1, <2>6 DEF Numbered
<1>10. CASE found \in Swapped(events)
  <2>1. PICK d \in events, e \in events :
          /\ d # e
          /\ found = (events \ {d, e}) \cup {[d EXCEPT !.sequence = e.sequence],
                                             [e EXCEPT !.sequence = d.sequence]}
    BY <1>10 DEF Swapped
  <2> DEFINE r == [d EXCEPT !.sequence = e.sequence]
             q == [e EXCEPT !.sequence = d.sequence]
  <2>2. r \in FoundRows /\ q \in FoundRows /\ r.hash = d.hash /\ r.sequence = e.sequence
    BY <1>2 DEF FoundRows
  <2>3. found = (events \ {d, e}) \cup {r, q}
    BY <2>1
  <2> HIDE DEF r, q
  <2>4. found \subseteq FoundRows /\ IsFiniteSet(found) /\ r \in found
    BY <1>1, <1>2, <2>2, <2>3, FiniteAltered
  <2>5. r.sequence = d.sequence
    BY <1>1, <1>2, <2>2, <2>4, KeptHash
  <2> QED
    BY <1>3, <2>1, <2>2, <2>5 DEF Numbered
<1>11. CASE found \in Repeated(events)
  <2>1. PICK e \in events :
          found = events \cup {[e EXCEPT !.sequence = TipOf(events).sequence + 1]}
    BY <1>11 DEF Repeated
  <2> DEFINE r == [e EXCEPT !.sequence = TipOf(events).sequence + 1]
  <2>2. r \in FoundRows /\ r.hash = e.hash /\ r.sequence = n
    BY <1>2, <1>5, <1>6 DEF FoundRows
  <2>3. found = (events \ {}) \cup {r, r}
    BY <2>1
  <2> HIDE DEF r
  <2>4. found \subseteq FoundRows /\ IsFiniteSet(found) /\ r \in found
    BY <1>1, <1>2, <2>2, <2>3, FiniteAltered
  <2>5. r.sequence = e.sequence
    BY <1>1, <1>2, <2>2, <2>4, KeptHash
  <2> QED
    BY <1>4, <2>2, <2>5
<1> QED
  BY <1>7, <1>8, <1>9, <1>10, <1>11 DEF Altered

AuditSpec == InitAudit /\ [][NextAudit]_auditVars

\* However many sessions load, flush, wait, fail and commit, with locked rows or
\* without, the trail they leave has every number once and its chain verifies,
\* and no row of a chained trail can be altered without verify_integrity saying so.
THEOREM AuditIsEvident == AuditSpec => []AuditTrailHolds
<1>1. AuditInv => AuditTrailHolds
  <2> SUFFICES ASSUME AuditInv PROVE AuditTrailHolds
    OBVIOUS
  <2>1. Whole(trail)
    BY DEF AuditInv, Tracked
  <2>2. Verified(trail)
    BY <2>1, WholeVerifies
  <2>3. trail # {} /\ (\A e \in trail : e.hash # NoHash) =>
          \A found \in Altered(trail) : ~Verified(found)
    BY <2>1, AlteredShows
  <2> QED
    BY <2>2, <2>3 DEF AuditTrailHolds
<1> QED
  BY <1>1, AuditInit, AuditNext, PTL DEF AuditSpec

LEMMA AuditAlone == ServicesSpec => AuditSpec
<1>1. [NextServices]_servicesVars => [NextAudit]_auditVars
  BY DEF NextServices, servicesVars, OthersStay, Still
<1> QED
  BY <1>1, PTL DEF ServicesSpec, InitServices, AuditSpec

\* The same, of the run that checks every component.
THEOREM AuditIsKept == ServicesSpec => []AuditHolds
<1>1. AuditTrailHolds => AuditHolds
  BY DEF AuditHolds
<1> QED
  BY <1>1, AuditAlone, AuditIsEvident, PTL

-----------------------------------------------------------------------------
(* The pages of a listing                                                    *)

Rank(files, f) == Cardinality({g \in files : g <= f})

\* What is listed is numbered in its order, without a gap.
LEMMA Ranks ==
  ASSUME NEW top \in Nat, NEW files \in SUBSET (1..top)
  PROVE  /\ IsFiniteSet(files) /\ Cardinality(files) \in Nat
         /\ \A f \in files : Rank(files, f) \in 1..Cardinality(files)
         /\ \A k \in 1..Cardinality(files) : \E f \in files : Rank(files, f) = k
<1> DEFINE upTo(f) == {g \in files : g <= f}
<1>1. IsFiniteSet(1..top)
  BY FS_Interval
<1>2. IsFiniteSet(files)
  BY <1>1, FS_Subset
<1>3. \A f \in files : upTo(f) \in SUBSET files /\ f \in upTo(f) /\ f \in Int
  BY <1>1
<1>r. \A f \in files : Rank(files, f) = Cardinality(upTo(f))
  BY DEF Rank
<1> HIDE DEF upTo
<1>4. \A f \in files :
        IsFiniteSet(upTo(f)) /\ Rank(files, f) \in Nat /\ Rank(files, f) <= Cardinality(files)
  BY <1>2, <1>3, <1>r, FS_Subset, FS_CardinalityType
<1>5. \A f \in files : Rank(files, f) # 0
  BY <1>3, <1>4, <1>r, FS_EmptySet
<1>6. ASSUME NEW f \in files, NEW g \in files, f < g
      PROVE  Rank(files, f) < Rank(files, g)
  <2>1. upTo(f) \subseteq upTo(g) /\ g \notin upTo(f) /\ g \in upTo(g)
    <3>1. \A h \in files : h \in Int
      BY <1>1
    <3>2. \A h \in files : h <= f => h <= g
      BY <1>6, <3>1
    <3>3. ~(g <= f) /\ g <= g
      BY <1>6, <3>1
    <3> QED
      BY <3>2, <3>3 DEF upTo
  <2>2. IsFiniteSet(upTo(g)) /\ upTo(f) # upTo(g)
    BY <1>4, <2>1
  <2>3. Rank(files, f) = Cardinality(upTo(f)) /\ Rank(files, g) = Cardinality(upTo(g))
    BY <1>r
  <2>4. Rank(files, f) \in Int /\ Rank(files, g) \in Int
    BY <1>4
  <2>5. /\ Cardinality(upTo(f)) <= Cardinality(upTo(g))
        /\ Cardinality(upTo(f)) = Cardinality(upTo(g)) => upTo(f) = upTo(g)
    BY <2>1, <2>2, FS_Subset
  <2> QED
    BY <2>2, <2>3, <2>4, <2>5
<1>7. \A f \in files : Rank(files, f) \in 1..Cardinality(files)
  BY <1>4, <1>5, <1>2, FS_CardinalityType
<1> DEFINE n == Cardinality(files)
           rank == [f \in files |-> Rank(files, f)]
<1>8. n \in Nat /\ IsFiniteSet(1..n) /\ Cardinality(1..n) = n
  BY <1>2, FS_CardinalityType, FS_Interval
<1>9. rank \in Injection(files, 1..n)
  <2>1. rank \in [files -> 1..n]
    BY <1>7
  <2>2. \A f, g \in files : rank[f] = rank[g] => f = g
    <3> SUFFICES ASSUME NEW f \in files, NEW g \in files, rank[f] = rank[g] PROVE f = g
      OBVIOUS
    <3>1. Rank(files, f) = Rank(files, g) /\ Rank(files, f) \in Int
      BY <1>4
    <3>2. f < g => Rank(files, f) < Rank(files, g)
      BY <1>6
    <3>3. g < f => Rank(files, g) < Rank(files, f)
      BY <1>6
    <3> QED
      BY <1>3, <3>1, <3>2, <3>3
  <2> QED
    BY <2>1, <2>2 DEF Injection, IsInjective
<1>10. rank \in Surjection(files, 1..n)
  <2> HIDE DEF rank, n
  <2> QED
    BY <1>8, <1>9, FS_Injection DEF n
<1>11. \A k \in 1..n : \E f \in files : rank[f] = k
  BY <1>10 DEF Surjection
<1> QED
  BY <1>2, <1>7, <1>8, <1>11

\* A page is an interval of the numbers.
LEMMA PageOf ==
  ASSUME NEW p \in Nat \ {0}, NEW r \in Nat \ {0}, NEW n \in Nat \ {0}
  PROVE  (r - 1) \div p = n - 1 <=> (n - 1) * p < r /\ r <= n * p
<1> DEFINE x == r - 1
           k == n - 1
           q == x \div p
<1>1. x \in Nat /\ k \in Nat /\ p \in Nat /\ p > 0
  OBVIOUS
<1>2. PICK m \in 0..(p - 1) : x = p * q + m /\ q \in Int
  BY <1>1, DivisionLeaves
<1> HIDE DEF q
<1>3. n * p = k * p + p /\ k * p \in Int
  BY <1>1
<1>4. q = k => p * q = k * p
  BY <1>1, <1>2
<1>5. q < k => p * q + p <= k * p
  <2>1. q + 1 <= k => p * (q + 1) <= p * k
    BY <1>1, <1>2
  <2>2. p * (q + 1) = p * q + p /\ p * k = k * p
    BY <1>1, <1>2
  <2> QED
    BY <1>1, <1>2, <2>1, <2>2
<1>6. k < q => k * p + p <= p * q
  <2>1. k + 1 <= q => p * (k + 1) <= p * q
    BY <1>1, <1>2
  <2>2. p * (k + 1) = k * p + p
    BY <1>1, <1>2
  <2> QED
    BY <1>1, <1>2, <2>1, <2>2
<1>7. p * q \in Int
  BY <1>1, <1>2
<1>8. q = k <=> k * p <= x /\ x < k * p + p
  <2> HIDE DEF x, k
  <2> QED
    BY <1>1, <1>2, <1>3, <1>4, <1>5, <1>6, <1>7
<1>9. k * p <= x <=> k * p < r
  BY <1>3
<1>10. x < k * p + p <=> r <= n * p
  BY <1>1, <1>3
<1> QED
  BY <1>8, <1>9, <1>10 DEF q

LEMMA PageRanks ==
  ASSUME NEW top \in Nat, NEW files \in SUBSET (1..top), NEW p \in Nat \ {0},
         NEW n \in Nat \ {0}
  PROVE  \A f \in files : (Rank(files, f) - 1) \div p = n - 1 <=>
                            (n - 1) * p < Rank(files, f) /\ Rank(files, f) <= n * p
<1>0. /\ Cardinality(files) \in Nat
      /\ \A f \in files : Rank(files, f) \in 1..Cardinality(files)
  BY Ranks
<1>1. \A f \in files : Rank(files, f) \in Nat \ {0}
  BY <1>0
<1> QED
  BY <1>1, PageOf

\* After a page that is not full there is nothing.
LEMMA ShortPageIsLast ==
  ASSUME NEW top \in Nat, NEW files \in SUBSET (1..top), NEW p \in Nat \ {0},
         NEW n \in Nat \ {0},
         Cardinality({f \in files : (Rank(files, f) - 1) \div p = n - 1}) < p
  PROVE  \A f \in files : Rank(files, f) <= n * p
<1> DEFINE base == (n - 1) * p
           all == Cardinality(files)
           page == {f \in files : (Rank(files, f) - 1) \div p = n - 1}
<1>1. p \in Nat \ {0} /\ base \in Nat /\ n * p = base + p
  OBVIOUS
<1>2. all \in Nat /\ IsFiniteSet(files) /\ \A f \in files : Rank(files, f) \in 1..all
  BY Ranks
<1>3. page = {f \in files : base < Rank(files, f) /\ Rank(files, f) <= n * p}
  <2>1. \A f \in files : (Rank(files, f) - 1) \div p = n - 1 <=>
                         (n - 1) * p < Rank(files, f) /\ Rank(files, f) <= n * p
    BY PageRanks
  <2> QED
    BY <2>1
<1>4. IsFiniteSet(page) /\ Cardinality(page) \in Nat
  <2>1. page \subseteq files
    BY <1>3
  <2> QED
    BY <1>2, <2>1, FS_Subset, FS_CardinalityType
<1>5. Cardinality(page) < p
  OBVIOUS
<1> SUFFICES ASSUME NEW f \in files, Rank(files, f) > n * p PROVE FALSE
  BY <1>1, <1>2
<1> HIDE DEF page
<1>6. base + p < all
  BY <1>1, <1>2
<1> HIDE DEF base, all
<1> DEFINE at(k) == CHOOSE g \in files : Rank(files, g) = base + k
           pick == [k \in 1..p |-> at(k)]
<1>7. \A k \in 1..p : at(k) \in files /\ Rank(files, at(k)) = base + k
  <2> SUFFICES ASSUME NEW k \in 1..p PROVE \E g \in files : Rank(files, g) = base + k
    OBVIOUS
  <2>1. base + k \in 1..all
    BY <1>1, <1>2, <1>6
  <2> QED
    BY <2>1, Ranks DEF all
<1>8. \A k \in 1..p : at(k) \in page
  BY <1>1, <1>3, <1>7
<1> HIDE DEF at
<1>9. pick \in Injection(1..p, page)
  <2>1. pick \in [1..p -> page]
    BY <1>8
  <2>2. \A j, k \in 1..p : pick[j] = pick[k] => j = k
    <3> SUFFICES ASSUME NEW j \in 1..p, NEW k \in 1..p, pick[j] = pick[k] PROVE j = k
      OBVIOUS
    <3>1. base + j = base + k
      BY <1>7
    <3> QED
      BY <1>1, <3>1
  <2> QED
    BY <2>1, <2>2 DEF Injection, IsInjective
<1> HIDE DEF pick
<1>10. Cardinality(1..p) = p
  BY <1>1, FS_Interval
<1>11. p <= Cardinality(page)
  BY <1>4, <1>9, <1>10, FS_Injection
<1> QED
  BY <1>1, <1>4, <1>5, <1>11

-----------------------------------------------------------------------------
(* UpstreamCalls: the listing of files                                       *)

LEMMA FileRanks ==
  ASSUME prFiles \in SUBSET (1..LastFile)
  PROVE  \A f \in prFiles : Rank(prFiles, f) \in Nat \ {0}
<1>1. LastFile \in Nat
  BY UpstreamAssumption
<1>2. /\ Cardinality(prFiles) \in Nat
      /\ \A f \in prFiles : Rank(prFiles, f) \in 1..Cardinality(prFiles)
  BY <1>1, Ranks
<1> QED
  BY <1>2

LEMMA FilePageRanks ==
  ASSUME prFiles \in SUBSET (1..LastFile), NEW n \in Nat \ {0}
  PROVE  /\ FilePage(n) =
              {f \in prFiles : /\ (n - 1) * FilesPerPage < Rank(prFiles, f)
                               /\ Rank(prFiles, f) <= n * FilesPerPage}
         /\ LastPage(FilePage(n)) =>
              \A f \in prFiles : Rank(prFiles, f) <= n * FilesPerPage
<1>1. FilesPerPage \in Nat \ {0} /\ LastFile \in Nat
  BY UpstreamAssumption
<1>2. FilePage(n) = {f \in prFiles : (Rank(prFiles, f) - 1) \div FilesPerPage = n - 1}
  BY DEF FilePage, Rank
<1>3. \A f \in prFiles : (Rank(prFiles, f) - 1) \div FilesPerPage = n - 1 <=>
                          /\ (n - 1) * FilesPerPage < Rank(prFiles, f)
                          /\ Rank(prFiles, f) <= n * FilesPerPage
  BY <1>1, PageRanks
<1>4. ASSUME LastPage(FilePage(n))
      PROVE  \A f \in prFiles : Rank(prFiles, f) <= n * FilesPerPage
  BY <1>1, <1>2, <1>4, ShortPageIsLast DEF LastPage
<1> QED
  BY <1>2, <1>3, <1>4

-----------------------------------------------------------------------------
(* UpstreamCalls: what a call has sent                                       *)

CallRecords ==
  [op : {"write", "state", "listing", "notify"},
   step : {"write", "tell", "add", "read", "drop", "page", "end"},
   tries : Nat, label : StatusLabels, left : SUBSET (StatusLabels \cup Surfaces),
   page : Nat \ {0}, got : SUBSET (1..LastFile),
   sent : Seq({"write"} \cup StatusLabels \cup Surfaces),
   moved : BOOLEAN, how : {"open", "returned", "raised"}]

\* A request that is tried again has written nothing, and a surface that was
\* told is not among those left.
CallHolds(call) ==
  /\ call \in CallRecords
  /\ call.how = "open" <=> call.step # "end"
  /\ call.op = "write" =>
       /\ call.step \in {"write", "end"}
       /\ call.step = "write" => call.sent = <<>>
       /\ call.how = "returned" => call.sent # <<>>
  /\ call.op = "state" =>
       /\ call.step \in {"add", "read", "drop", "end"} /\ call.left \subseteq StatusLabels
       /\ call.step = "add" => call.sent = <<>>
       /\ call.step = "drop" => call.left # {}
  /\ call.op = "listing" => call.step \in {"page", "end"} /\ call.sent = <<>>
  /\ call.op = "notify" =>
       /\ call.step \in {"tell", "end"} /\ call.left \subseteq Surfaces
       /\ call.step = "tell" => call.left # {}
       /\ \A i \in DOMAIN call.sent : call.sent[i] \notin call.left
  /\ call.op # "notify" => Len(call.sent) <= 1
  /\ \A i, j \in DOMAIN call.sent : call.sent[i] = call.sent[j] => i = j

\* The parts of a call that a request can change.
LEMMA SentOnce ==
  ASSUME NEW call, CallHolds(call), NEW x \in {"write"} \cup StatusLabels \cup Surfaces,
         \A i \in DOMAIN call.sent : call.sent[i] # x
  PROVE  /\ Append(call.sent, x) \in Seq({"write"} \cup StatusLabels \cup Surfaces)
         /\ Append(call.sent, x) # <<>> /\ Len(Append(call.sent, x)) = Len(call.sent) + 1
         /\ \A i, j \in DOMAIN Append(call.sent, x) :
              Append(call.sent, x)[i] = Append(call.sent, x)[j] => i = j
         /\ \A i \in DOMAIN Append(call.sent, x) :
              Append(call.sent, x)[i] = x \/ \E j \in DOMAIN call.sent :
                                               Append(call.sent, x)[i] = call.sent[j]
<1> DEFINE S == {"write"} \cup StatusLabels \cup Surfaces
           old == call.sent
           new == Append(old, x)
<1>1. old \in Seq(S) /\ x \in S /\ \A i, j \in DOMAIN old : old[i] = old[j] => i = j
  BY DEF CallHolds, CallRecords
<1> HIDE DEF S, old
<1>2. /\ new \in Seq(S) /\ new # <<>> /\ Len(new) = Len(old) + 1
      /\ \A i \in 1..Len(old) : new[i] = old[i]
      /\ new[Len(old) + 1] = x
  BY <1>1, AppendProperties
<1>3. /\ Len(old) \in Nat /\ DOMAIN old = 1..Len(old) /\ DOMAIN new = 1..Len(new)
  BY <1>1, <1>2, LenProperties
<1> HIDE DEF new
<1>4. \A i \in DOMAIN new : i \in DOMAIN old \/ i = Len(old) + 1
  BY <1>2, <1>3
<1>5. \A i \in DOMAIN old : old[i] # x
  BY DEF old
<1>6. \A i, j \in DOMAIN new : new[i] = new[j] => i = j
  BY <1>1, <1>2, <1>3, <1>4, <1>5
<1>7. \A i \in DOMAIN new : new[i] = x \/ \E j \in DOMAIN old : new[i] = old[j]
  BY <1>2, <1>3, <1>4
<1> QED
  BY <1>2, <1>6, <1>7 DEF S, old, new

\* A call that ends keeps what it has sent.
LEMMA EndsWell ==
  ASSUME NEW call \in CallRecords, NEW how \in {"returned", "raised"},
         call.op = "write" /\ how = "returned" => call.sent # <<>>,
         call.op = "listing" => call.sent = <<>>,
         call.op # "notify" => Len(call.sent) <= 1,
         \A i, j \in DOMAIN call.sent : call.sent[i] = call.sent[j] => i = j
  PROVE  /\ CallHolds(Ended(call, how)) /\ Ended(call, how).step = "end"
         /\ Ended(call, how).how = how /\ Ended(call, how).op = call.op
         /\ Ended(call, how).label = call.label /\ Ended(call, how).moved = call.moved
         /\ Ended(call, how).got = call.got
<1> DEFINE e == Ended(call, how)
<1>0. e = [call EXCEPT !.step = "end", !.how = how, !.tries = 0, !.left = {}, !.page = 1]
  BY DEF Ended
<1>1. /\ e \in CallRecords /\ e.step = "end" /\ e.how = how /\ e.left = {}
      /\ e.sent = call.sent /\ e.op = call.op /\ e.label = call.label
      /\ e.moved = call.moved /\ e.got = call.got
  <2> HIDE DEF e
  <2>1. e = [op |-> call.op, step |-> "end", tries |-> 0, label |-> call.label, left |-> {},
             page |-> 1, got |-> call.got, sent |-> call.sent, moved |-> call.moved,
             how |-> how]
    BY <1>0 DEF CallRecords
  <2> QED
    BY <2>1 DEF CallRecords
<1> HIDE DEF e
<1>2. CallHolds(e)
  BY <1>1 DEF CallHolds
<1> QED
  BY <1>1, <1>2 DEF e

\* What is sent with an answer: a POST that was handled, and nothing else.
LEMMA SendsOnce ==
  ASSUME UpstreamAssumption, NEW call, CallHolds(call), call.step # "end", NEW reply
  PROVE  LET asked == Request(call)
             sent == WithSent(call, asked, reply)
         IN  /\ asked.method \in {"GET", "POST", "DELETE"}
             /\ asked.method # "POST" => sent = call
             /\ asked.method = "POST" => call.step \in {"write", "tell", "add"}
             /\ sent \in CallRecords
             /\ \A i, j \in DOMAIN sent.sent : sent.sent[i] = sent.sent[j] => i = j
             /\ sent = [call EXCEPT !.sent = sent.sent]
             /\ call.op # "notify" => Len(sent.sent) <= 1
             /\ call.op = "listing" => sent.sent = <<>>
             /\ call.op = "write" /\ reply = "ok" => sent.sent # <<>>
             /\ call.op = "notify" =>
                  /\ FirstOf(call.left) \in call.left
                  /\ \A i \in DOMAIN sent.sent :
                       sent.sent[i] \notin call.left \ {FirstOf(call.left)}
<1> DEFINE asked == Request(call)
           sent == WithSent(call, asked, reply)
<1>1. call \in CallRecords
  BY DEF CallHolds
<1>2. call.step \in {"write", "tell", "add", "read", "drop", "page"}
  BY <1>1 DEF CallRecords
<1>3. /\ call.step = "write" => asked = [method |-> "POST", on |-> "write"]
      /\ call.step = "tell" => asked = [method |-> "POST", on |-> FirstOf(call.left)]
      /\ call.step = "add" => asked = [method |-> "POST", on |-> call.label]
      /\ call.step = "read" => asked = [method |-> "GET", on |-> "labels"]
      /\ call.step = "drop" => asked = [method |-> "DELETE", on |-> FirstOf(call.left)]
      /\ call.step = "page" => asked = [method |-> "GET", on |-> "files"]
  BY DEF Request
<1> HIDE DEF asked
<1>4. sent = [call EXCEPT !.sent = IF asked.method = "POST" /\ Handled(reply)
                                   THEN Append(call.sent, asked.on) ELSE call.sent]
  BY DEF WithSent
<1>5. CASE ~(asked.method = "POST" /\ Handled(reply))
  <2>1. sent = call
    BY <1>1, <1>4, <1>5 DEF CallRecords
  <2>2. call.op = "notify" => FirstOf(call.left) \in call.left
    BY <1>2 DEF CallHolds, FirstOf
  <2>3. call.op = "write" /\ reply = "ok" => FALSE
    BY <1>2, <1>3, <1>5 DEF CallHolds, Handled
  <2>4. /\ asked.method \in {"GET", "POST", "DELETE"}
        /\ asked.method = "POST" => call.step \in {"write", "tell", "add"}
    BY <1>2, <1>3
  <2>5. call = [call EXCEPT !.sent = call.sent]
    BY <1>1 DEF CallRecords
  <2> HIDE DEF sent
  <2> QED
    BY <1>1, <2>1, <2>2, <2>3, <2>4, <2>5 DEF CallHolds, sent, asked
<1>6. CASE asked.method = "POST" /\ Handled(reply)
  <2>1. call.step \in {"write", "tell", "add"}
    BY <1>2, <1>3, <1>6
  <2>2. call.op = "notify" => call.step = "tell" /\ FirstOf(call.left) \in call.left
    BY <2>1 DEF CallHolds, FirstOf
  <2>3. call.op # "listing" /\ (call.op # "notify" => call.sent = <<>>)
    BY <1>1, <2>1 DEF CallHolds, CallRecords
  <2>4. asked.on \in {"write"} \cup StatusLabels \cup Surfaces
    BY <1>1, <1>3, <2>1, <2>2 DEF CallRecords, CallHolds
  <2>5. \A i \in DOMAIN call.sent : call.sent[i] # asked.on
    BY <1>3, <2>2, <2>3 DEF CallHolds
  <2> DEFINE new == Append(call.sent, asked.on)
  <2>6. /\ new \in Seq({"write"} \cup StatusLabels \cup Surfaces)
        /\ new # <<>> /\ Len(new) = Len(call.sent) + 1
        /\ \A i, j \in DOMAIN new : new[i] = new[j] => i = j
        /\ \A i \in DOMAIN new : new[i] = asked.on \/ \E j \in DOMAIN call.sent :
                                                          new[i] = call.sent[j]
    BY <2>4, <2>5, SentOnce
  <2> HIDE DEF new
  <2>7. sent = [call EXCEPT !.sent = new]
    BY <1>4, <1>6 DEF new
  <2>8. sent \in CallRecords /\ sent.sent = new
    BY <1>1, <2>6, <2>7 DEF CallRecords
  <2>9. call.op # "notify" => Len(new) <= 1
    BY <2>3, <2>6
  <2>10. call.op = "notify" => \A i \in DOMAIN new : new[i] \notin call.left \ {FirstOf(call.left)}
    BY <1>3, <2>2, <2>6 DEF CallHolds
  <2> HIDE DEF sent
  <2> QED
    BY <1>6, <2>1, <2>2, <2>3, <2>6, <2>7, <2>8, <2>9, <2>10 DEF sent, asked
<1> QED
  BY <1>5, <1>6

SameCall(next, call) ==
  next.op = call.op /\ next.label = call.label /\ next.moved = call.moved

\* The next state of a call.
LEMMA GoesOnWell ==
  ASSUME NEW call, CallHolds(call), call.step # "end", prFiles \in SUBSET (1..LastFile),
         NEW reply
  PROVE  LET sent == WithSent(call, Request(call), reply)
             again == [sent EXCEPT !.tries = @ + 1]
         IN  /\ reply = "ok" =>
                  CallHolds(AfterReturn(sent)) /\ SameCall(AfterReturn(sent), call)
             /\ CallHolds(AfterRaise(sent)) /\ SameCall(AfterRaise(sent), call)
             /\ MayRepeat(call, Request(call), reply) =>
                  /\ CallHolds(again) /\ SameCall(again, call) /\ again.step # "end"
                  /\ again = [call EXCEPT !.tries = call.tries + 1]
<1> DEFINE asked == Request(call)
           sent == WithSent(call, asked, reply)
           again == [sent EXCEPT !.tries = @ + 1]
<1>1. call \in CallRecords
  BY DEF CallHolds
<1>2. /\ asked.method \in {"GET", "POST", "DELETE"}
      /\ asked.method # "POST" => sent = call
      /\ asked.method = "POST" => call.step \in {"write", "tell", "add"}
      /\ sent \in CallRecords
      /\ \A i, j \in DOMAIN sent.sent : sent.sent[i] = sent.sent[j] => i = j
      /\ sent = [call EXCEPT !.sent = sent.sent]
      /\ call.op # "notify" => Len(sent.sent) <= 1
      /\ call.op = "listing" => sent.sent = <<>>
      /\ call.op = "write" /\ reply = "ok" => sent.sent # <<>>
      /\ call.op = "notify" =>
           /\ FirstOf(call.left) \in call.left
           /\ \A i \in DOMAIN sent.sent :
                sent.sent[i] \notin call.left \ {FirstOf(call.left)}
  BY UpstreamAssumption, SendsOnce
<1> HIDE DEF sent, asked
<1>3. /\ sent.op = call.op /\ sent.step = call.step /\ sent.tries = call.tries
      /\ sent.label = call.label /\ sent.left = call.left /\ sent.page = call.page
      /\ sent.got = call.got /\ sent.moved = call.moved /\ sent.how = call.how
  BY <1>1, <1>2 DEF CallRecords
<1>4. call.step \in {"write", "tell", "add", "read", "drop", "page"} /\ call.how = "open"
  BY <1>1 DEF CallRecords, CallHolds
<1>5. CallHolds(Ended(sent, "raised")) /\ SameCall(Ended(sent, "raised"), call)
  BY <1>2, <1>3, EndsWell DEF SameCall
<1>6. call.op # "write" \/ reply = "ok" =>
        CallHolds(Ended(sent, "returned")) /\ SameCall(Ended(sent, "returned"), call)
  BY <1>2, <1>3, EndsWell DEF SameCall
<1>7. call.step = "tell" => CallHolds(TellNext(sent)) /\ SameCall(TellNext(sent), call)
  <2> SUFFICES ASSUME call.step = "tell"
               PROVE  CallHolds(TellNext(sent)) /\ SameCall(TellNext(sent), call)
    OBVIOUS
  <2>1. call.op = "notify"
    BY <1>1 DEF CallHolds, CallRecords
  <2>2. CASE sent.left = {FirstOf(sent.left)}
    BY <1>6, <2>1, <2>2 DEF TellNext
  <2>3. CASE sent.left # {FirstOf(sent.left)}
    <3> DEFINE rest == call.left \ {FirstOf(call.left)}
               next == [sent EXCEPT !.left = rest, !.tries = 0]
    <3>1. rest # {} /\ rest \subseteq Surfaces
      BY <1>2, <1>3, <2>1, <2>3 DEF CallHolds
    <3>2. TellNext(sent) = next
      BY <1>3, <2>3 DEF TellNext
    <3>3. \A i \in DOMAIN sent.sent : sent.sent[i] \notin rest
      BY <1>2, <2>1
    <3> HIDE DEF rest
    <3>4. /\ next \in CallRecords /\ next.op = "notify" /\ next.step = "tell"
          /\ next.how = "open" /\ next.sent = sent.sent /\ next.left = rest
          /\ next.label = call.label /\ next.moved = call.moved
      BY <1>2, <1>3, <1>4, <2>1, <3>1 DEF CallRecords
    <3> HIDE DEF next
    <3>5. CallHolds(next)
      BY <1>2, <3>1, <3>3, <3>4 DEF CallHolds
    <3> QED
      BY <2>1, <3>2, <3>4, <3>5 DEF SameCall
  <2> QED
    BY <2>2, <2>3
<1>8. CallHolds(AfterRaise(sent)) /\ SameCall(AfterRaise(sent), call)
  BY <1>3, <1>5, <1>7 DEF AfterRaise
<1>9. ASSUME MayRepeat(call, asked, reply)
      PROVE  /\ CallHolds(again) /\ SameCall(again, call) /\ again.step # "end"
             /\ again = [call EXCEPT !.tries = call.tries + 1]
  <2>1. sent = call
    BY <1>2, <1>9 DEF MayRepeat, Idempotent
  <2> DEFINE n == call.tries + 1
             next == [call EXCEPT !.tries = n]
  <2>2. n \in Nat
    BY <1>1 DEF CallRecords
  <2>3. again = next
    BY <2>1
  <2> HIDE DEF n
  <2>4. /\ next \in CallRecords /\ next.op = call.op /\ next.step = call.step
        /\ next.how = call.how /\ next.sent = call.sent /\ next.left = call.left
        /\ next.label = call.label /\ next.moved = call.moved
    BY <1>1, <2>2 DEF CallRecords
  <2> HIDE DEF next
  <2>5. CallHolds(next)
    BY <2>4 DEF CallHolds
  <2> QED
    BY <2>3, <2>4, <2>5 DEF SameCall, next, n
<1>10. ASSUME reply = "ok"
       PROVE  CallHolds(AfterReturn(sent)) /\ SameCall(AfterReturn(sent), call)
  <2>1. CASE call.step = "write"
    BY <1>3, <1>6, <1>10, <2>1 DEF AfterReturn
  <2>2. CASE call.step = "tell"
    BY <1>3, <1>7, <2>2 DEF AfterReturn
  <2>3. CASE call.step = "add"
    <3> DEFINE next == [sent EXCEPT !.step = "read", !.tries = 0]
    <3>1. AfterReturn(sent) = next /\ call.op = "state"
      BY <1>1, <1>3, <2>3 DEF AfterReturn, CallHolds, CallRecords
    <3>2. /\ next \in CallRecords /\ next.op = "state" /\ next.step = "read"
          /\ next.how = "open" /\ next.sent = sent.sent /\ next.left = call.left
          /\ next.label = call.label /\ next.moved = call.moved
      BY <1>2, <1>3, <1>4, <3>1 DEF CallRecords
    <3> HIDE DEF next
    <3>3. CallHolds(next)
      BY <1>2, <3>1, <3>2 DEF CallHolds
    <3> QED
      BY <3>1, <3>2, <3>3 DEF SameCall
  <2>4. ASSUME call.step \in {"read", "drop"}, NEW left \in SUBSET StatusLabels
        PROVE  CallHolds(DropNext(sent, left)) /\ SameCall(DropNext(sent, left), call)
    <3>1. call.op = "state"
      BY <1>1, <2>4 DEF CallHolds, CallRecords
    <3>2. CASE left = {}
      BY <1>6, <3>1, <3>2 DEF DropNext
    <3>3. CASE left # {}
      <4> DEFINE next == [sent EXCEPT !.step = "drop", !.left = left, !.tries = 0]
      <4>1. DropNext(sent, left) = next
        BY <3>3 DEF DropNext
      <4>2. /\ next \in CallRecords /\ next.op = "state" /\ next.step = "drop"
            /\ next.how = "open" /\ next.sent = sent.sent /\ next.left = left
            /\ next.label = call.label /\ next.moved = call.moved
        BY <1>2, <1>3, <1>4, <2>4, <3>1 DEF CallRecords
      <4> HIDE DEF next
      <4>3. CallHolds(next)
        BY <1>2, <2>4, <3>1, <3>3, <4>2 DEF CallHolds
      <4> QED
        BY <3>1, <4>1, <4>2, <4>3 DEF SameCall
    <3> QED
      BY <3>2, <3>3
  <2>5. CASE call.step = "read"
    <3>1. AfterReturn(sent) = DropNext(sent, (labels \cap StatusLabels) \ {sent.label})
      BY <1>3, <2>5 DEF AfterReturn
    <3>2. (labels \cap StatusLabels) \ {sent.label} \in SUBSET StatusLabels
      OBVIOUS
    <3> QED
      BY <2>4, <2>5, <3>1, <3>2
  <2>6. CASE call.step = "drop"
    <3>1. AfterReturn(sent) = DropNext(sent, call.left \ {FirstOf(call.left)})
      BY <1>3, <2>6 DEF AfterReturn
    <3>2. call.left \ {FirstOf(call.left)} \in SUBSET StatusLabels
      BY <1>1, <2>6 DEF CallHolds, CallRecords
    <3> QED
      BY <2>4, <2>6, <3>1, <3>2
  <2>7. CASE call.step = "page"
    <3> DEFINE batch == FilePage(call.page)
               read == [sent EXCEPT !.got = call.got \cup batch, !.tries = 0]
               next == [read EXCEPT !.page = call.page + 1]
    <3>1. call.op = "listing"
      BY <1>1, <2>7 DEF CallHolds, CallRecords
    <3>2. /\ AfterReturn(sent) = IF LastPage(batch) THEN Ended(read, "returned") ELSE next
      BY <1>3, <2>7 DEF AfterReturn, PageNext
    <3>3. batch \subseteq 1..LastFile
      BY DEF FilePage
    <3> HIDE DEF batch
    <3>4. /\ read \in CallRecords /\ read.op = "listing" /\ read.step = "page"
          /\ read.how = "open" /\ read.sent = sent.sent /\ read.left = call.left
          /\ read.label = call.label /\ read.moved = call.moved /\ read.page = call.page
      BY <1>1, <1>2, <1>3, <1>4, <2>7, <3>1, <3>3 DEF CallRecords
    <3> HIDE DEF read
    <3>5. CallHolds(Ended(read, "returned")) /\ SameCall(Ended(read, "returned"), call)
      BY <1>2, <3>1, <3>4, EndsWell DEF SameCall
    <3>6. CallHolds(next) /\ SameCall(next, call)
      <4> DEFINE n == call.page + 1
      <4>1. n \in Nat \ {0}
        BY <1>1 DEF CallRecords
      <4> HIDE DEF n
      <4>2. /\ next \in CallRecords /\ next.op = "listing" /\ next.step = "page"
            /\ next.how = "open" /\ next.sent = sent.sent
            /\ next.label = call.label /\ next.moved = call.moved
        BY <3>4, <4>1 DEF CallRecords, n
      <4> HIDE DEF next
      <4> QED
        BY <1>2, <3>1, <4>2 DEF CallHolds, SameCall
    <3> QED
      BY <3>2, <3>5, <3>6
  <2> QED
    BY <1>4, <2>1, <2>2, <2>3, <2>5, <2>6, <2>7
<1> QED
  BY <1>8, <1>9, <1>10 DEF sent, asked

-----------------------------------------------------------------------------
(* UpstreamCalls: the labels, the listings and the threads                   *)

Setting(call) == call # NoCall /\ call.op = "state"

\* Where a thread that sets the state is with the status labels there are.
StateAt(call, marks) ==
  /\ call.step \in {"read", "drop"} => call.label \in marks
  /\ call.step = "drop" =>
       call.left # {} /\ call.label \notin call.left /\ marks \subseteq {call.label} \cup call.left
  /\ call.how = "returned" => marks = {call.label}

\* As long as no two threads have set the state at once.
LabelsInv(marks, ongoing, last, over) ==
  ~over =>
    /\ marks # {}
    /\ \A c, d \in Threads : Setting(ongoing[c]) /\ Setting(ongoing[d]) => c = d
    /\ \A c \in Threads : Setting(ongoing[c]) => StateAt(ongoing[c], marks)
    /\ Setting(last) => StateAt(last, marks) /\ \A c \in Threads : ~Setting(ongoing[c])

\* A listing has the files of the pages before the one it is at.
ListingAt(call, files) ==
  call # NoCall /\ call.op = "listing" /\ ~call.moved =>
    /\ call.how = "open" =>
         call.got = {f \in files : Rank(files, f) <= (call.page - 1) * FilesPerPage}
    /\ call.how = "returned" => call.got = files

UpstreamInv ==
  /\ labels \subseteq StatusLabels \cup TeamLabels
  /\ labels \cap TeamLabels = teamLabels
  /\ prFiles \in SUBSET (1..LastFile)
  /\ calls = [c \in Threads |-> calls[c]]
  /\ \A c \in Threads : calls[c] # NoCall => CallHolds(calls[c]) /\ calls[c].step # "end"
  /\ ended # NoCall => CallHolds(ended) /\ ended.step = "end"
  /\ LabelsInv(labels \cap StatusLabels, calls, ended, overlapped)
  /\ \A c \in Threads : ListingAt(calls[c], prFiles)
  /\ ListingAt(ended, prFiles)

LEMMA UpstreamInit == InitUpstream => UpstreamInv
<1> SUFFICES ASSUME InitUpstream PROVE UpstreamInv
  OBVIOUS
<1>1. FirstLabel \in StatusLabels
  BY UpstreamAssumption DEF FirstLabel
<1>2. /\ labels = {FirstLabel} \cup TeamLabels /\ teamLabels = TeamLabels
      /\ prFiles = 1..LastFile /\ calls = [c \in Threads |-> NoCall] /\ ended = NoCall
  BY DEF InitUpstream
<1>3. labels \cap TeamLabels = teamLabels /\ labels \subseteq StatusLabels \cup TeamLabels
  BY <1>1, <1>2, UpstreamAssumption
<1>4. LabelsInv(labels \cap StatusLabels, calls, ended, overlapped)
  BY <1>1, <1>2 DEF LabelsInv, Setting
<1> QED
  BY <1>2, <1>3, <1>4 DEF UpstreamInv, ListingAt

\* A call of one thread begins, goes on or ends, and nobody pushes.
LEMMA CallGoes ==
  ASSUME UpstreamInv, NEW c \in Threads, NEW next,
         UNCHANGED <<teamLabels, prFiles>>,
         labels' \subseteq StatusLabels \cup TeamLabels,
         labels' \cap TeamLabels = labels \cap TeamLabels,
         CallHolds(next), ListingAt(next, prFiles),
         calls' = [calls EXCEPT ![c] = IF next.step = "end" THEN NoCall ELSE next],
         ended' = (IF next.step = "end" THEN next ELSE ended) \/ ended' = NoCall,
         LabelsInv(labels \cap StatusLabels, calls, ended, overlapped)' 
  PROVE  UpstreamInv'
<1>1. /\ labels \cap TeamLabels = teamLabels /\ prFiles \in SUBSET (1..LastFile)
      /\ calls = [d \in Threads |-> calls[d]]
      /\ \A d \in Threads : calls[d] # NoCall => CallHolds(calls[d]) /\ calls[d].step # "end"
      /\ ended # NoCall => CallHolds(ended) /\ ended.step = "end"
      /\ \A d \in Threads : ListingAt(calls[d], prFiles)
      /\ ListingAt(ended, prFiles)
  BY DEF UpstreamInv
<1>2. ListingAt(NoCall, prFiles)
  BY DEF ListingAt
<1> DEFINE then == IF next.step = "end" THEN NoCall ELSE next
<1>3. /\ then # NoCall => CallHolds(then) /\ then.step # "end"
      /\ ListingAt(then, prFiles)
  BY <1>2
<1>4. calls' = [calls EXCEPT ![c] = then]
  OBVIOUS
<1> HIDE DEF then
<1>5. /\ calls' = [d \in Threads |-> calls'[d]] /\ calls'[c] = then
      /\ \A d \in Threads : d # c => calls'[d] = calls[d]
  BY <1>1, <1>4
<1>6. /\ \A d \in Threads : calls'[d] # NoCall => CallHolds(calls'[d]) /\ calls'[d].step # "end"
      /\ \A d \in Threads : ListingAt(calls'[d], prFiles')
  BY <1>1, <1>3, <1>5
<1>7. /\ ended' # NoCall => CallHolds(ended') /\ ended'.step = "end"
      /\ ListingAt(ended', prFiles')
  BY <1>1, <1>2
<1> QED
  BY <1>1, <1>5, <1>6, <1>7 DEF UpstreamInv

\* What a request does to the labels.
LEMMA LabelsAfter ==
  ASSUME NEW call, CallHolds(call), call.step # "end", NEW reply,
         reply \in AnswersTo(Request(call)), Serves(Request(call), reply)
  PROVE  /\ call.step \notin {"add", "drop"} => labels' = labels
         /\ call.step = "add" =>
              labels' = IF Handled(reply) THEN labels \cup {call.label} ELSE labels
         /\ call.step = "drop" =>
              /\ labels' = IF Handled(reply) THEN labels \ {FirstOf(call.left)} ELSE labels
              /\ FirstOf(call.left) \in call.left
<1>1. call \in CallRecords
  BY DEF CallHolds
<1>2. call.step \in {"write", "tell", "add", "read", "drop", "page"}
  BY <1>1 DEF CallRecords
<1> DEFINE asked == Request(call)
<1>3. /\ call.step = "write" => asked = [method |-> "POST", on |-> "write"]
      /\ call.step = "tell" => asked = [method |-> "POST", on |-> FirstOf(call.left)]
      /\ call.step = "add" => asked = [method |-> "POST", on |-> call.label]
      /\ call.step = "read" => asked = [method |-> "GET", on |-> "labels"]
      /\ call.step = "drop" => asked = [method |-> "DELETE", on |-> FirstOf(call.left)]
      /\ call.step = "page" => asked = [method |-> "GET", on |-> "files"]
  BY DEF Request
<1> DEFINE asks(method) ==
             {l \in StatusLabels : Handled(reply) /\ asked = [method |-> method, on |-> l]}
<1>4. labels' = (labels \cup asks("POST")) \ asks("DELETE")
  BY DEF Serves
<1> HIDE DEF asked
<1>5. ~Handled(reply) => labels' = labels
  BY <1>4
<1>6. CASE call.step = "add"
  <2>1. call.label \in StatusLabels
    BY <1>1 DEF CallRecords
  <2>2. asks("DELETE") = {}
    BY <1>3, <1>6
  <2>3. Handled(reply) => asks("POST") = {call.label}
    BY <1>3, <1>6, <2>1
  <2> QED
    BY <1>4, <1>5, <1>6, <2>2, <2>3
<1>7. CASE call.step = "drop"
  <2>1. call.left # {} /\ call.left \subseteq StatusLabels
    BY <1>1, <1>7 DEF CallHolds, CallRecords
  <2>2. FirstOf(call.left) \in call.left /\ FirstOf(call.left) \in StatusLabels
    BY <2>1 DEF FirstOf
  <2>3. asks("POST") = {}
    BY <1>3, <1>7
  <2>4. Handled(reply) => asks("DELETE") = {FirstOf(call.left)}
    BY <1>3, <1>7, <2>2
  <2> QED
    BY <1>4, <1>5, <1>7, <2>2, <2>3, <2>4
<1>8. CASE call.step \notin {"add", "drop"}
  <2>1. asks("DELETE") = {}
    BY <1>2, <1>3, <1>8
  <2>2. asks("POST") = {}
    <3>1. CASE call.step = "tell"
      <4>1. call.left # {} /\ call.left \subseteq Surfaces
        BY <1>1, <3>1 DEF CallHolds, CallRecords
      <4>2. FirstOf(call.left) \in Surfaces
        BY <4>1 DEF FirstOf
      <4> QED
        BY <1>3, <3>1, <4>2, UpstreamAssumption
    <3>2. CASE call.step # "tell"
      BY <1>2, <1>3, <1>8, <3>2, UpstreamAssumption
    <3> QED
      BY <3>1, <3>2
  <2> QED
    BY <1>4, <1>8, <2>1, <2>2
<1> QED
  BY <1>6, <1>7, <1>8

\* How the labels follow the call that is under way.
LEMMA LabelsKept ==
  ASSUME UpstreamInv, NEW c \in Threads, calls[c] # NoCall, NEW next,
         CallHolds(next), SameCall(next, calls[c]),
         calls[c].op # "state" => labels' = labels,
         calls[c].op = "state" /\ ~overlapped =>
           /\ labels' \cap StatusLabels # {}
           /\ StateAt(next, labels' \cap StatusLabels),
         calls' = [calls EXCEPT ![c] = IF next.step = "end" THEN NoCall ELSE next],
         ended' = IF next.step = "end" THEN next ELSE ended,
         UNCHANGED overlapped
  PROVE  LabelsInv(labels \cap StatusLabels, calls, ended, overlapped)'
<1>0. SUFFICES ASSUME ~overlapped
               PROVE  LabelsInv(labels' \cap StatusLabels, calls', ended', FALSE)
  BY DEF LabelsInv
<1> DEFINE marks == labels \cap StatusLabels
<1>1. /\ marks # {}
      /\ \A d, e \in Threads : Setting(calls[d]) /\ Setting(calls[e]) => d = e
      /\ \A d \in Threads : Setting(calls[d]) => StateAt(calls[d], marks)
      /\ Setting(ended) => StateAt(ended, marks) /\ \A d \in Threads : ~Setting(calls[d])
      /\ calls = [d \in Threads |-> calls[d]]
  BY <1>0 DEF UpstreamInv, LabelsInv
<1>2. /\ \A d \in Threads : d # c => calls'[d] = calls[d]
      /\ next.step = "end" => calls'[c] = NoCall /\ ended' = next
      /\ next.step # "end" => calls'[c] = next /\ ended' = ended
  BY <1>1
<1>3. next.op = calls[c].op
  BY DEF SameCall
<1>4. CASE calls[c].op = "state"
  <2>1. /\ labels' \cap StatusLabels # {}
        /\ StateAt(next, labels' \cap StatusLabels)
    BY <1>0, <1>4
  <2>2. \A d \in Threads : d # c => ~Setting(calls'[d])
    BY <1>1, <1>2, <1>4 DEF Setting
  <2>3. CASE next.step = "end"
    BY <1>2, <2>1, <2>2, <2>3 DEF LabelsInv, Setting
  <2>4. CASE next.step # "end"
    <3>1. calls'[c] = next
      BY <1>2, <2>4
    <3>2. \A d \in Threads : Setting(calls'[d]) => d = c
      BY <2>2
    <3>3. ~Setting(ended')
      BY <1>1, <1>2, <1>4, <2>4 DEF Setting
    <3> QED
      BY <2>1, <3>1, <3>2, <3>3 DEF LabelsInv
  <2> QED
    BY <2>3, <2>4
<1>5. CASE calls[c].op # "state"
  <2>1. labels' \cap StatusLabels = marks
    BY <1>5
  <2>2. ~Setting(next) /\ ~Setting(calls[c]) /\ ~Setting(NoCall)
    BY <1>3, <1>5 DEF Setting
  <2>3. \A d \in Threads : Setting(calls'[d]) <=> Setting(calls[d])
    BY <1>2, <2>2
  <2>4. \A d \in Threads : Setting(calls'[d]) => calls'[d] = calls[d]
    BY <1>2, <2>2, <2>3
  <2>5. Setting(ended') => ended' = ended
    BY <1>2, <2>2
  <2> HIDE DEF marks
  <2> QED
    BY <1>1, <2>1, <2>3, <2>4, <2>5 DEF LabelsInv
<1> QED
  BY <1>4, <1>5

\* The files a listing has got, when a page is answered.
LEMMA ListingKept ==
  ASSUME UpstreamInv, NEW c \in Threads, calls[c] # NoCall, NEW reply
  PROVE  LET call == calls[c]
             sent == WithSent(call, Request(call), reply)
         IN  /\ reply = "ok" => ListingAt(AfterReturn(sent), prFiles)
             /\ ListingAt(AfterRaise(sent), prFiles)
             /\ ListingAt([call EXCEPT !.tries = call.tries + 1], prFiles)
<1> DEFINE call == calls[c]
           sent == WithSent(call, Request(call), reply)
<1>1. /\ CallHolds(call) /\ call.step # "end" /\ call \in CallRecords
      /\ ListingAt(call, prFiles) /\ prFiles \in SUBSET (1..LastFile)
  BY DEF UpstreamInv, CallHolds
<1>2. /\ reply = "ok" => CallHolds(AfterReturn(sent)) /\ SameCall(AfterReturn(sent), call)
      /\ CallHolds(AfterRaise(sent)) /\ SameCall(AfterRaise(sent), call)
  BY <1>1, GoesOnWell
<1> HIDE DEF call
<1>3. ListingAt([call EXCEPT !.tries = call.tries + 1], prFiles)
  <2> DEFINE again == [call EXCEPT !.tries = call.tries + 1]
  <2>1. /\ again.op = call.op /\ again.moved = call.moved /\ again.how = call.how
        /\ again.got = call.got /\ again.page = call.page
    BY <1>1 DEF CallRecords
  <2>2. call # NoCall
    BY DEF call
  <2> HIDE DEF again
  <2>3. ListingAt(again, prFiles)
    BY <1>1, <2>1, <2>2 DEF ListingAt
  <2> QED
    BY <2>3 DEF again
<1>4. CASE call.op # "listing"
  <2>1. reply = "ok" => AfterReturn(sent).op # "listing"
    BY <1>2, <1>4 DEF SameCall
  <2>2. AfterRaise(sent).op # "listing"
    BY <1>2, <1>4 DEF SameCall
  <2> HIDE DEF sent
  <2> QED
    BY <1>3, <2>1, <2>2 DEF ListingAt, sent, call
<1>5. CASE call.op = "listing"
  <2>1. call.step = "page" /\ call.how = "open"
    BY <1>1, <1>5 DEF CallHolds
  <2>2. sent = call
    <3>1. Request(call).method = "GET"
      BY <2>1 DEF Request
    <3>2. sent = [call EXCEPT !.sent = call.sent]
      BY <3>1 DEF WithSent
    <3> QED
      BY <1>1, <3>2 DEF CallRecords
  <2>3. ListingAt(AfterRaise(sent), prFiles)
    <3>1. AfterRaise(sent) = Ended(call, "raised")
      BY <2>1, <2>2 DEF AfterRaise
    <3>2. AfterRaise(sent).how = "raised"
      BY <1>1, <3>1 DEF Ended, CallRecords
    <3> QED
      BY <3>2 DEF ListingAt
  <2>4. ASSUME reply = "ok" PROVE ListingAt(AfterReturn(sent), prFiles)
    <3> DEFINE batch == FilePage(call.page)
               n == call.page + 1
               read == [call EXCEPT !.got = call.got \cup batch, !.tries = 0]
               next == [read EXCEPT !.page = n]
    <3>1. AfterReturn(sent) = IF LastPage(batch) THEN Ended(read, "returned") ELSE next
      BY <2>1, <2>2 DEF AfterReturn, PageNext
    <3>2. n \in Nat \ {0} /\ call.page \in Nat \ {0} /\ n - 1 = call.page
      BY <1>1 DEF CallRecords
    <3>3. batch = {f \in prFiles : /\ (call.page - 1) * FilesPerPage < Rank(prFiles, f)
                                   /\ Rank(prFiles, f) <= call.page * FilesPerPage}
      BY <1>1, <3>2, FilePageRanks
    <3>4. LastPage(batch) => \A f \in prFiles : Rank(prFiles, f) <= call.page * FilesPerPage
      BY <1>1, <3>2, FilePageRanks
    <3> HIDE DEF batch, n
    <3>5. /\ read \in [op : {"listing"}, step : {"page"}, tries : Nat, label : StatusLabels,
                       left : SUBSET (StatusLabels \cup Surfaces), page : Nat \ {0},
                       got : {call.got \cup batch},
                       sent : Seq({"write"} \cup StatusLabels \cup Surfaces),
                       moved : {call.moved}, how : {"open"}]
      BY <1>1, <1>5, <2>1 DEF CallRecords
    <3> HIDE DEF read
    <3>6. ~call.moved => call.got \cup batch =
                           {f \in prFiles : Rank(prFiles, f) <= call.page * FilesPerPage}
      <4> SUFFICES ASSUME ~call.moved
                   PROVE  call.got \cup batch =
                            {f \in prFiles : Rank(prFiles, f) <= call.page * FilesPerPage}
        OBVIOUS
      <4>1. call # NoCall
        BY DEF call
      <4>2. call.got = {f \in prFiles : Rank(prFiles, f) <= (call.page - 1) * FilesPerPage}
        BY <1>1, <1>5, <2>1, <4>1 DEF ListingAt
      <4>3. \A f \in prFiles : Rank(prFiles, f) \in Int
        BY <1>1, FileRanks
      <4>4. /\ (call.page - 1) * FilesPerPage \in Int /\ call.page * FilesPerPage \in Int
            /\ (call.page - 1) * FilesPerPage <= call.page * FilesPerPage
        <5>1. call.page * FilesPerPage = (call.page - 1) * FilesPerPage + FilesPerPage
          BY <3>2, UpstreamAssumption
        <5>2. FilesPerPage \in Nat /\ (call.page - 1) * FilesPerPage \in Int
          BY <3>2, UpstreamAssumption
        <5> QED
          BY <5>1, <5>2
      <4>5. \A f \in prFiles :
              Rank(prFiles, f) <= call.page * FilesPerPage <=>
                \/ Rank(prFiles, f) <= (call.page - 1) * FilesPerPage
                \/ /\ (call.page - 1) * FilesPerPage < Rank(prFiles, f)
                   /\ Rank(prFiles, f) <= call.page * FilesPerPage
        BY <4>3, <4>4
      <4> QED
        BY <3>3, <4>2, <4>5
    <3>7. CASE LastPage(batch)
      <4> DEFINE e == Ended(read, "returned")
      <4>1. /\ e.op = "listing" /\ e.how = "returned" /\ e.moved = call.moved
            /\ e.got = call.got \cup batch
        BY <3>5 DEF Ended
      <4> HIDE DEF e
      <4>2. ~call.moved => call.got \cup batch = prFiles
        BY <3>4, <3>6, <3>7
      <4>3. ListingAt(e, prFiles)
        BY <4>1, <4>2 DEF ListingAt
      <4> QED
        BY <3>1, <3>7, <4>3 DEF e
    <3>8. CASE ~LastPage(batch)
      <4>1. /\ next.op = "listing" /\ next.how = "open" /\ next.moved = call.moved
            /\ next.got = call.got \cup batch /\ next.page = n
        BY <3>5
      <4> HIDE DEF next
      <4>2. ListingAt(next, prFiles)
        BY <3>2, <3>6, <4>1 DEF ListingAt
      <4> QED
        BY <3>1, <3>8, <4>2
    <3> QED
      BY <3>7, <3>8
  <2> QED
    BY <1>3, <2>3, <2>4 DEF call
<1> QED
  BY <1>4, <1>5

\* The labels, when a request of set_state is handled or not.
LEMMA StateKept ==
  ASSUME UpstreamInv, NEW c \in Threads, calls[c] # NoCall, NEW reply,
         calls[c].op = "state", ~overlapped,
         reply \in AnswersTo(Request(calls[c])), Serves(Request(calls[c]), reply)
  PROVE  LET call == calls[c]
             sent == WithSent(call, Request(call), reply)
             marks == labels' \cap StatusLabels
         IN  /\ marks # {}
             /\ reply = "ok" => StateAt(AfterReturn(sent), marks)
             /\ StateAt(AfterRaise(sent), marks)
             /\ StateAt([call EXCEPT !.tries = call.tries + 1], marks)
<1> DEFINE call == calls[c]
           sent == WithSent(call, Request(call), reply)
           was == labels \cap StatusLabels
           marks == labels' \cap StatusLabels
<1>1. /\ CallHolds(call) /\ call.step # "end" /\ call \in CallRecords
      /\ StateAt(call, was) /\ was # {}
  BY DEF UpstreamInv, CallHolds, LabelsInv, Setting
<1>2. /\ call.step \in {"add", "read", "drop"} /\ call.how = "open"
      /\ call.left \subseteq StatusLabels /\ call.label \in StatusLabels
  BY <1>1 DEF CallHolds, CallRecords
<1>3. /\ call.step = "read" => labels' = labels
      /\ call.step = "add" =>
           labels' = IF Handled(reply) THEN labels \cup {call.label} ELSE labels
      /\ call.step = "drop" =>
           /\ labels' = IF Handled(reply) THEN labels \ {FirstOf(call.left)} ELSE labels
           /\ FirstOf(call.left) \in call.left
  BY <1>1, LabelsAfter
<1>4. /\ sent = [call EXCEPT !.sent = sent.sent] /\ sent \in CallRecords
      /\ call.step # "add" => sent = call
  <2>1. call.step # "add" => Request(call).method # "POST"
    BY <1>2 DEF Request
  <2> QED
    BY <1>1, <2>1, SendsOnce, UpstreamAssumption
<1>5. /\ call.step \in {"read", "drop"} => call.label \in was
      /\ call.step = "drop" => /\ call.label \notin call.left
                                /\ was \subseteq {call.label} \cup call.left
  BY <1>1 DEF StateAt
<1> HIDE DEF call
<1>6. marks # {}
  <2>1. CASE call.step = "drop"
    BY <1>3, <1>5, <2>1
  <2>2. CASE call.step # "drop"
    BY <1>1, <1>2, <1>3, <2>2
  <2> QED
    BY <2>1, <2>2
<1>7. /\ call.step \in {"read", "drop"} => call.label \in marks
      /\ call.step = "drop" => marks \subseteq {call.label} \cup call.left
      /\ call.step = "drop" /\ Handled(reply) => FirstOf(call.left) \notin marks
  BY <1>2, <1>3, <1>5
<1>8. /\ call.step = "read" => marks = was
      /\ call.step = "add" /\ Handled(reply) => call.label \in marks
  BY <1>2, <1>3
<1>9. Handled("ok")
  BY DEF Handled
<1> DEFINE again == [call EXCEPT !.tries = call.tries + 1]
<1>10. StateAt(again, marks)
  <2>1. /\ again.step = call.step /\ again.how = "open" /\ again.label = call.label
        /\ again.left = call.left
    BY <1>1, <1>2 DEF CallRecords
  <2>2. call.step = "drop" => call.left # {}
    BY <1>3
  <2> HIDE DEF again, marks
  <2> QED
    BY <1>5, <1>7, <2>1, <2>2 DEF StateAt
<1>11. StateAt(AfterRaise(sent), marks)
  <2>1. sent.step = call.step
    BY <1>1, <1>4 DEF CallRecords
  <2>2. AfterRaise(sent) = Ended(sent, "raised")
    BY <1>2, <2>1 DEF AfterRaise
  <2>3. Ended(sent, "raised").step = "end" /\ Ended(sent, "raised").how = "raised"
    BY <1>4 DEF Ended, CallRecords
  <2> QED
    BY <2>2, <2>3 DEF StateAt
<1>12. ASSUME reply = "ok" PROVE StateAt(AfterReturn(sent), marks)
  <2>1. CASE call.step = "add"
    <3> DEFINE next == [sent EXCEPT !.step = "read", !.tries = 0]
    <3>1. sent.step = "add" /\ sent.label = call.label /\ sent.how = "open"
      BY <1>1, <1>2, <1>4, <2>1 DEF CallRecords
    <3>2. AfterReturn(sent) = next
      BY <3>1 DEF AfterReturn
    <3>3. next.step = "read" /\ next.label = call.label /\ next.how = "open"
      BY <1>4, <3>1 DEF CallRecords
    <3> HIDE DEF next, marks
    <3> QED
      BY <1>8, <1>9, <1>12, <2>1, <3>2, <3>3 DEF StateAt
  <2>2. ASSUME NEW rest, call.step \in {"read", "drop"}, call.label \notin rest,
               marks \subseteq {call.label} \cup rest
        PROVE  StateAt(DropNext(call, rest), marks)
    <3>1. CASE rest = {}
      <4>1. DropNext(call, rest) = Ended(call, "returned")
        BY <3>1 DEF DropNext
      <4> DEFINE e == Ended(call, "returned")
      <4>2. e.step = "end" /\ e.how = "returned" /\ e.label = call.label
        BY <1>1 DEF Ended, CallRecords
      <4>3. marks = {call.label}
        BY <1>7, <2>2, <3>1
      <4> HIDE DEF e, marks
      <4> QED
        BY <4>1, <4>2, <4>3 DEF StateAt, e
    <3>2. CASE rest # {}
      <4> DEFINE next == [call EXCEPT !.step = "drop", !.left = rest, !.tries = 0]
      <4>1. DropNext(call, rest) = next
        BY <3>2 DEF DropNext
      <4>2. /\ next.step = "drop" /\ next.how = "open" /\ next.label = call.label
            /\ next.left = rest
        BY <1>1, <1>2 DEF CallRecords
      <4> HIDE DEF next, marks
      <4> QED
        BY <1>7, <2>2, <3>2, <4>1, <4>2 DEF StateAt
    <3> QED
      BY <3>1, <3>2
  <2>3. CASE call.step = "read"
    <3>1. AfterReturn(sent) = DropNext(call, was \ {call.label})
      BY <1>4, <2>3 DEF AfterReturn
    <3> QED
      BY <1>8, <2>2, <2>3, <3>1
  <2>4. CASE call.step = "drop"
    <3>1. AfterReturn(sent) = DropNext(call, call.left \ {FirstOf(call.left)})
      BY <1>4, <2>4 DEF AfterReturn
    <3>2. marks \subseteq {call.label} \cup (call.left \ {FirstOf(call.left)})
      BY <1>7, <1>9, <1>12, <2>4
    <3>3. call.label \notin call.left
      BY <1>5, <2>4
    <3> QED
      BY <2>2, <2>4, <3>1, <3>2, <3>3
  <2> QED
    BY <1>2, <2>1, <2>3, <2>4
<1> QED
  BY <1>6, <1>10, <1>11, <1>12 DEF call

\* A request is answered, and the call goes on, ends or tries again.
LEMMA CallAnswered ==
  ASSUME UpstreamInv, NEW c \in Threads, Succeeds(c) \/ Repeats(c) \/ Fails(c)
  PROVE  UpstreamInv'
<1> DEFINE call == calls[c]
           asked == Request(call)
<1>1. PICK reply, next :
        /\ reply \in AnswersTo(asked) /\ call # NoCall /\ Serves(asked, reply) /\ Goes(c, next)
        /\ \/ reply = "ok" /\ next = AfterReturn(WithSent(call, asked, reply))
           \/ /\ MayRepeat(call, asked, reply)
              /\ next = [WithSent(call, asked, reply) EXCEPT !.tries = @ + 1]
           \/ next = AfterRaise(WithSent(call, asked, reply))
  <2>1. CASE Succeeds(c)
    BY <2>1 DEF Succeeds
  <2>2. CASE Repeats(c)
    BY <2>2 DEF Repeats
  <2>3. CASE Fails(c)
    BY <2>3 DEF Fails
  <2> QED
    BY <2>1, <2>2, <2>3
<1>2. CallHolds(call) /\ call.step # "end" /\ prFiles \in SUBSET (1..LastFile)
  BY <1>1 DEF UpstreamInv
<1>3. /\ CallHolds(next) /\ SameCall(next, call)
      /\ \/ reply = "ok" /\ next = AfterReturn(WithSent(call, asked, reply))
         \/ next = [call EXCEPT !.tries = call.tries + 1]
         \/ next = AfterRaise(WithSent(call, asked, reply))
  <2> DEFINE sent == WithSent(call, asked, reply)
             again == [sent EXCEPT !.tries = @ + 1]
  <2>1. /\ reply = "ok" =>
             CallHolds(AfterReturn(sent)) /\ SameCall(AfterReturn(sent), call)
        /\ CallHolds(AfterRaise(sent)) /\ SameCall(AfterRaise(sent), call)
        /\ MayRepeat(call, asked, reply) =>
             /\ CallHolds(again) /\ SameCall(again, call)
             /\ again = [call EXCEPT !.tries = call.tries + 1]
    BY <1>2, GoesOnWell
  <2>2. \/ reply = "ok" /\ next = AfterReturn(sent)
        \/ MayRepeat(call, asked, reply) /\ next = again
        \/ next = AfterRaise(sent)
    BY <1>1
  <2> HIDE DEF sent, again, call, asked
  <2> QED
    BY <2>1, <2>2 DEF sent
<1>4. ListingAt(next, prFiles)
  BY <1>1, <1>3, ListingKept
<1>5. call.op = "state" /\ ~overlapped =>
        labels' \cap StatusLabels # {} /\ StateAt(next, labels' \cap StatusLabels)
  BY <1>1, <1>3, StateKept
<1>6. /\ call.step \notin {"add", "drop"} => labels' = labels
      /\ call.step = "add" =>
           labels' = IF Handled(reply) THEN labels \cup {call.label} ELSE labels
      /\ call.step = "drop" =>
           /\ labels' = IF Handled(reply) THEN labels \ {FirstOf(call.left)} ELSE labels
           /\ FirstOf(call.left) \in call.left
  BY <1>1, <1>2, LabelsAfter
<1>7. /\ call.label \in StatusLabels
      /\ call.step = "drop" => call.left \subseteq StatusLabels
      /\ call.step \in {"add", "drop"} => call.op = "state"
  BY <1>2 DEF CallHolds, CallRecords
<1>8. /\ calls' = [calls EXCEPT ![c] = IF next.step = "end" THEN NoCall ELSE next]
      /\ ended' = IF next.step = "end" THEN next ELSE ended
      /\ UNCHANGED <<teamLabels, prFiles, pushes, overlapped>>
  BY <1>1 DEF Goes
<1> HIDE DEF asked
<1>9. labels \subseteq StatusLabels \cup TeamLabels
  BY DEF UpstreamInv
<1>10. /\ labels' \subseteq StatusLabels \cup TeamLabels
       /\ labels' \cap TeamLabels = labels \cap TeamLabels
       /\ call.op # "state" => labels' = labels
  <2>1. CASE call.step = "add"
    BY <1>6, <1>7, <1>9, <2>1, UpstreamAssumption
  <2>2. CASE call.step = "drop"
    BY <1>6, <1>7, <1>9, <2>2, UpstreamAssumption
  <2>3. CASE call.step \notin {"add", "drop"}
    BY <1>6, <1>9, <2>3
  <2> QED
    BY <2>1, <2>2, <2>3
<1>11. LabelsInv(labels \cap StatusLabels, calls, ended, overlapped)'
  BY <1>1, <1>3, <1>5, <1>8, <1>10, LabelsKept
<1> QED
  BY <1>3, <1>4, <1>8, <1>10, <1>11, CallGoes

LEMMA CallBegins ==
  ASSUME UpstreamInv, NEW c \in Threads, NEW op, NEW step, NEW label \in StatusLabels,
         NEW left, BeginCall(c, Call(op, step, label, left)),
         \/ op = "write" /\ step = "write" /\ left = {}
         \/ op = "state" /\ step = "add" /\ left = {}
         \/ op = "listing" /\ step = "page" /\ left = {}
         \/ op = "notify" /\ step = "tell" /\ left = Surfaces
  PROVE  UpstreamInv'
<1> DEFINE next == Call(op, step, label, left)
<1>1. /\ next.op = op /\ next.step = step /\ next.label = label /\ next.left = left
      /\ next.page = 1 /\ next.got = {} /\ next.sent = <<>> /\ next.moved = FALSE
      /\ next.how = "open"
  BY DEF Call
<1>2. next \in CallRecords
  <2>1. <<>> \in Seq({"write"} \cup StatusLabels \cup Surfaces)
    BY EmptySeq
  <2>2. left \subseteq StatusLabels \cup Surfaces
    OBVIOUS
  <2>3. /\ op \in {"write", "state", "listing", "notify"}
        /\ step \in {"write", "tell", "add", "read", "drop", "page", "end"}
    OBVIOUS
  <2> QED
    BY <2>1, <2>2, <2>3 DEF Call, CallRecords
<1>3. /\ calls[c] = NoCall /\ calls' = [calls EXCEPT ![c] = next] /\ ended' = NoCall
      /\ UNCHANGED <<labels, teamLabels, prFiles>>
      /\ ~overlapped' =>
           /\ ~overlapped
           /\ op = "state" => \A d \in Threads : calls[d] = NoCall \/ calls[d].op # "state"
  BY <1>1 DEF BeginCall
<1> HIDE DEF next
<1>4. CallHolds(next) /\ step # "end"
  <2>1. next.sent = <<>> /\ Len(next.sent) <= 1 /\ DOMAIN next.sent = {}
    BY <1>1
  <2>2. Surfaces # {}
    BY UpstreamAssumption
  <2> QED
    BY <1>1, <1>2, <2>1, <2>2 DEF CallHolds
<1>5. ListingAt(next, prFiles)
  <2>1. \A f \in prFiles : Rank(prFiles, f) \in Nat \ {0}
    BY FileRanks DEF UpstreamInv
  <2>2. (1 - 1) * FilesPerPage = 0
    BY UpstreamAssumption
  <2>3. {f \in prFiles : Rank(prFiles, f) <= (1 - 1) * FilesPerPage} = {}
    BY <2>1, <2>2
  <2> QED
    BY <1>1, <2>3 DEF ListingAt
<1>6. LabelsInv(labels \cap StatusLabels, calls, ended, overlapped)'
  <2>0. SUFFICES ASSUME ~overlapped'
                 PROVE  LabelsInv(labels' \cap StatusLabels, calls', ended', FALSE)
    BY DEF LabelsInv
  <2> DEFINE marks == labels \cap StatusLabels
  <2>1. /\ marks # {}
        /\ \A d, e \in Threads : Setting(calls[d]) /\ Setting(calls[e]) => d = e
        /\ \A d \in Threads : Setting(calls[d]) => StateAt(calls[d], marks)
        /\ calls = [d \in Threads |-> calls[d]]
    BY <1>3, <2>0 DEF UpstreamInv, LabelsInv
  <2>2. calls'[c] = next /\ \A d \in Threads : d # c => calls'[d] = calls[d]
    BY <1>3, <2>1
  <2>3. Setting(next) => \A d \in Threads : ~Setting(calls[d])
    BY <1>1, <1>3, <2>0 DEF Setting
  <2>4. StateAt(next, marks) \/ ~Setting(next)
    BY <1>1 DEF StateAt, Setting
  <2>5. labels' \cap StatusLabels = marks /\ ~Setting(ended')
    BY <1>3 DEF Setting
  <2> HIDE DEF marks
  <2> QED
    BY <2>1, <2>2, <2>3, <2>4, <2>5 DEF LabelsInv
<1>7. labels \subseteq StatusLabels \cup TeamLabels
  BY DEF UpstreamInv
<1> QED
  BY <1>1, <1>3, <1>4, <1>5, <1>6, <1>7, CallGoes

LEMMA LabelsEdited ==
  ASSUME UpstreamInv, NEW ls \in SUBSET TeamLabels, EditLabels(ls)
  PROVE  UpstreamInv'
<1>1. /\ labels' = (labels \cap StatusLabels) \cup ls /\ teamLabels' = ls
      /\ UNCHANGED <<prFiles, calls, ended, overlapped>>
  BY DEF EditLabels
<1>2. /\ labels' \cap StatusLabels = labels \cap StatusLabels
      /\ labels' \cap TeamLabels = ls
      /\ labels' \subseteq StatusLabels \cup TeamLabels
  BY <1>1, UpstreamAssumption
<1> QED
  BY <1>1, <1>2 DEF UpstreamInv

\* A push marks every call: what a listing had got may be gone.
LEMMA FilesPushed ==
  ASSUME UpstreamInv, NEW fs \in SUBSET (1..LastFile), PushFiles(fs)
  PROVE  UpstreamInv'
<1> DEFINE marked(call) == IF call = NoCall THEN NoCall ELSE [call EXCEPT !.moved = TRUE]
<1>1. /\ prFiles' = fs /\ UNCHANGED <<labels, teamLabels, overlapped>>
      /\ calls' = [c \in Threads |-> marked(calls[c])] /\ ended' = marked(ended)
  BY DEF PushFiles
<1>2. ASSUME NEW call, CallHolds(call)
      PROVE  LET m == [call EXCEPT !.moved = TRUE]
             IN  /\ CallHolds(m) /\ m.moved /\ m.step = call.step /\ m.op = call.op
                 /\ m.label = call.label /\ m.left = call.left /\ m.how = call.how
  <2> DEFINE m == [call EXCEPT !.moved = TRUE]
  <2>1. call \in CallRecords
    BY <1>2 DEF CallHolds
  <2>2. /\ m \in CallRecords /\ m.moved /\ m.step = call.step /\ m.op = call.op
        /\ m.label = call.label /\ m.left = call.left /\ m.how = call.how
        /\ m.sent = call.sent
    BY <2>1 DEF CallRecords
  <2> HIDE DEF m
  <2>3. CallHolds(m)
    BY <1>2, <2>2 DEF CallHolds
  <2> QED
    BY <2>2, <2>3 DEF m
<1>3. ASSUME NEW call, call # NoCall => CallHolds(call)
      PROVE  /\ marked(call) # NoCall =>
                  /\ call # NoCall /\ CallHolds(marked(call))
                  /\ marked(call).step = call.step /\ marked(call).op = call.op
                  /\ marked(call).label = call.label /\ marked(call).left = call.left
                  /\ marked(call).how = call.how
             /\ ListingAt(marked(call), fs)
  <2>1. CASE call = NoCall
    BY <2>1 DEF ListingAt
  <2>2. CASE call # NoCall
    <3>1. marked(call) = [call EXCEPT !.moved = TRUE]
      BY <2>2
    <3>2. /\ CallHolds(marked(call)) /\ marked(call).moved
          /\ marked(call).step = call.step /\ marked(call).op = call.op
          /\ marked(call).label = call.label /\ marked(call).left = call.left
          /\ marked(call).how = call.how
      BY <1>2, <1>3, <2>2, <3>1
    <3> HIDE DEF marked
    <3> QED
      BY <2>2, <3>2 DEF ListingAt
  <2> QED
    BY <2>1, <2>2
<1>4. /\ \A c \in Threads : calls[c] # NoCall => CallHolds(calls[c]) /\ calls[c].step # "end"
      /\ ended # NoCall => CallHolds(ended) /\ ended.step = "end"
      /\ LabelsInv(labels \cap StatusLabels, calls, ended, overlapped)
      /\ labels \subseteq StatusLabels \cup TeamLabels
      /\ labels \cap TeamLabels = teamLabels
  BY DEF UpstreamInv
<1> HIDE DEF marked
<1>5. /\ \A c \in Threads : calls'[c] # NoCall => CallHolds(calls'[c]) /\ calls'[c].step # "end"
      /\ \A c \in Threads : ListingAt(calls'[c], prFiles')
  <2> SUFFICES ASSUME NEW c \in Threads
               PROVE  /\ calls'[c] # NoCall => CallHolds(calls'[c]) /\ calls'[c].step # "end"
                      /\ ListingAt(calls'[c], prFiles')
    OBVIOUS
  <2>1. calls'[c] = marked(calls[c])
    BY <1>1
  <2> QED
    BY <1>1, <1>3, <1>4, <2>1
<1>6. /\ ended' # NoCall => CallHolds(ended') /\ ended'.step = "end"
      /\ ListingAt(ended', prFiles')
  BY <1>1, <1>3, <1>4
<1>7. ASSUME NEW call, call # NoCall => CallHolds(call), Setting(marked(call)), NEW marks
      PROVE  Setting(call) /\ (StateAt(call, marks) => StateAt(marked(call), marks))
  BY <1>3, <1>7 DEF Setting, StateAt
<1>8. LabelsInv(labels \cap StatusLabels, calls, ended, overlapped)'
  <2>0. SUFFICES ASSUME ~overlapped'
                 PROVE  LabelsInv(labels' \cap StatusLabels, calls', ended', FALSE)
    BY DEF LabelsInv
  <2> DEFINE marks == labels \cap StatusLabels
  <2>1. /\ marks # {}
        /\ \A d, e \in Threads : Setting(calls[d]) /\ Setting(calls[e]) => d = e
        /\ \A d \in Threads : Setting(calls[d]) => StateAt(calls[d], marks)
        /\ Setting(ended) => StateAt(ended, marks) /\ \A d \in Threads : ~Setting(calls[d])
    BY <1>1, <1>4, <2>0 DEF LabelsInv
  <2>2. labels' \cap StatusLabels = marks
    BY <1>1
  <2> HIDE DEF marks
  <2>3. \A d \in Threads : Setting(calls'[d]) =>
          Setting(calls[d]) /\ StateAt(calls'[d], marks)
    <3> SUFFICES ASSUME NEW d \in Threads, Setting(calls'[d])
                 PROVE  Setting(calls[d]) /\ StateAt(calls'[d], marks)
      OBVIOUS
    <3>1. calls'[d] = marked(calls[d])
      BY <1>1
    <3> QED
      BY <1>4, <1>7, <2>1, <3>1
  <2>4. Setting(ended') => Setting(ended) /\ StateAt(ended', marks)
    BY <1>1, <1>4, <1>7, <2>1
  <2> QED
    BY <2>1, <2>2, <2>3, <2>4 DEF LabelsInv
<1>9. calls' = [c \in Threads |-> calls'[c]]
  BY <1>1
<1> QED
  BY <1>1, <1>4, <1>5, <1>6, <1>8, <1>9 DEF UpstreamInv

LEMMA UpstreamNext == UpstreamInv /\ [NextUpstream]_upstreamVars => UpstreamInv'
<1> SUFFICES ASSUME UpstreamInv, [NextUpstream]_upstreamVars PROVE UpstreamInv'
  OBVIOUS
<1>0. FirstLabel \in StatusLabels
  BY UpstreamAssumption DEF FirstLabel
<1>1. ASSUME NEW c \in Threads, BeginWrite(c) PROVE UpstreamInv'
  BY <1>0, <1>1, CallBegins DEF BeginWrite
<1>2. ASSUME NEW c \in Threads, NEW l \in StatusLabels, BeginState(c, l) PROVE UpstreamInv'
  BY <1>2, CallBegins DEF BeginState
<1>3. ASSUME NEW c \in Threads, BeginListing(c) PROVE UpstreamInv'
  BY <1>0, <1>3, CallBegins DEF BeginListing
<1>4. ASSUME NEW c \in Threads, BeginNotify(c) PROVE UpstreamInv'
  BY <1>0, <1>4, CallBegins DEF BeginNotify
<1>5. CASE UNCHANGED upstreamVars
  BY <1>5 DEF upstreamVars, UpstreamInv
<1> QED
  BY <1>1, <1>2, <1>3, <1>4, <1>5, CallAnswered, LabelsEdited, FilesPushed DEF NextUpstream

UpstreamSpec == InitUpstream /\ [][NextUpstream]_upstreamVars

\* Whatever answers are lost and however threads interleave: no write is
\* handled twice within a call, the issue keeps a status label and people's
\* own, and a listing that returned has every file.
THEOREM ConnectorsKeepTheirWord == UpstreamSpec => []UpstreamKeepsPromises
<1>1. UpstreamInv => UpstreamKeepsPromises
  <2> SUFFICES ASSUME UpstreamInv PROVE UpstreamKeepsPromises
    OBVIOUS
  <2>1. /\ \A c \in Threads : calls[c] # NoCall => CallHolds(calls[c])
        /\ ended # NoCall => CallHolds(ended)
    BY DEF UpstreamInv
  <2>2. WritesHappenOnce
    BY <2>1 DEF WritesHappenOnce, CallHolds
  <2>3. LabelsKeep
    BY DEF UpstreamInv, LabelsKeep, LabelsInv, Setting, StateAt
  <2>4. ListingsComplete
    BY DEF UpstreamInv, ListingAt, ListingsComplete
  <2> QED
    BY <2>2, <2>3, <2>4 DEF UpstreamKeepsPromises
<1> QED
  BY <1>1, UpstreamInit, UpstreamNext, PTL DEF UpstreamSpec

LEMMA UpstreamAlone == ServicesSpec => UpstreamSpec
<1>1. [NextServices]_servicesVars => [NextUpstream]_upstreamVars
  BY DEF NextServices, servicesVars, OthersStay, Still
<1> QED
  BY <1>1, PTL DEF ServicesSpec, InitServices, UpstreamSpec

\* The same, of the run that checks every component.
THEOREM UpstreamIsKept == ServicesSpec => []UpstreamHolds
<1>1. UpstreamKeepsPromises => UpstreamHolds
  BY DEF UpstreamHolds
<1> QED
  BY <1>1, UpstreamAlone, ConnectorsKeepTheirWord, PTL

-----------------------------------------------------------------------------
(* CatalogSync: what a sweep has total                                        *)

Live(gh) == {i \in DOMAIN Listing : gh[Listing[i]].exists}

Existing(gh) == {r \in OrgRepos : gh[r].exists}

\* The repositories on the first n pages.
ListedBefore(gh, n) ==
  {Listing[i] : i \in {j \in Live(gh) : Rank(Live(gh), j) <= n * PerPage}}

Repositories == [exists : BOOLEAN, archived : BOOLEAN, version : Nat, pushed : Nat]
CatalogRows ==
  [archived : BOOLEAN, pushed : Nat, synced : Nat \cup {Never},
   held : [Parts -> Nat \cup {Never}]]
ListedFields == [archived : BOOLEAN, pushed : Nat]

GithubInv(gh, now) ==
  /\ now \in Nat /\ gh \in [OrgRepos -> Repositories]
  /\ \A r \in OrgRepos : gh[r].pushed <= now

\* A row that was synced after the last push tells what the repository holds,
\* unless that was old when it was stored.
RowsInv(gh, cat, now, late) ==
  /\ OtherOrgs \subseteq DOMAIN cat
  /\ \A r \in DOMAIN cat : cat[r] \in CatalogRows
  /\ \A r \in OrgRepos \cap DOMAIN cat : cat[r].synced # Never =>
       /\ cat[r].synced <= now
       /\ gh[r].pushed <= cat[r].synced /\ r \notin late => Tells(cat[r], gh[r].version)

Fetched == [repo : OrgRepos \cup OtherOrgs, got : SUBSET Parts, version : Nat]

SweepShape(s) ==
  /\ "pc" \in DOMAIN s
  /\ s.pc \in {"idle", "list", "upsert", "prune", "select", "deep", "store", "done"}
  /\ s.pc \in {"list", "upsert", "prune", "select"} =>
       /\ {"calls", "bootstrap", "listed"} \subseteq DOMAIN s
       /\ DOMAIN s.listed \subseteq OrgRepos
       /\ \A r \in DOMAIN s.listed : s.listed[r] \in ListedFields
  /\ s.pc = "list" => "page" \in DOMAIN s /\ s.page \in Nat \ {0}
  /\ s.pc = "store" =>
       /\ s.fetched \in Fetched
       /\ "tree" \notin s.fetched.got => s.fetched.repo \in s.degraded
       /\ s.fetched.got # Parts => s.fetched.repo \in s.missed

\* What was fetched is what the repository holds, if no push came since its row
\* was synced.
FetchInv(s, gh, cat) ==
  s.pc = "store" => \A r \in OrgRepos \cap DOMAIN cat :
    /\ s.fetched.repo = r /\ cat[r].synced # Never /\ gh[r].pushed <= cat[r].synced
    => s.fetched.version = gh[r].version

Fields(s, gh) ==
  \A r \in DOMAIN s.listed :
    s.listed[r].archived = gh[r].archived /\ s.listed[r].pushed = gh[r].pushed

RowMatches(r, gh, cat) ==
  r \in DOMAIN cat /\ cat[r].archived = gh[r].archived /\ gh[r].pushed <= cat[r].pushed

InFlight(s) ==
  {r \in OrgRepos : s.pc = "store" /\ "tree" \in s.fetched.got /\ s.fetched.repo = r}

\* What the sweep has yet to fetch, or could not.
Pending(s) ==
  InFlight(s) \cup s.degraded \cup (IF s.pc = "done" THEN {} ELSE s.todo)

\* The row tells the repository, or the sweep leaves it as it is.
RowIsGood(s, r, gh, cat, late) ==
  \/ gh[r].archived
  \/ r \in late /\ ~s.bootstrap
  \/ /\ Tells(cat[r], gh[r].version)
     /\ s.bootstrap /\ r \notin s.missed => cat[r].held = AllAt(gh[r].version)

\* What a sweep knows while nothing changes under it.
Undisturbed(s, gh, cat, late) ==
  /\ s.pc = "list" => DOMAIN s.listed = ListedBefore(gh, s.page - 1) /\ Fields(s, gh)
  /\ s.pc \in {"upsert", "prune"} => DOMAIN s.listed = Existing(gh) /\ Fields(s, gh)
  /\ s.pc = "prune" => \A r \in Existing(gh) : RowMatches(r, gh, cat)
  /\ s.pc \in {"select", "deep", "store", "done"} =>
       /\ OrgRepos \cap DOMAIN cat = Existing(gh)
       /\ \A r \in Existing(gh) : RowMatches(r, gh, cat)
  /\ s.pc \in {"deep", "store", "done"} =>
       \A r \in Existing(gh) \ Pending(s) : RowIsGood(s, r, gh, cat, late)
  /\ \A r \in InFlight(s) : s.fetched.version = gh[r].version

CatalogInv ==
  /\ GithubInv(github, instant)
  /\ RowsInv(github, catalog, instant, overtaken)
  /\ SweepShape(sweep)
  /\ FetchInv(sweep, github, catalog)
  /\ since = {} => Undisturbed(sweep, github, catalog, overtaken)

LEMMA CatalogInit == InitCatalog => CatalogInv
<1> SUFFICES ASSUME InitCatalog PROVE CatalogInv
  OBVIOUS
<1> USE DEF InitCatalog
<1>1. GithubInv(github, instant)
  BY DEF GithubInv, Repositories
<1>2. RowsInv(github, catalog, instant, overtaken)
  BY CatalogAssumption DEF RowsInv, CatalogRows, AllAt
<1>3. /\ SweepShape(sweep) /\ FetchInv(sweep, github, catalog)
      /\ Undisturbed(sweep, github, catalog, overtaken)
  BY DEF SweepShape, FetchInv, Undisturbed, Quiet, InFlight
<1> QED
  BY <1>1, <1>2, <1>3 DEF CatalogInv

\* The organisation may change at any time: the sweep under way promises
\* nothing then.
LEMMA OrganisationChanges ==
  ASSUME CatalogInv, NEW r \in OrgRepos, NEW now \in Repositories, Change(r, now),
         \/ now.pushed = instant + 1
         \/ now.pushed = github[r].pushed /\ now.version = github[r].version
  PROVE  CatalogInv'
<1>1. /\ GithubInv(github, instant) /\ RowsInv(github, catalog, instant, overtaken)
      /\ FetchInv(sweep, github, catalog)
  BY DEF CatalogInv
<1>2. /\ instant' = instant + 1 /\ github' = [github EXCEPT ![r] = now]
      /\ since' # {} /\ UNCHANGED <<catalog, sweep, overtaken>>
  BY DEF Change
<1>3. /\ github'[r] = now
      /\ \A q \in OrgRepos : q # r => github'[q] = github[q]
      /\ github' \in [OrgRepos -> Repositories]
  BY <1>1, <1>2 DEF GithubInv
<1>4. instant \in Nat /\ \A q \in OrgRepos : github[q].pushed <= instant /\ github[q].pushed \in Nat
  BY <1>1 DEF GithubInv, Repositories
<1>5. GithubInv(github', instant')
  <2>1. \A q \in OrgRepos : github'[q].pushed <= instant + 1
    BY <1>3, <1>4
  <2>2. \A q \in OrgRepos : github'[q].pushed \in Nat
    BY <1>3 DEF Repositories
  <2> QED
    BY <1>2, <1>3, <1>4, <2>1, <2>2 DEF GithubInv
<1>6. RowsInv(github', catalog', instant', overtaken')
  <2> SUFFICES ASSUME NEW q \in OrgRepos \cap DOMAIN catalog, catalog[q].synced # Never
               PROVE  /\ catalog[q].synced <= instant + 1
                      /\ github'[q].pushed <= catalog[q].synced /\ q \notin overtaken =>
                           Tells(catalog[q], github'[q].version)
    BY <1>1, <1>2 DEF RowsInv
  <2>1. /\ catalog[q].synced \in Nat /\ catalog[q].synced <= instant
        /\ github[q].pushed <= catalog[q].synced /\ q \notin overtaken =>
             Tells(catalog[q], github[q].version)
    BY <1>1 DEF RowsInv, CatalogRows
  <2> QED
    BY <1>3, <1>4, <2>1
<1>7. FetchInv(sweep', github', catalog')
  <2> SUFFICES ASSUME sweep.pc = "store", NEW q \in OrgRepos \cap DOMAIN catalog,
                      sweep.fetched.repo = q, catalog[q].synced # Never,
                      github'[q].pushed <= catalog[q].synced
               PROVE  sweep.fetched.version = github'[q].version
    BY <1>2 DEF FetchInv
  <2>1. catalog[q].synced \in Nat /\ catalog[q].synced <= instant
    BY <1>1 DEF RowsInv, CatalogRows
  <2>2. github'[q].pushed = github[q].pushed /\ github'[q].version = github[q].version
    BY <1>3, <1>4, <2>1
  <2> QED
    BY <1>1, <2>2 DEF FetchInv
<1>8. SweepShape(sweep')
  BY <1>2 DEF CatalogInv
<1> QED
  BY <1>2, <1>5, <1>6, <1>7, <1>8 DEF CatalogInv

LEMMA CatalogAside ==
  ASSUME CatalogInv, NEW r \in OrgRepos, Push(r) \/ Archive(r) \/ Delete(r) \/ Nudge(r)
  PROVE  CatalogInv'
<1>0. /\ GithubInv(github, instant) /\ RowsInv(github, catalog, instant, overtaken)
      /\ SweepShape(sweep) /\ FetchInv(sweep, github, catalog)
  BY DEF CatalogInv
<1>r. github[r] \in Repositories /\ instant \in Nat
  BY <1>0 DEF GithubInv
<1>1. CASE Push(r)
  <2> DEFINE now == [github[r] EXCEPT !.version = @ + 1, !.pushed = instant + 1]
  <2> DEFINE n == github[r].version + 1
             i == instant + 1
  <2>0. n \in Nat /\ i \in Nat
    BY <1>r DEF Repositories
  <2>2. Change(r, now)
    BY <1>1 DEF Push
  <2>3. now = [github[r] EXCEPT !.version = n, !.pushed = i]
    OBVIOUS
  <2>4. instant + 1 = i
    OBVIOUS
  <2> HIDE DEF now, n, i
  <2>1. now \in Repositories /\ now.pushed = instant + 1
    BY <1>r, <2>0, <2>3, <2>4 DEF Repositories
  <2> QED
    BY <2>1, <2>2, OrganisationChanges
<1>2. CASE Archive(r)
  <2> DEFINE now == [github[r] EXCEPT !.archived = ~@]
  <2>1. /\ now \in Repositories /\ now.pushed = github[r].pushed
        /\ now.version = github[r].version
    BY <1>r DEF Repositories
  <2>2. Change(r, now)
    BY <1>2 DEF Archive
  <2> QED
    BY <2>1, <2>2, OrganisationChanges
<1>3. CASE Delete(r)
  <2> DEFINE now == [github[r] EXCEPT !.exists = ~@, !.version = 0, !.pushed = instant + 1]
  <2> DEFINE b == ~github[r].exists
             i == instant + 1
  <2>0. b \in BOOLEAN /\ i \in Nat
    BY <1>r DEF Repositories
  <2>2. Change(r, now)
    BY <1>3 DEF Delete
  <2>3. now = [github[r] EXCEPT !.exists = b, !.version = 0, !.pushed = i]
    OBVIOUS
  <2>4. instant + 1 = i
    OBVIOUS
  <2> HIDE DEF now, b, i
  <2>1. now \in Repositories /\ now.pushed = instant + 1
    BY <1>r, <2>0, <2>3, <2>4 DEF Repositories
  <2> QED
    BY <2>1, <2>2, OrganisationChanges
<1>4. CASE Nudge(r)
  <2>1. instant' = instant + 1 /\ UNCHANGED <<github, sweep, since, overtaken>>
    BY <1>4 DEF Nudge
  <2>2. /\ DOMAIN catalog' = DOMAIN catalog
        /\ \A q \in DOMAIN catalog : q # r => catalog'[q] = catalog[q]
        /\ r \in DOMAIN catalog => catalog'[r] = [catalog[r] EXCEPT !.pushed = instant + 1]
    BY <1>4 DEF Nudge
  <2>3. \A q \in DOMAIN catalog :
          /\ catalog'[q] \in CatalogRows
          /\ catalog'[q].archived = catalog[q].archived
          /\ catalog'[q].synced = catalog[q].synced /\ catalog'[q].held = catalog[q].held
          /\ \/ catalog'[q].pushed = catalog[q].pushed
             \/ q = r /\ catalog'[q].pushed = instant + 1
    <3> SUFFICES ASSUME NEW q \in DOMAIN catalog
                 PROVE  /\ catalog'[q] \in CatalogRows
                        /\ catalog'[q].archived = catalog[q].archived
                        /\ catalog'[q].synced = catalog[q].synced
                        /\ catalog'[q].held = catalog[q].held
                        /\ \/ catalog'[q].pushed = catalog[q].pushed
                           \/ q = r /\ catalog'[q].pushed = instant + 1
      OBVIOUS
    <3>1. catalog[q] \in CatalogRows
      BY <1>0 DEF RowsInv
    <3> DEFINE row == [catalog[q] EXCEPT !.pushed = instant + 1]
    <3>2. row = [archived |-> catalog[q].archived, pushed |-> instant + 1,
                 synced |-> catalog[q].synced, held |-> catalog[q].held]
      BY <3>1 DEF CatalogRows
    <3>3. catalog'[q] = catalog[q] \/ (q = r /\ catalog'[q] = row)
      BY <2>2
    <3> HIDE DEF row
    <3> QED
      BY <1>r, <3>1, <3>2, <3>3 DEF CatalogRows
  <2>4. RowsInv(github', catalog', instant', overtaken')
    <3>1. \A q \in DOMAIN catalog, v \in Nat :
            Tells(catalog[q], v) => Tells(catalog'[q], v)
      BY <2>3 DEF Tells
    <3>2. \A q \in OrgRepos : github[q].version \in Nat
      BY <1>0 DEF GithubInv, Repositories
    <3> SUFFICES ASSUME NEW q \in OrgRepos \cap DOMAIN catalog, catalog[q].synced # Never
                 PROVE  /\ catalog[q].synced <= instant + 1
                        /\ github[q].pushed <= catalog[q].synced /\ q \notin overtaken =>
                             Tells(catalog'[q], github[q].version)
      BY <1>0, <2>1, <2>2, <2>3 DEF RowsInv
    <3>3. catalog[q].synced \in Nat
      BY <1>0 DEF RowsInv, CatalogRows
    <3> QED
      BY <1>0, <1>r, <3>1, <3>2, <3>3 DEF RowsInv
  <2>g. GithubInv(github', instant')
    <3>1. \A q \in OrgRepos : github[q].pushed \in Nat
      BY <1>0 DEF GithubInv, Repositories
    <3> QED
      BY <1>0, <1>r, <2>1, <3>1 DEF GithubInv
  <2>f. FetchInv(sweep', github', catalog')
    BY <1>0, <2>1, <2>2, <2>3 DEF FetchInv
  <2>5. \A q \in OrgRepos : RowMatches(q, github, catalog) => RowMatches(q, github, catalog')
    <3>1. \A q \in OrgRepos : github[q].pushed <= instant /\ github[q].pushed \in Nat
      BY <1>0 DEF GithubInv, Repositories
    <3> QED
      BY <1>r, <2>2, <2>3, <3>1 DEF RowMatches
  <2>6. ASSUME Undisturbed(sweep, github, catalog, overtaken)
        PROVE  Undisturbed(sweep, github, catalog', overtaken)
    <3>1. Existing(github) \subseteq OrgRepos
      BY DEF Existing
    <3>2. \A q \in Existing(github) : RowMatches(q, github, catalog) => q \in DOMAIN catalog
      BY DEF RowMatches
    <3>3. \A q \in Existing(github) \ Pending(sweep) :
            /\ q \in DOMAIN catalog
            /\ RowIsGood(sweep, q, github, catalog, overtaken)
            => RowIsGood(sweep, q, github, catalog', overtaken)
      BY <2>3 DEF RowIsGood, Tells
    <3> QED
      BY <2>2, <2>5, <2>6, <3>1, <3>2, <3>3 DEF Undisturbed
  <2> QED
    BY <1>0, <2>1, <2>4, <2>g, <2>f, <2>6 DEF CatalogInv
<1> QED
  BY <1>1, <1>2, <1>3, <1>4

-----------------------------------------------------------------------------
(* CatalogSync: the sweep                                                    *)

LEMMA CatalogPages ==
  ASSUME NEW n \in Nat \ {0}
  PROVE  /\ Page(n) \subseteq Existing(github)
         /\ ListedBefore(github, n) = ListedBefore(github, n - 1) \cup Page(n)
         /\ Cardinality(Page(n)) < PerPage => ListedBefore(github, n) = Existing(github)
<1> DEFINE live == Live(github)
           on == {i \in live : (Rank(live, i) - 1) \div PerPage = n - 1}
           base == (n - 1) * PerPage
           top == n * PerPage
<1>1. /\ PerPage \in Nat \ {0} /\ Len(Listing) \in Nat
      /\ DOMAIN Listing = 1..Len(Listing) /\ live \in SUBSET (1..Len(Listing))
      /\ \A i, j \in DOMAIN Listing : Listing[i] = Listing[j] => i = j
  BY CatalogAssumption DEF Live
<1>2. Page(n) = {Listing[i] : i \in on}
  BY DEF Page, Live, Rank
<1>3. Existing(github) = {Listing[i] : i \in live}
  BY DEF Existing, OrgRepos, Live
<1>4. /\ ListedBefore(github, n - 1) = {Listing[i] : i \in {j \in live : Rank(live, j) <= base}}
      /\ ListedBefore(github, n) = {Listing[i] : i \in {j \in live : Rank(live, j) <= top}}
  BY DEF ListedBefore
<1>5. /\ IsFiniteSet(live) /\ Cardinality(live) \in Nat
      /\ \A i \in live : Rank(live, i) \in 1..Cardinality(live)
  BY <1>1, Ranks
<1>6. \A i \in live : (Rank(live, i) - 1) \div PerPage = n - 1 <=>
                      base < Rank(live, i) /\ Rank(live, i) <= top
  BY <1>1, PageRanks
<1>7. base \in Int /\ top \in Int /\ base <= top
  <2>1. top = base + PerPage
    BY <1>1
  <2>2. base \in Int
    BY <1>1
  <2> QED
    BY <1>1, <2>1, <2>2
<1> HIDE DEF base, top
<1>8. \A i \in live : /\ Rank(live, i) <= top <=> Rank(live, i) <= base \/ i \in on
                      /\ i \in on => Rank(live, i) <= top
  BY <1>5, <1>6, <1>7
<1>9. ASSUME Cardinality(Page(n)) < PerPage PROVE \A i \in live : Rank(live, i) <= top
  <2> DEFINE put == [i \in on |-> Listing[i]]
  <2>1. on \subseteq live /\ IsFiniteSet(on)
    BY <1>5, FS_Subset
  <2>2. put \in Surjection(on, Page(n)) /\ put \in Injection(on, Page(n))
    <3>1. put \in [on -> Page(n)]
      BY <1>2
    <3>2. \A r \in Page(n) : \E i \in on : put[i] = r
      BY <1>2
    <3>3. \A i, j \in on : put[i] = put[j] => i = j
      BY <1>1, <2>1
    <3> HIDE DEF put, on
    <3> QED
      BY <3>1, <3>2, <3>3 DEF Surjection, Injection, IsInjective
  <2> HIDE DEF put, on
  <2>3. IsFiniteSet(Page(n))
    BY <2>1, <2>2, FS_Surjection
  <2>4. Cardinality(on) <= Cardinality(Page(n))
    BY <2>1, <2>2, <2>3, FS_Injection
  <2>5. Cardinality(on) < PerPage
    BY <1>1, <1>9, <2>1, <2>3, <2>4, FS_CardinalityType
  <2> HIDE DEF live
  <2> QED
    BY <1>1, <2>5, ShortPageIsLast DEF on, top
<1>10. on \subseteq live
  OBVIOUS
<1> HIDE DEF live, on
<1>11. Page(n) \subseteq Existing(github)
  BY <1>2, <1>3, <1>10
<1>12. ListedBefore(github, n) = ListedBefore(github, n - 1) \cup Page(n)
  <2>1. {j \in live : Rank(live, j) <= top} = {j \in live : Rank(live, j) <= base} \cup on
    BY <1>8, <1>10
  <2> QED
    BY <1>2, <1>4, <2>1
<1>13. ASSUME Cardinality(Page(n)) < PerPage PROVE ListedBefore(github, n) = Existing(github)
  <2>1. {j \in live : Rank(live, j) <= top} = live
    BY <1>9, <1>13
  <2> QED
    BY <1>3, <1>4, <2>1
<1> QED
  BY <1>11, <1>12, <1>13

LEMMA SweepStarts ==
  ASSUME CatalogInv, NEW bootstrap \in BOOLEAN, StartSweep(bootstrap)
  PROVE  CatalogInv'
<1>1. /\ sweep' = [pc |-> "list", page |-> 1, calls |-> 0, bootstrap |-> bootstrap,
                   listed |-> <<>>]
      /\ since' = {} /\ UNCHANGED <<github, catalog, instant, overtaken>>
  BY DEF StartSweep
<1>2. SweepShape(sweep') /\ FetchInv(sweep', github, catalog)
  BY <1>1 DEF SweepShape, FetchInv
<1>3. ListedBefore(github, 0) = {}
  <2>1. \A i \in Live(github) : ~(Rank(Live(github), i) <= 0 * PerPage)
    <3>1. Len(Listing) \in Nat /\ Live(github) \in SUBSET (1..Len(Listing)) /\ 0 * PerPage = 0
      BY CatalogAssumption DEF Live
    <3>2. /\ Cardinality(Live(github)) \in Nat
          /\ \A i \in Live(github) : Rank(Live(github), i) \in 1..Cardinality(Live(github))
      BY <3>1, Ranks
    <3> QED
      BY <3>1, <3>2
  <2> QED
    BY <2>1 DEF ListedBefore
<1>4. Undisturbed(sweep', github, catalog, overtaken)
  BY <1>1, <1>3 DEF Undisturbed, Fields, InFlight
<1> QED
  BY <1>1, <1>2, <1>4 DEF CatalogInv

\* What a step of the sweep that leaves the rows alone has to keep.
LEMMA SweepGoesOn ==
  ASSUME CatalogInv, UNCHANGED <<github, catalog, instant, since, overtaken>>,
         SweepShape(sweep'), FetchInv(sweep', github, catalog),
         Undisturbed(sweep, github, catalog, overtaken) =>
           Undisturbed(sweep', github, catalog, overtaken)
  PROVE  CatalogInv'
BY DEF CatalogInv

LEMMA SweepLists == ASSUME CatalogInv, ListPage PROVE CatalogInv'
<1> DEFINE n == sweep.page
           page == Page(n)
           total == [r \in DOMAIN sweep.listed \cup page |->
                      IF r \in page
                      THEN [archived |-> github[r].archived, pushed |-> github[r].pushed]
                      ELSE sweep.listed[r]]
           short == Cardinality(page) < PerPage
<1>1. SweepShape(sweep) /\ GithubInv(github, instant)
  BY DEF CatalogInv
<1>2. /\ sweep.pc = "list" /\ UNCHANGED <<github, catalog, instant, since, overtaken>>
      /\ sweep' = IF short
                  THEN [[sweep EXCEPT !.listed = total, !.calls = @ + 1] EXCEPT !.pc = "upsert"]
                  ELSE [[sweep EXCEPT !.listed = total, !.calls = @ + 1] EXCEPT !.page = @ + 1]
  BY Zenon DEF ListPage
<1>3. n \in Nat \ {0}
  BY <1>1, <1>2 DEF SweepShape
<1>4. /\ page \subseteq Existing(github)
      /\ ListedBefore(github, n) = ListedBefore(github, n - 1) \cup page
      /\ short => ListedBefore(github, n) = Existing(github)
  BY <1>3, CatalogPages
<1>5. /\ DOMAIN total = DOMAIN sweep.listed \cup page
      /\ \A r \in page : total[r] = [archived |-> github[r].archived, pushed |-> github[r].pushed]
      /\ \A r \in DOMAIN sweep.listed \ page : total[r] = sweep.listed[r]
  OBVIOUS
<1> HIDE DEF total, page, short
<1>6. /\ DOMAIN sweep' = DOMAIN sweep /\ sweep'.listed = total
      /\ sweep'.pc = IF short THEN "upsert" ELSE "list"
      /\ ~short => sweep'.page = n + 1
  BY <1>1, <1>2 DEF SweepShape
<1>7. \A r \in DOMAIN total : r \in OrgRepos /\ total[r] \in ListedFields
  <2>1. \A r \in page : r \in OrgRepos /\ github[r] \in Repositories
    BY <1>1, <1>4 DEF Existing, GithubInv
  <2>2. \A r \in page : total[r] \in ListedFields
    BY <1>5, <2>1 DEF Repositories, ListedFields
  <2> QED
    BY <1>1, <1>2, <1>5, <2>1, <2>2 DEF SweepShape
<1>8. SweepShape(sweep') /\ FetchInv(sweep', github, catalog)
  BY <1>1, <1>2, <1>3, <1>6, <1>7 DEF SweepShape, FetchInv
<1>9. ASSUME Undisturbed(sweep, github, catalog, overtaken)
      PROVE  Undisturbed(sweep', github, catalog, overtaken)
  <2>1. DOMAIN sweep.listed = ListedBefore(github, n - 1) /\ Fields(sweep, github)
    BY <1>2, <1>9 DEF Undisturbed
  <2>2. DOMAIN total = ListedBefore(github, n)
    BY <1>4, <1>5, <2>1
  <2>3. Fields(sweep', github)
    BY <1>5, <1>6, <2>1 DEF Fields
  <2>4. InFlight(sweep') = {}
    BY <1>6 DEF InFlight
  <2>5. CASE short
    BY <1>4, <1>6, <2>2, <2>3, <2>4, <2>5 DEF Undisturbed
  <2>6. CASE ~short
    <3>1. sweep'.page - 1 = n
      BY <1>3, <1>6, <2>6
    <3>2. sweep'.pc = "list" /\ DOMAIN sweep'.listed = ListedBefore(github, sweep'.page - 1)
      BY <1>6, <2>2, <2>6, <3>1
    <3> QED
      BY <2>3, <2>4, <3>2 DEF Undisturbed
  <2> QED
    BY <2>5, <2>6
<1> QED
  BY <1>2, <1>8, <1>9, SweepGoesOn

LEMMA SweepEndsEarly == ASSUME CatalogInv, Abandon \/ Exhausted \/ Finish PROVE CatalogInv'
<1>1. SweepShape(sweep)
  BY DEF CatalogInv
<1>2. CASE Abandon \/ Exhausted
  <2>1. sweep' = Quiet /\ UNCHANGED <<github, catalog, instant, since, overtaken>>
    BY <1>2 DEF Abandon, Exhausted
  <2>2. /\ SweepShape(sweep') /\ FetchInv(sweep', github, catalog)
        /\ Undisturbed(sweep', github, catalog, overtaken)
    BY <2>1 DEF Quiet, SweepShape, FetchInv, Undisturbed, InFlight
  <2> QED
    BY <2>1, <2>2, SweepGoesOn
<1>3. CASE Finish
  <2>1. /\ sweep.pc = "deep" /\ sweep.todo = {}
        /\ sweep' = [pc |-> "done", bootstrap |-> sweep.bootstrap,
                     degraded |-> sweep.degraded, missed |-> sweep.missed]
        /\ UNCHANGED <<github, catalog, instant, since, overtaken>>
    BY <1>3 DEF Finish
  <2>2. /\ DOMAIN sweep' = {"pc", "bootstrap", "degraded", "missed"} /\ sweep'.pc = "done"
        /\ sweep'.bootstrap = sweep.bootstrap /\ sweep'.degraded = sweep.degraded
        /\ sweep'.missed = sweep.missed
    BY <2>1
  <2>3. SweepShape(sweep') /\ FetchInv(sweep', github, catalog)
    BY <2>2 DEF SweepShape, FetchInv
  <2>4. InFlight(sweep) = {} /\ InFlight(sweep') = {} /\ Pending(sweep') = Pending(sweep)
    BY <2>1, <2>2 DEF InFlight, Pending
  <2>5. \A r \in OrgRepos : RowIsGood(sweep, r, github, catalog, overtaken) =>
          RowIsGood(sweep', r, github, catalog, overtaken)
    BY <2>2 DEF RowIsGood
  <2>6. Existing(github) \subseteq OrgRepos
    BY DEF Existing
  <2>7. Undisturbed(sweep, github, catalog, overtaken) =>
          Undisturbed(sweep', github, catalog, overtaken)
    BY <2>1, <2>2, <2>4, <2>5, <2>6 DEF Undisturbed
  <2> QED
    BY <2>1, <2>3, <2>7, SweepGoesOn
<1> QED
  BY <1>2, <1>3

LEMMA SweepUpserts == ASSUME CatalogInv, Upsert PROVE CatalogInv'
<1> DEFINE listed == sweep.listed
           kept(r) == [catalog[r] EXCEPT !.archived = listed[r].archived,
                                         !.pushed = listed[r].pushed]
           new(r) == [archived |-> listed[r].archived, pushed |-> listed[r].pushed,
                      synced |-> Never, held |-> AllAt(Never)]
<1>1. /\ SweepShape(sweep) /\ GithubInv(github, instant)
      /\ RowsInv(github, catalog, instant, overtaken)
  BY DEF CatalogInv
<1>2. /\ sweep.pc = "upsert" /\ sweep' = [sweep EXCEPT !.pc = "prune"]
      /\ UNCHANGED <<github, instant, since, overtaken>>
      /\ DOMAIN catalog' = DOMAIN catalog \cup DOMAIN listed
      /\ \A r \in DOMAIN catalog' : catalog'[r] =
           IF r \in DOMAIN listed
           THEN IF r \in DOMAIN catalog THEN kept(r) ELSE new(r) ELSE catalog[r]
  BY DEF Upsert, SweepTo
<1>3. /\ DOMAIN sweep' = DOMAIN sweep /\ sweep'.pc = "prune" /\ sweep'.listed = listed
  BY <1>1, <1>2 DEF SweepShape
<1>4. SweepShape(sweep') /\ FetchInv(sweep', github', catalog')
  BY <1>1, <1>2, <1>3 DEF SweepShape, FetchInv
<1>5. \A r \in DOMAIN listed : r \in OrgRepos /\ listed[r] \in ListedFields
  BY <1>1, <1>2 DEF SweepShape
<1>6. \A r \in DOMAIN catalog : catalog[r] \in CatalogRows
  BY <1>1 DEF RowsInv
<1>7. ASSUME NEW r \in DOMAIN listed, r \in DOMAIN catalog
      PROVE  /\ catalog'[r] \in CatalogRows
             /\ catalog'[r].archived = listed[r].archived
             /\ catalog'[r].pushed = listed[r].pushed
             /\ catalog'[r].synced = catalog[r].synced
             /\ catalog'[r].held = catalog[r].held
  <2>1. catalog[r] \in CatalogRows /\ catalog'[r] = kept(r)
    BY <1>2, <1>6, <1>7
  <2>2. listed[r].archived \in BOOLEAN /\ listed[r].pushed \in Nat
    BY <1>5 DEF ListedFields
  <2> QED
    BY <2>1, <2>2 DEF CatalogRows
<1>8. ASSUME NEW r \in DOMAIN listed, r \notin DOMAIN catalog PROVE catalog'[r] = new(r)
  BY <1>2, <1>8
<1>9. \A r \in DOMAIN catalog \ DOMAIN listed : catalog'[r] = catalog[r]
  BY <1>2
<1> HIDE DEF listed, kept
<1>10. \A r \in DOMAIN catalog' : catalog'[r] \in CatalogRows
  <2> SUFFICES ASSUME NEW r \in DOMAIN catalog' PROVE catalog'[r] \in CatalogRows
    OBVIOUS
  <2>1. CASE r \in DOMAIN listed /\ r \in DOMAIN catalog
    BY <1>7, <2>1
  <2>2. CASE r \in DOMAIN listed /\ r \notin DOMAIN catalog
    <3>1. listed[r].archived \in BOOLEAN /\ listed[r].pushed \in Nat
      BY <1>5, <2>2 DEF ListedFields
    <3>2. catalog'[r] = new(r)
      BY <1>8, <2>2
    <3>3. AllAt(Never) \in [Parts -> Nat \cup {Never}]
      BY DEF AllAt
    <3> QED
      BY <3>1, <3>2, <3>3 DEF CatalogRows
  <2>3. CASE r \notin DOMAIN listed
    BY <1>2, <1>6, <1>9, <2>3
  <2> QED
    BY <2>1, <2>2, <2>3
<1>11. RowsInv(github', catalog', instant', overtaken')
  <2> SUFFICES ASSUME NEW r \in OrgRepos \cap DOMAIN catalog', catalog'[r].synced # Never
               PROVE  /\ catalog'[r].synced <= instant
                      /\ github[r].pushed <= catalog'[r].synced /\ r \notin overtaken =>
                           Tells(catalog'[r], github[r].version)
    BY <1>1, <1>2, <1>10 DEF RowsInv
  <2>1. /\ r \in DOMAIN catalog
        /\ catalog'[r].synced = catalog[r].synced /\ catalog'[r].held = catalog[r].held
    BY <1>2, <1>7, <1>8, <1>9
  <2>2. Tells(catalog'[r], github[r].version) <=> Tells(catalog[r], github[r].version)
    BY <2>1 DEF Tells
  <2> QED
    BY <1>1, <2>1, <2>2 DEF RowsInv
<1>12. ASSUME Undisturbed(sweep, github, catalog, overtaken)
       PROVE  Undisturbed(sweep', github, catalog', overtaken)
  <2>1. DOMAIN listed = Existing(github) /\ Fields(sweep, github)
    BY <1>2, <1>12 DEF Undisturbed, listed
  <2>2. \A r \in DOMAIN listed :
          /\ r \in DOMAIN catalog' /\ catalog'[r].archived = listed[r].archived
          /\ catalog'[r].pushed = listed[r].pushed
    BY <1>2, <1>7, <1>8
  <2>3. \A r \in DOMAIN listed : github[r].pushed \in Nat
    BY <1>1, <1>5 DEF GithubInv, Repositories
  <2>4. \A r \in Existing(github) : RowMatches(r, github, catalog')
    BY <2>1, <2>2, <2>3 DEF RowMatches, Fields, listed
  <2>5. InFlight(sweep') = {} /\ Fields(sweep', github)
    BY <1>3, <2>1 DEF InFlight, Fields, listed
  <2> QED
    BY <1>3, <2>1, <2>4, <2>5 DEF Undisturbed
<1> QED
  BY <1>1, <1>2, <1>4, <1>11, <1>12 DEF CatalogInv

LEMMA SweepPrunes == ASSUME CatalogInv, Prune PROVE CatalogInv'
<1>1. /\ SweepShape(sweep) /\ GithubInv(github, instant)
      /\ RowsInv(github, catalog, instant, overtaken)
  BY DEF CatalogInv
<1>2. /\ sweep.pc = "prune" /\ sweep' = [sweep EXCEPT !.pc = "select"]
      /\ UNCHANGED <<github, instant, since, overtaken>>
      /\ DOMAIN catalog' = DOMAIN catalog \ (OrgRepos \ DOMAIN sweep.listed)
      /\ \A r \in DOMAIN catalog' : catalog'[r] = catalog[r]
  BY DEF Prune, SweepTo
<1>3. DOMAIN sweep' = DOMAIN sweep /\ sweep'.pc = "select" /\ sweep'.listed = sweep.listed
  BY <1>1, <1>2 DEF SweepShape
<1>4. SweepShape(sweep') /\ FetchInv(sweep', github', catalog')
  BY <1>1, <1>2, <1>3 DEF SweepShape, FetchInv
<1>5. RowsInv(github', catalog', instant', overtaken')
  BY <1>1, <1>2, CatalogAssumption DEF RowsInv
<1>6. ASSUME Undisturbed(sweep, github, catalog, overtaken)
      PROVE  Undisturbed(sweep', github, catalog', overtaken)
  <2>1. /\ DOMAIN sweep.listed = Existing(github)
        /\ \A r \in Existing(github) : RowMatches(r, github, catalog)
    BY <1>2, <1>6 DEF Undisturbed
  <2>2. Existing(github) \subseteq OrgRepos
    BY DEF Existing
  <2>3. \A r \in Existing(github) : r \in DOMAIN catalog
    BY <2>1 DEF RowMatches
  <2>4. OrgRepos \cap DOMAIN catalog' = Existing(github)
    BY <1>2, <2>1, <2>2, <2>3
  <2>5. \A r \in Existing(github) : RowMatches(r, github, catalog')
    BY <1>2, <2>1, <2>4 DEF RowMatches
  <2>6. InFlight(sweep') = {}
    BY <1>3 DEF InFlight
  <2> QED
    BY <1>3, <2>4, <2>5, <2>6 DEF Undisturbed
<1> QED
  BY <1>1, <1>2, <1>4, <1>5, <1>6 DEF CatalogInv

\* What is not selected was fetched after its last push.
LEMMA SweepSelects == ASSUME CatalogInv, Select PROVE CatalogInv'
<1> DEFINE todo == {r \in DOMAIN catalog : NeedsDeep(catalog[r])}
<1>1. /\ SweepShape(sweep) /\ GithubInv(github, instant)
      /\ RowsInv(github, catalog, instant, overtaken)
  BY DEF CatalogInv
<1>2. /\ sweep.pc = "select"
      /\ sweep' = [pc |-> "deep", bootstrap |-> sweep.bootstrap, calls |-> sweep.calls,
                   todo |-> todo, degraded |-> {}, missed |-> {}]
      /\ UNCHANGED <<github, catalog, instant, since, overtaken>>
  BY DEF Select
<1> HIDE DEF todo
<1>3. /\ DOMAIN sweep' = {"pc", "bootstrap", "calls", "todo", "degraded", "missed"}
      /\ sweep'.pc = "deep" /\ sweep'.todo = todo /\ sweep'.bootstrap = sweep.bootstrap
  BY <1>2
<1>4. SweepShape(sweep') /\ FetchInv(sweep', github, catalog)
  BY <1>3 DEF SweepShape, FetchInv
<1>5. ASSUME Undisturbed(sweep, github, catalog, overtaken)
      PROVE  Undisturbed(sweep', github, catalog, overtaken)
  <2>1. /\ OrgRepos \cap DOMAIN catalog = Existing(github)
        /\ \A r \in Existing(github) : RowMatches(r, github, catalog)
    BY <1>2, <1>5 DEF Undisturbed
  <2>2. ASSUME NEW r \in Existing(github), r \notin todo
        PROVE  RowIsGood(sweep', r, github, catalog, overtaken)
    <3>1. r \in OrgRepos /\ r \in DOMAIN catalog /\ ~NeedsDeep(catalog[r])
      BY <2>1, <2>2 DEF todo
    <3>2. catalog[r] \in CatalogRows /\ github[r] \in Repositories
      BY <1>1, <3>1 DEF RowsInv, GithubInv
    <3>3. catalog[r].archived = github[r].archived /\ github[r].pushed <= catalog[r].pushed
      BY <2>1 DEF RowMatches
    <3>4. ASSUME ~github[r].archived
          PROVE  /\ catalog[r].synced # Never /\ ~sweep.bootstrap
                 /\ ~(catalog[r].pushed > catalog[r].synced)
      BY <3>1, <3>3, <3>4 DEF NeedsDeep
    <3>5. ASSUME ~github[r].archived PROVE github[r].pushed <= catalog[r].synced
      BY <3>2, <3>3, <3>4, <3>5 DEF CatalogRows, Repositories
    <3>6. github[r].archived \/ r \in overtaken \/ Tells(catalog[r], github[r].version)
      BY <1>1, <3>1, <3>4, <3>5 DEF RowsInv
    <3> QED
      BY <1>3, <3>4, <3>6 DEF RowIsGood
  <2>3. InFlight(sweep') = {} /\ todo \subseteq Pending(sweep')
    BY <1>3 DEF InFlight, Pending
  <2> QED
    BY <1>3, <2>1, <2>2, <2>3 DEF Undisturbed
<1> QED
  BY <1>2, <1>4, <1>5, SweepGoesOn

LEMMA SweepFetches ==
  ASSUME CatalogInv, NEW r \in OrgRepos \cup OtherOrgs, NEW used, NEW got \in Hauls,
         Fetch(r, used, got)
  PROVE  CatalogInv'
<1> DEFINE version == IF r \in OrgRepos THEN github[r].version ELSE 0
           degraded == IF "tree" \in got THEN sweep.degraded ELSE sweep.degraded \cup {r}
           missed == IF got = Parts THEN sweep.missed ELSE sweep.missed \cup {r}
<1>1. SweepShape(sweep) /\ GithubInv(github, instant)
  BY DEF CatalogInv
<1>2. /\ sweep.pc = "deep" /\ r \in sweep.todo
      /\ sweep' = [pc |-> "store", bootstrap |-> sweep.bootstrap, calls |-> sweep.calls + used,
                   todo |-> sweep.todo \ {r}, degraded |-> degraded, missed |-> missed,
                   fetched |-> [repo |-> r, got |-> got, version |-> version]]
      /\ UNCHANGED <<github, catalog, instant, since, overtaken>>
  BY DEF Fetch
<1>g. got \subseteq Parts
  BY CatalogAssumption
<1>4. version \in Nat /\ (r \in OrgRepos => version = github[r].version)
  BY <1>1 DEF GithubInv, Repositories
<1>5. /\ r \in degraded \/ "tree" \in got
      /\ r \in missed \/ got = Parts
      /\ \A q : q # r => (q \in degraded <=> q \in sweep.degraded)
      /\ \A q : q # r => (q \in missed <=> q \in sweep.missed)
      /\ sweep.degraded \subseteq degraded
  OBVIOUS
<1> HIDE DEF degraded, missed, version
<1>3. /\ DOMAIN sweep' = {"pc", "bootstrap", "calls", "todo", "degraded", "missed", "fetched"}
      /\ sweep'.pc = "store" /\ sweep'.bootstrap = sweep.bootstrap
      /\ sweep'.todo = sweep.todo \ {r}
      /\ sweep'.degraded = degraded /\ sweep'.missed = missed
      /\ sweep'.fetched = [repo |-> r, got |-> got, version |-> version]
  BY <1>2
<1>6. sweep'.fetched \in Fetched
  BY <1>3, <1>4, <1>g DEF Fetched
<1>7. SweepShape(sweep')
  BY <1>3, <1>5, <1>6 DEF SweepShape
<1>8. FetchInv(sweep', github, catalog)
  BY <1>3, <1>4 DEF FetchInv
<1>9. ASSUME Undisturbed(sweep, github, catalog, overtaken)
      PROVE  Undisturbed(sweep', github, catalog, overtaken)
  <2>1. /\ OrgRepos \cap DOMAIN catalog = Existing(github)
        /\ \A q \in Existing(github) : RowMatches(q, github, catalog)
        /\ \A q \in Existing(github) \ Pending(sweep) :
             RowIsGood(sweep, q, github, catalog, overtaken)
    BY <1>2, <1>9 DEF Undisturbed
  <2>2. Existing(github) \subseteq OrgRepos
    BY DEF Existing
  <2>3. ASSUME NEW q \in Existing(github), q \notin Pending(sweep')
        PROVE  RowIsGood(sweep', q, github, catalog, overtaken)
    <3>1. q # r
      BY <1>3, <1>5, <2>2, <2>3 DEF Pending, InFlight
    <3>2. q \notin Pending(sweep)
      BY <1>2, <1>3, <1>5, <2>3, <3>1 DEF Pending, InFlight
    <3> QED
      BY <1>3, <1>5, <2>1, <3>1, <3>2 DEF RowIsGood
  <2>4. \A q \in InFlight(sweep') : sweep'.fetched.version = github[q].version
    BY <1>3, <1>4 DEF InFlight
  <2> QED
    BY <1>3, <2>1, <2>3, <2>4 DEF Undisturbed
<1> QED
  BY <1>2, <1>7, <1>8, <1>9, SweepGoesOn

\* What is still the repository's content makes its row good, and only such
\* content is stored while nothing changes.
LEMMA SweepStores == ASSUME CatalogInv, Store PROVE CatalogInv'
<1> DEFINE fetched == sweep.fetched
           repo == fetched.repo
           treed == "tree" \in fetched.got
           held == Learned(catalog[repo].held, fetched)
           synced == IF treed THEN instant ELSE catalog[repo].synced
           row == [catalog[repo] EXCEPT !.held = held, !.synced = synced]
           stores == repo \in DOMAIN catalog
<1>1. /\ SweepShape(sweep) /\ GithubInv(github, instant)
      /\ RowsInv(github, catalog, instant, overtaken) /\ FetchInv(sweep, github, catalog)
  BY DEF CatalogInv
<1>2. /\ sweep.pc = "store"
      /\ sweep' = [pc |-> "deep", bootstrap |-> sweep.bootstrap, calls |-> sweep.calls,
                   todo |-> sweep.todo, degraded |-> sweep.degraded, missed |-> sweep.missed]
      /\ UNCHANGED <<github, instant, since>>
      /\ catalog' = IF stores THEN [catalog EXCEPT ![repo] = row] ELSE catalog
      /\ overtaken' = IF ~treed \/ repo \notin OrgRepos THEN overtaken
                      ELSE IF fetched.version = github[repo].version
                           THEN overtaken \ {repo} ELSE overtaken \cup {repo}
  BY DEF Store, StoreAs, Overtakes
<1>3. /\ DOMAIN sweep' = {"pc", "bootstrap", "calls", "todo", "degraded", "missed"}
      /\ sweep'.pc = "deep" /\ sweep'.bootstrap = sweep.bootstrap
      /\ sweep'.todo = sweep.todo /\ sweep'.degraded = sweep.degraded
      /\ sweep'.missed = sweep.missed
  BY <1>2
<1>4. SweepShape(sweep') /\ FetchInv(sweep', github', catalog')
  BY <1>3 DEF SweepShape, FetchInv
<1>5. /\ fetched.got \subseteq Parts /\ fetched.version \in Nat /\ instant \in Nat
      /\ treed \/ repo \in sweep.degraded
      /\ fetched.got = Parts \/ repo \in sweep.missed
  BY <1>1, <1>2 DEF SweepShape, GithubInv, Fetched
<1>6. held = [part \in Parts |->
                IF part # "about" /\ ~treed THEN catalog[repo].held[part]
                ELSE IF part \in fetched.got THEN fetched.version ELSE Never]
  BY DEF Learned
<1>7. /\ DOMAIN catalog' = DOMAIN catalog
      /\ \A r \in DOMAIN catalog : r # repo => catalog'[r] = catalog[r]
      /\ stores => catalog'[repo] = row
  BY <1>2
<1>8. ASSUME stores
      PROVE  /\ row \in CatalogRows /\ row.held = held /\ row.synced = synced
             /\ row.archived = catalog[repo].archived /\ row.pushed = catalog[repo].pushed
  <2>1. catalog[repo] \in CatalogRows
    BY <1>1, <1>8 DEF RowsInv
  <2>2. held \in [Parts -> Nat \cup {Never}] /\ synced \in Nat \cup {Never}
    <3>1. catalog[repo].held \in [Parts -> Nat \cup {Never}]
      BY <2>1 DEF CatalogRows
    <3>2. catalog[repo].synced \in Nat \cup {Never}
      BY <2>1 DEF CatalogRows
    <3>3. synced \in Nat \cup {Never}
      BY <1>5, <3>2
    <3>4. \A part \in Parts : catalog[repo].held[part] \in Nat \cup {Never}
      BY <3>1
    <3> HIDE DEF held, synced, treed, repo, fetched
    <3>5. held \in [Parts -> Nat \cup {Never}]
      BY <1>5, <1>6, <3>4
    <3> QED
      BY <3>3, <3>5
  <2> HIDE DEF held, synced
  <2> QED
    BY <2>1, <2>2 DEF CatalogRows
<1>9. synced = IF treed THEN instant ELSE catalog[repo].synced
  OBVIOUS
<1> HIDE DEF row, synced, held
<1>10. \A r \in DOMAIN catalog : /\ catalog'[r] \in CatalogRows
                                 /\ catalog'[r].archived = catalog[r].archived
                                 /\ catalog'[r].pushed = catalog[r].pushed
  <2>1. \A r \in DOMAIN catalog : catalog[r] \in CatalogRows
    BY <1>1 DEF RowsInv
  <2> HIDE DEF repo
  <2> QED
    BY <1>7, <1>8, <2>1
<1>11. \A r \in OrgRepos : (r \in overtaken' <=> r \in overtaken) \/ (r = repo /\ treed)
  BY <1>2
<1>12. treed /\ repo \in OrgRepos /\ repo \notin overtaken' =>
         fetched.version = github[repo].version
  BY <1>2
\* A tree is stored with nothing but its version beside it; without one, the
\* other parts stay.
<1>13. /\ treed => /\ held["tree"] = fetched.version
                   /\ \A part \in Parts : held[part] \in {fetched.version, Never}
                   /\ fetched.got = Parts => held = AllAt(fetched.version)
       /\ ~treed => /\ held["about"] \in {fetched.version, Never}
                    /\ \A part \in Parts \ {"about"} : held[part] = catalog[repo].held[part]
  <2>1. "tree" \in Parts /\ "about" \in Parts /\ "tree" # "about"
    BY DEF Parts
  <2>2. treed /\ fetched.got = Parts => held = AllAt(fetched.version)
    BY <1>6 DEF AllAt
  <2>3. treed <=> "tree" \in fetched.got
    OBVIOUS
  <2> HIDE DEF fetched, repo, treed
  <2> QED
    BY <1>6, <2>1, <2>2, <2>3
<1>14. "tree" \in Parts /\ "about" \in Parts /\ "tree" # "about"
  BY DEF Parts
<1>15. stores /\ repo \in OrgRepos /\ ~treed /\ catalog[repo].synced # Never
         /\ github[repo].pushed <= catalog[repo].synced
       => fetched.version = github[repo].version
  BY <1>1, <1>2 DEF FetchInv
<1> HIDE DEF repo, fetched, treed, stores
<1>16. RowsInv(github', catalog', instant', overtaken')
  <2> SUFFICES ASSUME NEW r \in OrgRepos \cap DOMAIN catalog, catalog'[r].synced # Never
               PROVE  /\ catalog'[r].synced <= instant
                      /\ github[r].pushed <= catalog'[r].synced /\ r \notin overtaken' =>
                           Tells(catalog'[r], github[r].version)
    BY <1>1, <1>2, <1>7, <1>10 DEF RowsInv
  <2>0. catalog[r].synced \in Nat \cup {Never}
    BY <1>1 DEF RowsInv, CatalogRows
  <2>1. CASE r = repo /\ treed
    <3>1. catalog'[r].held = held /\ catalog'[r].synced = instant
      BY <1>7, <1>8, <1>9, <2>1 DEF stores
    <3> QED
      BY <1>5, <1>12, <1>13, <2>1, <3>1 DEF Tells
  <2>2. CASE r = repo /\ ~treed
    <3>1. catalog'[r].held = held /\ catalog'[r].synced = catalog[r].synced
      BY <1>7, <1>8, <1>9, <2>2 DEF stores
    <3>2. catalog[r].synced <= instant
      BY <1>1, <3>1 DEF RowsInv
    <3>3. ASSUME github[r].pushed <= catalog'[r].synced, r \notin overtaken'
          PROVE  Tells(catalog'[r], github[r].version)
      <4>1. Tells(catalog[r], github[r].version)
        BY <1>1, <1>11, <2>2, <3>1, <3>3 DEF RowsInv
      <4>2. fetched.version = github[r].version
        BY <1>15, <2>2, <3>1, <3>3 DEF stores
      <4>3. held["tree"] = github[r].version
        BY <1>13, <1>14, <2>2, <4>1 DEF Tells
      <4>4. \A part \in Parts : held[part] \in {github[r].version, Never}
        BY <1>13, <2>2, <4>1, <4>2 DEF Tells
      <4> QED
        BY <3>1, <4>3, <4>4 DEF Tells
    <3> QED
      BY <3>1, <3>2, <3>3
  <2>3. CASE r # repo
    <3>1. catalog'[r] = catalog[r] /\ (r \in overtaken' <=> r \in overtaken)
      BY <1>7, <1>11, <2>3
    <3> QED
      BY <1>1, <3>1 DEF RowsInv
  <2> QED
    BY <2>1, <2>2, <2>3
<1>17. ASSUME Undisturbed(sweep, github, catalog, overtaken)
       PROVE  Undisturbed(sweep', github, catalog', overtaken')
  <2>1. /\ OrgRepos \cap DOMAIN catalog = Existing(github)
        /\ \A r \in Existing(github) : RowMatches(r, github, catalog)
        /\ \A r \in Existing(github) \ Pending(sweep) :
             RowIsGood(sweep, r, github, catalog, overtaken)
        /\ \A r \in InFlight(sweep) : fetched.version = github[r].version
    BY <1>2, <1>17 DEF Undisturbed, fetched
  <2>2. Existing(github) \subseteq OrgRepos
    BY DEF Existing
  <2>3. \A r \in Existing(github) : RowMatches(r, github, catalog')
    BY <1>7, <1>10, <2>1, <2>2 DEF RowMatches
  <2>4. InFlight(sweep') = {} /\ InFlight(sweep) = {r \in OrgRepos : treed /\ repo = r}
    BY <1>2, <1>3 DEF InFlight, fetched, repo, treed
  <2>5. ASSUME NEW r \in Existing(github), r \notin Pending(sweep')
        PROVE  RowIsGood(sweep', r, github, catalog', overtaken')
    <3>1. r \in OrgRepos /\ r \in DOMAIN catalog
      BY <2>1, <2>2
    <3>2. r \notin sweep.todo /\ r \notin sweep.degraded
      BY <1>3, <2>5 DEF Pending
    <3>3. CASE r = repo
      <4>1. treed
        BY <1>5, <3>2, <3>3
      <4>2. fetched.version = github[r].version
        BY <2>1, <2>4, <3>1, <3>3, <4>1
      <4>3. catalog'[r].held = held
        BY <1>7, <1>8, <3>1, <3>3 DEF stores
      <4>4. Tells(catalog'[r], github[r].version)
        BY <1>13, <4>1, <4>2, <4>3 DEF Tells
      <4>5. r \notin sweep.missed => catalog'[r].held = AllAt(github[r].version)
        BY <1>5, <1>13, <3>3, <4>1, <4>2, <4>3
      <4> QED
        BY <1>3, <4>4, <4>5 DEF RowIsGood
    <3>4. CASE r # repo
      <4>1. catalog'[r] = catalog[r] /\ (r \in overtaken' <=> r \in overtaken)
        BY <1>7, <1>11, <3>1, <3>4
      <4>2. r \notin Pending(sweep)
        BY <1>2, <2>4, <3>2, <3>4 DEF Pending
      <4>3. RowIsGood(sweep, r, github, catalog, overtaken)
        BY <2>1, <4>2
      <4> QED
        BY <1>3, <4>1, <4>3 DEF RowIsGood
    <3> QED
      BY <3>3, <3>4
  <2> QED
    BY <1>3, <1>7, <2>1, <2>3, <2>4, <2>5 DEF Undisturbed
<1> QED
  BY <1>1, <1>2, <1>4, <1>16, <1>17 DEF CatalogInv

LEMMA CatalogNext == CatalogInv /\ [NextCatalog]_catalogVars => CatalogInv'
<1> SUFFICES ASSUME CatalogInv, [NextCatalog]_catalogVars PROVE CatalogInv'
  OBVIOUS
<1>1. ASSUME NEW bootstrap \in BOOLEAN, StartSweep(bootstrap) PROVE CatalogInv'
  BY <1>1, SweepStarts
<1>2. CASE ListPage
  BY <1>2, SweepLists
<1>3. CASE Upsert \/ Prune \/ Select
  BY <1>3, SweepUpserts, SweepPrunes, SweepSelects
<1>4. CASE Store
  BY <1>4, SweepStores
<1>5. CASE Exhausted \/ Finish \/ Abandon
  BY <1>5, SweepEndsEarly
<1>6. ASSUME NEW r \in OrgRepos \cup OtherOrgs, NEW n \in {BaseCalls, Reservation},
             NEW got \in Hauls, Fetch(r, n, got)
      PROVE  CatalogInv'
  BY <1>6, SweepFetches
<1>7. ASSUME NEW r \in OrgRepos, Push(r) \/ Archive(r) \/ Delete(r) \/ Nudge(r)
      PROVE  CatalogInv'
  BY <1>7, CatalogAside
<1>8. CASE UNCHANGED catalogVars
  BY <1>8 DEF catalogVars, CatalogInv
<1> QED
  BY <1>1, <1>2, <1>3, <1>4, <1>5, <1>6, <1>7, <1>8 DEF NextCatalog, NextSweep

CatalogSpec == InitCatalog /\ [][NextCatalog]_catalogVars

\* Whatever is pushed, archived, removed or nudged, whatever parts of a
\* repository cannot be fetched, and however sweeps die: a row that lags behind
\* its repository is due for a fetch, unless a push overtook the one stored last;
\* and a sweep that ran to its end over an organisation that did not change under
\* it leaves a row for exactly its repositories.  They tell what those hold, but
\* for the degraded and, until a bootstrap, the overtaken ones; after a bootstrap
\* they hold all of it where no call failed.  Rows of other organisations stay.
THEOREM SweepsLeaveTheTruth == CatalogSpec => []SweepsConverge
<1>1. CatalogInv => SweepsConverge
  <2> SUFFICES ASSUME CatalogInv PROVE SweepsConverge
    OBVIOUS
  <2>1. OtherOrgs \subseteq DOMAIN catalog
    BY DEF CatalogInv, RowsInv
  <2>2. LaggingRowsAreDue
    <3> SUFFICES ASSUME NEW r \in OrgRepos \cap DOMAIN catalog, ~Due(r), r \notin overtaken
                 PROVE  Tells(catalog[r], github[r].version)
      BY DEF LaggingRowsAreDue
    <3>1. catalog[r].synced # Never /\ ~(github[r].pushed > catalog[r].synced)
      BY DEF Due
    <3>2. catalog[r].synced \in Nat \cup {Never} /\ github[r].pushed \in Nat
      BY DEF CatalogInv, RowsInv, GithubInv, CatalogRows, Repositories
    <3>3. github[r].pushed <= catalog[r].synced
      BY <3>1, <3>2
    <3> QED
      BY <3>1, <3>3 DEF CatalogInv, RowsInv
  <2>3. ASSUME sweep.pc = "done", since = {}
        PROVE  /\ OrgRepos \cap DOMAIN catalog = {r \in OrgRepos : github[r].exists}
               /\ \A r \in (OrgRepos \cap DOMAIN catalog) \ sweep.degraded :
                    RowIsGood(sweep, r, github, catalog, overtaken)
    <3>1. Undisturbed(sweep, github, catalog, overtaken) /\ Pending(sweep) = sweep.degraded
      BY <2>3 DEF CatalogInv, InFlight, Pending
    <3> QED
      BY <2>3, <3>1 DEF Undisturbed, Existing
  <2> QED
    BY <2>1, <2>2, <2>3 DEF SweepsConverge, RowIsGood
<1> QED
  BY <1>1, CatalogInit, CatalogNext, PTL DEF CatalogSpec

LEMMA CatalogAlone == ServicesSpec => CatalogSpec
<1>1. [NextServices]_servicesVars => [NextCatalog]_catalogVars
  BY DEF NextServices, servicesVars, OthersStay, Still
<1> QED
  BY <1>1, PTL DEF ServicesSpec, InitServices, CatalogSpec

\* The same, of the run that checks every component.
THEOREM CatalogIsKept == ServicesSpec => []CatalogHolds
<1>1. SweepsConverge => CatalogHolds
  BY DEF CatalogHolds
<1> QED
  BY <1>1, CatalogAlone, SweepsLeaveTheTruth, PTL

-----------------------------------------------------------------------------
(* JwksCache: the cached keys are the provider's, or were                    *)

\* Since a document was read, only keys that turned later changed sides.
ReadAt(document, at) ==
  /\ at <= jwksClock
  /\ document # NoDocument =>
       \A k \in SigningKeys : (k \in document) # (k \in published) => turned[k] >= at

JwksInv ==
  /\ jwksClock \in Nat /\ fetchedAt \in Nat
  /\ published \in SUBSET SigningKeys /\ turned \in [SigningKeys -> Nat]
  /\ ReadAt(keyset, fetchedAt)
  /\ fetching # NoToken => fetching.now \in Nat /\ ReadAt(fetching.document, fetching.now)

LEMMA JwksInit == InitJwks => JwksInv
BY DEF InitJwks, JwksInv, ReadAt

LEMMA JwksNext == JwksInv /\ [NextJwks]_jwksVars => JwksInv'
<1> SUFFICES ASSUME JwksInv, [NextJwks]_jwksVars PROVE JwksInv'
  OBVIOUS
<1> USE DEF JwksInv
<1>1. ASSUME NEW k \in SigningKeys, VerifyToken(k) PROVE JwksInv'
  <2> DEFINE asked == [key |-> k, now |-> jwksClock, document |-> NoDocument]
  <2>1. /\ fetching' = asked /\ UNCHANGED <<jwksClock, published, turned, keyset, fetchedAt>>
        /\ asked.now = jwksClock /\ asked.document = NoDocument
    BY <1>1 DEF VerifyToken
  <2> HIDE DEF asked
  <2> QED
    BY <2>1 DEF ReadAt
<1>2. CASE ProviderAnswers
  <2> DEFINE read == [fetching EXCEPT !.document = published]
  <2>1. /\ fetching # NoToken /\ fetching.document = NoDocument /\ fetching' = read
        /\ UNCHANGED <<jwksClock, published, turned, keyset, fetchedAt>>
    BY <1>2 DEF ProviderAnswers
  <2>2. read.now = fetching.now
    OBVIOUS
  <2>3. read.document \in {published, fetching.document}
    OBVIOUS
  <2> HIDE DEF read
  <2>4. fetching.now <= jwksClock
    BY <2>1 DEF ReadAt
  <2> QED
    BY <2>1, <2>2, <2>3, <2>4 DEF ReadAt
<1>3. CASE FetchReturns \/ FetchFails
  BY <1>3 DEF FetchReturns, FetchFails, ReadAt
<1>4. ASSUME NEW ks \in SUBSET SigningKeys, PublishKeys(ks) PROVE JwksInv'
  <2>1. /\ published' = ks /\ UNCHANGED <<jwksClock, keyset, fetchedAt, fetching>>
        /\ turned' = [k \in SigningKeys |->
             IF (k \in ks) = (k \in published) THEN turned[k] ELSE jwksClock]
    BY <1>4 DEF PublishKeys
  <2>2. \A k \in SigningKeys :
          /\ (k \in ks) = (k \in published) => turned'[k] = turned[k]
          /\ (k \in ks) # (k \in published) => turned'[k] = jwksClock
    BY <2>1
  <2>3. turned' \in [SigningKeys -> Nat]
    BY <2>1
  <2>4. ASSUME NEW document, NEW at, ReadAt(document, at)
        PROVE  /\ at <= jwksClock
               /\ document # NoDocument =>
                    \A k \in SigningKeys : (k \in document) # (k \in ks) => turned'[k] >= at
    BY <2>2, <2>4 DEF ReadAt
  <2>5. ReadAt(keyset, fetchedAt)'
    <3>1. ReadAt(keyset, fetchedAt)
      OBVIOUS
    <3> QED
      BY <2>1, <2>4, <3>1 DEF ReadAt
  <2>6. ASSUME fetching # NoToken PROVE ReadAt(fetching.document, fetching.now)'
    <3>1. ReadAt(fetching.document, fetching.now)
      BY <2>6
    <3> QED
      BY <2>1, <2>4, <3>1 DEF ReadAt
  <2> QED
    BY <2>1, <2>3, <2>5, <2>6
<1>5. CASE JwksTick
  <2>1. /\ jwksClock' = jwksClock + 1
        /\ UNCHANGED <<published, turned, keyset, fetchedAt, fetching>>
    BY <1>5 DEF JwksTick
  <2> QED
    BY <2>1 DEF ReadAt
<1>6. CASE UNCHANGED jwksVars
  BY <1>6 DEF jwksVars, ReadAt
<1> QED
  BY <1>1, <1>2, <1>3, <1>4, <1>5, <1>6 DEF NextJwks

JwksSpec == InitJwks /\ [][NextJwks]_jwksVars

\* However fetches, failures and rotations interleave: a withdrawn key verifies
\* no token once the TTL is over, and a new one is refused unasked only within
\* the floor between refreshes.
THEOREM KeysFollowTheProvider == JwksSpec => [](WithdrawnKeysFade /\ RotationsAreSeen)
<1>1. JwksInv => WithdrawnKeysFade /\ RotationsAreSeen
  <2> SUFFICES ASSUME JwksInv PROVE WithdrawnKeysFade /\ RotationsAreSeen
    OBVIOUS
  <2>1. \A k \in SigningKeys : turned[k] \in Nat
    BY DEF JwksInv
  <2>2. JwksTtl \in Nat /\ MinRefresh \in Nat
    BY JwksAssumption
  <2> QED
    BY <2>1, <2>2
    DEF JwksInv, ReadAt, WithdrawnKeysFade, RotationsAreSeen, Trusted, Floored, KeysetFresh
<1> QED
  BY <1>1, JwksInit, JwksNext, PTL DEF JwksSpec

-----------------------------------------------------------------------------
(* SsoSession: sessions end                                                  *)

\* A cookie is of a login of its person, and good no longer than its cap, nor
\* than the idle TTL after its person was last here.
CookieHolds(cookie, logins, lastSeen) ==
  /\ cookie.sub \in Persons /\ cookie.iat \in Nat /\ cookie.exp \in Int
  /\ cookie.exp <= cookie.iat + (IF Sliding THEN MaxLifetime ELSE SessionTtl)
  /\ \E l \in logins : l.who = cookie.sub /\ 2 * cookie.iat <= l.at
  /\ 2 * cookie.exp <= lastSeen[cookie.sub] + 2 * SessionTtl

SsoInv ==
  /\ halfSecond \in Nat
  /\ seen \in [Persons -> Nat] /\ \A p \in Persons : seen[p] <= halfSecond
  /\ \A l \in signedIn : l.at \in Nat
  /\ \A c \in codes : c.who \in Persons
  /\ \A cookie \in Cookies : CookieHolds(cookie, signedIn, seen)

LEMMA HalfSeconds == \A t \in Int : Seconds(t) \in Int /\ 2 * Seconds(t) <= t
BY DEF Seconds

LEMMA SecondsPass == \A t \in Nat : Seconds(t) \in Nat
BY DEF Seconds

LEMMA SsoInit == InitSso => SsoInv
BY DEF InitSso, SsoInv, Cookies

\* What a step has to show of the cookies it makes.
LEMMA CookiesKept ==
  ASSUME SsoInv, NEW made, \A cookie \in Cookies' : cookie \in Cookies \/ cookie = made,
         halfSecond' \in Nat, seen' \in [Persons -> Nat], signedIn \subseteq signedIn',
         \A p \in Persons : seen[p] <= seen'[p] /\ seen'[p] <= halfSecond',
         \A l \in signedIn' : l.at \in Nat, \A c \in codes' : c.who \in Persons,
         made \in Cookies' \ Cookies => CookieHolds(made, signedIn', seen')
  PROVE  SsoInv'
<1>1. ASSUME NEW cookie \in Cookies PROVE CookieHolds(cookie, signedIn', seen')
  <2>1. CookieHolds(cookie, signedIn, seen) /\ seen \in [Persons -> Nat]
    BY DEF SsoInv
  <2>2. /\ seen[cookie.sub] <= seen'[cookie.sub] /\ seen[cookie.sub] \in Nat
        /\ seen'[cookie.sub] \in Nat
    BY <2>1 DEF CookieHolds
  <2>3. SessionTtl \in Nat
    BY SessionAssumption
  <2>4. \E l \in signedIn' : l.who = cookie.sub /\ 2 * cookie.iat <= l.at
    BY <2>1 DEF CookieHolds
  <2>5. 2 * cookie.exp <= seen'[cookie.sub] + 2 * SessionTtl
    BY <2>1, <2>2, <2>3 DEF CookieHolds
  <2> QED
    BY <2>1, <2>4, <2>5 DEF CookieHolds
<1>2. \A cookie \in Cookies' : CookieHolds(cookie, signedIn', seen')
  BY <1>1
<1> QED
  BY <1>2 DEF SsoInv

LEMMA SignIns == ASSUME SsoInv, NEW c \in codes, Callback(c) PROVE SsoInv'
<1> DEFINE made == [sub |-> c.who, iat |-> Seconds(halfSecond), exp |-> Expiry(SessionTtl)]
           reply == [login |-> "clear", session |-> "set", value |-> made]
           entry == [who |-> c.who, at |-> halfSecond]
<1>1. /\ codes' = codes \ {c} /\ answers' = answers \cup {reply}
      /\ signedIn' = signedIn \cup {entry} /\ seen' = [seen EXCEPT ![c.who] = halfSecond]
      /\ UNCHANGED <<halfSecond, session>>
  BY DEF Callback, Answer
<1>2. /\ c.who \in Persons /\ halfSecond \in Nat /\ seen \in [Persons -> Nat]
      /\ \A p \in Persons : seen[p] <= halfSecond
      /\ \A l \in signedIn : l.at \in Nat
      /\ \A d \in codes : d.who \in Persons
  BY DEF SsoInv
<1>3. reply.value = made /\ entry.who = c.who /\ entry.at = halfSecond
  OBVIOUS
<1>4. /\ made.sub = c.who /\ made.iat = Seconds(halfSecond)
      /\ made.exp = Seconds(halfSecond) + SessionTtl
  BY DEF Expiry
<1> HIDE DEF made, reply, entry
<1>5. \A cookie \in Cookies' : cookie \in Cookies \/ cookie = made
  BY <1>1, <1>3 DEF Cookies
<1>6. /\ seen' \in [Persons -> Nat] /\ seen'[c.who] = halfSecond
      /\ \A p \in Persons : seen[p] <= seen'[p] /\ seen'[p] <= halfSecond
  <2>1. \A p \in Persons : seen'[p] = IF p = c.who THEN halfSecond ELSE seen[p]
    BY <1>1, <1>2
  <2>2. seen' \in [Persons -> Nat]
    BY <1>1, <1>2
  <2> QED
    BY <1>2, <2>1, <2>2
<1>7. /\ Seconds(halfSecond) \in Nat /\ 2 * Seconds(halfSecond) <= halfSecond
      /\ SessionTtl \in Nat /\ MaxLifetime \in Nat /\ SessionTtl <= MaxLifetime
  BY <1>2, HalfSeconds, SecondsPass, SessionAssumption
<1>8. CookieHolds(made, signedIn', seen')
  <2>1. made.exp <= made.iat + (IF Sliding THEN MaxLifetime ELSE SessionTtl)
    BY <1>4, <1>7
  <2>2. \E l \in signedIn' : l.who = made.sub /\ 2 * made.iat <= l.at
    BY <1>1, <1>3, <1>4, <1>7
  <2>3. 2 * made.exp <= seen'[made.sub] + 2 * SessionTtl
    BY <1>2, <1>4, <1>6, <1>7
  <2> QED
    BY <1>2, <1>4, <1>7, <2>1, <2>2, <2>3 DEF CookieHolds
<1>9. \A l \in signedIn' : l.at \in Nat
  BY <1>1, <1>2, <1>3
<1> QED
  BY <1>1, <1>2, <1>5, <1>6, <1>8, <1>9, CookiesKept

\* A renewal keeps the time of the login, and what is left to the cap is
\* rounded down.
LEMMA SessionsSlide == ASSUME SsoInv, Read PROVE SsoInv'
<1> DEFINE made == RenewedCookie(session)
           reply == [login |-> "keep", session |-> "set", value |-> made]
<1>1. /\ session # NoCookie /\ seen' = [seen EXCEPT ![session.sub] = halfSecond]
      /\ UNCHANGED <<halfSecond, session, codes, signedIn>>
      /\ \/ Renews(session) /\ answers' = answers \cup {reply}
         \/ answers' = answers
  BY DEF Read, Answer, Good
<1>2. /\ halfSecond \in Nat /\ seen \in [Persons -> Nat]
      /\ \A p \in Persons : seen[p] <= halfSecond
      /\ \A l \in signedIn : l.at \in Nat
      /\ \A d \in codes : d.who \in Persons
      /\ CookieHolds(session, signedIn, seen)
  BY <1>1 DEF SsoInv, Cookies
<1>3. /\ reply.value = made /\ made.sub = session.sub /\ made.iat = session.iat
      /\ made.exp = Seconds(halfSecond) + RenewedTtl(session)
  BY DEF RenewedCookie, Expiry
<1> HIDE DEF made, reply
<1>4. \A cookie \in Cookies' : cookie \in Cookies \/ cookie = made
  BY <1>1, <1>3 DEF Cookies
<1>5. session.sub \in Persons /\ session.iat \in Nat
  BY <1>2 DEF CookieHolds
<1>6. /\ seen' \in [Persons -> Nat] /\ seen'[session.sub] = halfSecond
      /\ \A p \in Persons : seen[p] <= seen'[p] /\ seen'[p] <= halfSecond
  <2>1. \A p \in Persons : seen'[p] = IF p = session.sub THEN halfSecond ELSE seen[p]
    BY <1>1, <1>2
  <2>2. seen' \in [Persons -> Nat]
    BY <1>1, <1>2
  <2> QED
    BY <1>2, <1>5, <2>1, <2>2
<1>7. ASSUME Renews(session) PROVE CookieHolds(made, signedIn', seen')
  <2> DEFINE now == Seconds(halfSecond)
             left == LeftToCap(session)
             ttl == RenewedTtl(session)
             cap == session.iat + MaxLifetime
  <2>1. /\ SessionTtl \in Nat /\ MaxLifetime \in Nat /\ Sliding
    BY <1>7, SessionAssumption DEF Renews
  <2>2. cap \in Int /\ left = 2 * cap - halfSecond /\ left \in Int
    BY <1>2, <1>5, <2>1 DEF LeftToCap
  <2>3. ttl = IF SessionTtl < Seconds(left) THEN SessionTtl ELSE Seconds(left)
    BY DEF RenewedTtl, Least
  <2> HIDE DEF ttl, left, now, cap
  <2>4. /\ now \in Int /\ 2 * now <= halfSecond
        /\ Seconds(left) \in Int /\ 2 * Seconds(left) <= left
    BY <1>2, <2>2, HalfSeconds DEF now
  <2>5. ttl \in Int /\ ttl <= SessionTtl /\ ttl <= Seconds(left)
    BY <2>1, <2>3, <2>4
  <2>6. made.exp = now + ttl
    BY <1>3 DEF now, ttl
  <2>7. made.exp \in Int /\ made.exp <= cap
    BY <1>2, <2>2, <2>4, <2>5, <2>6
  <2>8. 2 * made.exp <= halfSecond + 2 * SessionTtl
    BY <1>2, <2>1, <2>4, <2>5, <2>6
  <2>9. \E l \in signedIn' : l.who = made.sub /\ 2 * made.iat <= l.at
    BY <1>1, <1>2, <1>3 DEF CookieHolds
  <2> QED
    BY <1>3, <1>5, <1>6, <2>1, <2>7, <2>8, <2>9 DEF CookieHolds, cap
<1>8. made \in Cookies' \ Cookies => CookieHolds(made, signedIn', seen')
  BY <1>1, <1>7 DEF Cookies
<1>9. halfSecond' \in Nat /\ signedIn \subseteq signedIn'
  BY <1>1, <1>2
<1> QED
  BY <1>1, <1>2, <1>4, <1>6, <1>8, <1>9, CookiesKept

LEMMA SsoNext == SsoInv /\ [NextSso]_ssoVars => SsoInv'
<1> SUFFICES ASSUME SsoInv, [NextSso]_ssoVars PROVE SsoInv'
  OBVIOUS
<1>0. /\ halfSecond \in Nat /\ seen \in [Persons -> Nat]
      /\ \A p \in Persons : seen[p] <= halfSecond
      /\ \A l \in signedIn : l.at \in Nat
      /\ \A d \in codes : d.who \in Persons
  BY DEF SsoInv
<1>r. \A p \in Persons : seen[p] <= seen[p]
  BY <1>0
\* A step that makes no cookie and sees nobody.
<1>q. ASSUME Cookies' \subseteq Cookies, halfSecond' \in Nat, halfSecond <= halfSecond',
             UNCHANGED <<seen, signedIn>>, \A d \in codes' : d.who \in Persons
      PROVE  SsoInv'
  <2>1. \A p \in Persons : seen[p] \in Nat /\ seen'[p] <= halfSecond'
    BY <1>0, <1>q
  <2> QED
    BY <1>0, <1>q, <1>r, <2>1, CookiesKept
<1>1. CASE BeginLogin
  <2>1. UNCHANGED <<halfSecond, session, codes, answers, signedIn, seen>>
    BY <1>1 DEF BeginLogin
  <2> QED
    BY <1>0, <1>q, <2>1 DEF Cookies
<1>2. ASSUME NEW s \in 1..MaxLogins, NEW who \in Persons, ProviderReturns(s, who)
      PROVE  SsoInv'
  <2> DEFINE sent == [state |-> s, who |-> who]
  <2>1. /\ codes' = codes \cup {sent} /\ sent.who = who
        /\ UNCHANGED <<halfSecond, session, answers, signedIn, seen>>
    BY <1>2 DEF ProviderReturns
  <2> HIDE DEF sent
  <2>2. \A d \in codes' : d.who \in Persons
    BY <1>0, <2>1
  <2> QED
    BY <1>0, <1>q, <2>1, <2>2 DEF Cookies
<1>3. CASE ProviderDeclines \/ Logout
  <2>1. /\ UNCHANGED <<halfSecond, session, codes, signedIn, seen>>
        /\ \A a \in answers' \ answers : a.value = NoCookie
    BY <1>3 DEF ProviderDeclines, Logout, Answer
  <2> QED
    BY <1>0, <1>q, <2>1 DEF Cookies
<1>4. ASSUME NEW a \in answers, BrowserReceives(a) PROVE SsoInv'
  <2>1. /\ UNCHANGED <<halfSecond, codes, signedIn, seen>> /\ answers' = answers \ {a}
        /\ session' \in {session, a.value}
    BY <1>4 DEF BrowserReceives
  <2> QED
    BY <1>0, <1>q, <2>1 DEF Cookies
<1>5. CASE HalfSecondPasses
  <2>1. /\ halfSecond' = halfSecond + 1
        /\ UNCHANGED <<session, codes, answers, signedIn, seen>>
    BY <1>5 DEF HalfSecondPasses
  <2> QED
    BY <1>0, <1>q, <2>1 DEF Cookies
<1>6. CASE UNCHANGED ssoVars
  BY <1>6 DEF ssoVars, SsoInv, Cookies
<1> QED
  BY <1>1, <1>2, <1>3, <1>4, <1>5, <1>6, SignIns, SessionsSlide DEF NextSso

SsoSpec == InitSso /\ [][NextSso]_ssoVars

\* However often a cookie slides and in whatever order answers come back: a
\* session ends within the cap of one of its person's logins, and within the
\* idle TTL after its person was last here.
THEOREM SessionsEnd == SsoSpec => [](SessionsAreCapped /\ IdleSessionsDie)
<1>1. SsoInv => SessionsAreCapped /\ IdleSessionsDie
  <2> SUFFICES ASSUME SsoInv, NEW cookie \in Cookies
               PROVE  /\ \E l \in signedIn :
                           /\ l.who = cookie.sub
                           /\ 2 * cookie.exp <=
                                l.at + 2 * (IF Sliding THEN MaxLifetime ELSE SessionTtl)
                      /\ 2 * cookie.exp <= seen[cookie.sub] + 2 * SessionTtl
    BY DEF SessionsAreCapped, IdleSessionsDie
  <2> DEFINE cap == IF Sliding THEN MaxLifetime ELSE SessionTtl
  <2>1. cap \in Nat
    BY SessionAssumption
  <2>2. CookieHolds(cookie, signedIn, seen) /\ \A l \in signedIn : l.at \in Nat
    BY DEF SsoInv
  <2>3. PICK l \in signedIn : l.who = cookie.sub /\ 2 * cookie.iat <= l.at
    BY <2>2 DEF CookieHolds
  <2>4. cookie.exp <= cookie.iat + cap /\ cookie.exp \in Int /\ cookie.iat \in Nat
    BY <2>2 DEF CookieHolds
  <2> HIDE DEF cap
  <2>5. 2 * cookie.exp <= l.at + 2 * cap
    BY <2>1, <2>2, <2>3, <2>4
  <2> QED
    BY <2>2, <2>3, <2>5 DEF CookieHolds, cap
<1> QED
  BY <1>1, SsoInit, SsoNext, PTL DEF SsoSpec

-----------------------------------------------------------------------------
(* ScimDirectory: retractions narrow, deactivations stand                    *)

\* A row of a user's or of a group's table, or none.
RowOf(id, row) ==
  /\ id \in UserIds => row \in UserRows \cup {NoResource}
  /\ id \in GroupIds => row \in GroupRows \cup {NoResource}

\* A request under way: the row it creates is not there yet, and an exact one
\* cuts every membership its group has.
TransactionHolds(t, table, edges, ids) ==
  /\ DOMAIN t = {"id", "was", "row", "cut", "put", "exact"}
  /\ t.id \in Resources /\ t.id \in ids
  /\ RowOf(t.id, t.was) /\ RowOf(t.id, t.row)
  /\ t.was = NoResource => table[t.id] = NoResource
  /\ t.exact \in BOOLEAN
  /\ t.exact => /\ \A e \in edges : e[1] = t.id => e \in t.cut
                /\ \A e \in t.put : e[1] = t.id

\* No other request is about a row that is being created.
Apart(all) ==
  \A p, q \in Provisioners :
    (p # q /\ all[p] # NoRequest /\ all[q] # NoRequest /\ all[p].was = NoResource)
      => all[q].id # all[p].id

TableHolds(table, edges, ids) ==
  /\ table \in [Resources -> UserRows \cup GroupRows \cup {NoResource}]
  /\ \A r \in Resources : RowOf(r, table[r]) /\ (table[r] # NoResource => r \in ids)
  /\ edges \subseteq Edges
  /\ UniqueNames(table)
  /\ \A e \in edges : table[e[1]] # NoResource /\ table[e[2]] # NoResource

DirectoryInv ==
  /\ TableHolds(directory, members, drawn)
  /\ request = [p \in Provisioners |-> request[p]]
  /\ \A p \in Provisioners :
       request[p] # NoRequest => TransactionHolds(request[p], directory, members, drawn)
  /\ Apart(request)

LEMMA DirectoryInit == InitDirectory => DirectoryInv
BY DEF InitDirectory, DirectoryInv, TableHolds, RowOf, UniqueNames, Apart, Resources

LEMMA ResourceKinds ==
  \A id \in Resources : \/ id \in UserIds /\ id \notin GroupIds
                        \/ id \in GroupIds /\ id \notin UserIds
BY DirectoryAssumption DEF Resources

\* An update keeps a row a row, and takes each column from either.
LEMMA MergedUsers ==
  ASSUME NEW now \in UserRows, NEW was \in UserRows, NEW row \in UserRows
  PROVE  /\ Merged(now, was, row) \in UserRows
         /\ Merged(now, was, row).name = IF row.name = was.name THEN now.name ELSE row.name
         /\ Merged(now, was, row).active =
              IF row.active = was.active THEN now.active ELSE row.active
BY DEF Merged, UserRows

LEMMA MergedGroups ==
  ASSUME NEW now \in GroupRows, NEW was \in GroupRows, NEW row \in GroupRows
  PROVE  /\ Merged(now, was, row) \in GroupRows
         /\ Merged(now, was, row).name = IF row.name = was.name THEN now.name ELSE row.name
BY DEF Merged, GroupRows

\* What a request has to show to open: a new id or an existing row.
LEMMA RequestOpens ==
  ASSUME DirectoryInv, NEW p \in Provisioners, NEW id \in Resources, NEW row, NEW cut, NEW put,
         NEW exact \in BOOLEAN, Open(p, id, row, cut, put, exact), RowOf(id, row),
         \/ id \notin drawn /\ drawn' = drawn \cup {id}
         \/ directory[id] # NoResource /\ drawn' = drawn,
         exact => /\ \A e \in members : e[1] = id => e \in cut
                  /\ \A e \in put : e[1] = id
  PROVE  DirectoryInv'
<1> DEFINE t == [id |-> id, was |-> directory[id], row |-> row,
                 cut |-> cut, put |-> put, exact |-> exact]
<1>1. /\ request' = [request EXCEPT ![p] = t] /\ UNCHANGED <<directory, members>>
      /\ request[p] = NoRequest
  BY DEF Open
<1>2. /\ DOMAIN t = {"id", "was", "row", "cut", "put", "exact"}
      /\ t.id = id /\ t.was = directory[id] /\ t.row = row /\ t.cut = cut /\ t.put = put
      /\ t.exact = exact
  OBVIOUS
<1> HIDE DEF t
<1>3. TableHolds(directory, members, drawn)
  BY DEF DirectoryInv
<1>4. TableHolds(directory, members, drawn') /\ RowOf(id, directory[id]) /\ id \in drawn'
  BY <1>3 DEF TableHolds
<1>5. /\ request = [q \in Provisioners |-> request[q]]
      /\ request' = [q \in Provisioners |-> request'[q]]
      /\ \A q \in Provisioners : request'[q] = IF q = p THEN t ELSE request[q]
  BY <1>1 DEF DirectoryInv
<1>6. TransactionHolds(t, directory, members, drawn')
  BY <1>2, <1>4 DEF TransactionHolds
<1>7. ASSUME NEW q \in Provisioners \ {p}, request[q] # NoRequest
      PROVE  /\ TransactionHolds(request[q], directory, members, drawn')
             /\ directory[id] = NoResource => request[q].id # id
             /\ request[q].was = NoResource => id # request[q].id
  <2>1. TransactionHolds(request[q], directory, members, drawn)
    BY <1>7 DEF DirectoryInv
  <2>2. request[q].id \in drawn
    BY <2>1 DEF TransactionHolds
  <2>3. TransactionHolds(request[q], directory, members, drawn')
    BY <2>1, <2>2 DEF TransactionHolds
  <2> QED
    BY <1>3, <2>1, <2>2, <2>3 DEF TransactionHolds
<1>8. Apart(request')
  <2> SUFFICES ASSUME NEW a \in Provisioners, NEW b \in Provisioners, a # b,
                      request'[a] # NoRequest, request'[b] # NoRequest,
                      request'[a].was = NoResource
               PROVE  request'[b].id # request'[a].id
    BY DEF Apart
  <2>1. Apart(request)
    BY DEF DirectoryInv
  <2> QED
    BY <1>2, <1>5, <1>7, <2>1 DEF Apart
<1>9. \A q \in Provisioners : request'[q] # NoRequest =>
        TransactionHolds(request'[q], directory, members, drawn')
  BY <1>5, <1>6, <1>7
<1> QED
  BY <1>1, <1>4, <1>5, <1>8, <1>9 DEF DirectoryInv

LEMMA RequestsRead ==
  ASSUME DirectoryInv, NEW p \in Provisioners,
         \/ \E n \in UserNames, a \in BOOLEAN : CreateUser(p, n, a)
         \/ \E u \in UserIds, n \in UserNames, a \in BOOLEAN : ReplaceUser(p, u, n, a)
         \/ \E u \in UserIds, row \in UserRows : PatchUser(p, u, row)
         \/ \E u \in UserIds : DeleteUser(p, u)
         \/ \E n \in GroupNames, w \in SUBSET UserIds : CreateGroup(p, n, w)
         \/ \E g \in GroupIds, n \in GroupNames, w \in SUBSET UserIds :
              ReplaceGroup(p, g, n, w)
         \/ \E g \in GroupIds, n \in GroupNames, k \in 0..MaxPatchOps :
              \E ops \in [1..k -> PatchOps] : PatchGroup(p, g, n, ops)
         \/ \E g \in GroupIds : DeleteGroup(p, g)
  PROVE  DirectoryInv'
<1>0. TableHolds(directory, members, drawn)
  BY DEF DirectoryInv
<1>r. /\ \A n \in UserNames, a \in BOOLEAN : [name |-> n, active |-> a] \in UserRows
      /\ \A n \in GroupNames : [name |-> n] \in GroupRows
  BY DEF UserRows, GroupRows
<1>u. \A u \in UserIds, row \in UserRows \cup {NoResource} : u \in Resources /\ RowOf(u, row)
  BY ResourceKinds DEF RowOf, Resources
<1>g. \A g \in GroupIds, row \in GroupRows \cup {NoResource} : g \in Resources /\ RowOf(g, row)
  BY ResourceKinds DEF RowOf, Resources
<1>1. ASSUME NEW n \in UserNames, NEW a \in BOOLEAN, CreateUser(p, n, a) PROVE DirectoryInv'
  <2> DEFINE id == Drawn(UserIds)
             row == [name |-> n, active |-> a]
  <2>1. /\ Open(p, id, row, {}, {}, FALSE) /\ drawn' = drawn \cup {id}
        /\ id \in UserIds \ drawn /\ row \in UserRows
    BY <1>1, <1>r DEF CreateUser, Drawn
  <2> HIDE DEF id, row
  <2>2. id \in Resources /\ RowOf(id, row)
    BY <1>u, <2>1
  <2> QED
    BY <2>1, <2>2, RequestOpens
<1>2. ASSUME NEW u \in UserIds, NEW row \in UserRows, u \in Users,
             Open(p, u, row, {}, {}, FALSE), drawn' = drawn
      PROVE  DirectoryInv'
  <2>1. directory[u] # NoResource
    BY <1>2 DEF Users
  <2> QED
    BY <1>2, <1>u, <2>1, RequestOpens
<1>3. ASSUME NEW u \in UserIds, NEW n \in UserNames, NEW a \in BOOLEAN,
             ReplaceUser(p, u, n, a)
      PROVE  DirectoryInv'
  BY <1>2, <1>3, <1>r DEF ReplaceUser
<1>4. ASSUME NEW u \in UserIds, NEW row \in UserRows, PatchUser(p, u, row)
      PROVE  DirectoryInv'
  BY <1>2, <1>4 DEF PatchUser
<1>5. ASSUME NEW u \in UserIds, DeleteUser(p, u) PROVE DirectoryInv'
  <2> DEFINE cut == {e \in members : e[2] = u}
  <2>1. /\ Open(p, u, NoResource, cut, {}, FALSE) /\ drawn' = drawn
        /\ directory[u] # NoResource
    BY <1>5 DEF DeleteUser, Users
  <2> HIDE DEF cut
  <2> QED
    BY <1>u, <2>1, RequestOpens
<1>6. ASSUME NEW n \in GroupNames, NEW w \in SUBSET UserIds, CreateGroup(p, n, w)
      PROVE  DirectoryInv'
  <2> DEFINE id == Drawn(GroupIds)
             row == [name |-> n]
             put == {id} \X w
  <2>1. /\ Open(p, id, row, {}, put, TRUE) /\ drawn' = drawn \cup {id}
        /\ id \in GroupIds \ drawn /\ row \in GroupRows
    BY <1>6, <1>r DEF CreateGroup, Drawn
  <2>2. \A e \in put : e[1] = id
    OBVIOUS
  <2> HIDE DEF id, row, put
  <2>3. id \in Resources /\ RowOf(id, row)
    BY <1>g, <2>1
  <2>4. \A e \in members : e[1] # id
    BY <1>0, <2>1, <2>3 DEF TableHolds
  <2> QED
    BY <2>1, <2>2, <2>3, <2>4, RequestOpens
<1>7. ASSUME NEW g \in GroupIds, NEW n \in GroupNames, NEW w \in SUBSET UserIds,
             ReplaceGroup(p, g, n, w)
      PROVE  DirectoryInv'
  <2> DEFINE row == [name |-> n]
             put == {g} \X w
  <2>1. /\ Open(p, g, row, Of(g), put, TRUE) /\ drawn' = drawn
        /\ directory[g] # NoResource /\ row \in GroupRows
    BY <1>7, <1>r DEF ReplaceGroup, Groups
  <2>2. \A e \in put : e[1] = g
    OBVIOUS
  <2> HIDE DEF row, put
  <2>3. \A e \in members : e[1] = g => e \in Of(g)
    BY DEF Of
  <2> QED
    BY <1>g, <2>1, <2>2, <2>3, RequestOpens
<1>8. ASSUME NEW g \in GroupIds, NEW n \in GroupNames, NEW ops, PatchGroup(p, g, n, ops)
      PROVE  DirectoryInv'
  <2> DEFINE draft == FoldLeft(LAMBDA d, op : Applied(g, d, op),
                               [cut |-> {}, put |-> {}], ops)
             row == [name |-> n]
  <2>1. /\ Open(p, g, row, draft.cut, draft.put, FALSE) /\ drawn' = drawn
        /\ directory[g] # NoResource /\ row \in GroupRows
    BY <1>8, <1>r DEF PatchGroup, Groups
  <2> HIDE DEF draft, row
  <2> QED
    BY <1>g, <2>1, RequestOpens
<1>9. ASSUME NEW g \in GroupIds, DeleteGroup(p, g) PROVE DirectoryInv'
  <2>1. /\ Open(p, g, NoResource, Of(g), {}, FALSE) /\ drawn' = drawn
        /\ directory[g] # NoResource
    BY <1>9 DEF DeleteGroup, Groups
  <2> QED
    BY <1>g, <2>1, RequestOpens
<1> QED
  BY <1>1, <1>3, <1>4, <1>5, <1>6, <1>7, <1>8, <1>9

\* What a commit leaves: the row of its resource, merged with what came since,
\* and the memberships the keys allow.
LEMMA CommitWrites ==
  ASSUME DirectoryInv, NEW p \in Provisioners, CommitDirectory(p)
  PROVE  LET t == request[p]
         IN /\ TransactionHolds(t, directory, members, drawn)
            /\ directory' = [directory EXCEPT ![t.id] = Written(t)]
            /\ RowOf(t.id, Written(t))
            /\ t.row = NoResource => Written(t) = NoResource
            /\ t.row # NoResource => Written(t) # NoResource
            /\ (t.was # NoResource /\ t.row # NoResource) =>
                 /\ directory[t.id] # NoResource
                 /\ Written(t) = Merged(directory[t.id], t.was, t.row)
            /\ \A e \in members' :
                 /\ (e \in members /\ e \notin t.cut) \/ e \in t.put
                 /\ e \in Edges
                 /\ directory'[e[1]] # NoResource /\ directory'[e[2]] # NoResource
            /\ t.put \subseteq members'
<1> DEFINE t == request[p]
<1>1. /\ request[p] # NoRequest /\ Accepted(t) /\ directory' = RowsAfter(t)
      /\ members' = EdgesAfter(t)
  BY DEF CommitDirectory
<1>2. TransactionHolds(t, directory, members, drawn)
  BY <1>1 DEF DirectoryInv
<1>3. RowOf(t.id, directory[t.id])
  BY <1>2 DEF DirectoryInv, TableHolds, TransactionHolds
<1>4. directory' = [directory EXCEPT ![t.id] = Written(t)]
  BY <1>1 DEF RowsAfter
<1>5. t.row # NoResource => Written(t) # NoResource
  BY <1>1 DEF Accepted
<1>6. t.row = NoResource => Written(t) = NoResource
  BY DEF Written
<1>7. (t.was # NoResource /\ t.row # NoResource) =>
        /\ directory[t.id] # NoResource
        /\ Written(t) = Merged(directory[t.id], t.was, t.row)
  BY <1>5 DEF Written
<1>8. RowOf(t.id, Written(t))
  <2>1. CASE t.was = NoResource \/ t.row = NoResource
    BY <1>2, <2>1 DEF Written, TransactionHolds
  <2>2. CASE t.was # NoResource /\ t.row # NoResource
    <3>1. /\ RowOf(t.id, t.was) /\ RowOf(t.id, t.row) /\ t.id \in Resources
      BY <1>2 DEF TransactionHolds
    <3>2. CASE t.id \in UserIds /\ t.id \notin GroupIds
      <4>1. directory[t.id] \in UserRows /\ t.was \in UserRows /\ t.row \in UserRows
        BY <1>3, <1>7, <2>2, <3>1, <3>2 DEF RowOf
      <4>2. Written(t) \in UserRows
        BY <1>7, <2>2, <4>1, MergedUsers
      <4> QED
        BY <3>2, <4>2 DEF RowOf
    <3>3. CASE t.id \in GroupIds /\ t.id \notin UserIds
      <4>1. directory[t.id] \in GroupRows /\ t.was \in GroupRows /\ t.row \in GroupRows
        BY <1>3, <1>7, <2>2, <3>1, <3>3 DEF RowOf
      <4>2. Written(t) \in GroupRows
        BY <1>7, <2>2, <4>1, MergedGroups
      <4> QED
        BY <3>3, <4>2 DEF RowOf
    <3> QED
      BY <3>1, <3>2, <3>3, ResourceKinds
  <2> QED
    BY <2>1, <2>2
<1>9. \A e \in members' :
        /\ (e \in members /\ e \notin t.cut) \/ e \in t.put
        /\ e \in Edges
        /\ directory'[e[1]] # NoResource /\ directory'[e[2]] # NoResource
  BY <1>1 DEF EdgesAfter, Keyed
<1>10. t.put \subseteq members'
  BY <1>1 DEF EdgesAfter, Accepted
<1> HIDE DEF t
<1> QED
  BY <1>2, <1>4, <1>5, <1>6, <1>7, <1>8, <1>9, <1>10 DEF t

LEMMA RequestCommits ==
  ASSUME DirectoryInv, NEW p \in Provisioners, CommitDirectory(p)
  PROVE  DirectoryInv'
<1> DEFINE t == request[p]
<1>1. /\ TransactionHolds(t, directory, members, drawn)
      /\ directory' = [directory EXCEPT ![t.id] = Written(t)]
      /\ RowOf(t.id, Written(t))
      /\ \A e \in members' :
           /\ e \in Edges
           /\ directory'[e[1]] # NoResource /\ directory'[e[2]] # NoResource
  BY CommitWrites
<1>2. /\ UniqueNames(directory') /\ drawn' = drawn /\ t # NoRequest
      /\ request' = [q \in Provisioners |->
           IF q = p \/ request[q] = NoRequest THEN NoRequest
           ELSE [request[q] EXCEPT !.cut = @ \ t.put, !.exact = FALSE]]
  BY DEF CommitDirectory, Accepted
<1> HIDE DEF t
<1>3. TableHolds(directory, members, drawn) /\ t.id \in Resources /\ t.id \in drawn
  BY <1>1 DEF DirectoryInv, TransactionHolds
<1>4. directory' \in [Resources -> UserRows \cup GroupRows \cup {NoResource}]
  BY <1>1, <1>3 DEF TableHolds, RowOf, Resources
<1>5. \A r \in Resources : RowOf(r, directory'[r]) /\ (directory'[r] # NoResource => r \in drawn)
  BY <1>1, <1>3 DEF TableHolds
<1>6. TableHolds(directory', members', drawn')
  BY <1>1, <1>2, <1>4, <1>5 DEF TableHolds
<1>7. ASSUME NEW q \in Provisioners, request'[q] # NoRequest
      PROVE  /\ q # p /\ request[q] # NoRequest
             /\ request'[q].id = request[q].id /\ request'[q].was = request[q].was
             /\ TransactionHolds(request'[q], directory', members', drawn')
  <2> DEFINE s == request[q]
             kept == [s EXCEPT !.cut = @ \ t.put, !.exact = FALSE]
  <2>1. q # p /\ s # NoRequest /\ request'[q] = kept
    BY <1>2, <1>7
  <2>2. TransactionHolds(s, directory, members, drawn)
    BY <2>1 DEF DirectoryInv
  <2>3. /\ DOMAIN kept = DOMAIN s /\ kept.id = s.id /\ kept.was = s.was /\ kept.row = s.row
        /\ kept.exact = FALSE
    BY <2>2 DEF TransactionHolds
  <2>4. s.was = NoResource => t.id # s.id
    <3>1. Apart(request)
      BY DEF DirectoryInv
    <3> QED
      BY <1>2, <2>1, <3>1 DEF Apart, t
  <2> HIDE DEF s, kept
  <2>5. TransactionHolds(kept, directory', members', drawn')
    BY <1>1, <1>2, <1>3, <2>2, <2>3, <2>4 DEF TransactionHolds, TableHolds
  <2> QED
    BY <2>1, <2>3, <2>5 DEF s
<1>8. Apart(request')
  <2>1. Apart(request)
    BY DEF DirectoryInv
  <2> QED
    BY <1>7, <2>1 DEF Apart
<1>9. request' = [q \in Provisioners |-> request'[q]]
  BY <1>2
<1> QED
  BY <1>6, <1>7, <1>8, <1>9 DEF DirectoryInv

LEMMA DirectoryNext == DirectoryInv /\ [NextDirectory]_directoryVars => DirectoryInv'
<1> SUFFICES ASSUME DirectoryInv, [NextDirectory]_directoryVars PROVE DirectoryInv'
  OBVIOUS
<1>1. ASSUME NEW p \in Provisioners, RollBackDirectory(p) PROVE DirectoryInv'
  <2>1. /\ request' = [request EXCEPT ![p] = NoRequest]
        /\ UNCHANGED <<directory, members, drawn>>
    BY <1>1 DEF RollBackDirectory
  <2>2. /\ \A q \in Provisioners : request'[q] = IF q = p THEN NoRequest ELSE request[q]
        /\ request' = [q \in Provisioners |-> request'[q]]
    BY <2>1 DEF DirectoryInv
  <2>3. Apart(request')
    BY <2>2 DEF DirectoryInv, Apart
  <2> QED
    BY <2>1, <2>2, <2>3 DEF DirectoryInv
<1>2. CASE UNCHANGED directoryVars
  BY <1>2 DEF directoryVars, DirectoryInv
<1> QED
  BY <1>1, <1>2, RequestsRead, RequestCommits DEF NextDirectory

LEMMA ExactPuts == DirectoryInv => PutsAreExact
<1> SUFFICES ASSUME DirectoryInv, NEW p \in Provisioners, CommitDirectory(p), request[p].exact
             PROVE  {e \in members' : e[1] = request[p].id} = request[p].put
  BY DEF PutsAreExact, Commits
<1> DEFINE t == request[p]
<1>1. /\ TransactionHolds(t, directory, members, drawn)
      /\ \A e \in members' : (e \in members /\ e \notin t.cut) \/ e \in t.put
      /\ t.put \subseteq members' /\ t.exact
  BY CommitWrites
<1> HIDE DEF t
<1>2. /\ \A e \in members : e[1] = t.id => e \in t.cut
      /\ \A e \in t.put : e[1] = t.id
  BY <1>1 DEF TransactionHolds
<1>3. {e \in members' : e[1] = t.id} = t.put
  BY <1>1, <1>2
<1> QED
  BY <1>3 DEF t

LEMMA DeactivatedStay == DirectoryInv => DeactivationStands
<1> SUFFICES ASSUME DirectoryInv, NEW p \in Provisioners, NEW u \in UserIds,
                    CommitDirectory(p), u \in Users, ~directory[u].active,
                    directory'[u] # NoResource, directory'[u].active
             PROVE  request[p].id = u /\ ~request[p].was.active
  BY DEF DeactivationStands, Commits
<1> DEFINE t == request[p]
<1>1. /\ TransactionHolds(t, directory, members, drawn)
      /\ directory' = [directory EXCEPT ![t.id] = Written(t)]
      /\ t.row = NoResource => Written(t) = NoResource
      /\ (t.was # NoResource /\ t.row # NoResource) =>
           Written(t) = Merged(directory[t.id], t.was, t.row)
  BY CommitWrites
<1> HIDE DEF t
<1>2. TableHolds(directory, members, drawn)
  BY DEF DirectoryInv
<1>3. directory[u] # NoResource /\ u \in Resources
  BY DEF Users, Resources
<1>4. t.id = u
  BY <1>1, <1>2 DEF TableHolds
<1>5. directory'[u] = Written(t)
  BY <1>1, <1>2, <1>3, <1>4 DEF TableHolds
<1>6. t.was # NoResource /\ t.row # NoResource
  BY <1>1, <1>3, <1>4, <1>5 DEF TransactionHolds
<1>7. directory[u] \in UserRows /\ t.was \in UserRows /\ t.row \in UserRows
  BY <1>1, <1>2, <1>3, <1>4, <1>6 DEF TableHolds, TransactionHolds, RowOf
<1>8. directory'[u] = Merged(directory[u], t.was, t.row)
  BY <1>1, <1>4, <1>5, <1>6
<1>9. ~t.was.active
  <2> DEFINE row == Merged(directory[u], t.was, t.row)
  <2>1. row.active = IF t.row.active = t.was.active THEN directory[u].active ELSE t.row.active
    BY <1>7, MergedUsers
  <2>2. row.active /\ t.row.active \in BOOLEAN /\ t.was.active \in BOOLEAN
    BY <1>7, <1>8 DEF UserRows
  <2> HIDE DEF row
  <2> QED
    BY <2>1, <2>2
<1> QED
  BY <1>4, <1>9 DEF t

\* Who has no user they did not have, and whose groups keep their names.
LEMMA RolesNarrow ==
  ASSUME members' \subseteq members, NEW name,
         Named(UserIds, name)' \subseteq Named(UserIds, name),
         \A e \in members' : directory'[e[1]].name = directory[e[1]].name
  PROVE  DirectoryRoles(name)' \subseteq DirectoryRoles(name)
BY DEF DirectoryRoles

LEMMA AuthorityNarrows ==
  ASSUME members' \subseteq members, NEW name,
         Named(UserIds, name)' \subseteq Named(UserIds, name),
         \A u \in Named(UserIds, name) :
           ~directory[u].active => u \in Named(UserIds, name)' /\ ~directory'[u].active,
         \A e \in members' : directory'[e[1]].name = directory[e[1]].name
  PROVE  Authority(name)' \subseteq Authority(name)
<1>1. DirectoryRoles(name)' \subseteq DirectoryRoles(name)
  BY RolesNarrow
<1>2. CASE \E u \in Named(UserIds, name) : ~directory[u].active
  BY <1>2 DEF Authority
<1>3. CASE \A u \in Named(UserIds, name) : directory[u].active
  BY <1>1, <1>3 DEF Authority
<1> QED
  BY <1>2, <1>3

LEMMA RetractionsOnlyNarrow == DirectoryInv => RetractionsNarrow
<1> SUFFICES ASSUME DirectoryInv, NEW p \in Provisioners, CommitDirectory(p),
                    Retracts(request[p]), NEW name \in UserNames
             PROVE  Authority(name)' \subseteq Authority(name)
  BY DEF RetractionsNarrow, Commits
<1> DEFINE t == request[p]
<1>1. /\ TransactionHolds(t, directory, members, drawn)
      /\ directory' = [directory EXCEPT ![t.id] = Written(t)]
      /\ t.row = NoResource => Written(t) = NoResource
      /\ (t.was # NoResource /\ t.row # NoResource) =>
           /\ directory[t.id] # NoResource
           /\ Written(t) = Merged(directory[t.id], t.was, t.row)
      /\ \A e \in members' :
           /\ (e \in members /\ e \notin t.cut) \/ e \in t.put
           /\ e \in Edges
           /\ directory'[e[1]] # NoResource /\ directory'[e[2]] # NoResource
  BY CommitWrites
<1>2. Retracts(t)
  OBVIOUS
<1> HIDE DEF t
<1>3. TableHolds(directory, members, drawn) /\ t.id \in Resources
      /\ directory \in [Resources -> UserRows \cup GroupRows \cup {NoResource}]
  BY <1>1 DEF DirectoryInv, TableHolds, TransactionHolds
<1>4. \A r \in Resources : directory'[r] = IF r = t.id THEN Written(t) ELSE directory[r]
  BY <1>1, <1>3
<1>5. members' \subseteq members
  BY <1>1, <1>2 DEF Retracts
<1>6. \A e \in members' : e[1] \in GroupIds /\ e[1] \in Resources
  BY <1>1 DEF Edges, Resources
<1>7. CASE t.id \in GroupIds /\ t.row \in {t.was, NoResource}
  <2>1. \A u \in UserIds : directory'[u] = directory[u]
    BY <1>4, <1>7, ResourceKinds DEF Resources
  <2>2. \A e \in members' : directory'[e[1]].name = directory[e[1]].name
    <3>1. CASE t.row = NoResource
      BY <1>1, <1>4, <1>6, <3>1
    <3>2. CASE t.row # NoResource
      <4>1. /\ t.was # NoResource /\ t.row = t.was /\ directory[t.id] # NoResource
            /\ Written(t) = Merged(directory[t.id], t.was, t.row)
        BY <1>1, <1>7, <3>2
      <4>2. directory[t.id] \in GroupRows /\ t.was \in GroupRows /\ t.row \in GroupRows
        BY <1>1, <1>3, <1>7, <4>1 DEF TableHolds, TransactionHolds, RowOf
      <4>3. Written(t).name = directory[t.id].name
        BY <4>1, <4>2, MergedGroups
      <4> QED
        BY <1>4, <1>6, <4>3
    <3> QED
      BY <3>1, <3>2
  <2>3. Named(UserIds, name)' = Named(UserIds, name)
    BY <2>1 DEF Named
  <2>4. \A u \in Named(UserIds, name) : directory'[u] = directory[u]
    BY <2>1 DEF Named
  <2> QED
    BY <1>5, <2>2, <2>3, <2>4, AuthorityNarrows
<1>8. CASE /\ t.id \in UserIds /\ t.was # NoResource /\ directory[t.id] # NoResource
           /\ IF t.row = NoResource THEN directory[t.id].active
              ELSE t.row.name = t.was.name /\ ~t.row.active
  <2>1. \A e \in members' : directory'[e[1]].name = directory[e[1]].name
    BY <1>4, <1>6, <1>8, ResourceKinds
  <2>2. \A u \in UserIds : u \in Resources
    BY DEF Resources
  <2>3. CASE t.row = NoResource
    <3>1. directory[t.id].active /\ directory'[t.id] = NoResource
      BY <1>1, <1>3, <1>4, <1>8, <2>3
    <3>2. \A u \in UserIds \ {t.id} : directory'[u] = directory[u]
      BY <1>4, <2>2
    <3>3. Named(UserIds, name)' \subseteq Named(UserIds, name)
      BY <3>1, <3>2 DEF Named
    <3>4. \A u \in Named(UserIds, name) :
            ~directory[u].active => u \in Named(UserIds, name)' /\ ~directory'[u].active
      BY <3>1, <3>2 DEF Named
    <3> QED
      BY <1>5, <2>1, <3>3, <3>4, AuthorityNarrows
  <2>4. CASE t.row # NoResource
    <3>1. directory[t.id] \in UserRows /\ t.was \in UserRows /\ t.row \in UserRows
      BY <1>1, <1>3, <1>8, <2>4 DEF TableHolds, TransactionHolds, RowOf
    <3>2. /\ directory'[t.id] = Written(t)
          /\ Written(t) = Merged(directory[t.id], t.was, t.row)
          /\ t.row.name = t.was.name /\ ~t.row.active
      BY <1>1, <1>3, <1>4, <1>8, <2>4
    <3>3. /\ directory'[t.id].name = directory[t.id].name
          /\ ~directory[t.id].active => ~directory'[t.id].active
          /\ directory'[t.id] # NoResource
      <4>1. Written(t) # NoResource
        BY <2>4, CommitWrites DEF t
      <4> QED
        BY <3>1, <3>2, <4>1, MergedUsers
    <3>4. \A u \in UserIds :
            /\ directory'[u] # NoResource <=> directory[u] # NoResource
            /\ directory'[u].name = directory[u].name
            /\ ~directory[u].active => ~directory'[u].active
      BY <1>4, <1>8, <2>2, <3>3
    <3>5. Named(UserIds, name)' = Named(UserIds, name)
      BY <3>4 DEF Named
    <3>6. \A u \in Named(UserIds, name) : ~directory[u].active => ~directory'[u].active
      BY <3>4 DEF Named
    <3> QED
      BY <1>5, <2>1, <3>5, <3>6, AuthorityNarrows
  <2> QED
    BY <2>3, <2>4
<1> QED
  BY <1>2, <1>7, <1>8 DEF Retracts

DirectorySpec == InitDirectory /\ [][NextDirectory]_directoryVars

\* However requests of the identity provider interleave, are refused or die:
\* the tables stay whole, an undisturbed PUT leaves what it names, what only
\* takes away gives nobody more, and a deactivation is undone only by a request
\* that read it.
THEOREM ProvisioningKeepsItsWord ==
  DirectorySpec => /\ []DirectoryIntact
                   /\ [][PutsAreExact /\ RetractionsNarrow /\ DeactivationStands]_directoryVars
<1>1. DirectoryInv => DirectoryIntact
  BY DEF DirectoryInv, TableHolds, DirectoryIntact
<1>2. DirectoryInv => PutsAreExact /\ RetractionsNarrow /\ DeactivationStands
  BY ExactPuts, RetractionsOnlyNarrow, DeactivatedStay
<1> QED
  BY <1>1, <1>2, DirectoryInit, DirectoryNext, PTL DEF DirectorySpec

LEMMA DirectoryAlone == ServicesSpec => DirectorySpec
<1>1. [NextServices]_servicesVars => [NextDirectory]_directoryVars
  BY DEF NextServices, servicesVars, OthersStay, Still
<1> QED
  BY <1>1, PTL DEF ServicesSpec, InitServices, DirectorySpec

LEMMA SsoAlone == ServicesSpec => SsoSpec
<1>1. [NextServices]_servicesVars => [NextSso]_ssoVars
  BY DEF NextServices, servicesVars, OthersStay, Still
<1> QED
  BY <1>1, PTL DEF ServicesSpec, InitServices, SsoSpec

LEMMA JwksAlone == ServicesSpec => JwksSpec
<1>1. [NextServices]_servicesVars => [NextJwks]_jwksVars
  BY DEF NextServices, servicesVars, OthersStay, Still
<1> QED
  BY <1>1, PTL DEF ServicesSpec, InitServices, JwksSpec

\* The promises of provisioning, sessions and signing keys, of the run that
\* checks every component.
THEOREM AccessIsKept == ServicesSpec => AccessHolds
<1> DEFINE kept == /\ focus = "directory" => DirectoryIntact
                   /\ focus = "sso" => SessionsAreCapped /\ IdleSessionsDie
                   /\ focus = "jwks" => WithdrawnKeysFade /\ RotationsAreSeen
           safe == DirectoryIntact /\ SessionsAreCapped /\ IdleSessionsDie
                   /\ WithdrawnKeysFade /\ RotationsAreSeen
           step == PutsAreExact /\ RetractionsNarrow /\ DeactivationStands
           narrow == focus = "directory" => step
<1>1. ServicesSpec => []safe /\ [][step]_directoryVars
  BY DirectoryAlone, SsoAlone, JwksAlone, ProvisioningKeepsItsWord, SessionsEnd,
     KeysFollowTheProvider, PTL
<1>2. safe => kept
  OBVIOUS
<1>3. [step]_directoryVars => [narrow]_directoryVars
  OBVIOUS
<1>4. ServicesSpec => []kept /\ [][narrow]_directoryVars
  BY <1>1, <1>2, <1>3, PTL
<1> QED
  BY <1>4 DEF AccessHolds

-----------------------------------------------------------------------------
(* ChangeFreeze: what is configured is what freezes                          *)

FreezeInv ==
  /\ minute \in 0..LastMinute
  /\ freezes \in Seq(WindowsOffered)
  /\ \A i \in DOMAIN freezes : WellFormed(freezes[i])

LEMMA FreezeInit == InitFreeze => FreezeInv
BY FreezeAssumption DEF InitFreeze, FreezeInv

LEMMA FreezeNext == FreezeInv /\ [NextFreeze]_freezeVars => FreezeInv'
<1> SUFFICES ASSUME FreezeInv, [NextFreeze]_freezeVars PROVE FreezeInv'
  OBVIOUS
<1> USE DEF FreezeInv
<1>1. ASSUME NEW w \in WindowsOffered, AddWindow(w) PROVE FreezeInv'
  <2>1. freezes' = Append(freezes, w) /\ minute' = minute /\ WellFormed(w)
    BY <1>1 DEF AddWindow
  <2>2. \A i \in DOMAIN freezes' : (i \in DOMAIN freezes /\ freezes'[i] = freezes[i])
                                   \/ freezes'[i] = w
    BY <2>1
  <2> QED
    BY <2>1, <2>2 DEF WellFormed
<1>2. CASE DropWindow
  <2>1. freezes' = Tail(freezes) /\ minute' = minute /\ freezes # <<>>
    BY <1>2 DEF DropWindow
  <2>2. \A i \in DOMAIN freezes' : i + 1 \in DOMAIN freezes /\ freezes'[i] = freezes[i + 1]
    BY <2>1
  <2> QED
    BY <2>1, <2>2 DEF WellFormed
<1>3. CASE MinutePasses
  BY <1>3, FreezeAssumption DEF MinutePasses, WellFormed
<1>4. CASE UNCHANGED freezeVars
  BY <1>4 DEF freezeVars, WellFormed
<1> QED
  BY <1>1, <1>2, <1>3, <1>4 DEF NextFreeze

\* A quotient and a remainder, and that there is one of each.
LEMMA Quotients ==
  ASSUME NEW x \in Int, NEW n \in Nat \ {0}
  PROVE  /\ x \div n \in Int /\ x % n \in 0..n - 1
         /\ x = n * (x \div n) + (x % n)
  OBVIOUS

LEMMA OneQuotient ==
  ASSUME NEW n \in Nat \ {0}, NEW q \in Int, NEW r \in 0..n - 1
  PROVE  (n * q + r) \div n = q /\ (n * q + r) % n = r
<1> DEFINE x == n * q + r
<1>0. x \in Int
  OBVIOUS
<1>1. /\ x \div n \in Int /\ x % n \in 0..n - 1 /\ x = n * (x \div n) + (x % n)
  BY <1>0, Quotients
<1> DEFINE p == x \div n
           s == x % n
<1>2. n * q + r = n * p + s
  BY <1>1
<1> HIDE DEF p, s, x
<1>3. p \in Int /\ s \in 0..n - 1
  BY <1>1 DEF p, s
<1>4. n * (p - q) = r - s
  BY <1>2, <1>3
<1>5. ~(p - q >= 1)
  <2> SUFFICES ASSUME p - q >= 1 PROVE FALSE
    OBVIOUS
  <2>1. n * (p - q) >= n
    BY <1>3
  <2> QED
    BY <1>3, <1>4, <2>1
<1>6. ~(p - q <= -1)
  <2> SUFFICES ASSUME p - q <= -1 PROVE FALSE
    OBVIOUS
  <2>1. n * (p - q) <= -n
    BY <1>3
  <2> QED
    BY <1>3, <1>4, <2>1
<1>7. p = q
  BY <1>3, <1>5, <1>6
<1>8. s = r
  BY <1>2, <1>3, <1>7
<1> QED
  BY <1>7, <1>8 DEF p, s, x

\* How far a window runs until the local clock reads its end.
UntilEnd(day, start, end) ==
  {j \in 0..day - 1 : \A i \in 1..j : (start + i) % day # end}

\* The clock reads the end for the first time when the duration is over.
LEMMA RunsToItsEnd ==
  ASSUME NEW day \in Nat \ {0}, NEW start \in 0..day - 1, NEW end \in 0..day - 1, start # end
  PROVE  UntilEnd(day, start, end) =
           0..(IF end > start THEN end - start ELSE end - start + day) - 1
<1> DEFINE length == IF end > start THEN end - start ELSE end - start + day
<1>1. length \in 1..day - 1
  OBVIOUS
<1>2. ASSUME NEW i \in 1..day - 1
      PROVE  (start + i) % day = IF start + i < day THEN start + i ELSE start + i - day
  <2>1. CASE start + i < day
    <3>1. (day * 0 + (start + i)) % day = start + i
      BY <2>1, OneQuotient
    <3>2. day * 0 + (start + i) = start + i
      OBVIOUS
    <3> QED
      BY <2>1, <3>1, <3>2
  <2>2. CASE start + i >= day
    <3>1. start + i - day \in 0..day - 1
      BY <2>2
    <3>2. (day * 1 + (start + i - day)) % day = start + i - day
      BY <3>1, OneQuotient
    <3>3. day * 1 + (start + i - day) = start + i
      OBVIOUS
    <3> QED
      BY <2>2, <3>2, <3>3
  <2> QED
    BY <2>1, <2>2
<1>3. (start + length) % day = end
  BY <1>1, <1>2
<1>4. \A i \in 1..length - 1 : (start + i) % day # end
  BY <1>1, <1>2
<1> DEFINE met == {i \in 1..day - 1 : (start + i) % day = end}
<1>5. \A i \in 1..length - 1 : i \notin met
  BY <1>1, <1>4
<1>6. {j \in 0..day - 1 : \A i \in 1..j : (start + i) % day # end}
        = {j \in 0..day - 1 : \A i \in 1..j : i \notin met}
  OBVIOUS
<1>7. length \in met
  BY <1>1, <1>3
<1> HIDE DEF met
<1>8. ASSUME NEW j \in 0..day - 1
      PROVE  (\A i \in 1..j : i \notin met) <=> j \in 0..length - 1
  <2>1. CASE j >= length
    <3>1. length \in 1..j
      BY <1>1, <2>1
    <3> QED
      BY <1>1, <1>7, <2>1, <3>1
  <2>2. CASE j < length
    BY <1>1, <1>5, <2>2
  <2> QED
    BY <1>1, <2>1, <2>2
<1>9. {j \in 0..day - 1 : \A i \in 1..j : i \notin met} = 0..length - 1
  BY <1>1, <1>8
<1> QED
  BY <1>1, <1>6, <1>9 DEF UntilEnd

\* A window that began today or yesterday has not run its length.
Began(day, days, start, length, local) ==
  \E back \in {0, 1} :
    /\ (local \div day - back) % 7 \in days
    /\ local - (local \div day - back) * day - start \in 0..length - 1

\* The minute of the week is one of those of a weekday's window.
Names(day, days, start, length, local) ==
  \E d \in days, k \in 0..length - 1 :
    local % (7 * day) = (d * day + start + k) % (7 * day)

\* The two are one: day and weekday, and minute and minute of the week, agree.
LEMMA WeekdaysRepeat ==
  ASSUME NEW day \in Nat \ {0}, NEW days \in SUBSET (0..6), NEW start \in 0..day - 1,
         NEW length \in 1..day - 1, NEW local \in Int
  PROVE  Began(day, days, start, length, local) <=> Names(day, days, start, length, local)
<1> DEFINE week == 7 * day
<1>0. week \in Nat \ {0}
  OBVIOUS
<1>1. ASSUME NEW back \in {0, 1}, (local \div day - back) % 7 \in days,
             local - (local \div day - back) * day - start \in 0..length - 1
      PROVE  \E d \in days, k \in 0..length - 1 : local % week = (d * day + start + k) % week
  <2> DEFINE n == local \div day - back
             d == n % 7
             q == n \div 7
             k == local - n * day - start
             m == d * day + start + k
  <2>1. n \in Int /\ d \in days /\ k \in 0..length - 1
    BY <1>1, Quotients
  <2>2. q \in Int /\ d \in 0..6 /\ n = 7 * q + d
    BY <2>1, Quotients
  <2>3. k = local - n * day - start
    OBVIOUS
  <2> HIDE DEF n, d, q, k
  <2>4. m \in Int /\ local = week * q + m
    <3>1. n * day = (7 * q + d) * day
      BY <2>2
    <3>2. (7 * q + d) * day = week * q + d * day
      BY <2>2
    <3> QED
      BY <2>1, <2>2, <2>3, <3>1, <3>2
  <2>5. local % week = m % week
    <3> HIDE DEF m, week
    <3> DEFINE p == m \div week
               r == m % week
    <3>1. p \in Int /\ r \in 0..week - 1 /\ m = week * p + r
      BY <1>0, <2>4, Quotients
    <3> HIDE DEF p, r
    <3>2. local = week * (q + p) + r
      BY <1>0, <2>2, <2>4, <3>1
    <3>3. (week * (q + p) + r) % week = r
      BY <1>0, <2>2, <3>1, OneQuotient
    <3> QED
      BY <3>2, <3>3 DEF r
  <2> QED
    BY <2>1, <2>5
<1>2. ASSUME NEW d \in days, NEW k \in 0..length - 1,
             local % week = (d * day + start + k) % week
      PROVE  \E back \in {0, 1} :
               /\ (local \div day - back) % 7 \in days
               /\ local - (local \div day - back) * day - start \in 0..length - 1
  <2> DEFINE m == d * day + start + k
             r == local % week
             p == local \div week
             q == m \div week
             n == 7 * (p - q) + d
  <2>1. d \in 0..6 /\ m \in Int
    OBVIOUS
  <2>2. /\ p \in Int /\ r \in Int /\ local = week * p + r
        /\ q \in Int /\ m = week * q + r
    <3> HIDE DEF m, week
    <3> QED
      BY <1>0, <1>2, <2>1, Quotients DEF m
  <2>3. local = n * day + (start + k)
    <3> HIDE DEF p, q, r
    <3>1. local = week * (p - q) + m
      <4> HIDE DEF m, week
      <4> QED
        BY <1>0, <2>1, <2>2
    <3>2. week * (p - q) = (7 * (p - q)) * day
      BY <2>2
    <3>3. (7 * (p - q) + d) * day = (7 * (p - q)) * day + d * day
      BY <2>1, <2>2
    <3> QED
      BY <2>1, <2>2, <3>1, <3>2, <3>3
  <2>4. n \in Int /\ n % 7 = d
    <3>1. p - q \in Int
      BY <2>2
    <3> HIDE DEF p, q
    <3> QED
      BY <2>1, <3>1, OneQuotient
  <2> HIDE DEF n, m, r, p, q
  <2>5. CASE start + k < day
    <3>1. local \div day = n
      BY <2>3, <2>4, <2>5, OneQuotient
    <3>2. /\ (local \div day - 0) % 7 \in days
          /\ local - (local \div day - 0) * day - start \in 0..length - 1
      BY <2>3, <2>4, <3>1
    <3> QED
      BY <3>2
  <2>6. CASE start + k >= day
    <3>1. start + k - day \in 0..day - 1 /\ local = day * (n + 1) + (start + k - day)
      BY <2>3, <2>4, <2>6
    <3>2. local \div day = n + 1
      BY <2>4, <3>1, OneQuotient
    <3>3. /\ (local \div day - 1) % 7 \in days
          /\ local - (local \div day - 1) * day - start \in 0..length - 1
      BY <2>3, <2>4, <3>2
    <3> QED
      BY <3>3
  <2> QED
    BY <2>5, <2>6
<1> QED
  BY <1>1, <1>2 DEF Began, Names

\* A set of numbers has a first one (the library states it of predicates).
LEMMA NumbersHaveAFirst ==
  ASSUME NEW numbers \in SUBSET Nat, numbers # {}
  PROVE  \E m \in numbers : \A n \in numbers : m <= n
<1>1. IsWellFoundedOn(OpToRel(<, Nat), Nat)
  BY NatLessThanWellFounded
<1>2. PICK m \in numbers : \A n \in numbers : <<n, m>> \notin OpToRel(<, Nat)
  BY <1>1, WFMin
<1>3. ASSUME NEW n \in numbers PROVE m <= n
  <2>1. n \in Nat /\ m \in Nat
    OBVIOUS
  <2>2. ~(n < m)
    BY <1>2, <2>1 DEF OpToRel
  <2> QED
    BY <2>1, <2>2
<1> QED
  BY <1>3

LEMMA WindowsFreezeTheirMinutes ==
  ASSUME FreezeInv, NEW i \in DOMAIN freezes, Recurring(freezes[i])
  PROVE  WindowActive(freezes[i])
           <=> LocalTime(freezes[i].zone) % (7 * DayMinutes) \in FrozenMinutes(freezes[i])
<1> DEFINE w == freezes[i]
           day == DayMinutes
           local == LocalTime(w.zone)
           length == Duration(w)
<1>1. /\ w \in WindowsOffered /\ Recurring(w) /\ w.start # w.end /\ minute \in 0..LastMinute
  BY DEF FreezeInv, WellFormed
<1>2. /\ day \in Nat \ {0} /\ w.days \in SUBSET (0..6) /\ local \in Int
      /\ w.start \in 0..day - 1 /\ w.end \in 0..day - 1
  <2>1. Zones[w.zone] \in [0..LastMinute -> Int] /\ LastMinute \in Nat
    BY <1>1, FreezeAssumption
  <2>2. Zones[w.zone][minute] \in Int
    BY <1>1, <2>1
  <2> QED
    BY <1>1, <2>1, <2>2, FreezeAssumption DEF LocalTime
<1>3. length = IF w.end > w.start THEN w.end - w.start ELSE w.end - w.start + day
  BY DEF Duration
<1>4. WindowActive(w) <=> Began(day, w.days, w.start, length, local)
  BY <1>1 DEF WindowActive, Began
<1>5. FrozenMinutes(w) =
        {(d * day + w.start + k) % (7 * day) : d \in w.days, k \in UntilEnd(day, w.start, w.end)}
  BY DEF FrozenMinutes, UntilEnd
<1> HIDE DEF w, day, local, length
<1>6. length \in 1..day - 1
  BY <1>1, <1>2, <1>3
<1>7. UntilEnd(day, w.start, w.end) = 0..length - 1
  BY <1>1, <1>2, <1>3, RunsToItsEnd
<1>8. WindowActive(w) <=> Names(day, w.days, w.start, length, local)
  BY <1>2, <1>4, <1>6, WeekdaysRepeat
<1>9. WindowActive(w) <=> local % (7 * day) \in FrozenMinutes(w)
  BY <1>5, <1>7, <1>8 DEF Names
<1> QED
  BY <1>9 DEF w, day, local

LEMMA ActiveWindowsFreeze ==
  ASSUME FreezeInv
  PROVE  /\ \A i \in DOMAIN freezes : WindowActive(freezes[i]) => ActiveFreeze(freezes) # NoWindow
         /\ ActiveFreeze(freezes) # NoWindow => WindowActive(ActiveFreeze(freezes))
<1> DEFINE active == {i \in DOMAIN freezes : WindowActive(freezes[i])}
           first == CHOOSE i \in active : \A j \in active : i <= j
<1>1. active \in SUBSET Nat /\ NoWindow \notin WindowsOffered
      /\ \A i \in DOMAIN freezes : freezes[i] \in WindowsOffered
  BY FreezeAssumption DEF FreezeInv
<1>2. ActiveFreeze(freezes) = IF active = {} THEN NoWindow ELSE freezes[first]
  BY DEF ActiveFreeze
<1>3. active # {} => first \in active
  <2> HIDE DEF active
  <2> QED
    BY <1>1, NumbersHaveAFirst
<1> HIDE DEF first
<1>4. active # {} => first \in DOMAIN freezes /\ WindowActive(freezes[first])
  BY <1>3
<1> QED
  BY <1>1, <1>2, <1>4

FreezeSpec == InitFreeze /\ [][NextFreeze]_freezeVars

\* Whatever windows are configured and whatever the zones' clocks do: at every
\* minute a recurring window freezes if and only if it names the minute that
\* the local clock shows, and no window hides another.
THEOREM WindowsFreezeAsWritten == FreezeSpec => []FreezeHolds
<1>1. FreezeInv => FreezeHolds
  BY WindowsFreezeTheirMinutes, ActiveWindowsFreeze DEF FreezeHolds
<1> QED
  BY <1>1, FreezeInit, FreezeNext, PTL DEF FreezeSpec

LEMMA FreezeAlone == ServicesSpec => FreezeSpec
<1>1. [NextServices]_servicesVars => [NextFreeze]_freezeVars
  BY DEF NextServices, servicesVars, OthersStay, Still
<1> QED
  BY <1>1, PTL DEF ServicesSpec, InitServices, FreezeSpec

\* The same, of the run that checks every component.
THEOREM FreezesAreKept == ServicesSpec => []FreezesHold
<1>1. FreezeHolds => FreezesHold
  BY DEF FreezesHold
<1> QED
  BY <1>1, FreezeAlone, WindowsFreezeAsWritten, PTL

-----------------------------------------------------------------------------
(* DeliveryMemory: a run's trail tells its outcome, and since when it waits  *)

MemoryJobs ==
  [repo : {MemoryTickets[t].repo : t \in DOMAIN MemoryTickets}, provider : Providers,
   cost : Costs \cup {NoCost}]

EventNames ==
  {"approval_requested", "run_blocked", "run_completed", "risk_escalated", "ci_failed",
   "pr_opened", "pr_updated", "agent_started", "agent_failed", "remediation_requested",
   "approval_rejected"}

EventReasons ==
  {MemoryTickets[t].lands : t \in DOMAIN MemoryTickets} \cup
  {"none", "policy_denied", "provider dispatch failed", "pr_closed_unmerged",
   "forbidden_paths", "diff", "change_freeze", "remediation_denied", "human_stopped",
   "agent error", "approval_window_expired", "pr_window_expired"}

TrailEvents == [type : EventNames, why : EventReasons, at : Nat]

RememberedRuns ==
  [status : RunStatuses \cup {NoStatus}, ticket : DOMAIN MemoryTickets,
   created : Nat, since : Nat, approved : Nat, calling : {"no", "dispatch", "retry"},
   jobs : Seq(MemoryJobs), trail : Seq(TrailEvents)]

Dated(run, now) ==
  /\ run.created <= now /\ run.since <= now /\ run.approved <= now
  /\ run.status # NoStatus => run.created >= 1
  /\ \A i \in DOMAIN run.trail : run.trail[i].at \in 1..now

\* Only a run whose agent has answered hears of pull requests, or is retried.
Launched(run) ==
  /\ run.status = NoStatus => run.trail = <<>>
  /\ run.status \in {NoStatus, "waiting_approval"} => run.jobs = <<>> /\ run.calling = "no"
  /\ run.calling = "dispatch" =>
       run.jobs = <<>> /\ run.status \in {"approved"} \cup TerminalStatuses
  /\ run.calling = "retry" => run.jobs # <<>>
  /\ run.status \in PrObservableStatuses => run.jobs # <<>>

\* Each status has its marker among the events.
Marked(run) ==
  /\ run.status = "waiting_approval" =>
       LatestAt(run, {"approval_requested"}, run.created) = run.since
  /\ run.status = "needs_clarification" => run.created = run.since
  /\ run.status = "review_required" =>
       LatestAt(run, {"risk_escalated", "agent_failed", "run_blocked"}, run.created) >= run.since
  /\ run.status = "blocked" => LatestAt(run, {"run_blocked"}, run.created) = run.since
  /\ run.status = "execution_failed" => LatestAt(run, {"agent_failed"}, run.created) >= run.since
  /\ run.status = "agent_running" /\ Len(run.jobs) = 1 /\ run.calling = "no" =>
       LatestAt(run, {"agent_started"}, run.created) = run.since
  /\ run.status \in FailureStatuses =>
       LatestAt(run, TerminalEvents, run.created)
         = LatestAt(run, FailureMarkers(run.status), run.created)
  /\ LatestAt(run, {"pr_opened"}, run.created)
       <= LatestAt(run, {"pr_opened", "pr_updated"}, LatestAt(run, {"pr_opened"}, run.created))

\* The row of a run that ended is the one a backfill would derive, unless a
\* job was recorded since; if the row is missing, an older one can only be
\* that of an ending that a refused dispatch wrote over.
RowTells(run, row, missing) ==
  /\ (run.status \in TerminalStatuses /\ ~missing) =>
       /\ row # NoRow
       /\ ApartFromJobs(row) = ApartFromJobs(DeriveOutcome(run))
       /\ row.jobs \in 0..Len(run.jobs)
       /\ row.jobs = Len(run.jobs) => row = DeriveOutcome(run)
  /\ (run.status \notin TerminalStatuses \/ missing) => (row = NoRow \/ Overwritten(run))

\* What the views read of a row.
Legible(row, now) ==
  row # NoRow => row.completed \in 1..now /\ row.created \in Nat /\ row.jobs \in Nat

MemoryInv ==
  /\ today \in 1..LastDay
  /\ book \in [MemoryRuns -> RememberedRuns]
  /\ DOMAIN outcomeRow = MemoryRuns /\ lost \subseteq MemoryRuns
  /\ \A r \in MemoryRuns :
       /\ Dated(book[r], today) /\ Launched(book[r]) /\ Marked(book[r])
       /\ Len(book[r].trail) <= MaxTrail
       /\ Legible(outcomeRow[r], today)
       /\ RowTells(book[r], outcomeRow[r], r \in lost)

-----------------------------------------------------------------------------

LEMMA SomeNumbersHaveAMax ==
  ASSUME NEW n \in Nat, NEW S \in SUBSET (1..n), S # {}
  PROVE  Max(S) \in S /\ \A x \in S : x <= Max(S)
<1> DEFINE above == {k \in Nat : \A x \in S : x <= k}
<1>1. above \in SUBSET Nat /\ n \in above
  OBVIOUS
<1>2. PICK m \in above : \A k \in above : m <= k
  <2> HIDE DEF above
  <2> QED
    BY <1>1, NumbersHaveAFirst
<1>3. m \in S
  <2> SUFFICES ASSUME m \notin S PROVE FALSE
    OBVIOUS
  <2>1. PICK x \in S : TRUE
    OBVIOUS
  <2>2. m \in Nat /\ \A y \in S : y \in Nat /\ y <= m /\ y # m
    BY <1>2
  <2>3. m - 1 \in above
    BY <2>1, <2>2
  <2> QED
    BY <1>2, <2>2, <2>3
<1>4. \E y \in S : \A x \in S : y >= x
  BY <1>2, <1>3
<1>5. Max(S) \in S /\ \A x \in S : Max(S) >= x
  BY <1>4 DEF Max
<1>6. \A x \in S : x \in Nat
  OBVIOUS
<1>7. \A x \in S : x <= Max(S)
  <2> DEFINE top == Max(S)
  <2>1. top \in Nat /\ \A x \in S : top >= x
    BY <1>5, <1>6
  <2> HIDE DEF top
  <2>2. \A x \in S : x <= top
    BY <2>1, <1>6
  <2> QED
    BY <2>2 DEF top
<1> QED
  BY <1>5, <1>7

\* Events that a transaction of today adds, and their types.
AddedToday(es) == es \in Seq(TrailEvents) /\ \A j \in DOMAIN es : es[j].at = today
Kinds(es) == {es[j].type : j \in DOMAIN es}
Adds(es, types) == Kinds(es) \cap types # {}

LEMMA OneIsAdded ==
  ASSUME today \in Nat, NEW type \in EventNames, NEW why \in EventReasons
  PROVE  /\ AddedToday(<<Event(type, why)>>) /\ Kinds(<<Event(type, why)>>) = {type}
         /\ 1 \in DOMAIN <<Event(type, why)>>
         /\ <<Event(type, why)>>[1].type = type /\ <<Event(type, why)>>[1].why = why
<1>1. Event(type, why) \in TrailEvents /\ Event(type, why).at = today
      /\ Event(type, why).type = type /\ Event(type, why).why = why
  BY DEF Event, TrailEvents
<1> DEFINE es == <<Event(type, why)>>
<1>2. es \in Seq(TrailEvents) /\ DOMAIN es = {1} /\ es[1] = Event(type, why)
  BY <1>1
<1> HIDE DEF es
<1>3. AddedToday(es) /\ Kinds(es) = {type}
  BY <1>1, <1>2 DEF AddedToday, Kinds
<1>4. 1 \in DOMAIN es /\ es[1].type = type /\ es[1].why = why
  BY <1>1, <1>2
<1> QED
  BY <1>3, <1>4 DEF es

LEMMA NoneIsAdded == AddedToday(<<>>) /\ Kinds(<<>>) = {}
BY DEF AddedToday, Kinds

LEMMA MoreAreAdded ==
  ASSUME NEW a, NEW b, AddedToday(a), AddedToday(b)
  PROVE  AddedToday(a \o b) /\ Kinds(a \o b) = Kinds(a) \cup Kinds(b)
<1>1. /\ a \in Seq(TrailEvents) /\ b \in Seq(TrailEvents)
      /\ a \o b \in Seq(TrailEvents) /\ Len(a \o b) = Len(a) + Len(b)
      /\ Len(a) \in Nat /\ Len(b) \in Nat
      /\ \A i \in 1..Len(a) : (a \o b)[i] = a[i]
      /\ \A i \in 1..Len(b) : (a \o b)[Len(a) + i] = b[i]
  BY DEF AddedToday
<1>2. DOMAIN a = 1..Len(a) /\ DOMAIN b = 1..Len(b) /\ DOMAIN (a \o b) = 1..Len(a) + Len(b)
  BY <1>1
<1> DEFINE c == a \o b
<1>3. \A i \in DOMAIN c : \/ i \in DOMAIN a /\ c[i] = a[i]
                          \/ i - Len(a) \in DOMAIN b /\ c[i] = b[i - Len(a)]
  <2> SUFFICES ASSUME NEW i \in DOMAIN c, i \notin DOMAIN a
               PROVE  i - Len(a) \in DOMAIN b /\ c[i] = b[i - Len(a)]
    BY <1>1, <1>2
  <2>1. i \in 1..Len(a) + Len(b) /\ i \notin 1..Len(a)
    BY <1>2
  <2>2. i - Len(a) \in 1..Len(b) /\ i = Len(a) + (i - Len(a))
    BY <1>1, <2>1
  <2> QED
    BY <1>1, <1>2, <2>2
<1>4. \A i \in DOMAIN a : i \in DOMAIN c /\ c[i] = a[i]
  BY <1>1, <1>2
<1>5. \A i \in DOMAIN b : Len(a) + i \in DOMAIN c /\ c[Len(a) + i] = b[i]
  BY <1>1, <1>2
<1> HIDE DEF c
<1>6. \A i \in DOMAIN c : c[i].at = today
  BY <1>3 DEF AddedToday
<1>7. Kinds(c) = Kinds(a) \cup Kinds(b)
  BY <1>3, <1>4, <1>5 DEF Kinds
<1> QED
  BY <1>1, <1>6, <1>7 DEF AddedToday, c

\* What is added today is the latest of its types, and of the others nothing
\* changes.
LEMMA TrailsGrow ==
  ASSUME NEW run, NEW next, NEW es, NEW types,
         run.trail \in Seq(TrailEvents), AddedToday(es), next.trail = run.trail \o es
  PROVE  /\ ~Adds(es, types) =>
              /\ EventsOf(next, types) = EventsOf(run, types)
              /\ EventsOf(run, types) # {} => LatestOf(next, types) = LatestOf(run, types)
         /\ Adds(es, types) => \A default : LatestAt(next, types, default) = today
<1> DEFINE a == run.trail
           c == next.trail
<1>1. /\ a \in Seq(TrailEvents) /\ es \in Seq(TrailEvents)
      /\ c \in Seq(TrailEvents) /\ Len(c) = Len(a) + Len(es)
      /\ Len(a) \in Nat /\ Len(es) \in Nat
      /\ \A i \in 1..Len(a) : c[i] = a[i]
      /\ \A i \in 1..Len(es) : c[Len(a) + i] = es[i]
  BY DEF AddedToday
<1>2. DOMAIN a = 1..Len(a) /\ DOMAIN es = 1..Len(es) /\ DOMAIN c = 1..Len(a) + Len(es)
  BY <1>1
<1> HIDE DEF a, c
<1>3. \A i \in DOMAIN c : \/ i \in DOMAIN a /\ c[i] = a[i]
                          \/ /\ i \notin DOMAIN a /\ i - Len(a) \in DOMAIN es
                             /\ c[i] = es[i - Len(a)]
  <2> SUFFICES ASSUME NEW i \in DOMAIN c, i \notin DOMAIN a
               PROVE  i - Len(a) \in DOMAIN es /\ c[i] = es[i - Len(a)]
    BY <1>1, <1>2
  <2>1. i \in 1..Len(a) + Len(es) /\ i \notin 1..Len(a)
    BY <1>2
  <2>2. i - Len(a) \in 1..Len(es) /\ i = Len(a) + (i - Len(a))
    BY <1>1, <2>1
  <2> QED
    BY <1>1, <1>2, <2>2
<1>4. EventsOf(next, types) = {i \in DOMAIN c : c[i].type \in types}
      /\ EventsOf(run, types) = {i \in DOMAIN a : a[i].type \in types}
  BY DEF EventsOf, a, c
<1>5. EventsOf(run, types) \subseteq EventsOf(next, types)
      /\ EventsOf(run, types) \subseteq 1..Len(a)
  BY <1>1, <1>2, <1>4
<1>6. ASSUME ~Adds(es, types)
      PROVE  /\ EventsOf(next, types) = EventsOf(run, types)
             /\ EventsOf(run, types) # {} => LatestOf(next, types) = LatestOf(run, types)
  <2>1. \A j \in DOMAIN es : es[j].type \notin types
    BY <1>6 DEF Kinds, Adds
  <2>2. EventsOf(next, types) = EventsOf(run, types)
    BY <2>1, <1>3, <1>4, <1>5
  <2>3. EventsOf(run, types) # {} => Max(EventsOf(run, types)) \in 1..Len(a)
    BY <1>1, <1>5, SomeNumbersHaveAMax
  <2> QED
    BY <2>2, <2>3, <1>1 DEF LatestOf, a, c
<1>7. ASSUME Adds(es, types)
      PROVE  \A default : LatestAt(next, types, default) = today
  <2>1. PICK j \in DOMAIN es : es[j].type \in types
    BY <1>7 DEF Kinds, Adds
  <2>2. Len(a) + j \in EventsOf(next, types)
    BY <2>1, <1>1, <1>2, <1>4
  <2>3. EventsOf(next, types) \subseteq 1..(Len(a) + Len(es)) /\ Len(a) + Len(es) \in Nat
    BY <1>1, <1>2, <1>4
  <2> DEFINE m == Max(EventsOf(next, types))
  <2>4. m \in EventsOf(next, types) /\ Len(a) + j <= m
    BY <2>2, <2>3, SomeNumbersHaveAMax
  <2> HIDE DEF m
  <2>5. m \notin DOMAIN a /\ m \in DOMAIN c
    BY <2>1, <2>3, <2>4, <1>1, <1>2, <1>4
  <2>6. c[m].at = today
    BY <2>5, <1>3 DEF AddedToday
  <2> QED
    BY <2>2, <2>6 DEF LatestAt, LatestOf, c, m
<1> QED
  BY <1>6, <1>7

LEMMA LatestMoves ==
  ASSUME NEW run, NEW next, NEW es, NEW types, NEW default,
         run.trail \in Seq(TrailEvents), AddedToday(es), next.trail = run.trail \o es
  PROVE  LatestAt(next, types, default) =
           IF Adds(es, types) THEN today ELSE LatestAt(run, types, default)
<1>1. CASE Adds(es, types)
  BY <1>1, TrailsGrow
<1>2. CASE ~Adds(es, types)
  <2>1. /\ EventsOf(next, types) = EventsOf(run, types)
        /\ EventsOf(run, types) # {} => LatestOf(next, types) = LatestOf(run, types)
    BY <1>2, TrailsGrow
  <2> QED
    BY <1>2, <2>1 DEF LatestAt
<1> QED
  BY <1>1, <1>2

LEMMA LatestIsDated ==
  ASSUME NEW run \in RememberedRuns, Dated(run, today), today \in Nat, NEW types,
         NEW default \in Nat
  PROVE  /\ LatestAt(run, types, default) \in Nat
         /\ default <= today => LatestAt(run, types, default) <= today
         /\ default >= 1 => LatestAt(run, types, default) >= 1
<1>1. run.trail \in Seq(TrailEvents)
  BY DEF RememberedRuns
<1>2. EventsOf(run, types) \subseteq 1..Len(run.trail) /\ Len(run.trail) \in Nat
  BY <1>1 DEF EventsOf
<1>3. EventsOf(run, types) # {} => Max(EventsOf(run, types)) \in DOMAIN run.trail
  <2>1. EventsOf(run, types) # {} => Max(EventsOf(run, types)) \in EventsOf(run, types)
    BY <1>2, SomeNumbersHaveAMax
  <2> QED
    BY <2>1 DEF EventsOf
<1>4. EventsOf(run, types) # {} => LatestOf(run, types).at \in 1..today
  BY <1>3 DEF LatestOf, Dated
<1> QED
  BY <1>4 DEF LatestAt

-----------------------------------------------------------------------------

\* What makes the next version of a run marked: the events that were added
\* account for its new status, and nothing blurs the mark of an old one.
Explained(run, next, es) ==
  /\ next.status = "waiting_approval" =>
       IF run.status = next.status THEN "approval_requested" \notin Kinds(es)
       ELSE "approval_requested" \in Kinds(es)
  /\ next.status = "needs_clarification" => run.status = next.status \/ run.created = today
  /\ next.status = "review_required" =>
       run.status = next.status \/ Adds(es, {"risk_escalated", "agent_failed", "run_blocked"})
  /\ next.status = "blocked" =>
       IF run.status = next.status THEN ~Adds(es, TerminalEvents)
       ELSE "run_blocked" \in Kinds(es)
  /\ next.status = "execution_failed" =>
       \/ run.status = next.status /\ ~Adds(es, TerminalEvents)
       \/ "agent_failed" \in Kinds(es)
  /\ next.status = "agent_running" /\ Len(next.jobs) = 1 /\ next.calling = "no" =>
       "agent_started" \in Kinds(es) /\ next.since = today

LEMMA MarksMove ==
  ASSUME NEW run \in RememberedRuns, NEW next \in RememberedRuns, NEW es, today \in Nat \ {0},
         Dated(run, today), Marked(run), AddedToday(es),
         next.trail = run.trail \o es, next.created = run.created, next.approved <= today,
         \/ next.since = (IF next.status = run.status THEN run.since ELSE today)
         \/ (next.status = "agent_running" /\ next.since = today),
         next.status # NoStatus => next.created >= 1,
         Explained(run, next, es)
  PROVE  Dated(next, today) /\ Marked(next)
<1> DEFINE was(types) == LatestAt(run, types, run.created)
           is(types) == LatestAt(next, types, next.created)
           opened == {"pr_opened"}
           active == {"pr_opened", "pr_updated"}
<1>1. run.trail \in Seq(TrailEvents) /\ run.created \in Nat /\ run.since \in Nat
      /\ run.created <= today /\ run.since <= today
  BY DEF RememberedRuns, Dated
<1>2. \A types : is(types) = IF Adds(es, types) THEN today ELSE was(types)
  <2> TAKE types
  <2>1. \A default : LatestAt(next, types, default) =
          IF Adds(es, types) THEN today ELSE LatestAt(run, types, default)
    BY <1>1, LatestMoves
  <2>2. LatestAt(next, types, next.created) = LatestAt(next, types, run.created)
    OBVIOUS
  <2> QED
    BY <2>1, <2>2
<1>3. \A types : was(types) \in Nat /\ was(types) <= today
  <2> TAKE types
  <2> QED
    BY <1>1, LatestIsDated
<1>4. Dated(next, today)
  <2>1. \A i \in DOMAIN next.trail : next.trail[i].at \in 1..today
    <3> SUFFICES ASSUME NEW i \in DOMAIN next.trail PROVE next.trail[i].at \in 1..today
      OBVIOUS
    <3>1. /\ es \in Seq(TrailEvents) /\ Len(run.trail) \in Nat /\ Len(es) \in Nat
          /\ Len(next.trail) = Len(run.trail) + Len(es)
          /\ DOMAIN next.trail = 1..Len(next.trail)
          /\ \A j \in 1..Len(run.trail) : next.trail[j] = run.trail[j]
          /\ \A j \in 1..Len(es) : next.trail[Len(run.trail) + j] = es[j]
      BY <1>1 DEF AddedToday
    <3>2. CASE i \in 1..Len(run.trail)
      BY <3>1, <3>2, <1>1 DEF Dated
    <3>3. CASE i \notin 1..Len(run.trail)
      <4>1. i - Len(run.trail) \in 1..Len(es) /\ i = Len(run.trail) + (i - Len(run.trail))
        BY <3>1, <3>3
      <4>2. next.trail[i] = es[i - Len(run.trail)]
        BY <3>1, <4>1
      <4> QED
        BY <3>1, <4>1, <4>2 DEF AddedToday
    <3> QED
      BY <3>2, <3>3
  <2> QED
    BY <1>1, <2>1 DEF Dated
<1>5. next.created = run.created /\ next.since \in Nat /\ next.since <= today
  BY <1>1 DEF RememberedRuns
<1>6. /\ next.status = "waiting_approval" => is({"approval_requested"}) = next.since
      /\ next.status = "needs_clarification" => next.created = next.since
      /\ next.status = "review_required" =>
           is({"risk_escalated", "agent_failed", "run_blocked"}) >= next.since
      /\ next.status = "blocked" => is({"run_blocked"}) = next.since
      /\ next.status = "execution_failed" => is({"agent_failed"}) >= next.since
      /\ next.status = "agent_running" /\ Len(next.jobs) = 1 /\ next.calling = "no" =>
           is({"agent_started"}) = next.since
      /\ next.status \in FailureStatuses => is(TerminalEvents) = is(FailureMarkers(next.status))
  <2>1. /\ \A type : Adds(es, {type}) <=> type \in Kinds(es)
        /\ Adds(es, {"run_blocked"}) \/ Adds(es, {"agent_failed"}) => Adds(es, TerminalEvents)
    BY DEF Adds, TerminalEvents
  <2>2. /\ run.status = "waiting_approval" => was({"approval_requested"}) = run.since
        /\ run.status = "needs_clarification" => run.created = run.since
        /\ run.status = "review_required" =>
             was({"risk_escalated", "agent_failed", "run_blocked"}) >= run.since
        /\ run.status = "blocked" => was({"run_blocked"}) = run.since
        /\ run.status = "execution_failed" => was({"agent_failed"}) >= run.since
        /\ run.status \in FailureStatuses => was(TerminalEvents) = was(FailureMarkers(run.status))
    BY DEF Marked
  <2> HIDE DEF was, is
  <2> QED
    BY <1>1, <1>2, <1>3, <1>5, <2>1, <2>2 DEF Explained, FailureStatuses, FailureMarkers
<1>7. is(opened) <= LatestAt(next, active, is(opened))
  <2>1. \A default : LatestAt(next, active, default) =
          IF Adds(es, active) THEN today ELSE LatestAt(run, active, default)
    <3> TAKE default
    <3> HIDE DEF active
    <3> QED
      BY <1>1, LatestMoves
  <2>2. is(opened) \in Nat /\ is(opened) <= today
    BY <1>2, <1>3
  <2>3. was(opened) <= LatestAt(run, active, was(opened))
    BY DEF Marked
  <2>4. Adds(es, opened) => Adds(es, active)
    BY DEF Adds
  <2> HIDE DEF was, is, opened, active
  <2> QED
    BY <2>1, <2>2, <2>3, <2>4, <1>2
<1> QED
  BY <1>4, <1>6, <1>7 DEF Marked

LEMMA ColumnsApartFromJobs ==
  ASSUME NEW run
  PROVE  ApartFromJobs(DeriveOutcome(run)) =
           [outcome |-> OutcomeFor(run.status),
            ticket |-> run.ticket,
            workType |-> MemoryTickets[run.ticket].workType,
            confidence |-> MemoryTickets[run.ticket].confidence,
            created |-> run.created,
            approved |-> run.approved,
            completed |-> LatestAt(run, TerminalEvents, run.created),
            escalations |-> Cardinality(EventsOf(run, {"risk_escalated"})),
            ciFailures |-> Cardinality(EventsOf(run, {"ci_failed"})),
            category |-> IF OutcomeFor(run.status) = "blocked" THEN ClassifyBlock(run)
                         ELSE "none"]
<1> DEFINE why == IF OutcomeFor(run.status) = "blocked" THEN ClassifyBlock(run) ELSE "none"
           repo == RepoOf(run)
           provider == IF run.jobs = <<>> THEN NoRepo ELSE LastOf(run.jobs).provider
           jobs == Len(run.jobs)
           cost == CostOf(run.jobs)
           a == OutcomeFor(run.status)
           b == MemoryTickets[run.ticket].workType
           c == MemoryTickets[run.ticket].confidence
           d == LatestAt(run, TerminalEvents, run.created)
           e == Cardinality(EventsOf(run, {"risk_escalated"}))
           f == Cardinality(EventsOf(run, {"ci_failed"}))
<1>1. DeriveOutcome(run) =
        [outcome |-> a, ticket |-> run.ticket, workType |-> b, confidence |-> c,
         created |-> run.created, approved |-> run.approved, completed |-> d,
         escalations |-> e, ciFailures |-> f, category |-> why,
         repo |-> repo, provider |-> provider, jobs |-> jobs, cost |-> cost]
  BY DEF DeriveOutcome
<1> HIDE DEF why, repo, provider, jobs, cost, a, b, c, d, e, f
<1>2. ApartFromJobs(DeriveOutcome(run)) =
        [outcome |-> a, ticket |-> run.ticket, workType |-> b, confidence |-> c,
         created |-> run.created, approved |-> run.approved, completed |-> d,
         escalations |-> e, ciFailures |-> f, category |-> why]
  BY <1>1 DEF ApartFromJobs
<1> QED
  BY <1>2 DEF why, a, b, c, d, e, f

\* The row that is derived of a run, its job columns apart, depends on its
\* terminal markers only.
LEMMA OutcomesKeep ==
  ASSUME NEW run \in RememberedRuns, NEW next \in RememberedRuns, NEW es,
         AddedToday(es), next.trail = run.trail \o es,
         Kinds(es) \subseteq {"agent_started", "remediation_requested"},
         next.status = run.status, next.ticket = run.ticket, next.created = run.created,
         next.approved = run.approved
  PROVE  ApartFromJobs(DeriveOutcome(next)) = ApartFromJobs(DeriveOutcome(run))
<1>1. run.trail \in Seq(TrailEvents)
  BY DEF RememberedRuns
<1> DEFINE markers == {{"run_blocked"}, TerminalEvents, {"risk_escalated"}, {"ci_failed"}}
<1>2. \A types \in markers : ~Adds(es, types)
  BY DEF Adds, TerminalEvents
<1>3. \A types \in markers :
        /\ EventsOf(next, types) = EventsOf(run, types)
        /\ EventsOf(run, types) # {} => LatestOf(next, types) = LatestOf(run, types)
        /\ LatestAt(next, types, run.created) = LatestAt(run, types, run.created)
  <2> TAKE types \in markers
  <2> HIDE DEF markers
  <2>1. ~Adds(es, types)
    BY <1>2
  <2>2. /\ EventsOf(next, types) = EventsOf(run, types)
        /\ EventsOf(run, types) # {} => LatestOf(next, types) = LatestOf(run, types)
    BY <1>1, <2>1, TrailsGrow
  <2>3. LatestAt(next, types, run.created) = LatestAt(run, types, run.created)
    BY <2>2 DEF LatestAt
  <2> QED
    BY <2>2, <2>3
<1>4. ClassifyBlock(next) = ClassifyBlock(run)
  BY <1>3 DEF ClassifyBlock
<1>5. LatestAt(next, TerminalEvents, run.created) = LatestAt(run, TerminalEvents, run.created)
      /\ EventsOf(next, {"risk_escalated"}) = EventsOf(run, {"risk_escalated"})
      /\ EventsOf(next, {"ci_failed"}) = EventsOf(run, {"ci_failed"})
  BY <1>3
<1> QED
  BY <1>4, <1>5, ColumnsApartFromJobs

LEMMA RowsAreRows ==
  ASSUME NEW run, run.status \in TerminalStatuses
  PROVE  /\ DeriveOutcome(run) # NoRow
         /\ DeriveOutcome(run).jobs = Len(run.jobs)
         /\ DeriveOutcome(run).completed = LatestAt(run, TerminalEvents, run.created)
         /\ DeriveOutcome(run).created = run.created
<1>1. DeriveOutcome(run).outcome = OutcomeFor(run.status)
      /\ DeriveOutcome(run).jobs = Len(run.jobs) /\ DeriveOutcome(run).created = run.created
      /\ DeriveOutcome(run).completed = LatestAt(run, TerminalEvents, run.created)
  BY DEF DeriveOutcome
<1>2. OutcomeFor(run.status) # "none"
  BY DEF OutcomeFor, TerminalStatuses
<1>3. NoRow.outcome = "none"
  BY DEF NoRow
<1> QED
  BY <1>1, <1>2, <1>3

\* What was written over stays so.
LEMMA OverwritesStay ==
  ASSUME NEW run, NEW next, NEW es, run.trail \in Seq(TrailEvents),
         es \in Seq(TrailEvents), next.trail = run.trail \o es
  PROVE  /\ Overwritten(run) => Overwritten(next)
         /\ (\E j \in DOMAIN es : /\ es[j].type = "agent_failed"
                                  /\ es[j].why = "provider dispatch failed") => Overwritten(next)
<1> DEFINE a == run.trail
           c == next.trail
           fails(e) == e.type = "agent_failed" /\ e.why = "provider dispatch failed"
<1>1. /\ Len(c) = Len(a) + Len(es) /\ Len(a) \in Nat /\ Len(es) \in Nat
      /\ DOMAIN a = 1..Len(a) /\ DOMAIN es = 1..Len(es) /\ DOMAIN c = 1..Len(c)
      /\ \A i \in 1..Len(a) : c[i] = a[i]
      /\ \A i \in 1..Len(es) : c[Len(a) + i] = es[i]
  OBVIOUS
<1>2. /\ Overwritten(run) <=> \E i \in DOMAIN a : fails(a[i])
      /\ Overwritten(next) <=> \E i \in DOMAIN c : fails(c[i])
  BY DEF Overwritten, EventsOf
<1> HIDE DEF a, c, fails
<1>3. ASSUME NEW i \in DOMAIN a, fails(a[i]) PROVE \E k \in DOMAIN c : fails(c[k])
  <2>1. i \in DOMAIN c /\ c[i] = a[i]
    BY <1>1
  <2> QED
    BY <1>3, <2>1
<1>4. ASSUME NEW j \in DOMAIN es, fails(es[j]) PROVE \E k \in DOMAIN c : fails(c[k])
  <2>1. Len(a) + j \in DOMAIN c /\ c[Len(a) + j] = es[j]
    BY <1>1
  <2> QED
    BY <1>4, <2>1
<1> QED
  BY <1>2, <1>3, <1>4 DEF fails

LEMMA CommitsKeep ==
  ASSUME MemoryInv, NEW r \in MemoryRuns, NEW run \in RememberedRuns, Commit(r, run),
         Dated(run, today), Launched(run), Marked(run), run.status # NoStatus,
         Overwritten(book[r]) \/ book[r].status \in TerminalStatuses => Overwritten(run)
  PROVE  MemoryInv'
<1>1. /\ Len(run.trail) <= MaxTrail /\ today' = today
      /\ book' = [book EXCEPT ![r] = run]
  BY DEF Commit
<1>2. /\ today \in 1..LastDay /\ LastDay \in Nat /\ book \in [MemoryRuns -> RememberedRuns]
      /\ DOMAIN outcomeRow = MemoryRuns /\ lost \subseteq MemoryRuns
      /\ RowTells(book[r], outcomeRow[r], r \in lost)
  BY MemoryAssumption DEF MemoryInv
<1>3. \/ /\ run.status \in TerminalStatuses
         /\ outcomeRow' = [outcomeRow EXCEPT ![r] = DeriveOutcome(run)] /\ lost' = lost \ {r}
      \/ /\ run.status \in TerminalStatuses
         /\ outcomeRow' = outcomeRow /\ lost' = lost \cup {r}
      \/ /\ run.status \notin TerminalStatuses
         /\ outcomeRow' = outcomeRow /\ lost' = lost
  BY DEF Commit, RecordOutcome, WriteOutcome
<1>4. /\ book' \in [MemoryRuns -> RememberedRuns] /\ DOMAIN outcomeRow' = MemoryRuns
      /\ lost' \subseteq MemoryRuns
  BY <1>1, <1>2, <1>3
<1>5. /\ book'[r] = run
      /\ \A q \in MemoryRuns : q # r =>
           book'[q] = book[q] /\ outcomeRow'[q] = outcomeRow[q] /\ (q \in lost' <=> q \in lost)
  BY <1>1, <1>2, <1>3
<1>6. \/ /\ run.status \in TerminalStatuses
         /\ outcomeRow'[r] = DeriveOutcome(run) /\ r \notin lost'
      \/ /\ run.status \notin TerminalStatuses \/ r \in lost'
         /\ outcomeRow'[r] = outcomeRow[r]
  BY <1>2, <1>3
<1>7. run.status \in TerminalStatuses => Legible(DeriveOutcome(run), today)
  <2>1. run.created \in Nat /\ run.created >= 1 /\ run.created <= today /\ today \in Nat
    BY <1>2 DEF RememberedRuns, Dated
  <2>2. Len(run.jobs) \in Nat
    BY DEF RememberedRuns
  <2> QED
    BY <2>1, <2>2, RowsAreRows, LatestIsDated DEF Legible
<1>8. RowTells(run, outcomeRow'[r], r \in lost')
  <2>1. Len(run.jobs) \in Nat
    BY DEF RememberedRuns
  <2>2. CASE run.status \in TerminalStatuses /\ outcomeRow'[r] = DeriveOutcome(run)
             /\ r \notin lost'
    BY <2>1, <2>2, RowsAreRows DEF RowTells
  <2>3. CASE (run.status \notin TerminalStatuses \/ r \in lost')
             /\ outcomeRow'[r] = outcomeRow[r]
    <3>1. outcomeRow[r] = NoRow \/ Overwritten(run)
      BY <1>2 DEF RowTells
    <3> QED
      BY <2>3, <3>1 DEF RowTells
  <2> QED
    BY <1>6, <2>2, <2>3
<1>9. \A q \in MemoryRuns :
        /\ Dated(book'[q], today') /\ Launched(book'[q]) /\ Marked(book'[q])
        /\ Len(book'[q].trail) <= MaxTrail
        /\ Legible(outcomeRow'[q], today')
        /\ RowTells(book'[q], outcomeRow'[q], q \in lost')
  <2> TAKE q \in MemoryRuns
  <2>1. CASE q = r
    <3>1. Dated(book'[q], today') /\ Launched(book'[q]) /\ Marked(book'[q])
          /\ Len(book'[q].trail) <= MaxTrail
      BY <2>1, <1>1, <1>5 DEF Dated
    <3>2. Legible(outcomeRow'[q], today')
      BY <2>1, <1>1, <1>6, <1>7 DEF MemoryInv
    <3> QED
      BY <2>1, <3>1, <3>2, <1>5, <1>8
  <2>2. CASE q # r
    <3>1. RowTells(book'[q], outcomeRow'[q], q \in lost')
      BY <2>2, <1>5 DEF MemoryInv, RowTells
    <3> QED
      BY <2>2, <3>1, <1>1, <1>5 DEF MemoryInv
  <2> QED
    BY <2>1, <2>2
<1> QED
  BY <1>1, <1>2, <1>4, <1>9 DEF MemoryInv

-----------------------------------------------------------------------------

LEMMA MemoryInit == InitMemory => MemoryInv
<1> SUFFICES ASSUME InitMemory PROVE MemoryInv
  OBVIOUS
<1>1. today = 1 /\ 1 \in 1..LastDay /\ MaxTrail \in Nat
  BY MemoryAssumption DEF InitMemory
<1>2. NoTicket \in DOMAIN MemoryTickets
  BY MemoryAssumption DEF NoTicket
<1>3. Unborn \in RememberedRuns
  BY <1>2 DEF Unborn, RememberedRuns
<1>4. Dated(Unborn, today) /\ Launched(Unborn) /\ Len(Unborn.trail) <= MaxTrail
  BY <1>1 DEF Unborn, Dated, Launched, NoStatus, PrObservableStatuses
<1>5. \A types, default : LatestAt(Unborn, types, default) = default
  BY DEF Unborn, LatestAt, EventsOf
<1>6. Marked(Unborn)
  BY <1>5 DEF Marked, Unborn, NoStatus, FailureStatuses
<1>7. RowTells(Unborn, NoRow, FALSE)
  BY DEF RowTells, Unborn, NoStatus, TerminalStatuses
<1>8. lost = {} /\ \A r \in MemoryRuns : book[r] = Unborn /\ outcomeRow[r] = NoRow
  BY DEF InitMemory
<1>9. \A r \in MemoryRuns : RowTells(book[r], outcomeRow[r], r \in lost)
  BY <1>7, <1>8 DEF RowTells
<1> QED
  BY <1>1, <1>3, <1>4, <1>6, <1>8, <1>9 DEF MemoryInv, InitMemory, Legible

\* A run as a transaction moves it, and what it may still call.
After(run, status, es, calling) == [Moved(run, status, es) EXCEPT !.calling = calling]

Follows(next, run, status, es, calling) ==
  /\ next \in RememberedRuns
  /\ next.status = status /\ next.calling = calling /\ next.trail = run.trail \o es
  /\ next.jobs = run.jobs /\ next.created = run.created /\ next.approved = run.approved

LEMMA MovedRuns ==
  ASSUME NEW run \in RememberedRuns, today \in Nat, NEW status \in RunStatuses,
         NEW es, AddedToday(es), NEW calling \in {"no", "dispatch", "retry"}
  PROVE  Follows(After(run, status, es, calling), run, status, es, calling)
<1>1. run.trail \o es \in Seq(TrailEvents)
  BY DEF RememberedRuns, AddedToday
<1> QED
  BY <1>1 DEF Follows, Moved, After, RememberedRuns

LEMMA CallingKept ==
  ASSUME NEW run \in RememberedRuns, NEW status, NEW es
  PROVE  Moved(run, status, es) = After(run, status, es, run.calling)
BY DEF Moved, After, RememberedRuns

\* A transaction that moves a run keeps the invariant if its events account
\* for the status it leaves.
LEMMA MovesKeep ==
  ASSUME MemoryInv, NEW r \in MemoryRuns, NEW run \in RememberedRuns,
         NEW status \in RunStatuses, NEW es, AddedToday(es),
         NEW calling \in {"no", "dispatch", "retry"},
         Dated(run, today), Marked(run), run.created >= 1,
         NEW next, next = After(run, status, es, calling),
         Explained(run, next, es), Launched(next), Commit(r, next),
         Overwritten(book[r]) => Overwritten(run),
         book[r].status \in TerminalStatuses => Overwritten(next)
  PROVE  MemoryInv'
<1>1. today \in Nat \ {0} /\ today \in Nat
  BY MemoryAssumption DEF MemoryInv
<1>2. /\ next \in RememberedRuns
      /\ next.status = status /\ next.calling = calling
      /\ next.trail = run.trail \o es
      /\ next.jobs = run.jobs /\ next.created = run.created /\ next.approved = run.approved
  <2>1. Follows(next, run, status, es, calling)
    BY <1>1, MovedRuns
  <2> QED
    BY <2>1 DEF Follows
<1>3. next.since = IF run.status = status THEN run.since ELSE today
  BY DEF After, Moved, RememberedRuns
<1>4. next.approved <= today /\ next.status # NoStatus
  BY <1>2 DEF Dated, RunStatuses, ActiveStatuses, TerminalStatuses, NoStatus
<1>5. Dated(next, today) /\ Marked(next)
  BY <1>1, <1>2, <1>3, <1>4, MarksMove
<1>6. Overwritten(run) => Overwritten(next)
  BY <1>2, OverwritesStay DEF RememberedRuns, AddedToday
<1> QED
  BY <1>2, <1>4, <1>5, <1>6, CommitsKeep

LEMMA LatestByTrail ==
  ASSUME NEW run, NEW next, next.trail = run.trail
  PROVE  \A types, default : LatestAt(next, types, default) = LatestAt(run, types, default)
BY DEF LatestAt, LatestOf, EventsOf

\* What a mark says does not depend on jobs, unless an agent runs.
LEMMA MarksStay ==
  ASSUME NEW run, NEW next, Marked(run), next.trail = run.trail, next.created = run.created,
         next.since = run.since, next.status = run.status,
         next.status = "agent_running" => next.calling = run.calling /\ next.jobs = run.jobs
  PROVE  Marked(next)
<1>1. \A types, default : LatestAt(next, types, default) = LatestAt(run, types, default)
  BY LatestByTrail
<1> QED
  BY <1>1 DEF Marked

LEMMA BookTypes ==
  ASSUME MemoryInv, NEW r \in MemoryRuns
  PROVE  /\ book[r] \in RememberedRuns /\ today \in Nat /\ today >= 1
         /\ Dated(book[r], today) /\ Launched(book[r]) /\ Marked(book[r])
         /\ book[r].created \in Nat /\ book[r].since \in Nat
         /\ book[r].status # NoStatus => book[r].created >= 1
BY MemoryAssumption DEF MemoryInv, Dated, RememberedRuns

LEMMA PlansKeep ==
  ASSUME MemoryInv, NEW r \in MemoryRuns, NEW t \in DOMAIN MemoryTickets, PlanRun(r, t)
  PROVE  MemoryInv'
<1> DEFINE born == [Unborn EXCEPT !.ticket = t, !.created = today]
           lands == MemoryTickets[t].lands
<1>1. today \in Nat /\ today >= 1
  BY BookTypes
<1>2. /\ born \in RememberedRuns /\ born.status = NoStatus /\ born.created = today
      /\ born.since = 0 /\ born.approved = 0 /\ born.trail = <<>> /\ born.jobs = <<>>
      /\ born.calling = "no"
  <2>1. NoTicket \in DOMAIN MemoryTickets
    BY MemoryAssumption DEF NoTicket
  <2>2. /\ Unborn \in RememberedRuns /\ Unborn.status = NoStatus
        /\ Unborn.since = 0 /\ Unborn.approved = 0 /\ Unborn.trail = <<>>
        /\ Unborn.jobs = <<>> /\ Unborn.calling = "no"
    BY <2>1 DEF RememberedRuns, Unborn
  <2> QED
    BY <1>1, <2>2 DEF RememberedRuns
<1>3. \E status \in RunStatuses : \E es :
        /\ Commit(r, Moved(born, status, es)) /\ AddedToday(es)
        /\ \/ status = "needs_clarification"
           \/ status = "waiting_approval" /\ Kinds(es) = {"approval_requested"}
           \/ status = "blocked" /\ Kinds(es) = {"run_blocked"}
  <2>1. CASE lands = "unclear"
    BY <2>1, NoneIsAdded DEF PlanRun, RunStatuses, TerminalStatuses
  <2>2. CASE lands = "ready"
    <3>1. "approval_requested" \in EventNames /\ "none" \in EventReasons
      BY DEF EventNames, EventReasons
    <3>2. Commit(r, Moved(born, "waiting_approval", <<Event("approval_requested", "none")>>))
      BY <2>2 DEF PlanRun
    <3> QED
      BY <1>1, <3>1, <3>2, OneIsAdded DEF RunStatuses, ActiveStatuses
  <2>3. CASE lands \notin {"unclear", "ready"}
    <3>1. "run_blocked" \in EventNames /\ lands \in EventReasons
      BY DEF EventNames, EventReasons
    <3>2. Commit(r, Moved(born, "blocked", <<Event("run_blocked", lands)>>))
      BY <2>3 DEF PlanRun
    <3> QED
      BY <1>1, <3>1, <3>2, OneIsAdded DEF RunStatuses, TerminalStatuses
  <2> QED
    BY <2>1, <2>2, <2>3
<1>4. PICK status \in RunStatuses : \E es :
        /\ Commit(r, Moved(born, status, es)) /\ AddedToday(es)
        /\ \/ status = "needs_clarification"
           \/ status = "waiting_approval" /\ Kinds(es) = {"approval_requested"}
           \/ status = "blocked" /\ Kinds(es) = {"run_blocked"}
  BY <1>3
<1>5. PICK es :
        /\ Commit(r, Moved(born, status, es)) /\ AddedToday(es)
        /\ \/ status = "needs_clarification"
           \/ status = "waiting_approval" /\ Kinds(es) = {"approval_requested"}
           \/ status = "blocked" /\ Kinds(es) = {"run_blocked"}
  BY <1>4
<1>6. Dated(born, today)
  BY <1>1, <1>2 DEF Dated
<1>7. Marked(born)
  <2>1. \A types, default : LatestAt(born, types, default) = default
    BY <1>2 DEF LatestAt, EventsOf
  <2> QED
    BY <1>1, <1>2, <2>1 DEF Marked, NoStatus, FailureStatuses
<1> HIDE DEF born
<1> DEFINE next == Moved(born, status, es)
<1>8. next = After(born, status, es, "no")
  BY <1>2, CallingKept
<1>9. next.status = status /\ next.calling = "no" /\ next.jobs = <<>>
  <2>1. Follows(next, born, status, es, "no")
    BY <1>1, <1>2, <1>5, <1>8, MovedRuns
  <2> QED
    BY <1>2, <2>1 DEF Follows
<1> HIDE DEF next
<1>10. Explained(born, next, es)
  BY <1>2, <1>5, <1>9 DEF Explained, NoStatus
<1>11. Launched(next)
  BY <1>5, <1>9 DEF Launched, PrObservableStatuses, NoStatus
<1>12. ~Overwritten(book[r]) /\ book[r].status \notin TerminalStatuses
  <2>1. book[r].status = NoStatus
    BY DEF PlanRun
  <2>2. book[r].trail = <<>>
    BY <2>1, BookTypes DEF Launched
  <2> QED
    BY <2>1, <2>2 DEF Overwritten, EventsOf, NoStatus, TerminalStatuses
<1> QED
  BY <1>1, <1>2, <1>5, <1>6, <1>7, <1>8, <1>10, <1>11, <1>12, MovesKeep DEF next

LEMMA ApprovalsKeep ==
  ASSUME MemoryInv, NEW r \in MemoryRuns, ApproveRun(r)
  PROVE  MemoryInv'
<1> DEFINE signed == [book[r] EXCEPT !.approved = today]
           refusal == <<Event("run_blocked", "policy_denied")>>
<1>1. today \in Nat /\ today >= 1 /\ book[r].status = "waiting_approval"
  BY BookTypes DEF ApproveRun
<1>2. book[r] \in RememberedRuns /\ Dated(book[r], today) /\ Launched(book[r])
      /\ Marked(book[r]) /\ book[r].created >= 1
  BY <1>1, BookTypes DEF NoStatus
<1>3. /\ signed \in RememberedRuns /\ signed.status = "waiting_approval"
      /\ signed.approved = today /\ signed.trail = book[r].trail
      /\ signed.created = book[r].created /\ signed.since = book[r].since
      /\ signed.jobs = book[r].jobs /\ signed.calling = book[r].calling
  BY <1>1, <1>2 DEF RememberedRuns
<1>4. \/ Commit(r, Moved(signed, "blocked", refusal))
      \/ Commit(r, After(signed, "approved", <<>>, "dispatch"))
  BY DEF ApproveRun, After
<1> HIDE DEF signed
<1>5. Dated(signed, today)
  <2>1. /\ book[r].created <= today /\ book[r].since <= today
        /\ \A i \in DOMAIN book[r].trail : book[r].trail[i].at \in 1..today
    BY <1>2 DEF Dated
  <2>2. today <= today
    BY <1>1
  <2> QED
    BY <1>2, <1>3, <2>1, <2>2 DEF Dated
<1>6. Marked(signed)
  <2>1. /\ signed.status = book[r].status
        /\ signed.status = "agent_running" =>
             signed.calling = book[r].calling /\ signed.jobs = book[r].jobs
    BY <1>1, <1>3
  <2> QED
    BY <1>2, <1>3, <2>1, MarksStay
<1>7. signed.jobs = <<>> /\ signed.calling = "no" /\ signed.created >= 1
  BY <1>1, <1>2, <1>3 DEF Launched
<1>8. AddedToday(refusal) /\ Kinds(refusal) = {"run_blocked"}
  <2>1. "run_blocked" \in EventNames /\ "policy_denied" \in EventReasons
    BY DEF EventNames, EventReasons
  <2> QED
    BY <1>1, <2>1, OneIsAdded
<1>9. /\ "blocked" \in RunStatuses /\ "approved" \in RunStatuses
      /\ book[r].status \notin TerminalStatuses
      /\ Overwritten(book[r]) => Overwritten(signed)
  BY <1>1, <1>3 DEF RunStatuses, ActiveStatuses, TerminalStatuses, Overwritten, EventsOf
<1> HIDE DEF refusal
<1>10. ASSUME Commit(r, Moved(signed, "blocked", refusal)) PROVE MemoryInv'
  <2> DEFINE next == After(signed, "blocked", refusal, "no")
  <2>1. next = Moved(signed, "blocked", refusal)
    BY <1>3, <1>7, CallingKept
  <2>2. next.status = "blocked" /\ next.calling = "no" /\ next.jobs = <<>>
    <3>1. Follows(next, signed, "blocked", refusal, "no")
      BY <1>1, <1>3, <1>8, <1>9, MovedRuns
    <3> QED
      BY <1>7, <3>1 DEF Follows
  <2> HIDE DEF next
  <2>3. Explained(signed, next, refusal)
    BY <2>2, <1>3, <1>8 DEF Explained
  <2>4. Launched(next)
    BY <2>2 DEF Launched, PrObservableStatuses, NoStatus
  <2> QED
    BY <1>3, <1>5, <1>6, <1>7, <1>8, <1>9, <1>10, <2>1, <2>3, <2>4, MovesKeep DEF next
<1>11. ASSUME Commit(r, After(signed, "approved", <<>>, "dispatch")) PROVE MemoryInv'
  <2> DEFINE next == After(signed, "approved", <<>>, "dispatch")
  <2>1. AddedToday(<<>>)
    BY NoneIsAdded
  <2>2. next.status = "approved" /\ next.calling = "dispatch" /\ next.jobs = <<>>
    <3>1. Follows(next, signed, "approved", <<>>, "dispatch")
      BY <1>1, <1>3, <1>9, <2>1, MovedRuns
    <3> QED
      BY <1>7, <3>1 DEF Follows
  <2> HIDE DEF next
  <2>3. Explained(signed, next, <<>>)
    BY <2>2 DEF Explained
  <2>4. Launched(next)
    BY <2>2 DEF Launched, PrObservableStatuses, NoStatus
  <2> QED
    BY <1>3, <1>5, <1>6, <1>7, <1>9, <1>11, <2>1, <2>3, <2>4, MovesKeep DEF next
<1> QED
  BY <1>4, <1>10, <1>11

\* Most transactions add one event to the run they find.
LEMMA OneEventKeeps ==
  ASSUME MemoryInv, NEW r \in MemoryRuns, NEW status \in RunStatuses,
         NEW type \in EventNames, NEW why \in EventReasons, book[r].status # NoStatus,
         NEW calling \in {"no", "dispatch", "retry"},
         Commit(r, After(book[r], status, <<Event(type, why)>>, calling)),
         \/ status = "review_required" /\ type = "agent_failed" /\ book[r].jobs # <<>>
         \/ status = "execution_failed" /\ type = "agent_failed"
         \/ status = "blocked" /\ type = "run_blocked" /\ book[r].status # "blocked"
         \/ status = "rejected",
         calling \in {"no", book[r].calling},
         \/ book[r].status \notin TerminalStatuses
         \/ type = "agent_failed" /\ why = "provider dispatch failed"
  PROVE  MemoryInv'
<1> DEFINE es == <<Event(type, why)>>
           next == After(book[r], status, es, calling)
<1>1. /\ book[r] \in RememberedRuns /\ today \in Nat /\ Dated(book[r], today)
      /\ Launched(book[r]) /\ Marked(book[r]) /\ book[r].created >= 1
  BY BookTypes
<1>2. AddedToday(es) /\ Kinds(es) = {type} /\ 1 \in DOMAIN es
      /\ es[1].type = type /\ es[1].why = why
  BY <1>1, OneIsAdded
<1> HIDE DEF es
<1>3. /\ next.status = status /\ next.calling = calling /\ next.jobs = book[r].jobs
      /\ next.trail = book[r].trail \o es
  <2>1. Follows(next, book[r], status, es, calling)
    BY <1>1, <1>2, MovedRuns
  <2> QED
    BY <2>1 DEF Follows
<1>4. Commit(r, next)
  BY DEF es
<1> HIDE DEF next
<1>5. Explained(book[r], next, es)
  BY <1>2, <1>3 DEF Explained, Adds
<1>6. Launched(next)
  BY <1>1, <1>3 DEF Launched, PrObservableStatuses, NoStatus, TerminalStatuses
<1>7. book[r].status \in TerminalStatuses => Overwritten(next)
  BY <1>1, <1>2, <1>3, OverwritesStay DEF RememberedRuns, AddedToday
<1> QED
  BY <1>1, <1>2, <1>4, <1>5, <1>6, <1>7, MovesKeep DEF next

LEMMA RefusalsKeep ==
  ASSUME MemoryInv, NEW r \in MemoryRuns, AgentRefuses(r)
  PROVE  MemoryInv'
<1> DEFINE status == IF book[r].calling = "dispatch" THEN "execution_failed" ELSE "review_required"
<1>1. book[r].calling \in {"dispatch", "retry"} /\ book[r] \in RememberedRuns
      /\ Launched(book[r])
  BY BookTypes DEF AgentRefuses, RememberedRuns
<1>2. book[r].calling = "retry" => book[r].jobs # <<>>
  BY <1>1 DEF Launched
<1>3. Commit(r, After(book[r], status, <<Event("agent_failed", "provider dispatch failed")>>, "no"))
  BY DEF AgentRefuses, After
<1>4. status \in RunStatuses /\ "agent_failed" \in EventNames
      /\ "provider dispatch failed" \in EventReasons
  BY DEF RunStatuses, ActiveStatuses, TerminalStatuses, EventNames, EventReasons
<1>5. book[r].status # NoStatus
  BY <1>1 DEF Launched
<1> QED
  BY <1>1, <1>2, <1>3, <1>4, <1>5, OneEventKeeps

LEMMA EndingsKeep ==
  ASSUME MemoryInv, NEW r \in MemoryRuns, EndMemoryRun(r)
  PROVE  MemoryInv'
<1>1. /\ book[r].status \in ActiveStatuses
      /\ \E status \in {"rejected", "blocked", "execution_failed"}, type \in EventNames,
            why \in EventReasons :
           /\ Commit(r, Moved(book[r], status, <<Event(type, why)>>))
           /\ status = "execution_failed" => type = "agent_failed"
           /\ status = "blocked" => type = "run_blocked"
  BY DEF EndMemoryRun, ActiveStatuses, EventNames, EventReasons
<1>2. PICK status \in {"rejected", "blocked", "execution_failed"}, type \in EventNames,
           why \in EventReasons :
         /\ Commit(r, Moved(book[r], status, <<Event(type, why)>>))
         /\ status = "execution_failed" => type = "agent_failed"
         /\ status = "blocked" => type = "run_blocked"
  BY <1>1
<1>3. book[r] \in RememberedRuns
  BY BookTypes
<1>4. Commit(r, After(book[r], status, <<Event(type, why)>>, book[r].calling))
  BY <1>2, <1>3, CallingKept
<1>5. book[r].calling \in {"no", "dispatch", "retry"} /\ status \in RunStatuses
  BY <1>3 DEF RememberedRuns, RunStatuses, TerminalStatuses
<1>6. book[r].status \notin {NoStatus, "blocked"} /\ book[r].status \notin TerminalStatuses
  BY <1>1 DEF ActiveStatuses, TerminalStatuses, NoStatus
<1> QED
  BY <1>2, <1>4, <1>5, <1>6, OneEventKeeps

\* What record_pr adds accounts for the status it leaves.
LEMMA PrEventsExplain ==
  ASSUME NEW run, NEW e \in PrReports, today \in Nat, run.status \in PrObservableStatuses
  PROVE  /\ AddedToday(EventsFor(run, e))
         /\ NextStatusForPr(run.status, e) \in {"complete", "blocked", "review_required", "pr_open"}
         /\ NextStatusForPr(run.status, e) = "blocked" => "run_blocked" \in Kinds(EventsFor(run, e))
         /\ NextStatusForPr(run.status, e) = "review_required" =>
              run.status = "review_required" \/ "risk_escalated" \in Kinds(EventsFor(run, e))
<1> DEFINE heard == IF EventsOf(run, {"pr_opened"}) = {} THEN "pr_opened" ELSE "pr_updated"
           first == <<Event(heard, "none")>>
           verdict ==
             IF e.state = "merged" THEN <<Event("run_completed", "none")>>
             ELSE IF e.state = "closed" THEN <<Event("run_blocked", "pr_closed_unmerged")>>
             ELSE IF e.diff = "forbidden" THEN <<Event("run_blocked", "forbidden_paths")>>
             ELSE IF e.diff = "escalates" THEN <<Event("risk_escalated", "diff")>>
             ELSE <<>>
           ci == IF e.ciFailing THEN <<Event("ci_failed", "none")>> ELSE <<>>
<1>1. \A type \in EventNames, why \in EventReasons :
        AddedToday(<<Event(type, why)>>) /\ Kinds(<<Event(type, why)>>) = {type}
  BY OneIsAdded
<1>2. AddedToday(<<>>) /\ Kinds(<<>>) = {}
  BY NoneIsAdded
<1>3. {"pr_opened", "pr_updated", "run_completed", "run_blocked", "risk_escalated", "ci_failed"}
        \subseteq EventNames
      /\ {"none", "pr_closed_unmerged", "forbidden_paths", "diff"} \subseteq EventReasons
  BY DEF EventNames, EventReasons
<1>4. AddedToday(first)
  BY <1>1, <1>3
<1>5. AddedToday(ci)
  BY <1>1, <1>2, <1>3
<1>6. /\ AddedToday(verdict)
      /\ e.state = "closed" => Kinds(verdict) = {"run_blocked"}
      /\ (e.state \notin {"merged", "closed"} /\ e.diff = "forbidden") =>
           Kinds(verdict) = {"run_blocked"}
      /\ (e.state \notin {"merged", "closed"} /\ e.diff = "escalates") =>
           Kinds(verdict) = {"risk_escalated"}
  BY <1>1, <1>2, <1>3
<1>7. EventsFor(run, e) = (first \o verdict) \o ci
  BY DEF EventsFor
<1> HIDE DEF first, verdict, ci
<1>8. AddedToday(first \o verdict) /\ Kinds(first \o verdict) = Kinds(first) \cup Kinds(verdict)
  BY <1>4, <1>6, MoreAreAdded
<1>9. AddedToday(EventsFor(run, e)) /\ Kinds(verdict) \subseteq Kinds(EventsFor(run, e))
  BY <1>5, <1>7, <1>8, MoreAreAdded
<1>10. e.diff \in {"none", "clean", "forbidden", "escalates"}
       /\ e.state \in {"open", "merged", "closed"}
  BY MemoryAssumption DEF PrEventRecords, Diffs
<1>11. /\ NextStatusForPr(run.status, e) \in {"complete", "blocked", "review_required", "pr_open"}
       /\ NextStatusForPr(run.status, e) = "blocked" =>
            \/ e.state = "closed"
            \/ (e.state \notin {"merged", "closed"} /\ e.diff = "forbidden")
       /\ NextStatusForPr(run.status, e) = "review_required" =>
            \/ run.status = "review_required"
            \/ (e.state \notin {"merged", "closed"} /\ e.diff = "escalates")
  BY <1>10 DEF NextStatusForPr, PrObservableStatuses
<1> QED
  BY <1>6, <1>9, <1>11

LEMMA ReportsKeep ==
  ASSUME MemoryInv, NEW r \in MemoryRuns, NEW e \in PrReports, ObservePr(r, e)
  PROVE  MemoryInv'
<1> DEFINE status == NextStatusForPr(book[r].status, e)
           es == EventsFor(book[r], e)
           next == After(book[r], status, es, book[r].calling)
<1>1. /\ book[r] \in RememberedRuns /\ today \in Nat /\ Dated(book[r], today)
      /\ Launched(book[r]) /\ Marked(book[r]) /\ book[r].status \in PrObservableStatuses
      /\ book[r].status # NoStatus => book[r].created >= 1
  BY BookTypes DEF ObservePr
<1>2. /\ AddedToday(es)
      /\ status \in {"complete", "blocked", "review_required", "pr_open"}
      /\ status = "blocked" => "run_blocked" \in Kinds(es)
      /\ status = "review_required" =>
           book[r].status = "review_required" \/ "risk_escalated" \in Kinds(es)
  BY <1>1, PrEventsExplain
<1>3. Commit(r, next)
  BY <1>1, CallingKept DEF ObservePr, Observed
<1> HIDE DEF status, es
<1>4. status \in RunStatuses /\ book[r].calling \in {"no", "dispatch", "retry"}
      /\ book[r].created >= 1
  <2>1. status \in RunStatuses
    BY <1>2 DEF RunStatuses, ActiveStatuses, TerminalStatuses
  <2>2. book[r].calling \in {"no", "dispatch", "retry"}
    BY <1>1 DEF RememberedRuns
  <2>3. book[r].status # NoStatus
    BY <1>1 DEF NoStatus, PrObservableStatuses
  <2> QED
    BY <1>1, <2>1, <2>2, <2>3
<1>5. next.status = status /\ next.calling = book[r].calling /\ next.jobs = book[r].jobs
  <2>1. Follows(next, book[r], status, es, book[r].calling)
    BY <1>1, <1>2, <1>4, MovedRuns
  <2> QED
    BY <2>1 DEF Follows
<1> HIDE DEF next
<1>6. Explained(book[r], next, es)
  BY <1>1, <1>2, <1>5 DEF Explained, Adds, PrObservableStatuses
<1>7. Launched(next)
  BY <1>1, <1>2, <1>5 DEF Launched, PrObservableStatuses, TerminalStatuses, NoStatus
<1>8. book[r].status \notin TerminalStatuses
  BY <1>1 DEF PrObservableStatuses, TerminalStatuses
<1> QED
  BY <1>1, <1>2, <1>3, <1>4, <1>6, <1>7, <1>8, MovesKeep DEF next

LEMMA FailuresKeep ==
  ASSUME MemoryInv, NEW r \in MemoryRuns, NEW e \in PrReports, NEW cost \in Costs,
         ObserveFailure(r, e, cost)
  PROVE  MemoryInv'
<1> DEFINE es == EventsFor(book[r], e)
           open == Observed(r, e)
           spent == [open EXCEPT !.jobs =
                       [i \in DOMAIN @ |-> IF cost = NoCost THEN @[i]
                                           ELSE [@[i] EXCEPT !.cost = cost]]]
<1>1. /\ book[r] \in RememberedRuns /\ today \in Nat \ {0} /\ today \in Nat
      /\ Dated(book[r], today) /\ Launched(book[r]) /\ Marked(book[r])
      /\ book[r].status \in PrObservableStatuses /\ book[r].created >= 1
      /\ book[r].calling = "no" /\ book[r].jobs # <<>>
  <2>1. book[r].status \in PrObservableStatuses /\ book[r].calling = "no"
    BY DEF ObserveFailure
  <2> QED
    BY <2>1, BookTypes DEF PrObservableStatuses, NoStatus, Launched
<1>2. AddedToday(es)
  BY <1>1, PrEventsExplain
<1>3. open.status = "pr_open"
      /\ \/ Commit(r, Moved(open, "review_required", <<Event("risk_escalated", "change_freeze")>>))
         \/ Commit(r, Moved(spent, "review_required",
                             <<Event("run_blocked", "remediation_denied")>>))
         \/ Commit(r, After(spent, "agent_running", <<>>, "retry"))
  BY DEF ObserveFailure, After
<1>4. NextStatusForPr(book[r].status, e) = "pr_open"
  BY <1>1, <1>3 DEF Observed, Moved, RememberedRuns
<1>5. open = After(book[r], "pr_open", es, book[r].calling)
  BY <1>1, <1>4, CallingKept DEF Observed
<1> HIDE DEF open, es
<1>6. /\ open \in RememberedRuns /\ open.status = "pr_open" /\ open.calling = "no"
      /\ open.trail = book[r].trail \o es /\ open.jobs = book[r].jobs
      /\ open.created = book[r].created /\ open.approved = book[r].approved
  <2>1. "pr_open" \in RunStatuses /\ book[r].calling \in {"no", "dispatch", "retry"}
    BY <1>1 DEF RunStatuses, ActiveStatuses
  <2>2. Follows(open, book[r], "pr_open", es, book[r].calling)
    BY <1>1, <1>2, <1>5, <2>1, MovedRuns
  <2> QED
    BY <1>1, <2>2 DEF Follows
<1>7. open.since = IF book[r].status = "pr_open" THEN book[r].since ELSE today
  BY <1>1, <1>5 DEF After, Moved, RememberedRuns
<1>8. Dated(open, today) /\ Marked(open)
  <2>1. Explained(book[r], open, es)
    BY <1>6 DEF Explained
  <2>2. open.approved <= today /\ open.created >= 1
    BY <1>1, <1>6 DEF Dated
  <2> QED
    BY <1>1, <1>2, <1>6, <1>7, <2>1, <2>2, MarksMove
<1>9. /\ spent \in RememberedRuns /\ spent.status = "pr_open" /\ spent.calling = "no"
      /\ spent.trail = open.trail /\ spent.created = open.created
      /\ spent.since = open.since /\ spent.approved = open.approved
      /\ spent.jobs # <<>>
  <2> DEFINE jobs == [i \in DOMAIN open.jobs |->
                        IF cost = NoCost THEN open.jobs[i] ELSE [open.jobs[i] EXCEPT !.cost = cost]]
  <2>1. open.jobs \in Seq(MemoryJobs) /\ open.jobs # <<>>
    BY <1>1, <1>6 DEF RememberedRuns
  <2>2. Len(open.jobs) \in Nat /\ DOMAIN open.jobs = 1..Len(open.jobs)
        /\ \A i \in DOMAIN open.jobs : open.jobs[i] \in MemoryJobs
    BY <2>1
  <2>3. \A i \in DOMAIN open.jobs : jobs[i] \in MemoryJobs
    BY <2>2 DEF MemoryJobs
  <2>4. jobs \in [1..Len(open.jobs) -> MemoryJobs]
    BY <2>2, <2>3
  <2>5. jobs \in Seq(MemoryJobs)
    BY <2>2, <2>4
  <2>6. jobs # <<>>
    <3>1. 1 \in DOMAIN open.jobs
      BY <2>1, <2>2
    <3> QED
      BY <3>1
  <2>7. spent = [open EXCEPT !.jobs = jobs]
    OBVIOUS
  <2> HIDE DEF jobs
  <2> QED
    BY <1>6, <2>5, <2>6, <2>7 DEF RememberedRuns
<1> HIDE DEF spent
<1>10. Marked(spent)
  BY <1>6, <1>8, <1>9, MarksStay
<1>11. Dated(spent, today) /\ spent.created >= 1 /\ open.created >= 1 /\ open.jobs # <<>>
  BY <1>1, <1>6, <1>8, <1>9 DEF Dated
<1>12. /\ Overwritten(book[r]) => Overwritten(open) /\ Overwritten(spent)
       /\ book[r].status \notin TerminalStatuses
  <2>1. Overwritten(book[r]) => Overwritten(open)
    BY <1>1, <1>2, <1>6, OverwritesStay DEF RememberedRuns, AddedToday
  <2>2. Overwritten(open) => Overwritten(spent)
    BY <1>9 DEF Overwritten, EventsOf
  <2> QED
    BY <2>1, <2>2, <1>1 DEF PrObservableStatuses, TerminalStatuses
<1>13. ASSUME NEW run \in {open, spent}, NEW type \in {"risk_escalated", "run_blocked"},
              NEW why \in EventReasons,
              Commit(r, Moved(run, "review_required", <<Event(type, why)>>))
       PROVE  MemoryInv'
  <2> DEFINE added == <<Event(type, why)>>
             next == After(run, "review_required", added, "no")
  <2>1. /\ run \in RememberedRuns /\ run.status = "pr_open" /\ run.calling = "no"
        /\ run.jobs # <<>> /\ run.created >= 1 /\ Dated(run, today) /\ Marked(run)
    BY <1>6, <1>8, <1>9, <1>10, <1>11
  <2>2. AddedToday(added) /\ Kinds(added) = {type}
    BY <1>1, OneIsAdded DEF EventNames
  <2>3. next = Moved(run, "review_required", added)
    BY <2>1, CallingKept
  <2>4. Commit(r, next)
    BY <1>13, <2>3
  <2> HIDE DEF added
  <2>5. "review_required" \in RunStatuses
    BY DEF RunStatuses, ActiveStatuses
  <2>6. next.status = "review_required" /\ next.calling = "no" /\ next.jobs # <<>>
    <3>1. Follows(next, run, "review_required", added, "no")
      BY <1>1, <2>1, <2>2, <2>5, MovedRuns
    <3> QED
      BY <2>1, <3>1 DEF Follows
  <2> HIDE DEF next
  <2>7. Explained(run, next, added)
    BY <2>2, <2>6 DEF Explained, Adds
  <2>8. Launched(next)
    BY <2>6 DEF Launched, NoStatus
  <2> QED
    BY <1>12, <2>1, <2>2, <2>4, <2>5, <2>7, <2>8, MovesKeep DEF next
<1>14. ASSUME Commit(r, After(spent, "agent_running", <<>>, "retry"))
       PROVE  MemoryInv'
  <2> DEFINE next == After(spent, "agent_running", <<>>, "retry")
  <2>1. AddedToday(<<>>) /\ "agent_running" \in RunStatuses
    BY NoneIsAdded DEF RunStatuses, ActiveStatuses
  <2>2. next.status = "agent_running" /\ next.calling = "retry" /\ next.jobs # <<>>
    <3>1. Follows(next, spent, "agent_running", <<>>, "retry")
      BY <1>1, <1>9, <2>1, MovedRuns
    <3> QED
      BY <1>9, <3>1 DEF Follows
  <2> HIDE DEF next
  <2>3. Explained(spent, next, <<>>)
    BY <2>2 DEF Explained
  <2>4. Launched(next)
    BY <2>2 DEF Launched, NoStatus
  <2> QED
    BY <1>9, <1>10, <1>11, <1>14, <1>12, <2>1, <2>3, <2>4, MovesKeep DEF next
<1>15. "change_freeze" \in EventReasons /\ "remediation_denied" \in EventReasons
  BY DEF EventReasons
<1> QED
  BY <1>3, <1>13, <1>14, <1>15

LEMMA AnswersKeep ==
  ASSUME MemoryInv, NEW r \in MemoryRuns, NEW provider \in Providers, AgentAnswers(r, provider)
  PROVE  MemoryInv'
<1> DEFINE run == book[r]
           expected == IF run.calling = "dispatch" THEN "approved" ELSE "agent_running"
           type == IF run.calling = "dispatch" THEN "agent_started" ELSE "remediation_requested"
           job == [repo |-> MemoryTickets[run.ticket].repo, provider |-> provider, cost |-> NoCost]
           es == <<Event(type, "none")>>
           next == book'[r]
<1>1. /\ book \in [MemoryRuns -> RememberedRuns] /\ run \in RememberedRuns
      /\ DOMAIN outcomeRow = MemoryRuns
      /\ today \in 1..LastDay /\ today \in Nat \ {0} /\ today \in Nat
      /\ Dated(run, today) /\ Launched(run) /\ Marked(run) /\ run.calling \in {"dispatch", "retry"}
      /\ Len(run.trail) <= MaxTrail /\ RowTells(run, outcomeRow[r], r \in lost)
  BY BookTypes DEF AgentAnswers, MemoryInv, RememberedRuns
<1>2. run.status # NoStatus /\ run.created >= 1
  BY <1>1 DEF Launched, Dated
<1>3. book' = [book EXCEPT ![r] =
         [run EXCEPT !.calling = "no",
                     !.jobs = Append(@, job),
                     !.trail = Append(@, Event(type, "none")),
                     !.status = IF @ = expected THEN "agent_running" ELSE @,
                     !.since = IF run.status = expected THEN today ELSE @]]
      /\ outcomeRow' = outcomeRow /\ lost' = lost /\ today' = today
      /\ Len(run.trail) < MaxTrail
  BY DEF AgentAnswers
<1>4. /\ type \in EventNames /\ type \in {"agent_started", "remediation_requested"}
      /\ "none" \in EventReasons
  BY DEF EventNames, EventReasons
<1>5. AddedToday(es) /\ Kinds(es) = {type}
  BY <1>1, <1>4, OneIsAdded
<1>6. job \in MemoryJobs /\ Event(type, "none") \in TrailEvents
  BY <1>1, <1>4 DEF MemoryJobs, RememberedRuns, Event, TrailEvents
<1>7. run.jobs \in Seq(MemoryJobs) /\ run.trail \in Seq(TrailEvents)
      /\ Append(run.trail, Event(type, "none")) = run.trail \o es
  <2>1. run.jobs \in Seq(MemoryJobs) /\ run.trail \in Seq(TrailEvents)
    BY <1>1 DEF RememberedRuns
  <2>2. \A older \in Seq(TrailEvents), e \in TrailEvents : Append(older, e) = older \o <<e>>
    BY AppendIsConcat
  <2> QED
    BY <1>6, <2>1, <2>2
<1>8. /\ Append(run.jobs, job) \in Seq(MemoryJobs)
      /\ Len(Append(run.jobs, job)) = Len(run.jobs) + 1 /\ Len(run.jobs) \in Nat
      /\ Append(run.trail, Event(type, "none")) \in Seq(TrailEvents)
      /\ Len(Append(run.trail, Event(type, "none"))) = Len(run.trail) + 1
      /\ Len(run.trail) \in Nat /\ MaxTrail \in Nat
  BY <1>6, <1>7, MemoryAssumption
<1>9. /\ next.calling = "no" /\ next.jobs = Append(run.jobs, job)
      /\ next.trail = Append(run.trail, Event(type, "none"))
      /\ next.status = (IF run.status = expected THEN "agent_running" ELSE run.status)
      /\ next.since = (IF run.status = expected THEN today ELSE run.since)
      /\ next.created = run.created /\ next.approved = run.approved /\ next.ticket = run.ticket
      /\ next \in RememberedRuns
  <2>1. "agent_running" \in RunStatuses
    BY DEF RunStatuses, ActiveStatuses
  <2> QED
    BY <1>1, <1>3, <1>8, <2>1 DEF RememberedRuns
<1>10. \A q \in MemoryRuns : q # r => book'[q] = book[q]
  BY <1>1, <1>3
<1> HIDE DEF es, job
<1>11. /\ run.calling = "dispatch" => Len(next.jobs) = 1 /\ type = "agent_started"
       /\ run.calling = "dispatch" => run.status \in {"approved"} \cup TerminalStatuses
       /\ run.calling = "retry" => Len(next.jobs) >= 2
  <2>1. run.calling = "dispatch" => Len(run.jobs) = 0
    BY <1>1 DEF Launched
  <2>2. run.calling = "retry" => Len(run.jobs) >= 1
    <3>1. run.calling = "retry" => run.jobs # <<>>
      BY <1>1 DEF Launched
    <3>2. Len(run.jobs) = 0 => run.jobs = <<>>
      BY <1>7
    <3> QED
      BY <1>8, <3>1, <3>2
  <2> QED
    BY <1>1, <1>8, <1>9, <2>1, <2>2 DEF Launched
<1> HIDE DEF next
<1>12. Explained(run, next, es)
  <2>1. type \notin {"approval_requested"} \cup TerminalEvents
    BY <1>4 DEF TerminalEvents
  <2>2. next.status = run.status \/ next.status = "agent_running"
    BY <1>9
  <2>3. next.status = "agent_running" /\ Len(next.jobs) = 1 =>
          type = "agent_started" /\ next.since = today
    BY <1>1, <1>9, <1>11 DEF TerminalStatuses
  <2> QED
    BY <1>5, <2>1, <2>2, <2>3 DEF Explained, Adds
<1>13. Dated(next, today) /\ Marked(next)
  <2>1. next.trail = run.trail \o es
    BY <1>7, <1>9
  <2>2. next.approved <= today
    BY <1>1, <1>9 DEF Dated
  <2>3. \/ next.since = (IF next.status = run.status THEN run.since ELSE today)
        \/ (next.status = "agent_running" /\ next.since = today)
    BY <1>9
  <2> QED
    BY <1>1, <1>2, <1>5, <1>9, <1>12, <2>1, <2>2, <2>3, MarksMove
<1>14. Launched(next)
  <2>1. next.jobs # <<>>
    BY <1>8, <1>9
  <2>2. next.status \notin {NoStatus, "waiting_approval"}
    BY <1>1, <1>2, <1>9 DEF Launched, NoStatus
  <2> QED
    BY <1>9, <2>1, <2>2 DEF Launched
<1>15. RowTells(next, outcomeRow[r], r \in lost)
  <2>1. Overwritten(run) => Overwritten(next)
    BY <1>5, <1>7, <1>9, OverwritesStay DEF AddedToday
  <2>2. run.status \in TerminalStatuses => next.status = run.status
    BY <1>1, <1>9 DEF TerminalStatuses
  <2>3. (next.status \notin TerminalStatuses \/ r \in lost) =>
          (outcomeRow[r] = NoRow \/ Overwritten(next))
    BY <1>1, <2>1, <2>2 DEF RowTells
  <2> SUFFICES ASSUME next.status \in TerminalStatuses, r \notin lost
               PROVE  RowTells(next, outcomeRow[r], r \in lost)
    BY <2>3 DEF RowTells
  <2>4. next.status = run.status
    BY <1>9 DEF TerminalStatuses
  <2>5. /\ outcomeRow[r] # NoRow
        /\ ApartFromJobs(outcomeRow[r]) = ApartFromJobs(DeriveOutcome(run))
        /\ outcomeRow[r].jobs \in 0..Len(run.jobs)
    BY <1>1, <2>4 DEF RowTells
  <2>6. ApartFromJobs(DeriveOutcome(next)) = ApartFromJobs(DeriveOutcome(run))
    BY <1>1, <1>4, <1>5, <1>7, <1>9, <2>4, OutcomesKeep
  <2>7. Len(next.jobs) = Len(run.jobs) + 1 /\ Len(run.jobs) \in Nat
    BY <1>8, <1>9
  <2> QED
    BY <2>5, <2>6, <2>7 DEF RowTells
<1>16. Len(next.trail) <= MaxTrail
  BY <1>3, <1>8, <1>9
<1>17. book' \in [MemoryRuns -> RememberedRuns]
  BY <1>1, <1>3, <1>9 DEF next
<1>18. \A q \in MemoryRuns :
        /\ Dated(book'[q], today') /\ Launched(book'[q]) /\ Marked(book'[q])
        /\ Len(book'[q].trail) <= MaxTrail
        /\ Legible(outcomeRow'[q], today')
        /\ RowTells(book'[q], outcomeRow'[q], q \in lost')
  <2> TAKE q \in MemoryRuns
  <2>1. /\ outcomeRow' = outcomeRow /\ today' = today /\ lost' = lost
        /\ Legible(outcomeRow[q], today)
    BY <1>3 DEF MemoryInv
  <2>2. CASE q = r
    BY <2>1, <2>2, <1>13, <1>14, <1>15, <1>16 DEF next
  <2>3. CASE q # r
    BY <2>1, <2>3, <1>10 DEF MemoryInv
  <2> QED
    BY <2>2, <2>3
<1> QED
  BY <1>1, <1>3, <1>17, <1>18 DEF MemoryInv

LEMMA DaysKeep == MemoryInv /\ DayPasses => MemoryInv'
<1> SUFFICES ASSUME MemoryInv, DayPasses PROVE MemoryInv'
  OBVIOUS
<1>1. today' = today + 1 /\ today' \in 1..LastDay /\ book' = book /\ outcomeRow' = outcomeRow
      /\ lost' = lost /\ today \in Nat
  BY MemoryAssumption DEF DayPasses, MemoryInv
<1>2. \A r \in MemoryRuns :
        /\ Dated(book[r], today') /\ Launched(book[r]) /\ Marked(book[r])
        /\ Len(book[r].trail) <= MaxTrail
        /\ Legible(outcomeRow[r], today')
        /\ RowTells(book[r], outcomeRow[r], r \in lost)
  <2> TAKE r \in MemoryRuns
  <2>1. /\ Launched(book[r]) /\ Marked(book[r]) /\ Len(book[r].trail) <= MaxTrail
        /\ RowTells(book[r], outcomeRow[r], r \in lost)
        /\ Legible(outcomeRow[r], today) /\ Legible(outcomeRow[r], today')
        /\ Dated(book[r], today)
    BY <1>1 DEF MemoryInv, Legible
  <2>2. book[r].created \in Nat /\ book[r].since \in Nat /\ book[r].approved \in Nat
    BY DEF MemoryInv, RememberedRuns
  <2>3. Dated(book[r], today')
    BY <1>1, <2>1, <2>2 DEF Dated
  <2> QED
    BY <1>1, <2>1, <2>3
<1> QED
  BY <1>1, <1>2 DEF MemoryInv

LEMMA BackfillKeeps ==
  ASSUME MemoryInv, NEW recompute \in BOOLEAN, Backfill(recompute)
  PROVE  MemoryInv'
<1>1. PICK told \in SUBSET {r \in MemoryRuns : book[r].status \in TerminalStatuses} :
        /\ outcomeRow' = [r \in MemoryRuns |->
             IF r \in told THEN DeriveOutcome(book[r]) ELSE outcomeRow[r]]
        /\ lost' = lost \ told
        /\ book' = book /\ today' = today
  BY DEF Backfill
<1>2. today \in Nat /\ lost' \subseteq MemoryRuns /\ DOMAIN outcomeRow' = MemoryRuns
  BY <1>1, MemoryAssumption DEF MemoryInv
<1>3. \A r \in MemoryRuns :
        Legible(outcomeRow'[r], today) /\ RowTells(book[r], outcomeRow'[r], r \in lost')
  <2> TAKE r \in MemoryRuns
  <2>1. CASE r \in told
    <3>1. /\ outcomeRow'[r] = DeriveOutcome(book[r]) /\ r \notin lost'
          /\ book[r].status \in TerminalStatuses
      BY <1>1, <2>1
    <3>2. /\ book[r] \in RememberedRuns /\ Dated(book[r], today)
          /\ book[r].created \in Nat /\ book[r].created >= 1 /\ book[r].created <= today
      BY <3>1, BookTypes DEF Dated, TerminalStatuses, NoStatus
    <3>3. Len(book[r].jobs) \in Nat
      BY <3>2 DEF RememberedRuns
    <3>4. Legible(outcomeRow'[r], today)
      BY <1>2, <3>1, <3>2, <3>3, RowsAreRows, LatestIsDated DEF Legible
    <3>5. RowTells(book[r], outcomeRow'[r], r \in lost')
      BY <3>1, <3>3, RowsAreRows DEF RowTells
    <3> QED
      BY <3>4, <3>5
  <2>2. CASE r \notin told
    <3>1. outcomeRow'[r] = outcomeRow[r] /\ (r \in lost' <=> r \in lost)
      BY <1>1, <2>2
    <3> QED
      BY <3>1 DEF MemoryInv, RowTells
  <2> QED
    BY <2>1, <2>2
<1> QED
  BY <1>1, <1>2, <1>3 DEF MemoryInv

LEMMA MemoryNext == MemoryInv /\ [NextMemory]_memoryVars => MemoryInv'
<1> SUFFICES ASSUME MemoryInv, [NextMemory]_memoryVars PROVE MemoryInv'
  OBVIOUS
<1>1. ASSUME NEW r \in MemoryRuns, NEW t \in DOMAIN MemoryTickets, PlanRun(r, t)
      PROVE  MemoryInv'
  BY <1>1, PlansKeep
<1>2. ASSUME NEW r \in MemoryRuns, ApproveRun(r) PROVE MemoryInv'
  BY <1>2, ApprovalsKeep
<1>3. ASSUME NEW r \in MemoryRuns, AgentRefuses(r) PROVE MemoryInv'
  BY <1>3, RefusalsKeep
<1>4. ASSUME NEW r \in MemoryRuns, EndMemoryRun(r) PROVE MemoryInv'
  BY <1>4, EndingsKeep
<1>5. ASSUME NEW r \in MemoryRuns, NEW p \in Providers, AgentAnswers(r, p) PROVE MemoryInv'
  BY <1>5, AnswersKeep
<1>6. ASSUME NEW r \in MemoryRuns, NEW e \in PrReports, ObservePr(r, e) PROVE MemoryInv'
  BY <1>6, ReportsKeep
<1>7. ASSUME NEW r \in MemoryRuns, NEW e \in PrReports, NEW c \in Costs, ObserveFailure(r, e, c)
      PROVE  MemoryInv'
  BY <1>7, FailuresKeep
<1>8. CASE DayPasses
  BY <1>8, DaysKeep
<1>9. CASE UNCHANGED memoryVars
  BY <1>9 DEF memoryVars, MemoryInv
<1>10. ASSUME NEW recompute \in BOOLEAN, Backfill(recompute) PROVE MemoryInv'
  BY <1>10, BackfillKeeps
<1> QED
  BY <1>1, <1>2, <1>3, <1>4, <1>5, <1>6, <1>7, <1>8, <1>9, <1>10 DEF NextMemory

MemorySpec == InitMemory /\ [][NextMemory]_memoryVars

\* However dispatches, retries, reports, endings and backfills interleave,
\* whatever answer comes after the end and whichever rows could not be
\* written: a run that ended has the outcome row a backfill would derive of
\* its trail, unless the log says that recording it failed; and a run without
\* such a row has none, unless a refused dispatch wrote over its ending.
THEOREM OutcomesTellTheTrail == MemorySpec => []OutcomeRowsHold
<1>1. MemoryInv => OutcomeRowsHold
  BY DEF MemoryInv, RowTells, OutcomeRowsHold
<1> QED
  BY <1>1, MemoryInit, MemoryNext, PTL DEF MemorySpec

LEMMA MarksAreClocks == MemoryInv => ClocksAreFaithful
<1> SUFFICES ASSUME MemoryInv, NEW r \in MemoryRuns
             PROVE  LET run == book[r] IN
                    /\ run.status \in {"waiting_approval", "needs_clarification"} =>
                         WaitSince(r) = run.since
                    /\ run.status = "review_required" => WaitSince(r) >= run.since
                    /\ run.status = "blocked" => FailedAt(r) = run.since
                    /\ run.status = "execution_failed" => FailedAt(r) >= run.since
                    /\ run.status = "agent_running" /\ Len(run.jobs) = 1 /\ run.calling = "no" =>
                         RunningSince(r) = run.since
                    /\ run.status = "pr_open" =>
                         ReviewQueue[r].inactive <= ReviewQueue[r].unreviewed
  BY DEF ClocksAreFaithful
<1> DEFINE run == book[r]
<1>1. /\ run \in RememberedRuns /\ today \in Nat /\ Dated(run, today) /\ Marked(run)
      /\ run.created \in Nat /\ run.created <= today
  BY BookTypes DEF Dated
<1>2. run.status = "needs_clarification" => WaitSince(r) = run.created
  <2>1. EventsOf(run, {}) = {}
    BY DEF EventsOf
  <2> QED
    BY <2>1 DEF WaitSince, WaitMarkers, LatestAt
<1>3. run.status = "pr_open" => ReviewQueue[r].inactive <= ReviewQueue[r].unreviewed
  <2> SUFFICES ASSUME run.status = "pr_open"
               PROVE  ReviewQueue[r].inactive <= ReviewQueue[r].unreviewed
    OBVIOUS
  <2>1. ReviewQueue[r] =
          [unreviewed |-> today - OpenedSince(r), inactive |-> today - ActiveSince(r)]
    BY DEF ReviewQueue, RunsIn
  <2>2. OpenedSince(r) \in Nat
    BY <1>1, LatestIsDated DEF OpenedSince
  <2>3. ActiveSince(r) \in Nat
    BY <1>1, <2>2, LatestIsDated DEF ActiveSince
  <2>4. OpenedSince(r) <= ActiveSince(r)
    BY <1>1 DEF OpenedSince, ActiveSince, Marked
  <2> QED
    BY <1>1, <2>1, <2>2, <2>3, <2>4
<1> QED
  BY <1>1, <1>2, <1>3 DEF Marked, WaitSince, WaitMarkers, FailedAt, FailureMarkers, RunningSince

\* Whatever events follow, the clock an operator reads of a run shows since
\* when it has been where it is, or a later event of the same kind.
THEOREM ClocksTellTheTruth == MemorySpec => []ClocksAreFaithful
BY MarksAreClocks, MemoryInit, MemoryNext, PTL DEF MemorySpec

LEMMA MemoryAlone == ServicesSpec => MemorySpec
<1>1. [NextServices]_servicesVars => [NextMemory]_memoryVars
  BY DEF NextServices, servicesVars, OthersStay, Still
<1> QED
  BY <1>1, PTL DEF ServicesSpec, InitServices, MemorySpec

\* The same, of the run that checks every component.
THEOREM MemoryIsKept == ServicesSpec => []MemoryHolds
<1>1. OutcomeRowsHold => MemoryHolds
  BY DEF MemoryHolds
<1> QED
  BY <1>1, MemoryAlone, OutcomesTellTheTrail, PTL

\* The clocks, of the run that checks every component.
THEOREM ClocksAreKept == ServicesSpec => []ClocksHold
<1>1. ClocksAreFaithful => ClocksHold
  BY DEF ClocksHold
<1> QED
  BY <1>1, MemoryAlone, ClocksTellTheTruth, PTL
=============================================================================
