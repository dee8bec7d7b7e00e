----------------------------- MODULE ArtifactKeys -----------------------------
(****************************************************************************)
(* Encryption of artifact payloads at rest (db/encryption.py) and the pass  *)
(* that re-wraps old rows so that a key can be retired (db/maintenance.py,  *)
(* db/cli.py).  Server processes take their keys at startup; the operator   *)
(* changes the configured keys and restarts them one by one.                *)
(*                                                                          *)
(* A stored payload is the key it is encrypted under, or Plain.             *)
(****************************************************************************)
EXTENDS Integers, Sequences

CONSTANTS
  Servers,      \* server processes
  Payloads,     \* artifact rows
  Keys,
  Plain,        \* a payload written without a key
  Unwritten

ASSUME KeysAssumption == Plain \notin Keys /\ Unwritten \notin Keys

VARIABLES
  configured,   \* FOUNDRY_ARTIFACT_ENCRYPTION_KEY: keys, the primary first
  serverKeys,   \* the keys each server started with
  stored,       \* payload -> what is on disk, or Unwritten
  rewrap,       \* the maintenance pass
  primaries     \* primaries some server had since the pass began (history)

keysVars == <<configured, serverKeys, stored, rewrap, primaries>>

Rings == {<<>>} \cup {<<k>> : k \in Keys} \cup {<<k, l>> : k, l \in Keys}

NoPass == [pc |-> "none"]

InitKeys ==
  /\ configured = <<>>
  /\ serverKeys = [s \in Servers |-> <<>>]
  /\ stored = [p \in Payloads |-> Unwritten]
  /\ rewrap = NoPass
  /\ primaries = {}

\* encrypt: under the first key; NullCipher stores plaintext.
Encrypted(ring) == IF ring = <<>> THEN Plain ELSE ring[1]

\* decrypt: any of the keys; what carries no prefix is read as it is.
Readable(value, ring) == value = Plain \/ \E i \in DOMAIN ring : ring[i] = value

\* needs_reencrypt, of a cipher with keys.
NeedsRewrap(value, ring) == value # ring[1]

----------------------------------------------------------------------------
\* The operator prepends a new primary, or drops the other keys.
Rotate(k) ==
  /\ \A i \in DOMAIN configured : configured[i] # k
  /\ Len(configured) < 2
  /\ configured' = <<k>> \o configured
  /\ UNCHANGED <<serverKeys, stored, rewrap, primaries>>

\* A retired key is dropped only once a pass has ended well.
Retire ==
  /\ Len(configured) = 2
  /\ rewrap.pc = "ended" /\ rewrap.failed = {} /\ rewrap.ring[1] = configured[1]
  /\ configured' = <<configured[1]>>
  /\ UNCHANGED <<serverKeys, stored, rewrap, primaries>>

\* configure_cipher_from_key.
Restart(s) ==
  /\ serverKeys' = [serverKeys EXCEPT ![s] = configured]
  /\ primaries' = primaries \cup {Encrypted(configured)}
  /\ UNCHANGED <<configured, stored, rewrap>>

WritePayload(s, p) ==
  /\ stored[p] = Unwritten
  /\ stored' = [stored EXCEPT ![p] = Encrypted(serverKeys[s])]
  /\ UNCHANGED <<configured, serverKeys, rewrap, primaries>>

\* foundry-db reencrypt-artifacts reads every row; without a key it exits.
StartPass ==
  /\ rewrap.pc # "running"
  /\ configured # <<>>
  /\ rewrap' = [pc |-> "running", ring |-> configured, rows |-> stored, failed |-> {}]
  /\ primaries' = {Encrypted(serverKeys[s]) : s \in Servers}
  /\ UNCHANGED <<configured, serverKeys, stored>>

Scanned == {p \in Payloads : rewrap.rows[p] # Unwritten}

\* Slip: plaintext rows count as current.
EndPassSkippingPlain(dryRun) ==
  LET due == {p \in Scanned : rewrap.rows[p] \notin {Plain, rewrap.ring[1]}}
      good == {p \in due : Readable(rewrap.rows[p], rewrap.ring)}
  IN  /\ rewrap.pc = "running"
      /\ stored' = [p \in Payloads |->
                      IF p \in good /\ ~dryRun THEN Encrypted(rewrap.ring) ELSE stored[p]]
      /\ rewrap' = IF dryRun THEN NoPass
                   ELSE [rewrap EXCEPT !.pc = "ended", !.failed = due \ good]
      /\ UNCHANGED <<configured, serverKeys, primaries>>

\* The rows that need it are re-wrapped and committed; a row that cannot be
\* read is counted and left.
EndPass(dryRun) ==
  LET due == {p \in Scanned : NeedsRewrap(rewrap.rows[p], rewrap.ring)}
      good == {p \in due : Readable(rewrap.rows[p], rewrap.ring)}
  IN  /\ rewrap.pc = "running"
      /\ stored' = [p \in Payloads |->
                      IF p \in good /\ ~dryRun THEN Encrypted(rewrap.ring) ELSE stored[p]]
      /\ rewrap' = IF dryRun THEN NoPass
                   ELSE [rewrap EXCEPT !.pc = "ended", !.failed = due \ good]
      /\ UNCHANGED <<configured, serverKeys, primaries>>

CrashPass ==
  /\ rewrap.pc = "running"
  /\ rewrap' = NoPass
  /\ UNCHANGED <<configured, serverKeys, stored, primaries>>

NextKeys ==
  \/ \E k \in Keys : Rotate(k)
  \/ \E s \in Servers : Restart(s)
  \/ \E s \in Servers, p \in Payloads : WritePayload(s, p)
  \/ Retire \/ StartPass \/ CrashPass
  \/ \E dryRun \in BOOLEAN : EndPass(dryRun)

----------------------------------------------------------------------------
KeysTypeOK ==
  /\ configured \in Rings
  /\ serverKeys \in [Servers -> Rings]
  /\ stored \in [Payloads -> Keys \cup {Plain, Unwritten}]
  /\ primaries \subseteq Keys \cup {Plain}
  /\ rewrap # NoPass => rewrap.pc \in {"running", "ended"} /\ rewrap.ring \in Rings

\* A pass that ended without a failure, while no server wrote under another
\* primary, leaves every row under the primary alone, the rows written since
\* included: the other keys can be dropped ("so the retired key can finally be
\* retired", db/maintenance.py:17-19).
RetiredKeysAreUnused ==
  rewrap.pc = "ended" /\ rewrap.failed = {} /\ primaries \subseteq {rewrap.ring[1]} =>
    \A p \in Payloads : stored[p] \in {Unwritten, rewrap.ring[1]}
=============================================================================
