----------------------------- MODULE RateLimiter -----------------------------
(****************************************************************************)
(* RateLimiter.check (api/ratelimit.py): a fixed window of admitted         *)
(* requests per key, kept in the memory of one server process, as the       *)
(* _rate_limit middleware uses it.  A key is a bucket and a client.         *)
(*                                                                          *)
(* Time is counted in ticks, TicksPerSecond of them to the second, because  *)
(* a refused client is told a number of whole seconds.                      *)
(****************************************************************************)
EXTENDS Integers, Sequences, FiniteSets

CONSTANTS
  Clients,            \* keys that are rate limited
  RateLimit,          \* admitted requests per window
  RateWindow,         \* length of a window, in ticks
  TicksPerSecond,
  SweepThreshold,     \* table size beyond which stale windows are dropped
  MaxTick             \* bound on the clock

ASSUME LimiterAssumption ==
  /\ RateLimit \in Nat \ {0}
  /\ RateWindow \in Nat \ {0}
  /\ TicksPerSecond \in Nat \ {0}
  /\ SweepThreshold \in Nat
  /\ MaxTick \in Nat

VARIABLES
  tick,        \* the monotonic clock
  buckets,     \* key -> [start, count], for the keys in the table
  admitted,    \* key -> the ticks of its admitted requests (history)
  answer       \* the latest answer (history)

limiterVars == <<tick, buckets, admitted, answer>>

Windows == [start : 0..MaxTick, count : 0..RateLimit]

LimiterTypeOK ==
  /\ tick \in 0..MaxTick
  /\ DOMAIN buckets \subseteq Clients
  /\ \A c \in DOMAIN buckets : buckets[c] \in Windows
  /\ admitted \in [Clients -> Seq(0..MaxTick)]

InitLimiter ==
  /\ tick = 0
  /\ buckets = <<>>
  /\ admitted = [c \in Clients |-> <<>>]
  /\ answer = [allowed |-> TRUE]

Elapsed(window) == tick - window.start >= RateWindow

\* _sweep: drop the entries whose window is over.
Swept ==
  IF Cardinality(DOMAIN buckets) > SweepThreshold
  THEN [c \in {d \in DOMAIN buckets : ~Elapsed(buckets[d])} |-> buckets[c]]
  ELSE buckets

\* Slip: the window never starts again for a key that is already in the table.
EverlastingWindow(table, c) ==
  IF c \in DOMAIN table THEN table[c] ELSE [start |-> tick, count |-> 0]

\* The window a request of c falls into.
CurrentWindow(table, c) ==
  IF c \in DOMAIN table /\ ~Elapsed(table[c])
  THEN table[c]
  ELSE [start |-> tick, count |-> 0]

\* Whole seconds until the window resets, rounded up: int(... + 0.999).
RetryAfter(window) ==
  LET left == window.start + RateWindow - tick
      seconds == (left + TicksPerSecond - 1) \div TicksPerSecond
  IN  IF seconds > 1 THEN seconds ELSE 1

\* Slip: the window that is full takes one more.
FitsOneMore(window) == window.count <= RateLimit

Fits(window) == window.count < RateLimit

\* check: an admitted request is counted, a refused one is not.
Admit(c) ==
  LET window == CurrentWindow(Swept, c)
      counted == [window EXCEPT !.count = @ + 1]
  IN  /\ Fits(window)
      /\ buckets' = [d \in DOMAIN Swept \cup {c} |->
                       IF d = c THEN counted ELSE Swept[d]]
      /\ admitted' = [admitted EXCEPT ![c] = Append(@, tick)]
      /\ answer' = [allowed |-> TRUE]
      /\ UNCHANGED tick

Refuse(c) ==
  LET window == CurrentWindow(Swept, c)
  IN  /\ ~Fits(window)
      /\ buckets' = Swept
      /\ answer' = [allowed |-> FALSE, client |-> c, at |-> tick,
                    window |-> window.start, retry |-> RetryAfter(window)]
      /\ UNCHANGED <<tick, admitted>>

Tick ==
  /\ tick < MaxTick
  /\ tick' = tick + 1
  /\ UNCHANGED <<buckets, admitted, answer>>

NextLimiter ==
  \/ \E c \in Clients : Admit(c) \/ Refuse(c)
  \/ Tick

----------------------------------------------------------------------------
AdmittedWithin(c, from, to) ==
  Cardinality({i \in DOMAIN admitted[c] : admitted[c][i] \in from..to})

\* No interval of one window's length admits more than two windows' worth:
\* the "small boundary burst" of ratelimit.py, sweeps included.
BurstBounded ==
  \A c \in Clients, from \in 0..tick :
    AdmittedWithin(c, from, from + RateWindow - 1) <= 2 * RateLimit

\* A client is refused only if it spent its limit within the last window, and
\* when the seconds it was told have passed, that window no longer counts: a
\* client that keeps hammering "cannot starve itself past the reset".
RefusalEnds ==
  ~answer.allowed =>
    /\ AdmittedWithin(answer.client, answer.at - RateWindow + 1, answer.at) >= RateLimit
    /\ tick >= answer.at + answer.retry * TicksPerSecond =>
         CurrentWindow(buckets, answer.client).start # answer.window

\* Both promises of the limiter.
LimiterKeepsItsWord == BurstBounded /\ RefusalEnds
=============================================================================
