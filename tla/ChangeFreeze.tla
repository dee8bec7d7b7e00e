----------------------------- MODULE ChangeFreeze -----------------------------
(****************************************************************************)
(* active_freeze (policy/freeze.py), the verdict RunLifecycle's Remediate   *)
(* takes before an autonomous retry, over a clock and the operator's        *)
(* windows.                                                                 *)
(*                                                                          *)
(* A recurring window is [days, start, end, zone]: weekdays 0..6, minutes   *)
(* of the local day.  An absolute window is [from, to], two instants.  A    *)
(* zone is the offset of its local clock at each instant, so that clocks    *)
(* can be put forward and back.                                             *)
(****************************************************************************)
EXTENDS Integers, Sequences, FiniteSets

CONSTANTS
  DayMinutes,        \* minutes in a day; checked with fewer than 24 * 60
  LastMinute,        \* bound on the clock; minute 0 begins a Monday in UTC
  Zones,             \* zone -> minute -> offset of the local clock
  WindowsOffered,    \* windows an operator may configure
  MaxWindows,        \* bound on the windows configured at once
  NoWindow

Recurring(w) == "days" \in DOMAIN w

\* The fields as they are parsed: weekdays, times of a day, a zone that exists.
ASSUME FreezeAssumption ==
  /\ DayMinutes \in Nat \ {0} /\ LastMinute \in Nat /\ MaxWindows \in Nat
  /\ \A zone \in DOMAIN Zones : Zones[zone] \in [0..LastMinute -> Int]
  /\ \A w \in WindowsOffered : Recurring(w) =>
       /\ w.days \subseteq 0..6 /\ w.zone \in DOMAIN Zones
       /\ w.start \in 0..DayMinutes - 1 /\ w.end \in 0..DayMinutes - 1
  /\ NoWindow \notin WindowsOffered

VARIABLES
  minute,        \* now, in UTC minutes
  freezes        \* the configured windows, in order

freezeVars == <<minute, freezes>>

InitFreeze == minute = 0 /\ freezes = <<>>

\* validate_window.
WellFormed(w) ==
  IF Recurring(w)
  THEN w.days # {} /\ w.start # w.end
  ELSE w.from < w.to

AddWindow(w) ==
  /\ WellFormed(w)
  /\ Len(freezes) < MaxWindows
  /\ freezes' = Append(freezes, w)
  /\ UNCHANGED minute

DropWindow ==
  /\ freezes # <<>>
  /\ freezes' = Tail(freezes)
  /\ UNCHANGED minute

MinutePasses ==
  /\ minute < LastMinute
  /\ minute' = minute + 1
  /\ UNCHANGED freezes

NextFreeze ==
  \/ \E w \in WindowsOffered : AddWindow(w)
  \/ DropWindow \/ MinutePasses

----------------------------------------------------------------------------
\* _duration_minutes: an end that is not after the start wraps midnight.
Duration(w) ==
  IF w.end > w.start THEN w.end - w.start ELSE w.end - w.start + DayMinutes

\* now.astimezone(zone): minutes since the local Monday.
LocalTime(zone) == minute + Zones[zone][minute]

\* Slip: only today's anchor is looked at.
ActiveTodayOnly(w) ==
  IF Recurring(w)
  THEN LET local == LocalTime(w.zone)
           day == local \div DayMinutes
       IN  /\ day % 7 \in w.days
           /\ local - day * DayMinutes - w.start \in 0..Duration(w) - 1
  ELSE w.from <= minute /\ minute < w.to

\* _window_active: a window that began today or yesterday, by the weekday it
\* began on.
WindowActive(w) ==
  IF Recurring(w)
  THEN LET local == LocalTime(w.zone)
       IN  \E offset \in {0, 1} :
             LET day == local \div DayMinutes - offset
             IN  /\ day % 7 \in w.days
                 /\ local - day * DayMinutes - w.start \in 0..Duration(w) - 1
  ELSE w.from <= minute /\ minute < w.to

\* active_freeze: the first active window.
ActiveFreeze(windows) ==
  LET active == {i \in DOMAIN windows : WindowActive(windows[i])}
  IN  IF active = {} THEN NoWindow
      ELSE windows[CHOOSE i \in active : \A j \in active : i <= j]

----------------------------------------------------------------------------
FreezeTypeOK ==
  /\ minute \in 0..LastMinute
  /\ freezes \in Seq(WindowsOffered) /\ Len(freezes) <= MaxWindows

\* What the operator wrote: on each listed weekday the window runs from its
\* start to the next time the local clock reads its end.
FrozenMinutes(w) ==
  {(d * DayMinutes + w.start + k) % (7 * DayMinutes) :
     d \in w.days,
     k \in {j \in 0..DayMinutes - 1 : \A i \in 1..j : (w.start + i) % DayMinutes # w.end}}

\* A window freezes exactly the minutes its weekdays and local times name, over
\* midnight, the end of the week and a change of the clocks; and a freeze "can
\* only ever hold an autonomous action": every window that is active holds,
\* whatever other windows come before it (freeze.py:12-17, 28-33).
FreezeHolds ==
  /\ \A i \in DOMAIN freezes :
       LET w == freezes[i]
       IN  Recurring(w) =>
             (WindowActive(w) <=> LocalTime(w.zone) % (7 * DayMinutes) \in FrozenMinutes(w))
  /\ \A i \in DOMAIN freezes : WindowActive(freezes[i]) => ActiveFreeze(freezes) # NoWindow
  /\ ActiveFreeze(freezes) # NoWindow => WindowActive(ActiveFreeze(freezes))
=============================================================================
