------------------------------- MODULE Calendar -------------------------------
(***************************************************************************)
(* The day-of-week field of a cron expression and what the OS schedulers   *)
(* are told for it: cronToCalendar and dowRange of                         *)
(* internal/service/systemd.go, cronToCalendarInterval of launchd.go,      *)
(* cronToSchtasks and schtasksDOW of schtasks.go.                          *)
(*                                                                         *)
(* A field is a list of items, each a number or a range of numbers.  It    *)
(* stands for the whole expression, whose other fields say nothing more    *)
(* about the order of installs, failures and restarts.                     *)
(***************************************************************************)
EXTENDS Integers, Sequences

CONSTANT Untranslatable   \* the verdict of a translation that refuses

Days == 0..6

\* 7 is Sunday too.
Day(n) == n % 7

Item == {[lo |-> n, hi |-> n, range |-> FALSE] : n \in 0..7}
        \cup {[lo |-> a, hi |-> b, range |-> TRUE] : a \in 0..7, b \in 0..7}

Number(n) == [lo |-> n, hi |-> n, range |-> FALSE]
Between(a, b) == [lo |-> a, hi |-> b, range |-> TRUE]

\* What gocron's parser accepts.
Valid(f) == f # <<>> /\ \A k \in DOMAIN f : f[k].lo <= f[k].hi

\* The days on which a cron expression with this field fires.
DaysOf(f) == UNION {{Day(n) : n \in f[k].lo..f[k].hi} : k \in DOMAIN f}

HasRange(f) == \E k \in DOMAIN f : f[k].range

\* SplitN(field, "-", 2): the first number before the first dash, and the first after it.  If the
\* range ends before it begins, no day is named.
SplitRange(f) ==
  LET k == CHOOSE i \in DOMAIN f : f[i].range /\ \A m \in DOMAIN f : f[m].range => i <= m
  IN {Day(n) : n \in f[1].lo..f[k].hi}

ListDays(f) == {Day(f[k].lo) : k \in DOMAIN f}

\* What systemd and schtasks are told.
Named(f) == IF HasRange(f) THEN SplitRange(f) ELSE ListDays(f)

\* The field as the backend passes it on; launchd has no ranges and no lists.
Translation(backend, f) ==
  IF backend = "launchd" /\ (Len(f) > 1 \/ HasRange(f)) THEN Untranslatable ELSE Named(f)

\* The day of the next firing, from a given day on; none if there is none.
NextDay(days, today) ==
  {d \in days : \A e \in days : (d - today) % 7 <= (e - today) % 7}

\* verifyCalendar: systemd names the next firing, and herdr-cron its own prediction.
VerifierAgrees(f, today) == NextDay(Named(f), today) = NextDay(DaysOf(f), today)
=============================================================================
