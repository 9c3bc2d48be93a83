------------------------------- MODULE MCService -------------------------------
EXTENDS Service, TLC

Symmetry == Permutations(Jobs)

\* Two days that every backend can be told, and a list that dowRange misreads.
Monday == <<Number(1)>>
Sunday == <<Number(7)>>
WeekdaysAndSunday == <<Between(1, 5), Number(0)>>

Schedules == {Monday, Sunday, WeekdaysAndSunday}

\* Every backend, and every field of one or two items that is no list with a range in it.
ASSUME PlainIsExact ==
  \A b \in {"systemd", "launchd", "schtasks"} :
    \A f \in {<<i>> : i \in Item} \cup {<<i, j>> : i, j \in Item} :
      Valid(f) /\ Plain(f) => Translation(b, f) \in {DaysOf(f), Untranslatable}
=============================================================================
