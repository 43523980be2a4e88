----------------------------- MODULE MCTemporal -----------------------------
(* Reference times at the ends of months and years and on a leap day, and one   *)
(* text or more for every kind of expression.                                  *)
EXTENDS Temporal

MCPartHour == [morning |-> 9, afternoon |-> 15, evening |-> 19, night |-> 21]

Time(y, m, d, h) == [y |-> y, m |-> m, d |-> d, h |-> h]
MCRefs == {Time(2023, 3, 9, 15), Time(2024, 2, 29, 1), Time(2023, 3, 31, 23), Time(2022, 12, 31, 8), Time(2023, 1, 1, 0)}

Of(kind, mod) == [kind |-> kind, mod |-> mod]
Date(y, m, d) == [kind |-> "date", y |-> y, m |-> m, d |-> d]
Clock(h, half) == [kind |-> "clock", h |-> h, half |-> half]
DayOff(n) == [kind |-> "day", off |-> n]
In(n) == [kind |-> "hours", n |-> n]
On(mod, wd) == [kind |-> "weekday", mod |-> mod, wd |-> wd]
Ago(n, unit) == [kind |-> "ago", n |-> n, unit |-> unit]
InLast(n, unit) == [kind |-> "inlast", n |-> n, unit |-> unit]
Season(mod, s) == [kind |-> "season", mod |-> mod, s |-> s]
AroundWeek(op, y, m, d) == [kind |-> "weekof", op |-> op, y |-> y, m |-> m, d |-> d]
WeekIn(which, y, m) == [kind |-> "monthweek", which |-> which, y |-> y, m |-> m]
Phrase(what) == [kind |-> "vague", what |-> what]
MonthIn(y, m) == [kind |-> "monthof", y |-> y, m |-> m]

W == Word("we")

MCQuestions ==
  {<<W, e>> : e \in
     {Date(2023, 2, 30), Clock(13, "pm"), Clock(12, "am"), In(-2), In(9), DayOff(1),
      Part("night", -1), Part("morning", 0),
      On("this", 2), On("last", 3), On("next", 3), Ago(1, "month"), Ago(4, "week"), Ago(1, "year"), Ago(9, "year"),
      InLast(3, "week"), InLast(4, "month"), InLast(2, "year"), InLast(6, "day"),
      Of("week", "last"), Of("weekend", "next"), Of("month", "last"), Of("year", "last"),
      Season("last", 3), Season("this", 3), Season("next", 0), Season("this", 1),
      AroundWeek("before", 2023, 3, 8), AroundWeek("of", 2023, 2, 29),
      WeekIn("first", 2023, 3), WeekIn("last", 2024, 2)}}
  \cup {<<W, Phrase(p)>> : p \in {"a few days ago", "the other day", "a few weeks ago",
                                 "a few years ago", "a while ago", "lately"}}
  \cup {<<W, Word("since"), Of("week", "last"), W>>, <<W, Word("after"), Date(2023, 3, 8), Word("at"), Clock(5, "pm")>>,
        <<Word("before"), Date(2023, 2, 29), W>>,
        <<Word("during"), Season("last", 1), Word("and"), DayOff(-1), Ago(2, "month")>>}

MCTurns ==
  {<<W, Of("week", "last"), Word("and"), Part("night", -1)>>, <<Word("after"), Clock(5, "pm"), W>>,
   <<DayOff(-1), Word("at"), Clock(9, "pm"), W>>, <<W, MonthIn(2023, 5), Of("weekend", "last")>>, <<W, Phrase("a few years ago")>>,
   <<Word("since"), Of("month", "last"), Of("year", "this")>>, <<W, WeekIn("first", 2023, 6), DayOff(-1)>>,
   <<W, Date(2023, 2, 30)>>, <<W, Ago(9, "year")>>}

\* Times the turn does not say: by a phrase, an hour, with a date, none that can
\* be resolved, and one out of range.
MCInvented ==
  {Plain("Date", <<DayOff(-1)>>), Plain("Time", <<Clock(5, "pm")>>), Plain("Event", <<Word("party"), DayOff(-1)>>),
   [type |-> "Timespan", name |-> <<Of("week", "last"), Word("and"), DayOff(-1)>>, bracket |-> TRUE],
   Plain("Timespan", <<DayOff(-1), Date(2023, 3, 8)>>), Plain("Timespan", <<AroundWeek("before", 2023, 3, 8)>>),
   Plain("Timespan", <<Word("childhood")>>), Plain("Date", <<Ago(9, "year")>>)}

=============================================================================
