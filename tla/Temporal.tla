------------------------------ MODULE Temporal ------------------------------
(***************************************************************************)
(* Time expressions.  A question or a turn is a sequence of tokens: words  *)
(* and expressions ("last week", "2023-03-08", "a month ago").  Resolving  *)
(* one against a reference time gives a range and the text to show for it, *)
(* again in tokens, so that what a second pass finds in the first one's    *)
(* result is found here too.                                               *)
(*                                                                         *)
(* A question is rewritten by the LongMem runner and once more by the      *)
(* retriever.  A turn is rewritten with markers, a language model extracts *)
(* entities from it, and their names are repaired before they are written; *)
(* but not when the turn gave no hints, nor when it fell back to its raw   *)
(* text because the first attempt failed.                                  *)
(*                                                                         *)
(* Days are numbered from the first of MinYear; an instant is an hour, the *)
(* last hour of a day stands for its end.  Wording is abstracted: a token  *)
(* is what the patterns make of it.                                        *)
(***************************************************************************)
EXTENDS Integers, Sequences, FiniteSets, SequencesExt, Lists

CONSTANTS
  MinYear, MaxYear,   \* the years that a date can have
  FirstWeekday,       \* of the first of MinYear; Monday is 0
  Policy,             \* last_weekday_policy
  PartHour,           \* hour of "morning" .. "night"
  Refs,               \* reference times [y, m, d, h]
  Asked, Spoken,      \* texts: questions, and turns of a session
  Forms,              \* how the model may write a time it was given
  Invented,           \* entities it may name of its own accord
  MaxNamed            \* bound: entities it extracts from a turn

ASSUME CalendarAssumption ==
  /\ MinYear \in Nat /\ MaxYear \in Nat /\ MinYear < MaxYear /\ FirstWeekday \in 0..6
  /\ Policy \in {"nearest_previous", "previous_calendar_week"}
ASSUME TextsAssumption == \A t \in Asked \cup Spoken : t \in Seq(ToSet(t))
ASSUME NamesAssumption ==
  /\ MaxNamed \in Nat
  /\ \A ent \in Invented : ent.bracket \in BOOLEAN /\ ent.name \in Seq(ToSet(ent.name))

VARIABLES
  ref, passage, leg,
  outcome, again,       \* the text after the first and after the second rewrite
  hints,                \* hints of the turn
  entities, relations   \* entities [type, name, bracket]; pairs of names

textVars == <<ref, passage, leg, outcome, again, hints, entities, relations>>

-----------------------------------------------------------------------------
(* The calendar. *)
IsLeap(y) == y % 4 = 0 /\ (y % 100 # 0 \/ y % 400 = 0)
DaysIn(y, m) ==
  IF m = 2 THEN (IF IsLeap(y) THEN 29 ELSE 28) ELSE IF m \in {4, 6, 9, 11} THEN 30 ELSE 31
NewYear[y \in MinYear..(MaxYear + 1)] ==
  IF y = MinYear THEN 0 ELSE NewYear[y - 1] + (IF IsLeap(y - 1) THEN 366 ELSE 365)
Elapsed == [y \in MinYear..MaxYear |->
              LET before[m \in 1..12] == IF m = 1 THEN NewYear[y] ELSE before[m - 1] + DaysIn(y, m - 1)
              IN before]
Days == 0..(NewYear[MaxYear + 1] - 1)
Years == MinYear..MaxYear
Exists(y, m, d) == y \in Years /\ m \in 1..12 /\ d \in 1..DaysIn(y, m)
Outside == -1
Day(y, m, d) == IF Exists(y, m, d) THEN Elapsed[y][m] + d - 1 ELSE Outside

Civil == [n \in Days |->
            LET y == CHOOSE y \in Years : NewYear[y] <= n /\ n < NewYear[y + 1]
                m == CHOOSE m \in 1..12 : Elapsed[y][m] <= n /\ n < Elapsed[y][m] + DaysIn(y, m)
            IN [y |-> y, m |-> m, d |-> n - Elapsed[y][m] + 1]]
Weekday(n) == (n + FirstWeekday) % 7
Monday(n) == n - Weekday(n)
Instant(n, h) == 24 * n + h

RefDay(r) == Day(r.y, r.m, r.d)
Least(a, b) == IF a < b THEN a ELSE b
Greatest(a, b) == IF a > b THEN a ELSE b

(* The day is clamped to the month: January 31st and a month is the end of     *)
(* February.                                                                   *)
MonthNumber(c) == 12 * c.y + c.m - 1
MonthNumbered(k) == [y |-> k \div 12, m |-> (k % 12) + 1]
MonthAt(n, k) == MonthNumbered(MonthNumber(Civil[n]) + k)
Clamped(t, d) == IF t.y \in Years THEN Day(t.y, t.m, Least(d, DaysIn(t.y, t.m))) ELSE Outside
Rolled(t, d) == IF t.y \in Years THEN Day(t.y, t.m, 1) + d - 1 ELSE Outside
AddMonthsRolling(n, k) == Rolled(MonthAt(n, k), Civil[n].d)
AddMonths(n, k) == Clamped(MonthAt(n, k), Civil[n].d)
AddYears(n, k) == AddMonths(n, 12 * k)

-----------------------------------------------------------------------------
(* Tokens and results.  A date outside the calendar raises.                    *)
Word(w) == [kind |-> "word", w |-> w]
DateToken(c) == [kind |-> "date", y |-> c.y, m |-> c.m, d |-> c.d]
DateOf(n) == IF n \in Days THEN DateToken(Civil[n]) ELSE Word("none")
ClockOf(h) == [kind |-> "clock", h |-> h % 24, half |-> ""]
Part(p, off) == [kind |-> "part", part |-> p, off |-> off]
IsExpr(t) == t.kind \notin {"word", "number", "marker", "instant"}

Result(g, from, to, shown) ==
  [status |-> IF from < 0 \/ to < 0 \/ from \div 24 \notin Days \/ to \div 24 \notin Days THEN "raised"
              ELSE IF from > to THEN "invalid" ELSE "resolved",
   gran |-> g, start |-> from, end |-> to, op |-> "", shown |-> shown]
Between(g, a, b, shown) ==
  Result(g, IF a \in Days THEN Instant(a, 0) ELSE -1, IF b \in Days THEN Instant(b, 23) ELSE -1,
         shown)
OneDay(n) == Between("day", n, n, <<DateOf(n)>>)
Span(a, b) == <<DateOf(a), Word("to"), DateOf(b)>>
WeekOf(n) == <<Word("week of"), DateOf(n)>>
Failed(status) ==
  [status |-> status, gran |-> "", start |-> -1, end |-> -1, op |-> "", shown |-> <<>>]

-----------------------------------------------------------------------------
(* The resolvers, one for each category.                                       *)
AbsoluteDate(e) == IF Exists(e.y, e.m, e.d) THEN OneDay(Day(e.y, e.m, e.d)) ELSE Failed("invalid")

AbsoluteTime(e, r) ==
  LET h == CASE e.half = "pm" /\ e.h # 12 -> e.h + 12 [] e.half = "am" /\ e.h = 12 -> 0 [] OTHER -> e.h
  IN IF (e.half # "" /\ e.h \notin 1..12) \/ e.h \notin 0..23 THEN Failed("invalid")
     ELSE Result("time", Instant(RefDay(r), h), Instant(RefDay(r), h), <<ClockOf(h)>>)

PartOfDay(p, n) ==
  LET i == IF n \in Days THEN Instant(n, PartHour[p]) ELSE -1
  IN Result("range", i, i, <<Part(p, 0), Word("of"), DateOf(n)>>)
RelativeDayPart(e, r) == PartOfDay(e.part, RefDay(r) + e.off)
DayPartTime(e, r) == PartOfDay(e.part, RefDay(r))

Hours(e, r) ==
  LET i == Instant(RefDay(r), r.h) + e.n IN Result("time", i, i, <<ClockOf(i)>>)

WeekdayTarget(e, n) ==
  LET back == (Weekday(n) - e.wd) % 7
      ahead == (e.wd - Weekday(n)) % 7
  IN CASE e.mod = "this" -> Monday(n) + e.wd
       [] e.mod = "last" /\ Policy = "previous_calendar_week" -> Monday(n) - 7 + e.wd
       [] e.mod = "last" -> n - (IF back = 0 THEN 7 ELSE back)
       [] OTHER -> n + (IF ahead = 0 THEN 7 ELSE ahead)

RelativeDay(e, n) == OneDay(n + e.off)
RelativeWeekday(e, n) == OneDay(WeekdayTarget(e, n))

WholeMonth(t) ==
  Between("month", Day(t.y, t.m, 1), Clamped(t, 31), <<[kind |-> "monthof", y |-> t.y, m |-> t.m]>>)

(* "n units ago" and "in the last n units": a window is shown as the unit in   *)
(* which it begins.                                                            *)
Back(e, n) ==
  CASE e.unit = "day" -> n - e.n
    [] e.unit = "week" -> n - 7 * e.n
    [] e.unit = "month" -> AddMonths(n, -e.n)
    [] OTHER -> AddYears(n, -e.n)
UnitShown(e, n) ==
  CASE e.unit = "day" -> <<DateOf(n - e.n)>>
    [] e.unit = "week" -> WeekOf(Monday(n) - 7 * e.n)
    [] e.unit = "month" -> WholeMonth(MonthAt(n, -e.n)).shown
    [] OTHER -> <<[kind |-> "number", y |-> Civil[n].y - e.n]>>
WindowFor(e, from, n) ==
  IF e.kind = "ago" THEN OneDay(from) ELSE Between(e.unit, from, n, UnitShown(e, n))
RelativeWindow(e, n) == WindowFor(e, Back(e, n), n)

Shift(mod) == CASE mod = "last" -> -1 [] mod = "this" -> 0 [] OTHER -> 1
WholeWeek(m) == Between("week", m, m + 6, WeekOf(m))
WeekPoint(e, n) ==
  WholeWeek(Monday(n) + 7 * Shift(e.mod))
AnchoredWeek(e) ==
  IF ~Exists(e.y, e.m, e.d) THEN Failed("unresolved")
  ELSE WholeWeek(Monday(Day(e.y, e.m, e.d))
                 + (CASE e.op = "before" -> -7 [] e.op = "after" -> 7 [] OTHER -> 0))

TwoDays(s) == Between("weekend", s, s + 1, Span(s, s + 1))
Weekend(e, n) == TwoDays(Monday(n) + 5 + 7 * Shift(e.mod))

MonthPoint(e, n) == WholeMonth(MonthAt(n, Shift(e.mod)))

(* Spring is 0 and winter 3; a winter is named for the year it begins in.      *)
SeasonDays(s, y) ==
  IF s < 3 THEN <<Day(y, 3 * s + 3, 1), Day(y, 3 * s + 5, DaysIn(y, 3 * s + 5))>>
  ELSE <<Day(y, 12, 1), Day(y + 1, 2, DaysIn(y + 1, 2))>>
WholeSeason(s, y) ==
  Between("season", SeasonDays(s, y)[1], SeasonDays(s, y)[2],
          <<[kind |-> "seasonof", s |-> s, y |-> y]>>)
SeasonPoint(e, n) ==
  LET near == (Civil[n].y - 2)..(Civil[n].y + 2)
      past == {y \in near : SeasonDays(e.s, y)[2] < n}
      future == {y \in near : SeasonDays(e.s, y)[1] > n}
      now == {y \in near : SeasonDays(e.s, y)[1] <= n /\ n <= SeasonDays(e.s, y)[2]}
      label == CASE e.mod = "last" -> CHOOSE y \in past : \A z \in past : z <= y
                 [] e.mod = "next" -> CHOOSE y \in future : \A z \in future : y <= z
                 [] now # {} -> CHOOSE y \in now : TRUE
                 [] OTHER -> Civil[n].y
  IN WholeSeason(e.s, label)

WholeYear(y) == Between("year", Day(y, 1, 1), Day(y, 12, 31), <<[kind |-> "number", y |-> y]>>)

(* The first or last week of a month is cut to the month.                      *)
MonthWeek(e) ==
  LET a == Day(e.y, e.m, 1)
      b == Day(e.y, e.m, DaysIn(e.y, e.m))
      w == Monday(IF e.which = "first" THEN a ELSE b)
  IN IF e.y \notin Years THEN Failed("raised") ELSE Between("range", Greatest(a, w), Least(b, w + 6), <<e>>)

(* Vague phrases.  The years of "a few years ago" are not clamped.             *)
SameDate(c, k) == Day(c.y + k, c.m, c.d)
VagueDays(e, n) ==
  CASE e.what = "a few days ago" -> <<n - 5, n - 2>>
    [] e.what = "the other day" -> <<n - 4, n - 1>>
    [] e.what = "a few weeks ago" -> <<n - 28, n - 14>>
    [] e.what = "a few years ago" -> <<SameDate(Civil[n], -5), SameDate(Civil[n], -2)>>
    [] e.what = "a while ago" -> <<n - 14, n>>
    [] OTHER -> <<n - 7, n>>
DaysFromTo(days) == Between("range", days[1], days[2], Span(days[1], days[2]))
Vague(e, n) == DaysFromTo(VagueDays(e, n))

ResolvePoint(e, r) ==
  LET n == RefDay(r)
  IN CASE e.kind = "date" -> AbsoluteDate(e)
       [] e.kind = "clock" -> AbsoluteTime(e, r)
       [] e.kind = "day" -> RelativeDay(e, n)
       [] e.kind = "part" /\ e.off = 0 -> DayPartTime(e, r)
       [] e.kind = "part" -> RelativeDayPart(e, r)
       [] e.kind = "hours" -> Hours(e, r)
       [] e.kind = "weekday" -> RelativeWeekday(e, n)
       [] e.kind \in {"ago", "inlast"} -> RelativeWindow(e, n)
       [] e.kind = "week" -> WeekPoint(e, n)
       [] e.kind = "weekof" -> AnchoredWeek(e)
       [] e.kind = "weekend" -> Weekend(e, n)
       [] e.kind = "month" -> MonthPoint(e, n)
       [] e.kind = "monthof" -> WholeMonth(e)
       [] e.kind = "season" -> SeasonPoint(e, n)
       [] e.kind = "seasonof" -> WholeSeason(e.s, e.y)
       [] e.kind = "year" -> WholeYear(Civil[n].y + Shift(e.mod))
       [] e.kind = "monthweek" -> MonthWeek(e)
       [] OTHER -> Vague(e, n)

(* before, after, since: a half-open range next to that of the anchor.         *)
Boundary(op, a) ==
  IF a.status = "raised" THEN a
  ELSE IF a.status # "resolved"
       THEN Failed(IF a.status = "unresolved" THEN "partially_resolved" ELSE a.status)
  ELSE [a EXCEPT !.gran = "range", !.op = op, !.shown = <<Word(op)>> \o a.shown,
                 !.start = CASE op = "before" -> -1
                                [] op = "after" -> (IF a.start = a.end THEN a.end ELSE a.end + 1)
                                [] OTHER -> a.start,
                 !.end = IF op = "before" THEN a.start - 1 ELSE -1]

Bounded(e, point) == IF e.kind = "bound" THEN Boundary(e.op, point) ELSE point
ResolveMatch(e, r) == Bounded(e, ResolvePoint(IF e.kind = "bound" THEN e.of ELSE e, r))

-----------------------------------------------------------------------------
(* The classifier.  Of two matches that overlap the longer is taken: a         *)
(* boundary with its anchor, a clock time with the "at" before it.             *)
Operators == {"before", "after", "since"}
OpAt(t, i) == i \in DOMAIN t /\ t[i].kind = "word" /\ t[i].w \in Operators
MatchAt(t, i) ==
  IF OpAt(t, i - 1) /\ t[i].kind # "vague"
  THEN [from |-> i - 1, to |-> i, e |-> [kind |-> "bound", op |-> t[i - 1].w, of |-> t[i]]]
  ELSE [from |-> IF t[i].kind = "clock" /\ i > 1 /\ t[i - 1] = Word("at") THEN i - 1 ELSE i,
        to |-> i, e |-> t[i]]

ConstraintAt(t, r, i) ==
  LET match == MatchAt(t, i)
  IN [from |-> match.from, to |-> match.to, res |-> ResolveMatch(match.e, r)]
Constraints(t, r) ==
  LET places == Sorted({i \in DOMAIN t : IsExpr(t[i])})
  IN [k \in DOMAIN places |-> ConstraintAt(t, r, places[k])]
Raised(t, r) == \E c \in Range(Constraints(t, r)) : c.res.status = "raised"

(* Rewriting goes from right to left, so that what was found before a place    *)
(* stays where it was found.  A preposition in the text is not doubled.        *)
Prepositions == {"from", "since", "on", "in", "during", "before", "after"}
Preceded(t, i) == i > 1 /\ t[i - 1].kind = "word" /\ t[i - 1].w \in Prepositions
PrefixFor(g) ==
  CASE g = "day" -> "on" [] g = "time" -> "at"
    [] g \in {"week", "weekend", "season", "range"} -> "during" [] OTHER -> "in"
StartOf(res) == res.start \div 24

Replacement(t, c) ==
  LET body == IF c.res.gran = "day" THEN <<DateOf(StartOf(c.res))>> ELSE c.res.shown
  IN IF c.res.op # "" THEN c.res.shown
     ELSE IF Preceded(t, c.from) THEN body ELSE <<Word(PrefixFor(c.res.gran))>> \o body

Put(t, c, piece) == SubSeq(t, 1, c.from - 1) \o piece \o SubSeq(t, c.to + 1, Len(t))
PutIn(t, c, piece) == IF c.res.status = "resolved" THEN Put(t, c, piece) ELSE t
RewriteFromLeft(t, r) ==
  FoldLeft(LAMBDA acc, c : PutIn(acc, c, Replacement(t, c)), t, Constraints(t, r))
Replaced(t, cs, pieces) ==
  LET n == Len(cs)
      \* After the last k of the n constraints.
      last[k \in 0..n] == IF k = 0 THEN t ELSE PutIn(last[k - 1], cs[n - k + 1], pieces[n - k + 1])
  IN last[n]
Rewrite(t, r) ==
  LET cs == Constraints(t, r) IN Replaced(t, cs, [k \in DOMAIN cs |-> Replacement(t, cs[k])])

-----------------------------------------------------------------------------
(* Hints and the marker entities they promise; the last of two expressions     *)
(* with the same text is the one that is kept.                                 *)
MarkerOf(res) ==
  CASE res.gran = "day" -> [type |-> "Date", name |-> <<DateOf(StartOf(res))>>]
    [] res.gran = "time" -> [type |-> "Time", name |-> <<[kind |-> "instant", at |-> res.start]>>]
    [] OTHER -> [type |-> "Timespan", name |-> res.shown]
HintOf(t, c) ==
  [original |-> SubSeq(t, c.from, c.to), gran |-> c.res.gran, marker |-> MarkerOf(c.res),
   to |-> IF c.res.gran = "day" THEN <<DateOf(StartOf(c.res))>> ELSE c.res.shown, shown |-> c.res.shown]
Found(cs) == {k \in DOMAIN cs : cs[k].res.status = "resolved"}
HintsFrom(t, cs) ==
  LET same(k, l) == SubSeq(t, cs[k].from, cs[k].to) = SubSeq(t, cs[l].from, cs[l].to)
      kept == Reverse(At(cs, {k \in Found(cs) : \A l \in Found(cs) : l > k => ~same(k, l)}))
  IN [k \in DOMAIN kept |-> HintOf(t, kept[k])]
HintsOf(t, r) == HintsFrom(t, Constraints(t, r))

(* The turn as the model sees it: a marker in the place of each time.          *)
MarkerToken(c) == [kind |-> "marker", type |-> MarkerOf(c.res).type, name |-> MarkerOf(c.res).name]
Augmented(t, r) ==
  LET cs == Constraints(t, r) IN Replaced(t, cs, [k \in DOMAIN cs |-> <<MarkerToken(cs[k])>>])

(* The repair of extracted names.  A name is resolved by the hint for it, or   *)
(* on its own if it has no date, by the first expression in it; one that stays *)
(* and ends exactly one marker of its type becomes that marker.                *)
TimeTypes == {"Date", "Time", "Timespan"}
HasDate(name) == \E i \in DOMAIN name : name[i].kind \in {"date", "weekof"}
HintFor(hs, name) == {h \in Range(hs) : h.original = name}
FirstHint(t, cs) == HintOf(t, cs[CHOOSE k \in Found(cs) : \A l \in Found(cs) : k <= l])
ByItself(name, cs) == IF HasDate(name) \/ Found(cs) = {} THEN name ELSE FirstHint(name, cs).to
ResolvedName(hs, r, name) ==
  IF HintFor(hs, name) # {} THEN (CHOOSE h \in HintFor(hs, name) : TRUE).to
  ELSE ByItself(name, Constraints(name, r))
Completed(hs, ent, name) ==
  LET full == {m \in {hs[k].marker : k \in DOMAIN hs} : m.type = ent.type /\ IsStrictSuffix(name, m.name)}
  IN IF name = ent.name /\ Cardinality(full) = 1 THEN (CHOOSE m \in full : TRUE).name ELSE name
TimeName(hs, r, ent) == Completed(hs, ent, ResolvedName(hs, r, ent.name))

(* A name without a hint is parsed, for its value or for its metadata.         *)
NameRaises(hs, r, ent) ==
  ent.type \in TimeTypes /\ HintFor(hs, ent.name) = {} /\ Raised(ent.name, r)

(* An event loses the markers and the phrases in its name, if something stays. *)
WithoutPhrase(name, phrase) ==
  LET at == {i \in 1..Len(name) : IsPrefix(phrase, SubSeq(name, i, Len(name)))}
      rest == IF at = {} THEN name
              ELSE LET i == CHOOSE i \in at : \A j \in at : i <= j
                   IN SubSeq(name, 1, i - 1) \o SubSeq(name, i + Len(phrase), Len(name))
  IN IF rest = <<>> THEN name ELSE rest
EventName(hs, name) ==
  FoldLeft(LAMBDA acc, h : WithoutPhrase(acc, h.original),
           SelectSeq(name, LAMBDA t : t.kind # "marker"), hs)

NewName(hs, r, ent) ==
  CASE ent.type \in TimeTypes -> TimeName(hs, r, ent)
    [] ent.type = "Event" -> EventName(hs, ent.name)
    [] OTHER -> ent.name
TypeFor(h) == CASE h.gran = "day" -> "Date" [] h.gran = "time" -> "Time" [] OTHER -> "Timespan"

(* Markers that were not extracted are added; then hints whose text no entity  *)
(* has for a name.                                                             *)
Plain(type, name) == [type |-> type, name |-> name, bracket |-> FALSE]
Renaming(hs, r, es) == {[ent |-> ent, to |-> NewName(hs, r, ent)] : ent \in es}
Repaired(hs, named) ==
  LET renamed == {Plain(n.ent.type, n.to) : n \in named}
      marked == renamed \cup {Plain(hs[k].marker.type, hs[k].marker.name) : k \in DOMAIN hs}
      names == {ent.name : ent \in marked}
  IN marked \cup {Plain(TypeFor(hs[k]), hs[k].shown) : k \in {j \in DOMAIN hs : hs[j].shown \notin names}}

(* rename_map: the new name by the one the model wrote, brackets included.  Of *)
(* two entities with one name the later in its list decides.                   *)
OriginalName(ent) == <<ent.bracket, ent.name>>
MapsOver(altered) ==
  LET old == {OriginalName(n.ent) : n \in altered}
  IN {map \in [old -> {n.to : n \in altered}] :
        \A end \in old : \E n \in altered : OriginalName(n.ent) = end /\ n.to = map[end]}
RenameMapsUnbracketed(named) == MapsOver({n \in named : n.to # n.ent.name})
RenameMaps(named) == MapsOver({n \in named : n.ent.bracket \/ n.to # n.ent.name})
Follow(map, end) == IF end \in DOMAIN map THEN <<FALSE, map[end]>> ELSE end
RepairedEdges(map, ps) == {<<Follow(map, p[1]), Follow(map, p[2])>> : p \in ps}

(* Whether a day falls into the range of an entity, by its granularity.        *)
WithinCoarseAnyYear(q, res) ==
  LET a == res.start \div 24
      b == IF res.end < 0 THEN a ELSE res.end \div 24
  IN /\ res.start >= 0
     /\ \/ res.gran = "day" /\ q = a
        \/ res.gran = "week" /\ q \in (a - 7)..(b + 7)
        \/ res.gran = "month" /\ Civil[q].m = Civil[a].m
        \/ res.gran = "year" /\ Civil[q].y = Civil[a].y
        \/ res.gran \in {"season", "range"} /\ q \in a..b
WithinCoarse(q, res) ==
  LET a == res.start \div 24
      b == IF res.end < 0 THEN a ELSE res.end \div 24
  IN /\ res.start >= 0
     /\ \/ res.gran = "day" /\ q = a
        \/ res.gran = "week" /\ q \in (a - 7)..(b + 7)
        \/ res.gran = "month" /\ Civil[q].y = Civil[a].y /\ Civil[q].m = Civil[a].m
        \/ res.gran = "year" /\ Civil[q].y = Civil[a].y
        \/ res.gran \in {"season", "range"} /\ q \in a..b

-----------------------------------------------------------------------------
TextInit ==
  /\ ref \in Refs
  /\ \/ leg = "question" /\ passage \in Asked
     \/ leg = "turn" /\ passage \in Spoken
  /\ outcome = <<>> /\ again = <<>> /\ hints = <<>> /\ entities = {} /\ relations = {}

(* The LongMem runner rewrites the question, and the retriever does.           *)
RewriteQuestion ==
  /\ leg = "question" /\ ~Raised(passage, ref)
  /\ outcome' = Rewrite(passage, ref) /\ leg' = "rewritten"
  /\ UNCHANGED <<ref, passage, again, hints, entities, relations>>

RewriteForRetrieval ==
  /\ leg = "rewritten" /\ ~Raised(outcome, ref)
  /\ again' = Rewrite(outcome, ref) /\ leg' = "searched"
  /\ UNCHANGED <<ref, passage, outcome, hints, entities, relations>>

Augment ==
  /\ leg = "turn" /\ ~Raised(passage, ref)
  /\ outcome' = Augmented(passage, ref) /\ hints' = HintsOf(passage, ref) /\ leg' = "augmented"
  /\ UNCHANGED <<ref, passage, again, entities, relations>>

(* Without a usable time of the dialogue nothing is resolved.                  *)
LeaveUndated ==
  /\ leg = "turn"
  /\ outcome' = passage /\ leg' = "undated"
  /\ UNCHANGED <<ref, passage, again, hints, entities, relations>>

(* What the model may name: a time it was given, as the marker says, in        *)
(* brackets, by its end or by the phrase; an event with or without its time;   *)
(* an expression it still reads in the text t; or what it invents.             *)
Written(h, form) ==
  CASE form = "marker" -> [type |-> h.marker.type, name |-> h.marker.name, bracket |-> FALSE]
    [] form = "bracket" -> [type |-> h.marker.type, name |-> h.marker.name, bracket |-> TRUE]
    [] form = "end" -> [type |-> h.marker.type, name |-> <<Last(h.marker.name)>>, bracket |-> FALSE]
    [] OTHER -> [type |-> h.marker.type, name |-> h.original, bracket |-> FALSE]
EventOf(h, form) ==
  Plain("Event", <<Word("party")>> \o
                 (CASE form = "phrase" -> h.original
                    [] form = "bracket" -> <<[kind |-> "marker", type |-> h.marker.type, name |-> h.marker.name]>>
                    [] OTHER -> <<>>))
Nameable(t) ==
  {Written(h, form) : h \in Range(hints), form \in Forms}
  \cup {EventOf(h, form) : h \in Range(hints), form \in Forms}
  \cup {Plain(type, <<t[i]>>) : type \in TimeTypes, i \in {j \in DOMAIN t : IsExpr(t[j])}}
  \cup Invented

(* It may relate any two of them; an edge is repaired by itself, so that they  *)
(* are all there at once.                                                      *)
Names(t) ==
  \E list \in SeqOf(Nameable(t), MaxNamed) :
    /\ entities' = Range(list)
    /\ relations' = LET ends == {OriginalName(ent) : ent \in Range(list)} IN ends \X ends

Extract ==
  /\ leg \in {"augmented", "undated"}
  /\ Names(outcome) /\ leg' = "extracted"
  /\ UNCHANGED <<ref, passage, outcome, again, hints>>

Repair ==
  /\ leg = "extracted" /\ hints # <<>>
  /\ \A ent \in entities : ~NameRaises(hints, ref, ent)
  /\ \E named \in {Renaming(hints, ref, entities)} :
       /\ entities' = Repaired(hints, named)
       /\ \E map \in RenameMaps(named) : relations' = RepairedEdges(map, relations)
  /\ leg' = "repaired"
  /\ UNCHANGED <<ref, passage, outcome, again, hints>>

WriteUnrepaired ==
  /\ leg = "extracted" /\ hints = <<>>
  /\ leg' = "unrepaired"
  /\ UNCHANGED <<ref, passage, outcome, again, hints, entities, relations>>

(* Whatever fails before the turn is written, the resolver included, what was  *)
(* extracted is dropped and the raw text is read instead; the hints are still  *)
(* in the prompt, but not repaired with.                                       *)
FallBack ==
  /\ leg \in {"turn", "augmented", "undated", "extracted"}
  /\ leg' = "fallback" /\ entities' = {} /\ relations' = {}
  /\ UNCHANGED <<ref, passage, outcome, again, hints>>

ExtractRaw ==
  /\ leg = "fallback"
  /\ Names(passage) /\ leg' = "unrepaired"
  /\ UNCHANGED <<ref, passage, outcome, again, hints>>

(* An exception of the resolver ends the question.                             *)
Raise ==
  /\ \/ leg = "question" /\ Raised(passage, ref)
     \/ leg = "rewritten" /\ Raised(outcome, ref)
  /\ leg' = "raised"
  /\ UNCHANGED <<ref, passage, outcome, again, hints, entities, relations>>

TextNext ==
  \/ RewriteQuestion \/ RewriteForRetrieval \/ Raise
  \/ Augment \/ LeaveUndated \/ Extract \/ Repair \/ WriteUnrepaired
  \/ FallBack \/ ExtractRaw

TextSpec == TextInit /\ [][TextNext]_textVars

-----------------------------------------------------------------------------
(* Properties. *)
Expressions(t) == {MatchAt(t, i).e : i \in {j \in DOMAIN t : IsExpr(t[j])}}
NextDay(r) == LET c == Civil[RefDay(r) + 1] IN [y |-> c.y, m |-> c.m, d |-> c.d, h |-> r.h]

(* Asked a day later, an expression never means an earlier range, and no range *)
(* ends before it starts: the day is clamped when a month is too short for it, *)
(* a weekday, a week and a season move on only forwards (_add_months, the      *)
(* resolvers).                                                                 *)
LaterReferenceLaterRange ==
  leg \in {"question", "turn"} =>
    \A e \in Expressions(passage) :
      \E a \in {ResolveMatch(e, ref)} : \E b \in {ResolveMatch(e, NextDay(ref))} :
        a.status = "resolved" /\ b.status = "resolved" =>
           /\ a.start <= b.start /\ a.end <= b.end
           /\ a.start >= 0 /\ a.end >= 0 => a.start <= a.end

(* The name of a time and its range agree: the days that a search by date      *)
(* accepts are those of the range, and those a week around it for a week; and  *)
(* what is shown, when it is one expression, means the same range by itself    *)
(* (date_within_coarse_range, the display value of the resolvers).  A window   *)
(* is shown as the unit it begins in and is not claimed to agree.              *)
NameAndRangeAgree ==
  leg \in {"question", "turn"} =>
    \A e \in Expressions(passage) : \E res \in {ResolveMatch(e, ref)} :
      LET days == (res.start \div 24)..(res.end \div 24)
      IN res.status = "resolved" /\ e.kind \notin {"inlast", "bound", "hours", "clock", "weekend"} =>
           /\ \A q \in Days :
                 IF q \in days THEN WithinCoarse(q, res)
                                ELSE res.gran = "week" \/ ~WithinCoarse(q, res)
           /\ Len(res.shown) = 1 /\ IsExpr(res.shown[1]) =>
                \E same \in {ResolveMatch(res.shown[1], NextDay(ref))} : same.start = res.start /\ same.end = res.end

(* Rewriting changes the expressions and nothing else, each to what it means   *)
(* in the text it stands in, however many there are: the places found in the   *)
(* text stay right while it changes (rewrite_temporal_text,                    *)
(* augment_temporal_text).                                                     *)
Piece(t, c) == IF leg = "augmented" THEN <<MarkerToken(c)>> ELSE Replacement(t, c)
ResolvedAt(cs, i) == {c \in cs : c.res.status = "resolved" /\ c.from <= i /\ i <= c.to}
Segment(t, cs, i) ==
  IF ResolvedAt(cs, i) = {} THEN <<t[i]>>
  ELSE LET c == CHOOSE c \in ResolvedAt(cs, i) : TRUE IN IF c.to = i THEN Piece(t, c) ELSE <<>>
Piecewise(t, cs) ==
  LET upTo[i \in 0..Len(t)] == IF i = 0 THEN <<>> ELSE upTo[i - 1] \o Segment(t, cs, i)
  IN upTo[Len(t)]
OnlyExpressionsChange ==
  /\ leg \in {"rewritten", "augmented"} =>
        \E cs \in {Range(Constraints(passage, ref))} : outcome = Piecewise(passage, cs)
  /\ leg = "searched" => \E cs \in {Range(Constraints(outcome, ref))} : again = Piecewise(outcome, cs)

(* After the repair no time is in brackets or named relative to the turn,      *)
(* whatever the model named: a relative name is left only where it says a date *)
(* besides, or has nothing the resolver can resolve.  The turn's markers are   *)
(* all there, and a relationship of two extracted entities is one of two       *)
(* entities that are there (_repair_temporal_entities).  A turn that is not    *)
(* repaired is not claimed to have such names, nor a clock time to say its day.*)
AbsoluteAt(name, i) ==
  \/ name[i].kind \in {"word", "number", "date", "clock", "monthof", "seasonof", "monthweek", "weekof", "instant"}
  \/ name[i].kind = "part" /\ i + 2 \in DOMAIN name /\ name[i + 1] = Word("of") /\ name[i + 2].kind = "date"
Absolute(name) == \A i \in DOMAIN name : AbsoluteAt(name, i)
GraphNamesAreAbsolute ==
  leg = "repaired" =>
    /\ \A ent \in entities : ent.type \in TimeTypes =>
          ~ent.bracket /\ (Absolute(ent.name) \/ HasDate(ent.name) \/ Found(Constraints(ent.name, ref)) = {})
    /\ \A k \in DOMAIN hints : \E ent \in entities :
          ent.type = hints[k].marker.type /\ ent.name = hints[k].marker.name
    /\ \A p \in relations : \A end \in {p[1], p[2]} : \E ent \in entities : OriginalName(ent) = end

=============================================================================
