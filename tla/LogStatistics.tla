--------------------------- MODULE LogStatistics ---------------------------
(***************************************************************************)
(* What the pages make of the rows of request_log: services/logservice.go  *)
(* and the heatmap of the main page (frontend data/usageHeatmap.ts).       *)
(*                                                                         *)
(* Times are in whole hours.  SQLite writes created_at as the text of the  *)
(* UTC time; the bounds of the queries are texts of local times; so the    *)
(* database compares numbers of different clocks.  The zone is what local  *)
(* time is ahead of UTC and does not change: no day has 23 or 25 hours,    *)
(* and all years are alike.                                                *)
(***************************************************************************)
EXTENDS Integers, Sequences, FiniteSetsExt, Functions

CONSTANTS
  HoursPerDay,  \* 24
  HoursPerYear, \* 365 days
  HeatmapDays,  \* DEFAULT_HEATMAP_DAYS
  ListLimit     \* the rows that the page of the logs asks for

ASSUME DaysAssumption == HoursPerDay \in Nat \ {0} /\ HeatmapDays \in Nat \ {0} /\ ListLimit \in 1..1000
ASSUME YearAssumption ==
  HoursPerYear \in Nat /\ HoursPerYear % HoursPerDay = 0 /\ HoursPerYear >= (HeatmapDays + 2) * HoursPerDay

Kinds == {"input", "output", "cache"}
Tokens(i, o, c) == [input |-> i, output |-> o, cache |-> c]
NoTokens == Tokens(0, 0, 0)
Plus(s, t) == [k \in Kinds |-> s[k] + t[k]]

All == "all"  \* no filter
OfPlatform(row, platform) == platform \in {All, row.platform}
OfProvider(row, provider) == provider \in {All, row.provider}

\* parseCreatedAt: the local time of a row.
createdAt(row, zone) == row.time + zone

startOfDay(t) == HoursPerDay * (t \div HoursPerDay)
YearOf(t) == t \div HoursPerYear

Success(code) == 200 <= code /\ code < 300

\* The tokens of the rows with these ids.
Spent(rows, ids) == [k \in Kinds |-> SumFunctionOnSet([i \in ids |-> rows[i].tokens[k]], ids)]

\* WHERE created_at >= from.
Since(rows, from) == {i \in DOMAIN rows : rows[i].time >= from}

-----------------------------------------------------------------------------
(* The day of the pages.                                                   *)

\* Mutation: the query starts where the day does.
Today_NoMargin(rows, now, zone, platform) ==
  LET start == startOfDay(now + zone) IN
  {i \in Since(rows, start) :
     OfPlatform(rows[i], platform) /\ createdAt(rows[i], zone) \in start .. start + HoursPerDay - 1}

Today(rows, now, zone, platform) ==
  LET start == startOfDay(now + zone) IN
  {i \in Since(rows, start - HoursPerDay) :
     OfPlatform(rows[i], platform) /\ createdAt(rows[i], zone) \in start .. start + HoursPerDay - 1}

StatsSince(rows, now, zone, platform) ==
  LET today == Today(rows, now, zone, platform)
      bucket(h) == {i \in today : createdAt(rows[i], zone) - startOfDay(now + zone) = h}
  IN [total |-> Cardinality(today), tokens |-> Spent(rows, today),
      series |-> [h \in 0 .. HoursPerDay - 1 |->
                    [total |-> Cardinality(bucket(h)), tokens |-> Spent(rows, bucket(h))]]]

ProviderDailyStats(rows, now, zone, platform) ==
  LET today == Today(rows, now, zone, platform)
      of(p) == {i \in today : rows[i].provider = p}
      good(p) == {i \in of(p) : Success(rows[i].code)}
  IN [p \in {rows[i].provider : i \in today} |->
        [total |-> Cardinality(of(p)), successful |-> Cardinality(good(p)),
         failed |-> Cardinality(of(p) \ good(p)), tokens |-> Spent(rows, of(p))]]

ListProviders(rows, platform) == {rows[i].provider : i \in {j \in DOMAIN rows : OfPlatform(rows[j], platform)}}

\* The ids of the rows listed, the newest ones.
ListRequestLogs(rows, platform, provider) ==
  LET ids == {i \in DOMAIN rows : OfPlatform(rows[i], platform) /\ OfProvider(rows[i], provider)} IN
  {i \in ids : Cardinality({j \in ids : j > i}) < ListLimit}

-----------------------------------------------------------------------------
(* The heatmap.                                                            *)

\* By local hour, at most as many hours as asked for, the latest ones.
HeatmapStats(rows, now, zone) ==
  LET hours == HeatmapDays * HoursPerDay
      found == Since(rows, now + zone - (hours - 1))
      keys == {createdAt(rows[i], zone) : i \in found}
      bucket(h) == {i \in found : createdAt(rows[i], zone) = h}
  IN [h \in {k \in keys : Cardinality({l \in keys : l > k}) < hours} |->
        [total |-> Cardinality(bucket(h)), tokens |-> Spent(rows, bucket(h))]]

\* The hours that have a cell: HeatmapDays whole days, to the end of this one.
Cells(now, zone) ==
  LET start == startOfDay(now + zone) IN
  start - (HeatmapDays - 1) * HoursPerDay .. start + HoursPerDay - 1

\* Format("01-02 15"): month, day and hour, without the year; the page puts in the year that is now.
dayText(h) == h % HoursPerYear
normalizeStatKey(text, now, zone) == HoursPerYear * YearOf(now + zone) + text

\* The statistics that come to the same key are added up.
buildUsageHeatmapMatrix(stats, now, zone) ==
  LET of(h) == {k \in DOMAIN stats : normalizeStatKey(dayText(k), now, zone) = h}
      sum(field, h) == SumFunctionOnSet([k \in of(h) |-> field[k]], of(h))
      total == [k \in DOMAIN stats |-> stats[k].total]
      tokens(kind) == [k \in DOMAIN stats |-> stats[k].tokens[kind]]
  IN [h \in Cells(now, zone) |->
        [total |-> sum(total, h), tokens |-> [kind \in Kinds |-> sum(tokens(kind), h)]]]
=============================================================================
