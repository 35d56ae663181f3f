--------------------------- MODULE OutlookWeather ---------------------------
(***************************************************************************)
(* From a forecast and the archive to the events of one outlook, and the   *)
(* backtest that feeds the same chain with reconstructed forecasts.        *)
(*                                                                         *)
(* A vintage maps each day it has hours for to [hours, cm].                *)
(***************************************************************************)
EXTENDS SnowEvents

CONSTANTS
    Lookback,   \* observed_lookback_days
    MinHours,   \* min_hours_per_day
    FullDay,    \* the hours of a day that is not cut short
    MaxLead     \* the deepest day the previous-runs API answers for

ASSUME OutlookConstants ==
    /\ Lookback \in Nat \ {0} /\ MaxLead \in Nat \ {0}
    /\ MinHours \in 1 .. FullDay

Cut(s, D) == [d \in DOMAIN s \intersect D |-> s[d]]

\* Days with too few hours are dropped, not scaled.
HourlyToDaily(vintage) ==
    [d \in {e \in DOMAIN vintage : vintage[e].hours >= MinHours} |-> vintage[d].cm]

\* Observed days up to the first forecast day, then the forecast: it wins
\* where they overlap, so that no outcome replaces what was forecast.
Splice(observed, forecast) ==
    LET first == Min(DOMAIN forecast)
    IN  [d \in DOMAIN forecast \union {e \in DOMAIN observed : e < first} |->
            IF d \in DOMAIN forecast THEN forecast[d] ELSE observed[d]]

\* fetch_archive reads [start, end).
FetchArchive(archive, start, end) == Cut(archive, start .. end - 1)

\* Broken variant: only events that begin on or after the issue date.
BegunAfter(events, issue) == {e \in events : e.start >= issue}

\* Events that are over before the issue date are not forecast; a storm in
\* progress is.
Forecast(events, issue) == {e \in events : e.end >= issue}

NoOutlook == [days |-> <<>>, last |-> Null, events |-> {}]

\* build_weather and the part of run_outlook that cuts the events.  Nothing
\* asks that the series reach back to the start of the lookback.
Outlook(rule, issue, observed, forecast) ==
    LET days == Cut(Splice(observed, forecast),
                    issue - Lookback .. Max(DOMAIN forecast))
        last == Max(DOMAIN forecast)
    IN  IF DOMAIN forecast = {} THEN NoOutlook
        ELSE IF ~Contiguous(days) THEN NoOutlook
        ELSE [days   |-> days,
              last   |-> last,
              events |-> Forecast(PortEvents(days, rule), issue)]

TruncatedAtHorizon(outlook, e) == e.end >= outlook.last

StartedBeforeIssue(issue, e) == e.start < issue

\* The scheduled outlook: the archive up to the issue date and a vintage.
VintageOutlook(rule, issue, archive, vintage) ==
    Outlook(rule, issue, FetchArchive(archive, issue - Lookback, issue),
            HourlyToDaily(vintage))

\* --replay-archive: the archive's own days stand in for the forecast.
ReplayOutlook(rule, issue, archive, horizon) ==
    LET observed == FetchArchive(archive, issue - Lookback, issue + horizon)
    IN  Outlook(rule, issue, observed, Cut(observed, issue .. issue + horizon - 1))

-----------------------------------------------------------------------------
\* Broken variant: an incomplete day is skipped.
ReconstructSkipping(runs, issue) ==
    [d \in {e \in issue .. issue + MaxLead - 1 : e \in DOMAIN runs /\ runs[e] # Null} |->
        [hours |-> FullDay, cm |-> runs[d]]]

(***************************************************************************)
(* The backtest.  runs maps a day to the value every lead of it has, Null  *)
(* where hours are missing: a vintage is the complete days from its issue  *)
(* date on, up to the first that is not.                                   *)
(***************************************************************************)
Reconstruct(runs, issue) ==
    LET complete(d) == d \in DOMAIN runs /\ runs[d] # Null
    IN  [d \in {e \in issue .. issue + MaxLead - 1 :
                    \A f \in issue .. e : complete(f)} |->
            [hours |-> FullDay, cm |-> runs[d]]]

\* One read of the archive serves every issue date of the season: it holds
\* days on and after the issue date, and the splice is what drops them.
BacktestOutlook(rule, issue, seasonArchive, runs) ==
    Outlook(rule, issue, seasonArchive, HourlyToDaily(Reconstruct(runs, issue)))

-----------------------------------------------------------------------------
(* Scoring outlooks against the events of the archive. *)

Overlaps(a, b) == a.start <= b.end /\ b.start <= a.end

\* The row match_events writes for an event and the outlook issued `lead' days
\* before it; an issue date without a run gives none.
MatchRow(event, outlook) ==
    LET hits == {f \in outlook.events : Overlaps(f, event)}
    IN  [matched  |-> hits # {},
         forecast |-> IF hits = {} THEN Null ELSE MapThenSumSet(LAMBDA f : f.total, hits),
         observed |-> event.total]
=============================================================================
