--------------------------- MODULE RequestForecast ---------------------------
(***************************************************************************)
(* The weather archive grows by a day at a time; whatever it holds, the    *)
(* events cut from it, the outlooks issued against it and the panel built  *)
(* on it must agree with each other and look only backwards in time.       *)
(***************************************************************************)
EXTENDS OutlookWeather, RequestPanel

CONSTANTS
    Rules,      \* event rules
    Cm,         \* daily snowfall that occurs
    NumDays,    \* bound: days of archive
    Horizon,    \* forecast_days
    PastDays,   \* past_days: how far a vintage reaches back
    ShortDay    \* hours of the last forecast day when it is cut short

ASSUME ForecastConstants ==
    /\ Cm \subseteq Nat /\ NumDays \in Nat /\ Horizon \in Nat \ {0} /\ PastDays \in Nat
    /\ ShortDay \in 1 .. FullDay
    /\ \A r \in Rules :
         /\ {r.threshold, r.gap, r.window, r.accum} \subseteq Nat
         /\ r.window > 0 => r.accum > 0
    /\ \A u \in Units, d \in 1 .. NumDays : Target(u, d) \in Nat

VARIABLES
    archive,    \* silver_weather_archive, as a series
    today       \* the last day the archive has been extended to

vars == <<archive, today>>

Init == archive = <<>> /\ today = 0

\* Upstream publishes the next day, without a value or with one...
DayArrives ==
    /\ today < NumDays
    /\ today' = today + 1
    /\ \E cm \in Cm \union {Null} : archive' =
           [d \in DOMAIN archive \union {today'} |-> IF d = today' THEN cm ELSE archive[d]]

\* ... or not at all.
DayIsMissing ==
    /\ today < NumDays
    /\ today' = today + 1
    /\ UNCHANGED archive

Next == DayArrives \/ DayIsMissing

Spec == Init /\ [][Next]_vars

-----------------------------------------------------------------------------
(***************************************************************************)
(* The Silver job's running count and the port's walk cut any archive into *)
(* the same events, and so does the probe's walk as far as its winters and *)
(* its rounding let it (test_outlook_weather.py compares the first two on  *)
(* chosen series).                                                         *)
(***************************************************************************)
SegmentationsAgree == \A rule \in Rules : Agree(archive, rule)

-----------------------------------------------------------------------------
\* A forecast that comes true, for the horizon that ends today.
Issue == today - Horizon + 1

PerfectVintage(first, lastHours) ==
    [d \in DOMAIN archive \intersect first .. today |->
        [hours |-> IF d = today THEN lastHours ELSE FullDay, cm |-> archive[d]]]

\* From here on the trailing windows of an outlook are as full as the archive's.
Warm(rule, days) ==
    IF Min(DOMAIN days) = Min(DOMAIN archive) \/ rule.window = 0
    THEN Min(DOMAIN days)
    ELSE Min(DOMAIN days) + rule.window - 1

\* No event of the archive is missed or changed, and none is made up, between
\* the warm-up of the lookback and the end of the horizon.
Replays(rule, issue, outlook) ==
    LET events == SparkEvents(archive, rule)
        warm   == Warm(rule, outlook.days)
        begun  == IF Min(DOMAIN outlook.days) = Min(DOMAIN archive)
                  THEN warm ELSE warm + rule.gap + 1
        over   == outlook.last - rule.gap - 1
    IN  outlook # NoOutlook =>
          /\ \A e \in events :
                e.start >= warm /\ e.end \in issue .. outlook.last => e \in outlook.events
          /\ \A f \in outlook.events :
                f.start >= begun /\ f.end <= over => f \in events
          /\ \A e \in events :
                e.start >= warm /\ e.start \in issue .. outlook.last =>
                    /\ MatchRow(e, outlook).matched
                    /\ e.end <= over => MatchRow(e, outlook).forecast = e.total
          /\ \A f \in outlook.events :
                ~TruncatedAtHorizon(outlook, f) /\ ~StartedBeforeIssue(issue, f)
                /\ f.start >= begun =>
                    \E e \in events : e.start = f.start /\ e.end >= f.end

(***************************************************************************)
(* A forecast that comes true yields the archive's own events, whether it  *)
(* arrives as a vintage (cut short or not, reaching back or not), as a     *)
(* replay of the archive or as a reconstruction; and the evaluation credits *)
(* it with every event it foresaw.                                         *)
(***************************************************************************)
OutlookReplaysArchive ==
    \A rule \in Rules :
        /\ \A back \in {0, PastDays}, hours \in {ShortDay, FullDay} :
              Replays(rule, Issue,
                      VintageOutlook(rule, Issue, archive, PerfectVintage(Issue - back, hours)))
        /\ Replays(rule, Issue, ReplayOutlook(rule, Issue, archive, Horizon))
        /\ Replays(rule, Issue, BacktestOutlook(rule, Issue, archive, archive))

-----------------------------------------------------------------------------
\* The chain gives the same outlook when the observed days from the first
\* forecast day on, or from the issue date on, are withheld.
NoOutcomeInOutlook(rule) ==
    LET before  == Cut(archive, 1 .. Issue - 1)
        vintage == [d \in Issue - PastDays .. today |-> [hours |-> FullDay, cm |-> 0]]
    IN  /\ VintageOutlook(rule, Issue, archive, vintage)
             = VintageOutlook(rule, Issue, Cut(archive, 1 .. Issue - PastDays - 1), vintage)
        /\ BacktestOutlook(rule, Issue, archive, archive)
             = BacktestOutlook(rule, Issue, before, archive)

\* What training knows of an event is what the outlook would have known of it.
SameFeatures(panel) ==
    \A d \in {r.start : r \in panel} :
        {Known(f) : f \in PrepareEvent(panel, d)}
          = {Known(f) : f \in DropRowsWithoutHistory(
                                {g \in BuildFeatures(panel) : g.row.start = d})}

\* A fold trains only on what was known before its first held-out event.
HonestSplit(panel, split) ==
    LET first == Min(Starts(split.test))
    IN  /\ \A f \in split.train : f.row.start < first
        /\ split.train = DropRowsWithoutHistory(
                            BuildFeatures({r \in panel : r.start < first}))

HonestFolds(panel) ==
    LET trainable == DropRowsWithoutHistory(BuildFeatures(panel))
        folds     == RollingOriginSplits(trainable)
        holdout   == HoldoutSplit(trainable)
    IN  /\ \A i \in DOMAIN folds : HonestSplit(panel, folds[i])
        /\ folds # Refused =>
              \A f \in trainable :
                  Cardinality({i \in DOMAIN folds : f \in folds[i].test})
                    = IF f.row.era THEN 1 ELSE 0
        /\ \A i \in DOMAIN holdout : HonestSplit(panel, holdout[i])

(***************************************************************************)
(* No outcome reaches back into what claims not to have known it: neither  *)
(* through the splice of observed and forecast days, nor through the lag   *)
(* features, nor through a training side of a split.                       *)
(***************************************************************************)
NothingLeaksBack ==
    \A rule \in Rules :
        LET panel == Panel({e.start : e \in SparkEvents(archive, rule)})
        IN  /\ NoOutcomeInOutlook(rule)
            /\ SameFeatures(panel)
            /\ HonestFolds(panel)
=============================================================================
