---------------------------- MODULE RequestPanel ----------------------------
(***************************************************************************)
(* The panel M1 is trained on, the features derived from it, its splits    *)
(* over time, and the rows prepared for a forecast event.                  *)
(*                                                                         *)
(* A panel is a set of rows [unit, start, season, era, target]: one per    *)
(* unit and event, the event known by its first day.  Means are kept as    *)
(* <<sum, count>>.                                                         *)
(***************************************************************************)
EXTENDS Integers, FiniteSetsExt

CONSTANTS
    Units,          \* the operational units
    SeasonLength,   \* days in a season
    EraStart,       \* first day of the scheduling era
    Target(_, _)    \* the requests of a unit during the event starting that day

ASSUME PanelConstants ==
    /\ Units # {} /\ IsFiniteSet(Units) /\ SeasonLength \in Nat \ {0} /\ EraStart \in Int

NaN == -1

SnowSeason(day) == (day - 1) \div SeasonLength

\* panel_sql: the full grid of units and events.
Panel(starts) ==
    {[unit |-> u, start |-> d, season |-> SnowSeason(d), era |-> d >= EraStart,
      target |-> Target(u, d)] : u \in Units, d \in starts}

-----------------------------------------------------------------------------
(* Features. *)

\* The elements of S by a key that no two of them share.  (SetToSortSeq rests on
\* SortSeq, which the proof system cannot expand.)
Ordered(S, key(_)) ==
    [i \in 1 .. Cardinality(S) |->
        CHOOSE x \in S : Cardinality({y \in S : key(y) <= key(x)}) = i]

OrderPanel(panel, u) ==
    Ordered({r \in panel : r.unit = u}, LAMBDA r : r.start)

SeasonIndex(panel, season) ==
    Cardinality({s \in {r.season : r \in panel} : s < season})

\* The targets of a unit one place later: what a row may look back on.
Prior(rows, i) == IF i = 1 THEN NaN ELSE rows[i - 1].target

\* prev_target and expanding_mean of the i-th row; expanding() skips NaN.
LagFeatures(rows, i) ==
    LET known == {j \in 1 .. i : Prior(rows, j) # NaN}
    IN  [prev |-> Prior(rows, i),
         mean |-> <<MapThenSumSet(LAMBDA j : Prior(rows, j), known), Cardinality(known)>>]

\* build_panel_features: each row with its features.
BuildFeatures(panel) ==
    UNION {LET rows == OrderPanel(panel, u)
           IN  {[row   |-> rows[i],
                 index |-> SeasonIndex(panel, rows[i].season),
                 lags  |-> LagFeatures(rows, i)] : i \in DOMAIN rows} : u \in Units}

HasHistory(f) == f.lags.prev # NaN /\ f.lags.mean[2] > 0

DropRowsWithoutHistory(features) == {f \in features : HasHistory(f)}

-----------------------------------------------------------------------------
(* Splits. *)

Starts(features) == {f.row.start : f \in features}

Refused == <<>>

\* assert_no_history_leak
TimeOrdered(train, test) == Max(Starts(train)) < Min(Starts(test))

\* split_holdout_last_season, and the check its caller makes.
HoldoutSplit(features) ==
    LET seasons == {f.row.season : f \in features}
        split   == [train |-> {f \in features : f.row.season # Max(seasons)},
                    test  |-> {f \in features : f.row.season = Max(seasons)}]
    IN  IF Cardinality(seasons) < 2 \/ ~TimeOrdered(split.train, split.test)
        THEN Refused ELSE <<split>>

FoldOf(features, season) ==
    LET test == {f \in features : f.row.season = season}
    IN  [season |-> season, test |-> test,
         train  |-> {f \in features : f.row.start < Min(Starts(test))}]

\* One fold per season of the era, in order; refused when a season has nothing
\* before it, or when the folds hold out a number of rows that is not the era's.
RollingOriginSplits(features) ==
    LET seasons == {f.row.season : f \in {g \in features : g.row.era}}
        folds   == {FoldOf(features, s) : s \in seasons}
    IN  IF \/ seasons = {}
           \/ \E fold \in folds : fold.train = {}
           \/ MapThenSumSet(LAMBDA fold : Cardinality(fold.test), folds)
                # Cardinality({f \in features : f.row.era})
        THEN Refused
        ELSE Ordered(folds, LAMBDA fold : fold.season)

-----------------------------------------------------------------------------
\* prepare_event: the rows of a forecast event appended to the history that
\* started strictly before it, their features derived as training derives them.
PrepareEvent(history, start) ==
    LET prior == {r \in history : r.start < start}
        new   == {[unit |-> u, start |-> start, season |-> SnowSeason(start),
                   era |-> FALSE, target |-> NaN] : u \in {r.unit : r \in history}}
        mine  == {f \in BuildFeatures(prior \union new) : f.row \in new}
    IN  IF prior = {} \/ \E f \in mine : ~HasHistory(f) THEN {} ELSE mine

\* What a feature row says, the row's own outcome aside.
Known(f) == [unit |-> f.row.unit, start |-> f.row.start, season |-> f.row.season,
             index |-> f.index, lags |-> f.lags]
=============================================================================
