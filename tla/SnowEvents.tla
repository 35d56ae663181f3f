----------------------------- MODULE SnowEvents -----------------------------
(***************************************************************************)
(* Cutting a daily snowfall series into events.  The repository does it    *)
(* three times: the Silver job with Spark window functions, the outlook    *)
(* with a port of that job that must agree with it, and the probe that     *)
(* measured how many events there are.                                     *)
(*                                                                         *)
(* A series maps the days it has a row for to centimetres, or to Null when *)
(* the row has no value; a day outside its domain has no row.              *)
(*                                                                         *)
(* A rule is [threshold, gap, window, accum]; window = 0 stands for a rule *)
(* with no rolling criterion.                                              *)
(***************************************************************************)
EXTENDS Integers, FiniteSetsExt, SequencesExt

CONSTANTS
    Winter,     \* the days of the winters the probe downloads
    Grain       \* the 0.1 cm the probe reports in, in the unit of the series

ASSUME GrainAssumption == Grain \in Nat \ {0}

Null == -1

\* The snowfall of day d as every sum reads it: no row and no value are zero.
Snow(s, d) ==
    IF d \in DOMAIN s /\ s[d] # Null THEN s[d] ELSE 0

Total(s, D) == MapThenSumSet(LAMBDA d : Snow(s, d), D)

\* The trailing window is a range of calendar days, not of rows.
RollingHit(s, rule, d) ==
    /\ rule.window > 0
    /\ Total(s, d - rule.window + 1 .. d) >= rule.accum

SingleHit(s, rule, d) == s[d] # Null /\ s[d] >= rule.threshold

Qualifying(s, rule) ==
    {d \in DOMAIN s : SingleHit(s, rule, d) \/ RollingHit(s, rule, d)}

-----------------------------------------------------------------------------
(***************************************************************************)
(* The Silver job numbers the qualifying days by a running count of the    *)
(* days that open an event, and groups by that number.                     *)
(***************************************************************************)
OpensEvent(Q, gap, d) ==
    \A p \in Q : p < d => d - p > gap + 1

EventSeq(Q, gap, d) ==
    Cardinality({e \in Q : e <= d /\ OpensEvent(Q, gap, e)})

SparkRuns(Q, gap) ==
    LET seq == [d \in Q |-> EventSeq(Q, gap, d)]
    IN  {{d \in Q : seq[d] = n} : n \in {seq[d] : d \in Q}}

\* The values the aggregates of a run see: its qualifying days that have one.
Values(s, run) == {d \in run : s[d] # Null}

Peak(s, run) == Max({s[d] : d \in Values(s, run)})

\* Span, total, peak and accum_flag of a run; SQL's aggregates over no value
\* are NULL, and so is a comparison with NULL.
SparkEvent(s, rule, run) ==
    [start |-> Min(run), end |-> Max(run),
     total |-> IF Values(s, run) = {} THEN Null ELSE Total(s, run),
     peak  |-> IF Values(s, run) = {} THEN Null ELSE Peak(s, run),
     accum |-> IF Values(s, run) = {} THEN "null"
               ELSE IF Peak(s, run) < rule.threshold THEN "yes" ELSE "no"]

SparkEvents(s, rule) ==
    {SparkEvent(s, rule, run) : run \in SparkRuns(Qualifying(s, rule), rule.gap)}

-----------------------------------------------------------------------------
\* Broken variant: a gap of g days is taken for a difference of g.
ExtendShort(runs, d, gap) ==
    IF runs # <<>> /\ d - Max(Last(runs)) <= gap
    THEN Append(Front(runs), Last(runs) \union {d})
    ELSE Append(runs, {d})

(***************************************************************************)
(* The port and the probe walk the days in order and either extend the     *)
(* last run or open a new one.                                             *)
(***************************************************************************)
Extend(runs, d, gap) ==
    IF runs # <<>> /\ d - Max(Last(runs)) <= gap + 1
    THEN Append(Front(runs), Last(runs) \union {d})
    ELSE Append(runs, {d})

InOrder(Q) ==
    [i \in 1 .. Cardinality(Q) |-> CHOOSE d \in Q : Cardinality({e \in Q : e <= d}) = i]

CutRuns(Q, gap) ==
    ToSet(FoldLeft(LAMBDA runs, d : Extend(runs, d, gap), <<>>, InOrder(Q)))

\* The port reports 0.0 where SQL's sum is NULL and a plain False for the flag.
PortEvent(s, rule, run) ==
    [SparkEvent(s, rule, run) EXCEPT
        !.total = IF @ = Null THEN 0 ELSE @,
        !.accum = IF @ = "null" THEN "no" ELSE @]

PortEvents(s, rule) ==
    {PortEvent(s, rule, run) : run \in CutRuns(Qualifying(s, rule), rule.gap)}

\* The probe downloads the winters and skips the days without a value.
ProbeSeries(s) == [d \in {e \in DOMAIN s : e \in Winter /\ s[e] # Null} |-> s[d]]

\* What round() can make of x: the binary value of a number that lies half way
\* between two grains decides which of them it becomes.
Rounded(x) ==
    {y \in {Grain * q : q \in 0 .. x} : 2 * (y - x) \in -Grain .. Grain}

\* The events the probe can report for a run: it rounds, and then compares the
\* rounded peak with the threshold.
ProbeEventsOf(p, rule, run) ==
    {[start |-> Min(run), end |-> Max(run), total |-> total, peak |-> peak,
      accum |-> IF peak < rule.threshold THEN "yes" ELSE "no"] :
         total \in Rounded(Total(p, run)), peak \in Rounded(Peak(p, run))}

ProbeEvents(s, rule) ==
    LET p == ProbeSeries(s)
    IN  UNION {ProbeEventsOf(p, rule, run) : run \in CutRuns(Qualifying(p, rule), rule.gap)}

-----------------------------------------------------------------------------
Contiguous(s) ==
    \A a, b \in DOMAIN s : \A c \in a .. b : c \in DOMAIN s

\* What an event is: two qualifying days belong together unless more than
\* `gap' days in a row between them do not qualify.
Together(Q, gap, a, b) ==
    \A c \in Min({a, b}) .. Max({a, b}) - gap - 1 :
        (c + 1 .. c + gap + 1) \intersect Q # {}

MaximalRuns(Q, gap) == {{b \in Q : Together(Q, gap, a, b)} : a \in Q}

Spans(events) == {<<e.start, e.end>> : e \in events}

\* The probe has every row the event e and its trailing windows are made of.
ProbeSees(s, rule, e) ==
    DOMAIN s \intersect ({e.start} \union (e.start - rule.window + 1 .. e.end))
        \subseteq DOMAIN ProbeSeries(s)

Near(x, y) == 2 * (x - y) \in -Grain .. Grain

(***************************************************************************)
(* What the probe reports lies within one event of the job, and an event   *)
(* whose rows it has all seen it reports from the same day to the same day *)
(* and right to half a grain; it can be wrong about what made the event    *)
(* only where the peak is that close to the threshold.                     *)
(***************************************************************************)
ProbeAgrees(s, rule) ==
    LET job   == SparkEvents(s, rule)
        probe == ProbeEvents(s, rule)
    IN  /\ \A f \in probe : \E e \in job : e.start <= f.start /\ f.end <= e.end
        /\ \A e \in job : ProbeSees(s, rule, e) =>
              /\ <<e.start, e.end>> \in Spans(probe)
              /\ \A f \in probe : f.start = e.start /\ f.end = e.end =>
                    /\ Near(f.total, e.total) /\ Near(f.peak, e.peak)
                    /\ f.accum = e.accum \/ Near(e.peak, rule.threshold)

(***************************************************************************)
(* The three implementations agree: the Silver job's running count finds   *)
(* exactly the maximal runs, on any archive; the port finds the same       *)
(* events, and on a series without holes gives them the same attributes    *)
(* (there a run always holds a value, which its 0.0 and False lean on);    *)
(* the probe agrees on what its winters show it, to its rounding.          *)
(***************************************************************************)
Agree(s, rule) ==
    LET Q     == Qualifying(s, rule)
        spark == {SparkEvent(s, rule, run) : run \in SparkRuns(Q, rule.gap)}
        port  == {PortEvent(s, rule, run) : run \in CutRuns(Q, rule.gap)}
    IN  /\ SparkRuns(Q, rule.gap) = MaximalRuns(Q, rule.gap)
        /\ Spans(spark) = Spans(port)
        /\ Contiguous(s) => spark = port
        /\ ProbeAgrees(s, rule)
=============================================================================
