-------------------------- MODULE RequestForecastProofs --------------------------
(* Theorems about RequestForecast, for every archive of any length, every rule,   *)
(* set of units, horizon and lookback.                                            *)
EXTENDS RequestForecast, SnowEventsProofs

-----------------------------------------------------------------------------
(* The archive.                                                                *)

ArchiveOK ==
    /\ today \in 0 .. NumDays
    /\ DOMAIN archive \subseteq 1 .. today
    /\ archive = [d \in DOMAIN archive |-> archive[d]]
    /\ \A d \in DOMAIN archive : archive[d] \in Cm \union {Null}

LEMMA ArchiveOKInit == Init => ArchiveOK
  <1> SUFFICES ASSUME Init PROVE ArchiveOK
    OBVIOUS
  <1>1. DOMAIN archive = {} /\ today = 0 /\ NumDays \in Nat
    BY ForecastConstants DEF Init
  <1>2. archive = [d \in DOMAIN archive |-> archive[d]]
    <2>1. <<>> = [d \in DOMAIN <<>> |-> <<>>[d]]
      OBVIOUS
    <2>2. QED
      BY <2>1 DEF Init
  <1>3. today \in 0 .. NumDays
    BY <1>1
  <1>4. QED
    BY <1>1, <1>2, <1>3 DEF ArchiveOK

LEMMA ArchiveOKStep == ArchiveOK /\ [Next]_vars => ArchiveOK'
  <1> SUFFICES ASSUME ArchiveOK, [Next]_vars PROVE ArchiveOK'
    OBVIOUS
  <1>1. NumDays \in Nat /\ today \in Nat
    BY ForecastConstants DEF ArchiveOK
  <1>2. ASSUME today < NumDays, today' = today + 1
        PROVE  /\ today' \in 0 .. NumDays /\ today' \in 1 .. today'
               /\ 1 .. today \subseteq 1 .. today'
    BY <1>1, <1>2
  <1>3. CASE DayArrives
    <2>1. today < NumDays /\ today' = today + 1
      BY <1>3 DEF DayArrives
    <2>2. PICK cm \in Cm \union {Null} :
              archive' = [d \in DOMAIN archive \union {today'} |->
                             IF d = today' THEN cm ELSE archive[d]]
      BY <1>3 DEF DayArrives
    <2>3. DOMAIN archive' = DOMAIN archive \union {today'}
      BY <2>2
    <2>4. \A d \in DOMAIN archive' : archive'[d] \in Cm \union {Null}
      BY <2>2, <2>3 DEF ArchiveOK
    <2>5. archive' = [d \in DOMAIN archive' |-> archive'[d]]
      BY <2>2
    <2>6. DOMAIN archive' \subseteq 1 .. today'
      BY <1>2, <2>1, <2>3 DEF ArchiveOK
    <2>7. QED
      BY <1>2, <2>1, <2>4, <2>5, <2>6 DEF ArchiveOK
  <1>4. CASE DayIsMissing
    <2>1. today < NumDays /\ today' = today + 1 /\ archive' = archive
      BY <1>4 DEF DayIsMissing
    <2>2. QED
      BY <1>2, <2>1 DEF ArchiveOK
  <1>5. CASE UNCHANGED vars
    BY <1>5 DEF ArchiveOK, vars
  <1>6. QED
    BY <1>3, <1>4, <1>5 DEF Next

\* The archive grows forward only: it is a series over days that have passed.
THEOREM ArchiveAlwaysOK == Spec => []ArchiveOK
  BY ArchiveOKInit, ArchiveOKStep, PTL DEF Spec

LEMMA ArchiveIsSeries ==
    ASSUME ArchiveOK
    PROVE  IsSeries(archive)
  <1>1. IsFiniteSet(DOMAIN archive)
    <2>1. today \in Nat
      BY ForecastConstants DEF ArchiveOK
    <2>2. IsFiniteSet(1 .. today)
      BY <2>1, FS_Interval
    <2>3. DOMAIN archive \subseteq 1 .. today
      BY DEF ArchiveOK
    <2>4. QED
      BY <2>2, <2>3, FS_Subset
  <1>2. \A d \in DOMAIN archive : d \in Nat /\ archive[d] \in Nat \union {Null}
    BY ForecastConstants DEF ArchiveOK
  <1>3. QED
    BY <1>1, <1>2 DEF ArchiveOK, IsSeries

LEMMA RuleIsRule ==
    ASSUME NEW rule \in Rules
    PROVE  IsRule(rule)
  BY ForecastConstants DEF IsRule

(* Whatever the archive holds, the Silver job and its port cut it into the same  *)
(* events under every rule, and the probe into these, as far as it sees them.    *)
THEOREM SegmentationsAgreeAlways == Spec => []SegmentationsAgree
  <1>1. ArchiveOK => SegmentationsAgree
    BY ArchiveIsSeries, RuleIsRule, ImplementationsAgree DEF SegmentationsAgree
  <1>2. QED
    BY <1>1, ArchiveAlwaysOK, PTL

-----------------------------------------------------------------------------
(* The chain of an outlook.                                                    *)

\* An outlook sees the observed days through the splice only.
LEMMA OutlookSeesSplice ==
    ASSUME NEW rule, NEW issue, NEW a, NEW b, NEW forecast,
           DOMAIN forecast # {} => Splice(a, forecast) = Splice(b, forecast)
    PROVE  Outlook(rule, issue, a, forecast) = Outlook(rule, issue, b, forecast)
  BY DEF Outlook

\* Two observations that agree before the first forecast day are spliced alike.
LEMMA SpliceSeesDaysBefore ==
    ASSUME NEW a, NEW b, NEW forecast,
           {d \in DOMAIN a : d < Min(DOMAIN forecast)}
             = {d \in DOMAIN b : d < Min(DOMAIN forecast)},
           \A d \in DOMAIN a : d < Min(DOMAIN forecast) => a[d] = b[d]
    PROVE  Splice(a, forecast) = Splice(b, forecast)
  <1> DEFINE F == DOMAIN forecast
             A == {d \in DOMAIN a : d < Min(F)}
             B == {d \in DOMAIN b : d < Min(F)}
             sa == [d \in F \union A |-> IF d \in F THEN forecast[d] ELSE a[d]]
             sb == [d \in F \union B |-> IF d \in F THEN forecast[d] ELSE b[d]]
  <1>1. Splice(a, forecast) = sa /\ Splice(b, forecast) = sb
    BY DEF Splice
  <1>2. A = B /\ \A d \in A : a[d] = b[d]
    OBVIOUS
  <1> HIDE DEF F, A, B
  <1>3. sa = sb
    BY <1>2
  <1>4. QED
    BY <1>1, <1>3

LEMMA FirstOfInterval ==
    ASSUME NEW a \in Int, NEW b \in Int, a <= b
    PROVE  Min(a .. b) = a
  <1>1. a \in a .. b /\ \A c \in a .. b : a <= c
    OBVIOUS
  <1>2. Min(a .. b) \in a .. b /\ \A c \in a .. b : Min(a .. b) <= c
    BY <1>1 DEF Min
  <1>3. PICK m \in Int : m = Min(a .. b)
    BY <1>2
  <1>4. m <= a /\ a <= m
    BY <1>1, <1>2, <1>3
  <1>5. QED
    BY <1>3, <1>4

LEMMA IssueFacts ==
    ASSUME ArchiveOK
    PROVE  /\ today \in Nat /\ Issue \in Int /\ Issue <= today
           /\ PastDays \in Nat /\ Issue - PastDays \in Int /\ Issue - PastDays <= today
           /\ Issue - PastDays <= Issue
           /\ \A d \in DOMAIN archive : d \in Int /\ d >= 1 /\ d <= today
  <1>1. today \in Nat /\ Horizon \in Nat /\ Horizon > 0 /\ PastDays \in Nat
    BY ForecastConstants DEF ArchiveOK
  <1>2. Issue \in Int /\ Issue <= today
    BY <1>1 DEF Issue
  <1>3. Issue - PastDays \in Int /\ Issue - PastDays <= today /\ Issue - PastDays <= Issue
    BY <1>1, <1>2
  <1>4. \A d \in 1 .. today : d \in Int /\ d >= 1 /\ d <= today
    BY <1>1
  <1>5. QED
    BY <1>1, <1>2, <1>3, <1>4 DEF ArchiveOK

LEMMA VintageForgetsOutcome ==
    ASSUME ArchiveOK, NEW rule
    PROVE  LET vintage == [d \in Issue - PastDays .. today |-> [hours |-> FullDay, cm |-> 0]]
           IN  VintageOutlook(rule, Issue, archive, vintage)
                 = VintageOutlook(rule, Issue, Cut(archive, 1 .. Issue - PastDays - 1), vintage)
  <1> DEFINE vintage == [d \in Issue - PastDays .. today |-> [hours |-> FullDay, cm |-> 0]]
             forecast == HourlyToDaily(vintage)
             first == Issue - PastDays
             before == Cut(archive, 1 .. first - 1)
             a == FetchArchive(archive, Issue - Lookback, Issue)
             b == FetchArchive(before, Issue - Lookback, Issue)
  <1>1. first \in Int /\ first <= today /\ today \in Nat
    BY IssueFacts
  <1>2. DOMAIN forecast = first .. today
    <2>1. FullDay >= MinHours
      BY OutlookConstants
    <2>2. \A d \in first .. today : vintage[d].hours = FullDay
      OBVIOUS
    <2>3. DOMAIN forecast = {e \in first .. today : vintage[e].hours >= MinHours}
      BY DEF HourlyToDaily
    <2> HIDE DEF vintage, forecast
    <2>4. QED
      BY <2>1, <2>2, <2>3
  <1>3. Min(DOMAIN forecast) = first
    BY <1>1, <1>2, FirstOfInterval
  <1>4. \A d \in DOMAIN archive : d \in Int /\ d >= 1
    BY IssueFacts
  <1>5. \A d \in DOMAIN archive : d < first <=> d \in 1 .. first - 1
    <2>1. \A d \in Int : d >= 1 => (d < first <=> d \in 1 .. first - 1)
      BY <1>1
    <2>2. QED
      BY <1>4, <2>1
  <1>6. /\ DOMAIN a = DOMAIN archive \intersect (Issue - Lookback .. Issue - 1)
        /\ \A d \in DOMAIN a : a[d] = archive[d]
    BY DEF FetchArchive, Cut
  <1>7. /\ DOMAIN b = (DOMAIN archive \intersect (1 .. first - 1))
                          \intersect (Issue - Lookback .. Issue - 1)
        /\ \A d \in DOMAIN b : b[d] = archive[d]
    BY DEF FetchArchive, Cut
  <1> HIDE DEF a, b, first, forecast
  <1>8. /\ {d \in DOMAIN a : d < first} = {d \in DOMAIN b : d < first}
        /\ \A d \in DOMAIN a : d < first => a[d] = b[d]
    BY <1>5, <1>6, <1>7
  <1>9. Splice(a, forecast) = Splice(b, forecast)
    BY <1>3, <1>8, SpliceSeesDaysBefore
  <1>10. Outlook(rule, Issue, a, forecast) = Outlook(rule, Issue, b, forecast)
    BY <1>9, OutlookSeesSplice
  <1>11. /\ VintageOutlook(rule, Issue, archive, vintage) = Outlook(rule, Issue, a, forecast)
         /\ VintageOutlook(rule, Issue, before, vintage) = Outlook(rule, Issue, b, forecast)
    BY DEF VintageOutlook, a, b, forecast
  <1>12. QED
    BY <1>10, <1>11 DEF first

LEMMA BacktestForgetsOutcome ==
    ASSUME ArchiveOK, NEW rule
    PROVE  BacktestOutlook(rule, Issue, archive, archive)
             = BacktestOutlook(rule, Issue, Cut(archive, 1 .. Issue - 1), archive)
  <1> DEFINE before == Cut(archive, 1 .. Issue - 1)
             vintage == Reconstruct(archive, Issue)
             forecast == HourlyToDaily(vintage)
             complete(d) == d \in DOMAIN archive /\ archive[d] # Null
  <1>1. Issue \in Int /\ \A d \in DOMAIN archive : d \in Int /\ d >= 1
    BY IssueFacts
  <1>2. DOMAIN vintage = {e \in Issue .. Issue + MaxLead - 1 : \A f \in Issue .. e : complete(f)}
    BY DEF Reconstruct
  <1>3. DOMAIN forecast = {e \in DOMAIN vintage : vintage[e].hours >= MinHours}
    BY DEF HourlyToDaily
  <1>4. \A d \in DOMAIN vintage : vintage[d].hours = FullDay
    BY DEF Reconstruct
  <1> HIDE DEF vintage, forecast, complete
  <1>5. DOMAIN forecast = DOMAIN vintage
    <2>1. FullDay >= MinHours
      BY OutlookConstants
    <2>2. QED
      BY <1>3, <1>4, <2>1
  <1>6. ASSUME DOMAIN forecast # {} PROVE Min(DOMAIN forecast) = Issue
    <2>1. PICK e \in DOMAIN forecast : TRUE
      BY <1>6
    <2>2. e \in Issue .. Issue + MaxLead - 1 /\ \A f \in Issue .. e : complete(f)
      BY <1>2, <1>5, <2>1
    <2>3. Issue \in DOMAIN forecast
      <3>1. MaxLead \in Nat
        BY OutlookConstants
      <3>2. Issue \in Issue .. e /\ Issue \in Issue .. Issue + MaxLead - 1
        BY <1>1, <2>2, <3>1
      <3>3. \A f \in Issue .. Issue : f \in Issue .. e
        BY <1>1, <2>2
      <3>4. QED
        BY <1>2, <1>5, <2>2, <3>2, <3>3
    <2>4. \A d \in DOMAIN forecast : d \in Int /\ Issue <= d
      <3>1. \A d \in Issue .. Issue + MaxLead - 1 : d \in Int /\ Issue <= d
        BY <1>1
      <3>2. QED
        BY <1>2, <1>5, <3>1
    <2>5. Min(DOMAIN forecast) \in DOMAIN forecast /\ Min(DOMAIN forecast) <= Issue
      BY <2>3, <2>4 DEF Min
    <2>6. PICK m \in Int : m = Min(DOMAIN forecast)
      BY <2>4, <2>5
    <2>7. m <= Issue /\ Issue <= m
      BY <2>4, <2>5, <2>6
    <2>8. QED
      BY <1>1, <2>6, <2>7
  <1>7. /\ DOMAIN before = DOMAIN archive \intersect (1 .. Issue - 1)
        /\ \A d \in DOMAIN before : before[d] = archive[d]
    BY DEF Cut
  <1>8. \A d \in DOMAIN archive : d < Issue <=> d \in 1 .. Issue - 1
    <2>1. \A d \in Int : d >= 1 => (d < Issue <=> d \in 1 .. Issue - 1)
      BY <1>1
    <2>2. QED
      BY <1>1, <2>1
  <1> HIDE DEF before
  <1>9. ASSUME DOMAIN forecast # {} PROVE Splice(archive, forecast) = Splice(before, forecast)
    <2>1. /\ {d \in DOMAIN archive : d < Issue} = {d \in DOMAIN before : d < Issue}
          /\ \A d \in DOMAIN archive : d < Issue => archive[d] = before[d]
      BY <1>7, <1>8
    <2>2. QED
      BY <1>6, <1>9, <2>1, SpliceSeesDaysBefore
  <1>10. Outlook(rule, Issue, archive, forecast) = Outlook(rule, Issue, before, forecast)
    BY <1>9, OutlookSeesSplice
  <1>11. QED
    BY <1>10 DEF BacktestOutlook, before, forecast, vintage

\* Days observed from the first forecast day on change no outlook.
LEMMA NoOutcomeReachesOutlook ==
    ASSUME ArchiveOK, NEW rule
    PROVE  NoOutcomeInOutlook(rule)
  BY VintageForgetsOutcome, BacktestForgetsOutcome DEF NoOutcomeInOutlook

-----------------------------------------------------------------------------
(* Features look back only: what a row's features say depends on the earlier   *)
(* rows of its unit and on the seasons before its own.                         *)

IsPanel(P) ==
    /\ IsFiniteSet(P)
    /\ \A r \in P : /\ r.unit \in Units /\ r.start \in Int /\ r.season \in Int
                    /\ r.target \in Nat \union {NaN}
    /\ \A r, q \in P : r.unit = q.unit /\ r.start = q.start => r = q
    /\ \A r, q \in P : q.season < r.season => q.start < r.start

RowsOf(P, u) == {r \in P : r.unit = u}

Before(P, r) == {q \in P : q.unit = r.unit /\ q.start < r.start}

Rank(S, r) == Cardinality({q \in S : q.start <= r.start})

\* Rows of one unit are told apart by their first day, which ranks them.
ToldApart(S) ==
    /\ IsFiniteSet(S)
    /\ \A r \in S : r.start \in Int
    /\ \A r, q \in S : r.start = q.start => r = q

LEMMA RowsToldApart ==
    ASSUME NEW P, IsPanel(P), NEW u
    PROVE  \A S \in SUBSET RowsOf(P, u) : ToldApart(S)
  <1>1. ASSUME NEW S \in SUBSET RowsOf(P, u) PROVE ToldApart(S)
    <2>1. S \in SUBSET P /\ \A r \in S : r.unit = u
      BY DEF RowsOf
    <2>2. IsFiniteSet(S)
      BY <2>1, FS_Subset DEF IsPanel
    <2>3. QED
      BY <2>1, <2>2 DEF ToldApart, IsPanel
  <1>2. QED
    BY <1>1

LEMMA RanksOfRows ==
    ASSUME NEW S, ToldApart(S)
    PROVE  /\ IsFiniteSet(S) /\ Cardinality(S) \in Nat
           /\ \A r \in S : Rank(S, r) \in 1 .. Cardinality(S)
           /\ \A r, q \in S : r.start < q.start <=> Rank(S, r) < Rank(S, q)
           /\ \A r, q \in S : Rank(S, r) = Rank(S, q) => r = q
           /\ \A i \in 1 .. Cardinality(S) : \E r \in S : Rank(S, r) = i
  <1> DEFINE key == [r \in S |-> r.start]
  <1>1. IsFiniteSet(S)
    BY DEF ToldApart
  <1>2. Cardinality(S) \in Nat
    BY <1>1, FS_CardinalityType
  <1>3. \A r \in S : key[r] = r.start /\ r.start \in Int
    BY DEF ToldApart
  <1>4. ASSUME NEW r \in S PROVE Place(S, key, r) = Rank(S, r)
    <2>1. {q \in S : key[q] <= key[r]} = {q \in S : q.start <= r.start}
      BY <1>3
    <2>2. QED
      BY <2>1 DEF Place, Rank
  <1>5. Keyed(S, key)
    BY <1>1 DEF Keyed, ToldApart
  <1> HIDE DEF key
  <1>6. ASSUME NEW r \in S PROVE Rank(S, r) \in 1 .. Cardinality(S)
    BY <1>4, <1>5, PlaceIsStrict
  <1>7. ASSUME NEW r \in S, NEW q \in S
        PROVE  r.start < q.start <=> Rank(S, r) < Rank(S, q)
    BY <1>3, <1>4, <1>5, PlaceIsStrict
  <1>8. ASSUME NEW r \in S, NEW q \in S, Rank(S, r) = Rank(S, q) PROVE r = q
    <2>1. PICK i \in Int : i = Rank(S, r)
      BY <1>2, <1>6
    <2>2. ~ (Rank(S, r) < Rank(S, q)) /\ ~ (Rank(S, q) < Rank(S, r))
      BY <1>8, <2>1
    <2>3. ~ (r.start < q.start) /\ ~ (q.start < r.start)
      BY <1>7, <2>2
    <2>4. PICK a \in Int, b \in Int : a = r.start /\ b = q.start
      BY <1>3
    <2>5. a = b
      BY <2>3, <2>4
    <2>6. QED
      BY <2>4, <2>5 DEF ToldApart
  <1>9. ASSUME NEW i \in 1 .. Cardinality(S) PROVE \E r \in S : Rank(S, r) = i
    <2>1. PICK r \in S : Place(S, key, r) = i
      BY <1>5, PlaceIsOnto
    <2>2. QED
      BY <1>4, <2>1
  <1>10. QED
    BY <1>1, <1>2, <1>6, <1>7, <1>8, <1>9

LEMMA OrderedRows ==
    ASSUME NEW P, IsPanel(P), NEW u
    PROVE  LET S == RowsOf(P, u)
               rows == OrderPanel(P, u) IN
           /\ DOMAIN rows = 1 .. Cardinality(S)
           /\ \A i \in 1 .. Cardinality(S) : rows[i] \in S /\ Rank(S, rows[i]) = i
           /\ \A r \in S : rows[Rank(S, r)] = r
  <1> DEFINE S == RowsOf(P, u)
             rows == OrderPanel(P, u)
             n == Cardinality(S)
  <1>1. /\ \A r \in S : Rank(S, r) \in 1 .. n
        /\ \A r, q \in S : Rank(S, r) = Rank(S, q) => r = q
        /\ \A i \in 1 .. n : \E r \in S : Rank(S, r) = i
    <2> HIDE DEF S
    <2>1. ToldApart(S)
      BY RowsToldApart DEF S
    <2>2. QED
      BY <2>1, RanksOfRows
  <1>2. rows = [i \in 1 .. n |-> CHOOSE r \in S : Rank(S, r) = i]
    BY DEF OrderPanel, Ordered, RowsOf, Rank
  <1> HIDE DEF S, rows, n
  <1>3. ASSUME NEW i \in 1 .. n PROVE rows[i] \in S /\ Rank(S, rows[i]) = i
    <2>1. rows[i] = CHOOSE r \in S : Rank(S, r) = i
      BY <1>2
    <2>2. QED
      BY <1>1, <2>1
  <1>4. ASSUME NEW r \in S PROVE rows[Rank(S, r)] = r
    BY <1>1, <1>3
  <1>5. DOMAIN rows = 1 .. n
    BY <1>2
  <1>6. QED
    BY <1>3, <1>4, <1>5 DEF S, rows, n

\* Where a row stands in its unit, and what stands before it.
LEMMA PlacesBefore ==
    ASSUME NEW P, IsPanel(P), NEW r \in P
    PROVE  LET B == Before(P, r)
               rows == OrderPanel(P, r.unit)
               k == Cardinality(B) IN
           /\ k \in Nat
           /\ k + 1 \in DOMAIN rows
           /\ rows[k + 1] = r
           /\ \A j \in 1 .. k : rows[j] \in B /\ Rank(B, rows[j]) = j
  <1> DEFINE B == Before(P, r)
             S == RowsOf(P, r.unit)
             rows == OrderPanel(P, r.unit)
             k == Cardinality(B)
             n == Cardinality(S)
  <1>1. B \subseteq S /\ r \in S /\ r \notin B
    BY DEF Before, RowsOf, IsPanel
  <1>2. /\ IsFiniteSet(S) /\ n \in Nat
        /\ \A q \in S : Rank(S, q) \in 1 .. n
        /\ \A q, p \in S : q.start < p.start <=> Rank(S, q) < Rank(S, p)
    <2> HIDE DEF S
    <2>1. ToldApart(S)
      BY RowsToldApart DEF S
    <2>2. QED
      BY <2>1, RanksOfRows
  <1>3. IsFiniteSet(B) /\ k \in Nat
    BY <1>1, <1>2, FS_Subset, FS_CardinalityType
  <1>4. \A q \in S : q.start \in Int
    BY DEF RowsOf, IsPanel
  <1>5. {q \in S : q.start <= r.start} = B \union {r}
    <2>1. ASSUME NEW q \in S PROVE q.start <= r.start <=> q \in B \union {r}
      <3>1. PICK a \in Int, b \in Int : a = q.start /\ b = r.start
        BY <1>1, <1>4
      <3>2. a <= b <=> a < b \/ a = b
        OBVIOUS
      <3>3. q.start = r.start <=> q = r
        BY <1>1 DEF RowsOf, IsPanel
      <3>4. q.start < r.start <=> q \in B
        BY DEF RowsOf, Before
      <3>5. QED
        BY <3>1, <3>2, <3>3, <3>4
    <2>2. QED
      BY <1>1, <2>1
  <1>6. Rank(S, r) = k + 1
    BY <1>1, <1>3, <1>5, FS_AddElement DEF Rank
  <1>7. ASSUME NEW q \in B PROVE Rank(B, q) = Rank(S, q)
    <2>1. ASSUME NEW p \in S, p.start <= q.start PROVE p \in B
      <3>1. q.start < r.start /\ q \in S
        BY <1>1 DEF Before
      <3>2. PICK a \in Int, b \in Int, c \in Int : a = p.start /\ b = q.start /\ c = r.start
        BY <1>1, <1>4, <3>1
      <3>3. p.start < r.start
        BY <2>1, <3>1, <3>2
      <3>4. QED
        BY <3>3 DEF RowsOf, Before
    <2>2. {p \in S : p.start <= q.start} = {p \in B : p.start <= q.start}
      BY <1>1, <2>1
    <2>3. QED
      BY <2>2 DEF Rank
  <1>8. /\ DOMAIN rows = 1 .. n
        /\ \A i \in 1 .. n : rows[i] \in S /\ Rank(S, rows[i]) = i
        /\ \A q \in S : rows[Rank(S, q)] = q
    BY OrderedRows
  <1>9. \A q \in S : q.start < r.start => q \in B
    BY DEF RowsOf, Before
  <1> HIDE DEF B, S, rows, k, n
  <1>10. k + 1 \in 1 .. n /\ rows[k + 1] = r
    BY <1>1, <1>2, <1>6, <1>8
  <1>11. ASSUME NEW j \in 1 .. k PROVE rows[j] \in B /\ Rank(B, rows[j]) = j
    <2>1. j \in 1 .. n /\ j < k + 1
      BY <1>2, <1>3, <1>10
    <2>2. rows[j] \in S /\ Rank(S, rows[j]) = j
      BY <1>8, <2>1
    <2>3. rows[j].start < r.start
      BY <1>1, <1>2, <1>6, <2>1, <2>2
    <2>4. QED
      BY <1>7, <1>9, <2>2, <2>3
  <1>12. QED
    BY <1>3, <1>8, <1>10, <1>11 DEF B, S, rows, k, n

LEMMA PriorSum ==
    ASSUME NEW rows, NEW K, IsFiniteSet(K), \A j \in K : Prior(rows, j) \in Int
    PROVE  MapThenSumSet(LAMBDA j : Prior(rows, j), K)
             = SumFunctionOnSet([j \in K |-> Prior(rows, j)], K)
  <1> DEFINE f == [j \in K |-> Prior(rows, j)]
             Body(g) == [t \in SUBSET K |-> IF t = {} THEN 0
                                             ELSE Prior(rows, Some(t)) + g[t \ {Some(t)}]]
  <1>1. \A j \in K : f[j] = Prior(rows, j) /\ f[j] \in Int
    OBVIOUS
  <1>2. MapThenSumSet(LAMBDA j : Prior(rows, j), K) = (CHOOSE g : g = Body(g))[K]
    BY DEF MapThenSumSet, MapThenFoldSet, Some
  <1> HIDE DEF f
  <1>3. PICK g \in [SUBSET K -> Int] : Sums(K, f, g)
    BY <1>1, SumsExist
  <1>4. \A t \in SUBSET K : t # {} => Some(t) \in K
    BY DEF Some
  <1>5. ASSUME NEW h PROVE Body(h) = [t \in SUBSET K |-> IF t = {} THEN 0
                                              ELSE f[Some(t)] + h[t \ {Some(t)}]]
    BY <1>1, <1>4
  <1>6. g = Body(g)
    BY <1>3, <1>5 DEF Sums
  <1> HIDE DEF Body
  <1>7. (CHOOSE h : h = Body(h)) = Body(CHOOSE h : h = Body(h))
    BY <1>6
  <1>8. Sums(K, f, CHOOSE h : h = Body(h))
    BY <1>5, <1>7 DEF Sums
  <1>9. SumFunctionOnSet(f, K) = (CHOOSE h : h = Body(h))[K]
    BY <1>1, <1>8, SumOfSubset
  <1>10. QED
    BY <1>2, <1>9 DEF f

\* Lags are a function of what a place and the places before it look back on.
LEMMA LagsOfPriors ==
    ASSUME NEW a, NEW b, NEW i \in Nat,
           \A j \in 1 .. i : Prior(a, j) \in Int, \A j \in 1 .. i : Prior(a, j) = Prior(b, j),
           i > 0
    PROVE  LagFeatures(a, i) = LagFeatures(b, i)
  <1> DEFINE K(rows) == {j \in 1 .. i : Prior(rows, j) # NaN}
             sum(rows) == MapThenSumSet(LAMBDA j : Prior(rows, j), K(rows))
  <1>1. K(a) = K(b)
    OBVIOUS
  <1>2. IsFiniteSet(K(a))
    <2>1. IsFiniteSet(1 .. i) /\ K(a) \in SUBSET (1 .. i)
      BY FS_Interval
    <2> HIDE DEF K
    <2>2. QED
      BY <2>1, FS_Subset
  <1>3. \A j \in K(a) : Prior(a, j) \in Int /\ Prior(a, j) = Prior(b, j)
    OBVIOUS
  <1>4. i \in 1 .. i
    OBVIOUS
  <1>5. sum(a) = SumFunctionOnSet([j \in K(a) |-> Prior(a, j)], K(a))
    <2> HIDE DEF K
    <2>1. QED
      BY <1>2, <1>3, PriorSum
  <1>6. sum(b) = SumFunctionOnSet([j \in K(b) |-> Prior(b, j)], K(b))
    <2>1. \A j \in K(b) : Prior(b, j) \in Int
      BY <1>1, <1>3
    <2> HIDE DEF K
    <2>2. QED
      BY <1>1, <1>2, <2>1, PriorSum
  <1>7. [j \in K(a) |-> Prior(a, j)] = [j \in K(b) |-> Prior(b, j)]
    <2>1. [j \in K(a) |-> Prior(a, j)] = [j \in K(a) |-> Prior(b, j)]
      BY <1>3
    <2>2. QED
      BY <1>1, <2>1
  <1>8. sum(a) = sum(b)
    BY <1>1, <1>5, <1>6, <1>7
  <1>9. \A rows : LagFeatures(rows, i) = [prev |-> Prior(rows, i),
                                         mean |-> <<sum(rows), Cardinality(K(rows))>>]
    BY DEF LagFeatures
  <1> HIDE DEF K, sum
  <1>10. QED
    BY <1>1, <1>4, <1>8, <1>9

LagsOf(P, r) == LagFeatures(OrderPanel(P, r.unit), Cardinality(Before(P, r)) + 1)

FeatureOf(P, r) == [row |-> r, index |-> SeasonIndex(P, r.season), lags |-> LagsOf(P, r)]

LEMMA FeaturesAreOfRows ==
    ASSUME NEW P, IsPanel(P)
    PROVE  BuildFeatures(P) = {FeatureOf(P, r) : r \in P}
  <1> DEFINE rows(u) == OrderPanel(P, u)
             feature(u, i) == [row   |-> rows(u)[i],
                               index |-> SeasonIndex(P, rows(u)[i].season),
                               lags  |-> LagFeatures(rows(u), i)]
  <1>1. BuildFeatures(P) = UNION {{feature(u, i) : i \in DOMAIN rows(u)} : u \in Units}
    BY DEF BuildFeatures
  <1>2. ASSUME NEW r \in P
        PROVE  /\ r.unit \in Units
               /\ Cardinality(Before(P, r)) + 1 \in DOMAIN rows(r.unit)
               /\ feature(r.unit, Cardinality(Before(P, r)) + 1) = FeatureOf(P, r)
    <2>1. /\ Cardinality(Before(P, r)) + 1 \in DOMAIN rows(r.unit)
          /\ rows(r.unit)[Cardinality(Before(P, r)) + 1] = r
      BY PlacesBefore
    <2>2. r.unit \in Units
      BY DEF IsPanel
    <2>3. QED
      BY <2>1, <2>2 DEF FeatureOf, LagsOf
  <1>3. ASSUME NEW u \in Units, NEW i \in DOMAIN rows(u)
        PROVE  \E r \in P : feature(u, i) = FeatureOf(P, r)
    <2>1. /\ DOMAIN rows(u) = 1 .. Cardinality(RowsOf(P, u))
          /\ \A j \in 1 .. Cardinality(RowsOf(P, u)) :
                rows(u)[j] \in RowsOf(P, u) /\ Rank(RowsOf(P, u), rows(u)[j]) = j
      BY OrderedRows
    <2>2. PICK r \in RowsOf(P, u) : r = rows(u)[i] /\ Rank(RowsOf(P, u), r) = i
      BY <2>1
    <2>3. r \in P /\ r.unit = u
      BY DEF RowsOf
    <2>4. /\ Cardinality(Before(P, r)) + 1 \in DOMAIN rows(u)
          /\ rows(u)[Cardinality(Before(P, r)) + 1] = r
      BY <2>3, PlacesBefore
    <2>5. Rank(RowsOf(P, u), r) = Cardinality(Before(P, r)) + 1
      BY <2>1, <2>4
    <2>6. feature(u, i) = FeatureOf(P, r)
      BY <1>2, <2>2, <2>3, <2>5
    <2>7. QED
      BY <2>3, <2>6
  <1> HIDE DEF feature, rows
  <1>4. ASSUME NEW f \in BuildFeatures(P) PROVE f \in {FeatureOf(P, r) : r \in P}
    BY <1>1, <1>3
  <1>5. ASSUME NEW r \in P PROVE FeatureOf(P, r) \in BuildFeatures(P)
    BY <1>1, <1>2
  <1>6. QED
    BY <1>4, <1>5

\* Two rows with the same past have the same lags, in whatever panels they are.
LEMMA SamePastSameLags ==
    ASSUME NEW P, IsPanel(P), NEW r \in P, NEW R, IsPanel(R), NEW q \in R,
           Before(P, r) = Before(R, q)
    PROVE  LagsOf(P, r) = LagsOf(R, q)
  <1> DEFINE B == Before(P, r)
             k == Cardinality(B)
             a == OrderPanel(P, r.unit)
             b == OrderPanel(R, q.unit)
  <1>1. /\ k \in Nat
        /\ \A j \in 1 .. k : a[j] \in B /\ Rank(B, a[j]) = j
    BY PlacesBefore
  <1>2. \A j \in 1 .. k : b[j] \in B /\ Rank(B, b[j]) = j
    BY PlacesBefore
  <1>3. \A x, y \in B : Rank(B, x) = Rank(B, y) => x = y
    <2>1. B \in SUBSET RowsOf(P, r.unit)
      BY DEF Before, RowsOf
    <2>2. ToldApart(B)
      BY <2>1, RowsToldApart
    <2> HIDE DEF B
    <2>3. QED
      BY <2>2, RanksOfRows
  <1>4. \A x \in B : x.target \in Int
    BY DEF Before, IsPanel, NaN
  <1>5. LagsOf(P, r) = LagFeatures(a, k + 1) /\ LagsOf(R, q) = LagFeatures(b, k + 1)
    BY DEF LagsOf
  <1> HIDE DEF B, k, a, b
  <1>6. \A j \in 1 .. k : a[j] = b[j] /\ a[j].target \in Int
    BY <1>1, <1>2, <1>3, <1>4
  <1>7. ASSUME NEW j \in 1 .. k + 1 PROVE Prior(a, j) \in Int /\ Prior(a, j) = Prior(b, j)
    <2>1. CASE j = 1
      BY <2>1 DEF Prior, NaN
    <2>2. CASE j # 1
      <3>1. j - 1 \in 1 .. k
        BY <1>1, <2>2
      <3>2. QED
        BY <1>6, <2>2, <3>1 DEF Prior
    <2>3. QED
      BY <2>1, <2>2
  <1>8. k + 1 \in Nat /\ k + 1 > 0
    BY <1>1
  <1>9. LagFeatures(a, k + 1) = LagFeatures(b, k + 1)
    BY <1>7, <1>8, LagsOfPriors
  <1>10. QED
    BY <1>5, <1>9

\* The features of the rows up to a day are those of the panel cut at that day.
LEMMA FeaturesOfPrefix ==
    ASSUME NEW P, IsPanel(P), NEW first \in Int
    PROVE  /\ IsPanel({r \in P : r.start < first})
           /\ {f \in BuildFeatures(P) : f.row.start < first}
                = BuildFeatures({r \in P : r.start < first})
  <1> DEFINE R == {r \in P : r.start < first}
  <1>1. IsPanel(R)
    <2>1. R \in SUBSET P
      OBVIOUS
    <2>2. IsFiniteSet(R)
      BY <2>1, FS_Subset DEF IsPanel
    <2>3. QED
      BY <2>1, <2>2 DEF IsPanel
  <1>2. ASSUME NEW r \in R PROVE FeatureOf(P, r) = FeatureOf(R, r)
    <2>1. \A q \in P : q.start < r.start => q \in R
      <3>1. ASSUME NEW q \in P, q.start < r.start PROVE q.start < first
        <4>1. PICK a \in Int, b \in Int : a = q.start /\ b = r.start
          BY DEF IsPanel
        <4>2. a < b /\ b < first
          BY <3>1, <4>1
        <4>3. QED
          BY <4>1, <4>2
      <3>2. QED
        BY <3>1
    <2>2. Before(P, r) = Before(R, r)
      BY <2>1 DEF Before
    <2>3. LagsOf(P, r) = LagsOf(R, r)
      BY <1>1, <2>2, SamePastSameLags
    <2>4. {s \in {q.season : q \in P} : s < r.season} = {s \in {q.season : q \in R} : s < r.season}
      <3>1. \A q \in P : q.season < r.season => q \in R
        BY <2>1 DEF IsPanel
      <3>2. QED
        BY <3>1
    <2>5. SeasonIndex(P, r.season) = SeasonIndex(R, r.season)
      BY <2>4 DEF SeasonIndex
    <2>6. QED
      BY <2>3, <2>5 DEF FeatureOf
  <1>3. \A r : FeatureOf(P, r).row = r
    BY DEF FeatureOf
  <1>4. /\ BuildFeatures(P) = {FeatureOf(P, r) : r \in P}
        /\ BuildFeatures(R) = {FeatureOf(R, r) : r \in R}
    BY <1>1, FeaturesAreOfRows
  <1>5. {f \in BuildFeatures(P) : f.row.start < first} = {FeatureOf(P, r) : r \in R}
    BY <1>3, <1>4
  <1>6. QED
    BY <1>1, <1>2, <1>4, <1>5

\* A row has a history exactly when its unit has an earlier row.
LEMMA HistoryIsEarlierRow ==
    ASSUME NEW P, IsPanel(P), NEW r \in P, \A q \in Before(P, r) : q.target \in Nat
    PROVE  HasHistory(FeatureOf(P, r)) <=> Before(P, r) # {}
  <1> DEFINE B == Before(P, r)
             k == Cardinality(B)
             rows == OrderPanel(P, r.unit)
             known == {j \in 1 .. k + 1 : Prior(rows, j) # NaN}
             lags == LagFeatures(rows, k + 1)
  <1>1. /\ k \in Nat
        /\ \A j \in 1 .. k : rows[j] \in B /\ Rank(B, rows[j]) = j
    BY PlacesBefore
  <1>2. IsFiniteSet(B)
    <2>1. B \in SUBSET P
      BY DEF Before
    <2>2. QED
      BY <2>1, FS_Subset DEF IsPanel
  <1>3. HasHistory(FeatureOf(P, r)) <=> lags.prev # NaN /\ lags.mean[2] > 0
    BY DEF HasHistory, FeatureOf, LagsOf
  <1>4. lags.prev = Prior(rows, k + 1) /\ lags.mean[2] = Cardinality(known)
    BY DEF LagFeatures
  <1> HIDE DEF B, k, rows, known, lags
  <1>5. CASE B = {}
    <2>1. k = 0
      BY <1>5, FS_EmptySet DEF k
    <2>2. Prior(rows, k + 1) = NaN
      BY <2>1 DEF Prior
    <2>3. QED
      BY <1>3, <1>4, <1>5, <2>2 DEF B
  <1>6. CASE B # {}
    <2>1. k # 0
      BY <1>2, <1>6, FS_EmptySet DEF k
    <2>2. k \in 1 .. k /\ k + 1 # 1 /\ k + 1 \in 1 .. k + 1 /\ (k + 1) - 1 = k
      BY <1>1, <2>1
    <2>3. rows[k].target \in Nat
      BY <1>1, <2>2 DEF B
    <2>4. Prior(rows, k + 1) # NaN
      BY <2>2, <2>3 DEF Prior, NaN
    <2>5. k + 1 \in known
      BY <2>2, <2>4 DEF known
    <2>6. IsFiniteSet(known)
      <3>1. IsFiniteSet(1 .. k + 1) /\ known \in SUBSET (1 .. k + 1)
        BY <1>1, FS_Interval DEF known
      <3>2. QED
        BY <3>1, FS_Subset
    <2>7. Cardinality(known) \in Nat /\ Cardinality(known) # 0
      BY <2>5, <2>6, FS_CardinalityType, FS_EmptySet
    <2>8. Cardinality(known) > 0
      BY <2>7
    <2>9. QED
      BY <1>3, <1>4, <1>6, <2>4, <2>8 DEF B
  <1>7. QED
    BY <1>5, <1>6

-----------------------------------------------------------------------------
(* The panel of a set of events is a full grid.                                *)

\* The starts of events that a panel is built on.
AreStarts(D) ==
    /\ IsFiniteSet(D)
    /\ \A d \in D : d \in Int
    /\ \A u \in Units, d \in D : Target(u, d) \in Nat

LEMMA SeasonsFollowDays ==
    ASSUME NEW a \in Int, NEW b \in Int
    PROVE  SnowSeason(a) \in Int /\ (SnowSeason(a) < SnowSeason(b) => a < b)
  <1>1. SeasonLength \in Nat /\ SeasonLength > 0
    BY PanelConstants
  <1>2. \A x, y \in Int : x <= y => x \div SeasonLength <= y \div SeasonLength
    BY <1>1
  <1>3. \A x \in Int : x \div SeasonLength \in Int
    BY <1>1
  <1>4. PICK p \in Int, q \in Int : p = a - 1 /\ q = b - 1
    OBVIOUS
  <1>5. SnowSeason(a) = p \div SeasonLength /\ SnowSeason(b) = q \div SeasonLength
    BY <1>4 DEF SnowSeason
  <1>6. PICK v \in Int, w \in Int : v = SnowSeason(a) /\ w = SnowSeason(b)
    BY <1>3, <1>5
  <1>7. q <= p => w <= v
    BY <1>2, <1>5, <1>6
  <1>8. v < w => a < b
    BY <1>4, <1>7
  <1>9. QED
    BY <1>6, <1>8

Cell(u, d) ==
    [unit |-> u, start |-> d, season |-> SnowSeason(d), era |-> d >= EraStart,
     target |-> Target(u, d)]

LEMMA PanelIsGrid ==
    ASSUME NEW D
    PROVE  Panel(D) = {Cell(u, d) : u \in Units, d \in D}
  BY DEF Panel, Cell

LEMMA PanelIsPanel ==
    ASSUME NEW D, AreStarts(D)
    PROVE  /\ IsPanel(Panel(D))
           /\ \A r \in Panel(D) : /\ r.unit \in Units /\ r.start \in D
                                  /\ r = Cell(r.unit, r.start) /\ r.target \in Nat
                                  /\ r.season = SnowSeason(r.start)
  <1> DEFINE P == Panel(D)
             cell == [p \in Units \X D |-> Cell(p[1], p[2])]
  <1>1. P = {cell[p] : p \in Units \X D}
    <2>1. \A u \in Units, d \in D : <<u, d>> \in Units \X D /\ cell[<<u, d>>] = Cell(u, d)
      OBVIOUS
    <2>2. \A p \in Units \X D : p[1] \in Units /\ p[2] \in D /\ cell[p] = Cell(p[1], p[2])
      OBVIOUS
    <2>3. P = {Cell(u, d) : u \in Units, d \in D}
      BY PanelIsGrid
    <2> HIDE DEF P, cell
    <2>4. ASSUME NEW r \in P PROVE r \in {cell[p] : p \in Units \X D}
      <3>1. PICK u \in Units, d \in D : r = Cell(u, d)
        BY <2>3
      <3>2. QED
        BY <2>1, <3>1
    <2>5. ASSUME NEW p \in Units \X D PROVE cell[p] \in P
      BY <2>2, <2>3
    <2>6. QED
      BY <2>4, <2>5
  <1>2. IsFiniteSet(Units \X D)
    BY PanelConstants, FS_Product DEF AreStarts
  <1>3. IsFiniteSet(P)
    <2> HIDE DEF cell, P
    <2>1. QED
      BY <1>1, <1>2, ImageIsFinite
  <1>4. ASSUME NEW r \in P
        PROVE  /\ r.unit \in Units /\ r.start \in D /\ r = Cell(r.unit, r.start)
               /\ r.target \in Nat /\ r.season = SnowSeason(r.start)
    <2>1. PICK u \in Units, d \in D : r = Cell(u, d)
      BY PanelIsGrid
    <2>2. r.unit = u /\ r.start = d /\ r.season = SnowSeason(d) /\ r.target = Target(u, d)
      BY <2>1 DEF Cell
    <2>3. QED
      BY <2>1, <2>2 DEF AreStarts
  <1> HIDE DEF P, cell
  <1>5. ASSUME NEW r \in P PROVE r.start \in Int /\ r.season \in Int
    BY <1>4, SeasonsFollowDays DEF AreStarts
  <1>6. ASSUME NEW r \in P, NEW q \in P, q.season < r.season PROVE q.start < r.start
    BY <1>4, <1>5, <1>6, SeasonsFollowDays
  <1>7. IsPanel(P)
    BY <1>3, <1>4, <1>5, <1>6 DEF IsPanel
  <1>8. QED
    BY <1>4, <1>7 DEF P

-----------------------------------------------------------------------------
(* The rows of a forecast event.                                               *)

\* A row of an event that has no outcome yet.
Fresh(u, d) ==
    [unit |-> u, start |-> d, season |-> SnowSeason(d), era |-> FALSE, target |-> NaN]

\* The panel prepare_event derives its features on.
Appended(P, d) == {r \in P : r.start < d} \union {Fresh(u, d) : u \in Units}

LEMMA AppendedIsPanel ==
    ASSUME NEW D, AreStarts(D), NEW d \in D
    PROVE  IsPanel(Appended(Panel(D), d))
  <1> DEFINE P == Panel(D)
             prior == {r \in P : r.start < d}
             new == {Fresh(u, d) : u \in Units}
             G == prior \union new
  <1>1. /\ IsPanel(P) /\ d \in Int
        /\ \A r \in P : r.season = SnowSeason(r.start) /\ r.start \in Int
    BY PanelIsPanel DEF AreStarts
  <1>2. IsPanel(prior)
    BY <1>1, FeaturesOfPrefix
  <1>3. \A r \in new : /\ r.unit \in Units /\ r.start = d /\ r.season = SnowSeason(d)
                       /\ r.target = NaN /\ r = Fresh(r.unit, d)
    BY DEF Fresh
  <1>4. IsFiniteSet(new)
    <2> DEFINE fresh == [u \in Units |-> Fresh(u, d)]
    <2>1. new = {fresh[u] : u \in Units}
      OBVIOUS
    <2> HIDE DEF fresh, new
    <2>2. QED
      BY <2>1, PanelConstants, ImageIsFinite
  <1>5. \A r \in prior : r \in P /\ r.start < d /\ r.start \in Int
    BY <1>1
  <1> HIDE DEF P, prior, new
  <1>6. IsFiniteSet(G)
    BY <1>2, <1>4, FS_Union DEF IsPanel
  <1>7. ASSUME NEW r \in G
        PROVE  /\ r.unit \in Units /\ r.start \in Int /\ r.season \in Int
               /\ r.target \in Nat \union {NaN}
    BY <1>1, <1>2, <1>3, SeasonsFollowDays DEF IsPanel
  <1>8. ASSUME NEW r \in G, NEW q \in G, r.unit = q.unit, r.start = q.start PROVE r = q
    <2>1. r \in prior => q \notin new
      BY <1>1, <1>3, <1>5, <1>8
    <2>2. q \in prior => r \notin new
      BY <1>1, <1>3, <1>5, <1>8
    <2>3. CASE r \in prior /\ q \in prior
      BY <1>2, <1>8, <2>3 DEF IsPanel
    <2>4. CASE r \in new /\ q \in new
      BY <1>3, <1>8, <2>4
    <2>5. QED
      BY <2>1, <2>2, <2>3, <2>4
  <1>9. ASSUME NEW r \in G PROVE r.season = SnowSeason(r.start) /\ r.start \in Int
    BY <1>1, <1>3, <1>5
  <1>10. ASSUME NEW r \in G, NEW q \in G, q.season < r.season PROVE q.start < r.start
    BY <1>9, <1>10, SeasonsFollowDays
  <1>11. IsPanel(G)
    BY <1>6, <1>7, <1>8, <1>10 DEF IsPanel
  <1>12. QED
    BY <1>11 DEF Appended, P, prior, new

\* A row of a forecast event knows what the row of the event would have known.
LEMMA FreshKnowsTheSame ==
    ASSUME NEW D, AreStarts(D), NEW d \in D, NEW u \in Units
    PROVE  /\ Fresh(u, d) \in Appended(Panel(D), d)
           /\ Cell(u, d) \in Panel(D)
           /\ Before(Appended(Panel(D), d), Fresh(u, d)) = Before(Panel(D), Cell(u, d))
           /\ Known(FeatureOf(Appended(Panel(D), d), Fresh(u, d)))
                = Known(FeatureOf(Panel(D), Cell(u, d)))
           /\ HasHistory(FeatureOf(Appended(Panel(D), d), Fresh(u, d)))
                <=> HasHistory(FeatureOf(Panel(D), Cell(u, d)))
  <1> DEFINE P == Panel(D)
             G == Appended(P, d)
             r == Fresh(u, d)
             c == Cell(u, d)
  <1>1. /\ IsPanel(P) /\ d \in Int
        /\ \A q \in P : q.season = SnowSeason(q.start) /\ q.start \in Int
    BY PanelIsPanel DEF AreStarts
  <1>2. IsPanel(G)
    BY AppendedIsPanel
  <1>3. r \in G /\ c \in P
    BY PanelIsGrid DEF Appended
  <1>4. /\ r.unit = u /\ r.start = d /\ r.season = SnowSeason(d)
        /\ c.unit = u /\ c.start = d /\ c.season = SnowSeason(d)
    BY DEF Fresh, Cell
  <1>5. \A q \in G : \/ q \in P /\ q.start < d
                     \/ q.start = d /\ q.season = SnowSeason(d)
    BY DEF Appended, Fresh
  <1>6. \A q \in P : q.start < d => q \in G
    BY DEF Appended
  <1> HIDE DEF P, G, r, c
  <1>7. Before(G, r) = Before(P, c)
    BY <1>1, <1>4, <1>5, <1>6 DEF Before
  <1>8. LagsOf(G, r) = LagsOf(P, c)
    BY <1>1, <1>2, <1>3, <1>7, SamePastSameLags
  <1>9. SeasonIndex(G, SnowSeason(d)) = SeasonIndex(P, SnowSeason(d))
    <2>1. SnowSeason(d) \in Int
      BY <1>1, SeasonsFollowDays
    <2>2. \A q \in P : q.season < SnowSeason(d) => q.start < d
      BY <1>1, SeasonsFollowDays
    <2>3. ~ (SnowSeason(d) < SnowSeason(d))
      BY <2>1
    <2>4. {s \in {q.season : q \in G} : s < SnowSeason(d)}
            = {s \in {q.season : q \in P} : s < SnowSeason(d)}
      BY <1>5, <1>6, <2>2, <2>3
    <2>5. QED
      BY <2>4 DEF SeasonIndex
  <1>10. Known(FeatureOf(G, r)) = Known(FeatureOf(P, c))
    BY <1>4, <1>8, <1>9 DEF Known, FeatureOf
  <1>11. HasHistory(FeatureOf(G, r)) <=> HasHistory(FeatureOf(P, c))
    BY <1>8 DEF HasHistory, FeatureOf
  <1>12. QED
    BY <1>3, <1>7, <1>10, <1>11 DEF P, G, r, c

LEMMA FeaturesSeenAreFeaturesTrained ==
    ASSUME NEW D, AreStarts(D)
    PROVE  SameFeatures(Panel(D))
  <1> DEFINE P == Panel(D)
  <1>1. /\ IsPanel(P)
        /\ \A r \in P : /\ r.unit \in Units /\ r.start \in D /\ r.target \in Nat
                        /\ r = Cell(r.unit, r.start)
    BY PanelIsPanel
  <1>2. ASSUME NEW d \in {r.start : r \in P}
        PROVE  {Known(f) : f \in PrepareEvent(P, d)}
                 = {Known(f) : f \in DropRowsWithoutHistory({g \in BuildFeatures(P) : g.row.start = d})}
    <2> DEFINE G == Appended(P, d)
               prior == {r \in P : r.start < d}
               new == {Fresh(u, d) : u \in Units}
               mine == {f \in BuildFeatures(G) : f.row \in new}
               seen(u) == FeatureOf(G, Fresh(u, d))
               trained(u) == FeatureOf(P, Cell(u, d))
               base == {g \in BuildFeatures(P) : g.row.start = d}
    <2>1. d \in D /\ d \in Int
      BY <1>1 DEF AreStarts
    <2>2. \A u \in Units, e \in D : Cell(u, e) \in P /\ Cell(u, e).unit = u /\ Cell(u, e).start = e
      BY PanelIsGrid DEF Cell
    <2>3. {r.unit : r \in P} = Units
      BY <1>1, <2>1, <2>2
    <2>4. \A f : f.row \in new <=> \E u \in Units : f.row = Fresh(u, d)
      OBVIOUS
    <2>5. IsPanel(G)
      BY <2>1, AppendedIsPanel
    <2>6. BuildFeatures(G) = {FeatureOf(G, r) : r \in G} /\ BuildFeatures(P) = {FeatureOf(P, r) : r \in P}
      BY <1>1, <2>5, FeaturesAreOfRows
    <2>7. ASSUME NEW u \in Units
          PROVE  /\ Fresh(u, d) \in G /\ Cell(u, d) \in P
                 /\ Before(P, Cell(u, d)) = {q \in P : q.unit = u /\ q.start < d}
                 /\ Known(seen(u)) = Known(trained(u))
                 /\ HasHistory(seen(u)) <=> HasHistory(trained(u))
      <3>1. Before(P, Cell(u, d)) = {q \in P : q.unit = u /\ q.start < d}
        BY DEF Before, Cell
      <3>2. QED
        BY <2>1, <3>1, FreshKnowsTheSame
    <2>8. mine = {seen(u) : u \in Units}
      <3>1. \A r : FeatureOf(G, r).row = r
        BY DEF FeatureOf
      <3>2. \A u \in Units : Fresh(u, d) \in new
        OBVIOUS
      <3> HIDE DEF G, new
      <3>3. QED
        BY <2>4, <2>6, <2>7, <3>1, <3>2
    <2>9. base = {trained(u) : u \in Units}
      <3>1. \A r : FeatureOf(P, r).row = r
        BY DEF FeatureOf
      <3>2. \A r \in P : r.start = d => r = Cell(r.unit, d) /\ r.unit \in Units
        BY <1>1
      <3>3. \A u \in Units : Cell(u, d).start = d
        BY DEF Cell
      <3> HIDE DEF P
      <3>4. QED
        BY <2>6, <2>7, <3>1, <3>2, <3>3
    <2>10. ASSUME NEW u \in Units PROVE HasHistory(trained(u)) <=> prior # {}
      <3>1. HasHistory(trained(u)) <=> Before(P, Cell(u, d)) # {}
        BY <1>1, <2>7, HistoryIsEarlierRow
      <3>2. ASSUME NEW q \in prior PROVE Cell(u, q.start) \in Before(P, Cell(u, d))
        BY <1>1, <2>2, <2>7
      <3>3. QED
        BY <2>7, <3>1, <3>2
    <2>11. PrepareEvent(P, d) = IF prior = {} \/ \E f \in mine : ~HasHistory(f) THEN {} ELSE mine
      <3>1. {[unit |-> u, start |-> d, season |-> SnowSeason(d), era |-> FALSE, target |-> NaN] :
                u \in {r.unit : r \in P}} = new
        BY <2>3 DEF Fresh
      <3>2. prior \union new = G
        BY DEF Appended
      <3> HIDE DEF P, new, G
      <3>3. QED
        BY <3>1, <3>2 DEF PrepareEvent
    <2> HIDE DEF P, G, prior, new, mine, seen, trained, base
    <2>12. CASE prior = {}
      <3>1. PrepareEvent(P, d) = {}
        BY <2>11, <2>12
      <3>2. DropRowsWithoutHistory(base) = {}
        BY <2>9, <2>10, <2>12 DEF DropRowsWithoutHistory
      <3>3. QED
        BY <3>1, <3>2 DEF base
    <2>13. CASE prior # {}
      <3>1. PrepareEvent(P, d) = mine
        BY <2>7, <2>8, <2>10, <2>11, <2>13
      <3>2. DropRowsWithoutHistory(base) = base
        BY <2>9, <2>10, <2>13 DEF DropRowsWithoutHistory
      <3>3. {Known(f) : f \in mine} = {Known(f) : f \in base}
        BY <2>7, <2>8, <2>9
      <3>4. QED
        BY <3>1, <3>2, <3>3 DEF base
    <2>14. QED
      BY <2>12, <2>13
  <1>3. QED
    BY <1>2 DEF SameFeatures

-----------------------------------------------------------------------------
(* Splits.                                                                     *)

Trainable(P) == DropRowsWithoutHistory(BuildFeatures(P))

LEMMA TrainableRows ==
    ASSUME NEW P, IsPanel(P)
    PROVE  /\ IsFiniteSet(Trainable(P))
           /\ \A f \in Trainable(P) : /\ f.row \in P /\ f.row.start \in Int
                                      /\ f.row.season \in Int
  <1> DEFINE feature == [r \in P |-> FeatureOf(P, r)]
  <1>1. BuildFeatures(P) = {feature[r] : r \in P}
    BY FeaturesAreOfRows
  <1> HIDE DEF feature
  <1>2. IsFiniteSet(BuildFeatures(P))
    BY <1>1, ImageIsFinite DEF IsPanel
  <1>3. Trainable(P) \in SUBSET BuildFeatures(P)
    BY DEF Trainable, DropRowsWithoutHistory
  <1>4. IsFiniteSet(Trainable(P))
    BY <1>2, <1>3, FS_Subset
  <1>5. \A f \in BuildFeatures(P) : f.row \in P
    BY FeaturesAreOfRows DEF FeatureOf
  <1>6. QED
    BY <1>3, <1>4, <1>5 DEF IsPanel

LEMMA TrainableBefore ==
    ASSUME NEW P, IsPanel(P), NEW first \in Int
    PROVE  {f \in Trainable(P) : f.row.start < first}
             = DropRowsWithoutHistory(BuildFeatures({r \in P : r.start < first}))
  <1>1. {f \in BuildFeatures(P) : f.row.start < first} = BuildFeatures({r \in P : r.start < first})
    BY FeaturesOfPrefix
  <1>2. {f \in Trainable(P) : f.row.start < first}
          = DropRowsWithoutHistory({f \in BuildFeatures(P) : f.row.start < first})
    BY DEF Trainable, DropRowsWithoutHistory
  <1>3. QED
    BY <1>1, <1>2

\* First and last day of a non-empty set of rows.
LEMMA FirstAndLastStart ==
    ASSUME NEW P, IsPanel(P), NEW T \in SUBSET Trainable(P), T # {}
    PROVE  /\ Min(Starts(T)) \in Int /\ \E f \in T : f.row.start = Min(Starts(T))
           /\ \A f \in T : Min(Starts(T)) <= f.row.start
           /\ Max(Starts(T)) \in Int /\ \A f \in T : f.row.start <= Max(Starts(T))
  <1> DEFINE start == [f \in T |-> f.row.start]
  <1>1. IsFiniteSet(T) /\ \A f \in T : f.row.start \in Int
    BY TrainableRows, FS_Subset
  <1>2. Starts(T) = {start[f] : f \in T}
    BY DEF Starts
  <1> HIDE DEF start
  <1>3. IsFiniteSet(Starts(T))
    BY <1>1, <1>2, ImageIsFinite
  <1>4. (\A x \in Starts(T) : x \in Int) /\ Starts(T) # {}
    BY <1>1 DEF Starts
  <1>5. /\ \E e \in Starts(T) : \A p \in Starts(T) : e <= p
        /\ \E e \in Starts(T) : \A p \in Starts(T) : e >= p
    BY <1>3, <1>4, FirstAndLastOf
  <1>6. Min(Starts(T)) \in Starts(T) /\ \A p \in Starts(T) : Min(Starts(T)) <= p
    BY <1>5 DEF Min
  <1>7. Max(Starts(T)) \in Starts(T) /\ \A p \in Starts(T) : Max(Starts(T)) >= p
    BY <1>5 DEF Max
  <1>8. \A f \in T : f.row.start \in Starts(T)
    BY DEF Starts
  <1>9. \E f \in T : f.row.start = Min(Starts(T))
    BY <1>6 DEF Starts
  <1>10. \A p \in Starts(T) : p <= Max(Starts(T))
    BY <1>4, <1>7
  <1>11. QED
    BY <1>4, <1>6, <1>7, <1>8, <1>9, <1>10

\* A split whose training side ends before its test side begins is honest.
LEMMA CutInTimeIsHonest ==
    ASSUME NEW P, IsPanel(P), NEW split, split.test \in SUBSET Trainable(P), split.test # {},
           split.train = {f \in Trainable(P) : f.row.start < Min(Starts(split.test))}
    PROVE  HonestSplit(P, split)
  <1> DEFINE first == Min(Starts(split.test))
  <1>1. first \in Int
    BY FirstAndLastStart
  <1> HIDE DEF first
  <1>2. split.train = {f \in Trainable(P) : f.row.start < first}
    BY DEF first
  <1>3. split.train = DropRowsWithoutHistory(BuildFeatures({r \in P : r.start < first}))
    BY <1>1, <1>2, TrainableBefore
  <1>4. \A f \in split.train : f.row.start < first
    BY <1>2
  <1>5. QED
    BY <1>3, <1>4 DEF HonestSplit, first

LEMMA HoldoutIsHonest ==
    ASSUME NEW P, IsPanel(P), NEW i \in DOMAIN HoldoutSplit(Trainable(P))
    PROVE  HonestSplit(P, HoldoutSplit(Trainable(P))[i])
  <1> DEFINE F == Trainable(P)
             seasons == {f.row.season : f \in F}
             last == Max(seasons)
             split == [train |-> {f \in F : f.row.season # last},
                       test  |-> {f \in F : f.row.season = last}]
             first == Min(Starts(split.test))
  <1>1. HoldoutSplit(F) = IF Cardinality(seasons) < 2 \/ ~TimeOrdered(split.train, split.test)
                          THEN <<>> ELSE <<split>>
    BY DEF HoldoutSplit, Refused
  <1> HIDE DEF split
  <1>2. /\ ~ (Cardinality(seasons) < 2) /\ TimeOrdered(split.train, split.test)
        /\ HoldoutSplit(F)[i] = split
    BY <1>1
  <1>3. /\ split.train = {f \in F : f.row.season # last}
        /\ split.test = {f \in F : f.row.season = last}
    BY DEF split
  <1>4. IsFiniteSet(F) /\ \A f \in F : f.row.season \in Int /\ f.row.start \in Int
    BY TrainableRows
  <1> HIDE DEF F, last
  <1>5. IsFiniteSet(seasons)
    <2> DEFINE season == [f \in F |-> f.row.season]
    <2>1. seasons = {season[f] : f \in F}
      OBVIOUS
    <2> HIDE DEF season, seasons
    <2>2. QED
      BY <1>4, <2>1, ImageIsFinite
  <1>6. seasons # {}
    <2>1. Cardinality({}) = 0
      BY FS_EmptySet
    <2> HIDE DEF seasons
    <2>2. QED
      BY <1>2, <2>1
  <1>7. last \in seasons
    <2>1. \A x \in seasons : x \in Int
      BY <1>4
    <2> HIDE DEF seasons
    <2>2. \E e \in seasons : \A p \in seasons : e >= p
      BY <1>5, <1>6, <2>1, FirstAndLastOf
    <2>3. QED
      BY <2>2 DEF Max, last
  <1>8. split.test # {} /\ split.test \in SUBSET F /\ split.train \in SUBSET F
    BY <1>3, <1>7
  <1>9. \E f \in F : f.row.season # last
    <2>1. SUFFICES ASSUME \A f \in F : f.row.season = last PROVE FALSE
      OBVIOUS
    <2>2. seasons = {last}
      BY <1>7, <2>1
    <2>3. Cardinality({last}) = 1
      BY FS_Singleton
    <2> HIDE DEF seasons
    <2>4. QED
      BY <1>2, <2>2, <2>3
  <1>10. split.train # {}
    BY <1>3, <1>9
  <1>11. /\ first \in Int /\ \A f \in split.test : first <= f.row.start
         /\ Max(Starts(split.train)) \in Int
         /\ \A f \in split.train : f.row.start <= Max(Starts(split.train))
    BY <1>8, <1>10, FirstAndLastStart DEF F
  <1>12. Max(Starts(split.train)) < first
    BY <1>2 DEF TimeOrdered
  <1> HIDE DEF first
  <1>13. \A f \in F : f \in split.train <=> f.row.start < first
    <2>1. \A f \in split.train : f.row.start < first
      <3>1. ASSUME NEW f \in split.train PROVE f.row.start < first
        <4>1. PICK a \in Int, b \in Int : a = f.row.start /\ b = Max(Starts(split.train))
          BY <1>4, <1>8, <1>11
        <4>2. a <= b /\ b < first
          BY <1>11, <1>12, <4>1
        <4>3. QED
          BY <1>11, <4>1, <4>2
      <3>2. QED
        BY <3>1
    <2>2. \A f \in split.test : ~ (f.row.start < first)
      <3>1. ASSUME NEW f \in split.test PROVE ~ (f.row.start < first)
        <4>1. PICK a \in Int : a = f.row.start
          BY <1>4, <1>8
        <4>2. first <= a
          BY <1>11, <4>1
        <4>3. QED
          BY <1>11, <4>1, <4>2
      <3>2. QED
        BY <3>1
    <2>3. \A f \in F : f \in split.train \/ f \in split.test
      BY <1>3
    <2>4. QED
      BY <2>1, <2>2, <2>3
  <1>14. split.train = {f \in F : f.row.start < first}
    BY <1>8, <1>13
  <1>15. HonestSplit(P, split)
    BY <1>8, <1>14, CutInTimeIsHonest DEF F, first
  <1>16. QED
    BY <1>2, <1>15 DEF F

LEMMA TestSizes ==
    ASSUME NEW Z, IsFiniteSet(Z), \A z \in Z : IsFiniteSet(z.test)
    PROVE  MapThenSumSet(LAMBDA fold : Cardinality(fold.test), Z)
             = SumFunctionOnSet([z \in Z |-> Cardinality(z.test)], Z)
  <1> DEFINE f == [z \in Z |-> Cardinality(z.test)]
             Body(g) == [t \in SUBSET Z |-> IF t = {} THEN 0
                                             ELSE Cardinality(Some(t).test) + g[t \ {Some(t)}]]
  <1>1. \A z \in Z : f[z] = Cardinality(z.test) /\ f[z] \in Int
    BY FS_CardinalityType
  <1>2. MapThenSumSet(LAMBDA fold : Cardinality(fold.test), Z) = (CHOOSE g : g = Body(g))[Z]
    BY DEF MapThenSumSet, MapThenFoldSet, Some
  <1> HIDE DEF f
  <1>3. PICK g \in [SUBSET Z -> Int] : Sums(Z, f, g)
    BY <1>1, SumsExist
  <1>4. \A t \in SUBSET Z : t # {} => Some(t) \in Z
    BY DEF Some
  <1>5. ASSUME NEW h PROVE Body(h) = [t \in SUBSET Z |-> IF t = {} THEN 0
                                              ELSE f[Some(t)] + h[t \ {Some(t)}]]
    BY <1>1, <1>4
  <1>6. g = Body(g)
    BY <1>3, <1>5 DEF Sums
  <1> HIDE DEF Body
  <1>7. (CHOOSE h : h = Body(h)) = Body(CHOOSE h : h = Body(h))
    BY <1>6
  <1>8. Sums(Z, f, CHOOSE h : h = Body(h))
    BY <1>5, <1>7 DEF Sums
  <1>9. SumFunctionOnSet(f, Z) = (CHOOSE h : h = Body(h))[Z]
    BY <1>1, <1>8, SumOfSubset
  <1>10. QED
    BY <1>2, <1>9 DEF f

\* The seasons that are held out, and their folds.
EraRows(F) == {f \in F : f.row.era}
EraSeasons(F) == {f.row.season : f \in EraRows(F)}
Folds(F) == {FoldOf(F, s) : s \in EraSeasons(F)}

LEMMA FoldsAreKeyed ==
    ASSUME NEW P, IsPanel(P)
    PROVE  LET Z == Folds(Trainable(P)) IN
           /\ Keyed(Z, [z \in Z |-> z.season])
           /\ \A z \in Z : z.season \in EraSeasons(Trainable(P)) /\ z = FoldOf(Trainable(P), z.season)
           /\ \A z \in Z : /\ z.test \in SUBSET Trainable(P) /\ z.test # {}
                            /\ z.test = {f \in Trainable(P) : f.row.season = z.season}
                            /\ z.train = {f \in Trainable(P) : f.row.start < Min(Starts(z.test))}
  <1> DEFINE F == Trainable(P)
             seasons == EraSeasons(F)
             Z == Folds(F)
  <1>1. IsFiniteSet(F) /\ \A f \in F : f.row.season \in Int
    BY TrainableRows
  <1>2. IsFiniteSet(seasons)
    <2> DEFINE season == [f \in EraRows(F) |-> f.row.season]
    <2>1. EraRows(F) \in SUBSET F
      BY DEF EraRows
    <2>2. IsFiniteSet(EraRows(F))
      BY <1>1, <2>1, FS_Subset
    <2>3. seasons = {season[f] : f \in EraRows(F)}
      BY DEF EraSeasons
    <2> HIDE DEF season, seasons
    <2>4. QED
      BY <2>2, <2>3, ImageIsFinite
  <1>3. IsFiniteSet(Z)
    <2> DEFINE fold == [s \in seasons |-> FoldOf(F, s)]
    <2>1. Z = {fold[s] : s \in seasons}
      BY DEF Folds
    <2> HIDE DEF fold, seasons, Z
    <2>2. QED
      BY <1>2, <2>1, ImageIsFinite
  <1>4. \A s \in seasons : \E f \in F : f.row.season = s
    BY DEF EraSeasons, EraRows
  <1>5. \A s : /\ FoldOf(F, s).season = s
               /\ FoldOf(F, s).test = {f \in F : f.row.season = s}
               /\ FoldOf(F, s).train = {f \in F : f.row.start < Min(Starts(FoldOf(F, s).test))}
    BY DEF FoldOf
  <1>6. Z = {FoldOf(F, s) : s \in seasons}
    BY DEF Folds
  <1>7. \A s \in seasons : s \in Int
    BY <1>1, <1>4
  <1> HIDE DEF F, seasons, Z
  <1>8. \A z \in Z : z.season \in seasons /\ z = FoldOf(F, z.season)
    BY <1>5, <1>6
  <1>9. \A z \in Z : /\ z.test = {f \in F : f.row.season = z.season}
                     /\ z.train = {f \in F : f.row.start < Min(Starts(z.test))}
    BY <1>5, <1>8
  <1>10. \A z \in Z : z.test \in SUBSET F /\ z.test # {}
    BY <1>4, <1>8, <1>9
  <1>11. Keyed(Z, [z \in Z |-> z.season])
    <2> DEFINE key == [z \in Z |-> z.season]
    <2>1. \A z \in Z : key[z] = z.season
      OBVIOUS
    <2> HIDE DEF key
    <2>2. Keyed(Z, key)
      BY <1>3, <1>7, <1>8, <2>1 DEF Keyed
    <2>3. QED
      BY <2>2 DEF key
  <1>12. QED
    BY <1>8, <1>9, <1>10, <1>11 DEF F, seasons, Z

\* What rolling_origin_splits refuses, and the order of what it returns.
LEMMA SplitsAreFolds ==
    ASSUME NEW P, IsPanel(P),
           NEW i \in DOMAIN RollingOriginSplits(Trainable(P))
    PROVE  LET F == Trainable(P)
               Z == Folds(F)
               key == [z \in Z |-> z.season]
               splits == RollingOriginSplits(F) IN
           /\ MapThenSumSet(LAMBDA fold : Cardinality(fold.test), Z) = Cardinality(EraRows(F))
           /\ DOMAIN splits = 1 .. Cardinality(Z)
           /\ splits[i] \in Z /\ Place(Z, key, splits[i]) = i
           /\ \A z \in Z : Place(Z, key, z) \in DOMAIN splits /\ splits[Place(Z, key, z)] = z
  <1> DEFINE F == Trainable(P)
             Z == Folds(F)
             key == [z \in Z |-> z.season]
             splits == RollingOriginSplits(F)
             n == Cardinality(Z)
             sizes == MapThenSumSet(LAMBDA fold : Cardinality(fold.test), Z)
             ordered == [j \in 1 .. n |-> CHOOSE z \in Z : Place(Z, key, z) = j]
  <1>1. Keyed(Z, key)
    BY FoldsAreKeyed
  <1>2. Ordered(Z, LAMBDA fold : fold.season) = [j \in 1 .. n |->
            CHOOSE z \in Z : Cardinality({y \in Z : y.season <= z.season}) = j]
    BY DEF Ordered
  <1>3. splits = IF \/ EraSeasons(F) = {} \/ \E fold \in Z : fold.train = {}
                    \/ sizes # Cardinality(EraRows(F))
                 THEN <<>> ELSE Ordered(Z, LAMBDA fold : fold.season)
    BY DEF RollingOriginSplits, Refused, EraSeasons, EraRows, Folds
  <1>4. \A z \in Z : {y \in Z : key[y] <= key[z]} = {y \in Z : y.season <= z.season}
    OBVIOUS
  <1> HIDE DEF Z, key, n, sizes
  <1>5. \A z \in Z : Place(Z, key, z) = Cardinality({y \in Z : y.season <= z.season})
    BY <1>4 DEF Place
  <1>6. /\ splits = [j \in 1 .. n |->
                       CHOOSE z \in Z : Cardinality({y \in Z : y.season <= z.season}) = j]
        /\ sizes = Cardinality(EraRows(F))
    <2>1. DOMAIN <<>> = {}
      OBVIOUS
    <2> HIDE DEF F
    <2>2. i \in DOMAIN splits
      BY DEF F
    <2> HIDE DEF splits
    <2>3. splits # <<>>
      BY <2>1, <2>2
    <2>4. QED
      BY <1>2, <1>3, <2>3
  <1>7. \A j \in 1 .. n : \E z \in Z : Place(Z, key, z) = j
    BY <1>1, PlaceIsOnto DEF n
  <1>8. \A z \in Z : Place(Z, key, z) \in 1 .. n
    BY <1>1, PlaceIsStrict DEF n
  <1> HIDE DEF splits, F
  <1>9. \A j \in 1 .. n : splits[j] \in Z /\ Place(Z, key, splits[j]) = j
    <2>1. ASSUME NEW j \in 1 .. n PROVE splits[j] \in Z /\ Place(Z, key, splits[j]) = j
      <3>1. \E z \in Z : Cardinality({y \in Z : y.season <= z.season}) = j
        BY <1>5, <1>7
      <3>2. splits[j] \in Z /\ Cardinality({y \in Z : y.season <= splits[j].season}) = j
        BY <1>6, <3>1
      <3>3. QED
        BY <1>5, <3>2
    <2>2. QED
      BY <2>1
  <1>10. \A y, z \in Z : Place(Z, key, y) = Place(Z, key, z) => y = z
    <2>1. ASSUME NEW y \in Z, NEW z \in Z, Place(Z, key, y) = Place(Z, key, z) PROVE y = z
      <3>1. Place(Z, key, y) \in Int
        BY <1>1, <1>8, FS_CardinalityType DEF Keyed, n
      <3>2. ~ (Place(Z, key, y) < Place(Z, key, z)) /\ ~ (Place(Z, key, z) < Place(Z, key, y))
        BY <2>1, <3>1
      <3>3. ~ (key[y] < key[z]) /\ ~ (key[z] < key[y])
        BY <1>1, <3>2, PlaceIsStrict
      <3>4. PICK a \in Int, b \in Int : a = key[y] /\ b = key[z]
        BY <1>1 DEF Keyed
      <3>5. a = b
        BY <3>3, <3>4
      <3>6. QED
        BY <1>1, <3>4, <3>5 DEF Keyed
    <2>2. QED
      BY <2>1
  <1>11. DOMAIN splits = 1 .. n
    BY <1>6
  <1>12. i \in 1 .. n
    BY <1>11 DEF splits, F
  <1>13. \A z \in Z : splits[Place(Z, key, z)] = z
    BY <1>8, <1>9, <1>10
  <1>14. QED
    BY <1>6, <1>8, <1>9, <1>11, <1>12, <1>13 DEF F, Z, key, splits, n, sizes

LEMMA SplitsShape ==
    ASSUME NEW P, IsPanel(P), RollingOriginSplits(Trainable(P)) # Refused
    PROVE  \E i \in DOMAIN RollingOriginSplits(Trainable(P)) : TRUE
  <1> DEFINE F == Trainable(P)
             Z == Folds(F)
             n == Cardinality(Z)
             splits == RollingOriginSplits(F)
             sizes == MapThenSumSet(LAMBDA fold : Cardinality(fold.test), Z)
  <1>1. splits = IF \/ EraSeasons(F) = {} \/ \E fold \in Z : fold.train = {}
                    \/ sizes # Cardinality(EraRows(F))
                 THEN <<>> ELSE Ordered(Z, LAMBDA fold : fold.season)
    BY DEF RollingOriginSplits, Refused, EraSeasons, EraRows, Folds
  <1>2. DOMAIN Ordered(Z, LAMBDA fold : fold.season) = 1 .. n
    BY DEF Ordered
  <1>3. IsFiniteSet(Z)
    BY FoldsAreKeyed DEF Keyed
  <1>4. EraSeasons(F) # {} => Z # {}
    BY DEF Folds
  <1>5. splits # <<>>
    BY DEF Refused
  <1> HIDE DEF F, Z, splits, sizes
  <1>6. DOMAIN splits = 1 .. n /\ EraSeasons(F) # {}
    BY <1>1, <1>2, <1>5
  <1>7. n \in Nat /\ n # 0
    BY <1>3, <1>4, <1>6, FS_CardinalityType, FS_EmptySet
  <1>8. 1 \in 1 .. n
    BY <1>7
  <1>9. QED
    BY <1>6, <1>8 DEF splits, F

\* A row of the era is held out once, and no other row is: the folds hold out as
\* many rows as the era has, or training refuses them.
LEMMA HeldOutOnce ==
    ASSUME NEW P, IsPanel(P), RollingOriginSplits(Trainable(P)) # Refused,
           NEW f \in Trainable(P)
    PROVE  LET splits == RollingOriginSplits(Trainable(P)) IN
           Cardinality({i \in DOMAIN splits : f \in splits[i].test})
             = IF f.row.era THEN 1 ELSE 0
  <1> DEFINE F == Trainable(P)
             Z == Folds(F)
             key == [z \in Z |-> z.season]
             splits == RollingOriginSplits(F)
             n == Cardinality(Z)
             mine == {i \in DOMAIN splits : f \in splits[i].test}
             part == [z \in Z |-> z.test]
             all == AllOf(Z, part)
  <1>1. /\ Keyed(Z, key)
        /\ \A z \in Z : z.season \in EraSeasons(F) /\ z = FoldOf(F, z.season)
        /\ \A z \in Z : z.test \in SUBSET F /\ z.test = {g \in F : g.row.season = z.season}
    BY FoldsAreKeyed
  <1>2. ASSUME NEW i \in DOMAIN splits
        PROVE  /\ MapThenSumSet(LAMBDA fold : Cardinality(fold.test), Z) = Cardinality(EraRows(F))
               /\ splits[i] \in Z /\ Place(Z, key, splits[i]) = i
               /\ \A z \in Z : Place(Z, key, z) \in DOMAIN splits /\ splits[Place(Z, key, z)] = z
    BY SplitsAreFolds
  <1>3. IsFiniteSet(F)
    BY TrainableRows
  <1>4. \A g \in EraRows(F) : g \in F /\ FoldOf(F, g.row.season) \in Z
                              /\ FoldOf(F, g.row.season).season = g.row.season
    BY DEF EraRows, Folds, EraSeasons, FoldOf
  <1>5. f \in F /\ (f.row.era <=> f \in EraRows(F))
    BY DEF EraRows
  <1>6. \A z \in Z : part[z] = z.test
    OBVIOUS
  <1> HIDE DEF F, Z, key, splits
  <1>8. ASSUME NEW i \in DOMAIN splits, f.row.era
        PROVE  Cardinality(mine) = 1
    <2> DEFINE z == FoldOf(F, f.row.season)
    <2>1. z \in Z /\ z.season = f.row.season
      BY <1>4, <1>5, <1>8
    <2> HIDE DEF z
    <2>2. f \in z.test
      BY <1>1, <1>5, <2>1
    <2>3. \A y \in Z : f \in y.test => y = z
      BY <1>1, <1>5, <2>1
    <2>4. mine = {Place(Z, key, z)}
      <3>1. Place(Z, key, z) \in DOMAIN splits /\ splits[Place(Z, key, z)] = z
        BY <1>2, <2>1
      <3>2. \A j \in DOMAIN splits : splits[j] \in Z /\ Place(Z, key, splits[j]) = j
        BY <1>2
      <3>3. QED
        BY <2>2, <2>3, <3>1, <3>2
    <2> HIDE DEF mine
    <2>5. QED
      BY <2>4, FS_Singleton
  <1>9. ASSUME ~f.row.era PROVE mine = {}
    <2>1. SUFFICES ASSUME NEW i \in DOMAIN splits, f \in splits[i].test PROVE FALSE
      OBVIOUS
    <2>2. /\ splits[i] \in Z
          /\ MapThenSumSet(LAMBDA fold : Cardinality(fold.test), Z) = Cardinality(EraRows(F))
      BY <1>2
    <2>3. IsFiniteSet(Z) /\ \A z \in Z : IsFiniteSet(z.test)
      BY <1>1, <1>3, FS_Subset DEF Keyed
    <2>4. Apart(Z, part)
      <3>1. ASSUME NEW y \in Z, NEW z \in Z, NEW g \in y.test, g \in z.test PROVE y = z
        <4>1. g.row.season = y.season /\ g.row.season = z.season
          BY <1>1, <3>1
        <4>2. QED
          BY <1>1, <4>1
      <3>2. QED
        BY <1>6, <3>1 DEF Apart
    <2>5. \A z \in Z : IsFiniteSet(part[z])
      BY <1>6, <2>3
    <2>6. SizesOf(Z, part) = [z \in Z |-> Cardinality(z.test)]
      BY <1>6 DEF SizesOf
    <2>7. MapThenSumSet(LAMBDA fold : Cardinality(fold.test), Z)
            = SumFunctionOnSet([z \in Z |-> Cardinality(z.test)], Z)
      BY <2>3, TestSizes
    <2> HIDE DEF part
    <2>8. /\ IsFiniteSet(all)
          /\ SumFunctionOnSet(SizesOf(Z, part), Z) = Cardinality(all)
      BY <2>3, <2>4, <2>5, SizesAddUp
    <2>9. Cardinality(all) = Cardinality(EraRows(F))
      BY <2>2, <2>6, <2>7, <2>8
    <2>10. EraRows(F) \in SUBSET all
      <3>1. ASSUME NEW g \in EraRows(F) PROVE \E z \in Z : g \in part[z]
        BY <1>1, <1>4, <1>6, <3>1
      <3>2. QED
        BY <3>1 DEF AllOf
    <2>11. f \in all /\ f \notin EraRows(F)
      BY <1>5, <1>6, <1>9, <2>1, <2>2 DEF AllOf
    <2> HIDE DEF all
    <2>12. EraRows(F) = all
      BY <2>8, <2>9, <2>10, FS_Subset
    <2>13. QED
      BY <2>11, <2>12
  <1>10. PICK i \in DOMAIN splits : TRUE
    BY SplitsShape DEF splits, F
  <1>11. CASE f.row.era
    BY <1>8, <1>10, <1>11 DEF splits, F
  <1>12. CASE ~f.row.era
    BY <1>9, <1>12, FS_EmptySet DEF splits, F
  <1>13. QED
    BY <1>11, <1>12

-----------------------------------------------------------------------------
LEMMA FoldsAreHonest ==
    ASSUME NEW P, IsPanel(P)
    PROVE  HonestFolds(P)
  <1> DEFINE F == Trainable(P)
             folds == RollingOriginSplits(F)
             holdout == HoldoutSplit(F)
  <1>1. ASSUME NEW i \in DOMAIN folds PROVE HonestSplit(P, folds[i])
    <2>1. folds[i] \in Folds(F)
      BY <1>1, SplitsAreFolds
    <2>2. PICK fold \in Folds(F) : fold = folds[i]
      BY <2>1
    <2>3. /\ fold.test \in SUBSET F /\ fold.test # {}
          /\ fold.train = {f \in F : f.row.start < Min(Starts(fold.test))}
      BY FoldsAreKeyed
    <2>4. QED
      BY <2>2, <2>3, CutInTimeIsHonest
  <1>2. ASSUME folds # Refused, NEW f \in F
        PROVE  Cardinality({i \in DOMAIN folds : f \in folds[i].test})
                 = IF f.row.era THEN 1 ELSE 0
    BY <1>2, HeldOutOnce
  <1>3. \A i \in DOMAIN holdout : HonestSplit(P, holdout[i])
    BY HoldoutIsHonest
  <1>4. F = DropRowsWithoutHistory(BuildFeatures(P))
    BY DEF Trainable
  <1> HIDE DEF F, folds, holdout
  <1>5. QED
    BY <1>1, <1>2, <1>3, <1>4 DEF HonestFolds, folds, holdout

\* The first days of an archive's events are days of the archive.
LEMMA StartsOfEvents ==
    ASSUME ArchiveOK, NEW rule \in Rules
    PROVE  AreStarts({e.start : e \in SparkEvents(archive, rule)})
  <1> DEFINE Q == Qualifying(archive, rule)
             D == {e.start : e \in SparkEvents(archive, rule)}
  <1>1. IsFiniteSet(Q) /\ \A d \in Q : d \in DOMAIN archive
    <2>1. IsFiniteSet(DOMAIN archive)
      BY ArchiveIsSeries DEF IsSeries
    <2>2. Q \in SUBSET DOMAIN archive
      BY DEF Qualifying
    <2>3. QED
      BY <2>1, <2>2, FS_Subset
  <1>2. \A d \in Q : d \in 1 .. NumDays /\ d \in Nat
    BY <1>1, ForecastConstants DEF ArchiveOK
  <1>3. rule.gap \in Nat
    BY RuleIsRule DEF IsRule
  <1> HIDE DEF Q
  <1>4. SparkRuns(Q, rule.gap) = MaximalRuns(Q, rule.gap)
    <2>1. Q \subseteq Nat
      BY <1>2
    <2>2. QED
      BY <1>1, <1>3, <2>1, RunningCountFindsMaximalRuns
  <1>5. ASSUME NEW run \in SparkRuns(Q, rule.gap) PROVE Min(run) \in Q
    <2>1. run \in SUBSET Q
      BY <1>4 DEF MaximalRuns
    <2>2. run # {}
      BY DEF SparkRuns
    <2>3. \E e \in run : \A p \in run : e <= p
      <3>1. run \subseteq Nat
        BY <1>2, <2>1
      <3>2. QED
        BY <2>2, <3>1, FirstOf
    <2>4. Min(run) \in run
      BY <2>3 DEF Min
    <2>5. QED
      BY <2>1, <2>4
  <1>6. \A d \in D : d \in Q
    BY <1>5 DEF SparkEvents, SparkEvent, Q
  <1> HIDE DEF D
  <1>7. IsFiniteSet(D)
    BY <1>1, <1>6, FS_Subset
  <1>8. (\A d \in D : d \in Int) /\ \A u \in Units, d \in D : Target(u, d) \in Nat
    BY <1>2, <1>6, ForecastConstants
  <1>9. AreStarts(D)
    BY <1>7, <1>8 DEF AreStarts
  <1>10. QED
    BY <1>9 DEF D

(***************************************************************************)
(* No outcome reaches back into what claims not to have known it: for      *)
(* every archive and rule, the outlook does not depend on the observed     *)
(* days from the forecast on, an event's rows are derived for a forecast   *)
(* as they are for training, and every split trains on what was known      *)
(* before its first held-out event.                                        *)
(***************************************************************************)
THEOREM NothingLeaksBackAlways == Spec => []NothingLeaksBack
  <1>1. ASSUME ArchiveOK, NEW rule \in Rules
        PROVE  LET panel == Panel({e.start : e \in SparkEvents(archive, rule)}) IN
               NoOutcomeInOutlook(rule) /\ SameFeatures(panel) /\ HonestFolds(panel)
    <2> DEFINE D == {e.start : e \in SparkEvents(archive, rule)}
    <2>1. NoOutcomeInOutlook(rule)
      BY <1>1, NoOutcomeReachesOutlook
    <2>2. AreStarts(D)
      BY <1>1, StartsOfEvents
    <2> HIDE DEF D
    <2>3. SameFeatures(Panel(D)) /\ HonestFolds(Panel(D))
      BY <2>2, FeaturesSeenAreFeaturesTrained, PanelIsPanel, FoldsAreHonest
    <2>4. QED
      BY <2>1, <2>3 DEF D
  <1>2. ArchiveOK => NothingLeaksBack
    BY <1>1 DEF NothingLeaksBack
  <1>3. QED
    BY <1>2, ArchiveAlwaysOK, PTL

-----------------------------------------------------------------------------
(* A forecast that comes true.  Whatever its kind, such an outlook sees a window *)
(* of the archive, and its events are those the window shows.                    *)

EventOf(s, rule, Q, a) == SparkEvent(s, rule, RunOf(Q, rule.gap, a))

LEMMA RunEnds ==
    ASSUME NEW Q, AreDays(Q), NEW gap \in Nat, NEW a \in Q, NEW R, R = RunOf(Q, gap, a)
    PROVE  /\ a \in R /\ Min(R) \in R /\ Max(R) \in R
           /\ \A b \in R : Min(R) <= b /\ b <= Max(R)
  BY RunFacts

LEMMA EventSpan ==
    ASSUME NEW s, IsSeries(s), NEW rule, IsRule(rule), NEW Q, AreDays(Q), NEW a \in Q
    PROVE  LET e == EventOf(s, rule, Q, a)
               run == RunOf(Q, rule.gap, a) IN
           /\ e.start = Min(run) /\ e.end = Max(run)
           /\ e.start \in Nat /\ e.end \in Nat /\ e.start <= e.end
           /\ e.start \in Q /\ RunOf(Q, rule.gap, e.start) = run
           /\ e.total \in Int
  <1> DEFINE run == RunOf(Q, rule.gap, a)
  <1>1. rule.gap \in Nat
    BY DEF IsRule
  <1>2. /\ IsFiniteSet(run) /\ a \in run
        /\ \A b \in run : b \in Q /\ b \in Nat /\ RunOf(Q, rule.gap, b) = run
        /\ Min(run) \in run /\ Max(run) \in run
        /\ \A b \in run : Min(run) <= b /\ b <= Max(run)
    BY <1>1, RunFacts
  <1> HIDE DEF run
  <1>3. Total(s, run) \in Nat
    BY <1>2, TotalIsNat
  <1>4. SparkEvent(s, rule, run).total \in Int
    BY <1>3 DEF SparkEvent, Null
  <1>5. SparkEvent(s, rule, run).start = Min(run) /\ SparkEvent(s, rule, run).end = Max(run)
    BY DEF SparkEvent
  <1>6. EventOf(s, rule, Q, a) = SparkEvent(s, rule, run)
    BY DEF EventOf, run
  <1>7. QED
    BY <1>2, <1>4, <1>5, <1>6 DEF run

LEMMA TotalOfOne ==
    ASSUME NEW e, e.total \in Int
    PROVE  MapThenSumSet(LAMBDA f : f.total, {e}) = e.total
  <1> DEFINE Z == {e}
             f == [z \in Z |-> z.total]
             Body(g) == [t \in SUBSET Z |-> IF t = {} THEN 0
                                             ELSE Some(t).total + g[t \ {Some(t)}]]
  <1>1. IsFiniteSet(Z) /\ e \in Z /\ Z \ {e} = {}
    BY FS_Singleton
  <1>2. \A z \in Z : f[z] = z.total /\ f[z] \in Int
    OBVIOUS
  <1>3. MapThenSumSet(LAMBDA x : x.total, Z) = (CHOOSE g : g = Body(g))[Z]
    BY DEF MapThenSumSet, MapThenFoldSet, Some
  <1> HIDE DEF f, Z
  <1>4. PICK g \in [SUBSET Z -> Int] : Sums(Z, f, g)
    BY <1>1, <1>2, SumsExist
  <1>5. \A t \in SUBSET Z : t # {} => Some(t) \in Z
    BY DEF Some
  <1>6. ASSUME NEW h PROVE Body(h) = [t \in SUBSET Z |-> IF t = {} THEN 0
                                              ELSE f[Some(t)] + h[t \ {Some(t)}]]
    BY <1>2, <1>5
  <1>7. g = Body(g)
    BY <1>4, <1>6 DEF Sums
  <1> HIDE DEF Body
  <1>8. (CHOOSE h : h = Body(h)) = Body(CHOOSE h : h = Body(h))
    BY <1>7
  <1>9. Sums(Z, f, CHOOSE h : h = Body(h))
    BY <1>6, <1>8 DEF Sums
  <1>10. SumFunctionOnSet(f, Z) = (CHOOSE h : h = Body(h))[Z]
    BY <1>1, <1>2, <1>9, SumOfSubset
  <1>11. SumFunctionOnSet(f, Z) = f[e] + SumFunctionOnSet(f, Z \ {e})
    BY <1>1, <1>2, SumTakesOut
  <1>12. SumFunctionOnSet(f, Z \ {e}) = 0
    BY <1>1, SumOfEmpty
  <1>13. SumFunctionOnSet(f, Z) = e.total
    BY <1>1, <1>2, <1>11, <1>12
  <1>14. MapThenSumSet(LAMBDA x : x.total, Z) = e.total
    BY <1>3, <1>10, <1>13
  <1>15. QED
    BY <1>14 DEF Z

\* What an outlook that sees the window lo .. hi of the archive says.
Shown(rule, issue, w, hi) ==
    [days |-> w, last |-> hi, events |-> Forecast(PortEvents(w, rule), issue)]

\* The events of the archive and of such an outlook.
LEMMA ShownEvents ==
    ASSUME NEW rule, IsRule(rule), NEW w, NEW lo, NEW hi, IsWindow(archive, w, lo, hi),
           NEW issue \in Int
    PROVE  LET P == Qualifying(archive, rule)
               Q == Qualifying(w, rule)
               shown == Shown(rule, issue, w, hi).events IN
           /\ \A e \in SparkEvents(archive, rule) : \E a \in P : e = EventOf(archive, rule, P, a)
           /\ \A a \in P : EventOf(archive, rule, P, a) \in SparkEvents(archive, rule)
           /\ \A f \in shown : \E a \in Q : f = EventOf(archive, rule, Q, a) /\ f.end >= issue
           /\ \A a \in Q : EventOf(archive, rule, Q, a).end >= issue
                              => EventOf(archive, rule, Q, a) \in shown
  <1> DEFINE P == Qualifying(archive, rule)
             Q == Qualifying(w, rule)
  <1>1. /\ PortEvents(w, rule) = {EventOf(archive, rule, Q, a) : a \in Q}
        /\ SparkEvents(archive, rule) = {EventOf(archive, rule, P, a) : a \in P}
    BY WindowEvents DEF EventOf
  <1>2. Shown(rule, issue, w, hi).events = {e \in PortEvents(w, rule) : e.end >= issue}
    BY DEF Shown, Forecast
  <1> HIDE DEF P, Q
  <1>3. QED
    BY <1>1, <1>2 DEF P, Q

\* From when on an outlook that sees the archive from lo on may say that an event
\* begins.
BegunDay(rule, lo) ==
    IF lo = Min(DOMAIN archive) THEN WarmDay(archive, rule, lo)
    ELSE WarmDay(archive, rule, lo) + rule.gap + 1

LEMMA BegunFacts ==
    ASSUME NEW rule, IsRule(rule), NEW w, NEW lo, NEW hi, IsWindow(archive, w, lo, hi)
    PROVE  /\ BegunDay(rule, lo) \in Nat /\ WarmDay(archive, rule, lo) <= BegunDay(rule, lo)
           /\ \/ \A p \in Qualifying(archive, rule) : WarmDay(archive, rule, lo) <= p
              \/ BegunDay(rule, lo) = WarmDay(archive, rule, lo) + rule.gap + 1
  <1> DEFINE warm == WarmDay(archive, rule, lo)
  <1>1. warm \in Nat /\ rule.gap \in Nat
    BY WindowQualifies DEF IsRule
  <1>2. CASE lo = Min(DOMAIN archive)
    <2>1. warm = lo /\ BegunDay(rule, lo) = warm
      BY <1>2 DEF WarmDay, BegunDay
    <2>2. ASSUME NEW p \in Qualifying(archive, rule) PROVE lo <= p
      <3>1. p \in DOMAIN archive
        BY DEF Qualifying
      <3>2. IsFiniteSet(DOMAIN archive) /\ \A e \in DOMAIN archive : e \in Int
        BY DEF IsWindow, IsSeries
      <3>3. \E e \in DOMAIN archive : \A f \in DOMAIN archive : e <= f
        BY <3>1, <3>2, FirstAndLastOf
      <3>4. QED
        BY <1>2, <3>1, <3>3 DEF Min
    <2> HIDE DEF warm
    <2>3. QED
      BY <1>1, <2>1, <2>2 DEF warm
  <1>3. CASE lo # Min(DOMAIN archive)
    <2>1. BegunDay(rule, lo) = warm + rule.gap + 1
      BY <1>3 DEF BegunDay
    <2> HIDE DEF warm
    <2>2. warm + rule.gap + 1 \in Nat /\ warm <= warm + rule.gap + 1
      BY <1>1
    <2>3. QED
      BY <2>1, <2>2 DEF warm
  <1>4. QED
    BY <1>2, <1>3

\* What a window shows of the archive's qualifying days.
LEMMA WindowSights ==
    ASSUME NEW rule, IsRule(rule), NEW w, NEW lo, NEW hi, IsWindow(archive, w, lo, hi)
    PROVE  LET P == Qualifying(archive, rule)
               Q == Qualifying(w, rule)
               warm == WarmDay(archive, rule, lo) IN
           /\ AreDays(P) /\ AreDays(Q) /\ warm \in Int /\ hi \in Int /\ SeenFrom(Q, P, warm, hi)
           /\ IsSeries(archive) /\ rule.gap \in Nat
  <1>1. /\ AreDays(Qualifying(archive, rule)) /\ AreDays(Qualifying(w, rule))
        /\ WarmDay(archive, rule, lo) \in Nat
        /\ SeenFrom(Qualifying(w, rule), Qualifying(archive, rule), WarmDay(archive, rule, lo), hi)
    BY WindowQualifies
  <1>2. hi \in Nat /\ IsSeries(archive) /\ rule.gap \in Nat
    BY DEF IsWindow, IsRule
  <1>3. QED
    BY <1>1, <1>2

\* An event of the archive that lies in the part seen in full is forecast.
LEMMA EventIsForecast ==
    ASSUME NEW rule, IsRule(rule), NEW w, NEW lo, NEW hi, IsWindow(archive, w, lo, hi),
           NEW issue \in Int, NEW e \in SparkEvents(archive, rule),
           WarmDay(archive, rule, lo) <= e.start, issue <= e.end, e.end <= hi
    PROVE  e \in Shown(rule, issue, w, hi).events
  <1> DEFINE P == Qualifying(archive, rule)
             Q == Qualifying(w, rule)
             warm == WarmDay(archive, rule, lo)
  <1>1. /\ AreDays(P) /\ AreDays(Q) /\ warm \in Int /\ hi \in Int /\ SeenFrom(Q, P, warm, hi)
        /\ IsSeries(archive) /\ rule.gap \in Nat
    BY WindowSights
  <1>2. PICK a \in P : e = EventOf(archive, rule, P, a)
    BY ShownEvents
  <1>3. \A b \in Q : EventOf(archive, rule, Q, b).end >= issue
                        => EventOf(archive, rule, Q, b) \in Shown(rule, issue, w, hi).events
    BY ShownEvents
  <1> HIDE DEF P, Q, warm
  <1>4. e.start = Min(RunOf(P, rule.gap, a)) /\ e.end = Max(RunOf(P, rule.gap, a)) /\ e.end \in Nat
    BY <1>1, <1>2, EventSpan
  <1>5. a \in Q /\ RunOf(Q, rule.gap, a) = RunOf(P, rule.gap, a)
    BY <1>1, <1>4, RunIsSeen DEF warm
  <1>6. e = EventOf(archive, rule, Q, a)
    BY <1>2, <1>5 DEF EventOf
  <1>7. e.end >= issue
    BY <1>4
  <1>8. QED
    BY <1>3, <1>5, <1>6, <1>7

\* A forecast event away from both ends is an event of the archive.
LEMMA ForecastIsEvent ==
    ASSUME NEW rule, IsRule(rule), NEW w, NEW lo, NEW hi, IsWindow(archive, w, lo, hi),
           NEW issue \in Int, NEW f \in Shown(rule, issue, w, hi).events,
           BegunDay(rule, lo) <= f.start, f.end <= hi - rule.gap - 1
    PROVE  f \in SparkEvents(archive, rule)
  <1> DEFINE P == Qualifying(archive, rule)
             Q == Qualifying(w, rule)
             warm == WarmDay(archive, rule, lo)
             begun == BegunDay(rule, lo)
  <1>1. /\ AreDays(P) /\ AreDays(Q) /\ warm \in Int /\ hi \in Int /\ SeenFrom(Q, P, warm, hi)
        /\ IsSeries(archive) /\ rule.gap \in Nat
    BY WindowSights
  <1>2. /\ begun \in Nat /\ warm <= begun
        /\ (\A p \in P : warm <= p) \/ begun = warm + rule.gap + 1
    BY BegunFacts
  <1>3. PICK a \in Q : f = EventOf(archive, rule, Q, a)
    BY ShownEvents
  <1>4. \A b \in P : EventOf(archive, rule, P, b) \in SparkEvents(archive, rule)
    BY ShownEvents
  <1> HIDE DEF P, Q, warm, begun
  <1>5. f.start = Min(RunOf(Q, rule.gap, a)) /\ f.end = Max(RunOf(Q, rule.gap, a)) /\ f.start \in Nat
    BY <1>1, <1>3, EventSpan
  <1>6. warm <= f.start /\ begun <= f.start
    BY <1>1, <1>2, <1>5 DEF begun
  <1>7. a \in P /\ RunOf(P, rule.gap, a) = RunOf(Q, rule.gap, a)
    BY <1>1, <1>2, <1>5, <1>6, SeenIsRun
  <1>8. f = EventOf(archive, rule, P, a)
    BY <1>3, <1>7 DEF EventOf
  <1>9. QED
    BY <1>4, <1>7, <1>8

\* A forecast event that is neither cut off at the horizon nor begun before what
\* the outlook can tell begins when an event of the archive does.
LEMMA ForecastBeginsAsEvent ==
    ASSUME NEW rule, IsRule(rule), NEW w, NEW lo, NEW hi, IsWindow(archive, w, lo, hi),
           NEW issue \in Int, NEW f \in Shown(rule, issue, w, hi).events,
           BegunDay(rule, lo) <= f.start
    PROVE  \E e \in SparkEvents(archive, rule) : e.start = f.start /\ e.end >= f.end
  <1> DEFINE P == Qualifying(archive, rule)
             Q == Qualifying(w, rule)
             warm == WarmDay(archive, rule, lo)
             begun == BegunDay(rule, lo)
  <1>1. /\ AreDays(P) /\ AreDays(Q) /\ warm \in Int /\ hi \in Int /\ SeenFrom(Q, P, warm, hi)
        /\ IsSeries(archive) /\ rule.gap \in Nat
    BY WindowSights
  <1>2. /\ begun \in Nat /\ warm <= begun
        /\ (\A p \in P : warm <= p) \/ begun = warm + rule.gap + 1
    BY BegunFacts
  <1>3. PICK a \in Q : f = EventOf(archive, rule, Q, a)
    BY ShownEvents
  <1>4. \A b \in P : EventOf(archive, rule, P, b) \in SparkEvents(archive, rule)
    BY ShownEvents
  <1> HIDE DEF P, Q, warm, begun
  <1>5. /\ f.start = Min(RunOf(Q, rule.gap, a)) /\ f.end = Max(RunOf(Q, rule.gap, a))
        /\ f.start \in Nat /\ f.end \in Nat
    BY <1>1, <1>3, EventSpan
  <1>6. warm <= f.start /\ begun <= f.start
    BY <1>1, <1>2, <1>5 DEF begun
  <1>7. a \in P /\ \A q \in Q : q \in P
    BY <1>1 DEF SeenFrom
  <1>8. Min(RunOf(P, rule.gap, a)) = Min(RunOf(Q, rule.gap, a))
    BY <1>1, <1>2, <1>5, <1>6, SameFirstDay
  <1> DEFINE e == EventOf(archive, rule, P, a)
  <1>9. e.start = Min(RunOf(P, rule.gap, a)) /\ e.end = Max(RunOf(P, rule.gap, a)) /\ e.end \in Nat
    BY <1>1, <1>7, EventSpan
  <1>10. f.end \in RunOf(P, rule.gap, a)
    <2>1. f.end \in RunOf(Q, rule.gap, a)
      <3>1. PICK R : R = RunOf(Q, rule.gap, a)
        OBVIOUS
      <3>2. Max(R) \in R
        BY <1>1, <3>1, RunEnds
      <3>3. QED
        BY <1>5, <3>1, <3>2
    <2>2. QED
      BY <1>1, <1>7, <2>1, RunsGrow
  <1>11. f.end <= e.end
    <2>1. PICK R : R = RunOf(P, rule.gap, a)
      OBVIOUS
    <2>2. \A b \in R : b <= Max(R)
      BY <1>1, <1>7, <2>1, RunEnds
    <2>3. QED
      BY <1>9, <1>10, <2>1, <2>2
  <1>12. e \in SparkEvents(archive, rule)
    BY <1>4, <1>7
  <1> HIDE DEF e
  <1>13. QED
    BY <1>5, <1>8, <1>9, <1>11, <1>12

\* An event that begins within the horizon, after the warm-up, is matched; and,
\* when it also ends within it, by the event itself and nothing else.
LEMMA EventIsMatched ==
    ASSUME NEW rule, IsRule(rule), NEW w, NEW lo, NEW hi, IsWindow(archive, w, lo, hi),
           NEW issue \in Int, NEW e \in SparkEvents(archive, rule),
           WarmDay(archive, rule, lo) <= e.start, issue <= e.start, e.start <= hi
    PROVE  /\ MatchRow(e, Shown(rule, issue, w, hi)).matched
           /\ e.end <= hi => MatchRow(e, Shown(rule, issue, w, hi)).forecast = e.total
  <1> DEFINE P == Qualifying(archive, rule)
             Q == Qualifying(w, rule)
             warm == WarmDay(archive, rule, lo)
             shown == Shown(rule, issue, w, hi).events
             hits == {f \in shown : Overlaps(f, e)}
             sum == MapThenSumSet(LAMBDA x : x.total, hits)
  <1>1. /\ AreDays(P) /\ AreDays(Q) /\ warm \in Int /\ hi \in Int /\ SeenFrom(Q, P, warm, hi)
        /\ IsSeries(archive) /\ rule.gap \in Nat
    BY WindowSights
  <1>2. PICK a \in P : e = EventOf(archive, rule, P, a)
    BY ShownEvents
  <1>3. /\ \A f \in shown : \E b \in Q : f = EventOf(archive, rule, Q, b)
        /\ \A b \in Q : EventOf(archive, rule, Q, b).end >= issue
                          => EventOf(archive, rule, Q, b) \in shown
    BY ShownEvents
  <1>4. ASSUME e.end <= hi, issue <= e.end PROVE e \in shown
    BY <1>4, EventIsForecast
  <1>5. MatchRow(e, Shown(rule, issue, w, hi))
          = [matched  |-> hits # {},
             forecast |-> IF hits = {} THEN Null ELSE sum,
             observed |-> e.total]
    BY DEF MatchRow
  <1> HIDE DEF P, Q, warm, shown
  <1>6. /\ e.start = Min(RunOf(P, rule.gap, a)) /\ e.end = Max(RunOf(P, rule.gap, a))
        /\ e.start \in Nat /\ e.end \in Nat /\ e.start <= e.end /\ e.total \in Int
        /\ e.start \in P /\ RunOf(P, rule.gap, e.start) = RunOf(P, rule.gap, a)
    BY <1>1, <1>2, EventSpan
  <1>7. e.start \in Q /\ \A q \in Q : q \in P
    BY <1>1, <1>6 DEF SeenFrom, warm
  <1> DEFINE d == e.start
             f == EventOf(archive, rule, Q, d)
  <1>8. hits # {}
    <2>1. /\ f.start = Min(RunOf(Q, rule.gap, d)) /\ f.end = Max(RunOf(Q, rule.gap, d))
          /\ f.start \in Nat /\ f.end \in Nat /\ f.start <= f.end
      BY <1>1, <1>7, EventSpan
    <2>2. f.start <= d /\ d <= f.end
      <3>1. PICK R : R = RunOf(Q, rule.gap, d)
        OBVIOUS
      <3>2. d \in R /\ \A b \in R : Min(R) <= b /\ b <= Max(R)
        BY <1>1, <1>7, <3>1, RunEnds
      <3>3. QED
        BY <2>1, <3>1, <3>2
    <2>3. f.end >= issue
      <3> HIDE DEF f
      <3>1. QED
        BY <1>6, <2>1, <2>2
    <2>4. f \in shown
      BY <1>3, <1>7, <2>3
    <2>5. f.start <= e.end /\ e.start <= f.end
      <3> HIDE DEF f
      <3>1. QED
        BY <1>6, <2>1, <2>2
    <2> HIDE DEF f
    <2>6. QED
      BY <2>4, <2>5 DEF Overlaps
  <1>9. ASSUME e.end <= hi PROVE hits = {e}
    <2>1. e \in shown
      <3>1. issue <= e.end
        BY <1>6
      <3>2. QED
        BY <1>4, <1>9, <3>1
    <2>2. PICK b \in Q : e = EventOf(archive, rule, Q, b)
      BY <1>3, <2>1
    <2>3. ASSUME NEW g \in shown, Overlaps(g, e) PROVE g = e
      <3>1. PICK c \in Q : g = EventOf(archive, rule, Q, c)
        BY <1>3
      <3>2. e.start = Min(RunOf(Q, rule.gap, b)) /\ e.end = Max(RunOf(Q, rule.gap, b))
        BY <1>1, <2>2, EventSpan
      <3>3. g.start = Min(RunOf(Q, rule.gap, c)) /\ g.end = Max(RunOf(Q, rule.gap, c))
        BY <1>1, <3>1, EventSpan
      <3>4. g.start <= e.end /\ e.start <= g.end
        BY <2>3 DEF Overlaps
      <3>5. RunOf(Q, rule.gap, b) = RunOf(Q, rule.gap, c)
        BY <1>1, <3>2, <3>3, <3>4, SpansApart
      <3>6. QED
        BY <2>2, <3>1, <3>5 DEF EventOf
    <2>4. Overlaps(e, e)
      BY <1>6 DEF Overlaps
    <2>5. QED
      BY <2>1, <2>3, <2>4
  <1> HIDE DEF hits, f, d
  <1>10. e.end <= hi => sum = e.total
    BY <1>6, <1>9, TotalOfOne
  <1> HIDE DEF sum
  <1>11. /\ MatchRow(e, Shown(rule, issue, w, hi)).matched = (hits # {})
         /\ MatchRow(e, Shown(rule, issue, w, hi)).forecast = IF hits = {} THEN Null ELSE sum
    BY <1>5
  <1>12. QED
    BY <1>8, <1>10, <1>11

\* What a window shows replays the archive.
LEMMA ReplaysWindow ==
    ASSUME NEW rule, IsRule(rule), NEW w, NEW lo, NEW hi, IsWindow(archive, w, lo, hi),
           NEW issue \in Int
    PROVE  Replays(rule, issue, Shown(rule, issue, w, hi))
  <1> DEFINE events == SparkEvents(archive, rule)
             shown == Shown(rule, issue, w, hi)
             over == hi - rule.gap - 1
  <1>1. lo \in Nat /\ hi \in Nat /\ lo <= hi /\ DOMAIN w = lo .. hi /\ rule.gap \in Nat
    BY DEF IsWindow, IsRule
  <1>2. Min(DOMAIN w) = lo
    BY <1>1, FirstOfInterval
  <1>3. Warm(rule, w) = WarmDay(archive, rule, lo)
    BY <1>2 DEF Warm, WarmDay
  <1>4. (IF Min(DOMAIN w) = Min(DOMAIN archive) THEN Warm(rule, w) ELSE Warm(rule, w) + rule.gap + 1)
          = BegunDay(rule, lo)
    BY <1>2, <1>3 DEF BegunDay
  <1>5. shown.days = w /\ shown.last = hi
    BY DEF Shown
  <1>6. /\ AreDays(Qualifying(archive, rule)) /\ AreDays(Qualifying(w, rule))
        /\ WarmDay(archive, rule, lo) \in Int /\ IsSeries(archive)
    BY WindowSights
  <1>7. BegunDay(rule, lo) \in Nat
    BY BegunFacts
  <1>8. \A e \in events : e.start \in Nat /\ e.end \in Nat
    <2>1. ASSUME NEW e \in events PROVE e.start \in Nat /\ e.end \in Nat
      <3>1. PICK a \in Qualifying(archive, rule) : e = EventOf(archive, rule, Qualifying(archive, rule), a)
        BY ShownEvents
      <3>2. QED
        BY <1>6, <3>1, EventSpan
    <2>2. QED
      BY <2>1
  <1>9. \A f \in shown.events : f.start \in Nat /\ f.end \in Nat
    <2>1. ASSUME NEW f \in shown.events PROVE f.start \in Nat /\ f.end \in Nat
      <3>1. PICK a \in Qualifying(w, rule) : f = EventOf(archive, rule, Qualifying(w, rule), a)
        BY ShownEvents
      <3>2. QED
        BY <1>6, <3>1, EventSpan
    <2>2. QED
      BY <2>1
  <1>10. \A d \in Nat : d \in issue .. hi <=> issue <= d /\ d <= hi
    BY <1>1
  <1> HIDE DEF events, shown
  <1>11. ASSUME NEW e \in events, e.start >= WarmDay(archive, rule, lo), e.end \in issue .. hi
         PROVE  e \in shown.events
    <2>1. WarmDay(archive, rule, lo) <= e.start /\ issue <= e.end /\ e.end <= hi
      BY <1>6, <1>8, <1>10, <1>11
    <2>2. QED
      BY <2>1, EventIsForecast DEF events, shown
  <1>12. ASSUME NEW f \in shown.events, f.start >= BegunDay(rule, lo), f.end <= over
         PROVE  f \in events
    <2>1. BegunDay(rule, lo) <= f.start
      BY <1>7, <1>9, <1>12
    <2>2. QED
      BY <1>12, <2>1, ForecastIsEvent DEF events, shown
  <1>13. ASSUME NEW e \in events, e.start >= WarmDay(archive, rule, lo), e.start \in issue .. hi
         PROVE  /\ MatchRow(e, shown).matched
                /\ e.end <= over => MatchRow(e, shown).forecast = e.total
    <2>1. WarmDay(archive, rule, lo) <= e.start /\ issue <= e.start /\ e.start <= hi
      BY <1>6, <1>8, <1>10, <1>13
    <2>2. /\ MatchRow(e, shown).matched
          /\ e.end <= hi => MatchRow(e, shown).forecast = e.total
      BY <2>1, EventIsMatched DEF events, shown
    <2>3. e.end <= over => e.end <= hi
      BY <1>1, <1>8
    <2>4. QED
      BY <2>2, <2>3
  <1>14. ASSUME NEW f \in shown.events, f.start >= BegunDay(rule, lo)
         PROVE  \E e \in events : e.start = f.start /\ e.end >= f.end
    <2>1. BegunDay(rule, lo) <= f.start
      BY <1>7, <1>9, <1>14
    <2>2. QED
      BY <2>1, ForecastBeginsAsEvent DEF events, shown
  <1>15. QED
    BY <1>3, <1>4, <1>5, <1>11, <1>12, <1>13, <1>14 DEF Replays, events, shown

\* A series without days has no events.
LEMMA NothingShown ==
    ASSUME NEW s, DOMAIN s = {}, NEW rule, IsRule(rule)
    PROVE  PortEvents(s, rule) = {}
  <1>1. Qualifying(s, rule) = {}
    BY DEF Qualifying
  <1>2. rule.gap \in Nat /\ IsFiniteSet({}) /\ \A d \in {} : d \in Nat
    BY FS_EmptySet DEF IsRule
  <1>3. CutRuns({}, rule.gap) = MaximalRuns({}, rule.gap)
    BY <1>2, WalkFindsMaximalRuns
  <1>4. MaximalRuns({}, rule.gap) = {}
    BY DEF MaximalRuns
  <1>5. QED
    BY <1>1, <1>3, <1>4 DEF PortEvents

LEMMA ReplaysNothing ==
    ASSUME NEW rule, IsRule(rule), NEW s, DOMAIN s = {}, NEW issue \in Int, NEW last \in Int,
           last < issue, ArchiveOK
    PROVE  Replays(rule, issue, Shown(rule, issue, s, last))
  <1>1. Shown(rule, issue, s, last).events = {} /\ Shown(rule, issue, s, last).last = last
    BY NothingShown DEF Shown, Forecast
  <1>2. issue .. last = {}
    OBVIOUS
  <1>3. QED
    BY <1>1, <1>2 DEF Replays

-----------------------------------------------------------------------------
(* An outlook fed with days of the archive sees a window of it.                *)

IsPart(s) == DOMAIN s \subseteq DOMAIN archive /\ \A d \in DOMAIN s : s[d] = archive[d]

LEMMA PartIsSeries ==
    ASSUME ArchiveOK, NEW s, IsPart(s), s = [d \in DOMAIN s |-> s[d]]
    PROVE  IsSeries(s)
  <1>1. IsSeries(archive)
    BY ArchiveIsSeries
  <1>2. IsFiniteSet(DOMAIN s)
    BY <1>1, FS_Subset DEF IsSeries, IsPart
  <1>3. \A d \in DOMAIN s : d \in Nat /\ s[d] \in Nat \union {Null}
    BY <1>1 DEF IsSeries, IsPart
  <1>4. QED
    BY <1>2, <1>3 DEF IsSeries

LEMMA CutIsPart ==
    ASSUME NEW s, IsPart(s), NEW D
    PROVE  /\ IsPart(Cut(s, D)) /\ Cut(s, D) = [d \in DOMAIN Cut(s, D) |-> Cut(s, D)[d]]
           /\ DOMAIN Cut(s, D) = DOMAIN s \intersect D
  BY DEF IsPart, Cut

LEMMA SpliceIsPart ==
    ASSUME NEW a, IsPart(a), NEW b, IsPart(b)
    PROVE  IsPart(Splice(a, b)) /\ DOMAIN b \subseteq DOMAIN Splice(a, b)
  BY DEF IsPart, Splice

\* A series of days lo .. hi without a hole, when it has the day hi.
LEMMA PartIsWindow ==
    ASSUME ArchiveOK, NEW s, IsPart(s), s = [d \in DOMAIN s |-> s[d]], Contiguous(s),
           NEW hi \in DOMAIN s, \A d \in DOMAIN s : d <= hi
    PROVE  \E lo \in Nat : IsWindow(archive, s, lo, hi)
  <1> DEFINE D == DOMAIN s
             lo == Min(D)
  <1>1. IsSeries(s) /\ IsSeries(archive)
    BY PartIsSeries, ArchiveIsSeries
  <1>2. IsFiniteSet(D) /\ \A d \in D : d \in Nat
    BY <1>1 DEF IsSeries
  <1>3. \E e \in D : \A p \in D : e <= p
    <2> HIDE DEF D
    <2>1. D # {} /\ \A d \in D : d \in Int
      BY <1>2 DEF D
    <2>2. QED
      BY <1>2, <2>1, FirstAndLastOf
  <1>4. lo \in D /\ \A p \in D : lo <= p
    BY <1>3 DEF Min
  <1>5. \A a, b \in D : \A c \in a .. b : c \in D
    BY DEF Contiguous
  <1>6. \A d \in D : d \in DOMAIN archive /\ s[d] = archive[d]
    BY DEF IsPart
  <1>7. hi \in D /\ \A d \in D : d <= hi
    OBVIOUS
  <1> HIDE DEF D, lo
  <1>8. lo \in Nat /\ hi \in Nat /\ lo <= hi
    BY <1>2, <1>4, <1>7
  <1>9. D = lo .. hi
    <2>1. \A d \in Nat : lo <= d /\ d <= hi => d \in lo .. hi
      BY <1>8
    <2>2. \A d \in D : d \in lo .. hi
      BY <1>2, <1>4, <1>7, <2>1
    <2>3. \A d \in lo .. hi : d \in D
      BY <1>4, <1>5, <1>7
    <2>4. QED
      BY <2>2, <2>3
  <1>10. IsWindow(archive, s, lo, hi)
    BY <1>1, <1>6, <1>8, <1>9 DEF IsWindow, D
  <1>11. QED
    BY <1>8, <1>10

LEMMA OutlookReplays ==
    ASSUME ArchiveOK, NEW rule, IsRule(rule), NEW issue \in Int,
           NEW observed, IsPart(observed), NEW forecast, IsPart(forecast)
    PROVE  Replays(rule, issue, Outlook(rule, issue, observed, forecast))
  <1> DEFINE last == Max(DOMAIN forecast)
             from == issue - Lookback
             whole == Splice(observed, forecast)
             days == Cut(whole, from .. last)
             outlook == Outlook(rule, issue, observed, forecast)
  <1>1. outlook = IF DOMAIN forecast = {} THEN NoOutlook
                  ELSE IF ~Contiguous(days) THEN NoOutlook
                  ELSE Shown(rule, issue, days, last)
    BY DEF Outlook, Shown
  <1>2. IsPart(whole) /\ DOMAIN forecast \subseteq DOMAIN whole
    BY SpliceIsPart
  <1> HIDE DEF whole
  <1>3. /\ IsPart(days) /\ days = [d \in DOMAIN days |-> days[d]]
        /\ DOMAIN days = DOMAIN whole \intersect (from .. last)
    BY <1>2, CutIsPart
  <1>4. Replays(rule, issue, NoOutlook)
    BY DEF Replays
  <1>5. from \in Int /\ from <= issue
    BY OutlookConstants
  <1> HIDE DEF days, from
  <1>6. ASSUME DOMAIN forecast # {}, Contiguous(days)
        PROVE  Replays(rule, issue, Shown(rule, issue, days, last))
    <2>1. last \in DOMAIN forecast /\ last \in Int
      <3>1. IsFiniteSet(DOMAIN forecast) /\ \A d \in DOMAIN forecast : d \in Int
        BY ArchiveIsSeries, FS_Subset DEF IsSeries, IsPart
      <3>2. \E e \in DOMAIN forecast : \A p \in DOMAIN forecast : e >= p
        BY <1>6, <3>1, FirstAndLastOf
      <3>3. last \in DOMAIN forecast
        BY <3>2 DEF Max
      <3>4. QED
        BY <3>1, <3>3
    <2>2. last \in DOMAIN whole
      BY <1>2, <2>1
    <2> HIDE DEF last
    <2>3. \A d \in from .. last : d <= last
      BY <1>5, <2>1
    <2>4. CASE from <= last
      <3>1. last \in DOMAIN days
        BY <1>3, <1>5, <2>1, <2>2, <2>4
      <3>2. \A d \in DOMAIN days : d <= last
        BY <1>3, <2>3
      <3>3. PICK lo \in Nat : IsWindow(archive, days, lo, last)
        BY <1>3, <1>6, <3>1, <3>2, PartIsWindow
      <3>4. QED
        BY <3>3, ReplaysWindow
    <2>5. CASE ~ (from <= last)
      <3>1. last < issue /\ from .. last = {}
        BY <1>5, <2>1, <2>5
      <3>2. DOMAIN days = {}
        BY <1>3, <3>1
      <3>3. QED
        BY <2>1, <3>1, <3>2, ReplaysNothing
    <2>6. QED
      BY <2>4, <2>5
  <1> HIDE DEF outlook, last
  <1>7. CASE DOMAIN forecast = {} \/ ~Contiguous(days)
    BY <1>1, <1>4, <1>7 DEF outlook
  <1>8. CASE ~ (DOMAIN forecast = {} \/ ~Contiguous(days))
    BY <1>1, <1>6, <1>8 DEF outlook
  <1>9. QED
    BY <1>7, <1>8

-----------------------------------------------------------------------------
(* The three kinds of outlook whose forecast comes true.                       *)

LEMMA ArchiveIsPart == IsPart(archive)
  BY DEF IsPart

LEMMA VintageReplays ==
    ASSUME ArchiveOK, NEW rule, IsRule(rule), NEW first, NEW hours
    PROVE  Replays(rule, Issue,
                   VintageOutlook(rule, Issue, archive, PerfectVintage(first, hours)))
  <1> DEFINE observed == FetchArchive(archive, Issue - Lookback, Issue)
             forecast == HourlyToDaily(PerfectVintage(first, hours))
  <1>1. Issue \in Int
    BY IssueFacts
  <1>2. IsPart(observed)
    BY ArchiveIsPart, CutIsPart DEF FetchArchive
  <1>3. IsPart(forecast)
    BY DEF HourlyToDaily, PerfectVintage, IsPart
  <1> HIDE DEF observed, forecast
  <1>4. Replays(rule, Issue, Outlook(rule, Issue, observed, forecast))
    BY <1>1, <1>2, <1>3, OutlookReplays
  <1>5. QED
    BY <1>4 DEF VintageOutlook, observed, forecast

LEMMA ReplayReplays ==
    ASSUME ArchiveOK, NEW rule, IsRule(rule), NEW horizon
    PROVE  Replays(rule, Issue, ReplayOutlook(rule, Issue, archive, horizon))
  <1> DEFINE observed == FetchArchive(archive, Issue - Lookback, Issue + horizon)
             forecast == Cut(observed, Issue .. Issue + horizon - 1)
  <1>1. Issue \in Int
    BY IssueFacts
  <1>2. IsPart(observed)
    BY ArchiveIsPart, CutIsPart DEF FetchArchive
  <1> HIDE DEF observed
  <1>3. IsPart(forecast)
    BY <1>2, CutIsPart
  <1> HIDE DEF forecast
  <1>4. Replays(rule, Issue, Outlook(rule, Issue, observed, forecast))
    BY <1>1, <1>2, <1>3, OutlookReplays
  <1>5. QED
    BY <1>4 DEF ReplayOutlook, observed, forecast

LEMMA BacktestReplays ==
    ASSUME ArchiveOK, NEW rule, IsRule(rule)
    PROVE  Replays(rule, Issue, BacktestOutlook(rule, Issue, archive, archive))
  <1> DEFINE vintage == Reconstruct(archive, Issue)
             forecast == HourlyToDaily(vintage)
  <1>1. Issue \in Int
    BY IssueFacts
  <1>2. \A d \in DOMAIN vintage : d \in DOMAIN archive /\ vintage[d].cm = archive[d]
    <2>1. ASSUME NEW d \in DOMAIN vintage PROVE d \in DOMAIN archive /\ vintage[d].cm = archive[d]
      <3>1. /\ d \in Issue .. Issue + MaxLead - 1
            /\ \A f \in Issue .. d : f \in DOMAIN archive /\ archive[f] # Null
            /\ vintage[d].cm = archive[d]
        BY DEF Reconstruct
      <3>2. \A e \in Issue .. Issue + MaxLead - 1 : e \in Issue .. e
        BY <1>1
      <3>3. QED
        BY <3>1, <3>2
    <2>2. QED
      BY <2>1
  <1> HIDE DEF vintage
  <1>3. IsPart(forecast)
    BY <1>2 DEF HourlyToDaily, IsPart
  <1> HIDE DEF forecast
  <1>4. Replays(rule, Issue, Outlook(rule, Issue, archive, forecast))
    BY <1>1, <1>3, ArchiveIsPart, OutlookReplays
  <1>5. QED
    BY <1>4 DEF BacktestOutlook, forecast, vintage

(***************************************************************************)
(* Whatever the archive, the rule, the lookback and the horizon: a forecast *)
(* that comes true yields the archive's own events, whether it arrives as  *)
(* a vintage, as a replay of the archive or as a reconstruction, and the   *)
(* evaluation credits it with each of them.                                *)
(***************************************************************************)
THEOREM OutlookReplaysArchiveAlways == Spec => []OutlookReplaysArchive
  <1>1. ASSUME ArchiveOK, NEW rule \in Rules
        PROVE  /\ \A first, hours :
                     Replays(rule, Issue,
                             VintageOutlook(rule, Issue, archive, PerfectVintage(first, hours)))
               /\ Replays(rule, Issue, ReplayOutlook(rule, Issue, archive, Horizon))
               /\ Replays(rule, Issue, BacktestOutlook(rule, Issue, archive, archive))
    <2>1. IsRule(rule)
      BY RuleIsRule
    <2>2. QED
      BY <1>1, <2>1, VintageReplays, ReplayReplays, BacktestReplays
  <1>2. ArchiveOK => OutlookReplaysArchive
    BY <1>1 DEF OutlookReplaysArchive
  <1>3. QED
    BY <1>2, ArchiveAlwaysOK, PTL

=============================================================================
