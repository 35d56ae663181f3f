--------------------------- MODULE SnowEventsProofs ---------------------------
(* The event segmentation, for every series of daily snowfall and every rule:    *)
(* the running count of the Silver job and the walk of the port and the probe    *)
(* both cut a set of qualifying days into its maximal runs, and the three        *)
(* implementations agree on the events.                                          *)
EXTENDS SnowEvents, SetRecursion, SequenceTheorems

LEMMA MinMaxOfPair ==
    ASSUME NEW a \in Nat, NEW b \in Nat, a <= b
    PROVE  Min({a, b}) = a /\ Max({a, b}) = b /\ Min({b, a}) = a /\ Max({b, a}) = b
  BY DEF Min, Max

-----------------------------------------------------------------------------
(* The opening days up to a day: what the running count counts.                *)

Opened(Q, gap, d) == {e \in Q : e <= d /\ OpensEvent(Q, gap, e)}

LEMMA OpenedIsFinite ==
    ASSUME NEW Q, IsFiniteSet(Q), NEW gap, NEW d
    PROVE  IsFiniteSet(Opened(Q, gap, d))
  BY FS_Subset DEF Opened

\* Two days have the same number exactly when no event opens after the first of
\* them and up to the second.
LEMMA SameNumber ==
    ASSUME NEW Q, IsFiniteSet(Q), Q \subseteq Nat, NEW gap \in Nat,
           NEW a \in Q, NEW b \in Q, a <= b
    PROVE  EventSeq(Q, gap, a) = EventSeq(Q, gap, b)
               <=> \A e \in Q : a < e /\ e <= b => ~OpensEvent(Q, gap, e)
  <1> DEFINE A == Opened(Q, gap, a)
             B == Opened(Q, gap, b)
  <1>1. A \in SUBSET B /\ IsFiniteSet(B)
    <2>1. \A e \in Q : e <= a => e <= b
      OBVIOUS
    <2>2. A \in SUBSET B
      BY <2>1 DEF Opened
    <2>3. IsFiniteSet(B)
      BY OpenedIsFinite
    <2>4. QED
      BY <2>2, <2>3
  <1>2. Cardinality(A) = Cardinality(B) <=> A = B
    <2> HIDE DEF A, B
    <2>1. Cardinality(B) = Cardinality(A) => B = A
      BY <1>1, FS_Subset
    <2>2. QED
      BY <2>1
  <1>3. A = B <=> B \subseteq A
    BY <1>1
  <1>4. B \subseteq A <=> \A e \in Q : a < e /\ e <= b => ~OpensEvent(Q, gap, e)
    <2>1. \A e \in Q : e <= a <=> ~(a < e)
      OBVIOUS
    <2>2. B \subseteq A <=> \A e \in Q : e <= b /\ OpensEvent(Q, gap, e) => e <= a
      BY DEF Opened
    <2>3. QED
      BY <2>1, <2>2
  <1>5. EventSeq(Q, gap, a) = Cardinality(A) /\ EventSeq(Q, gap, b) = Cardinality(B)
    BY DEF EventSeq, Opened
  <1> HIDE DEF A, B
  <1>6. QED
    BY <1>2, <1>3, <1>4, <1>5

\* No event opens between two days exactly when every stretch of gap + 1 days
\* between them has a qualifying one.
LEMMA NoOpeningBetween ==
    ASSUME NEW Q, Q \subseteq Nat, NEW gap \in Nat, NEW a \in Q, NEW b \in Q, a <= b
    PROVE  (\A e \in Q : a < e /\ e <= b => ~OpensEvent(Q, gap, e))
               <=> \A c \in a .. b - gap - 1 : (c + 1 .. c + gap + 1) \intersect Q # {}
  <1>1. ASSUME \A c \in a .. b - gap - 1 : (c + 1 .. c + gap + 1) \intersect Q # {},
               NEW e \in Q, a < e, e <= b, OpensEvent(Q, gap, e)
        PROVE  FALSE
    <2> DEFINE c == e - gap - 2
    <2>1. e - a > gap + 1 /\ a \in Nat /\ b \in Nat /\ e \in Nat
      BY <1>1 DEF OpensEvent
    <2>2. c \in a .. b - gap - 1
      BY <1>1, <2>1
    <2>3. PICK p \in Q : p \in c + 1 .. c + gap + 1
      BY <1>1, <2>2
    <2>4. p < e /\ e - p <= gap + 1
      BY <2>3
    <2>5. QED
      BY <1>1, <2>4 DEF OpensEvent
  <1>2. ASSUME \A e \in Q : a < e /\ e <= b => ~OpensEvent(Q, gap, e),
               NEW c \in a .. b - gap - 1, (c + 1 .. c + gap + 1) \intersect Q = {}
        PROVE  FALSE
    <2> DEFINE later == {e \in Q : e > c}
    <2>0. b > c
      OBVIOUS
    <2>1. b \in later /\ later \subseteq Nat /\ later # {}
      BY <2>0
    <2>2. PICK e \in later : \A p \in later : e <= p
      <3> HIDE DEF later
      <3>1. \E e \in later : \A p \in later : e <= p
        BY <2>1, FirstOf
      <3> QED
        BY <3>1
    <2>3. e > c + gap + 1
      BY <1>2, <2>2
    <2>4. \A p \in Q : p < e => p <= c
      BY <2>2
    <2>5. OpensEvent(Q, gap, e)
      BY <2>3, <2>4 DEF OpensEvent
    <2>6. a < e /\ e <= b
      BY <2>1, <2>2
    <2>7. QED
      BY <1>2, <2>5, <2>6
  <1>3. (\A e \in Q : a < e /\ e <= b => ~OpensEvent(Q, gap, e))
            => \A c \in a .. b - gap - 1 : (c + 1 .. c + gap + 1) \intersect Q # {}
    BY <1>2
  <1>4. (\A c \in a .. b - gap - 1 : (c + 1 .. c + gap + 1) \intersect Q # {})
            => \A e \in Q : a < e /\ e <= b => ~OpensEvent(Q, gap, e)
    BY <1>1
  <1>5. QED
    BY <1>3, <1>4

LEMMA SameNumberIsTogether ==
    ASSUME NEW Q, IsFiniteSet(Q), Q \subseteq Nat, NEW gap \in Nat,
           NEW a \in Q, NEW b \in Q, a <= b
    PROVE  /\ EventSeq(Q, gap, b) = EventSeq(Q, gap, a) <=> Together(Q, gap, a, b)
           /\ Together(Q, gap, b, a) <=> Together(Q, gap, a, b)
  <1>1. a \in Nat /\ b \in Nat
    OBVIOUS
  <1>2. EventSeq(Q, gap, a) = EventSeq(Q, gap, b)
            <=> \A c \in a .. b - gap - 1 : (c + 1 .. c + gap + 1) \intersect Q # {}
    <2>1. EventSeq(Q, gap, a) = EventSeq(Q, gap, b)
              <=> \A e \in Q : a < e /\ e <= b => ~OpensEvent(Q, gap, e)
      BY SameNumber
    <2>2. (\A e \in Q : a < e /\ e <= b => ~OpensEvent(Q, gap, e))
              <=> \A c \in a .. b - gap - 1 : (c + 1 .. c + gap + 1) \intersect Q # {}
      BY NoOpeningBetween
    <2>3. QED
      BY <2>1, <2>2
  <1>3. Min({a, b}) = a /\ Max({a, b}) = b /\ Min({b, a}) = a /\ Max({b, a}) = b
    BY <1>1, MinMaxOfPair
  <1>4. QED
    BY <1>2, <1>3 DEF Together

\* Grouping by the running count of opening days yields exactly the maximal runs
\* of qualifying days, for every finite set of days and every gap.
THEOREM RunningCountFindsMaximalRuns ==
    ASSUME NEW Q, IsFiniteSet(Q), Q \subseteq Nat, NEW gap \in Nat
    PROVE  SparkRuns(Q, gap) = MaximalRuns(Q, gap)
  <1> DEFINE seq == [d \in Q |-> EventSeq(Q, gap, d)]
  <1>1. SparkRuns(Q, gap) = {{b \in Q : seq[b] = seq[a]} : a \in Q}
    BY DEF SparkRuns
  <1>2. ASSUME NEW a \in Q
        PROVE  {b \in Q : seq[b] = seq[a]} = {b \in Q : Together(Q, gap, a, b)}
    <2>1. ASSUME NEW b \in Q
          PROVE  EventSeq(Q, gap, b) = EventSeq(Q, gap, a) <=> Together(Q, gap, a, b)
      <3>1. CASE a <= b
        BY <3>1, SameNumberIsTogether
      <3>2. CASE b <= a
        <4>1. EventSeq(Q, gap, a) = EventSeq(Q, gap, b) <=> Together(Q, gap, b, a)
          BY <3>2, SameNumberIsTogether
        <4>2. Together(Q, gap, a, b) <=> Together(Q, gap, b, a)
          BY <3>2, SameNumberIsTogether
        <4>3. QED
          BY <4>1, <4>2
      <3>3. QED
        BY <3>1, <3>2
    <2>2. QED
      BY <2>1
  <1> HIDE DEF seq
  <1>3. QED
    BY <1>1, <1>2 DEF MaximalRuns

-----------------------------------------------------------------------------
(* The walk.  Two days are together exactly when the running count gives them    *)
(* the same number, so being together splits the days into classes.              *)

RunOf(Q, gap, a) == {b \in Q : Together(Q, gap, a, b)}

LEMMA TogetherIsSameNumber ==
    ASSUME NEW Q, IsFiniteSet(Q), Q \subseteq Nat, NEW gap \in Nat, NEW a \in Q, NEW b \in Q
    PROVE  Together(Q, gap, a, b) <=> EventSeq(Q, gap, a) = EventSeq(Q, gap, b)
  <1>1. CASE a <= b
    <2>1. EventSeq(Q, gap, b) = EventSeq(Q, gap, a) <=> Together(Q, gap, a, b)
      BY <1>1, SameNumberIsTogether
    <2>2. QED
      BY <2>1
  <1>2. CASE b <= a
    <2>1. EventSeq(Q, gap, a) = EventSeq(Q, gap, b) <=> Together(Q, gap, b, a)
      BY <1>2, SameNumberIsTogether
    <2>2. Together(Q, gap, a, b) <=> Together(Q, gap, b, a)
      BY <1>2, SameNumberIsTogether
    <2>3. QED
      BY <2>1, <2>2
  <1>3. QED
    BY <1>1, <1>2

LEMMA TogetherIsNoOpening ==
    ASSUME NEW Q, IsFiniteSet(Q), Q \subseteq Nat, NEW gap \in Nat,
           NEW a \in Q, NEW b \in Q, a <= b
    PROVE  /\ Together(Q, gap, a, b)
                <=> \A e \in Q : a < e /\ e <= b => ~OpensEvent(Q, gap, e)
           /\ Together(Q, gap, b, a) <=> Together(Q, gap, a, b)
  <1>1. EventSeq(Q, gap, a) = EventSeq(Q, gap, b)
            <=> \A e \in Q : a < e /\ e <= b => ~OpensEvent(Q, gap, e)
    BY SameNumber
  <1>2. /\ EventSeq(Q, gap, b) = EventSeq(Q, gap, a) <=> Together(Q, gap, a, b)
        /\ Together(Q, gap, b, a) <=> Together(Q, gap, a, b)
    BY SameNumberIsTogether
  <1>3. QED
    BY <1>1, <1>2

LEMMA RunsAreClasses ==
    ASSUME NEW Q, IsFiniteSet(Q), Q \subseteq Nat, NEW gap \in Nat, NEW a \in Q, NEW b \in Q
    PROVE  /\ a \in RunOf(Q, gap, a)
           /\ b \in RunOf(Q, gap, a) <=> Together(Q, gap, a, b)
           /\ b \in RunOf(Q, gap, a) => RunOf(Q, gap, a) = RunOf(Q, gap, b)
  <1> DEFINE n(x) == EventSeq(Q, gap, x)
  <1>1. \A x, y \in Q : Together(Q, gap, x, y) <=> n(x) = n(y)
    BY TogetherIsSameNumber
  <1> HIDE DEF n
  <1>2. QED
    BY <1>1 DEF RunOf

LEMMA RunsOfDays ==
    ASSUME NEW Q, IsFiniteSet(Q), Q \subseteq Nat, NEW gap \in Nat
    PROVE  \A a, b \in Q :
              /\ a \in RunOf(Q, gap, a)
              /\ b \in RunOf(Q, gap, a) <=> Together(Q, gap, a, b)
              /\ b \in RunOf(Q, gap, a) => RunOf(Q, gap, a) = RunOf(Q, gap, b)
  BY RunsAreClasses

LEMMA FrontProperties ==
    ASSUME NEW S, NEW s \in Seq(S), s # <<>>
    PROVE  /\ Len(s) \in Nat /\ Len(s) > 0
           /\ Front(s) \in Seq(S) /\ Len(Front(s)) = Len(s) - 1
           /\ \A i \in 1 .. Len(s) - 1 : Front(s)[i] = s[i]
  <1>1. Len(s) \in Nat \ {0}
    BY EmptySeq
  <1>2. PICK n \in Nat \ {0} : n = Len(s)
    BY <1>1
  <1>3. \A i \in 1 .. n - 1 : s[i] \in S
    BY <1>2, ElementOfSeq
  <1>4. /\ SubSeq(s, 1, n - 1) \in Seq(S) /\ Len(SubSeq(s, 1, n - 1)) = n - 1
        /\ \A i \in 1 .. n - 1 : SubSeq(s, 1, n - 1)[i] = s[i]
    BY <1>2, SubSeqProperties
  <1>5. QED
    BY <1>1, <1>2, <1>4 DEF Front

\* A day after all others joins the last run or opens a new one, and changes
\* nothing between the days before it.
LEMMA LaterDay ==
    ASSUME NEW Q, IsFiniteSet(Q), Q \subseteq Nat, NEW gap \in Nat,
           NEW d \in Nat, \A e \in Q : e < d
    PROVE  LET R == Q \union {d} IN
           /\ IsFiniteSet(R) /\ R \subseteq Nat
           /\ \A a, b \in Q : Together(R, gap, a, b) <=> Together(Q, gap, a, b)
           /\ \A m \in Q : (\A e \in Q : e <= m) =>
                 \A a \in Q : Together(R, gap, a, d)
                                 <=> Together(Q, gap, a, m) /\ d - m <= gap + 1
  <1> DEFINE R == Q \union {d}
  <1>1. IsFiniteSet(R) /\ R \subseteq Nat
    BY FS_AddElement
  <1>2. \A e \in Q : OpensEvent(R, gap, e) <=> OpensEvent(Q, gap, e)
    <2>1. ASSUME NEW e \in Q PROVE ~(d < e)
      OBVIOUS
    <2>2. QED
      BY <2>1 DEF OpensEvent
  <1>3. ASSUME NEW S, IsFiniteSet(S), S \subseteq Nat, NEW a \in S, NEW b \in S, a <= b
        PROVE  /\ Together(S, gap, a, b)
                    <=> \A e \in S : a < e /\ e <= b => ~OpensEvent(S, gap, e)
               /\ Together(S, gap, b, a) <=> Together(S, gap, a, b)
    BY <1>3, TogetherIsNoOpening
  <1> HIDE DEF R
  <1>4. Q \subseteq R /\ d \in R /\ \A e \in R : e \in Q \/ e = d
    BY DEF R
  <1>5. ASSUME NEW a \in Q, NEW b \in Q, a <= b
        PROVE  Together(R, gap, a, b) <=> Together(Q, gap, a, b)
    <2>1. ~(d <= b)
      OBVIOUS
    <2>2. Together(R, gap, a, b) <=> \A e \in R : a < e /\ e <= b => ~OpensEvent(R, gap, e)
      BY <1>1, <1>3, <1>4, <1>5
    <2>3. Together(Q, gap, a, b) <=> \A e \in Q : a < e /\ e <= b => ~OpensEvent(Q, gap, e)
      BY <1>3, <1>5
    <2>4. QED
      BY <1>2, <1>4, <2>1, <2>2, <2>3
  <1>6. ASSUME NEW a \in Q, NEW b \in Q
        PROVE  Together(R, gap, a, b) <=> Together(Q, gap, a, b)
    <2>1. CASE a <= b
      BY <1>5, <2>1
    <2>2. CASE b <= a
      <3>1. Together(R, gap, b, a) <=> Together(Q, gap, b, a)
        BY <1>5, <2>2
      <3>2. Together(Q, gap, a, b) <=> Together(Q, gap, b, a)
        BY <1>3, <2>2
      <3>3. Together(R, gap, a, b) <=> Together(R, gap, b, a)
        BY <1>1, <1>3, <1>4, <2>2
      <3>4. QED
        BY <3>1, <3>2, <3>3
    <2>3. QED
      BY <2>1, <2>2
  <1>7. ASSUME NEW m \in Q, \A e \in Q : e <= m, NEW a \in Q
        PROVE  Together(R, gap, a, d) <=> Together(Q, gap, a, m) /\ d - m <= gap + 1
    <2>1. a <= m /\ a <= d /\ m < d /\ a \in Nat /\ m \in Nat
      BY <1>7
    <2>2. Together(R, gap, a, d) <=> \A e \in R : a < e /\ e <= d => ~OpensEvent(R, gap, e)
      BY <1>1, <1>3, <1>4, <2>1
    <2>3. Together(Q, gap, a, m) <=> \A e \in Q : a < e /\ e <= m => ~OpensEvent(Q, gap, e)
      BY <1>3, <2>1
    <2>4. OpensEvent(R, gap, d) <=> d - m > gap + 1
      <3>1. OpensEvent(R, gap, d) <=> \A p \in Q : d - p > gap + 1
        BY <1>4, <1>1 DEF OpensEvent
      <3>2. \A p \in Q : d - p >= d - m /\ p \in Nat
        BY <1>7
      <3>3. QED
        BY <3>1, <3>2, <2>1
    <2>5. \A e \in Q : e <= d /\ e <= m
      BY <1>7
    <2>6. a < d /\ d <= d
      BY <2>1
    <2>7. Together(R, gap, a, d)
            <=> (\A e \in Q : a < e => ~OpensEvent(Q, gap, e)) /\ ~OpensEvent(R, gap, d)
      BY <1>2, <1>4, <2>2, <2>5, <2>6
    <2>8. QED
      BY <2>1, <2>3, <2>4, <2>5, <2>7
  <1>8. QED
    BY <1>1, <1>6, <1>7 DEF R

\* What the walk has after the days of Q: the maximal runs, the one with the
\* latest day last and only there.
Walked(Q, gap, runs) ==
    /\ runs \in Seq(SUBSET Q)
    /\ ToSet(runs) = MaximalRuns(Q, gap)
    /\ Q = {} => runs = <<>>
    /\ \A m \in Q : (\A e \in Q : e <= m) =>
          /\ runs # <<>> /\ m \in Last(runs)
          /\ \A i \in 1 .. Len(runs) - 1 : m \notin runs[i]

LEMMA ExtendEmpty ==
    ASSUME NEW d \in Nat, NEW gap \in Nat
    PROVE  Walked({d}, gap, Extend(<<>>, d, gap))
  <1> DEFINE runs == <<{d}>>
  <1>1. Extend(<<>>, d, gap) = runs
    <2>1. Extend(<<>>, d, gap) = Append(<<>>, {d})
      BY DEF Extend
    <2>2. QED
      BY <2>1
  <1>2. runs \in Seq(SUBSET {d}) /\ Len(runs) = 1 /\ runs[1] = {d} /\ runs # <<>>
    OBVIOUS
  <1>3. ToSet(runs) = {{d}}
    BY <1>2 DEF ToSet
  <1>4. IsFiniteSet({d}) /\ {d} \subseteq Nat /\ d \in {d}
    BY FS_Singleton
  <1>5. d \in RunOf({d}, gap, d)
    BY <1>4, RunsAreClasses
  <1>6. MaximalRuns({d}, gap) = {{d}}
    BY <1>5 DEF MaximalRuns, RunOf
  <1>7. \A i \in 1 .. Len(runs) - 1 : FALSE
    BY <1>2
  <1>8. Last(runs) = {d}
    BY <1>2 DEF Last
  <1> HIDE DEF runs
  <1>9. \A m \in {d} : /\ runs # <<>> /\ m \in Last(runs)
                       /\ \A i \in 1 .. Len(runs) - 1 : m \notin runs[i]
    BY <1>2, <1>7, <1>8
  <1>10. QED
    BY <1>1, <1>2, <1>3, <1>6, <1>9 DEF Walked

LEMMA LastIsRunOfLatest ==
    ASSUME NEW Q, IsFiniteSet(Q), Q \subseteq Nat, NEW gap \in Nat, NEW runs,
           Walked(Q, gap, runs), NEW m \in Q, \A e \in Q : e <= m
    PROVE  /\ Len(runs) \in Nat /\ Len(runs) > 0
           /\ runs[Len(runs)] = RunOf(Q, gap, m)
           /\ \A i \in 1 .. Len(runs) - 1 : \E a \in Q :
                 runs[i] = RunOf(Q, gap, a) /\ ~Together(Q, gap, a, m)
           /\ \A a \in Q : ~Together(Q, gap, a, m)
                 => \E i \in 1 .. Len(runs) - 1 : runs[i] = RunOf(Q, gap, a)
  <1>1. runs \in Seq(SUBSET Q) /\ runs # <<>> /\ m \in Last(runs)
    BY DEF Walked
  <1>2. Len(runs) \in Nat /\ Len(runs) > 0 /\ DOMAIN runs = 1 .. Len(runs)
    BY <1>1, FrontProperties, LenProperties
  <1>3. ToSet(runs) = {RunOf(Q, gap, a) : a \in Q}
    BY DEF Walked, MaximalRuns, RunOf
  <1>4. \A i \in 1 .. Len(runs) : \E a \in Q : runs[i] = RunOf(Q, gap, a)
    BY <1>2, <1>3 DEF ToSet
  <1>5. \A a \in Q : \E i \in 1 .. Len(runs) : runs[i] = RunOf(Q, gap, a)
    BY <1>2, <1>3 DEF ToSet
  <1>6. \A a, b \in Q : /\ a \in RunOf(Q, gap, a)
                        /\ b \in RunOf(Q, gap, a) <=> Together(Q, gap, a, b)
                        /\ b \in RunOf(Q, gap, a) => RunOf(Q, gap, a) = RunOf(Q, gap, b)
    BY RunsOfDays
  <1>7. Len(runs) \in 1 .. Len(runs) /\ \A i \in 1 .. Len(runs) - 1 : i \in 1 .. Len(runs)
    BY <1>2
  <1>8. \A j \in 1 .. Len(runs) : j # Len(runs) => j \in 1 .. Len(runs) - 1
    <2>1. \A n \in Nat : \A j \in 1 .. n : j # n => j \in 1 .. n - 1
      OBVIOUS
    <2>2. QED
      BY <1>2, <2>1
  <1>9. runs[Len(runs)] = RunOf(Q, gap, m)
    <2>1. PICK a \in Q : runs[Len(runs)] = RunOf(Q, gap, a)
      BY <1>4, <1>7
    <2>2. m \in RunOf(Q, gap, a)
      BY <1>1, <2>1 DEF Last
    <2>3. QED
      BY <1>6, <2>1, <2>2
  <1>10. ASSUME NEW i \in 1 .. Len(runs) - 1
        PROVE  \E a \in Q : runs[i] = RunOf(Q, gap, a) /\ ~Together(Q, gap, a, m)
    <2>1. PICK a \in Q : runs[i] = RunOf(Q, gap, a)
      BY <1>4, <1>7
    <2>2. m \notin runs[i]
      BY DEF Walked
    <2>3. ~Together(Q, gap, a, m)
      BY <1>6, <2>1, <2>2
    <2>4. QED
      BY <2>1, <2>3
  <1>11. ASSUME NEW a \in Q, ~Together(Q, gap, a, m)
        PROVE  \E i \in 1 .. Len(runs) - 1 : runs[i] = RunOf(Q, gap, a)
    <2>1. PICK i \in 1 .. Len(runs) : runs[i] = RunOf(Q, gap, a)
      BY <1>5
    <2>2. m \notin runs[i]
      BY <1>6, <1>11, <2>1
    <2>3. i # Len(runs)
      BY <1>1, <2>2 DEF Last
    <2>4. i \in 1 .. Len(runs) - 1
      BY <1>8, <2>3
    <2>5. QED
      BY <2>1, <2>4
  <1>12. QED
    BY <1>2, <1>9, <1>10, <1>11

LEMMA ExtendKeepsWalk ==
    ASSUME NEW Q, IsFiniteSet(Q), \A e \in Q : e \in Nat, NEW gap \in Nat, NEW runs,
           Walked(Q, gap, runs), NEW d \in Nat, \A e \in Q : e < d,
           NEW m \in Q, \A e \in Q : e <= m
    PROVE  Walked(Q \union {d}, gap, Extend(runs, d, gap))
  <1>0. Q \subseteq Nat
    OBVIOUS
  <1> DEFINE R == Q \union {d}
             n == Len(runs)
             L == runs[n]
  <1>1. /\ n \in Nat /\ n > 0 /\ L = RunOf(Q, gap, m)
        /\ \A i \in 1 .. n - 1 : \E a \in Q :
              runs[i] = RunOf(Q, gap, a) /\ ~Together(Q, gap, a, m)
        /\ \A a \in Q : ~Together(Q, gap, a, m)
              => \E i \in 1 .. n - 1 : runs[i] = RunOf(Q, gap, a)
    BY LastIsRunOfLatest
  <1>2. runs \in Seq(SUBSET Q) /\ runs # <<>> /\ Last(runs) = L
    BY DEF Walked, Last
  <1>3. Max(L) = m
    <2>1. m \in L /\ L \subseteq Q
      BY <1>0, <1>1, RunsAreClasses DEF RunOf
    <2>2. \A x \in L : m >= x
      BY <2>1
    <2>3. \A x \in L : (\A y \in L : x >= y) => x = m
      BY <2>1, <2>2
    <2> HIDE DEF L
    <2>4. QED
      BY <2>1, <2>2, <2>3 DEF Max
  <1>4. /\ IsFiniteSet(R) /\ R \subseteq Nat
        /\ \A a, b \in Q : Together(R, gap, a, b) <=> Together(Q, gap, a, b)
        /\ \A a \in Q : Together(R, gap, a, d) <=> Together(Q, gap, a, m) /\ d - m <= gap + 1
    BY <1>0, LaterDay
  <1>5. /\ d \in R /\ Q \subseteq R /\ \A e \in R : e \in Q \/ e = d
        /\ \A e \in R : e <= d
        /\ d \notin Q
    <2>1. d <= d /\ \A e \in Q : e <= d
      OBVIOUS
    <2>2. d \notin Q
      OBVIOUS
    <2>3. QED
      BY <2>1, <2>2
  <1>6. \A x \in R : (\A e \in R : e <= x) => x = d
    BY <1>4, <1>5
  <1> HIDE DEF R, L, n
  <1>7. \A a, b \in R : /\ a \in RunOf(R, gap, a)
                        /\ b \in RunOf(R, gap, a) <=> Together(R, gap, a, b)
                        /\ b \in RunOf(R, gap, a) => RunOf(R, gap, a) = RunOf(R, gap, b)
    BY <1>4, RunsAreClasses
  <1>8. \A a, b \in Q : /\ a \in RunOf(Q, gap, a)
                        /\ b \in RunOf(Q, gap, a) <=> Together(Q, gap, a, b)
                        /\ b \in RunOf(Q, gap, a) => RunOf(Q, gap, a) = RunOf(Q, gap, b)
    BY <1>0, RunsAreClasses
  <1>9. \A a \in Q : RunOf(Q, gap, a) \subseteq Q /\ RunOf(R, gap, a) \subseteq R
    BY DEF RunOf
  <1>10. MaximalRuns(R, gap) = {RunOf(R, gap, a) : a \in R}
    BY DEF MaximalRuns, RunOf
  <1>11. RunOf(R, gap, d) \subseteq R
    BY DEF RunOf
  <1>12. CASE d - m <= gap + 1
    <2> DEFINE out == Append(Front(runs), L \union {d})
    <2>1. Extend(runs, d, gap) = out
      BY <1>2, <1>3, <1>12 DEF Extend
    <2>2. Front(runs) \in Seq(SUBSET R) /\ Len(Front(runs)) = n - 1
          /\ \A i \in 1 .. n - 1 : Front(runs)[i] = runs[i]
      <3>1. runs \in Seq(SUBSET R)
        BY <1>2, <1>5, SeqMonotonic
      <3>2. QED
        BY <1>2, <3>1, FrontProperties DEF n
    <2>3. /\ out \in Seq(SUBSET R) /\ Len(out) = n /\ out[n] = L \union {d}
          /\ \A i \in 1 .. n - 1 : out[i] = runs[i]
      <3>1. L \union {d} \in SUBSET R
        BY <1>1, <1>5, <1>9
      <3>2. QED
        BY <1>1, <2>2, <3>1, AppendProperties
    <2>4. ToSet(out) = {runs[i] : i \in 1 .. n - 1} \union {L \union {d}}
      <3>1. DOMAIN out = 1 .. n /\ 1 .. n = (1 .. n - 1) \union {n}
        BY <1>1, <2>3
      <3>2. ToSet(out) = {out[i] : i \in 1 .. n}
        BY <3>1 DEF ToSet
      <3>3. {out[i] : i \in 1 .. n - 1} = {runs[i] : i \in 1 .. n - 1}
        BY <2>3
      <3>4. out[n] = L \union {d}
        BY <2>3
      <3> HIDE DEF out
      <3>5. {out[i] : i \in 1 .. n} = {out[i] : i \in 1 .. n - 1} \union {out[n]}
        BY <3>1
      <3>6. QED
        BY <3>2, <3>3, <3>4, <3>5
    <2>5. \A a \in Q : ~Together(Q, gap, a, m) => RunOf(R, gap, a) = RunOf(Q, gap, a)
      <3>1. ASSUME NEW a \in Q, ~Together(Q, gap, a, m), NEW b \in R
            PROVE  b \in RunOf(R, gap, a) <=> b \in RunOf(Q, gap, a)
        BY <1>4, <1>5, <1>7, <1>8, <1>9, <3>1
      <3>2. QED
        BY <1>5, <1>9, <3>1
    <2>6. \A a \in Q : Together(Q, gap, a, m) => RunOf(R, gap, a) = L \union {d}
      <3>1. ASSUME NEW a \in Q, Together(Q, gap, a, m), NEW b \in R
            PROVE  b \in RunOf(R, gap, a) <=> b \in L \union {d}
        <4>1. m \in RunOf(Q, gap, a) /\ L = RunOf(Q, gap, a)
          BY <1>1, <1>8, <3>1
        <4>2. CASE b = d
          BY <1>4, <1>5, <1>7, <1>12, <3>1, <4>2
        <4>3. CASE b \in Q
          <5>1. b \in RunOf(R, gap, a) <=> b \in RunOf(Q, gap, a)
            BY <1>4, <1>5, <1>7, <1>8, <4>3
          <5>2. b # d
            BY <1>5, <4>3
          <5>3. QED
            BY <4>1, <5>1, <5>2
        <4>4. QED
          BY <1>5, <4>2, <4>3
      <3>2. L \union {d} \subseteq R
        BY <1>1, <1>5, <1>9
      <3>3. QED
        BY <1>9, <3>1, <3>2
    <2>7. RunOf(R, gap, d) = L \union {d}
      <3>1. m \in RunOf(Q, gap, m) /\ Together(Q, gap, m, m)
        BY <1>8
      <3>2. RunOf(R, gap, m) = L \union {d}
        BY <2>6, <3>1
      <3>3. QED
        BY <1>5, <1>7, <3>2
    <2> HIDE DEF out
    <2>8. ToSet(out) = MaximalRuns(R, gap)
      <3>1. ASSUME NEW r \in MaximalRuns(R, gap) PROVE r \in ToSet(out)
        <4>1. PICK a \in R : r = RunOf(R, gap, a)
          BY <1>10
        <4>2. CASE a = d
          BY <2>4, <2>7, <4>1, <4>2
        <4>3. CASE a \in Q /\ Together(Q, gap, a, m)
          BY <2>4, <2>6, <4>1, <4>3
        <4>4. CASE a \in Q /\ ~Together(Q, gap, a, m)
          BY <1>1, <2>4, <2>5, <4>1, <4>4
        <4>5. QED
          BY <1>5, <4>2, <4>3, <4>4
      <3>2. ASSUME NEW r \in ToSet(out) PROVE r \in MaximalRuns(R, gap)
        <4>1. CASE r = L \union {d}
          BY <1>5, <1>10, <2>7, <4>1
        <4>2. ASSUME NEW i \in 1 .. n - 1, r = runs[i] PROVE r \in MaximalRuns(R, gap)
          <5>1. PICK a \in Q : runs[i] = RunOf(Q, gap, a) /\ ~Together(Q, gap, a, m)
            BY <1>1
          <5>2. QED
            BY <1>5, <1>10, <2>5, <4>2, <5>1
        <4>3. QED
          BY <2>4, <4>1, <4>2
      <3>3. QED
        BY <3>1, <3>2
    <2>9. ASSUME NEW x \in R, \A e \in R : e <= x
          PROVE  /\ out # <<>> /\ x \in Last(out)
                 /\ \A i \in 1 .. Len(out) - 1 : x \notin out[i]
      <3>1. x = d
        BY <1>6, <2>9
      <3>2. \A i \in 1 .. n - 1 : runs[i] \subseteq Q
        BY <1>1, <1>9
      <3>3. out # <<>> /\ d \in Last(out)
        BY <1>1, <2>3 DEF Last
      <3>4. QED
        BY <1>5, <2>3, <3>1, <3>2, <3>3
    <2>10. QED
      BY <1>5, <2>1, <2>3, <2>8, <2>9 DEF Walked, R
  <1>13. CASE ~(d - m <= gap + 1)
    <2> DEFINE out == Append(runs, {d})
    <2>1. Extend(runs, d, gap) = out
      BY <1>2, <1>3, <1>13 DEF Extend
    <2>2. /\ out \in Seq(SUBSET R) /\ Len(out) = n + 1 /\ out[n + 1] = {d}
          /\ \A i \in 1 .. n : out[i] = runs[i]
      <3>1. runs \in Seq(SUBSET R) /\ {d} \in SUBSET R
        BY <1>2, <1>5, SeqMonotonic
      <3>2. QED
        BY <1>1, <3>1, AppendProperties DEF n
    <2>3. ToSet(out) = ToSet(runs) \union {{d}}
      <3>1. /\ DOMAIN out = 1 .. n + 1 /\ 1 .. n + 1 = (1 .. n) \union {n + 1}
            /\ DOMAIN runs = 1 .. n
        BY <1>1, <1>2, <2>2 DEF n
      <3>2. QED
        BY <2>2, <3>1 DEF ToSet
    <2>4. \A a \in Q : RunOf(R, gap, a) = RunOf(Q, gap, a)
      <3>1. ASSUME NEW a \in Q, NEW b \in R
            PROVE  b \in RunOf(R, gap, a) <=> b \in RunOf(Q, gap, a)
        BY <1>4, <1>5, <1>7, <1>8, <1>9, <1>13
      <3>2. QED
        BY <1>5, <1>9, <3>1
    <2>5. RunOf(R, gap, d) = {d}
      <3>1. ASSUME NEW b \in RunOf(R, gap, d), b # d PROVE FALSE
        <4>1. b \in Q
          BY <1>5, <1>11, <3>1
        <4>2. d \in RunOf(R, gap, b)
          BY <1>5, <1>7, <3>1, <4>1
        <4>3. QED
          BY <1>4, <1>5, <1>7, <1>13, <4>1, <4>2
      <3>2. d \in RunOf(R, gap, d)
        BY <1>5, <1>7
      <3>3. QED
        BY <3>1, <3>2
    <2>6. ToSet(out) = MaximalRuns(R, gap)
      <3>1. ToSet(runs) = {RunOf(Q, gap, a) : a \in Q}
        BY DEF Walked, MaximalRuns, RunOf
      <3>2. MaximalRuns(R, gap) = {RunOf(R, gap, a) : a \in Q} \union {RunOf(R, gap, d)}
        BY <1>5, <1>10
      <3>3. {RunOf(R, gap, a) : a \in Q} = {RunOf(Q, gap, a) : a \in Q}
        BY <2>4
      <3> HIDE DEF out
      <3>4. QED
        BY <2>3, <2>5, <3>1, <3>2, <3>3
    <2> HIDE DEF out
    <2>7. ASSUME NEW x \in R, \A e \in R : e <= x
          PROVE  /\ out # <<>> /\ x \in Last(out)
                 /\ \A i \in 1 .. Len(out) - 1 : x \notin out[i]
      <3>1. x = d
        BY <1>6, <2>7
      <3>2. \A i \in 1 .. n : runs[i] \subseteq Q
        BY <1>1, <1>9 DEF L
      <3>3. out # <<>> /\ d \in Last(out)
        BY <1>1, <2>2 DEF Last
      <3>4. \A i \in 1 .. Len(out) - 1 : i \in 1 .. n
        BY <1>1, <2>2
      <3>5. QED
        BY <1>5, <2>2, <3>1, <3>2, <3>3, <3>4
    <2>8. QED
      BY <1>5, <2>1, <2>2, <2>6, <2>7 DEF Walked, R
  <1>14. QED
    BY <1>12, <1>13

\* The days come in order, and all of them.
LEMMA InOrderIsSorted ==
    ASSUME NEW Q, IsFiniteSet(Q), Q \subseteq Nat
    PROVE  LET n == Cardinality(Q)
               seq == InOrder(Q) IN
           /\ n \in Nat
           /\ seq \in [1 .. n -> Q]
           /\ \A i, j \in 1 .. n : i < j => seq[i] < seq[j]
           /\ {seq[i] : i \in 1 .. n} = Q
  <1> DEFINE n == Cardinality(Q)
             seq == InOrder(Q)
             key == [d \in Q |-> d]
  <1>1. Keyed(Q, key)
    BY DEF Keyed
  <1>2. \A d \in Q : Place(Q, key, d) = Cardinality({e \in Q : e <= d})
    <2>1. ASSUME NEW d \in Q PROVE {y \in Q : key[y] <= key[d]} = {e \in Q : e <= d}
      OBVIOUS
    <2>2. QED
      BY <2>1 DEF Place
  <1>3. \A d \in Q : key[d] = d
    OBVIOUS
  <1> HIDE DEF key
  <1>4. n \in Nat
    BY FS_CardinalityType
  <1>5. seq = [i \in 1 .. n |-> CHOOSE d \in Q : Cardinality({e \in Q : e <= d}) = i]
    BY DEF InOrder
  <1>6. \A i \in 1 .. n : \E d \in Q : Place(Q, key, d) = i
    BY <1>1, PlaceIsOnto
  <1>7. \A i \in 1 .. n : seq[i] \in Q /\ Place(Q, key, seq[i]) = i
    <2> HIDE DEF n, seq
    <2>1. ASSUME NEW i \in 1 .. n PROVE seq[i] \in Q /\ Place(Q, key, seq[i]) = i
      <3>1. \E d \in Q : Cardinality({e \in Q : e <= d}) = i
        BY <1>2, <1>6
      <3>2. seq[i] \in Q /\ Cardinality({e \in Q : e <= seq[i]}) = i
        BY <1>5, <3>1
      <3>3. QED
        BY <1>2, <3>2
    <2>2. QED
      BY <2>1
  <1>8. \A d, e \in Q : Place(Q, key, d) \in 1 .. n /\ (d < e <=> Place(Q, key, d) < Place(Q, key, e))
    BY <1>1, <1>3, PlaceIsStrict
  <1> HIDE DEF n, seq
  <1>9. seq \in [1 .. n -> Q]
    BY <1>5, <1>7
  <1>10. \A i, j \in 1 .. n : i < j => seq[i] < seq[j]
    BY <1>7, <1>8
  <1>11. ASSUME NEW d \in Q PROVE d \in {seq[i] : i \in 1 .. n}
    <2>1. PICK i \in 1 .. n : i = Place(Q, key, d)
      BY <1>8
    <2>2. Place(Q, key, seq[i]) = Place(Q, key, d) /\ seq[i] \in Q
      BY <1>7, <2>1
    <2>3. ~(seq[i] < d) /\ ~(d < seq[i])
      <3>1. /\ seq[i] < d <=> Place(Q, key, seq[i]) < Place(Q, key, d)
            /\ d < seq[i] <=> Place(Q, key, d) < Place(Q, key, seq[i])
        BY <1>8, <2>2
      <3>2. Place(Q, key, d) \in Int
        BY <1>4, <1>8 DEF n
      <3>3. ~ (Place(Q, key, d) < Place(Q, key, d))
        BY <3>2
      <3>4. QED
        BY <2>2, <3>1, <3>3
    <2>4. seq[i] \in Nat /\ d \in Nat
      BY <2>2
    <2>5. seq[i] = d
      BY <2>3, <2>4
    <2>6. QED
      BY <2>5
  <1>12. {seq[i] : i \in 1 .. n} = Q
    BY <1>7, <1>11
  <1>13. QED
    BY <1>4, <1>9, <1>10, <1>12 DEF n, seq

\* it is the function the walk over the days seq computes on sets of positions.
WalkOver(D, seq, gap, it) ==
    it = [s \in SUBSET D |-> IF s = {} THEN <<>>
                             ELSE Extend(it[s \ {Max(s)}], seq[Max(s)], gap)]

LEMMA LatestPosition ==
    ASSUME NEW n \in Nat, NEW s \in SUBSET (1 .. n), s # {}
    PROVE  Max(s) \in s /\ \A i \in s : Max(s) >= i
  <1>1. IsFiniteSet(1 .. n)
    BY FS_Interval
  <1>2. IsFiniteSet(s)
    BY <1>1, FS_Subset
  <1>3. \A i \in s : i \in Int
    OBVIOUS
  <1>4. \E e \in s : \A p \in s : e >= p
    BY <1>2, <1>3, FirstAndLastOf
  <1>5. QED
    BY <1>4 DEF Max

LEMMA ExtendType ==
    ASSUME NEW Q, NEW gap, NEW runs \in Seq(SUBSET Q), NEW d \in Q
    PROVE  Extend(runs, d, gap) \in Seq(SUBSET Q)
  <1>1. CASE runs # <<>> /\ d - Max(Last(runs)) <= gap + 1
    <2>1. Front(runs) \in Seq(SUBSET Q) /\ Len(runs) \in 1 .. Len(runs)
      BY <1>1, FrontProperties
    <2>2. Last(runs) \in SUBSET Q
      BY <2>1, ElementOfSeq DEF Last
    <2>3. Last(runs) \union {d} \in SUBSET Q
      BY <2>2
    <2>4. QED
      BY <1>1, <2>1, <2>3, AppendProperties DEF Extend
  <1>2. CASE ~(runs # <<>> /\ d - Max(Last(runs)) <= gap + 1)
    <2>1. {d} \in SUBSET Q
      OBVIOUS
    <2>2. QED
      BY <1>2, <2>1, AppendProperties DEF Extend
  <1>3. QED
    BY <1>1, <1>2

LEMMA WalkExists ==
    ASSUME NEW Q, NEW gap, NEW n \in Nat, NEW seq \in [1 .. n -> Q]
    PROVE  \E it : WalkOver(1 .. n, seq, gap, it)
  <1> DEFINE D == 1 .. n
             V == Seq(SUBSET Q)
             pick == [s \in SUBSET D |-> Max(s)]
             step == [p \in D \X V |-> Extend(p[2], seq[p[1]], gap)]
  <1>1. IsFiniteSet(D)
    BY FS_Interval
  <1>2. \A s \in SUBSET D : s # {} => pick[s] \in s
    BY LatestPosition
  <1>3. \A x \in D, v \in V : step[<<x, v>>] = Extend(v, seq[x], gap)
    OBVIOUS
  <1>4. \A x \in D, v \in V : Extend(v, seq[x], gap) \in V
    BY ExtendType
  <1>5. <<>> \in V
    BY EmptySeq
  <1>6. \A s \in SUBSET D : pick[s] = Max(s)
    OBVIOUS
  <1> HIDE DEF D, V, pick, step
  <1>7. Recursion(D, V, pick, step, <<>>)
    BY <1>1, <1>2, <1>3, <1>4, <1>5 DEF Recursion, Picks
  <1>8. PICK it \in [SUBSET D -> V] : RecursiveOn(D, pick, step, <<>>, it)
    BY <1>7, RecursionDefines
  <1>9. ASSUME NEW s \in SUBSET D, s # {}
        PROVE  step[<<pick[s], it[s \ {pick[s]}]>>] = Extend(it[s \ {Max(s)}], seq[Max(s)], gap)
    <2>1. pick[s] \in D /\ s \ {pick[s]} \in SUBSET D /\ pick[s] = Max(s)
      BY <1>2, <1>6, <1>9
    <2>2. it[s \ {pick[s]}] \in V
      BY <2>1
    <2>3. QED
      BY <1>3, <2>1, <2>2
  <1>10. [s \in SUBSET D |-> IF s = {} THEN <<>> ELSE step[<<pick[s], it[s \ {pick[s]}]>>]]
          = [s \in SUBSET D |-> IF s = {} THEN <<>> ELSE Extend(it[s \ {Max(s)}], seq[Max(s)], gap)]
    BY <1>9
  <1>11. WalkOver(D, seq, gap, it)
    BY <1>8, <1>10 DEF RecursiveOn, WalkOver
  <1>12. QED
    BY <1>11 DEF D

LEMMA CutRunsIsWalk ==
    ASSUME NEW Q, IsFiniteSet(Q), Q \subseteq Nat, NEW gap
    PROVE  \E it : /\ WalkOver(1 .. Cardinality(Q), InOrder(Q), gap, it)
                   /\ CutRuns(Q, gap) = ToSet(it[1 .. Cardinality(Q)])
  <1> DEFINE n == Cardinality(Q)
             seq == InOrder(Q)
             Body(g) == [s \in SUBSET (1 .. n) |->
                            IF s = {} THEN <<>> ELSE Extend(g[s \ {Max(s)}], seq[Max(s)], gap)]
  <1>1. n \in Nat /\ seq \in [1 .. n -> Q]
    BY InOrderIsSorted
  <1>2. DOMAIN seq = 1 .. n
    BY <1>1
  <1>3. CutRuns(Q, gap) = ToSet((CHOOSE g : g = Body(g))[1 .. n])
    <2> HIDE DEF seq, n
    <2>1. CutRuns(Q, gap) = ToSet(FoldLeft(LAMBDA runs, d : Extend(runs, d, gap), <<>>, seq))
      BY DEF CutRuns, seq
    <2>2. FoldLeft(LAMBDA runs, d : Extend(runs, d, gap), <<>>, seq)
            = (CHOOSE g : g = Body(g))[1 .. n]
      BY <1>2 DEF FoldLeft, MapThenFoldSet
    <2>3. QED
      BY <2>1, <2>2
  <1> HIDE DEF seq, n
  <1>4. PICK it : WalkOver(1 .. n, seq, gap, it)
    BY <1>1, WalkExists
  <1>5. it = Body(it)
    BY <1>4 DEF WalkOver
  <1> HIDE DEF Body
  <1>6. (CHOOSE g : g = Body(g)) = Body(CHOOSE g : g = Body(g))
    BY <1>5
  <1>7. WalkOver(1 .. n, seq, gap, CHOOSE g : g = Body(g))
    BY <1>6 DEF WalkOver, Body
  <1>8. QED
    BY <1>3, <1>7 DEF n, seq

\* After k steps the walk has cut the first k days.
FirstDays(seq, k) == {seq[i] : i \in 1 .. k}

LEMMA WalkOfPrefixes ==
    ASSUME NEW Q, NEW gap \in Nat, NEW n \in Nat, NEW seq \in [1 .. n -> Q],
           \A e \in Q : e \in Nat,
           \A i, j \in 1 .. n : i < j => seq[i] < seq[j],
           NEW it, WalkOver(1 .. n, seq, gap, it)
    PROVE  \A k \in 0 .. n : Walked(FirstDays(seq, k), gap, it[1 .. k])
  <1> DEFINE First(k) == {seq[i] : i \in 1 .. k}
             C == {k \in 0 .. n : ~Walked(First(k), gap, it[1 .. k])}
  <1>1. SUFFICES ASSUME C # {} PROVE FALSE
    BY DEF FirstDays
  <1>2. C \subseteq Nat
    OBVIOUS
  <1>3. PICK k \in C : \A j \in C : k <= j
    <2> HIDE DEF C
    <2>1. QED
      BY <1>1, <1>2, FirstOf
  <1>4. k \in Nat /\ k \in 0 .. n /\ ~Walked(First(k), gap, it[1 .. k])
    OBVIOUS
  <1>5. ASSUME NEW j \in 0 .. n, j < k PROVE Walked(First(j), gap, it[1 .. j])
    <2>1. SUFFICES ASSUME j \in C PROVE FALSE
      OBVIOUS
    <2> HIDE DEF C
    <2>2. k <= j /\ k \in Nat /\ j \in Nat
      BY <1>3, <1>4, <2>1
    <2>3. QED
      BY <1>5, <2>2
  <1>6. \A s \in SUBSET (1 .. n) : it[s] = IF s = {} THEN <<>>
                                           ELSE Extend(it[s \ {Max(s)}], seq[Max(s)], gap)
    BY DEF WalkOver
  <1> HIDE DEF C
  <1>7. CASE k = 0
    <2>1. 1 .. k = {} /\ First(k) = {}
      BY <1>7
    <2>2. it[1 .. k] = <<>>
      BY <1>6, <2>1
    <2>3. <<>> \in Seq(SUBSET {}) /\ ToSet(<<>>) = {}
      BY EmptySeq DEF ToSet
    <2>4. MaximalRuns({}, gap) = {}
      BY DEF MaximalRuns
    <2>5. QED
      BY <1>4, <2>1, <2>2, <2>3, <2>4 DEF Walked
  <1>8. CASE k > 0
    <2>1. /\ k \in 1 .. n /\ k - 1 \in 0 .. n /\ k - 1 < k
          /\ 1 .. k \in SUBSET (1 .. n) /\ 1 .. k # {}
      <3>1. \A m \in Nat : m \in 0 .. n /\ m > 0 =>
              m \in 1 .. n /\ m - 1 \in 0 .. n /\ m - 1 < m /\ 1 \in 1 .. m
        OBVIOUS
      <3>2. \A m \in Nat : m \in 1 .. n => \A i \in 1 .. m : i \in 1 .. n
        OBVIOUS
      <3>3. QED
        BY <1>4, <1>8, <3>1, <3>2
    <2>2. Max(1 .. k) = k
      <3>1. Max(1 .. k) \in 1 .. k /\ \A i \in 1 .. k : Max(1 .. k) >= i
        BY <2>1, LatestPosition
      <3>2. k \in 1 .. k
        BY <2>1
      <3>3. PICK m \in 1 .. k : m = Max(1 .. k)
        BY <3>1
      <3>4. m >= k
        BY <3>1, <3>2, <3>3
      <3>5. QED
        BY <1>4, <3>3, <3>4
    <2>3. (1 .. k) \ {k} = 1 .. k - 1
      BY <1>4
    <2>4. it[1 .. k] = Extend(it[1 .. k - 1], seq[k], gap)
      BY <1>6, <2>1, <2>2, <2>3
    <2>5. First(k) = First(k - 1) \union {seq[k]}
      <3>1. 1 .. k = (1 .. k - 1) \union {k}
        BY <1>4, <1>8
      <3>2. QED
        BY <3>1
    <2>6. Walked(First(k - 1), gap, it[1 .. k - 1])
      BY <1>5, <2>1
    <2>7. seq[k] \in Nat
      BY <2>1
    <2>8. CASE k = 1
      <3>1. 1 .. k - 1 = {} /\ First(k - 1) = {}
        BY <2>8
      <3>2. it[1 .. k - 1] = <<>>
        BY <1>6, <3>1
      <3>3. First(k) = {seq[k]} /\ it[1 .. k] = Extend(<<>>, seq[k], gap)
        BY <2>4, <2>5, <3>1, <3>2
      <3>4. PICK d \in Nat : d = seq[k]
        BY <2>7
      <3>5. Walked({d}, gap, Extend(<<>>, d, gap))
        BY ExtendEmpty
      <3>6. QED
        BY <1>4, <3>3, <3>4, <3>5
    <2>9. CASE k > 1
      <3>1. k - 1 \in 1 .. n
        BY <2>1, <2>9
      <3>2. \A e \in First(k - 1) : e \in Nat /\ e < seq[k]
        <4>1. ASSUME NEW i \in 1 .. k - 1 PROVE seq[i] \in Nat /\ seq[i] < seq[k]
          <5>1. i \in 1 .. n /\ i < k
            BY <1>4
          <5>2. QED
            BY <2>1, <5>1
        <4>2. QED
          BY <4>1
      <3>3. \A e \in First(k - 1) : e <= seq[k - 1]
        <4>1. ASSUME NEW i \in 1 .. k - 1 PROVE seq[i] <= seq[k - 1]
          <5>1. i \in 1 .. n /\ (i = k - 1 \/ i < k - 1)
            BY <1>4
          <5>2. seq[i] \in Nat /\ seq[k - 1] \in Nat
            BY <3>1, <5>1
          <5>3. i = k - 1 \/ seq[i] < seq[k - 1]
            BY <3>1, <5>1
          <5>4. QED
            BY <5>2, <5>3
        <4>2. QED
          BY <4>1
      <3>4. seq[k - 1] \in First(k - 1)
        <4>1. k - 1 \in 1 .. k - 1
          BY <3>1
        <4>2. QED
          BY <4>1
      <3>5. IsFiniteSet(First(k - 1))
        <4>1. IsFiniteSet(1 .. k - 1)
          BY FS_Interval, <1>4
        <4>2. QED
          BY <4>1, ImageIsFinite
      <3> HIDE DEF First
      <3>6. Walked(First(k - 1) \union {seq[k]}, gap, Extend(it[1 .. k - 1], seq[k], gap))
        BY <2>6, <2>7, <3>2, <3>3, <3>4, <3>5, ExtendKeepsWalk
      <3>7. QED
        BY <1>4, <2>4, <2>5, <3>6
    <2>10. QED
      BY <1>4, <1>8, <2>8, <2>9
  <1>9. QED
    BY <1>4, <1>7, <1>8

(* The walk over the days, which extends the last run or opens a new one, cuts   *)
(* any finite set of days into its maximal runs, as the running count does: the  *)
(* port of outlook_weather.py and the probe agree with the Silver job on which   *)
(* days an event holds.                                                          *)
THEOREM WalkFindsMaximalRuns ==
    ASSUME NEW Q, IsFiniteSet(Q), \A d \in Q : d \in Nat, NEW gap \in Nat
    PROVE  CutRuns(Q, gap) = MaximalRuns(Q, gap)
  <1> DEFINE n == Cardinality(Q)
             seq == InOrder(Q)
  <1>0. Q \subseteq Nat
    OBVIOUS
  <1>1. /\ n \in Nat /\ seq \in [1 .. n -> Q]
        /\ \A i, j \in 1 .. n : i < j => seq[i] < seq[j]
        /\ {seq[i] : i \in 1 .. n} = Q
    BY <1>0, InOrderIsSorted
  <1>2. PICK it : WalkOver(1 .. n, seq, gap, it) /\ CutRuns(Q, gap) = ToSet(it[1 .. n])
    BY <1>0, CutRunsIsWalk
  <1> HIDE DEF n, seq
  <1>4. \A k \in 0 .. n : Walked(FirstDays(seq, k), gap, it[1 .. k])
    <2>1. n \in Nat /\ seq \in [1 .. n -> Q]
      BY <1>1
    <2>2. \A i, j \in 1 .. n : i < j => seq[i] < seq[j]
      BY <1>1
    <2>3. WalkOver(1 .. n, seq, gap, it)
      BY <1>2
    <2>4. QED
      BY <2>1, <2>2, <2>3, WalkOfPrefixes
  <1>5. n \in 0 .. n
    BY <1>1
  <1>6. Walked(Q, gap, it[1 .. n])
    BY <1>1, <1>4, <1>5 DEF FirstDays
  <1>7. QED
    BY <1>2, <1>6 DEF Walked

-----------------------------------------------------------------------------
(* The snowfall of a span of days.                                             *)

\* What a daily series is, and a rule.
IsSeries(s) ==
    /\ IsFiniteSet(DOMAIN s)
    /\ s = [d \in DOMAIN s |-> s[d]]
    /\ \A d \in DOMAIN s : d \in Nat /\ s[d] \in Nat \union {Null}

IsRule(rule) ==
    /\ rule.threshold \in Nat /\ rule.gap \in Nat /\ rule.window \in Nat /\ rule.accum \in Nat
    /\ rule.window > 0 => rule.accum > 0

LEMMA SnowType ==
    ASSUME NEW s, IsSeries(s), NEW d
    PROVE  /\ Snow(s, d) \in Nat
           /\ Snow(s, d) # 0 => d \in DOMAIN s /\ s[d] # Null
  BY DEF IsSeries, Snow, Null

LEMMA TotalIsSum ==
    ASSUME NEW s, IsSeries(s), NEW D, IsFiniteSet(D)
    PROVE  Total(s, D) = SumFunctionOnSet([d \in D |-> Snow(s, d)], D)
  <1> DEFINE f == [d \in D |-> Snow(s, d)]
             Body(g) == [t \in SUBSET D |-> IF t = {} THEN 0
                                             ELSE Snow(s, Some(t)) + g[t \ {Some(t)}]]
  <1>1. \A d \in D : f[d] = Snow(s, d) /\ f[d] \in Int
    BY SnowType
  <1>2. Total(s, D) = (CHOOSE g : g = Body(g))[D]
    BY DEF Total, MapThenSumSet, MapThenFoldSet, Some
  <1> HIDE DEF f
  <1>3. PICK g \in [SUBSET D -> Int] : Sums(D, f, g)
    BY <1>1, SumsExist
  <1>4. \A t \in SUBSET D : t # {} => Some(t) \in D
    BY DEF Some
  <1>5. ASSUME NEW h PROVE Body(h) = [t \in SUBSET D |-> IF t = {} THEN 0
                                              ELSE f[Some(t)] + h[t \ {Some(t)}]]
    BY <1>1, <1>4
  <1>6. g = Body(g)
    BY <1>3, <1>5 DEF Sums
  <1> HIDE DEF Body
  <1>7. (CHOOSE h : h = Body(h)) = Body(CHOOSE h : h = Body(h))
    BY <1>6
  <1>8. Sums(D, f, CHOOSE h : h = Body(h))
    BY <1>5, <1>7 DEF Sums
  <1>9. SumFunctionOnSet(f, D) = (CHOOSE h : h = Body(h))[D]
    BY <1>1, <1>8, SumOfSubset
  <1>10. QED
    BY <1>2, <1>9 DEF f

LEMMA TotalIsNat ==
    ASSUME NEW s, IsSeries(s), NEW D, IsFiniteSet(D)
    PROVE  Total(s, D) \in Nat
  <1> DEFINE f == [d \in D |-> Snow(s, d)]
  <1>1. \A d \in D : f[d] \in Nat
    BY SnowType
  <1> HIDE DEF f
  <1>2. SumFunctionOnSet(f, D) \in Nat
    BY <1>1, SumIsMonotonic
  <1>3. QED
    BY <1>2, TotalIsSum DEF f

\* A span of days holds as much snow as another when no snow fell in the other
\* on a day it leaves out.
LEMMA TotalIsMonotonic ==
    ASSUME NEW s, IsSeries(s), NEW A, IsFiniteSet(A), NEW B, IsFiniteSet(B),
           \A d \in A : Snow(s, d) # 0 => d \in B
    PROVE  Total(s, A) <= Total(s, B)
  <1> DEFINE D == A \union B
             E == A \intersect B
             f == [d \in D |-> Snow(s, d)]
  <1>1. IsFiniteSet(D) /\ IsFiniteSet(E)
    BY FS_Union, FS_Subset
  <1>2. \A d \in D : f[d] = Snow(s, d) /\ f[d] \in Nat
    BY SnowType
  <1>3. ASSUME NEW F \in SUBSET D, IsFiniteSet(F)
        PROVE  Total(s, F) = SumFunctionOnSet(f, F)
    <2> DEFINE h == [d \in F |-> Snow(s, d)]
    <2>1. \A d \in F : h[d] = f[d] /\ h[d] \in Int
      BY <1>2
    <2>2. Total(s, F) = SumFunctionOnSet(h, F)
      BY <1>3, TotalIsSum
    <2> HIDE DEF h, f
    <2>3. SumFunctionOnSet(h, F) = SumFunctionOnSet(f, F)
      BY <1>3, <2>1, SumCongruence
    <2>4. QED
      BY <2>2, <2>3
  <1>4. \A d \in A : d \notin E => f[d] = 0
    BY <1>2
  <1>5. A \in SUBSET D /\ B \in SUBSET D /\ E \in SUBSET A /\ E \in SUBSET B
    OBVIOUS
  <1> HIDE DEF f, D, E
  <1>6. SumFunctionOnSet(f, A) = SumFunctionOnSet(f, E)
    <2>1. \A d \in A : f[d] \in Int
      BY <1>2, <1>5
    <2>2. QED
      BY <1>4, <1>5, <2>1, SumOverSupport
  <1>7. SumFunctionOnSet(f, E) <= SumFunctionOnSet(f, B)
    <2>1. \A d \in B : f[d] \in Nat
      BY <1>2, <1>5
    <2>2. QED
      BY <1>5, <2>1, SumIsMonotonic
  <1>8. QED
    BY <1>3, <1>5, <1>6, <1>7

\* Where no snow fell there is nothing to add up.
LEMMA TotalOfNothing ==
    ASSUME NEW s, IsSeries(s), NEW D, IsFiniteSet(D), \A d \in D : Snow(s, d) = 0
    PROVE  Total(s, D) = 0
  <1>1. Total(s, D) <= Total(s, {})
    BY FS_EmptySet, TotalIsMonotonic
  <1>2. Total(s, {}) = SumFunctionOnSet([d \in {} |-> Snow(s, d)], {})
    BY FS_EmptySet, TotalIsSum
  <1>3. Total(s, {}) = 0
    BY <1>2, SumOfEmpty
  <1>4. Total(s, D) \in Nat
    BY TotalIsNat
  <1>5. QED
    BY <1>1, <1>3, <1>4

-----------------------------------------------------------------------------
(* A run on a contiguous series always holds a value: the last day of snow in  *)
(* the window of a day that qualifies by it qualifies too, and so does every   *)
(* day between them.                                                           *)

LEMMA LastSnowQualifies ==
    ASSUME NEW s, IsSeries(s), Contiguous(s), NEW rule, IsRule(rule),
           NEW a \in DOMAIN s, RollingHit(s, rule, a)
    PROVE  \E e \in DOMAIN s : /\ e <= a /\ s[e] # Null
                               /\ \A c \in e .. a : c \in Qualifying(s, rule)
  <1> DEFINE w == rule.window
             W(d) == d - w + 1 .. d
             Wet == {d \in W(a) : Snow(s, d) # 0}
  <1>1. w \in Nat /\ w > 0 /\ rule.accum \in Nat /\ rule.accum > 0 /\ a \in Nat
    BY DEF IsRule, RollingHit, IsSeries
  <1>2. ASSUME NEW d \in Int PROVE IsFiniteSet(W(d))
    <2>1. \A p, q \in Int : p - q + 1 \in Int
      OBVIOUS
    <2>2. PICK b \in Int : b = d - w + 1
      BY <1>1, <2>1
    <2>3. IsFiniteSet(b .. d)
      BY <1>2, <2>2, FS_Interval
    <2>4. QED
      BY <2>2, <2>3
  <1>3. Total(s, W(a)) >= rule.accum
    BY DEF RollingHit
  <1>4. Wet # {}
    <2>1. SUFFICES ASSUME \A d \in W(a) : Snow(s, d) = 0 PROVE FALSE
      OBVIOUS
    <2>2. IsFiniteSet(W(a))
      BY <1>1, <1>2
    <2> HIDE DEF W
    <2>3. Total(s, W(a)) = 0
      BY <2>1, <2>2, TotalOfNothing
    <2>4. QED
      BY <1>1, <1>3, <2>3
  <1>5. PICK e \in Wet : \A d \in Wet : e >= d
    <2>1. IsFiniteSet(Wet)
      <3>1. Wet \in SUBSET W(a) /\ a \in Int
        BY <1>1
      <3> HIDE DEF W, Wet
      <3>2. IsFiniteSet(W(a))
        BY <1>2, <3>1
      <3>3. QED
        BY <3>1, <3>2, FS_Subset
    <2>2. \A d \in Wet : d \in Int
      OBVIOUS
    <2> HIDE DEF Wet
    <2>3. QED
      BY <1>4, <2>1, <2>2, FirstAndLastOf
  <1>6. e \in DOMAIN s /\ s[e] # Null
    BY SnowType
  <1>7. e \in Int /\ e <= a /\ e >= a - w + 1
    BY <1>1
  <1>8. ASSUME NEW c \in e .. a PROVE c \in Qualifying(s, rule)
    <2>1. c \in DOMAIN s
      BY <1>6 DEF Contiguous
    <2>2. c \in Int /\ e <= c /\ c <= a
      BY <1>1, <1>7
    <2>3. \A d \in W(a) : Snow(s, d) # 0 => d \in W(c)
      <3>1. ASSUME NEW d \in W(a), Snow(s, d) # 0 PROVE d \in W(c)
        <4>1. d \in Wet
          BY <3>1
        <4>2. d \in Int /\ d <= e /\ d >= a - w + 1
          BY <1>1, <1>5, <4>1
        <4>3. QED
          BY <1>1, <1>7, <2>2, <4>2
      <3>2. QED
        BY <3>1
    <2>4. IsFiniteSet(W(a)) /\ IsFiniteSet(W(c))
      BY <1>1, <1>2, <2>2
    <2>5. Total(s, W(a)) <= Total(s, W(c)) /\ Total(s, W(a)) \in Nat /\ Total(s, W(c)) \in Nat
      <3> HIDE DEF W
      <3>1. QED
        BY <2>3, <2>4, TotalIsMonotonic, TotalIsNat
    <2>6. Total(s, W(c)) >= rule.accum
      <3> HIDE DEF W
      <3>1. QED
        BY <1>1, <1>3, <2>5
    <2>7. RollingHit(s, rule, c)
      BY <1>1, <2>6 DEF RollingHit
    <2>8. QED
      BY <2>1, <2>7 DEF Qualifying
  <1>9. QED
    BY <1>6, <1>7, <1>8

LEMMA QualifyingDays ==
    ASSUME NEW s, IsSeries(s), NEW rule
    PROVE  /\ IsFiniteSet(Qualifying(s, rule))
           /\ Qualifying(s, rule) \subseteq DOMAIN s
           /\ \A d \in Qualifying(s, rule) : d \in Nat
  <1>1. Qualifying(s, rule) \in SUBSET (DOMAIN s)
    BY DEF Qualifying
  <1>2. QED
    BY <1>1, FS_Subset DEF IsSeries

LEMMA RunHoldsValue ==
    ASSUME NEW s, IsSeries(s), Contiguous(s), NEW rule, IsRule(rule),
           NEW run \in MaximalRuns(Qualifying(s, rule), rule.gap)
    PROVE  Values(s, run) # {}
  <1> DEFINE Q == Qualifying(s, rule)
             gap == rule.gap
  <1>1. /\ IsFiniteSet(Q) /\ Q \subseteq DOMAIN s /\ \A d \in Q : d \in Nat
        /\ gap \in Nat
    BY QualifyingDays DEF IsRule
  <1>2. PICK a \in Q : run = RunOf(Q, gap, a)
    BY DEF MaximalRuns, RunOf
  <1>3. CASE SingleHit(s, rule, a)
    <2>1. a \in run
      <3>1. Q \subseteq Nat
        BY <1>1
      <3> HIDE DEF Q, gap
      <3>2. QED
        BY <1>1, <1>2, <3>1, RunsOfDays
    <2>2. QED
      BY <1>3, <2>1 DEF Values, SingleHit
  <1>4. CASE RollingHit(s, rule, a)
    <2>1. PICK e \in DOMAIN s : /\ e <= a /\ s[e] # Null
                                /\ \A c \in e .. a : c \in Q
      BY <1>1, <1>4, LastSnowQualifies
    <2>2. e \in Nat /\ a \in Nat
      BY <1>1 DEF IsSeries
    <2> HIDE DEF Q, gap
    <2>3. e \in Q
      BY <2>1, <2>2
    <2>4. Min({a, e}) = e /\ Max({a, e}) = a
      BY <2>1, <2>2, MinMaxOfPair
    <2>5. Together(Q, gap, a, e)
      <3>1. ASSUME NEW c \in e .. a - gap - 1
            PROVE  c + 1 \in c + 1 .. c + gap + 1 /\ c + 1 \in e .. a
        BY <1>1, <2>2
      <3>2. QED
        BY <2>1, <2>4, <3>1 DEF Together
    <2>6. e \in run
      BY <1>2, <2>3, <2>5 DEF RunOf
    <2>7. QED
      BY <2>1, <2>6 DEF Values
  <1>5. QED
    BY <1>2, <1>3, <1>4 DEF Qualifying

LEMMA PortOfValue ==
    ASSUME NEW s, IsSeries(s), NEW rule, NEW run, IsFiniteSet(run), Values(s, run) # {}
    PROVE  PortEvent(s, rule, run) = SparkEvent(s, rule, run)
  <1> DEFINE e == SparkEvent(s, rule, run)
  <1>1. e.total # Null
    BY TotalIsNat DEF SparkEvent, Null
  <1>2. e.accum # "null"
    BY DEF SparkEvent
  <1>3. e = [start |-> e.start, end |-> e.end, total |-> e.total, peak |-> e.peak,
             accum |-> e.accum]
    BY DEF SparkEvent
  <1>4. PortEvent(s, rule, run) = [e EXCEPT !.total = IF @ = Null THEN 0 ELSE @,
                                            !.accum = IF @ = "null" THEN "no" ELSE @]
    BY DEF PortEvent
  <1> HIDE DEF e
  <1>5. QED
    BY <1>1, <1>2, <1>3, <1>4 DEF e

LEMMA PortKeepsSpan ==
    ASSUME NEW s, NEW rule, NEW run
    PROVE  /\ PortEvent(s, rule, run).start = SparkEvent(s, rule, run).start
           /\ PortEvent(s, rule, run).end = SparkEvent(s, rule, run).end
  BY DEF PortEvent, SparkEvent

-----------------------------------------------------------------------------
(* Runs of two sets of days, one of which is what a window of a series shows of  *)
(* the other.                                                                    *)

AreDays(Q) == IsFiniteSet(Q) /\ \A q \in Q : q \in Nat

LEMMA DaysAreNat ==
    ASSUME NEW Q, AreDays(Q)
    PROVE  IsFiniteSet(Q) /\ Q \subseteq Nat
  BY DEF AreDays

\* No stretch of more than `gap' days between a and b is without a day of Q.
Linked(Q, gap, a, b) ==
    \A c \in a .. b - gap - 1 : \E q \in Q : c + 1 <= q /\ q <= c + gap + 1

LEMMA LinkedIsTogether ==
    ASSUME NEW Q, AreDays(Q), NEW gap \in Nat, NEW a \in Nat, NEW b \in Nat, a <= b
    PROVE  /\ Together(Q, gap, a, b) <=> Linked(Q, gap, a, b)
           /\ Together(Q, gap, b, a) <=> Linked(Q, gap, a, b)
  <1>1. Min({a, b}) = a /\ Max({a, b}) = b /\ Min({b, a}) = a /\ Max({b, a}) = b
    BY MinMaxOfPair
  <1>2. ASSUME NEW c \in a .. b - gap - 1
        PROVE  (c + 1 .. c + gap + 1) \intersect Q # {}
                 <=> \E q \in Q : c + 1 <= q /\ q <= c + gap + 1
    <2>1. c \in Int
      OBVIOUS
    <2>2. \A q \in Q : q \in c + 1 .. c + gap + 1 <=> c + 1 <= q /\ q <= c + gap + 1
      BY <2>1 DEF AreDays
    <2>3. QED
      BY <2>2
  <1>3. Together(Q, gap, a, b)
          <=> \A c \in a .. b - gap - 1 : (c + 1 .. c + gap + 1) \intersect Q # {}
    BY <1>1 DEF Together
  <1>4. Together(Q, gap, b, a)
          <=> \A c \in a .. b - gap - 1 : (c + 1 .. c + gap + 1) \intersect Q # {}
    BY <1>1 DEF Together
  <1>5. QED
    BY <1>2, <1>3, <1>4 DEF Linked

\* A run has a first and a last day, and is the run of each of its days.
LEMMA RunFacts ==
    ASSUME NEW Q, AreDays(Q), NEW gap \in Nat, NEW a \in Q
    PROVE  LET R == RunOf(Q, gap, a) IN
           /\ IsFiniteSet(R) /\ a \in R
           /\ \A b \in R : b \in Q /\ b \in Nat /\ RunOf(Q, gap, b) = R
           /\ Min(R) \in R /\ Max(R) \in R
           /\ \A b \in R : Min(R) <= b /\ b <= Max(R)
  <1> DEFINE R == RunOf(Q, gap, a)
  <1>1. \A x, y \in Q : /\ x \in RunOf(Q, gap, x)
                        /\ y \in RunOf(Q, gap, x) => RunOf(Q, gap, x) = RunOf(Q, gap, y)
    BY DaysAreNat, RunsOfDays
  <1>2. R \in SUBSET Q
    BY DEF RunOf
  <1>3. IsFiniteSet(R) /\ \A b \in R : b \in Q /\ b \in Nat
    BY <1>2, FS_Subset DEF AreDays
  <1>4. a \in R /\ \A b \in R : RunOf(Q, gap, b) = R
    BY <1>1, <1>2
  <1> HIDE DEF R
  <1>5. /\ \E e \in R : \A p \in R : e <= p
        /\ \E e \in R : \A p \in R : e >= p
    <2>1. \A x \in R : x \in Int
      BY <1>3
    <2>2. R # {}
      BY <1>4
    <2>3. QED
      BY <1>3, <2>1, <2>2, FirstAndLastOf
  <1>6. Min(R) \in R /\ \A b \in R : Min(R) <= b
    BY <1>5 DEF Min
  <1>7. Max(R) \in R /\ \A b \in R : Max(R) >= b
    BY <1>5 DEF Max
  <1>8. \A b \in R : b <= Max(R)
    <2>1. PICK m \in Int : m = Max(R)
      BY <1>3, <1>7
    <2>2. \A b \in R : b \in Int /\ m >= b
      BY <1>3, <1>7, <2>1
    <2>3. \A b \in Int : m >= b => b <= m
      BY <2>1
    <2>4. QED
      BY <2>1, <2>2, <2>3
  <1>9. QED
    BY <1>3, <1>4, <1>6, <1>7, <1>8 DEF R

\* Days of one run are linked, and linked days are of one run.
LEMMA RunIsLinked ==
    ASSUME NEW Q, AreDays(Q), NEW gap \in Nat, NEW a \in Q, NEW b \in Q, a <= b
    PROVE  /\ RunOf(Q, gap, a) = RunOf(Q, gap, b) <=> Linked(Q, gap, a, b)
           /\ b \in RunOf(Q, gap, a) <=> Linked(Q, gap, a, b)
           /\ a \in RunOf(Q, gap, b) <=> Linked(Q, gap, a, b)
  <1>1. a \in Nat /\ b \in Nat
    BY DEF AreDays
  <1>2. /\ Together(Q, gap, a, b) <=> Linked(Q, gap, a, b)
        /\ Together(Q, gap, b, a) <=> Linked(Q, gap, a, b)
    BY <1>1, LinkedIsTogether
  <1>3. \A x, y \in Q : /\ x \in RunOf(Q, gap, x)
                        /\ y \in RunOf(Q, gap, x) <=> Together(Q, gap, x, y)
                        /\ y \in RunOf(Q, gap, x) => RunOf(Q, gap, x) = RunOf(Q, gap, y)
    BY DaysAreNat, RunsOfDays
  <1>4. QED
    BY <1>2, <1>3

\* Two days with no more than `gap' days between them are of one run.
LEMMA NearDaysRun ==
    ASSUME NEW Q, AreDays(Q), NEW gap \in Nat, NEW a \in Q, NEW b \in Q, a <= b, b - a <= gap + 1
    PROVE  b \in RunOf(Q, gap, a) /\ a \in RunOf(Q, gap, b)
  <1>1. a \in Nat /\ b \in Nat
    BY DEF AreDays
  <1>2. ASSUME NEW c \in a .. b - gap - 1
        PROVE  c + 1 <= b /\ b <= c + gap + 1
    BY <1>1
  <1>3. Linked(Q, gap, a, b)
    BY <1>2 DEF Linked
  <1>4. QED
    BY <1>3, RunIsLinked

\* Whose spans meet are one run.
LEMMA SpansApart ==
    ASSUME NEW Q, AreDays(Q), NEW gap \in Nat, NEW a \in Q, NEW b \in Q,
           Min(RunOf(Q, gap, a)) <= Max(RunOf(Q, gap, b)),
           Min(RunOf(Q, gap, b)) <= Max(RunOf(Q, gap, a))
    PROVE  RunOf(Q, gap, a) = RunOf(Q, gap, b)
  <1> DEFINE n(x) == EventSeq(Q, gap, x)
             A == RunOf(Q, gap, a)
             B == RunOf(Q, gap, b)
  <1>1. \A x, y \in Q : Together(Q, gap, x, y) <=> n(x) = n(y)
    BY DaysAreNat, TogetherIsSameNumber
  <1>2. \A x, y \in Q : /\ y \in RunOf(Q, gap, x) <=> Together(Q, gap, x, y)
                        /\ y \in RunOf(Q, gap, x) => RunOf(Q, gap, x) = RunOf(Q, gap, y)
    BY DaysAreNat, RunsOfDays
  <1>3. ASSUME NEW x \in Q, NEW y \in Q, x <= y
        PROVE  n(x) \in Nat /\ n(x) <= n(y)
    <2>1. x \in Nat /\ y \in Nat /\ \A e \in Q : e \in Nat
      BY DEF AreDays
    <2>2. \A e \in Q : e <= x => e <= y
      BY <1>3, <2>1
    <2>3. Opened(Q, gap, x) \in SUBSET Opened(Q, gap, y)
      BY <2>2 DEF Opened
    <2>4. IsFiniteSet(Opened(Q, gap, y)) /\ IsFiniteSet(Opened(Q, gap, x))
      BY DaysAreNat, OpenedIsFinite
    <2>5. /\ Cardinality(Opened(Q, gap, x)) \in Nat
          /\ Cardinality(Opened(Q, gap, x)) <= Cardinality(Opened(Q, gap, y))
      BY <2>3, <2>4, FS_Subset, FS_CardinalityType
    <2>6. QED
      BY <2>5 DEF EventSeq, Opened
  <1> HIDE DEF n
  <1>4. /\ Min(A) \in A /\ Max(A) \in A /\ \A x \in A : x \in Q
        /\ Min(B) \in B /\ Max(B) \in B /\ \A x \in B : x \in Q
    BY RunFacts
  <1>5. n(Min(A)) = n(a) /\ n(Max(A)) = n(a) /\ n(Min(B)) = n(b) /\ n(Max(B)) = n(b)
    BY <1>1, <1>2, <1>4
  <1>6. n(Min(A)) <= n(Max(B)) /\ n(Min(B)) <= n(Max(A))
    BY <1>3, <1>4
  <1>7. n(a) \in Nat /\ n(b) \in Nat
    BY <1>3, <1>4, <1>5, DaysAreNat
  <1>8. n(a) = n(b)
    BY <1>5, <1>6, <1>7
  <1>9. QED
    BY <1>1, <1>2, <1>8

\* Q shows of the days P, up to hi, all from warm on and possibly earlier ones.
SeenFrom(Q, P, warm, hi) ==
    /\ \A q \in Q : q \in P /\ q <= hi
    /\ \A p \in P : warm <= p /\ p <= hi => p \in Q

\* More days make longer runs.
LEMMA RunsGrow ==
    ASSUME NEW Q, AreDays(Q), NEW P, AreDays(P), \A q \in Q : q \in P,
           NEW gap \in Nat, NEW a \in Q, NEW b \in RunOf(Q, gap, a)
    PROVE  b \in RunOf(P, gap, a)
  <1>1. a \in Q /\ b \in Q /\ a \in P /\ b \in P /\ a \in Nat /\ b \in Nat
    BY DEF RunOf, AreDays
  <1>2. CASE a <= b
    <2>1. Linked(Q, gap, a, b)
      BY <1>1, <1>2, RunIsLinked
    <2>2. Linked(P, gap, a, b)
      BY <2>1 DEF Linked
    <2>3. QED
      BY <1>1, <1>2, <2>2, RunIsLinked
  <1>3. CASE b <= a
    <2>1. Linked(Q, gap, b, a)
      BY <1>1, <1>3, RunIsLinked
    <2>2. Linked(P, gap, b, a)
      BY <2>1 DEF Linked
    <2>3. QED
      BY <1>1, <1>3, <2>2, RunIsLinked
  <1>4. QED
    BY <1>1, <1>2, <1>3

LEMMA SeenLinks ==
    ASSUME NEW Q, AreDays(Q), NEW P, AreDays(P), NEW warm \in Int, NEW hi \in Int,
           SeenFrom(Q, P, warm, hi), NEW gap \in Nat,
           NEW a \in Nat, NEW b \in Nat, a <= b, warm <= a, b <= hi, Linked(P, gap, a, b)
    PROVE  Linked(Q, gap, a, b)
  <1>1. ASSUME NEW c \in a .. b - gap - 1
        PROVE  \E q \in Q : c + 1 <= q /\ q <= c + gap + 1
    <2>1. PICK p \in P : c + 1 <= p /\ p <= c + gap + 1
      BY DEF Linked
    <2>2. p \in Nat /\ c \in Int
      BY DEF AreDays
    <2>3. warm <= p /\ p <= hi
      BY <2>1, <2>2
    <2>4. QED
      BY <2>1, <2>3 DEF SeenFrom
  <1>2. QED
    BY <1>1 DEF Linked

\* A run that lies in what is shown in full is shown as it is.
LEMMA RunIsSeen ==
    ASSUME NEW Q, AreDays(Q), NEW P, AreDays(P), NEW warm \in Int, NEW hi \in Int,
           SeenFrom(Q, P, warm, hi), NEW gap \in Nat, NEW a \in P,
           warm <= Min(RunOf(P, gap, a)), Max(RunOf(P, gap, a)) <= hi
    PROVE  a \in Q /\ RunOf(Q, gap, a) = RunOf(P, gap, a)
  <1> DEFINE R == RunOf(P, gap, a)
  <1>1. /\ a \in R /\ \A b \in R : b \in P /\ b \in Nat
        /\ Min(R) \in R /\ Max(R) \in R
        /\ \A b \in R : Min(R) <= b /\ b <= Max(R)
    BY RunFacts
  <1>2. PICK first \in Nat, last \in Nat : first = Min(R) /\ last = Max(R)
    BY <1>1
  <1>3. \A b \in R : warm <= b /\ b <= hi
    <2>1. \A b \in Nat : first <= b /\ b <= last => warm <= b /\ b <= hi
      BY <1>2
    <2>2. QED
      BY <1>1, <1>2, <2>1
  <1> HIDE DEF R
  <1>4. \A b \in R : b \in Q
    BY <1>1, <1>3 DEF SeenFrom
  <1>5. ASSUME NEW b \in R PROVE b \in RunOf(Q, gap, a)
    <2>1. a \in Q /\ b \in Q /\ a \in P /\ b \in P /\ a \in Nat /\ b \in Nat
      BY <1>1, <1>4
    <2>2. CASE a <= b
      <3>1. Linked(P, gap, a, b)
        BY <2>1, <2>2, RunIsLinked DEF R
      <3>2. Linked(Q, gap, a, b)
        BY <1>1, <1>3, <2>1, <2>2, <3>1, SeenLinks
      <3>3. QED
        BY <2>1, <2>2, <3>2, RunIsLinked
    <2>3. CASE b <= a
      <3>1. Linked(P, gap, b, a)
        BY <2>1, <2>3, RunIsLinked DEF R
      <3>2. Linked(Q, gap, b, a)
        BY <1>1, <1>3, <2>1, <2>3, <3>1, SeenLinks
      <3>3. QED
        BY <2>1, <2>3, <3>2, RunIsLinked
    <2>4. QED
      BY <2>1, <2>2, <2>3
  <1>6. a \in Q /\ \A q \in Q : q \in P
    BY <1>1, <1>4 DEF SeenFrom
  <1>7. \A b \in RunOf(Q, gap, a) : b \in R
    BY <1>6, RunsGrow DEF R
  <1>8. QED
    BY <1>5, <1>6, <1>7 DEF R

\* Far enough from where the days begin to be shown, a run begins where it does.
LEMMA SameFirstDay ==
    ASSUME NEW Q, AreDays(Q), NEW P, AreDays(P), NEW warm \in Int, NEW hi \in Int,
           SeenFrom(Q, P, warm, hi), NEW gap \in Nat, NEW a \in Q,
           warm <= Min(RunOf(Q, gap, a)),
           \/ \A p \in P : warm <= p
           \/ warm + gap + 1 <= Min(RunOf(Q, gap, a))
    PROVE  Min(RunOf(P, gap, a)) = Min(RunOf(Q, gap, a))
  <1> DEFINE R == RunOf(Q, gap, a)
             S == RunOf(P, gap, a)
  <1>1. a \in P /\ \A q \in Q : q \in P /\ q <= hi
    BY DEF SeenFrom
  <1>2. /\ Min(R) \in R /\ \A b \in R : b \in Q /\ b \in Nat /\ RunOf(Q, gap, b) = R /\ Min(R) <= b
    BY RunFacts
  <1>3. /\ Min(S) \in S /\ \A b \in S : b \in P /\ b \in Nat /\ RunOf(P, gap, b) = S /\ Min(S) <= b
    BY <1>1, RunFacts
  <1>4. PICK m \in R : m = Min(R)
    BY <1>2
  <1>5. PICK b \in S : b = Min(S)
    BY <1>3
  <1>6. m \in Q /\ m \in P /\ m \in Nat /\ b \in P /\ b \in Nat /\ m <= hi /\ warm <= m
    BY <1>1, <1>2, <1>3, <1>4, <1>5
  <1>7. m \in S
    BY <1>1, <1>4, RunsGrow
  <1>8. b <= m
    BY <1>3, <1>5, <1>7
  <1>9. RunOf(P, gap, b) = S /\ RunOf(P, gap, m) = S /\ RunOf(Q, gap, m) = R
    BY <1>2, <1>3, <1>4, <1>5, <1>7
  <1>10. \A q \in R : m <= q
    BY <1>2, <1>4
  <1>11. warm + gap + 1 <= m \/ \A p \in P : warm <= p
    BY <1>4
  <1> HIDE DEF R, S
  <1>12. ASSUME b < m PROVE FALSE
    <2>1. Linked(P, gap, b, m)
      BY <1>6, <1>8, <1>9, RunIsLinked
    <2>2. CASE warm <= b
      <3>1. b \in Q
        <4>1. b <= hi
          BY <1>6, <1>8
        <4>2. QED
          BY <1>6, <2>2, <4>1 DEF SeenFrom
      <3>2. Linked(Q, gap, b, m)
        BY <1>6, <1>8, <2>1, <2>2, SeenLinks
      <3>3. b \in RunOf(Q, gap, m)
        BY <1>6, <1>8, <3>1, <3>2, RunIsLinked
      <3>4. m <= b
        BY <1>9, <1>10, <3>3
      <3>5. QED
        BY <1>6, <1>12, <3>4
    <2>3. CASE b < warm
      <3>1. warm + gap + 1 <= m
        <4>1. ~ (warm <= b)
          BY <1>6, <2>3
        <4>2. QED
          BY <1>6, <1>11, <4>1
      <3>2. m - gap - 2 \in b .. m - gap - 1
        BY <1>6, <2>3, <3>1
      <3>3. PICK p \in P : (m - gap - 2) + 1 <= p /\ p <= (m - gap - 2) + gap + 1
        BY <2>1, <3>2 DEF Linked
      <3>4. p \in Nat
        BY DEF AreDays
      <3>5. warm <= p /\ p <= hi /\ p < m /\ p <= m /\ m - p <= gap + 1
        BY <1>6, <3>1, <3>3, <3>4
      <3>6. p \in Q
        BY <3>5 DEF SeenFrom
      <3>7. p \in RunOf(Q, gap, m)
        BY <1>6, <3>5, <3>6, NearDaysRun
      <3>8. m <= p
        BY <1>9, <1>10, <3>7
      <3>9. QED
        BY <1>6, <3>4, <3>5, <3>8
    <2>4. QED
      BY <1>6, <2>2, <2>3
  <1>13. b = m
    BY <1>6, <1>8, <1>12
  <1>14. QED
    BY <1>4, <1>5, <1>13 DEF R, S

\* Far enough from where the days end to be shown, a run ends where it does.
LEMMA SameLastDay ==
    ASSUME NEW Q, AreDays(Q), NEW P, AreDays(P), NEW warm \in Int, NEW hi \in Int,
           SeenFrom(Q, P, warm, hi), NEW gap \in Nat, NEW a \in Q,
           warm <= Min(RunOf(Q, gap, a)), Max(RunOf(Q, gap, a)) <= hi - gap - 1
    PROVE  Max(RunOf(P, gap, a)) = Max(RunOf(Q, gap, a))
  <1> DEFINE R == RunOf(Q, gap, a)
             S == RunOf(P, gap, a)
  <1>1. a \in P /\ \A q \in Q : q \in P /\ q <= hi
    BY DEF SeenFrom
  <1>2. /\ Min(R) \in R /\ Max(R) \in R
        /\ \A b \in R : b \in Q /\ b \in Nat /\ RunOf(Q, gap, b) = R /\ Min(R) <= b /\ b <= Max(R)
    BY RunFacts
  <1>3. /\ Max(S) \in S
        /\ \A b \in S : b \in P /\ b \in Nat /\ RunOf(P, gap, b) = S /\ b <= Max(S)
    BY <1>1, RunFacts
  <1>4. PICK m \in R : m = Max(R)
    BY <1>2
  <1>5. PICK b \in S : b = Max(S)
    BY <1>3
  <1>6. /\ m \in Q /\ m \in P /\ m \in Nat /\ b \in P /\ b \in Nat
        /\ m <= hi - gap - 1
    BY <1>1, <1>2, <1>3, <1>4, <1>5
  <1>7. m \in S
    BY <1>1, <1>4, RunsGrow
  <1>8. m <= b
    BY <1>3, <1>5, <1>7
  <1>9. RunOf(P, gap, b) = S /\ RunOf(P, gap, m) = S /\ RunOf(Q, gap, m) = R
    BY <1>2, <1>3, <1>4, <1>5, <1>7
  <1>10. \A q \in R : q <= m
    BY <1>2, <1>4
  <1>11. warm <= m
    <2>1. PICK first \in Nat : first = Min(R)
      BY <1>2
    <2>2. first <= m /\ warm <= first
      BY <1>2, <1>4, <2>1
    <2>3. QED
      BY <1>6, <2>1, <2>2
  <1> HIDE DEF R, S
  <1>12. ASSUME m < b PROVE FALSE
    <2>1. Linked(P, gap, m, b)
      BY <1>6, <1>8, <1>9, RunIsLinked
    <2>2. PICK p \in P : m < p /\ p <= m + gap + 1
      <3>1. CASE b <= m + gap + 1
        BY <1>6, <1>12, <3>1
      <3>2. CASE b > m + gap + 1
        <4>1. m \in m .. b - gap - 1
          BY <1>6, <3>2
        <4>2. PICK p \in P : m + 1 <= p /\ p <= m + gap + 1
          BY <2>1, <4>1 DEF Linked
        <4>3. p \in Nat
          BY DEF AreDays
        <4>4. QED
          BY <1>6, <4>2, <4>3
      <3>3. QED
        BY <1>6, <3>1, <3>2
    <2>3. p \in Nat
      BY DEF AreDays
    <2>4. warm <= p /\ p <= hi /\ m <= p /\ p - m <= gap + 1
      BY <1>6, <1>11, <2>2, <2>3
    <2>5. p \in Q
      BY <2>4 DEF SeenFrom
    <2>6. p \in RunOf(Q, gap, m)
      BY <1>6, <2>4, <2>5, NearDaysRun
    <2>7. p <= m
      BY <1>9, <1>10, <2>6
    <2>8. QED
      BY <1>6, <2>2, <2>3, <2>7
  <1>13. b = m
    BY <1>6, <1>8, <1>12
  <1>14. QED
    BY <1>4, <1>5, <1>13 DEF R, S

\* A run shown away from both ends is a run.
LEMMA SeenIsRun ==
    ASSUME NEW Q, AreDays(Q), NEW P, AreDays(P), NEW warm \in Int, NEW hi \in Int,
           SeenFrom(Q, P, warm, hi), NEW gap \in Nat, NEW a \in Q,
           warm <= Min(RunOf(Q, gap, a)),
           \/ \A p \in P : warm <= p
           \/ warm + gap + 1 <= Min(RunOf(Q, gap, a)),
           Max(RunOf(Q, gap, a)) <= hi - gap - 1
    PROVE  a \in P /\ RunOf(P, gap, a) = RunOf(Q, gap, a)
  <1>1. a \in P
    BY DEF SeenFrom
  <1>2. /\ Min(RunOf(P, gap, a)) = Min(RunOf(Q, gap, a))
        /\ Max(RunOf(P, gap, a)) = Max(RunOf(Q, gap, a))
    BY SameFirstDay, SameLastDay
  <1>3. PICK last \in Nat : last = Max(RunOf(Q, gap, a))
    BY RunFacts
  <1>4. last <= hi
    BY <1>3
  <1>5. QED
    BY <1>1, <1>2, <1>3, <1>4, RunIsSeen

-----------------------------------------------------------------------------
(* A window of a series: the days lo .. hi of it, none of which is a hole.       *)

IsWindow(s, w, lo, hi) ==
    /\ IsSeries(s) /\ IsSeries(w) /\ lo \in Nat /\ hi \in Nat /\ lo <= hi
    /\ DOMAIN w = lo .. hi
    /\ \A d \in lo .. hi : d \in DOMAIN s /\ w[d] = s[d]

\* The first day whose trailing window is as full in w as it is in s.
WarmDay(s, rule, lo) ==
    IF lo = Min(DOMAIN s) \/ rule.window = 0 THEN lo ELSE lo + rule.window - 1

LEMMA WindowSnow ==
    ASSUME NEW s, NEW w, NEW lo, NEW hi, IsWindow(s, w, lo, hi), NEW d
    PROVE  /\ d \in lo .. hi => Snow(w, d) = Snow(s, d)
           /\ d \notin lo .. hi => Snow(w, d) = 0
  BY DEF IsWindow, Snow

LEMMA TotalCongruence ==
    ASSUME NEW s, IsSeries(s), NEW w, IsSeries(w), NEW D, IsFiniteSet(D),
           \A d \in D : Snow(w, d) = Snow(s, d)
    PROVE  Total(w, D) = Total(s, D)
  <1>1. [d \in D |-> Snow(w, d)] = [d \in D |-> Snow(s, d)]
    OBVIOUS
  <1>2. QED
    BY <1>1, TotalIsSum

LEMMA WindowTotal ==
    ASSUME NEW s, NEW w, NEW lo, NEW hi, IsWindow(s, w, lo, hi), NEW D, IsFiniteSet(D)
    PROVE  /\ Total(w, D) \in Nat /\ Total(s, D) \in Nat /\ Total(w, D) <= Total(s, D)
           /\ (\A d \in D : d \notin lo .. hi => Snow(s, d) = 0) => Total(w, D) = Total(s, D)
  <1> DEFINE E == D \intersect (lo .. hi)
  <1>1. IsSeries(s) /\ IsSeries(w)
    BY DEF IsWindow
  <1>2. \A d \in D : /\ d \in lo .. hi => d \in E /\ Snow(w, d) = Snow(s, d)
                     /\ d \notin lo .. hi => Snow(w, d) = 0
    BY WindowSnow
  <1>3. IsFiniteSet(E) /\ \A d \in E : d \in D /\ d \in lo .. hi
    BY FS_Subset
  <1> HIDE DEF E
  <1>4. Total(w, D) <= Total(w, E)
    BY <1>1, <1>2, <1>3, TotalIsMonotonic
  <1>5. Total(w, E) = Total(s, E)
    BY <1>1, <1>2, <1>3, TotalCongruence
  <1>6. Total(s, E) <= Total(s, D)
    BY <1>1, <1>3, TotalIsMonotonic
  <1>7. Total(w, D) \in Nat /\ Total(s, D) \in Nat /\ Total(s, E) \in Nat
    BY <1>1, <1>3, TotalIsNat
  <1>8. Total(w, D) <= Total(s, D)
    BY <1>4, <1>5, <1>6, <1>7
  <1>9. ASSUME \A d \in D : d \notin lo .. hi => Snow(s, d) = 0
        PROVE  Total(w, D) = Total(s, D)
    <2>1. \A d \in D : Snow(w, d) = Snow(s, d)
      BY <1>2, <1>9
    <2>2. QED
      BY <1>1, <2>1, TotalCongruence
  <1>10. QED
    BY <1>7, <1>8, <1>9

LEMMA TrailingDays ==
    ASSUME NEW d \in Nat, NEW n \in Nat
    PROVE  /\ IsFiniteSet(d - n + 1 .. d)
           /\ \A e \in d - n + 1 .. d : e \in Int /\ d - n + 1 <= e /\ e <= d
  BY FS_Interval

\* A window shows of the qualifying days those from its warm day on, and no other
\* day qualifies in it.
LEMMA WindowQualifies ==
    ASSUME NEW s, NEW w, NEW lo, NEW hi, IsWindow(s, w, lo, hi), NEW rule, IsRule(rule)
    PROVE  /\ AreDays(Qualifying(w, rule)) /\ AreDays(Qualifying(s, rule))
           /\ WarmDay(s, rule, lo) \in Nat /\ lo <= WarmDay(s, rule, lo)
           /\ SeenFrom(Qualifying(w, rule), Qualifying(s, rule), WarmDay(s, rule, lo), hi)
           /\ \A q \in Qualifying(w, rule) : q \in lo .. hi
  <1> DEFINE Q == Qualifying(w, rule)
             P == Qualifying(s, rule)
             warm == WarmDay(s, rule, lo)
             W(d) == d - rule.window + 1 .. d
  <1>1. /\ IsSeries(s) /\ IsSeries(w) /\ lo \in Nat /\ hi \in Nat /\ lo <= hi
        /\ DOMAIN w = lo .. hi
        /\ \A d \in lo .. hi : d \in DOMAIN s /\ w[d] = s[d]
    BY DEF IsWindow
  <1>2. rule.window \in Nat /\ rule.accum \in Nat
    BY DEF IsRule
  <1>3. AreDays(Q) /\ AreDays(P)
    BY <1>1, QualifyingDays DEF AreDays
  <1>4. warm \in Nat /\ lo <= warm
    <2>1. CASE lo = Min(DOMAIN s) \/ rule.window = 0
      BY <1>1, <2>1 DEF WarmDay
    <2>2. CASE ~ (lo = Min(DOMAIN s) \/ rule.window = 0)
      <3>1. warm = lo + rule.window - 1
        BY <2>2 DEF WarmDay
      <3> HIDE DEF warm
      <3>2. QED
        BY <1>1, <1>2, <2>2, <3>1
    <2>3. QED
      BY <2>1, <2>2
  <1>5. \A d \in Nat : d \in lo .. hi <=> lo <= d /\ d <= hi
    BY <1>1
  <1>6. ASSUME NEW d \in lo .. hi, RollingHit(w, rule, d) PROVE RollingHit(s, rule, d)
    <2>1. d \in Nat /\ rule.window > 0 /\ Total(w, W(d)) >= rule.accum
      BY <1>1, <1>6 DEF RollingHit
    <2>2. IsFiniteSet(W(d))
      BY <1>2, <2>1, TrailingDays
    <2>3. Total(w, W(d)) \in Nat /\ Total(s, W(d)) \in Nat /\ Total(w, W(d)) <= Total(s, W(d))
      BY <2>2, WindowTotal
    <2>4. Total(s, W(d)) >= rule.accum
      <3> HIDE DEF W
      <3>1. QED
        BY <1>2, <2>1, <2>3
    <2>5. QED
      BY <2>1, <2>4 DEF RollingHit
  <1>7. ASSUME NEW q \in Q PROVE q \in lo .. hi /\ q \in P /\ q <= hi
    <2>1. q \in lo .. hi /\ (SingleHit(w, rule, q) \/ RollingHit(w, rule, q))
      BY <1>1 DEF Qualifying
    <2>2. q \in DOMAIN s /\ w[q] = s[q] /\ q <= hi
      BY <1>1, <2>1
    <2>3. QED
      BY <1>6, <2>1, <2>2 DEF Qualifying, SingleHit
  <1>8. ASSUME NEW p \in P, warm <= p, p <= hi PROVE p \in Q
    <2>1. p \in Nat /\ p \in DOMAIN s /\ (SingleHit(s, rule, p) \/ RollingHit(s, rule, p))
      BY <1>3 DEF Qualifying, AreDays
    <2>2. lo <= p
      <3> HIDE DEF warm
      <3>1. QED
        BY <1>1, <1>4, <1>8, <2>1
    <2>3. p \in lo .. hi /\ p \in DOMAIN w /\ w[p] = s[p]
      BY <1>1, <1>5, <1>8, <2>1, <2>2
    <2>4. ASSUME RollingHit(s, rule, p) PROVE RollingHit(w, rule, p)
      <3>1. rule.window > 0 /\ Total(s, W(p)) >= rule.accum
        BY <2>4 DEF RollingHit
      <3>2. /\ IsFiniteSet(W(p))
            /\ \A d \in W(p) : d \in Int /\ p - rule.window + 1 <= d /\ d <= p
        BY <1>2, <2>1, TrailingDays
      <3>3. ASSUME NEW d \in W(p), d \notin lo .. hi PROVE Snow(s, d) = 0
        <4>1. d \in Int /\ d <= hi /\ p - rule.window + 1 <= d
          <5> HIDE DEF W
          <5>1. QED
            BY <1>1, <1>8, <2>1, <3>2
        <4>2. d < lo
          BY <1>1, <3>3, <4>1
        <4>3. lo = Min(DOMAIN s)
          <5>1. ASSUME lo # Min(DOMAIN s) PROVE FALSE
            <6>1. rule.window # 0
              BY <1>2, <3>1
            <6>2. warm = lo + rule.window - 1
              BY <5>1, <6>1 DEF WarmDay
            <6> HIDE DEF warm
            <6>3. lo + rule.window - 1 <= p
              BY <1>8, <6>2
            <6>4. QED
              BY <1>1, <1>2, <2>1, <4>1, <4>2, <6>3
          <5>2. QED
            BY <5>1
        <4>4. d \notin DOMAIN s
          <5>1. lo \in DOMAIN s /\ \A e \in DOMAIN s : e \in Int
            BY <1>1, <1>5 DEF IsSeries
          <5>2. IsFiniteSet(DOMAIN s)
            BY <1>1 DEF IsSeries
          <5>3. \E e \in DOMAIN s : \A f \in DOMAIN s : e <= f
            BY <5>1, <5>2, FirstAndLastOf
          <5>4. \A f \in DOMAIN s : lo <= f
            BY <4>3, <5>3 DEF Min
          <5>5. ~ (lo <= d)
            BY <1>1, <4>1, <4>2
          <5>6. QED
            BY <5>4, <5>5
        <4>5. QED
          BY <4>4 DEF Snow
      <3>4. Total(w, W(p)) = Total(s, W(p))
        <4>1. PICK D : D = W(p)
          OBVIOUS
        <4>2. IsFiniteSet(D) /\ \A d \in D : d \notin lo .. hi => Snow(s, d) = 0
          BY <3>2, <3>3, <4>1
        <4>3. Total(w, D) = Total(s, D)
          BY <4>2, WindowTotal
        <4>4. QED
          BY <4>1, <4>3
      <3>5. QED
        BY <3>1, <3>4 DEF RollingHit
    <2>5. QED
      BY <2>1, <2>3, <2>4 DEF Qualifying, SingleHit
  <1>9. SeenFrom(Q, P, warm, hi)
    BY <1>7, <1>8 DEF SeenFrom
  <1>10. QED
    BY <1>3, <1>4, <1>7, <1>9

\* A run within the window has the same attributes there.
LEMMA WindowEvent ==
    ASSUME NEW s, NEW w, NEW lo, NEW hi, IsWindow(s, w, lo, hi), NEW rule, NEW run,
           IsFiniteSet(run), \A d \in run : d \in lo .. hi
    PROVE  SparkEvent(w, rule, run) = SparkEvent(s, rule, run)
  <1>1. \A d \in run : w[d] = s[d]
    BY DEF IsWindow
  <1>2. Values(w, run) = Values(s, run)
    BY <1>1 DEF Values
  <1>3. {w[d] : d \in Values(w, run)} = {s[d] : d \in Values(s, run)}
    BY <1>1, <1>2 DEF Values
  <1>4. Peak(w, run) = Peak(s, run)
    BY <1>3 DEF Peak
  <1>5. Total(w, run) = Total(s, run)
    BY WindowTotal
  <1>6. QED
    BY <1>2, <1>4, <1>5 DEF SparkEvent

\* The events of a window are those of its runs, as the Silver job reports them.
LEMMA WindowEvents ==
    ASSUME NEW s, NEW w, NEW lo, NEW hi, IsWindow(s, w, lo, hi), NEW rule, IsRule(rule)
    PROVE  /\ PortEvents(w, rule) = {SparkEvent(s, rule, RunOf(Qualifying(w, rule), rule.gap, a)) :
                                        a \in Qualifying(w, rule)}
           /\ SparkEvents(s, rule) = {SparkEvent(s, rule, RunOf(Qualifying(s, rule), rule.gap, a)) :
                                        a \in Qualifying(s, rule)}
  <1> DEFINE Q == Qualifying(w, rule)
             P == Qualifying(s, rule)
             gap == rule.gap
  <1>1. /\ AreDays(Q) /\ AreDays(P) /\ \A q \in Q : q \in lo .. hi
    BY WindowQualifies
  <1>2. IsSeries(w) /\ IsSeries(s) /\ Contiguous(w)
    <2>1. lo \in Nat /\ hi \in Nat /\ DOMAIN w = lo .. hi
      BY DEF IsWindow
    <2>2. \A a, b \in lo .. hi : \A c \in a .. b : c \in lo .. hi
      BY <2>1
    <2>3. QED
      BY <2>1, <2>2 DEF IsWindow, Contiguous
  <1>3. gap \in Nat
    BY DEF IsRule
  <1>4. CutRuns(Q, gap) = MaximalRuns(Q, gap) /\ SparkRuns(P, gap) = MaximalRuns(P, gap)
    <2> HIDE DEF Q, P, gap
    <2>1. CutRuns(Q, gap) = MaximalRuns(Q, gap)
      BY <1>1, <1>3, WalkFindsMaximalRuns DEF AreDays
    <2>2. P \subseteq Nat /\ IsFiniteSet(P)
      BY <1>1, DaysAreNat
    <2>3. QED
      BY <1>3, <2>1, <2>2, RunningCountFindsMaximalRuns
  <1>5. /\ MaximalRuns(Q, gap) = {RunOf(Q, gap, a) : a \in Q}
        /\ MaximalRuns(P, gap) = {RunOf(P, gap, a) : a \in P}
    BY DEF MaximalRuns, RunOf
  <1>6. ASSUME NEW run \in MaximalRuns(Q, gap)
        PROVE  PortEvent(w, rule, run) = SparkEvent(s, rule, run)
    <2>1. Values(w, run) # {}
      BY <1>2, RunHoldsValue
    <2>2. run \in SUBSET Q
      BY DEF MaximalRuns
    <2>3. IsFiniteSet(run) /\ \A d \in run : d \in lo .. hi
      BY <1>1, <2>2, FS_Subset DEF AreDays
    <2>4. PortEvent(w, rule, run) = SparkEvent(w, rule, run)
      BY <1>2, <2>1, <2>3, PortOfValue
    <2>5. SparkEvent(w, rule, run) = SparkEvent(s, rule, run)
      BY <2>3, WindowEvent
    <2>6. QED
      BY <2>4, <2>5
  <1>7. PortEvents(w, rule) = {PortEvent(w, rule, run) : run \in MaximalRuns(Q, gap)}
    BY <1>4 DEF PortEvents
  <1>8. SparkEvents(s, rule) = {SparkEvent(s, rule, run) : run \in MaximalRuns(P, gap)}
    BY <1>4 DEF SparkEvents
  <1> HIDE DEF Q, P, gap
  <1>9. /\ PortEvents(w, rule) = {SparkEvent(s, rule, RunOf(Q, gap, a)) : a \in Q}
        /\ SparkEvents(s, rule) = {SparkEvent(s, rule, RunOf(P, gap, a)) : a \in P}
    BY <1>5, <1>6, <1>7, <1>8
  <1>10. QED
    BY <1>9 DEF Q, P, gap

-----------------------------------------------------------------------------
(* The probe: a series that lacks rows, and a rounding.                          *)

\* Rounding finds a grain, and one within half a grain.
LEMMA RoundedIsNear ==
    ASSUME NEW x \in Nat
    PROVE  /\ Rounded(x) # {}
           /\ \A y \in Rounded(x) : y \in Nat /\ Near(y, x)
  <1> DEFINE S == {q \in Nat : 2 * (Grain * q) >= 2 * x - Grain}
  <1>1. Grain \in Nat /\ Grain > 0
    BY GrainAssumption
  <1>2. \A q \in Nat : Grain * q \in Nat
    BY <1>1
  <1>3. x \in S
    <2>1. Grain * x >= x
      BY <1>1
    <2>2. QED
      BY <1>1, <1>2, <2>1
  <1>4. PICK q \in S : \A r \in S : q <= r
    <2>1. S \subseteq Nat /\ S # {}
      BY <1>3
    <2> HIDE DEF S
    <2>2. QED
      BY <2>1, FirstOf
  <1>5. q \in 0 .. x /\ 2 * (Grain * q) >= 2 * x - Grain
    BY <1>3, <1>4
  <1>6. 2 * (Grain * q) <= 2 * x + Grain
    <2>1. CASE q = 0
      BY <1>1, <2>1
    <2>2. CASE q > 0
      <3>1. q - 1 \in Nat /\ q - 1 \notin S
        <4>1. q - 1 \in Nat /\ ~ (q <= q - 1)
          BY <1>5, <2>2
        <4> HIDE DEF S
        <4>2. QED
          BY <1>4, <4>1
      <3>2. 2 * (Grain * (q - 1)) < 2 * x - Grain
        BY <1>1, <1>2, <3>1
      <3>3. Grain * (q - 1) = Grain * q - Grain
        BY <1>1, <1>5
      <3>4. QED
        BY <1>1, <1>2, <1>5, <3>2, <3>3
    <2>3. QED
      BY <1>5, <2>1, <2>2
  <1>7. PICK y \in Nat : y = Grain * q
    BY <1>2, <1>5
  <1>8. 2 * (y - x) \in -Grain .. Grain
    <2>1. 2 * y >= 2 * x - Grain /\ 2 * y <= 2 * x + Grain
      BY <1>5, <1>6, <1>7
    <2>2. QED
      BY <1>1, <2>1
  <1>9. y \in Rounded(x)
    BY <1>5, <1>7, <1>8 DEF Rounded
  <1>10. ASSUME NEW z \in Rounded(x) PROVE z \in Nat /\ Near(z, x)
    BY <1>2 DEF Rounded, Near
  <1>11. QED
    BY <1>9, <1>10

LEMMA ProbeSeriesFacts ==
    ASSUME NEW s, IsSeries(s)
    PROVE  LET p == ProbeSeries(s) IN
           /\ IsSeries(p)
           /\ \A d \in DOMAIN p : d \in DOMAIN s /\ p[d] = s[d] /\ s[d] \in Nat /\ s[d] # Null
  <1> DEFINE p == ProbeSeries(s)
             D == {e \in DOMAIN s : e \in Winter /\ s[e] # Null}
  <1>1. p = [d \in D |-> s[d]]
    BY DEF ProbeSeries
  <1>2. DOMAIN p = D /\ \A d \in D : p[d] = s[d]
    BY <1>1
  <1>3. p = [d \in DOMAIN p |-> p[d]]
    BY <1>1
  <1>4. D \in SUBSET (DOMAIN s) /\ IsFiniteSet(D)
    BY FS_Subset DEF IsSeries
  <1>5. \A d \in D : d \in Nat /\ s[d] \in Nat /\ s[d] # Null
    BY DEF IsSeries
  <1> HIDE DEF p, D
  <1>6. QED
    BY <1>2, <1>3, <1>4, <1>5 DEF p, IsSeries

\* What the probe adds up: no more than the job does, and as much where it has
\* every row.
LEMMA ProbeTotal ==
    ASSUME NEW s, IsSeries(s), NEW D, IsFiniteSet(D)
    PROVE  LET p == ProbeSeries(s) IN
           /\ Total(p, D) \in Nat /\ Total(s, D) \in Nat /\ Total(p, D) <= Total(s, D)
           /\ DOMAIN s \intersect D \subseteq DOMAIN p => Total(p, D) = Total(s, D)
  <1> DEFINE p == ProbeSeries(s)
             E == D \intersect DOMAIN p
  <1>1. IsSeries(p) /\ \A d \in DOMAIN p : d \in DOMAIN s /\ p[d] = s[d]
    BY ProbeSeriesFacts
  <1> HIDE DEF p
  <1>2. \A d : /\ d \in DOMAIN p => Snow(p, d) = Snow(s, d)
               /\ d \notin DOMAIN p => Snow(p, d) = 0
               /\ d \notin DOMAIN s => Snow(s, d) = 0
    BY <1>1 DEF Snow
  <1>3. IsFiniteSet(E) /\ \A d \in E : d \in D /\ d \in DOMAIN p
    BY FS_Subset
  <1>4. \A d \in D : Snow(p, d) # 0 => d \in E
    BY <1>2
  <1> HIDE DEF E
  <1>5. Total(p, D) <= Total(p, E)
    BY <1>1, <1>3, <1>4, TotalIsMonotonic
  <1>6. Total(p, E) = Total(s, E)
    BY <1>1, <1>2, <1>3, TotalCongruence
  <1>7. Total(s, E) <= Total(s, D)
    BY <1>3, TotalIsMonotonic
  <1>8. Total(p, D) \in Nat /\ Total(s, D) \in Nat /\ Total(s, E) \in Nat
    BY <1>1, <1>3, TotalIsNat
  <1>9. Total(p, D) <= Total(s, D)
    BY <1>5, <1>6, <1>7, <1>8
  <1>10. ASSUME DOMAIN s \intersect D \subseteq DOMAIN p
         PROVE  Total(p, D) = Total(s, D)
    <2>1. \A d \in D : Snow(p, d) = Snow(s, d)
      BY <1>2, <1>10
    <2>2. QED
      BY <1>1, <2>1, TotalCongruence
  <1>11. QED
    BY <1>8, <1>9, <1>10 DEF p

\* The rows a day's qualifying depends on.
Rows(rule, d) == {d} \union (d - rule.window + 1 .. d)

\* A day that qualifies for the probe qualifies for the job, and the other way
\* round where the probe has the rows.
LEMMA ProbeQualifies ==
    ASSUME NEW s, IsSeries(s), NEW rule, IsRule(rule)
    PROVE  LET p == ProbeSeries(s) IN
           /\ AreDays(Qualifying(p, rule)) /\ AreDays(Qualifying(s, rule))
           /\ \A d \in Qualifying(p, rule) : d \in DOMAIN p /\ d \in Qualifying(s, rule)
           /\ \A d \in Qualifying(s, rule) :
                 DOMAIN s \intersect Rows(rule, d) \subseteq DOMAIN p => d \in Qualifying(p, rule)
  <1> DEFINE p == ProbeSeries(s)
             W(d) == d - rule.window + 1 .. d
  <1>1. IsSeries(p) /\ \A d \in DOMAIN p : d \in DOMAIN s /\ p[d] = s[d]
    BY ProbeSeriesFacts
  <1>2. rule.window \in Nat /\ rule.accum \in Nat
    BY DEF IsRule
  <1>3. ASSUME NEW d \in DOMAIN s
        PROVE  LET D == W(d) IN
               /\ Total(p, D) \in Nat /\ Total(s, D) \in Nat /\ Total(p, D) <= Total(s, D)
               /\ DOMAIN s \intersect D \subseteq DOMAIN p => Total(p, D) = Total(s, D)
    <2>1. d \in Nat
      BY DEF IsSeries
    <2>2. PICK D : D = W(d)
      OBVIOUS
    <2>3. IsFiniteSet(D)
      BY <1>2, <2>1, <2>2, TrailingDays
    <2>4. QED
      BY <2>2, <2>3, ProbeTotal
  <1> HIDE DEF p, W
  <1>4. \A d : /\ RollingHit(p, rule, d) <=> rule.window > 0 /\ Total(p, W(d)) >= rule.accum
               /\ RollingHit(s, rule, d) <=> rule.window > 0 /\ Total(s, W(d)) >= rule.accum
    BY DEF RollingHit, W
  <1>5. ASSUME NEW d \in Qualifying(p, rule)
        PROVE  d \in DOMAIN p /\ d \in Qualifying(s, rule)
    <2>1. d \in DOMAIN p /\ (SingleHit(p, rule, d) \/ RollingHit(p, rule, d))
      BY DEF Qualifying
    <2>2. d \in DOMAIN s /\ p[d] = s[d]
      BY <1>1, <2>1
    <2>3. RollingHit(p, rule, d) => RollingHit(s, rule, d)
      BY <1>2, <1>3, <1>4, <2>2
    <2>4. QED
      BY <2>1, <2>2, <2>3 DEF Qualifying, SingleHit
  <1>6. ASSUME NEW d \in Qualifying(s, rule), DOMAIN s \intersect Rows(rule, d) \subseteq DOMAIN p
        PROVE  d \in Qualifying(p, rule)
    <2>1. d \in DOMAIN s /\ (SingleHit(s, rule, d) \/ RollingHit(s, rule, d))
      BY DEF Qualifying
    <2>2. d \in DOMAIN p /\ p[d] = s[d] /\ DOMAIN s \intersect W(d) \subseteq DOMAIN p
      BY <1>1, <1>6, <2>1 DEF Rows, W
    <2>3. RollingHit(s, rule, d) => RollingHit(p, rule, d)
      BY <1>3, <1>4, <2>1, <2>2
    <2>4. QED
      BY <2>1, <2>2, <2>3 DEF Qualifying, SingleHit
  <1>7. AreDays(Qualifying(p, rule)) /\ AreDays(Qualifying(s, rule))
    BY <1>1, QualifyingDays DEF AreDays
  <1>8. QED
    BY <1>5, <1>6, <1>7 DEF p

\* A run none of whose days is lost is a run of what is left.
LEMMA WholeRunStays ==
    ASSUME NEW Q, AreDays(Q), NEW P, AreDays(P), \A q \in Q : q \in P, NEW gap \in Nat,
           NEW a \in P, \A b \in RunOf(P, gap, a) : b \in Q
    PROVE  a \in Q /\ RunOf(Q, gap, a) = RunOf(P, gap, a)
  <1> DEFINE R == RunOf(P, gap, a)
  <1>1. /\ a \in R /\ a \in Q
        /\ \A b \in R : b \in P /\ b \in Q /\ b \in Nat /\ RunOf(P, gap, b) = R
    BY RunFacts
  <1>2. ASSUME NEW b \in R, NEW e \in R, b <= e PROVE e \in RunOf(Q, gap, b)
    <2>1. b \in Nat /\ e \in Nat /\ b \in P /\ e \in P /\ b \in Q /\ e \in Q
      BY <1>1
    <2>2. Linked(P, gap, b, e)
      BY <1>1, <1>2, <2>1, RunIsLinked
    <2>3. ASSUME NEW c \in b .. e - gap - 1
          PROVE  \E q \in Q : c + 1 <= q /\ q <= c + gap + 1
      <3>1. PICK q \in P : c + 1 <= q /\ q <= c + gap + 1
        BY <2>2 DEF Linked
      <3>2. q \in Nat /\ b <= q
        BY <2>1, <3>1 DEF AreDays
      <3>3. \A x \in b .. q - gap - 1 : x \in b .. e - gap - 1
        BY <2>1, <3>1, <3>2
      <3>4. Linked(P, gap, b, q)
        BY <2>2, <3>3 DEF Linked
      <3>5. q \in R
        <4>1. q \in RunOf(P, gap, b)
          BY <2>1, <3>2, <3>4, RunIsLinked
        <4>2. QED
          BY <1>1, <4>1
      <3>6. QED
        BY <1>1, <3>1, <3>5
    <2>4. Linked(Q, gap, b, e)
      BY <2>3 DEF Linked
    <2>5. QED
      BY <1>2, <2>1, <2>4, RunIsLinked
  <1>3. ASSUME NEW b \in R PROVE b \in RunOf(Q, gap, a)
    <2>1. b \in Nat /\ b \in Q /\ a \in Nat
      BY <1>1
    <2>2. CASE a <= b
      BY <1>1, <1>2, <2>2
    <2>3. CASE b <= a
      <3>1. a \in RunOf(Q, gap, b)
        BY <1>1, <1>2, <2>3
      <3>2. RunOf(Q, gap, b) = RunOf(Q, gap, a) /\ b \in RunOf(Q, gap, b)
        <4>1. RunOf(Q, gap, a) = RunOf(Q, gap, b)
          BY <2>1, <3>1, RunFacts
        <4>2. QED
          BY <2>1, <4>1, RunFacts
      <3>3. QED
        BY <3>2
    <2>4. QED
      BY <2>1, <2>2, <2>3
  <1>4. \A b \in RunOf(Q, gap, a) : b \in R
    BY <1>1, RunsGrow
  <1>5. QED
    BY <1>1, <1>3, <1>4

\* The attributes of a run of the probe, of which every day has a value.
LEMMA ProbeEventFacts ==
    ASSUME NEW s, IsSeries(s), NEW rule, IsRule(rule), NEW run, IsFiniteSet(run), run # {},
           \A d \in run : d \in DOMAIN ProbeSeries(s)
    PROVE  LET p == ProbeSeries(s)
               e == SparkEvent(s, rule, run) IN
           /\ ProbeEventsOf(p, rule, run) # {}
           /\ \A f \in ProbeEventsOf(p, rule, run) :
                 /\ f.start = Min(run) /\ f.end = Max(run)
                 /\ Near(f.total, e.total) /\ Near(f.peak, e.peak)
                 /\ f.accum = e.accum \/ Near(e.peak, rule.threshold)
  <1> DEFINE p == ProbeSeries(s)
             e == SparkEvent(s, rule, run)
             T == Total(p, run)
             K == Peak(p, run)
  <1>1. \A d \in DOMAIN p : d \in DOMAIN s /\ p[d] = s[d] /\ s[d] \in Nat /\ s[d] # Null
    BY ProbeSeriesFacts
  <1>2. Values(s, run) = run /\ Values(p, run) = run
    BY <1>1 DEF Values
  <1>3. T \in Nat /\ T = Total(s, run)
    BY ProbeTotal
  <1>4. K \in Nat /\ K = Peak(s, run)
    <2> DEFINE V == {s[d] : d \in run}
    <2>1. {p[d] : d \in run} = V
      BY <1>1
    <2>2. K = Max(V) /\ Peak(s, run) = Max(V)
      BY <1>2, <2>1 DEF Peak
    <2>3. IsFiniteSet(V) /\ V # {} /\ \A v \in V : v \in Int /\ v \in Nat
      BY <1>1, ImageIsFinite
    <2> HIDE DEF V
    <2>4. \E v \in V : \A u \in V : v >= u
      BY <2>3, FirstAndLastOf
    <2>5. Max(V) \in V
      BY <2>4 DEF Max
    <2>6. QED
      BY <2>2, <2>3, <2>5
  <1>5. e.total = T /\ e.peak = K /\ e.accum = IF K < rule.threshold THEN "yes" ELSE "no"
    BY <1>2, <1>3, <1>4 DEF SparkEvent
  <1> DEFINE ev(total, peak) ==
                [start |-> Min(run), end |-> Max(run), total |-> total, peak |-> peak,
                 accum |-> IF peak < rule.threshold THEN "yes" ELSE "no"]
  <1>6. ProbeEventsOf(p, rule, run) = {ev(total, peak) : total \in Rounded(T), peak \in Rounded(K)}
    BY DEF ProbeEventsOf
  <1>7. \A total, peak :
           /\ ev(total, peak).start = Min(run) /\ ev(total, peak).end = Max(run)
           /\ ev(total, peak).total = total /\ ev(total, peak).peak = peak
           /\ ev(total, peak).accum = IF peak < rule.threshold THEN "yes" ELSE "no"
    OBVIOUS
  <1>8. /\ Rounded(T) # {} /\ \A y \in Rounded(T) : Near(y, T)
        /\ Rounded(K) # {} /\ \A y \in Rounded(K) : y \in Nat /\ Near(y, K)
    BY <1>3, <1>4, RoundedIsNear
  <1>9. ASSUME NEW y \in Rounded(K), ~ (y < rule.threshold <=> K < rule.threshold)
        PROVE  Near(K, rule.threshold)
    <2>1. /\ y \in Nat /\ K \in Nat /\ rule.threshold \in Nat /\ Grain \in Nat
          /\ 2 * (y - K) \in -Grain .. Grain
      BY <1>4, <1>8, GrainAssumption DEF IsRule, Near
    <2>2. PICK k \in Nat, r \in Nat, g \in Nat : k = K /\ r = rule.threshold /\ g = Grain
      BY <2>1
    <2>3. 2 * (k - r) \in -g .. g
      <3>1. y \in Nat /\ 2 * (y - k) \in -g .. g /\ ~ (y < r <=> k < r)
        BY <1>9, <2>1, <2>2
      <3>2. QED
        BY <2>2, <3>1
    <2>4. QED
      BY <2>2, <2>3 DEF Near
  <1> HIDE DEF ev, T, K, e, p
  <1>10. ProbeEventsOf(p, rule, run) # {}
    <2>1. PICK total \in Rounded(T), peak \in Rounded(K) : TRUE
      BY <1>8
    <2>2. ev(total, peak) \in ProbeEventsOf(p, rule, run)
      BY <1>6
    <2>3. QED
      BY <2>2
  <1>11. ASSUME NEW f \in ProbeEventsOf(p, rule, run)
         PROVE  /\ f.start = Min(run) /\ f.end = Max(run)
                /\ Near(f.total, e.total) /\ Near(f.peak, e.peak)
                /\ f.accum = e.accum \/ Near(e.peak, rule.threshold)
    <2>1. PICK total \in Rounded(T), peak \in Rounded(K) : f = ev(total, peak)
      BY <1>6
    <2>2. Near(total, T) /\ Near(peak, K)
      BY <1>8
    <2>3. CASE peak < rule.threshold <=> K < rule.threshold
      BY <1>5, <1>7, <2>1, <2>2, <2>3
    <2>4. CASE ~ (peak < rule.threshold <=> K < rule.threshold)
      <3>1. Near(K, rule.threshold)
        BY <1>9, <2>4
      <3>2. QED
        BY <1>5, <1>7, <2>1, <2>2, <3>1
    <2>5. QED
      BY <2>3, <2>4
  <1>12. QED
    BY <1>10, <1>11 DEF p, e

\* The events of the job and of the probe, run by run.
LEMMA ProbeRuns ==
    ASSUME NEW s, IsSeries(s), NEW rule, IsRule(rule)
    PROVE  LET p == ProbeSeries(s)
               Q == Qualifying(p, rule)
               P == Qualifying(s, rule) IN
           /\ \A e : e \in SparkEvents(s, rule)
                        <=> \E a \in P : e = SparkEvent(s, rule, RunOf(P, rule.gap, a))
           /\ \A f : f \in ProbeEvents(s, rule)
                        <=> \E a \in Q : f \in ProbeEventsOf(p, rule, RunOf(Q, rule.gap, a))
  <1> DEFINE p == ProbeSeries(s)
             Q == Qualifying(p, rule)
             P == Qualifying(s, rule)
             gap == rule.gap
  <1>1. AreDays(Q) /\ AreDays(P) /\ gap \in Nat
    BY ProbeQualifies DEF IsRule
  <1>2. CutRuns(Q, gap) = MaximalRuns(Q, gap) /\ SparkRuns(P, gap) = MaximalRuns(P, gap)
    <2> HIDE DEF Q, P, gap
    <2>1. CutRuns(Q, gap) = MaximalRuns(Q, gap)
      BY <1>1, WalkFindsMaximalRuns DEF AreDays
    <2>2. P \subseteq Nat /\ IsFiniteSet(P)
      BY <1>1, DaysAreNat
    <2>3. QED
      BY <1>1, <2>1, <2>2, RunningCountFindsMaximalRuns
  <1>3. /\ MaximalRuns(Q, gap) = {RunOf(Q, gap, a) : a \in Q}
        /\ MaximalRuns(P, gap) = {RunOf(P, gap, a) : a \in P}
    BY DEF MaximalRuns, RunOf
  <1>4. SparkEvents(s, rule) = {SparkEvent(s, rule, run) : run \in MaximalRuns(P, gap)}
    BY <1>2 DEF SparkEvents
  <1>5. ProbeEvents(s, rule) = UNION {ProbeEventsOf(p, rule, run) : run \in MaximalRuns(Q, gap)}
    BY <1>2 DEF ProbeEvents
  <1> HIDE DEF p, Q, P, gap
  <1>6. QED
    BY <1>3, <1>4, <1>5 DEF p, Q, P, gap

LEMMA ProbeFollowsJob ==
    ASSUME NEW s, IsSeries(s), NEW rule, IsRule(rule)
    PROVE  ProbeAgrees(s, rule)
  <1> DEFINE p == ProbeSeries(s)
             Q == Qualifying(p, rule)
             P == Qualifying(s, rule)
             gap == rule.gap
             w == rule.window
  <1>1. /\ AreDays(Q) /\ AreDays(P)
        /\ \A d \in Q : d \in DOMAIN p /\ d \in P
        /\ \A d \in P : DOMAIN s \intersect Rows(rule, d) \subseteq DOMAIN p => d \in Q
    BY ProbeQualifies
  <1>2. gap \in Nat /\ w \in Nat
    BY DEF IsRule
  <1>3. /\ \A e : e \in SparkEvents(s, rule)
                     <=> \E a \in P : e = SparkEvent(s, rule, RunOf(P, gap, a))
        /\ \A f : f \in ProbeEvents(s, rule)
                     <=> \E a \in Q : f \in ProbeEventsOf(p, rule, RunOf(Q, gap, a))
    BY ProbeRuns
  <1>4. \A run : /\ SparkEvent(s, rule, run).start = Min(run)
                 /\ SparkEvent(s, rule, run).end = Max(run)
    BY DEF SparkEvent
  <1>5. \A run : IsFiniteSet(run) /\ run # {} /\ (\A d \in run : d \in DOMAIN p) =>
           /\ ProbeEventsOf(p, rule, run) # {}
           /\ \A f \in ProbeEventsOf(p, rule, run) :
                 LET e == SparkEvent(s, rule, run) IN
                 /\ f.start = Min(run) /\ f.end = Max(run)
                 /\ Near(f.total, e.total) /\ Near(f.peak, e.peak)
                 /\ f.accum = e.accum \/ Near(e.peak, rule.threshold)
    BY ProbeEventFacts
  <1> HIDE DEF p, Q, P, gap, w
  <1>6. ASSUME NEW a \in Q
        PROVE  LET R == RunOf(Q, gap, a) IN
               /\ IsFiniteSet(R) /\ R # {} /\ \A d \in R : d \in DOMAIN p
               /\ Min(R) \in R /\ Max(R) \in R
    BY <1>1, <1>2, RunFacts
  <1>7. ASSUME NEW f \in ProbeEvents(s, rule)
        PROVE  \E e \in SparkEvents(s, rule) : e.start <= f.start /\ f.end <= e.end
    <2>1. PICK a \in Q : f \in ProbeEventsOf(p, rule, RunOf(Q, gap, a))
      BY <1>3
    <2>2. a \in P
      BY <1>1
    <2> DEFINE R == RunOf(Q, gap, a)
               S == RunOf(P, gap, a)
    <2>3. f.start = Min(R) /\ f.end = Max(R) /\ Min(R) \in R /\ Max(R) \in R
      BY <1>5, <1>6, <2>1
    <2>4. \A b \in R : b \in S
      BY <1>1, <1>2, RunsGrow
    <2>5. \A b \in S : Min(S) <= b /\ b <= Max(S)
      BY <1>1, <1>2, <2>2, RunFacts
    <2>6. SparkEvent(s, rule, S) \in SparkEvents(s, rule)
      BY <1>3, <2>2
    <2>7. QED
      BY <1>4, <2>3, <2>4, <2>5, <2>6
  <1>8. ASSUME NEW e \in SparkEvents(s, rule), ProbeSees(s, rule, e)
        PROVE  /\ <<e.start, e.end>> \in Spans(ProbeEvents(s, rule))
               /\ \A f \in ProbeEvents(s, rule) : f.start = e.start /\ f.end = e.end =>
                     /\ Near(f.total, e.total) /\ Near(f.peak, e.peak)
                     /\ f.accum = e.accum \/ Near(e.peak, rule.threshold)
    <2>1. PICK a \in P : e = SparkEvent(s, rule, RunOf(P, gap, a))
      BY <1>3
    <2> DEFINE R == RunOf(P, gap, a)
    <2>2. /\ IsFiniteSet(R) /\ a \in R
          /\ \A b \in R : b \in P /\ b \in Nat /\ RunOf(P, gap, b) = R
          /\ Min(R) \in R /\ Max(R) \in R
          /\ \A b \in R : Min(R) <= b /\ b <= Max(R)
      BY <1>1, <1>2, RunFacts
    <2>3. e.start = Min(R) /\ e.end = Max(R)
      BY <1>4, <2>1
    <2> HIDE DEF R
    <2>4. ASSUME NEW b \in R PROVE b \in Q
      <3>1. PICK lo \in Nat, hi \in Nat : lo = e.start /\ hi = e.end
        BY <2>2, <2>3
      <3>2. b \in Nat /\ lo <= b /\ b <= hi
        BY <2>2, <2>3, <3>1
      <3>3. ASSUME NEW d \in DOMAIN s, d \in Rows(rule, b)
            PROVE  d \in {lo} \union (lo - w + 1 .. hi)
        <4>1. d \in Nat
          BY DEF IsSeries
        <4>2. CASE d = b
          <5>1. CASE w = 0
            <6>1. d = lo \/ d \in lo + 1 .. hi
              BY <3>1, <3>2, <4>1, <4>2
            <6>2. QED
              BY <5>1, <6>1, <3>1
          <5>2. CASE w > 0
            BY <1>2, <3>1, <3>2, <4>2, <5>2
          <5>3. QED
            BY <1>2, <5>1, <5>2
        <4>3. CASE d \in b - w + 1 .. b
          BY <1>2, <3>1, <3>2, <4>1, <4>3
        <4>4. QED
          BY <3>3, <4>2, <4>3 DEF Rows, w
      <3>4. DOMAIN s \intersect ({lo} \union (lo - w + 1 .. hi)) \subseteq DOMAIN p
        BY <1>8, <3>1 DEF ProbeSees, p, w
      <3>5. DOMAIN s \intersect Rows(rule, b) \subseteq DOMAIN p
        BY <3>3, <3>4
      <3>6. QED
        BY <1>1, <2>2, <3>5
    <2>5. a \in Q /\ RunOf(Q, gap, a) = R
      BY <1>1, <1>2, <2>4, WholeRunStays DEF R
    <2>6. /\ ProbeEventsOf(p, rule, R) # {}
          /\ \A f \in ProbeEventsOf(p, rule, R) :
                /\ f.start = e.start /\ f.end = e.end
                /\ Near(f.total, e.total) /\ Near(f.peak, e.peak)
                /\ f.accum = e.accum \/ Near(e.peak, rule.threshold)
      BY <1>5, <1>6, <2>1, <2>3, <2>5 DEF R
    <2>7. PICK f \in ProbeEventsOf(p, rule, R) : f.start = e.start /\ f.end = e.end
      BY <2>6
    <2>8. f \in ProbeEvents(s, rule)
      BY <1>3, <2>5
    <2>9. <<e.start, e.end>> \in Spans(ProbeEvents(s, rule))
      BY <2>7, <2>8 DEF Spans
    <2>10. ASSUME NEW g \in ProbeEvents(s, rule), g.start = e.start, g.end = e.end
           PROVE  g \in ProbeEventsOf(p, rule, R)
      <3>1. PICK b \in Q : g \in ProbeEventsOf(p, rule, RunOf(Q, gap, b))
        BY <1>3
      <3>2. Min(RunOf(Q, gap, b)) \in RunOf(Q, gap, b) /\ g.start = Min(RunOf(Q, gap, b))
        BY <1>5, <1>6, <3>1
      <3>3. Min(R) \in RunOf(Q, gap, b) /\ Min(R) \in RunOf(Q, gap, a)
        BY <2>2, <2>3, <2>5, <2>10, <3>2
      <3>4. RunOf(Q, gap, b) = RunOf(Q, gap, Min(R)) /\ RunOf(Q, gap, a) = RunOf(Q, gap, Min(R))
        BY <1>1, <1>2, <2>5, <3>3, RunFacts
      <3>5. QED
        BY <2>5, <3>1, <3>4
    <2>11. QED
      BY <2>6, <2>9, <2>10
  <1>9. QED
    BY <1>7, <1>8 DEF ProbeAgrees

(* On any daily series of snowfall and under any rule the three implementations  *)
(* agree: the running count of events.py finds the maximal runs of qualifying    *)
(* days, the port of outlook_weather.py finds the same events and on a series    *)
(* without holes reports the same attributes, and the probe, whatever its        *)
(* winters and its grain, reports the events whose rows it has all seen with the *)
(* same span and right to half a grain, and nothing outside an event of the job. *)
THEOREM ImplementationsAgree ==
    ASSUME NEW s, IsSeries(s), NEW rule, IsRule(rule)
    PROVE  Agree(s, rule)
  <1> DEFINE Q == Qualifying(s, rule)
             R == MaximalRuns(Q, rule.gap)
             spark == {SparkEvent(s, rule, run) : run \in SparkRuns(Q, rule.gap)}
             port == {PortEvent(s, rule, run) : run \in CutRuns(Q, rule.gap)}
  <1>1. /\ IsFiniteSet(Q) /\ \A d \in Q : d \in Nat
        /\ rule.gap \in Nat
    BY QualifyingDays DEF IsRule
  <1>2. CutRuns(Q, rule.gap) = R
    <2> HIDE DEF Q
    <2>1. QED
      BY <1>1, WalkFindsMaximalRuns
  <1>3. SparkRuns(Q, rule.gap) = R
    <2>1. Q \subseteq Nat
      BY <1>1
    <2> HIDE DEF Q
    <2>2. QED
      BY <1>1, <2>1, RunningCountFindsMaximalRuns
  <1>4. spark = {SparkEvent(s, rule, run) : run \in R}
    BY <1>3
  <1>5. port = {PortEvent(s, rule, run) : run \in R}
    BY <1>2
  <1>6. Spans(spark) = Spans(port)
    <2>1. Spans(spark) = {<<SparkEvent(s, rule, run).start, SparkEvent(s, rule, run).end>> : run \in R}
      BY <1>4 DEF Spans
    <2>2. Spans(port) = {<<PortEvent(s, rule, run).start, PortEvent(s, rule, run).end>> : run \in R}
      BY <1>5 DEF Spans
    <2> HIDE DEF spark, port, R
    <2>3. QED
      BY <2>1, <2>2, PortKeepsSpan
  <1>7. ASSUME Contiguous(s) PROVE spark = port
    <2>1. ASSUME NEW run \in R
          PROVE  PortEvent(s, rule, run) = SparkEvent(s, rule, run)
      <3>1. Values(s, run) # {}
        BY <1>7, RunHoldsValue
      <3>2. run \in SUBSET Q
        BY DEF MaximalRuns
      <3>3. IsFiniteSet(run)
        BY <1>1, <3>2, FS_Subset
      <3>4. QED
        BY <3>1, <3>3, PortOfValue
    <2> HIDE DEF spark, port, R
    <2>2. QED
      BY <1>4, <1>5, <2>1
  <1>8. ProbeAgrees(s, rule)
    BY ProbeFollowsJob
  <1>9. Agree(s, rule) <=> /\ SparkRuns(Q, rule.gap) = R
                           /\ Spans(spark) = Spans(port)
                           /\ Contiguous(s) => spark = port
                           /\ ProbeAgrees(s, rule)
    BY DEF Agree
  <1> HIDE DEF Q, R, spark, port
  <1>10. QED
    BY <1>3, <1>6, <1>7, <1>8, <1>9

=============================================================================
