------------------------- MODULE KeyBoundsProofs -------------------------
(***************************************************************************)
(* The interval arithmetic of expression.rs is exact, and the tests the    *)
(* Region Isolation algorithm makes with it are sound, for every bound.    *)
(* expression.rs asks for the first of these: "TODO: prove this function   *)
(* formally" at col_bound_intersect_interval.                              *)
(***************************************************************************)
EXTENDS KeyBounds, TLAPS

\* The start that lower_bound picks admits exactly the values both admit.
LEMMA LowerBound ==
    ASSUME NEW l \in SingleBound, NEW r \in SingleBound, NEW v \in Int
    PROVE  /\ lower_bound(l, r) \in SingleBound
           /\ AboveStart(v, lower_bound(l, r)) <=> AboveStart(v, l) /\ AboveStart(v, r)
BY DEF lower_bound, AboveStart, SingleBound, Unbounded

\* The end that upper_bound picks admits exactly the values both admit.
LEMMA UpperBound ==
    ASSUME NEW l \in SingleBound, NEW r \in SingleBound, NEW v \in Int
    PROVE  /\ upper_bound(l, r) \in SingleBound
           /\ BelowEnd(v, upper_bound(l, r)) <=> BelowEnd(v, l) /\ BelowEnd(v, r)
BY DEF upper_bound, BelowEnd, SingleBound, Unbounded

\* col_bound_intersect_interval is the intersection: nothing is lost (a lock
\* too small) and nothing is added.
THEOREM IntersectionExact ==
    ASSUME NEW left \in ColBound, NEW right \in ColBound, NEW v \in Int
    PROVE  /\ col_bound_intersect_interval(left, right) \in ColBound
           /\ InColBound(v, col_bound_intersect_interval(left, right))
                <=> InColBound(v, left) /\ InColBound(v, right)
<1> DEFINE c == col_bound_intersect_interval(left, right)
<1>1. /\ left.start \in SingleBound /\ left.end \in SingleBound
      /\ right.start \in SingleBound /\ right.end \in SingleBound
  BY DEF ColBound
<1>2. /\ c.start = lower_bound(left.start, right.start)
      /\ c.end = upper_bound(left.end, right.end)
      /\ c = [start |-> lower_bound(left.start, right.start),
              end |-> upper_bound(left.end, right.end)]
  BY DEF col_bound_intersect_interval
<1>3. c \in ColBound
  BY <1>1, <1>2, LowerBound, UpperBound DEF ColBound
<1>4. InColBound(v, c) <=> InColBound(v, left) /\ InColBound(v, right)
  BY <1>1, <1>2, LowerBound, UpperBound DEF InColBound
<1> QED
  BY <1>3, <1>4

\* An interval that is_surely_interval_empty calls empty holds no value.
THEOREM SurelyEmptyIsEmpty ==
    ASSUME NEW c \in ColBound, is_surely_interval_empty(c), NEW v \in Int
    PROVE  ~InColBound(v, c)
<1>1. c.start \in SingleBound /\ c.end \in SingleBound
  BY DEF ColBound
<1> QED
  BY <1>1 DEF is_surely_interval_empty, InColBound, AboveStart, BelowEnd, SingleBound, Unbounded

\* The pieces invert_col_bound returns cover exactly what the bound leaves out.
THEOREM InversionExact ==
    ASSUME NEW c \in ColBound, NEW v \in Int
    PROVE  (\E d \in invert_col_bound(c) : InColBound(v, d)) <=> ~InColBound(v, c)
<1>1. c.start \in SingleBound /\ c.end \in SingleBound
  BY DEF ColBound
<1>2. CASE is_surely_interval_empty(c)
  <2>1. invert_col_bound(c) = {full_bound}
    BY <1>2 DEF invert_col_bound
  <2>2. InColBound(v, full_bound)
    BY DEF InColBound, full_bound, AboveStart, BelowEnd, Unbounded
  <2> QED
    BY <1>2, <2>1, <2>2, SurelyEmptyIsEmpty
<1>3. CASE ~is_surely_interval_empty(c)
  <2> DEFINE below == [start |-> Unbounded, end |-> flip(c.start)]
             above == [start |-> flip(c.end), end |-> Unbounded]
  <2>1. c.start.kind # "Unbounded" => (InColBound(v, below) <=> ~AboveStart(v, c.start))
    BY <1>1 DEF InColBound, AboveStart, BelowEnd, flip, Included, Excluded, Unbounded, SingleBound
  <2>2. c.end.kind # "Unbounded" => (InColBound(v, above) <=> ~BelowEnd(v, c.end))
    BY <1>1 DEF InColBound, AboveStart, BelowEnd, flip, Included, Excluded, Unbounded, SingleBound
  <2>3. invert_col_bound(c) = (IF c.start.kind = "Unbounded" THEN {} ELSE {below})
                              \cup (IF c.end.kind = "Unbounded" THEN {} ELSE {above})
    BY <1>3 DEF invert_col_bound
  <2>4. /\ c.start.kind = "Unbounded" => AboveStart(v, c.start)
        /\ c.end.kind = "Unbounded" => BelowEnd(v, c.end)
    BY DEF AboveStart, BelowEnd
  <2> HIDE DEF below, above
  <2> QED
    BY <2>1, <2>2, <2>3, <2>4 DEF InColBound
<1> QED
  BY <1>2, <1>3

\* The KeyBounds of a table with n key columns, and its keys.
KeyBoundOf(n) == [1..n -> ColBound]
KeyOf(n) == [1..n -> Int]

\* Two bounds that hold a common value might intersect.
LEMMA CommonValueIntersects ==
    ASSUME NEW b1 \in ColBound, NEW b2 \in ColBound, NEW v \in Int,
           InColBound(v, b1), InColBound(v, b2)
    PROVE  might_col_intersect(b1, b2)
BY IntersectionExact, SurelyEmptyIsEmpty DEF might_col_intersect

\* Region Isolation is sound: when is_surely_isolated lets a write pass a read,
\* no key lies in both regions, unless the write changes neither the presence
\* of a row nor a column that is read.
THEOREM IsolationSound ==
    ASSUME NEW n \in Nat, NEW key \in KeyOf(n),
           NEW w, w.rows \in SUBSET KeyBoundOf(n),
           NEW r, r.rows \in SUBSET KeyBoundOf(n),
           is_surely_isolated(w, r),
           InRegion(key, w.rows), InRegion(key, r.rows)
    PROVE  ~w.presence /\ r.cols \cap w.cols = {}
<1>1. PICK kw \in w.rows : InKeyBound(key, kw)
  BY DEF InRegion
<1>2. PICK kr \in r.rows : InKeyBound(key, kr)
  BY DEF InRegion
<1>3. kw \in KeyBoundOf(n) /\ kr \in KeyBoundOf(n)
  BY <1>1, <1>2
<1>4. ASSUME NEW i \in 1..n PROVE might_col_intersect(kr[i], kw[i])
  <2>1. /\ kr[i] \in ColBound /\ kw[i] \in ColBound /\ key[i] \in Int
        /\ i \in DOMAIN kr /\ i \in DOMAIN kw
    BY <1>3 DEF KeyBoundOf, KeyOf
  <2>2. InColBound(key[i], kr[i]) /\ InColBound(key[i], kw[i])
    BY <1>1, <1>2, <2>1 DEF InKeyBound
  <2> QED
    BY <2>1, <2>2, CommonValueIntersects
<1>5. might_key_bound_intersect(kr, kw)
  <2>1. DOMAIN kr = 1..n
    BY <1>3 DEF KeyBoundOf
  <2> QED
    BY <1>4, <2>1 DEF might_key_bound_intersect
<1>6. might_row_region_intersect(r.rows, w.rows)
  BY <1>1, <1>2, <1>5 DEF might_row_region_intersect
<1> QED
  BY <1>6 DEF is_surely_isolated, does_col_regions_intersect

\* A TabletKeyRange: either side may be open.
RangeSide == Int \cup {NoKey}

\* into_col_bound admits exactly the values that the range contains.
LEMMA RangeBound ==
    ASSUME NEW s \in RangeSide, NEW e \in RangeSide, NEW v \in Int
    PROVE  LET range == [start |-> s, end |-> e]
           IN  /\ into_col_bound(range) \in ColBound
               /\ InColBound(v, into_col_bound(range)) <=> contains(range, v)
<1> DEFINE sb == IF s = NoKey THEN Unbounded ELSE Included(s)
           eb == IF e = NoKey THEN Unbounded ELSE Excluded(e)
<1>1. /\ sb \in SingleBound
      /\ AboveStart(v, sb) <=> (s = NoKey \/ v >= s)
  BY DEF RangeSide, SingleBound, Unbounded, Included, AboveStart
<1>2. /\ eb \in SingleBound
      /\ BelowEnd(v, eb) <=> (e = NoKey \/ v < e)
  BY DEF RangeSide, SingleBound, Unbounded, Excluded, BelowEnd
<1> HIDE DEF sb, eb
<1>3. into_col_bound([start |-> s, end |-> e]) = [start |-> sb, end |-> eb]
  BY DEF into_col_bound, sb, eb
<1> QED
  BY <1>1, <1>2, <1>3 DEF ColBound, InColBound, contains

\* A row in the range of a Tablet that a query asks for is not overlooked: the
\* part of the query's region which the Tablet reads has it (compute_read_region),
\* and a split that gives the range away sees that the read concerns it
\* (ShardingSnapshotES::advance_prepared).
THEOREM RoutingSound ==
    ASSUME NEW n \in Nat \ {0}, NEW key \in KeyOf(n),
           NEW region \in SUBSET KeyBoundOf(n), InRegion(key, region),
           NEW s \in RangeSide, NEW e \in RangeSide,
           contains([start |-> s, end |-> e], key[1])
    PROVE  LET range == [start |-> s, end |-> e]
           IN  /\ range_might_intersect_row_region(range, region)
               /\ InRegion(key, range_row_region_intersection(range, region))
<1> DEFINE range == [start |-> s, end |-> e]
           rb == into_col_bound(range)
<1>1. PICK kb \in region : InKeyBound(key, kb)
  BY DEF InRegion
<1>2. /\ kb \in KeyBoundOf(n) /\ DOMAIN kb = 1..n /\ 1 \in DOMAIN kb
      /\ kb[1] \in ColBound /\ key[1] \in Int /\ kb # << >>
  BY <1>1 DEF KeyBoundOf, KeyOf
<1>3. rb \in ColBound /\ InColBound(key[1], rb)
  BY <1>2, RangeBound
<1>4. InColBound(key[1], kb[1])
  BY <1>1, <1>2 DEF InKeyBound
<1>5. range_might_intersect_row_region(range, region)
  BY <1>1, <1>2, <1>3, <1>4, CommonValueIntersects DEF range_might_intersect_row_region
<1> DEFINE cut == [kb EXCEPT ![1] = col_bound_intersect_interval(rb, kb[1])]
<1>6. InColBound(key[1], col_bound_intersect_interval(rb, kb[1]))
  BY <1>2, <1>3, <1>4, IntersectionExact
<1>7. InKeyBound(key, cut)
  BY <1>1, <1>2, <1>6 DEF InKeyBound
<1>8. cut \in range_row_region_intersection(range, region)
  BY <1>1, <1>2 DEF range_row_region_intersection
<1> QED
  BY <1>5, <1>7, <1>8 DEF InRegion
=============================================================================
