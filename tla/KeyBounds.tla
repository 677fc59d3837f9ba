----------------------------- MODULE KeyBounds -----------------------------
(***************************************************************************)
(* Key bounds and regions (expression.rs, common.rs): the intervals that   *)
(* the Region Isolation algorithm locks and the storage scan reads.        *)
(*                                                                         *)
(* The values of a key column are integers here; the code instantiates the *)
(* same functions for i32, bool and String, and uses only their order.  A  *)
(* Vec<KeyBound> is a set: nothing depends on its order.                   *)
(***************************************************************************)
EXTENDS Integers, Sequences

CONSTANT NoKey         \* the None of an open side of a TabletKeyRange

Unbounded == [kind |-> "Unbounded", at |-> 0]
Included(b) == [kind |-> "Included", at |-> b]
Excluded(b) == [kind |-> "Excluded", at |-> b]

\* SingleBound<T>
SingleBound == [kind : {"Included", "Excluded"}, at : Int] \cup {Unbounded}

\* ColBound<T>: an interval with a start and an end.
ColBound == [start : SingleBound, end : SingleBound]

full_bound == [start |-> Unbounded, end |-> Unbounded]

----------------------------------------------------------------------------
(* What a bound means: the values that lie in it.                          *)

AboveStart(v, b) == \/ b.kind = "Unbounded"
                    \/ b.kind = "Included" /\ v >= b.at
                    \/ b.kind = "Excluded" /\ v > b.at
BelowEnd(v, b) == \/ b.kind = "Unbounded"
                  \/ b.kind = "Included" /\ v <= b.at
                  \/ b.kind = "Excluded" /\ v < b.at

\* The value v lies in the interval c.
InColBound(v, c) == AboveStart(v, c.start) /\ BelowEnd(v, c.end)

\* The key lies in the KeyBound, and in one of the KeyBounds of a region.
InKeyBound(key, kb) == \A i \in DOMAIN kb : InColBound(key[i], kb[i])
InRegion(key, region) == \E kb \in region : InKeyBound(key, kb)

----------------------------------------------------------------------------
(* Interval arithmetic.                                                    *)

\* The greater of two starts: on a tie an exclusive one wins.
lower_bound(l, r) ==
    IF l.kind = "Unbounded" THEN r
    ELSE IF r.kind = "Unbounded" THEN l
    ELSE IF l.kind = "Excluded" /\ r.kind = "Included"
         THEN IF r.at > l.at THEN r ELSE l
         ELSE IF l.at > r.at THEN l ELSE r

\* The lesser of two ends: on a tie an exclusive one wins.
upper_bound(l, r) ==
    IF l.kind = "Unbounded" THEN r
    ELSE IF r.kind = "Unbounded" THEN l
    ELSE IF l.kind = "Excluded" /\ r.kind = "Included"
         THEN IF l.at > r.at THEN r ELSE l
         ELSE IF r.at > l.at THEN l ELSE r

\* The start may lie above the end: the caller tests for emptiness.
col_bound_intersect_interval(left, right) ==
    [start |-> lower_bound(left.start, right.start),
     end   |-> upper_bound(left.end, right.end)]

is_surely_interval_empty(c) ==
    /\ c.start.kind # "Unbounded"
    /\ c.end.kind # "Unbounded"
    /\ IF c.start.kind = "Included" /\ c.end.kind = "Included"
       THEN c.start.at > c.end.at
       ELSE c.start.at >= c.end.at

col_bounds_intersect(lefts, rights) ==
    {c \in {col_bound_intersect_interval(l, r) : l \in lefts, r \in rights} :
        ~is_surely_interval_empty(c)}

\* The complement of one side of an interval.
flip(b) == IF b.kind = "Included" THEN Excluded(b.at) ELSE Included(b.at)

invert_col_bound(c) ==
    IF is_surely_interval_empty(c) THEN {full_bound}
    ELSE (IF c.start.kind = "Unbounded" THEN {}
          ELSE {[start |-> Unbounded, end |-> flip(c.start)]})
         \cup (IF c.end.kind = "Unbounded" THEN {}
               ELSE {[start |-> flip(c.end), end |-> Unbounded]})

----------------------------------------------------------------------------
(* Region Isolation: can a write be seen by a read?                        *)

might_col_intersect(b1, b2) ==
    ~is_surely_interval_empty(col_bound_intersect_interval(b1, b2))

might_key_bound_intersect(kb1, kb2) ==
    \A i \in DOMAIN kb1 : might_col_intersect(kb1[i], kb2[i])

might_row_region_intersect(region1, region2) ==
    \E kb1 \in region1, kb2 \in region2 : might_key_bound_intersect(kb1, kb2)

does_col_regions_intersect(cols1, cols2) == cols1 \cap cols2 # {}

\* A WriteRegion [rows, presence, cols] surely does not affect what a
\* ReadRegion [rows, cols] reads.
is_surely_isolated(write_region, read_region) ==
    \/ ~might_row_region_intersect(read_region.rows, write_region.rows)
    \/ /\ ~write_region.presence
       /\ ~does_col_regions_intersect(read_region.cols, write_region.cols)

is_surely_isolated_multiread(write_region, read_regions) ==
    \A r \in read_regions : is_surely_isolated(write_region, r)

is_surely_isolated_multiwrite(write_regions, read_region) ==
    \A w \in write_regions : is_surely_isolated(w, read_region)

----------------------------------------------------------------------------
(* Sharding: a TabletKeyRange bounds the first key column, inclusive of    *)
(* its start and exclusive of its end; NoKey is an open side.              *)

contains(range, v) == /\ range.start = NoKey \/ v >= range.start
                      /\ range.end = NoKey \/ v < range.end

contains_pkey(range, key) == key # << >> => contains(range, key[1])

into_col_bound(range) ==
    [start |-> IF range.start = NoKey THEN Unbounded ELSE Included(range.start),
     end   |-> IF range.end = NoKey THEN Unbounded ELSE Excluded(range.end)]

\* Whether a range can hold a key of the region: ShardingSnapshotES asks it for
\* every region it has to carry over to the new Tablet.
range_might_intersect_row_region(range, region) ==
    \E kb \in region : kb = << >> \/ might_col_intersect(into_col_bound(range), kb[1])

\* The part of the region that a tablet locks and reads.
range_row_region_intersection(range, region) ==
    {IF kb = << >> THEN kb
     ELSE [kb EXCEPT ![1] = col_bound_intersect_interval(into_col_bound(range), kb[1])] :
        kb \in region}
=============================================================================
