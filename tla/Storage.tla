------------------------------ MODULE Storage ------------------------------
(***************************************************************************)
(* The multi-versioned storage of a Tablet (storage.rs).                   *)
(*                                                                         *)
(* A Storage Key is a pair <<pkey, ci>> of a primary key and a column      *)
(* indicator: the cell of a value column, or the presence cell of the row. *)
(* storage maps the Storage Keys it holds to a sequence of versions        *)
(* [ts, val] in ascending order of timestamps.                             *)
(***************************************************************************)
EXTENDS KeyBounds, MultiVersionMap, FiniteSetsExt, SequencesExt

Presence == "Presence"          \* the Column Indicator None
PRESENCE_VALN == "Present"

\* Mutant: versions are appended in the order of their commits.
add_version_last(versions, t, v) == Append(versions, Version(t, v))

\* Commits arrive in any order of timestamps: a version goes to its place.
add_version(versions, t, v) ==
    LET older == {i \in DOMAIN versions : versions[i].ts <= t}
    IN  IF older = {} THEN InsertAt(versions, 1, Version(t, v))
        ELSE LET i == Max(older)
             IN  IF versions[i].ts = t THEN [versions EXCEPT ![i].val = v]
                 ELSE InsertAt(versions, i + 1, Version(t, v))

commit_to_storage(storage, t, view) ==
    [cell \in DOMAIN storage \cup DOMAIN view |->
        IF cell \notin DOMAIN view THEN storage[cell]
        ELSE IF cell \in DOMAIN storage THEN add_version(storage[cell], t, view[cell])
        ELSE <<Version(t, view[cell])>>]

\* update_views maps a tier to the view that stage wrote; later stages have
\* lower tiers, so that the lowest tier that holds a cell shadows the others.
compress_updates_views(update_views) ==
    [cell \in UNION {DOMAIN update_views[tier] : tier \in DOMAIN update_views} |->
        update_views[Min({tier \in DOMAIN update_views :
                            cell \in DOMAIN update_views[tier]})][cell]]

----------------------------------------------------------------------------
(* The range scan: from the lower bound of a KeyBound upwards, until a key *)
(* shows that no later one can be in the bound.                            *)

\* The lexicographic order of keys; a proper prefix comes first.
LexLess(a, b) ==
    \E i \in 1..Len(b) :
        /\ \A j \in 1..(i - 1) : j <= Len(a) /\ a[j] = b[j]
        /\ i > Len(a) \/ a[i] < b[i]

\* The prefix of the lower bounds up to the first column without one.
compute_range_query(kb) ==
    LET open == {i \in DOMAIN kb : kb[i].start.kind = "Unbounded"} \cup {Len(kb) + 1}
    IN  [i \in 1..(Min(open) - 1) |-> kb[i].start.at]

\* Mutant: the first key that is above the bound in some column ends the scan.
check_inclusion_hasty(kb, key) ==
    LET outside == {i \in DOMAIN key : ~InColBound(key[i], kb[i])}
    IN  IF outside = {} THEN "Included"
        ELSE IF AboveStart(key[Min(outside)], kb[Min(outside)].start)
        THEN "Done" ELSE "Excluded"

\* "Done" only if every key after this one is beyond the bound as well.
check_inclusion(kb, key) ==
    LET outside == {i \in DOMAIN key : ~InColBound(key[i], kb[i])}
        first == Min(outside)
        AtEnd(i) == kb[i].end.kind = "Included" /\ key[i] = kb[i].end.at
    IN  IF outside = {} THEN "Included"
        ELSE IF AboveStart(key[first], kb[first].start) /\ \A i \in 1..(first - 1) : AtEnd(i)
        THEN "Done" ELSE "Excluded"

\* The keys of a table that the scan of a KeyBound visits and finds included.
range_scan(keys, kb) ==
    LET from == {k \in keys : ~LexLess(k, compute_range_query(kb))}
    IN  {k \in from : /\ check_inclusion(kb, k) = "Included"
                      /\ \A d \in from : LexLess(d, k) => check_inclusion(kb, d) # "Done"}

\* The cells of a table that a read of val_cols over key_region looks at.
scanned_cells(table, key_region, val_cols) ==
    LET cells == {cell \in DOMAIN table : cell[2] \in val_cols \cup {Presence}}
        keys == {cell[1] : cell \in cells}
    IN  {cell \in cells : \E kb \in key_region : cell[1] \in range_scan(keys, kb)}

----------------------------------------------------------------------------
(* Presence snapshots: what a read sees.                                   *)

\* The prior versions in storage, restricted to the cells that have one.
amend_all_prior_versions(storage, key_region, val_cols, t) ==
    LET found == {cell \in scanned_cells(storage, key_region, val_cols) :
                    find_version(storage[cell], t) # NoVersion}
    IN  [cell \in found |-> find_version(storage[cell], t)]

\* col_ts gives the timestamp at which each column was added: a value older
\* than its row or its column is not seen.
prior_versions_to_presence_snapshot(prior, val_cols, col_ts) ==
    LET present == {cell[1] : cell \in {c \in DOMAIN prior :
                                          c[2] = Presence /\ prior[c].val = PRESENCE_VALN}}
        Resolved(key, col) ==
            IF /\ <<key, col>> \in DOMAIN prior
               /\ prior[<<key, col>>].ts >= prior[<<key, Presence>>].ts
               /\ prior[<<key, col>>].ts >= col_ts[col]
            THEN prior[<<key, col>>].val ELSE NULL
    IN  [key \in present |-> [col \in val_cols |-> Resolved(key, col)]]

\* compute_presence_snapshot of SimpleStorageView.
SimpleStorageView(storage, key_region, val_cols, t, col_ts) ==
    prior_versions_to_presence_snapshot(
        amend_all_prior_versions(storage, key_region, val_cols, t), val_cols, col_ts)

\* compute_presence_snapshot of MSStorageView: the views of the stages up to
\* this one (tiers from `tier` up) shadow the storage, as if written at t.
MSStorageView(storage, update_views, tier, key_region, val_cols, t, col_ts) ==
    LET visible == {i \in DOMAIN update_views : i >= tier}
        Cells(i) == scanned_cells(update_views[i], key_region, val_cols)
        stored == amend_all_prior_versions(storage, key_region, val_cols, t)
        updated == UNION {Cells(i) : i \in visible}
        prior == [cell \in updated \cup DOMAIN stored |->
                    IF cell \in updated
                    THEN Version(t, update_views[Min({i \in visible : cell \in Cells(i)})][cell])
                    ELSE stored[cell]]
    IN  prior_versions_to_presence_snapshot(prior, val_cols, col_ts)
=============================================================================
