-------------------------- MODULE MultiVersionMap --------------------------
(***************************************************************************)
(* The multi-version map MVM (multiversion_map.rs) that holds the schema   *)
(* of a table: versions, in ascending order of timestamps, and a last      *)
(* access timestamp (LAT) per key.  Keys that are not in the map have the  *)
(* LAT min_lat and no versions.                                            *)
(***************************************************************************)
EXTENDS Integers, FiniteSetsExt, Sequences

NULL == "NULL"                  \* the ColValN None

Version(t, v) == [ts |-> t, val |-> v]

\* The version that a version list shows at timestamp t: NoVersion if none.
NoVersion == Version(-1, NULL)
find_version(versions, t) ==
    LET older == {i \in DOMAIN versions : versions[i].ts <= t}
    IN  IF older = {} THEN NoVersion ELSE versions[Max(older)]

MVM(min_lat, map) == [min_lat |-> min_lat, map |-> map]

mvm_init(keys, value) ==
    MVM(0, [k \in keys |-> [lat |-> 0, versions |-> <<Version(0, value)>>]])

get_lat(mvm, key) == IF key \in DOMAIN mvm.map THEN mvm.map[key].lat ELSE mvm.min_lat

get_latest_lat(mvm) == Max({mvm.min_lat} \cup {mvm.map[k].lat : k \in DOMAIN mvm.map})

mvm_versions(mvm, key) == IF key \in DOMAIN mvm.map THEN mvm.map[key].versions ELSE << >>

\* The map with the entry of one key set.
mvm_set(mvm, key, lat, versions) ==
    MVM(mvm.min_lat, [k \in DOMAIN mvm.map \cup {key} |->
                        IF k = key THEN [lat |-> lat, versions |-> versions] ELSE mvm.map[k]])

\* The code asserts CanWrite.
CanWrite(mvm, key, t) == get_lat(mvm, key) < t
mvm_write(mvm, key, value, t) ==
    mvm_set(mvm, key, t, Append(mvm_versions(mvm, key), Version(t, value)))

\* update_lat for several keys at once: lats is key -> timestamp.
update_lats(mvm, lats) ==
    LET raised == {k \in DOMAIN lats : lats[k] > get_lat(mvm, k)}
    IN  MVM(mvm.min_lat, [k \in DOMAIN mvm.map \cup raised |->
                            [lat |-> IF k \in raised THEN lats[k] ELSE get_lat(mvm, k),
                             versions |-> mvm_versions(mvm, k)]])
update_lat(mvm, key, t) == update_lats(mvm, [k \in {key} |-> t])

update_all_lats(mvm, t) ==
    IF t <= mvm.min_lat THEN mvm
    ELSE MVM(t, [k \in DOMAIN mvm.map |->
                   [lat |-> Max({mvm.map[k].lat, t}), versions |-> mvm.map[k].versions]])

static_read_version(mvm, key, t) == find_version(mvm_versions(mvm, key), t)
static_read(mvm, key, t) == static_read_version(mvm, key, t).val

static_snapshot_read(mvm, t) == {k \in DOMAIN mvm.map : static_read(mvm, k, t) # NULL}
=============================================================================
