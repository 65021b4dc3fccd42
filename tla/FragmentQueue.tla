---------------------------- MODULE FragmentQueue ---------------------------
(***************************************************************************)
(* Reassembly of split packets, src/reliability/fragment.rs: a map from    *)
(* split ids to the fragments that have arrived.  A whole packet is the    *)
(* sequence of its fragments' data in index order.  The time of the first  *)
(* fragment only decides when an entry expires, which the modules that use *)
(* the queue leave open.                                                   *)
(***************************************************************************)
EXTENDS Integers, Maps, Sequences

CONSTANT MaxSplits          \* max_concurrent, 512 in the code

ASSUME MaxSplitsAssumption == MaxSplits \in Nat

\* An entry, and a map of entries, whose fragments' data are in V.
IsEntry(entry, V) ==
    /\ entry = [total_count |-> entry.total_count, fragments |-> entry.fragments]
    /\ entry.total_count \in Nat \ {0}
    /\ IsMap(entry.fragments, 0 .. entry.total_count - 1, V)

IsSplits(splits, V) ==
    /\ DOMAIN splits \subseteq Nat
    /\ splits = [id \in DOMAIN splits |-> splits[id]]
    /\ \A id \in DOMAIN splits : IsEntry(splits[id], V)

NewEntry(count) == [total_count |-> count, fragments |-> EmptyMap]

reassemble(fragments, count) == [i \in 1 .. count |-> fragments[i - 1]]

\* The entry a fragment goes to.
EntryFor(splits, id, count) ==
    IF id \in DOMAIN splits THEN splits[id] ELSE NewEntry(count)

\* A fragment that is new to its entry: the entry is kept until complete.
AddFragment(splits, id, index, count, data) ==
    LET entry == EntryFor(splits, id, count)
        fragments == Put(entry.fragments, index, data)
    IN  IF Size(fragments) = count
        THEN [splits |-> Without(splits, {id}),
              whole  |-> <<reassemble(fragments, count)>>]
        ELSE [splits |-> Put(splits, id, [entry EXCEPT !.fragments = fragments]),
              whole  |-> <<>>]

\* insert: the new map, and the packets completed (none, or the whole one).
FragmentInsert(splits, id, index, count, data) ==
    LET entry == EntryFor(splits, id, count)
        no_room == id \notin DOMAIN splits /\ Size(splits) >= MaxSplits
    IN  IF index >= count \/ no_room
        THEN [splits |-> splits, whole |-> <<>>]
        ELSE IF entry.total_count # count
        THEN [splits |-> Without(splits, {id}), whole |-> <<>>]
        ELSE IF index \in DOMAIN entry.fragments
        THEN [splits |-> splits, whole |-> <<>>]
        ELSE AddFragment(splits, id, index, count, data)
=============================================================================
