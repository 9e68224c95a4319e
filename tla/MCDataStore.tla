----------------------------- MODULE MCDataStore -----------------------------
(* Small instances of DataStore: two threads, three keys. *)
EXTENDS DataStore, TLC

CONSTANTS k1, k2, k3, v1, v2, w1, w2

MCPrefixes == {Keys, {k1, k2}}

SetBatch(f) == [set |-> f, unset |-> {}]

\* Each thread writes keys of its own: w1 in batches that set one key and
\* unset another, w2 in a batch or through a slot.
OwnBatches ==
    w1 :> {[set |-> k1 :> v1, unset |-> {k3}],
           [set |-> k3 :> v1, unset |-> {k1}]}
    @@ w2 :> {SetBatch(k2 :> v1)}
OwnSlots == w1 :> {} @@ w2 :> {k2}

\* The discipline the run's constants keep.
ASSUME OneWriterPerKey

==============================================================================
