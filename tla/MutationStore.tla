--------------------------- MODULE MutationStore ---------------------------
(***************************************************************************)
(* The mutation store of the data rollup node (storage/mutation_store.rs). *)
(*                                                                         *)
(* The store is one RocksDB instance with a column family per kind of      *)
(* record, plus the block cursor it keeps in memory.  A column family is   *)
(* modelled as the set of its records, each record carrying its key; a put *)
(* replaces the record with the same key.  Sizes, times and costs are left *)
(* out: no decision of the node other than the minimum rollup size, which  *)
(* counts mutations here, reads them back.                                 *)
(*                                                                         *)
(* The operators with primed variables describe one call each and leave    *)
(* the other variables of the store to the caller's UNCHANGED.             *)
(***************************************************************************)
EXTENDS Naturals, FiniteSets

VARIABLES
    block,           \* BlockState.block: the block being filled, in memory
    order,           \* BlockState.order: the last order given out, in memory
    block_key,       \* the persisted block number, NoBlockKey when absent
    headers,         \* block store: [block, order, id], key <<block, order>>
    bodies,          \* tx store: the keys that hold a mutation body
    rollup_records,  \* rollup store: [start, end, tx], key start
    gc_records       \* gc store: [start, end], key start

cursor == <<block, order, block_key>>
store == <<block, order, block_key, headers, bodies, rollup_records, gc_records>>

(* Only values of block after an increment are persisted, so 0 is free.    *)
NoBlockKey == 0

(* A body is written under the 32 bytes of its TxId; garbage collection    *)
(* asks to delete the key spelled as the hex string of that id.            *)
RawKey(id) == <<"raw", id>>
HexKey(id) == <<"hex", id>>

MutationStoreInit ==
    /\ block = 0
    /\ order = 0
    /\ block_key = NoBlockKey
    /\ headers = {}
    /\ bodies = {}
    /\ rollup_records = {}
    /\ gc_records = {}

----------------------------------------------------------------------------
(* The block cursor.                                                       *)

(* Planted fault: the order is handed out but not advanced                 *)
increase_order_forgets ==
    UNCHANGED <<block, order, block_key>>

increase_order ==
    /\ order' = order + 1
    /\ UNCHANGED <<block, block_key>>

(* The increment is persisted before the cursor's lock is released.        *)
increase_block_return_last_state ==
    /\ block' = block + 1
    /\ order' = 0
    /\ block_key' = block + 1

(* Planted fault: the persisted block is not read back                     *)
recover_from_zero ==
    /\ block' = 0
    /\ order' = 0
    /\ UNCHANGED block_key

(* new() starts the cursor at 0; recover() moves it behind the persisted   *)
(* block, in memory only.                                                  *)
recover ==
    /\ block' = IF block_key = NoBlockKey THEN 0 ELSE block_key + 1
    /\ order' = 0
    /\ UNCHANGED block_key

----------------------------------------------------------------------------
(* Mutations.                                                              *)

(* Body and header go into one write batch.                                *)
add_mutation(h) ==
    /\ headers' = {g \in headers : g.block # h.block \/ g.order # h.order} \cup {h}
    /\ bodies' = bodies \cup {RawKey(h.id)}

(* Planted fault: the end block is included                                *)
get_range_mutations_closed(start, end) ==
    {h \in headers : start <= h.block /\ h.block <= end /\ RawKey(h.id) \in bodies}

(* The headers of [start, end) in key order; one without a body is skipped.*)
get_range_mutations(start, end) ==
    {h \in headers : start <= h.block /\ h.block < end /\ RawKey(h.id) \in bodies}

(* Planted fault: the end block is included                                *)
gc_range_mutation_closed(start, end) ==
    /\ bodies' = bodies \ {HexKey(h.id) : h \in get_range_mutations(start, end)}
    /\ headers' = {h \in headers : h.block < start \/ end < h.block}

gc_range_mutation(start, end) ==
    /\ bodies' = bodies \ {HexKey(h.id) : h \in get_range_mutations(start, end)}
    /\ headers' = {h \in headers : h.block < start \/ end <= h.block}

----------------------------------------------------------------------------
(* Rollup and garbage collection records.  A lookup returns the set of the *)
(* records it found, of at most one element.                               *)

get_record(records, start) == {r \in records : r.start = start}

get_last_record(records) ==
    {r \in records : \A q \in records : q.start <= r.start}

(* Planted fault: the next key is taken to be start + 1                    *)
get_next_record_seeks(records, start) ==
    {r \in records : r.start = start + 1}

(* seek(start), next(): the second record at or after start.               *)
get_next_record(records, start) ==
    LET after == {r \in records : start <= r.start}
        rest  == {r \in after : \E q \in after : q.start < r.start}
    IN  {r \in rest : \A q \in rest : r.start <= q.start}

(* Planted fault: one round too few is asked for                           *)
has_enough_round_left_off_by_one(start, min_rounds) ==
    LET rounds == Cardinality({r \in rollup_records : start <= r.start})
    IN  rounds >= 1 /\ rounds + 1 >= min_rounds

(* Planted fault: the record at start is not counted                       *)
has_enough_round_left_beyond(start, min_rounds) ==
    LET rounds == Cardinality({r \in rollup_records : start < r.start})
    IN  rounds >= 1 /\ rounds >= min_rounds

(* The record at start is one of the rounds that are counted.              *)
has_enough_round_left(start, min_rounds) ==
    LET rounds == Cardinality({r \in rollup_records : start <= r.start})
    IN  rounds >= 1 /\ rounds >= min_rounds

add_rollup_record(record) ==
    rollup_records' = {r \in rollup_records : r.start # record.start} \cup {record}

add_gc_record(record) ==
    gc_records' = {r \in gc_records : r.start # record.start} \cup {record}

=============================================================================
