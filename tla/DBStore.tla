------------------------------ MODULE DBStore ------------------------------
(***************************************************************************)
(* The database store (storage/db_store_v2.rs) of a data rollup node:      *)
(* databases, collections and the owners of documents in RocksDB column    *)
(* families, and the state of every database (the last document id given   *)
(* out, the document counts) in a concurrent map in memory.  The state is  *)
(* flushed to RocksDB from time to time and rebuilt when the node starts.  *)
(*                                                                         *)
(* A rollup node does not store documents (enable_doc_store is false), so  *)
(* the contents of documents do not occur here.  A write batch of RocksDB, *)
(* and an update of one entry of the map, is atomic.                       *)
(***************************************************************************)
EXTENDS Integers, Sequences, FiniteSetsExt

CONSTANTS
    Account,         \* the senders of mutations
    MintDb,          \* the addresses of databases created in the contract
    Name,            \* names of collections
    Path,            \* paths that can be indexed
    CountWidth       \* the width of a document count: 64 in the code

ASSUME DBStoreConstants ==
    /\ MintDb \cap Nat = {}
    /\ CountWidth \in Nat

VARIABLES
    databases,       \* db_store_cf: db -> [kind, sender]
    db_owner,        \* db_owner_store_cf: <<sender, place in the log>> -> db
    collections,     \* collection_store_cf: <<db, name>> -> [sender, indexes]
    doc_owner,       \* doc_owner_store_cf: <<db, id>> -> account
    db_state,        \* in memory: db -> [doc_order, count, total]
    state_cf,        \* DB_STATE_CF: db -> [doc_order, count, total, cols]
    block_state      \* BLOCK_STATE_CF: the last mutation applied, 0 if none

store == <<databases, db_owner, collections, doc_owner, db_state, state_cf, block_state>>

(* DbId: the hash of sender, nonce and network.  A nonce is used once, so  *)
(* the order of the mutation stands for it.                                *)
DbId == Nat \cup MintDb

DBStoreInit ==
    /\ databases = <<>>
    /\ db_owner = <<>>
    /\ collections = <<>>
    /\ doc_owner = <<>>
    /\ db_state = <<>>
    /\ state_cf = <<>>
    /\ block_state = 0

(* f with k mapped to v, whether or not k was in its domain.               *)
Put(f, k, v) == [x \in DOMAIN f \cup {k} |-> IF x = k THEN v ELSE f[x]]
Remove(f, ks) == [x \in DOMAIN f \ ks |-> f[x]]

(* Planted fault: a count goes below zero                                  *)
Wrap_signed(n) == n

(* Arithmetic on u64 counts, which wraps in a release build.               *)
Wrap(n) == n % 2 ^ CountWidth

is_db_collection_exist(db, col) == <<db, col>> \in DOMAIN collections

(* ids is a list, and may name a document more than once.                  *)
verify_docs_ownership(sender, db, ids) ==
    \A id \in Range(ids) : <<db, id>> \in DOMAIN doc_owner /\ doc_owner[<<db, id>>] = sender

----------------------------------------------------------------------------
(* Writes to RocksDB.                                                      *)

(* The owner's list is keyed by the block and order of the mutation.       *)
put_database(db, kind, sender, place) ==
    /\ databases' = Put(databases, db, [kind |-> kind, sender |-> sender])
    /\ db_owner' = Put(db_owner, <<sender, place>>, db)

(* The collections, the owners of documents and the state of an event      *)
(* database outlive it.  The owner's list is searched in the order of its  *)
(* keys, and the first entry that names the database goes.                 *)
delete_event_db_internal(owner, db) ==
    LET entries == {k \in DOMAIN db_owner : k[1] = owner /\ db_owner[k] = db}
        first   == {k \in entries : \A j \in entries : k[2] <= j[2]}
    IN  /\ databases' = Remove(databases, {db})
        /\ db_owner' = Remove(db_owner, first)

put_collection(db, col, sender, indexes) ==
    collections' = Put(collections, <<db, col>>, [sender |-> sender, indexes |-> indexes])

create_doc_ownership(sender, db, ids) ==
    doc_owner' = [k \in DOMAIN doc_owner \cup {<<db, id>> : id \in ids} |->
                     IF k[1] = db /\ k[2] \in ids THEN sender ELSE doc_owner[k]]

delete_doc_ids_from_owner_store(db, ids) ==
    doc_owner' = Remove(doc_owner, {<<db, id>> : id \in Range(ids)})

----------------------------------------------------------------------------
(* Updates of the state in memory.  All but the first do nothing where the *)
(* database has no state.                                                  *)

update_db_state_for_add_db(db) ==
    db_state' = Put(db_state, db, [doc_order |-> 0, count |-> <<>>, total |-> 0])

update_db_state_for_new_collection(db, col) ==
    db_state' = IF db \in DOMAIN db_state
                  THEN [db_state EXCEPT ![db].count = Put(@, col, 0)]
                  ELSE db_state

(* n documents come to (n > 0) or leave (n < 0) the collection.            *)
Counted(state, col, n) ==
    [state EXCEPT !.total = Wrap(@ + n),
                  !.count = IF col \in DOMAIN @ THEN [@ EXCEPT ![col] = Wrap(@ + n)] ELSE @]

update_db_state_for_delete_docs(db, col, n) ==
    db_state' = IF db \in DOMAIN db_state
                  THEN [db_state EXCEPT ![db] = Counted(@, col, -n)]
                  ELSE db_state

(* The ids given to n new documents: none where the database has no state. *)
new_ids(db, n) ==
    IF db \in DOMAIN db_state
      THEN db_state[db].doc_order + 1 .. db_state[db].doc_order + n
      ELSE {}

(* Planted fault: the last id given out is not recorded                    *)
update_db_state_for_add_docs_forgets(db, col, n) ==
    db_state' = IF db \in DOMAIN db_state
                  THEN [db_state EXCEPT ![db] = Counted(@, col, n)]
                  ELSE db_state

update_db_state_for_add_docs(db, col, n) ==
    db_state' = IF db \in DOMAIN db_state
                  THEN [db_state EXCEPT ![db] = [Counted(@, col, n) EXCEPT !.doc_order = @ + n]]
                  ELSE db_state

----------------------------------------------------------------------------
(* Flushing and recovering the state.                                      *)

build_persistence_state(db) ==
    [doc_order |-> db_state[db].doc_order, count |-> db_state[db].count,
     total |-> db_state[db].total, cols |-> Cardinality(DOMAIN db_state[db].count)]

(* One turn of the loop over the databases.                                *)
flush_database_state(db) ==
    /\ db \in DOMAIN databases \cap DOMAIN db_state
    /\ state_cf' = Put(state_cf, db, build_persistence_state(db))

(* The largest id in the owner store, 0 if there is none.                  *)
recover_db_doc_id(db) == Max({0} \cup {k[2] : k \in {j \in DOMAIN doc_owner : j[1] = db}})


(* The state a database starts with: the one flushed, else one made up     *)
(* from the owners of its documents.  The total takes the value of another *)
(* field of what was flushed.                                              *)
recovered(db) ==
    IF db \in DOMAIN state_cf
      THEN [doc_order |-> state_cf[db].doc_order + 1, count |-> state_cf[db].count,
            total |-> state_cf[db].cols]
      ELSE [doc_order |-> recover_db_doc_id(db) + 1,
            count |-> [col \in {k[2] : k \in {j \in DOMAIN collections : j[1] = db}} |-> 0],
            total |-> 0]

recover_db_state == db_state' = [db \in DOMAIN databases |-> recovered(db)]

store_block_state(order) == block_state' = order

=============================================================================
