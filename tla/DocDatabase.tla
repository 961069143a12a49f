---------------------------- MODULE DocDatabase ----------------------------
(***************************************************************************)
(* apply_mutation of the database store on a running rollup node: the      *)
(* send_mutation handlers of many clients and the processors of contract   *)
(* events call it at the same time, on one store and without a lock.  The  *)
(* node flushes the state of the databases in the background, and may      *)
(* crash and be started again.                                             *)
(*                                                                         *)
(* A handler takes one step per write.  Reads are joined to the step       *)
(* before which they happen where nothing can undo what they found: a      *)
(* collection is never deleted, and a database only by DeleteEventDb,      *)
(* which leaves its collections and state as they are.                     *)
(***************************************************************************)
EXTENDS DBStore

CONSTANTS
    Client,          \* the concurrent send_mutation handlers
    Processor,       \* the handlers of contract events: one, two around start
    Sends,           \* the actions of the mutations that clients send
    SendsPairs,      \* those of them sent with two bodies as well
    Named,           \* the databases that mutations name
    MaxBatch,        \* bound on the new documents of a body
    MaxIds,          \* bound on the documents that a body names
    MaxEvents,       \* bound on the mutations, flushes and crashes together
    MaxFlush,        \* bound on the states flushed
    MaxCrash         \* bound on the crashes

ASSUME DocDatabaseConstants ==
    /\ Client \cap Processor = {}
    /\ Sends \subseteq {"CreateDocumentDb", "CreateEventDb", "DeleteEventDb", "AddCollection",
                       "AddIndex", "AddDocument", "UpdateDocument", "DeleteDocument",
                       "MintDocumentDb", "MintCollection"}
    /\ SendsPairs \subseteq
          Sends \cap {"CreateEventDb", "AddCollection", "AddDocument", "UpdateDocument", "DeleteDocument"}
    /\ Named \subseteq DbId
    /\ MaxBatch \in Nat /\ MaxIds \in Nat /\ MaxEvents \in Nat
    /\ MaxFlush \in Nat /\ MaxCrash \in Nat

VARIABLES
    order,           \* the mutations ordered so far
    base,            \* those before the block cursor was last set back
    handler,         \* the local variables of every handler
    acked,           \* history: the mutations answered with code 0, and so logged
    written,         \* history: the databases written, by whom and where listed
    early,           \* history: collections entered before their database's state
    flushes,         \* states flushed so far
    crashes          \* crashes so far

history == <<acked, written, early>>
limits == <<order, base, flushes, crashes>>
vars == <<store, handler, history, limits>>

Worker == Client \cup Processor

(* A handler: where it is, its mutation (order, action, sender), the       *)
(* bodies it has not finished, the ids given to the documents of the body  *)
(* at hand, and the documents and collections it has written.              *)
Free == [pc |-> "free"]

Init ==
    /\ DBStoreInit
    /\ order = 0
    /\ base = 0
    /\ handler = [w \in Worker |-> Free]
    /\ acked = {}
    /\ written = {}
    /\ early = {}
    /\ flushes = 0
    /\ crashes = 0

Room == order + flushes + crashes < MaxEvents

----------------------------------------------------------------------------
(* The mutations clients send.                                             *)

(* The documents of a body: a list, which may repeat one.                  *)
IdLists(db) ==
    UNION {[1 .. n -> {k[2] : k \in {j \in DOMAIN doc_owner : j[1] = db}}] : n \in 1 .. MaxIds}

DocBodies == UNION {[db : {db}, col : Name, ids : IdLists(db)] : db \in Named}

(* The bodies of CreateEventDb are its tables.                             *)
Bodies(action) ==
    CASE action = "CreateDocumentDb" -> {<<>>}
      [] action = "CreateEventDb" -> [col : Name, indexes : SUBSET Path]
      [] action \in {"DeleteEventDb", "MintDocumentDb"} -> [db : Named]
      [] action \in {"AddCollection", "AddIndex"} -> [db : Named, col : Name, indexes : SUBSET Path]
      [] action = "MintCollection" -> [db : Named, col : Name, indexes : {{}}]
      [] action = "AddDocument" -> [db : Named, col : Name, n : 1 .. MaxBatch]
      [] action \in {"UpdateDocument", "DeleteDocument"} -> DocBodies

(* One body or two; an event database may be without tables.  The actions  *)
(* that are never in SendsPairs stop after their first body, and no body   *)
(* at all changes nothing.                                                 *)
BodyLists(action) ==
    {<<body>> : body \in Bodies(action)}
       \cup (IF action \in SendsPairs THEN Bodies(action) \X Bodies(action) ELSE {})
       \cup (IF action = "CreateEventDb" THEN {<<>>} ELSE {})

(* Where apply_mutation starts with a body of each action.                 *)
Start(action) ==
    CASE action \in {"CreateDocumentDb", "MintDocumentDb"} -> "db_check"
      [] action = "CreateEventDb" -> "db_write"
      [] action = "DeleteEventDb" -> "delete_check"
      [] action \in {"AddCollection", "MintCollection"} -> "col_check"
      [] action = "AddIndex" -> "index_check"
      [] action = "AddDocument" -> "doc_state"
      [] action = "UpdateDocument" -> "update"
      [] action = "DeleteDocument" -> "owner_check"

(* The sender is the account that signed the mutation, and for a minting   *)
(* mutation the one that its body names.                                   *)
Begin(w, action, sender, bodies) ==
    /\ order' = order + 1
    /\ handler' = [handler EXCEPT ![w] =
          [pc |-> Start(action), order |-> order + 1, action |-> action, sender |-> sender,
           todo |-> bodies, new |-> {}, docs |-> {}, cols |-> {}]]
    /\ UNCHANGED <<store, history, base, flushes, crashes>>

(* Every action is accepted from a client, the minting ones included.      *)
send_mutation(w) ==
    /\ handler[w] = Free /\ Room
    /\ \E action \in Sends, sender \in Account :
          \E bodies \in BodyLists(action) : Begin(w, action, sender, bodies)

(* The mutations that the node makes of the events of the contract.        *)
handle_create_doc_database(w, db, sender) ==
    Begin(w, "MintDocumentDb", sender, <<[db |-> db]>>)

handle_create_collection(w, db, sender) ==
    \E col \in Name :
        Begin(w, "MintCollection", sender, <<[db |-> db, col |-> col, indexes |-> {}]>>)

(* One event after another.  A reorganisation of the chain brings an event *)
(* again.                                                                  *)
process_event(w) ==
    /\ handler[w] = Free /\ Room
    /\ \E db \in MintDb, sender \in Account :
          handle_create_doc_database(w, db, sender) \/ handle_create_collection(w, db, sender)

----------------------------------------------------------------------------
(* The steps of apply_mutation.                                            *)

Body(w) == Head(handler[w].todo)
Goto(w, pc) == handler' = [handler EXCEPT ![w].pc = pc]

(* The reply to the client is an error: what was written stays.            *)
Fail(w) == handler' = [handler EXCEPT ![w] = Free]

(* The next body, if any, after documents and collections were written.    *)
Again(action) == IF action = "CreateEventDb" THEN "col_check" ELSE Start(action)
NextBody(w, docs, cols) ==
    LET h == handler[w]
    IN  handler' = [handler EXCEPT ![w] =
           [h EXCEPT !.todo = Tail(h.todo),
                     !.pc = IF Len(h.todo) > 1 THEN Again(h.action) ELSE "done",
                     !.new = {}, !.docs = h.docs \cup docs, !.cols = h.cols \cup cols]]

(* The block and order of the mutation.                                    *)
Place(w) == handler[w].order - base

(* The database a mutation creates.                                        *)
NewDb(w) ==
    IF handler[w].action = "MintDocumentDb" THEN Body(w).db ELSE handler[w].order

(* create_predefined_doc_database, and the same steps of                   *)
(* create_event_database, which checks nothing and goes on to create the   *)
(* collections of its tables.                                              *)
check_database(w) ==
    /\ handler[w].pc = "db_check"
    /\ IF NewDb(w) \in DOMAIN databases THEN Fail(w) ELSE Goto(w, "db_write")
    /\ UNCHANGED <<store, history, limits>>

create_database(w) ==
    /\ handler[w].pc = "db_write"
    /\ put_database(NewDb(w), IF handler[w].action = "CreateEventDb" THEN "event" ELSE "doc",
                    handler[w].sender, Place(w))
    /\ written' = written \cup {[db |-> NewDb(w), sender |-> handler[w].sender,
                                 place |-> Place(w), order |-> handler[w].order]}
    /\ Goto(w, "db_state")
    /\ UNCHANGED <<collections, doc_owner, db_state, state_cf, block_state, acked, early, limits>>

add_database_state(w) ==
    /\ handler[w].pc = "db_state"
    /\ update_db_state_for_add_db(NewDb(w))
    /\ Goto(w, IF handler[w].action = "CreateEventDb" /\ handler[w].todo # <<>>
                 THEN "col_check" ELSE "done")
    /\ UNCHANGED <<databases, db_owner, collections, doc_owner, state_cf, block_state, history, limits>>

(* Planted fault: everyone may delete an event database                    *)
check_event_db_anyone(w) ==
    /\ handler[w].pc = "delete_check"
    /\ IF Body(w).db \in DOMAIN databases /\ databases[Body(w).db].kind = "event"
         THEN Goto(w, "delete_db")
         ELSE Fail(w)
    /\ UNCHANGED <<store, history, limits>>

(* delete_event_db: only the sender of the event database may.             *)
check_event_db(w) ==
    /\ handler[w].pc = "delete_check"
    /\ IF /\ Body(w).db \in DOMAIN databases
          /\ databases[Body(w).db] = [kind |-> "event", sender |-> handler[w].sender]
         THEN Goto(w, "delete_db")
         ELSE Fail(w)
    /\ UNCHANGED <<store, history, limits>>

delete_event_db(w) ==
    /\ handler[w].pc = "delete_db"
    /\ delete_event_db_internal(handler[w].sender, Body(w).db)
    /\ Goto(w, "done")
    /\ UNCHANGED <<collections, doc_owner, db_state, state_cf, block_state, history, limits>>

(* create_collection and add_index with save_collection_internal, which    *)
(* looks the database up before it writes.  The tables of an event         *)
(* database are created in the database it has created.                    *)
ColDb(w) == IF handler[w].action = "CreateEventDb" THEN handler[w].order ELSE Body(w).db

check_collection(w) ==
    /\ handler[w].pc = "col_check"
    /\ IF is_db_collection_exist(ColDb(w), Body(w).col) \/ ColDb(w) \notin DOMAIN databases
         THEN Fail(w)
         ELSE Goto(w, "col_write")
    /\ UNCHANGED <<store, history, limits>>

check_index(w) ==
    /\ handler[w].pc = "index_check"
    /\ LET b   == Body(w)
           key == <<b.db, b.col>>
       IN  IF b.db \in DOMAIN databases /\ key \in DOMAIN collections
             THEN IF collections[key].sender = handler[w].sender
                     /\ b.indexes \cap collections[key].indexes = {}
                    THEN handler' = [handler EXCEPT ![w] = [handler[w] EXCEPT !.pc = "col_write",
                            !.todo = <<[b EXCEPT !.indexes = @ \cup collections[key].indexes]>>]]
                    ELSE Fail(w)
             ELSE Fail(w)
    /\ UNCHANGED <<store, history, limits>>

save_collection(w) ==
    /\ handler[w].pc = "col_write"
    /\ put_collection(ColDb(w), Body(w).col, handler[w].sender, Body(w).indexes)
    /\ Goto(w, "col_state")
    /\ UNCHANGED <<databases, db_owner, doc_owner, db_state, state_cf, block_state, history, limits>>

(* Runs for an index as well, and sets the count of the collection to 0.   *)
(* NextBody leaves behind what was written: the collection as it now is.   *)
add_collection_state(w) ==
    /\ handler[w].pc = "col_state"
    /\ LET db == ColDb(w) IN
          /\ update_db_state_for_new_collection(db, Body(w).col)
          /\ early' = early \cup (IF \E v \in Worker : handler[v].pc = "db_state" /\ NewDb(v) = db
                                   THEN {<<db, Body(w).col>>} ELSE {})
          /\ NextBody(w, {}, {[db |-> db, col |-> Body(w).col, indexes |-> Body(w).indexes]})
    /\ UNCHANGED <<databases, db_owner, collections, doc_owner, state_cf, block_state, acked, written, limits>>

(* add_docs: no ids, and no error, if the database has no state.           *)
give_doc_ids(w) ==
    /\ handler[w].pc = "doc_state"
    /\ LET b == Body(w)
       IN  IF is_db_collection_exist(b.db, b.col)
             THEN /\ update_db_state_for_add_docs(b.db, b.col, b.n)
                  /\ handler' = [handler EXCEPT ![w] = [handler[w] EXCEPT
                                    !.pc = "doc_owner", !.new = new_ids(b.db, b.n)]]
             ELSE /\ Fail(w)
                  /\ UNCHANGED db_state
    /\ UNCHANGED <<databases, db_owner, collections, doc_owner, state_cf, block_state, history, limits>>

add_docs(w) ==
    /\ handler[w].pc = "doc_owner"
    /\ create_doc_ownership(handler[w].sender, Body(w).db, handler[w].new)
    /\ NextBody(w, {<<Body(w).db, id>> : id \in handler[w].new}, {})
    /\ UNCHANGED <<databases, db_owner, collections, db_state, state_cf, block_state, history, limits>>

(* update_docs patches nothing where documents are not stored.             *)
update_docs(w) ==
    /\ handler[w].pc = "update"
    /\ IF /\ is_db_collection_exist(Body(w).db, Body(w).col)
          /\ verify_docs_ownership(handler[w].sender, Body(w).db, Body(w).ids)
         THEN NextBody(w, {}, {})
         ELSE Fail(w)
    /\ UNCHANGED <<store, history, limits>>

(* Planted fault: the owner is not compared with the sender                *)
check_owner_missing(w) ==
    /\ handler[w].pc = "owner_check"
    /\ IF is_db_collection_exist(Body(w).db, Body(w).col) THEN Goto(w, "delete_state") ELSE Fail(w)
    /\ UNCHANGED <<store, history, limits>>

(* delete_docs: the collection must exist, but need not be the one that    *)
(* the documents were added to.                                            *)
check_owner(w) ==
    /\ handler[w].pc = "owner_check"
    /\ IF /\ is_db_collection_exist(Body(w).db, Body(w).col)
          /\ verify_docs_ownership(handler[w].sender, Body(w).db, Body(w).ids)
         THEN Goto(w, "delete_state")
         ELSE Fail(w)
    /\ UNCHANGED <<store, history, limits>>

delete_docs_state(w) ==
    /\ handler[w].pc = "delete_state"
    /\ update_db_state_for_delete_docs(Body(w).db, Body(w).col, Len(Body(w).ids))
    /\ Goto(w, "delete_owner")
    /\ UNCHANGED <<databases, db_owner, collections, doc_owner, state_cf, block_state, history, limits>>

delete_docs(w) ==
    /\ handler[w].pc = "delete_owner"
    /\ delete_doc_ids_from_owner_store(Body(w).db, Body(w).ids)
    /\ NextBody(w, {}, {})
    /\ UNCHANGED <<databases, db_owner, collections, db_state, state_cf, block_state, history, limits>>

(* The end of apply_mutation, and the reply.                               *)
finish(w) ==
    /\ handler[w].pc = "done"
    /\ store_block_state(handler[w].order)
    /\ acked' = acked \cup {[order |-> handler[w].order, action |-> handler[w].action,
                             sender |-> handler[w].sender,
                             docs |-> handler[w].docs, cols |-> handler[w].cols]}
    /\ handler' = [handler EXCEPT ![w] = Free]
    /\ UNCHANGED <<databases, db_owner, collections, doc_owner, db_state, state_cf>>
    /\ UNCHANGED <<written, early, limits>>

apply_mutation(w) ==
    \/ check_database(w) \/ create_database(w) \/ add_database_state(w)
    \/ check_event_db(w) \/ delete_event_db(w)
    \/ check_collection(w) \/ check_index(w) \/ save_collection(w) \/ add_collection_state(w)
    \/ give_doc_ids(w) \/ add_docs(w)
    \/ update_docs(w)
    \/ check_owner(w) \/ delete_docs_state(w) \/ delete_docs(w)
    \/ finish(w)

----------------------------------------------------------------------------
Flush ==
    /\ flushes < MaxFlush /\ Room
    /\ flushes' = flushes + 1
    /\ \E db \in DOMAIN databases : flush_database_state(db)
    /\ UNCHANGED <<databases, db_owner, collections, doc_owner, db_state, block_state>>
    /\ UNCHANGED <<handler, history, order, base, crashes>>

(* The handlers are lost; RocksDB keeps what was written.  The block       *)
(* cursor moves behind the last persisted block, or starts over when no    *)
(* block has ended (MutationStore, recover).                               *)
Restart ==
    /\ crashes < MaxCrash /\ Room
    /\ crashes' = crashes + 1
    /\ recover_db_state
    /\ handler' = [w \in Worker |-> Free]
    /\ base' \in {base, order}
    /\ UNCHANGED <<databases, db_owner, collections, doc_owner, state_cf, block_state>>
    /\ UNCHANGED <<history, order, flushes>>

Next ==
    \/ \E w \in Client : send_mutation(w)
    \/ \E w \in Processor : process_event(w)
    \/ \E w \in Worker : apply_mutation(w)
    \/ Flush
    \/ Restart

Spec == Init /\ [][Next]_vars

----------------------------------------------------------------------------
(* The type of every variable.                                             *)
TypeOK ==
    /\ DOMAIN databases \cup DOMAIN db_state \cup DOMAIN state_cf \subseteq 1 .. order \cup Named \cup MintDb
    /\ \A db \in DOMAIN databases : databases[db] \in [kind : {"doc", "event"}, sender : Account]
    /\ \A db \in DOMAIN db_state :
          /\ db_state[db].doc_order \in Nat /\ db_state[db].total \in Nat
          /\ DOMAIN db_state[db].count \subseteq Name
          /\ \A col \in DOMAIN db_state[db].count : db_state[db].count[col] \in Nat
    /\ \A k \in DOMAIN collections :
          k[2] \in Name /\ collections[k] \in [sender : Account, indexes : SUBSET Path]
    /\ \A k \in DOMAIN doc_owner : k[2] \in Nat \ {0} /\ doc_owner[k] \in Account
    /\ block_state \in 0 .. order

(* The record of the database was written by two mutations: two minting    *)
(* mutations of it that overlap, or a client that mints the address of a   *)
(* database another mutation creates.  Each inserts an empty state.        *)
Twice(db) == \E x, y \in written : x # y /\ x.db = db /\ y.db = db

(* The state of the database was inserted once, and a restart did not take *)
(* it from what was flushed.                                               *)
Steady(db) == ~Twice(db) /\ (crashes = 0 \/ db \notin DOMAIN state_cf)

(* "Only the owner can update or delete the JSON document": the owner of a *)
(* document never changes, and its entry goes away only by a handler of    *)
(* the owner.  delete_docs verified the owner some steps before, and       *)
(* create_doc_ownership does not look at all.                              *)
OwnerStep(k) ==
    IF k \in DOMAIN doc_owner'
      THEN doc_owner'[k] = doc_owner[k]
      ELSE \E w \in Worker : handler[w].pc = "delete_owner" /\ handler[w].sender = doc_owner[k]
                              /\ handler'[w] # handler[w]
OwnersDecide == [][\A k \in DOMAIN doc_owner : OwnerStep(k)]_vars

(* The same of the databases whose state is steady, where the code keeps   *)
(* to it: whichever handlers overlap, and after a crash between giving out *)
(* ids and writing their owners.                                           *)
SteadyOwnersDecide == [][\A k \in DOMAIN doc_owner : Steady(k[1]) => OwnerStep(k)]_vars

(* The documents a handler has been given ids for and owns not yet.        *)
Pending(w) ==
    IF handler[w].pc = "doc_owner" THEN {<<Body(w).db, id>> : id \in handler[w].new} ELSE {}

(* update_db_state_for_add_docs gives an id of a database with a steady    *)
(* state out once, whichever handlers add and delete documents at the same *)
(* time: an id on its way to a client is no other handler's, nor that of a *)
(* document there is, nor, before the first restart, of one there was.     *)
IdsOnce ==
    /\ \A w \in Worker : \A k \in Pending(w) : Steady(k[1]) =>
          /\ k \notin DOMAIN doc_owner
          /\ \A v \in Worker \ {w} : k \notin Pending(v)
          /\ crashes = 0 => \A r \in acked : k \notin r.docs
    /\ crashes = 0 => \A r, s \in acked : r # s =>
          \A k \in r.docs \cap s.docs : Twice(k[1])

(* A later database of the same sender was listed at the same place of the *)
(* log, after a restart that set the block cursor back.                    *)
Displaced(db) ==
    \E x, y \in written : /\ x.db = db /\ x.order < y.order
                          /\ x.sender = y.sender /\ x.place = y.place

(* get_database_of_owner_internal finds a database under its sender, once, *)
(* and under nobody else, and no database that was deleted: the database   *)
(* and its entry in the owner's list come and go together, in whatever     *)
(* order handlers create and delete.  Left out is what the code does not   *)
(* keep: a database written twice, and one whose entry was displaced.      *)
DatabasesListed ==
    \A x \in written : Twice(x.db) \/ Displaced(x.db) \/
        {k \in DOMAIN db_owner : db_owner[k] = x.db} =
        {<<databases[db].sender, x.place>> : db \in DOMAIN databases \cap {x.db}}

AtRest == \A w \in Worker : handler[w] = Free


(* "The Data Index Node synchronizes data from the Data Rollup Node": what *)
(* the store holds when no mutation is under way is what the log of the    *)
(* answered mutations tells.  Every document was added by one of them, by  *)
(* its owner; a collection is that of the first of them to create it, as   *)
(* a second creation is refused; and it has every index they gave it.      *)
LogTellsStore ==
    AtRest =>
      /\ \A k \in DOMAIN doc_owner : \E r \in acked : k \in r.docs /\ r.sender = doc_owner[k]
      /\ \A k \in DOMAIN collections :
            LET wrote(r) == {c \in r.cols : c.db = k[1] /\ c.col = k[2]}
                created  == {r \in acked : r.action # "AddIndex" /\ wrote(r) # {}}
            IN  /\ \E r \in created : /\ r.sender = collections[k].sender
                                      /\ \A q \in created : r.order <= q.order
                /\ \A r \in acked : \A c \in wrote(r) : c.indexes \subseteq collections[k].indexes

=============================================================================
