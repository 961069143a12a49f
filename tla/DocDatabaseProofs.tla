------------------------- MODULE DocDatabaseProofs -------------------------
(***************************************************************************)
(* Proofs about the database store under any number of concurrent          *)
(* handlers, any accounts, names and bounds, with clients that mint        *)
(* databases and restarts that give places in the log out again.           *)
(*                                                                         *)
(* The argument rests on the history of the databases written.  History    *)
(* says that every database and every entry of an owner's list was put     *)
(* there by a write of the history, and that a handler which is about to   *)
(* write has a place of its own since the block cursor was last set back;  *)
(* Listed is DatabasesListed in terms of the write that put the database.  *)
(***************************************************************************)
EXTENDS DocDatabase, TLAPS

USE SMTT(40), ZenonT(40)

(* The local variables of a handler at work.                               *)
Local(pc, o, action, sender, todo, new, docs, cols) ==
    [pc |-> pc, order |-> o, action |-> action, sender |-> sender,
     todo |-> todo, new |-> new, docs |-> docs, cols |-> cols]

Rec(h) == h = Local(h.pc, h.order, h.action, h.sender, h.todo, h.new, h.docs, h.cols)

(* The steps before a database is written, or deleted.                     *)
Changing == {"db_check", "db_write", "delete_db"}

(* A handler beyond the first step of its mutation does not start another  *)
(* body by writing or deleting a database.                                 *)
Doing(h) ==
    h.pc \in {"db_state", "col_check", "index_check", "col_write", "col_state", "doc_state", "doc_owner",
              "update", "owner_check", "delete_state", "delete_owner"} =>
        Again(h.action) \notin Changing \cup {"free"}
        \/ (h.pc = "db_state" /\ h.action # "CreateEventDb")

Shape ==
    /\ order \in Nat /\ base \in 0 .. order
    /\ handler = [w \in Worker |-> handler[w]]
    /\ \A w \in Worker : handler[w] # Free =>
          /\ Rec(handler[w]) /\ handler[w].pc # "free" /\ Doing(handler[w])
          /\ handler[w].order \in base + 1 .. order
    /\ \A w, v \in Worker :
          w # v /\ handler[w] # Free /\ handler[v] # Free => handler[w].order # handler[v].order

Busy(w, pcs) == handler[w] # Free /\ handler[w].pc \in pcs

(* x put the database db there, or its entry.                              *)
Wrote(x, db, sender) == x \in written /\ x.db = db /\ x.sender = sender

History ==
    /\ \A x \in written :
          /\ x.order \in 1 .. order /\ x.place \in Int
          /\ x.order <= base \/ x.place = x.order - base
          /\ \A w \in Worker : Busy(w, {"db_check", "db_write"}) => x.order # handler[w].order
    /\ \A db \in DOMAIN databases : \E x \in written : Wrote(x, db, databases[db].sender)
    /\ \A k \in DOMAIN db_owner : \E x \in written :
          Wrote(x, db_owner[k], x.sender) /\ k = <<x.sender, x.place>>
    /\ \A w \in Worker : Busy(w, {"delete_db"}) =>
          \E x \in written : Wrote(x, Body(w).db, handler[w].sender)

Entered(x) ==
    <<x.sender, x.place>> \in DOMAIN db_owner /\ db_owner[<<x.sender, x.place>>] = x.db

Listed ==
    \A x \in written : Twice(x.db) \/ Displaced(x.db) \/ (x.db \in DOMAIN databases <=> Entered(x))

Inv == Shape /\ History /\ Listed

LEMMA InvInit == Init => Inv
  BY DEF Init, DBStoreInit, Inv, Shape, History, Listed, Free, Busy

LEMMA InvListed == Inv => DatabasesListed
  <1> SUFFICES ASSUME Inv, NEW x \in written, ~Twice(x.db), ~Displaced(x.db)
               PROVE  {k \in DOMAIN db_owner : db_owner[k] = x.db} =
                      {<<databases[db].sender, x.place>> : db \in DOMAIN databases \cap {x.db}}
    BY DEF DatabasesListed
  <1>1. \A y \in written : y.db = x.db => y = x
    BY DEF Twice
  <1>2. \A k \in DOMAIN db_owner : db_owner[k] = x.db => k = <<x.sender, x.place>>
    BY <1>1 DEF Inv, History, Wrote
  <1>3. x.db \in DOMAIN databases => databases[x.db].sender = x.sender
    BY <1>1 DEF Inv, History, Wrote
  <1>4. x.db \in DOMAIN databases <=> Entered(x)
    BY DEF Inv, Listed
  <1> QED
    BY <1>2, <1>3, <1>4 DEF Entered

----------------------------------------------------------------------------
(* What a step makes of the handler that takes it.                         *)

(* Only w moves, and is not about to write or delete a database after.     *)
Leaves(w) ==
    /\ Shape' /\ \A v \in Worker : v # w => handler'[v] = handler[v]
    /\ ~Busy(w, Changing)'

LEMMA Moves ==
    ASSUME Shape, NEW w \in Worker, handler[w] # Free, NEW g,
           handler' = [handler EXCEPT ![w] = g], Rec(g), g.pc # "free", Doing(g),
           g.order = handler[w].order, UNCHANGED <<order, base>>
    PROVE  /\ Shape' /\ handler'[w] = g /\ g # Free
           /\ \A v \in Worker : v # w => handler'[v] = handler[v]
  <1>1. g # Free
    BY DEF Free
  <1>2. handler' = [v \in Worker |-> IF v = w THEN g ELSE handler[v]]
    BY DEF Shape
  <1> QED
    BY <1>1, <1>2 DEF Shape

LEMMA Goes ==
    ASSUME Shape, NEW w \in Worker, handler[w] # Free, NEW pc, Goto(w, pc), pc # "free",
           UNCHANGED <<order, base>>, Doing([handler[w] EXCEPT !.pc = pc])
    PROVE  /\ Shape' /\ \A v \in Worker : v # w => handler'[v] = handler[v]
           /\ handler'[w].pc = pc /\ handler'[w].order = handler[w].order
           /\ handler'[w].sender = handler[w].sender /\ handler'[w].todo = handler[w].todo
  <1> DEFINE g == [handler[w] EXCEPT !.pc = pc]
  <1>1. /\ g.pc = pc /\ g.order = handler[w].order
        /\ g.sender = handler[w].sender /\ g.todo = handler[w].todo /\ Rec(g)
    BY DEF Shape, Rec, Local
  <1>2. handler' = [handler EXCEPT ![w] = g] /\ Doing(g)
    BY DEF Goto, Shape
  <1> HIDE DEF g
  <1> QED
    BY <1>1, <1>2, Moves, Zenon

LEMMA Fails ==
    ASSUME Shape, NEW w \in Worker, Fail(w), UNCHANGED <<order, base>>
    PROVE  Leaves(w)
  <1>1. handler' = [v \in Worker |-> IF v = w THEN Free ELSE handler[v]]
    BY DEF Fail, Shape
  <1>2. Shape'
    BY <1>1 DEF Shape
  <1> QED
    BY <1>1, <1>2 DEF Leaves, Busy

(* A handler with another value of one of its other fields.                *)
Same(h, g) == Rec(g) /\ g.pc = h.pc /\ g.order = h.order /\ g.action = h.action

LEMMA Fields ==
    ASSUME NEW h, Rec(h), NEW v
    PROVE  /\ Same(h, [h EXCEPT !.todo = v])
           /\ Same(h, [h EXCEPT !.new = v])
           /\ Same(h, [h EXCEPT !.docs = v])
           /\ Same(h, [h EXCEPT !.cols = v])
  <1>1. Same(h, [h EXCEPT !.todo = v])
    BY DEF Same, Rec, Local
  <1>2. Same(h, [h EXCEPT !.new = v])
    BY DEF Same, Rec, Local
  <1>3. Same(h, [h EXCEPT !.docs = v])
    BY DEF Same, Rec, Local
  <1>4. Same(h, [h EXCEPT !.cols = v])
    BY DEF Same, Rec, Local
  <1> QED
    BY <1>1, <1>2, <1>3, <1>4

LEMMA NextBodies ==
    ASSUME Shape, NEW w \in Worker, handler[w] # Free, NEW docs, NEW cols, NextBody(w, docs, cols),
           handler[w].pc \in {"col_state", "doc_owner", "update", "delete_owner"},
           UNCHANGED <<order, base>>
    PROVE  Leaves(w)
  <1> DEFINE h == handler[w]
             pc == IF Len(h.todo) > 1 THEN Again(h.action) ELSE "done"
             g1 == [h EXCEPT !.todo = Tail(h.todo)]
             g2 == [g1 EXCEPT !.pc = pc]
             g3 == [g2 EXCEPT !.new = {}]
             g4 == [g3 EXCEPT !.docs = h.docs \cup docs]
             g == [g4 EXCEPT !.cols = h.cols \cup cols]
  <1>1. handler' = [handler EXCEPT ![w] = g]
    BY DEF NextBody
  <1>2. /\ Rec(h) /\ pc \notin Changing \cup {"free"}
        /\ pc = "done" \/ Again(h.action) \notin Changing \cup {"free"}
    BY DEF Shape, Doing, Changing
  <1> HIDE DEF pc
  <1>3. Rec(g) /\ g.pc = pc /\ g.order = h.order /\ g.action = h.action
    <2>1. Same(h, g1)
      BY <1>2, Fields, Zenon
    <2> HIDE DEF g1
    <2>2. Rec(g2) /\ g2.pc = pc /\ g2.order = h.order /\ g2.action = h.action
      BY <2>1 DEF Same, Rec, Local
    <2> HIDE DEF g2
    <2>3. Same(g2, g3)
      BY <2>2, Fields, Zenon
    <2> HIDE DEF g3
    <2>4. Same(g3, g4)
      BY <2>3, Fields, Zenon DEF Same
    <2> HIDE DEF g4
    <2>5. Same(g4, g)
      BY <2>4, Fields, Zenon DEF Same
    <2> HIDE DEF g
    <2> QED
      BY <2>2, <2>3, <2>4, <2>5 DEF Same
  <1> HIDE DEF g
  <1>4. Doing(g)
    BY <1>2, <1>3 DEF Doing, Changing
  <1> QED
    BY <1>1, <1>2, <1>3, <1>4, Moves, Zenon DEF Leaves, Busy, Changing

(* The same of a step that goes on with the body at hand.                  *)
LEMMA GoesOn ==
    ASSUME Shape, NEW w \in Worker, handler[w] # Free, NEW pc, Goto(w, pc),
           UNCHANGED <<order, base>>, pc \notin Changing \cup {"free"},
           \/ pc = "done"
           \/ handler[w].pc \in {"col_check", "col_write", "owner_check", "delete_state"}
           \/ handler[w].pc = "db_state" /\ handler[w].action = "CreateEventDb"
    PROVE  Leaves(w)
  <1>1. Doing([handler[w] EXCEPT !.pc = pc])
    BY DEF Shape, Doing, Rec, Local, Changing
  <1> QED
    BY <1>1, Goes DEF Leaves, Busy

----------------------------------------------------------------------------
(* A step that writes and deletes no database.                             *)

LEMMA Quiet ==
    ASSUME Inv, Shape', UNCHANGED <<databases, db_owner, written, base>>, order' >= order,
           \A v \in Worker :
              /\ Busy(v, {"db_check", "db_write"})' =>
                    \/ handler'[v].order > order
                    \/ Busy(v, {"db_check", "db_write"}) /\ handler'[v].order = handler[v].order
              /\ Busy(v, {"delete_db"})' =>
                    \/ handler'[v] = handler[v]
                    \/ \E x \in written : Wrote(x, Head(handler'[v].todo).db, handler'[v].sender)
    PROVE  Inv'
  <1>1. History'
    <2>1. ASSUME NEW x \in written
          PROVE  /\ x.order \in 1 .. order' /\ x.place \in Int
                 /\ x.order <= base \/ x.place = x.order - base
                 /\ \A v \in Worker : Busy(v, {"db_check", "db_write"})' => x.order # handler'[v].order
      BY DEF Inv, History, Shape
    <2>2. \A v \in Worker : Busy(v, {"delete_db"})' =>
             \E x \in written : Wrote(x, Head(handler'[v].todo).db, handler'[v].sender)
      BY DEF Inv, History, Busy, Body, Wrote
    <2> QED
      BY <2>1, <2>2 DEF Inv, History, Wrote, Body
  <1>2. Listed'
    BY DEF Inv, Listed, Twice, Displaced, Entered
  <1> QED
    BY <1>1, <1>2 DEF Inv

LEMMA Leaving ==
    ASSUME Inv, NEW w \in Worker, Leaves(w), UNCHANGED <<databases, db_owner, written, order, base>>
    PROVE  Inv'
  <1>1. \A v \in Worker :
           /\ Busy(v, {"db_check", "db_write"})' =>
                 Busy(v, {"db_check", "db_write"}) /\ handler'[v].order = handler[v].order
           /\ Busy(v, {"delete_db"})' => handler'[v] = handler[v]
    BY DEF Leaves, Busy, Changing
  <1> QED
    BY <1>1, Quiet DEF Leaves, Inv, Shape

LEMMA Beginning ==
    ASSUME Inv, NEW w \in Worker, handler[w] = Free, NEW sender, NEW bodies,
           NEW action \in {"CreateDocumentDb", "CreateEventDb", "DeleteEventDb", "AddCollection",
                           "AddIndex", "AddDocument", "UpdateDocument", "DeleteDocument",
                           "MintDocumentDb", "MintCollection"},
           Begin(w, action, sender, bodies)
    PROVE  Inv'
  <1> DEFINE g == [pc |-> Start(action), order |-> order + 1, action |-> action, sender |-> sender,
                   todo |-> bodies, new |-> {}, docs |-> {}, cols |-> {}]
  <1>1. handler' = [v \in Worker |-> IF v = w THEN g ELSE handler[v]]
    BY Zenon DEF Begin, Inv, Shape
  <1>2. /\ order' = order + 1 /\ UNCHANGED <<databases, db_owner, written, base>>
        /\ order \in Nat
    BY DEF Begin, store, history, Inv, Shape
  <1>3. Rec(g) /\ g.order = order + 1 /\ g.pc = Start(action) /\ g.action = action
    BY DEF Rec, Local
  <1> HIDE DEF g
  <1>4. g.pc \notin {"free", "delete_db"} /\ Doing(g)
    BY <1>3 DEF Start, Doing, Again, Changing
  <1>5. Shape'
    BY <1>1, <1>2, <1>3, <1>4 DEF Inv, Shape
  <1>6. \A v \in Worker :
           /\ Busy(v, {"db_check", "db_write"})' =>
                 \/ handler'[v].order > order
                 \/ Busy(v, {"db_check", "db_write"}) /\ handler'[v].order = handler[v].order
           /\ Busy(v, {"delete_db"})' => handler'[v] = handler[v]
    BY <1>1, <1>2, <1>3, <1>4 DEF Busy
  <1> QED
    BY <1>2, <1>5, <1>6, Quiet

LEMMA AtWork ==
    ASSUME NEW w \in Worker, handler[w].pc # "free"
    PROVE  handler[w] # Free
  BY DEF Free

LEMMA CheckingDatabase ==
    ASSUME Inv, NEW w \in Worker, check_database(w)
    PROVE  Inv'
  <1>1. handler[w].pc = "db_check" /\ handler[w] # Free
    BY AtWork DEF check_database
  <1>2. UNCHANGED <<databases, db_owner, written, order, base>>
    BY DEF check_database, store, history, limits
  <1>3. CASE Fail(w)
    BY <1>2, <1>3, Fails, Leaving DEF Inv
  <1>4. CASE Goto(w, "db_write")
    <2>1. Doing([handler[w] EXCEPT !.pc = "db_write"])
      BY <1>1 DEF Inv, Shape, Doing, Rec, Local
    <2>2. /\ Shape' /\ \A v \in Worker : v # w => handler'[v] = handler[v]
          /\ handler'[w].pc = "db_write" /\ handler'[w].order = handler[w].order
      BY <1>1, <1>2, <1>4, <2>1, Goes DEF Inv
    <2>3. \A v \in Worker :
             /\ Busy(v, {"db_check", "db_write"})' =>
                   Busy(v, {"db_check", "db_write"}) /\ handler'[v].order = handler[v].order
             /\ Busy(v, {"delete_db"})' => handler'[v] = handler[v]
      BY <1>1, <2>2 DEF Busy
    <2> QED
      BY <1>2, <2>2, <2>3, Quiet DEF Inv, Shape
  <1> QED
    BY <1>3, <1>4 DEF check_database

LEMMA CheckingEventDb ==
    ASSUME Inv, NEW w \in Worker, check_event_db(w)
    PROVE  Inv'
  <1>1. handler[w].pc = "delete_check" /\ handler[w] # Free
    BY AtWork DEF check_event_db
  <1>2. UNCHANGED <<databases, db_owner, written, order, base>>
    BY DEF check_event_db, store, history, limits
  <1>3. CASE Fail(w)
    BY <1>2, <1>3, Fails, Leaving DEF Inv
  <1>4. CASE /\ Goto(w, "delete_db") /\ Body(w).db \in DOMAIN databases
             /\ databases[Body(w).db] = [kind |-> "event", sender |-> handler[w].sender]
    <2>1. Doing([handler[w] EXCEPT !.pc = "delete_db"])
      BY <1>1 DEF Inv, Shape, Doing, Rec, Local
    <2>2. /\ Shape' /\ \A v \in Worker : v # w => handler'[v] = handler[v]
          /\ handler'[w].pc = "delete_db" /\ handler'[w].todo = handler[w].todo
          /\ handler'[w].sender = handler[w].sender
      BY <1>1, <1>2, <1>4, <2>1, Goes DEF Inv
    <2>3. \E x \in written : Wrote(x, Head(handler'[w].todo).db, handler'[w].sender)
      <3>1. \E x \in written : Wrote(x, Body(w).db, databases[Body(w).db].sender)
        BY <1>4, Zenon DEF Inv, History
      <3>2. databases[Body(w).db].sender = handler[w].sender
        BY <1>4
      <3> QED
        BY <2>2, <3>1, <3>2 DEF Body
    <2>4. \A v \in Worker :
             /\ Busy(v, {"db_check", "db_write"})' =>
                   Busy(v, {"db_check", "db_write"}) /\ handler'[v].order = handler[v].order
             /\ Busy(v, {"delete_db"})' => v = w \/ handler'[v] = handler[v]
      BY <2>2 DEF Busy
    <2> QED
      BY <1>2, <2>2, <2>3, <2>4, Quiet DEF Inv, Shape
  <1> QED
    BY <1>3, <1>4 DEF check_event_db

(* The steps that write collections, documents and state.                  *)
LEMMA Resting ==
    ASSUME Inv, NEW w \in Worker,
           \/ add_database_state(w) \/ check_collection(w) \/ check_index(w) \/ save_collection(w)
           \/ add_collection_state(w) \/ give_doc_ids(w) \/ add_docs(w) \/ update_docs(w)
           \/ check_owner(w) \/ delete_docs_state(w) \/ delete_docs(w) \/ finish(w)
    PROVE  Inv'
  <1>1. UNCHANGED <<databases, db_owner, written, order, base>>
    BY DEF add_database_state, check_collection, check_index, save_collection, add_collection_state,
           give_doc_ids, add_docs, update_docs, check_owner, delete_docs_state, delete_docs, finish,
           store, history, limits
  <1>2. Shape
    BY DEF Inv
  <1>3. Leaves(w)
    <2>1. CASE add_database_state(w)
      BY <1>1, <1>2, <2>1, AtWork, GoesOn DEF add_database_state, Changing
    <2>2. CASE check_collection(w)
      BY <1>1, <1>2, <2>2, AtWork, GoesOn, Fails DEF check_collection, Changing
    <2>3. CASE check_index(w)
      <3>1. CASE Fail(w)
        BY <1>1, <1>2, <3>1, Fails
      <3>2. CASE ~Fail(w)
        <4>1. PICK t : handler' = [handler EXCEPT ![w] = [handler[w] EXCEPT !.pc = "col_write", !.todo = t]]
          BY <2>3, <3>2 DEF check_index
        <4> DEFINE g1 == [handler[w] EXCEPT !.pc = "col_write"]
                   g == [g1 EXCEPT !.todo = t]
        <4>2. handler[w] # Free /\ handler[w].pc = "index_check"
          BY <2>3, AtWork DEF check_index
        <4>3. /\ Rec(g1) /\ g1.pc = "col_write" /\ g1.order = handler[w].order
              /\ g1.action = handler[w].action
          BY <1>2, <4>2 DEF Shape, Rec, Local
        <4>4. handler' = [handler EXCEPT ![w] = g]
          BY <4>1
        <4> HIDE DEF g1
        <4>5. Same(g1, g)
          BY <4>3, Fields, Zenon
        <4> HIDE DEF g
        <4>6. Rec(g) /\ g.pc = "col_write" /\ g.order = handler[w].order /\ Doing(g)
          BY <1>2, <4>2, <4>3, <4>5 DEF Same, Shape, Doing
        <4> QED
          BY <1>1, <1>2, <4>2, <4>4, <4>6, Moves, ZenonT(40) DEF Leaves, Busy, Changing
      <3> QED
        BY <3>1, <3>2
    <2>4. CASE save_collection(w)
      BY <1>1, <1>2, <2>4, AtWork, GoesOn DEF save_collection, Changing
    <2>5. CASE add_collection_state(w)
      BY <1>1, <1>2, <2>5, AtWork, NextBodies DEF add_collection_state
    <2>6. CASE give_doc_ids(w)
      <3>1. CASE Fail(w)
        BY <1>1, <1>2, <3>1, Fails
      <3>2. CASE ~Fail(w)
        <4>1. PICK n : handler' = [handler EXCEPT ![w] = [handler[w] EXCEPT !.pc = "doc_owner", !.new = n]]
          BY <2>6, <3>2 DEF give_doc_ids
        <4> DEFINE g1 == [handler[w] EXCEPT !.pc = "doc_owner"]
                   g == [g1 EXCEPT !.new = n]
        <4>2. handler[w] # Free /\ handler[w].pc = "doc_state"
          BY <2>6, AtWork DEF give_doc_ids
        <4>3. /\ Rec(g1) /\ g1.pc = "doc_owner" /\ g1.order = handler[w].order
              /\ g1.action = handler[w].action
          BY <1>2, <4>2 DEF Shape, Rec, Local
        <4>4. handler' = [handler EXCEPT ![w] = g]
          BY <4>1
        <4> HIDE DEF g1
        <4>5. Same(g1, g)
          BY <4>3, Fields, Zenon
        <4> HIDE DEF g
        <4>6. Rec(g) /\ g.pc = "doc_owner" /\ g.order = handler[w].order /\ Doing(g)
          BY <1>2, <4>2, <4>3, <4>5 DEF Same, Shape, Doing
        <4> QED
          BY <1>1, <1>2, <4>2, <4>4, <4>6, Moves, ZenonT(40) DEF Leaves, Busy, Changing
      <3> QED
        BY <3>1, <3>2
    <2>7. CASE add_docs(w)
      BY <1>1, <1>2, <2>7, AtWork, NextBodies DEF add_docs
    <2>8. CASE update_docs(w)
      BY <1>1, <1>2, <2>8, AtWork, NextBodies, Fails DEF update_docs
    <2>9. CASE check_owner(w)
      BY <1>1, <1>2, <2>9, AtWork, GoesOn, Fails DEF check_owner, Changing
    <2>10. CASE delete_docs_state(w)
      BY <1>1, <1>2, <2>10, AtWork, GoesOn DEF delete_docs_state, Changing
    <2>11. CASE delete_docs(w)
      BY <1>1, <1>2, <2>11, AtWork, NextBodies DEF delete_docs
    <2>12. CASE finish(w)
      BY <1>1, <1>2, <2>12, Fails, Zenon DEF finish, Fail
    <2> QED
      BY <2>1, <2>2, <2>3, <2>4, <2>5, <2>6, <2>7, <2>8, <2>9, <2>10, <2>11, <2>12
  <1> QED
    BY <1>1, <1>3, Leaving

----------------------------------------------------------------------------
(* The two steps that change the databases and the lists.                  *)

(* The entry of another write goes only if that write is displaced: since  *)
(* the cursor was last set back no other write had this place.             *)
LEMMA CreatingDatabase ==
    ASSUME Inv, NEW w \in Worker, create_database(w)
    PROVE  Inv'
  <1>1. PICK db, kind, s, o, p, y :
           /\ db = NewDb(w) /\ s = handler[w].sender /\ o = handler[w].order /\ p = o - base
           /\ kind = (IF handler[w].action = "CreateEventDb" THEN "event" ELSE "doc")
           /\ y = [db |-> db, sender |-> s, place |-> p, order |-> o]
    BY Zenon
  <1>2. handler[w].pc = "db_write" /\ handler[w] # Free /\ Busy(w, {"db_check", "db_write"})
    BY AtWork DEF create_database, Busy
  <1>3. /\ databases' = Put(databases, db, [kind |-> kind, sender |-> s])
        /\ db_owner' = Put(db_owner, <<s, p>>, db)
        /\ written' = written \cup {y}
        /\ UNCHANGED <<order, base>> /\ Goto(w, "db_state")
    BY <1>1 DEF create_database, put_database, Place, limits
  <1>4. o \in base + 1 .. order /\ order \in Nat /\ base \in Nat /\ p \in Int
    BY <1>1, <1>2 DEF Inv, Shape
  <1>5. Leaves(w)
    <2>1. Doing([handler[w] EXCEPT !.pc = "db_state"])
      BY <1>2 DEF Inv, Shape, Doing, Rec, Local, Again, Changing
    <2> QED
      BY <1>2, <1>3, <2>1, Goes DEF Inv, Leaves, Busy, Changing
  <1>6. y.db = db /\ y.sender = s /\ y.place = p /\ y.order = o
    BY <1>1
  <1>7. \A x \in written : x.order # o /\ (x.place = p => x.order < o)
    BY <1>1, <1>2, <1>4 DEF Inv, History
  <1>8. \A v \in Worker :
           /\ Busy(v, {"db_check", "db_write"})' =>
                 /\ Busy(v, {"db_check", "db_write"}) /\ handler'[v].order = handler[v].order
                 /\ handler'[v].order # o
           /\ Busy(v, {"delete_db"})' => Busy(v, {"delete_db"}) /\ handler'[v] = handler[v]
    BY <1>1, <1>2, <1>5 DEF Leaves, Busy, Changing, Inv, Shape
  <1>9. History'
    <2>1. ASSUME NEW x \in written'
          PROVE  /\ x.order \in 1 .. order /\ x.place \in Int
                 /\ x.order <= base \/ x.place = x.order - base
                 /\ \A v \in Worker : Busy(v, {"db_check", "db_write"})' => x.order # handler'[v].order
      <3>1. CASE x = y
        BY <1>1, <1>4, <1>6, <1>8, <3>1
      <3>2. CASE x \in written
        <4>1. \A v \in Worker : Busy(v, {"db_check", "db_write"}) => x.order # handler[v].order
          BY <3>2, Zenon DEF Inv, History
        <4>2. \A v \in Worker : Busy(v, {"db_check", "db_write"})' => x.order # handler'[v].order
          BY <1>8, <4>1, Zenon
        <4> QED
          BY <3>2, <4>2 DEF Inv, History
      <3> QED
        BY <1>3, <3>1, <3>2
    <2>2. ASSUME NEW d \in DOMAIN databases'
          PROVE  \E x \in written' : Wrote(x, d, databases[d].sender)'
      <3>1. CASE d = db
        BY <1>3, <1>6, <3>1 DEF Wrote, Put
      <3>2. CASE d # db
        <4>1. d \in DOMAIN databases /\ databases'[d] = databases[d]
          BY <1>3, <3>2 DEF Put
        <4>2. PICK x \in written : Wrote(x, d, databases[d].sender)
          BY <4>1, Zenon DEF Inv, History
        <4> QED
          BY <1>3, <4>1, <4>2 DEF Wrote
      <3> QED
        BY <3>1, <3>2
    <2>3. ASSUME NEW k \in DOMAIN db_owner'
          PROVE  \E x \in written' : Wrote(x, db_owner[k], x.sender)' /\ k = <<x.sender, x.place>>
      <3>1. CASE k = <<s, p>>
        BY <1>3, <1>6, <3>1 DEF Wrote, Put
      <3>2. CASE k # <<s, p>>
        <4>1. k \in DOMAIN db_owner /\ db_owner'[k] = db_owner[k]
          BY <1>3, <3>2 DEF Put
        <4>2. PICK x \in written : Wrote(x, db_owner[k], x.sender) /\ k = <<x.sender, x.place>>
          BY <4>1, Zenon DEF Inv, History
        <4> QED
          BY <1>3, <4>1, <4>2 DEF Wrote
      <3> QED
        BY <3>1, <3>2
    <2>4. \A v \in Worker : Busy(v, {"delete_db"})' =>
             \E x \in written' : Wrote(x, Body(v).db, handler[v].sender)'
      <3> SUFFICES ASSUME NEW v \in Worker, Busy(v, {"delete_db"})'
                   PROVE  \E x \in written' : Wrote(x, Body(v).db, handler[v].sender)'
        OBVIOUS
      <3>1. Busy(v, {"delete_db"}) /\ handler'[v] = handler[v]
        BY <1>8, Zenon
      <3>2. PICK x \in written : Wrote(x, Body(v).db, handler[v].sender)
        BY <3>1, Zenon DEF Inv, History
      <3> QED
        BY <1>3, <3>1, <3>2 DEF Wrote, Body
    <2> QED
      BY <1>3, <2>1, <2>2, <2>3, <2>4 DEF History, Body, Wrote
  <1>10. Listed'
    <2> SUFFICES ASSUME NEW x \in written', ~Twice(x.db)', ~Displaced(x.db)'
                 PROVE  x.db \in DOMAIN databases' <=> Entered(x)'
      BY DEF Listed
    <2>1. CASE x = y
      BY <1>3, <1>6, <2>1 DEF Entered, Put
    <2>2. CASE x # y
      <3>1. x \in written /\ ~Twice(x.db) /\ ~Displaced(x.db)
        BY <1>3, <2>2 DEF Twice, Displaced
      <3>2. x.db # db
        BY <1>3, <1>6, <2>2, <3>1 DEF Twice
      <3>3. <<x.sender, x.place>> # <<s, p>>
        BY <1>3, <1>6, <1>7, <3>1 DEF Displaced
      <3>4. x.db \in DOMAIN databases <=> Entered(x)
        BY <3>1 DEF Inv, Listed
      <3> QED
        BY <1>3, <3>2, <3>3, <3>4 DEF Entered, Put
    <2> QED
      BY <2>1, <2>2
  <1> QED
    BY <1>5, <1>9, <1>10 DEF Inv, Leaves

(* What is deleted is the database that its sender wrote; if no other      *)
(* write names it, its entry is the first, and only, one found.            *)
LEMMA DeletingDatabase ==
    ASSUME Inv, NEW w \in Worker, delete_event_db(w)
    PROVE  Inv'
  <1>1. PICK db, s, entries, first :
           /\ db = Body(w).db /\ s = handler[w].sender
           /\ entries = {k \in DOMAIN db_owner : k[1] = s /\ db_owner[k] = db}
           /\ first = {k \in entries : \A j \in entries : k[2] <= j[2]}
    BY Zenon
  <1>2. handler[w].pc = "delete_db" /\ handler[w] # Free /\ Busy(w, {"delete_db"})
    BY AtWork DEF delete_event_db, Busy
  <1>3. /\ databases' = Remove(databases, {db}) /\ db_owner' = Remove(db_owner, first)
        /\ UNCHANGED <<written, order, base>> /\ Goto(w, "done")
    BY <1>1 DEF delete_event_db, delete_event_db_internal, history, limits
  <1>4. Leaves(w)
    BY <1>2, <1>3, GoesOn DEF Inv, Changing
  <1>5. \A v \in Worker :
           /\ Busy(v, {"db_check", "db_write"})' =>
                 Busy(v, {"db_check", "db_write"}) /\ handler'[v].order = handler[v].order
           /\ Busy(v, {"delete_db"})' => Busy(v, {"delete_db"}) /\ handler'[v] = handler[v]
    BY <1>4 DEF Leaves, Busy, Changing
  <1>6. History'
    <2>1. ASSUME NEW x \in written'
          PROVE  /\ x.order \in 1 .. order /\ x.place \in Int
                 /\ x.order <= base \/ x.place = x.order - base
                 /\ \A v \in Worker : Busy(v, {"db_check", "db_write"})' => x.order # handler'[v].order
      <3>1. \A v \in Worker : Busy(v, {"db_check", "db_write"}) => x.order # handler[v].order
        BY <1>3, Zenon DEF Inv, History
      <3>2. \A v \in Worker : Busy(v, {"db_check", "db_write"})' => x.order # handler'[v].order
        BY <1>5, <3>1, Zenon
      <3> QED
        BY <1>3, <3>2 DEF Inv, History
    <2>2. \A d \in DOMAIN databases' : \E x \in written' : Wrote(x, d, databases[d].sender)'
      BY <1>3, ZenonT(40) DEF Inv, History, Wrote, Remove
    <2>3. \A k \in DOMAIN db_owner' : \E x \in written' :
             Wrote(x, db_owner[k], x.sender)' /\ k = <<x.sender, x.place>>
      BY <1>3, ZenonT(40) DEF Inv, History, Wrote, Remove
    <2>4. \A v \in Worker : Busy(v, {"delete_db"})' =>
             \E x \in written' : Wrote(x, Body(v).db, handler[v].sender)'
      <3> SUFFICES ASSUME NEW v \in Worker, Busy(v, {"delete_db"})'
                   PROVE  \E x \in written' : Wrote(x, Body(v).db, handler[v].sender)'
        OBVIOUS
      <3>1. Busy(v, {"delete_db"}) /\ handler'[v] = handler[v]
        BY <1>5, Zenon
      <3>2. PICK x \in written : Wrote(x, Body(v).db, handler[v].sender)
        BY <3>1, Zenon DEF Inv, History
      <3> QED
        BY <1>3, <3>1, <3>2 DEF Wrote, Body
    <2> QED
      BY <1>3, <2>1, <2>2, <2>3, <2>4, Zenon DEF History, Body, Wrote
  <1>7. Listed'
    <2> SUFFICES ASSUME NEW x \in written, ~Twice(x.db), ~Displaced(x.db)
                 PROVE  x.db \in DOMAIN databases' <=> Entered(x)'
      BY <1>3, Zenon DEF Listed, Twice, Displaced
    <2>1. CASE x.db = db
      <3>1. x.sender = s
        BY <1>1, <1>2, <2>1 DEF Inv, History, Wrote, Twice
      <3>2. \A k \in DOMAIN db_owner : db_owner[k] = db => k = <<x.sender, x.place>>
        BY <2>1 DEF Inv, History, Wrote, Twice
      <3>3. x.place \in Int
        BY DEF Inv, History
      <3>4. Entered(x) => <<x.sender, x.place>> \in first
        BY <1>1, <2>1, <3>1, <3>2, <3>3 DEF Entered
      <3> QED
        BY <1>3, <2>1, <3>4 DEF Entered, Remove
    <2>2. CASE x.db # db
      <3>1. x.db \in DOMAIN databases <=> Entered(x)
        BY DEF Inv, Listed
      <3>2. \A k \in first : db_owner[k] = db
        BY <1>1
      <3> QED
        BY <1>3, <2>2, <3>1, <3>2 DEF Entered, Remove
    <2> QED
      BY <2>1, <2>2
  <1> QED
    BY <1>4, <1>6, <1>7 DEF Inv, Leaves

----------------------------------------------------------------------------
LEMMA Restarting ==
    ASSUME Inv, Restart
    PROVE  Inv'
  <1>1. /\ handler' = [v \in Worker |-> Free] /\ base' \in {base, order}
        /\ UNCHANGED <<databases, db_owner, written, order>>
    BY DEF Restart, history
  <1>2. Shape'
    BY <1>1 DEF Inv, Shape
  <1>3. \A v \in Worker : \A pcs : ~Busy(v, pcs)'
    BY <1>1 DEF Busy
  <1>4. History'
    BY <1>1, <1>3 DEF Inv, Shape, History, Wrote
  <1>5. Listed'
    BY <1>1 DEF Inv, Listed, Twice, Displaced, Entered
  <1> QED
    BY <1>2, <1>4, <1>5 DEF Inv

LEMMA InvNext == Inv /\ [Next]_vars => Inv'
  <1> SUFFICES ASSUME Inv, [Next]_vars PROVE Inv'
    OBVIOUS
  <1>1. CASE \E w \in Client : send_mutation(w)
    <2>1. PICK w \in Client, action \in Sends :
             handler[w] = Free /\ \E sender, bodies : Begin(w, action, sender, bodies)
      BY <1>1 DEF send_mutation
    <2> QED
      BY <2>1, Beginning, DocDatabaseConstants DEF Worker
  <1>2. CASE \E w \in Processor : process_event(w)
    <2>1. PICK w \in Processor, action \in {"MintDocumentDb", "MintCollection"} :
             handler[w] = Free /\ \E sender, bodies : Begin(w, action, sender, bodies)
      BY <1>2, Zenon DEF process_event, handle_create_doc_database, handle_create_collection
    <2> QED
      BY <2>1, Beginning DEF Worker
  <1>3. CASE \E w \in Worker : apply_mutation(w)
    BY <1>3, CheckingDatabase, CreatingDatabase, CheckingEventDb, DeletingDatabase, Resting
       DEF apply_mutation
  <1>4. CASE Flush
    <2>1. UNCHANGED <<databases, db_owner, written, order, base, handler>>
      BY <1>4 DEF Flush, history
    <2> QED
      BY <2>1 DEF Inv, Shape, History, Listed, Twice, Displaced, Entered, Wrote, Busy, Body
  <1>5. CASE Restart
    BY <1>5, Restarting
  <1>6. CASE UNCHANGED vars
    <2>1. UNCHANGED <<databases, db_owner, written, order, base, handler>>
      BY <1>6 DEF vars, store, history, limits
    <2> QED
      BY <2>1 DEF Inv, Shape, History, Listed, Twice, Displaced, Entered, Wrote, Busy, Body
  <1> QED
    BY <1>1, <1>2, <1>3, <1>4, <1>5, <1>6 DEF Next

(* However many clients and event processors create, mint and delete       *)
(* databases at the same time, and wherever the node crashes:              *)
(* get_database_of_owner_internal finds every database under its sender,   *)
(* once, and no deleted one, unless two mutations wrote the database or a  *)
(* later one took its place in the log after a restart.                    *)
THEOREM ListsAreExact == Spec => []DatabasesListed
  <1>1. Init => Inv
    BY InvInit
  <1>2. Inv /\ [Next]_vars => Inv'
    BY InvNext
  <1>3. Inv => DatabasesListed
    BY InvListed
  <1> QED
    BY <1>1, <1>2, <1>3, PTL DEF Spec

=============================================================================
