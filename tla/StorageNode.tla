---------------------------- MODULE StorageNode ----------------------------
(***************************************************************************)
(* The data rollup node (node/storage_node_light_impl.rs): send_mutation   *)
(* handlers on the threads of the gRPC server, the block producer task and *)
(* the rollup task share one mutation store; accounts' nonces live in the  *)
(* state store (storage/state_store.rs).  The process can crash at any     *)
(* point and is started again on what it had persisted.                    *)
(*                                                                         *)
(* A mutation is identified by its account and nonce, which its signed     *)
(* payload contains.  The document database is the sequence of mutations   *)
(* applied to it: what apply_mutation does with one is another component.  *)
(***************************************************************************)
EXTENDS RollupExecutor

CONSTANTS
    Account,         \* the accounts that sign mutations
    Worker,          \* the concurrent send_mutation handlers
    MaxNonce,        \* bound on the mutations of an account
    MaxBlock,        \* bound on the blocks produced
    MaxCrash         \* bound on the crashes

ASSUME NodeBounds ==
    /\ MaxNonce \in Nat
    /\ MaxBlock \in Nat
    /\ MaxCrash \in Nat

VARIABLES
    nonce,           \* ACCOUNT_META_TABLE: the last nonce used, 0 if absent
    worker,          \* the local variables of every send_mutation handler
    db,              \* the headers of the mutations applied to the database
    acked,           \* history: the headers acknowledged with code 0
    late,            \* history: those acknowledged behind the rollup's scan
    crashes          \* crashes so far

node == <<nonce, worker, db, acked, late, crashes>>
executor == <<exec, chain, fails>>
vars == <<store, executor, node>>

Mutation == Account \X (1 .. MaxNonce)
Header == [block : Nat, order : Nat, id : Mutation]

(* A handler: where it is, and the header of the mutation it works on.     *)
FreeWorker == [pc |-> "free"]
Handler ==
    {FreeWorker}
      \cup [pc : {"nonced"}, id : Mutation]
      \cup [pc : {"ordered", "applied"}, h : Header]

Init ==
    /\ MutationStoreInit
    /\ RollupExecutorInit
    /\ nonce = [a \in Account |-> 0]
    /\ worker = [w \in Worker |-> FreeWorker]
    /\ db = <<>>
    /\ acked = {}
    /\ late = {}
    /\ crashes = 0

----------------------------------------------------------------------------
(* send_mutation.                                                          *)

(* Planted fault: the last nonce used is admitted again                    *)
incr_nonce_replays(w, a, n) ==
    /\ worker[w].pc = "free"
    /\ n \in {nonce[a], nonce[a] + 1}
    /\ nonce' = [nonce EXCEPT ![a] = n]
    /\ worker' = [worker EXCEPT ![w] = [pc |-> "nonced", id |-> <<a, n>>]]
    /\ UNCHANGED <<store, executor, db, acked, late, crashes>>

(* One read-write transaction: the nonce must be the successor of the last *)
(* one used (1 for a new account), else the reply is "bad nonce" and       *)
(* nothing changes.  Clients may send a nonce again, and several at once.  *)
incr_nonce(w, a, n) ==
    /\ worker[w].pc = "free"
    /\ n = nonce[a] + 1
    /\ nonce' = [nonce EXCEPT ![a] = n]
    /\ worker' = [worker EXCEPT ![w] = [pc |-> "nonced", id |-> <<a, n>>]]
    /\ UNCHANGED <<store, executor, db, acked, late, crashes>>

generate_mutation_block_and_order(w) ==
    /\ worker[w].pc = "nonced"
    /\ increase_order
    /\ worker' = [worker EXCEPT ![w] =
          [pc |-> "ordered", h |-> [block |-> block, order |-> order + 1, id |-> worker[w].id]]]
    /\ UNCHANGED <<headers, bodies, rollup_records, gc_records, executor>>
    /\ UNCHANGED <<nonce, db, acked, late, crashes>>

apply_mutation(w) ==
    /\ worker[w].pc = "ordered"
    /\ db' = Append(db, worker[w].h)
    /\ worker' = [worker EXCEPT ![w].pc = "applied"]
    /\ UNCHANGED <<store, executor, nonce, acked, late, crashes>>

(* The database refuses the mutation: the handler replies with an error,   *)
(* and the nonce and the order stay used.                                  *)
apply_mutation_fails(w) ==
    /\ worker[w].pc = "ordered"
    /\ worker' = [worker EXCEPT ![w] = FreeWorker]
    /\ UNCHANGED <<store, executor, nonce, db, acked, late, crashes>>

(* Where the rollups have looked for mutations: what the executor has      *)
(* taken for the round it is in, else what is recorded.                    *)
Scanned ==
    IF exec.pc \in {"upload", "send", "poll", "record"} THEN exec.end ELSE LastEnd

(* The reply with code 0 follows the write.                                *)
log_mutation(w) ==
    /\ worker[w].pc = "applied"
    /\ add_mutation(worker[w].h)
    /\ acked' = acked \cup {worker[w].h}
    /\ late' = IF worker[w].h.block < Scanned THEN late \cup {worker[w].h} ELSE late
    /\ worker' = [worker EXCEPT ![w] = FreeWorker]
    /\ UNCHANGED <<cursor, rollup_records, gc_records, executor, nonce, db, crashes>>

SendMutation(w) ==
    \/ \E a \in Account, n \in 1 .. MaxNonce : incr_nonce(w, a, n)
    \/ generate_mutation_block_and_order(w)
    \/ apply_mutation(w)
    \/ apply_mutation_fails(w)
    \/ log_mutation(w)

----------------------------------------------------------------------------
(* The block producer, and a crash with the restart that follows it.       *)

ProduceBlock ==
    /\ block < MaxBlock
    /\ increase_block_return_last_state
    /\ UNCHANGED <<headers, bodies, rollup_records, gc_records, executor, node>>

Crash ==
    /\ crashes < MaxCrash
    /\ crashes' = crashes + 1
    /\ recover
    /\ exec' = Idle
    /\ worker' = [w \in Worker |-> FreeWorker]
    /\ UNCHANGED <<headers, bodies, rollup_records, gc_records, chain, fails>>
    /\ UNCHANGED <<nonce, db, acked, late>>

Next ==
    \/ RollupExecutorNext /\ UNCHANGED node
    \/ \E w \in Worker : SendMutation(w)
    \/ ProduceBlock
    \/ Crash

Spec == Init /\ [][Next]_vars

----------------------------------------------------------------------------
(* What a reader recovers from transaction t: the files met by following   *)
(* Last-Rollup-Tx.                                                         *)
FilesFrom ==
    LET from[t \in 0 .. Len(arweave)] ==
          IF t = NoTx THEN {} ELSE {t} \cup from[arweave[t].prev]
    IN  from

Published == UNION {arweave[t].batch : t \in FilesFrom[latest]}
PublishedEnd == IF latest = NoTx THEN 0 ELSE arweave[latest].end

(* What the recorded rollups have put on Arweave.                          *)
Archived == UNION {arweave[r.tx].batch : r \in rollup_records}

(* Another mutation was given the same block and order.                    *)
Clobbered(h) ==
    \E g \in acked : g.block = h.block /\ g.order = h.order /\ g.id # h.id

----------------------------------------------------------------------------
(* Properties.                                                             *)

RollupRecord == [start : Nat, end : Nat, tx : Nat]
ArFile == [start : Nat, end : Nat, prev : Nat, batch : SUBSET Header]
ExecState ==
    [pc : {"idle", "scan", "upload", "send", "poll", "record", "gc", "gcrecord"},
     start : Nat, end : Nat, prev : Nat, tx : Nat, batch : SUBSET Header]

(* The type of every variable.                                             *)
TypeOK ==
    /\ block \in Nat /\ order \in Nat /\ block_key \in Nat
    /\ headers \subseteq Header
    /\ bodies \subseteq {RawKey(m) : m \in Mutation}
    /\ rollup_records \subseteq RollupRecord
    /\ gc_records \subseteq [start : Nat, end : Nat]
    /\ exec \in ExecState
    /\ arweave \in Seq(ArFile)
    /\ mempool \in Seq(1 .. Len(arweave))
    /\ latest \in 0 .. Len(arweave)
    /\ fails \in 0 .. MaxFail
    /\ nonce \in [Account -> 0 .. MaxNonce]
    /\ worker \in [Worker -> Handler]
    /\ db \in Seq(Header)
    /\ acked \subseteq Header
    /\ late \subseteq acked
    /\ crashes \in 0 .. MaxCrash

(* The rollup records tile the blocks before the last one's end, without a *)
(* gap or an overlap, and each is backed by a file on Arweave with its     *)
(* range whose Last-Rollup-Tx is the file of the record before it: process *)
(* starts a round where the last record ends, whatever failed or crashed.  *)
RollupRecordsTile ==
    /\ \A r \in rollup_records :
          /\ r.start < r.end
          /\ r.tx \in 1 .. Len(arweave)
          /\ arweave[r.tx].start = r.start
          /\ arweave[r.tx].end = r.end
          /\ IF r.start = 0
               THEN arweave[r.tx].prev = NoTx
               ELSE \E q \in rollup_records : q.end = r.start /\ q.tx = arweave[r.tx].prev
    /\ \A q, r \in rollup_records : q.start < r.start => q.end <= r.start

(* Every file on Arweave, those of abandoned rounds included, continues    *)
(* the file its Last-Rollup-Tx names, back to block 0, and holds mutations *)
(* of its own blocks only: a reader who follows the tags from any of them  *)
(* meets every block once.                                                 *)
FilesLinked ==
    \A t \in 1 .. Len(arweave) :
        LET f == arweave[t]
        IN  /\ f.start < f.end
            /\ f.prev \in 0 .. t - 1
            /\ f.start = IF f.prev = NoTx THEN 0 ELSE arweave[f.prev].end
            /\ \A h \in f.batch : f.start <= h.block /\ h.block < f.end

(* No acknowledged mutation disappears: it is in the store or in a file of *)
(* a recorded rollup, garbage collection and crashes notwithstanding,      *)
(* unless it was written behind the scan of a rollup or its block and      *)
(* order were given to another mutation.                                   *)
AckedKept ==
    \A h \in acked \ late : h \in headers \/ h \in Archived \/ Clobbered(h)

(* Whatever file a reader starts from, one walk of recover_from_arweave    *)
(* along Last-Rollup-Tx meets neither a mutation nor a position of the log *)
(* twice.  A walk that was cut off and starts over is not covered.         *)
ReplayedOnce ==
    \A t \in 1 .. Len(arweave) : \A u, v \in FilesFrom[t] :
        \A g \in arweave[u].batch, h \in arweave[v].batch :
            (g.id = h.id \/ (g.block = h.block /\ g.order = h.order)) => u = v /\ g = h

(* The nonce of the state store admits a signed mutation to the database   *)
(* once, however often it is sent, to however many handlers, and whether   *)
(* or not the node crashed in between.                                     *)
AppliedOnce ==
    \A i, j \in 1 .. Len(db) : db[i].id = db[j].id => i = j

(* The branches of gc_mutation commented "going here is not normal case"   *)
(* are not reached: when enough rounds are left there is one to collect.   *)
GcNormalCase == exec.pc = "gc" /\ GcDue => GcTarget # {}

(* Garbage collection follows the rollups round by round, oldest first.    *)
GcFollowsRollups ==
    /\ \A g \in gc_records : \E r \in rollup_records : r.start = g.start /\ r.end = g.end
    /\ \A r \in rollup_records, g \in gc_records :
          r.start < g.start => [start |-> r.start, end |-> r.end] \in gc_records

(* It leaves the newest MinGcRound - 1 rounds alone, and keeps up: when no *)
(* collection is due only those are left, and one more for every crash     *)
(* that came between a rollup record and the collection that follows it.   *)
GcWindow ==
    LET rounds    == Cardinality(rollup_records)
        collected == Cardinality(gc_records)
        due       == IF exec.pc \in {"gc", "gcrecord"} THEN 1 ELSE 0
        kept      == IF MinGcRound = 0 THEN 0 ELSE MinGcRound - 1
    IN  /\ collected > 0 => collected + kept <= rounds
        /\ rounds <= collected + kept + due + crashes

(* No two acknowledged mutations share a block and an order.               *)
SlotsDistinct ==
    \A g, h \in acked : g.block = h.block /\ g.order = h.order => g = h

(* What the FAQ of the repository's README says of data sent to the node:  *)
(* what was acknowledged for a block that has been rolled up is on         *)
(* Arweave.  send_mutation takes its block and order long before it writes *)
(* the mutation, so a rollup of that block may have come in between.       *)
AckedRolledUp == \A h \in acked : h.block < LastEnd => h \in Archived

(* With crashes: the block up to which the contract's archive reaches      *)
(* never moves back, and a mutation leaves the archive only if its block   *)
(* and order were given to another one.                                    *)
PublishedKept ==
    [][/\ PublishedEnd <= PublishedEnd'
       /\ \A h \in Published : h \in Published' \/ Clobbered(h)']_vars

(* The archive published in the contract behaves as ArchiveLog promises.   *)
Promise == INSTANCE ArchiveLog WITH archive <- Published, tip <- PublishedEnd
ArchiveLogSpec == Promise!Spec

----------------------------------------------------------------------------
(* The producer and the rollup loop sleep and run again for as long as the *)
(* node is up, and the EVM chain mines what it is sent.  No fairness is    *)
(* asked of clients, and failures and crashes are finite in number.        *)
Fairness ==
    /\ WF_vars(ProduceBlock)
    /\ WF_vars(Process /\ UNCHANGED node)
    /\ WF_vars(Mine /\ UNCHANGED node)

LiveSpec == Spec /\ Fairness

(* The acknowledged mutation m was there for a rollup to find.  Blocks end *)
(* at MaxBlock, so the last one is never rolled up in the model.           *)
Due(m) == \E h \in acked \ late : h.id = m /\ h.block < MaxBlock

Overwritten(m) == \E h \in acked : h.id = m /\ Clobbered(h)

(* Every mutation acknowledged in time is rolled up in the end: SystemConf *)
(* has a rollup_max_interval, "rollup at once of max time".  process() has *)
(* only min_rollup_size to go by, and nothing reads the interval.          *)
EventuallyArchived ==
    \A m \in Mutation : Due(m) ~> (Overwritten(m) \/ \E h \in Archived : h.id = m)

(* ... and is found by a reader who starts from the contract, through      *)
(* failed uploads, failed contract calls and restarts.  It takes a         *)
(* MinRollupSize that every mutation reaches and transactions that are     *)
(* mined; late mutations and those that lost their place are left out.     *)
EventuallyPublished ==
    \A m \in Mutation : Due(m) ~> (Overwritten(m) \/ \E h \in Published : h.id = m)

=============================================================================
