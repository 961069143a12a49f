------------------------- MODULE StorageNodeProofs -------------------------
(***************************************************************************)
(* Proofs about the data rollup node, for any accounts, handlers, bounds   *)
(* and rollup configuration.                                               *)
(***************************************************************************)
EXTENDS StorageNode, TLAPS

USE SMTT(40), ZenonT(40)

----------------------------------------------------------------------------
(* The inductive invariant behind the tiling of the rollup records.        *)

(* The cursor is at most one block ahead of what is persisted, so that a   *)
(* restart does not move it back, and never behind what is rolled up.      *)
CursorAhead ==
    /\ block_key <= block /\ block <= block_key + 1
    /\ block_key = NoBlockKey => block = 0
    /\ \A r \in rollup_records : r.end <= block

(* A record is the only one at its key, and one of them is the last.       *)
RecordsKeyed ==
    /\ \A q, r \in rollup_records : q.start = r.start => q = r
    /\ rollup_records # {} => LastRollup # {}

(* A round in progress continues the last record, and its file is on       *)
(* Arweave once it has a transaction id.                                   *)
RoundContinues ==
    exec.pc \in {"scan", "upload", "send", "poll", "record"} =>
        /\ exec.start = LastEnd
        /\ exec.prev = LastTx
        /\ exec.start < exec.end
        /\ exec.end <= block
        /\ \A h \in exec.batch : exec.start <= h.block /\ h.block < exec.end
        /\ exec.pc \in {"send", "poll", "record"} =>
              exec.tx \in 1 .. Len(arweave) /\ arweave[exec.tx] = File

TilingInv ==
    TypeOK /\ CursorAhead /\ RecordsKeyed /\ RollupRecordsTile /\ FilesLinked /\ RoundContinues

----------------------------------------------------------------------------
(* Type correctness.                                                       *)

(* A sequence over a range is one over any longer range.                   *)
LEMMA SeqOfLongerRange ==
    ASSUME NEW m \in Nat, NEW s \in Seq(1 .. m)
    PROVE  s \in Seq(1 .. m + 1)
  <1>1. \A i \in 1 .. Len(s) : s[i] \in 1 .. m + 1
    OBVIOUS
  <1> QED
    BY <1>1

(* The records that lookups return, and what is read from them.            *)
LEMMA LastRollupTypes ==
    ASSUME TypeOK
    PROVE  LastEnd \in Nat /\ LastTx \in Nat
  <1>1. CASE LastRollup = {}
    BY <1>1 DEF LastEnd, LastTx, NoTx
  <1>2. CASE LastRollup # {}
    <2>1. (CHOOSE r \in LastRollup : TRUE) \in RollupRecord
      BY <1>2 DEF LastRollup, get_last_record, TypeOK
    <2> QED
      BY <1>2, <2>1 DEF LastEnd, LastTx, RollupRecord
  <1> QED
    BY <1>1, <1>2

(* The initial state is well typed.                                        *)
LEMMA TypeInit == Init => TypeOK
  <1> SUFFICES ASSUME Init PROVE TypeOK
    OBVIOUS
  <1> USE RollupConfig, NodeBounds
  <1>1. exec \in ExecState
    BY DEF Init, RollupExecutorInit, Idle, ExecState, NoTx
  <1>2. worker \in [Worker -> Handler]
    BY DEF Init, Handler, FreeWorker
  <1>3. arweave \in Seq(ArFile) /\ mempool \in Seq(1 .. Len(arweave)) /\ db \in Seq(Header)
    BY DEF Init, RollupExecutorInit
  <1>4. latest \in 0 .. Len(arweave)
    BY DEF Init, RollupExecutorInit, NoTx
  <1> QED
    BY <1>1, <1>2, <1>3, <1>4
    DEF Init, MutationStoreInit, RollupExecutorInit, TypeOK, NoBlockKey

(* Every step of the rollup executor and of the chain keeps the types.     *)
LEMMA TypeExecutor ==
    ASSUME TypeOK, RoundContinues, RollupExecutorNext, UNCHANGED node
    PROVE  TypeOK'
  <1> USE RollupConfig
  <1>0. /\ nonce' \in [Account -> 0 .. MaxNonce]
        /\ worker' \in [Worker -> Handler]
        /\ db' \in Seq(Header)
        /\ acked' \subseteq Header
        /\ late' \subseteq acked'
        /\ crashes' \in 0 .. MaxCrash
    BY DEF TypeOK, node
  <1>1. CASE UNCHANGED <<store, chain>> /\ exec' \in ExecState /\ fails' \in 0 .. MaxFail
    BY <1>0, <1>1 DEF TypeOK, store, chain
  <1>2. ASSUME Fail PROVE exec' = Idle /\ fails' \in 0 .. MaxFail
    BY <1>2 DEF TypeOK, Fail
  <1>3. Idle \in ExecState
    BY DEF Idle, ExecState, NoTx
  <1>4. File \in ArFile
    BY DEF TypeOK, File, ArFile, ExecState
  <1>5. ASSUME arweave' = Append(arweave, File), UNCHANGED <<mempool, latest>>
        PROVE  arweave' \in Seq(ArFile) /\ mempool' \in Seq(1 .. Len(arweave')) /\ latest' \in 0 .. Len(arweave')
    BY <1>4, <1>5, SeqOfLongerRange DEF TypeOK
  <1>6. CASE Begin
    <2>1. exec' \in ExecState
      BY <1>3, <1>6, LastRollupTypes, ZenonT(40) DEF TypeOK, Begin, Idle, ExecState, NoTx
    <2> QED
      BY <1>1, <1>6, <2>1, ZenonT(40) DEF TypeOK, Begin
  <1>7. CASE Scan
    <2>1. get_range_mutations(exec.start, exec.end) \in SUBSET Header
      BY DEF get_range_mutations, TypeOK
    <2>2. exec' \in ExecState
      BY <1>3, <1>7, <2>1, ZenonT(40) DEF TypeOK, Scan, ExecState
    <2> QED
      BY <1>1, <1>7, <2>2, ZenonT(40) DEF TypeOK, Scan
  <1>8. CASE Upload
    <2>0. Len(arweave) + 1 \in Nat
      BY DEF TypeOK
    <2>1. exec' \in ExecState
      BY <1>8, <2>0, ZenonT(40) DEF TypeOK, Upload, ExecState
    <2> QED
      BY <1>0, <1>5, <1>8, <2>1 DEF TypeOK, Upload, store
  <1>9. CASE UploadFails
    BY <1>0, <1>1, <1>2, <1>3, <1>5, <1>9 DEF TypeOK, UploadFails, store, chain
  <1>10. CASE SendStep
    <2>1. exec.tx \in 1 .. Len(arweave)
      BY <1>10 DEF SendStep, RoundContinues
    <2>2. mempool' \in Seq(1 .. Len(arweave))
      BY <1>10, <2>1 DEF TypeOK, SendStep
    <2>3. exec' \in ExecState
      BY <1>10, ZenonT(40) DEF TypeOK, SendStep, ExecState
    <2> QED
      BY <1>0, <1>10, <2>2, <2>3, ZenonT(40) DEF TypeOK, SendStep, store
  <1>11. CASE SendStepFails
    BY <1>1, <1>2, <1>3, <1>11 DEF SendStepFails
  <1>12. CASE PollStep
    BY <1>1, <1>12, ZenonT(40) DEF TypeOK, PollStep, ExecState
  <1>13. CASE PollStepFails
    BY <1>1, <1>2, <1>3, <1>13 DEF PollStepFails
  <1>14. CASE AddRollupRecord
    <2>1. exec' \in ExecState
      BY <1>14 DEF AddRollupRecord, ExecState, Idle, NoTx
    <2>2. [start |-> exec.start, end |-> exec.end, tx |-> exec.tx] \in RollupRecord
      BY DEF TypeOK, ExecState, RollupRecord
    <2>3. rollup_records' \subseteq RollupRecord
      BY <1>14, <2>2 DEF TypeOK, AddRollupRecord, add_rollup_record
    <2> QED
      BY <1>0, <1>14, <2>1, <2>3 DEF TypeOK, AddRollupRecord, cursor, chain
  <1>15. CASE GcRange
    <2>1. PICK r \in GcTarget :
             /\ gc_range_mutation(r.start, r.end)
             /\ exec' = [Idle EXCEPT !.pc = "gcrecord", !.start = r.start, !.end = r.end]
      BY <1>15, ZenonT(40) DEF GcRange
    <2>2. r \in RollupRecord
      BY DEF TypeOK, GcTarget, get_record, get_next_record
    <2>3. exec' \in ExecState
      BY <2>1, <2>2, ZenonT(40) DEF ExecState, RollupRecord, Idle, NoTx
    <2>4. headers' \subseteq headers /\ bodies' \subseteq bodies
      BY <2>1 DEF gc_range_mutation
    <2> QED
      BY <1>0, <1>15, <2>3, <2>4 DEF TypeOK, GcRange, cursor, chain
  <1>16. CASE GcSkip
    BY <1>1, <1>3, <1>16 DEF TypeOK, GcSkip
  <1>17. CASE AddGcRecord
    <2>1. gc_records' \subseteq [start : Nat, end : Nat]
      BY <1>17 DEF TypeOK, AddGcRecord, add_gc_record, ExecState
    <2> QED
      BY <1>0, <1>3, <1>17, <2>1 DEF TypeOK, AddGcRecord, cursor, chain
  <1>18. CASE Mine
    BY <1>0, <1>18 DEF TypeOK, Mine, store
  <1>19. CASE DropTx
    BY <1>0, <1>19 DEF TypeOK, DropTx, store
  <1> QED
    BY <1>6, <1>7, <1>8, <1>9, <1>10, <1>11, <1>12, <1>13, <1>14, <1>15, <1>16, <1>17, <1>18, <1>19
    DEF RollupExecutorNext, Process, OutsideFailure

(* What a handler holds at each of its steps.                              *)
LEMMA HandlerHolds ==
    ASSUME TypeOK, NEW w \in Worker
    PROVE  /\ worker[w].pc = "nonced" => worker[w].id \in Mutation
           /\ worker[w].pc \in {"ordered", "applied"} => worker[w] \in [pc : {"ordered", "applied"}, h : Header]
  BY DEF TypeOK, Handler, FreeWorker

(* Every step of a handler keeps the types.                                *)
LEMMA TypeHandler ==
    ASSUME TypeOK, NEW w \in Worker, SendMutation(w)
    PROVE  TypeOK'
  <1> USE HandlerHolds
  <1>0. FreeWorker \in Handler
    BY DEF Handler
  <1>1. CASE \E a \in Account, n \in 1 .. MaxNonce : incr_nonce(w, a, n)
    <2>1. PICK a \in Account, n \in 1 .. MaxNonce : incr_nonce(w, a, n)
      BY <1>1
    <2>2. [pc |-> "nonced", id |-> <<a, n>>] \in Handler
      BY DEF Handler, Mutation
    <2>3. nonce' \in [Account -> 0 .. MaxNonce] /\ worker' \in [Worker -> Handler]
      BY <2>1, <2>2 DEF TypeOK, incr_nonce
    <2> QED
      BY <2>1, <2>3 DEF TypeOK, incr_nonce, store, executor, chain
  <1>2. CASE generate_mutation_block_and_order(w)
    <2> DEFINE g == [block |-> block, order |-> order + 1, id |-> worker[w].id]
    <2>0. worker[w].id \in Mutation
      BY <1>2 DEF generate_mutation_block_and_order
    <2>1. g \in Header
      BY <2>0 DEF TypeOK, Header
    <2>2. [pc |-> "ordered", h |-> g] \in Handler
      BY <2>1 DEF Handler
    <2>3. worker' \in [Worker -> Handler]
      BY <1>2, <2>2 DEF TypeOK, generate_mutation_block_and_order
    <2> QED
      BY <1>2, <2>3 DEF TypeOK, generate_mutation_block_and_order, increase_order, executor, chain
  <1>3. CASE apply_mutation(w)
    <2>1. worker[w] \in [pc : {"ordered", "applied"}, h : Header]
      BY <1>3 DEF apply_mutation
    <2>2. [worker[w] EXCEPT !.pc = "applied"] \in Handler
      BY <2>1 DEF Handler
    <2>3. worker' \in [Worker -> Handler]
      BY <1>3, <2>2 DEF TypeOK, apply_mutation
    <2>4. db' \in Seq(Header)
      BY <1>3, <2>1 DEF TypeOK, apply_mutation
    <2> QED
      BY <1>3, <2>3, <2>4, ZenonT(40) DEF TypeOK, apply_mutation, store, executor, chain
  <1>4. CASE apply_mutation_fails(w)
    BY <1>0, <1>4 DEF TypeOK, apply_mutation_fails, store, executor, chain
  <1>5. CASE log_mutation(w)
    <2>1. worker[w].h \in Header
      BY <1>5 DEF log_mutation
    <2>2. headers' \subseteq Header
      BY <1>5, <2>1 DEF TypeOK, log_mutation, add_mutation
    <2>3. bodies' \subseteq {RawKey(m) : m \in Mutation}
      BY <1>5, <2>1 DEF TypeOK, log_mutation, add_mutation, Header
    <2>4. acked' \subseteq Header /\ late' \subseteq acked'
      BY <1>5, <2>1 DEF TypeOK, log_mutation
    <2>5. worker' \in [Worker -> Handler]
      BY <1>0, <1>5 DEF TypeOK, log_mutation
    <2> QED
      BY <1>5, <2>2, <2>3, <2>4, <2>5 DEF TypeOK, log_mutation, cursor, executor, chain
  <1> QED
    BY <1>1, <1>2, <1>3, <1>4, <1>5 DEF SendMutation

(* Every step keeps the types, given what a round in progress holds.       *)
LEMMA TypeNext ==
    ASSUME TypeOK, RoundContinues, [Next]_vars
    PROVE  TypeOK'
  <1> USE NodeBounds
  <1>1. CASE RollupExecutorNext /\ UNCHANGED node
    BY <1>1, TypeExecutor
  <1>2. CASE \E w \in Worker : SendMutation(w)
    BY <1>2, TypeHandler
  <1>3. CASE ProduceBlock
    BY <1>3 DEF TypeOK, ProduceBlock, increase_block_return_last_state, executor, chain, node
  <1>4. CASE Crash
    <2>1. exec' \in ExecState /\ worker' \in [Worker -> Handler]
      BY <1>4 DEF Crash, Idle, ExecState, NoTx, Handler
    <2>2. block' \in Nat /\ order' \in Nat /\ block_key' \in Nat
      BY <1>4 DEF TypeOK, Crash, recover
    <2> QED
      BY <1>4, <2>1, <2>2 DEF TypeOK, Crash, chain
  <1>5. CASE UNCHANGED vars
    BY <1>5 DEF TypeOK, vars, store, executor, chain, node
  <1> QED
    BY <1>1, <1>2, <1>3, <1>4, <1>5 DEF Next

----------------------------------------------------------------------------
(* The rollup records tile the blocks.                                     *)

(* The last record has the greatest key and the greatest end.              *)
LEMMA LastRollupIsGreatest ==
    ASSUME TypeOK, RecordsKeyed, RollupRecordsTile
    PROVE  /\ rollup_records = {} => LastEnd = 0 /\ LastTx = NoTx
           /\ rollup_records # {} =>
                 \E r \in rollup_records :
                    /\ r.end = LastEnd /\ r.tx = LastTx
                    /\ \A q \in rollup_records : q.end <= r.end
  <1>1. CASE rollup_records = {}
    BY <1>1 DEF LastEnd, LastTx, LastRollup, get_last_record
  <1>2. CASE rollup_records # {}
    <2> DEFINE r == CHOOSE x \in LastRollup : TRUE
    <2>1. r \in LastRollup /\ LastEnd = r.end /\ LastTx = r.tx
      BY <1>2 DEF RecordsKeyed, LastEnd, LastTx
    <2>2. r \in rollup_records /\ \A q \in rollup_records : q.start <= r.start
      BY <2>1 DEF LastRollup, get_last_record
    <2>3. ASSUME NEW q \in rollup_records PROVE q.end <= r.end
      <3>1. q.start \in Nat /\ q.end \in Nat /\ r.start \in Nat /\ r.end \in Nat
        BY <2>2 DEF TypeOK, RollupRecord
      <3>2. CASE q.start = r.start
        BY <2>2, <3>1, <3>2 DEF RecordsKeyed
      <3>3. CASE q.start < r.start
        BY <2>2, <3>1, <3>3 DEF RollupRecordsTile
      <3> QED
        BY <2>2, <3>1, <3>2, <3>3
    <2> QED
      BY <1>2, <2>1, <2>2, <2>3, ZenonT(40)
  <1> QED
    BY <1>1, <1>2

(* The file of the round in progress continues a file on Arweave.          *)
LEMMA RoundFileContinues ==
    ASSUME TilingInv, exec.pc \in {"scan", "upload", "send", "poll", "record"}
    PROVE  /\ exec.prev \in 0 .. Len(arweave)
           /\ exec.start = IF exec.prev = NoTx THEN 0 ELSE arweave[exec.prev].end
           /\ \A q \in rollup_records : q.end <= exec.start
           /\ IF exec.start = 0
                THEN exec.prev = NoTx
                ELSE \E q \in rollup_records : q.end = exec.start /\ q.tx = exec.prev
  <1> USE DEF TilingInv
  <1>1. exec.start = LastEnd /\ exec.prev = LastTx
    BY DEF RoundContinues
  <1>2. CASE rollup_records = {}
    BY <1>1, <1>2, LastRollupIsGreatest DEF NoTx, TypeOK
  <1>3. CASE rollup_records # {}
    <2>1. PICK r \in rollup_records :
             /\ r.end = LastEnd /\ r.tx = LastTx
             /\ \A q \in rollup_records : q.end <= r.end
      BY <1>3, LastRollupIsGreatest
    <2>2. /\ r.start \in Nat /\ r.end \in Nat
          /\ r.start < r.end
          /\ r.tx \in 1 .. Len(arweave)
          /\ arweave[r.tx].end = r.end
      BY <2>1 DEF TypeOK, RollupRecord, RollupRecordsTile
    <2> QED
      BY <1>1, <2>1, <2>2 DEF NoTx, TypeOK
  <1> QED
    BY <1>2, <1>3

(* Uploading that file, whether or not the node is told, keeps the files   *)
(* linked and those of the records in place.                               *)
LEMMA UploadKeepsTiling ==
    ASSUME TilingInv, exec.pc = "upload",
           arweave' = Append(arweave, File), UNCHANGED rollup_records
    PROVE  /\ FilesLinked' /\ RollupRecordsTile'
           /\ Len(arweave') = Len(arweave) + 1
           /\ arweave'[Len(arweave) + 1] = File
  <1> USE DEF TilingInv
  <1>1. /\ Len(arweave) \in Nat
        /\ Len(arweave') = Len(arweave) + 1
        /\ arweave'[Len(arweave) + 1] = File
        /\ \A t \in 1 .. Len(arweave) : arweave'[t] = arweave[t]
    BY DEF TypeOK
  <1>2. FilesLinked'
    <2> SUFFICES ASSUME NEW t \in 1 .. Len(arweave) + 1
                 PROVE  /\ arweave'[t].start < arweave'[t].end
                        /\ arweave'[t].prev \in 0 .. t - 1
                        /\ arweave'[t].start =
                              IF arweave'[t].prev = NoTx THEN 0 ELSE arweave'[arweave'[t].prev].end
                        /\ \A h \in arweave'[t].batch :
                              arweave'[t].start <= h.block /\ h.block < arweave'[t].end
      BY <1>1, ZenonT(40) DEF FilesLinked
    <2>1. CASE t \in 1 .. Len(arweave)
      <3>1. /\ arweave[t].prev \in 0 .. t - 1
            /\ arweave[t].prev # NoTx => arweave[t].prev \in 1 .. Len(arweave)
        BY <1>1, <2>1 DEF FilesLinked, NoTx
      <3> QED
        BY <1>1, <2>1, <3>1 DEF FilesLinked
    <2>2. CASE t = Len(arweave) + 1
      <3>1. /\ exec.prev \in 0 .. Len(arweave)
            /\ exec.start = IF exec.prev = NoTx THEN 0 ELSE arweave[exec.prev].end
        BY RoundFileContinues
      <3>2. /\ exec.start < exec.end
            /\ \A h \in exec.batch : exec.start <= h.block /\ h.block < exec.end
        BY DEF RoundContinues
      <3>3. /\ arweave'[t].start = exec.start /\ arweave'[t].end = exec.end
            /\ arweave'[t].prev = exec.prev /\ arweave'[t].batch = exec.batch
        BY <1>1, <2>2 DEF File
      <3>4. exec.prev # NoTx => exec.prev \in 1 .. Len(arweave)
        BY <1>1, <3>1 DEF NoTx
      <3>5. exec.prev # NoTx => arweave'[exec.prev] = arweave[exec.prev]
        BY <1>1, <3>4
      <3>6. arweave'[t].prev \in 0 .. t - 1
        BY <1>1, <2>2, <3>1, <3>3
      <3> QED
        BY <3>1, <3>2, <3>3, <3>5, <3>6, ZenonT(40)
    <2>3. t \in 1 .. Len(arweave) \/ t = Len(arweave) + 1
      BY <1>1
    <2> QED
      BY <2>1, <2>2, <2>3, ZenonT(40)
  <1>3. RollupRecordsTile'
    BY <1>1 DEF RollupRecordsTile
  <1> QED
    BY <1>1, <1>2, <1>3

LEMMA TilingInit == Init => TilingInv
  <1> SUFFICES ASSUME Init PROVE TilingInv
    OBVIOUS
  <1>1. TypeOK
    BY TypeInit
  <1> QED
    BY <1>1 DEF TilingInv, Init, MutationStoreInit, RollupExecutorInit, CursorAhead, NoBlockKey,
       RecordsKeyed, RollupRecordsTile, FilesLinked, RoundContinues, Idle

(* A step that leaves the records and the files alone, moves the cursor    *)
(* nowhere back and the executor nowhere but to rest keeps the tiling.     *)
LEMMA TilingUndisturbed ==
    ASSUME TilingInv, UNCHANGED <<rollup_records, arweave>>,
           block <= block', block' \in Nat, exec' = exec \/ exec'.pc \in {"idle", "gc", "gcrecord"}
    PROVE  /\ RecordsKeyed' /\ RollupRecordsTile' /\ FilesLinked' /\ RoundContinues'
           /\ \A r \in rollup_records' : r.end <= block'
  <1> USE DEF TilingInv
  <1>1. /\ LastEnd' = LastEnd /\ LastTx' = LastTx
        /\ RecordsKeyed' /\ RollupRecordsTile' /\ FilesLinked'
    BY DEF LastEnd, LastTx, LastRollup, get_last_record, RecordsKeyed, RollupRecordsTile, FilesLinked
  <1>2. RoundContinues'
    <2>1. CASE exec' = exec
      <3>1. File' = File
        BY <2>1 DEF File
      <3>2. block \in Nat /\ exec.end \in Nat
        BY DEF TypeOK, ExecState
      <3> QED
        BY <1>1, <2>1, <3>1, <3>2 DEF RoundContinues
    <2>2. CASE exec'.pc \in {"idle", "gc", "gcrecord"}
      BY <2>2 DEF RoundContinues
    <2> QED
      BY <2>1, <2>2
  <1>3. \A r \in rollup_records' : r.end <= block'
    BY DEF CursorAhead, TypeOK, RollupRecord
  <1> QED
    BY <1>1, <1>2, <1>3

(* Every step of the rollup executor keeps the tiling.                     *)
LEMMA TilingExecutor ==
    ASSUME TilingInv, RollupExecutorNext, UNCHANGED node
    PROVE  CursorAhead' /\ RecordsKeyed' /\ RollupRecordsTile' /\ FilesLinked' /\ RoundContinues'
  <1> USE DEF TilingInv
  <1>0. UNCHANGED cursor => block' = block /\ block_key' = block_key /\ block' \in Nat /\ block <= block'
    BY DEF cursor, TypeOK
  <1>1. ASSUME UNCHANGED <<cursor, rollup_records, arweave>>,
               exec' = exec \/ exec'.pc \in {"idle", "gc", "gcrecord"}
        PROVE  CursorAhead' /\ RecordsKeyed' /\ RollupRecordsTile' /\ FilesLinked' /\ RoundContinues'
    <2>1. block' = block /\ block_key' = block_key /\ block' \in Nat /\ block <= block'
      BY <1>0, <1>1
    <2> QED
      BY <1>1, <2>1, TilingUndisturbed DEF CursorAhead
  <1>2. ASSUME UNCHANGED <<cursor, rollup_records, arweave>>, RoundContinues'
        PROVE  CursorAhead' /\ RecordsKeyed' /\ RollupRecordsTile' /\ FilesLinked'
    BY <1>0, <1>2 DEF CursorAhead, RecordsKeyed, RollupRecordsTile, FilesLinked, LastRollup, get_last_record
  <1>3. UNCHANGED rollup_records => LastEnd' = LastEnd /\ LastTx' = LastTx
    BY DEF LastEnd, LastTx, LastRollup, get_last_record
  <1>4. CASE Begin
    <2>1. UNCHANGED <<cursor, rollup_records, arweave>>
      BY <1>4 DEF Begin, store, cursor, chain
    <2>2. /\ exec'.pc = "scan" /\ exec'.start = LastEnd /\ exec'.prev = LastTx
          /\ exec'.end = block /\ exec'.batch = {}
          /\ LastEnd < block
      BY <1>4, LastRollupTypes DEF Begin, Idle, TypeOK
    <2>3. RoundContinues'
      BY <1>0, <1>3, <2>1, <2>2 DEF RoundContinues, TypeOK
    <2> QED
      BY <1>2, <2>1, <2>3
  <1>5. CASE Scan
    <2>1. UNCHANGED <<cursor, rollup_records, arweave>>
      BY <1>5 DEF Scan, store, cursor, chain
    <2>2. exec' = Idle \/ exec' = [exec EXCEPT !.pc = "upload", !.batch = get_range_mutations(exec.start, exec.end)]
      BY <1>5 DEF Scan
    <2>3. CASE exec' = Idle
      BY <1>1, <2>1, <2>3 DEF Idle
    <2>4. CASE exec' = [exec EXCEPT !.pc = "upload", !.batch = get_range_mutations(exec.start, exec.end)]
      <3>1. /\ exec'.pc = "upload" /\ exec'.start = exec.start /\ exec'.end = exec.end
            /\ exec'.prev = exec.prev /\ exec'.batch = get_range_mutations(exec.start, exec.end)
        BY <2>4 DEF TypeOK, ExecState
      <3>2. \A h \in exec'.batch : exec.start <= h.block /\ h.block < exec.end
        BY <3>1 DEF get_range_mutations
      <3>3. RoundContinues'
        BY <1>0, <1>3, <1>5, <2>1, <3>1, <3>2 DEF RoundContinues, Scan
      <3> QED
        BY <1>2, <2>1, <3>3
    <2> QED
      BY <2>2, <2>3, <2>4
  <1>6. CASE Upload
    <2>1. UNCHANGED cursor /\ UNCHANGED rollup_records /\ exec.pc = "upload" /\ arweave' = Append(arweave, File)
      BY <1>6 DEF Upload, store, cursor
    <2>2. /\ FilesLinked' /\ RollupRecordsTile'
          /\ Len(arweave') = Len(arweave) + 1 /\ arweave'[Len(arweave) + 1] = File
      BY <2>1, UploadKeepsTiling
    <2>3. /\ exec'.pc = "send" /\ exec'.start = exec.start /\ exec'.end = exec.end
          /\ exec'.prev = exec.prev /\ exec'.batch = exec.batch /\ exec'.tx = Len(arweave) + 1
      BY <1>6 DEF Upload, TypeOK, ExecState
    <2>4. CursorAhead' /\ RecordsKeyed'
      BY <1>0, <2>1 DEF CursorAhead, RecordsKeyed, LastRollup, get_last_record
    <2>5. exec'.tx \in 1 .. Len(arweave') /\ arweave'[exec'.tx] = File'
      <3>1. Len(arweave) \in Nat
        BY DEF TypeOK
      <3> QED
        BY <2>2, <2>3, <3>1 DEF File
    <2>6. RoundContinues'
      BY <1>0, <1>3, <2>1, <2>3, <2>5 DEF RoundContinues
    <2> QED
      BY <2>2, <2>4, <2>6
  <1>7. CASE UploadFails
    <2>1. UNCHANGED cursor /\ UNCHANGED rollup_records /\ exec.pc = "upload" /\ exec'.pc = "idle"
      BY <1>7 DEF UploadFails, Fail, Idle, store, cursor
    <2>2. CASE arweave' = arweave
      BY <1>1, <2>1, <2>2
    <2>3. CASE arweave' = Append(arweave, File)
      <3>1. FilesLinked' /\ RollupRecordsTile'
        BY <2>1, <2>3, UploadKeepsTiling
      <3>2. CursorAhead' /\ RecordsKeyed' /\ RoundContinues'
        BY <1>0, <2>1 DEF CursorAhead, RecordsKeyed, LastRollup, get_last_record, RoundContinues
      <3> QED
        BY <3>1, <3>2
    <2> QED
      BY <1>7, <2>2, <2>3 DEF UploadFails
  <1>8. CASE SendStep \/ PollStep
    <2>1. UNCHANGED <<cursor, rollup_records, arweave>>
      BY <1>8 DEF SendStep, PollStep, store, cursor, chain
    <2>2. /\ exec.pc \in {"send", "poll"} /\ exec'.pc \in {"poll", "record"}
          /\ exec'.start = exec.start /\ exec'.end = exec.end
          /\ exec'.prev = exec.prev /\ exec'.batch = exec.batch /\ exec'.tx = exec.tx
      BY <1>8 DEF SendStep, PollStep, TypeOK, ExecState
    <2>3. File' = File
      BY <2>2 DEF File
    <2>4. RoundContinues'
      BY <1>0, <1>3, <2>1, <2>2, <2>3 DEF RoundContinues
    <2> QED
      BY <1>2, <2>1, <2>4
  <1>9. CASE AddRollupRecord
    <2> DEFINE n == [start |-> exec.start, end |-> exec.end, tx |-> exec.tx]
    <2>1. /\ UNCHANGED <<cursor, arweave>>
          /\ exec.pc = "record" /\ exec'.pc = "gc"
          /\ rollup_records' = {r \in rollup_records : r.start # exec.start} \cup {n}
      BY <1>9 DEF AddRollupRecord, add_rollup_record, Idle, chain
    <2>2. /\ exec.prev \in 0 .. Len(arweave)
          /\ \A q \in rollup_records : q.end <= exec.start
          /\ IF exec.start = 0
               THEN exec.prev = NoTx
               ELSE \E q \in rollup_records : q.end = exec.start /\ q.tx = exec.prev
      BY <2>1, RoundFileContinues
    <2>3. /\ exec.start < exec.end /\ exec.end <= block
          /\ exec.tx \in 1 .. Len(arweave) /\ arweave[exec.tx] = File
      BY <2>1 DEF RoundContinues
    <2>4. exec.start \in Nat /\ exec.end \in Nat /\ block \in Nat
      BY DEF TypeOK, ExecState
    <2>5. \A q \in rollup_records : /\ q.start \in Nat /\ q.end \in Nat
                                    /\ q.start < exec.start
      BY <2>2, <2>4 DEF TypeOK, RollupRecord, RollupRecordsTile
    <2>6. rollup_records' = rollup_records \cup {n}
      BY <2>1, <2>4, <2>5
    <2>7. CursorAhead'
      BY <1>0, <2>1, <2>3, <2>6 DEF CursorAhead
    <2>8. RecordsKeyed'
      <3>1. \A r \in rollup_records' : r.start <= exec.start
        BY <2>4, <2>5, <2>6
      <3>2. n \in LastRollup'
        BY <2>6, <3>1 DEF LastRollup, get_last_record
      <3>3. \A q, r \in rollup_records' : q.start = r.start => q = r
        BY <2>4, <2>5, <2>6 DEF RecordsKeyed
      <3> QED
        BY <3>2, <3>3 DEF RecordsKeyed
    <2>9. RollupRecordsTile'
      <3>1. /\ arweave[n.tx].start = n.start /\ arweave[n.tx].end = n.end
            /\ arweave[n.tx].prev = exec.prev
        BY <2>3 DEF File
      <3>2. ASSUME NEW r \in rollup_records'
            PROVE  /\ r.start < r.end
                   /\ r.tx \in 1 .. Len(arweave)
                   /\ arweave[r.tx].start = r.start
                   /\ arweave[r.tx].end = r.end
                   /\ IF r.start = 0
                        THEN arweave[r.tx].prev = NoTx
                        ELSE \E q \in rollup_records' : q.end = r.start /\ q.tx = arweave[r.tx].prev
        <4>1. CASE r \in rollup_records
          BY <2>6, <4>1 DEF RollupRecordsTile
        <4>2. CASE r = n
          BY <2>2, <2>3, <2>6, <3>1, <4>2
        <4> QED
          BY <2>6, <4>1, <4>2
      <3>3. \A q, r \in rollup_records' : q.start < r.start => q.end <= r.start
        BY <2>2, <2>4, <2>5, <2>6 DEF RollupRecordsTile
      <3> QED
        BY <2>1, <3>2, <3>3 DEF RollupRecordsTile
    <2>10. FilesLinked' /\ RoundContinues'
      BY <2>1 DEF FilesLinked, RoundContinues
    <2> QED
      BY <2>7, <2>8, <2>9, <2>10
  <1>10. CASE SendStepFails \/ PollStepFails \/ GcRange \/ GcSkip \/ AddGcRecord \/ Mine \/ DropTx
    <2>1. UNCHANGED <<cursor, rollup_records, arweave>>
      BY <1>10, ZenonT(40) DEF SendStepFails, PollStepFails, GcRange, GcSkip, AddGcRecord, Mine, DropTx,
         store, cursor, chain
    <2>2. exec' = exec \/ exec'.pc \in {"idle", "gc", "gcrecord"}
      <3>1. CASE GcRange
        <4>1. PICK r \in GcTarget :
                 exec' = [Idle EXCEPT !.pc = "gcrecord", !.start = r.start, !.end = r.end]
          BY <3>1, ZenonT(40) DEF GcRange
        <4> QED
          BY <4>1 DEF Idle
      <3>2. CASE SendStepFails \/ PollStepFails \/ GcSkip \/ AddGcRecord \/ Mine \/ DropTx
        BY <3>2 DEF SendStepFails, PollStepFails, Fail, GcSkip, AddGcRecord, Mine, DropTx, Idle
      <3> QED
        BY <1>10, <3>1, <3>2
    <2> QED
      BY <1>1, <2>1, <2>2
  <1> QED
    BY <1>4, <1>5, <1>6, <1>7, <1>8, <1>9, <1>10 DEF RollupExecutorNext, Process, OutsideFailure

LEMMA TilingNext ==
    ASSUME TilingInv, [Next]_vars
    PROVE  TilingInv'
  <1>0. TypeOK'
    BY TypeNext DEF TilingInv
  <1>1. CASE RollupExecutorNext /\ UNCHANGED node
    BY <1>0, <1>1, TilingExecutor DEF TilingInv
  <1>2. CASE (\E w \in Worker : SendMutation(w)) \/ UNCHANGED vars
    <2>1. UNCHANGED <<block, block_key, rollup_records, arweave, exec>>
      BY <1>2 DEF SendMutation, incr_nonce, generate_mutation_block_and_order, increase_order,
         apply_mutation, apply_mutation_fails, log_mutation, vars, store, cursor, executor, chain
    <2>2. block' \in Nat /\ block <= block'
      BY <2>1 DEF TilingInv, TypeOK
    <2> QED
      BY <1>0, <2>1, <2>2, TilingUndisturbed DEF TilingInv, CursorAhead
  <1>3. CASE ProduceBlock
    <2>1. /\ UNCHANGED <<rollup_records, arweave, exec>>
          /\ block' = block + 1 /\ block_key' = block + 1
      BY <1>3 DEF ProduceBlock, increase_block_return_last_state, executor, chain
    <2>2. block \in Nat /\ block' \in Nat /\ block <= block'
      BY <2>1 DEF TilingInv, TypeOK
    <2>3. /\ RecordsKeyed' /\ RollupRecordsTile' /\ FilesLinked' /\ RoundContinues'
          /\ \A r \in rollup_records' : r.end <= block'
      BY <2>1, <2>2, TilingUndisturbed
    <2> QED
      BY <1>0, <2>1, <2>2, <2>3 DEF TilingInv, CursorAhead, NoBlockKey
  <1>4. CASE Crash
    <2>1. /\ UNCHANGED <<rollup_records, arweave, block_key>> /\ exec'.pc = "idle"
          /\ block' = IF block_key = NoBlockKey THEN 0 ELSE block_key + 1
      BY <1>4 DEF Crash, recover, chain, Idle
    <2>2. block \in Nat /\ block' \in Nat /\ block <= block' /\ block_key \in Nat
      BY <2>1 DEF TilingInv, TypeOK, CursorAhead
    <2>3. /\ RecordsKeyed' /\ RollupRecordsTile' /\ FilesLinked' /\ RoundContinues'
          /\ \A r \in rollup_records' : r.end <= block'
      BY <2>1, <2>2, TilingUndisturbed
    <2> QED
      BY <1>0, <2>1, <2>2, <2>3 DEF TilingInv, CursorAhead, NoBlockKey
  <1> QED
    BY <1>1, <1>2, <1>3, <1>4 DEF Next

LEMMA Tiling == Spec => []TilingInv
  BY TilingInit, TilingNext, PTL DEF Spec

(* The variables of the node and of what it talks to keep their types.     *)
THEOREM TypeCorrect == Spec => []TypeOK
  <1>1. TilingInv => TypeOK
    BY DEF TilingInv
  <1> QED
    BY <1>1, Tiling, PTL

(* Whatever fails and whenever the node crashes, process() records rounds  *)
(* that follow each other without a gap or an overlap, each backed by its  *)
(* file on Arweave.                                                        *)
THEOREM RollupsTile == Spec => []RollupRecordsTile
  <1>1. TilingInv => RollupRecordsTile
    BY DEF TilingInv
  <1> QED
    BY <1>1, Tiling, PTL

(* From every file on Arweave, those of abandoned rounds included, the     *)
(* Last-Rollup-Tx tags lead back to block 0 without a gap or an overlap.   *)
THEOREM ArchiveLinked == Spec => []FilesLinked
  <1>1. TilingInv => FilesLinked
    BY DEF TilingInv
  <1> QED
    BY <1>1, Tiling, PTL

=============================================================================
