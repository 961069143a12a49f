--------------------------- MODULE RollupExecutor ---------------------------
(***************************************************************************)
(* The rollup executor of the data rollup node (node/rollup_executor.rs)   *)
(* with what it talks to: Arweave, which stores a file per rollup with the *)
(* tags Start-Block, End-Block and Last-Rollup-Tx, and the DB3MetaStore    *)
(* contract on an EVM chain, which holds the newest Arweave transaction.   *)
(*                                                                         *)
(* process() runs in one task, round after round.  A step of the model is  *)
(* the code between two points where another thread can change what the    *)
(* executor reads, or where an outside service can fail.                   *)
(***************************************************************************)
EXTENDS MutationStore, Sequences

CONSTANTS
    MinRollupSize,   \* SystemConfig.min_rollup_size, counted in mutations
    MinGcRound,      \* SystemConfig.min_gc_offset, in rollup rounds
    MayDrop,         \* whether a transaction sent may be dropped or revert
    MaxFail          \* bound on the calls to outside services that fail

ASSUME RollupConfig ==
    /\ MinRollupSize \in Nat
    /\ MinGcRound \in Nat
    /\ MayDrop \in BOOLEAN
    /\ MaxFail \in Nat

VARIABLES
    exec,            \* the local variables of process() and gc_mutation()
    arweave,         \* the uploaded files; a transaction id is a position
    mempool,         \* updateRollupSteps transactions sent and not yet mined
    latest,          \* DataNetwork.latestArweaveTx of the contract
    fails            \* calls that have failed so far

chain == <<arweave, mempool, latest>>

(* The empty transaction id: no previous rollup.                           *)
NoTx == 0

Idle == [pc |-> "idle", start |-> 0, end |-> 0, prev |-> NoTx, tx |-> NoTx, batch |-> {}]

RollupExecutorInit ==
    /\ exec = Idle
    /\ arweave = <<>>
    /\ mempool = <<>>
    /\ latest = NoTx
    /\ fails = 0

LastRollup == get_last_record(rollup_records)
LastEnd == IF LastRollup = {} THEN 0 ELSE (CHOOSE r \in LastRollup : TRUE).end
LastTx == IF LastRollup = {} THEN NoTx ELSE (CHOOSE r \in LastRollup : TRUE).tx

(* An outside call fails: process() returns its error to the rollup loop,  *)
(* which starts over after the next interval.                              *)
Fail ==
    /\ fails < MaxFail
    /\ fails' = fails + 1
    /\ exec' = Idle

----------------------------------------------------------------------------
(* One round of process().  Without a new block it returns at once.        *)

(* Planted fault: the round starts behind the end of the last one          *)
Begin_after_last ==
    /\ exec.pc = "idle"
    /\ block > LastEnd + 1
    /\ exec' = [Idle EXCEPT !.pc = "scan", !.start = LastEnd + 1, !.end = block, !.prev = LastTx]
    /\ UNCHANGED <<store, chain, fails>>

(* Planted fault: the last transaction is not handed on                    *)
Begin_unlinked ==
    /\ exec.pc = "idle"
    /\ block > LastEnd
    /\ exec' = [Idle EXCEPT !.pc = "scan", !.start = LastEnd, !.end = block]
    /\ UNCHANGED <<store, chain, fails>>

Begin ==
    /\ exec.pc = "idle"
    /\ block > LastEnd
    /\ exec' = [Idle EXCEPT !.pc = "scan", !.start = LastEnd, !.end = block, !.prev = LastTx]
    /\ UNCHANGED <<store, chain, fails>>

(* Nothing, or not enough, to roll up ends the round.                      *)
Scan ==
    /\ exec.pc = "scan"
    /\ LET found == get_range_mutations(exec.start, exec.end)
       IN  exec' = IF found = {} \/ Cardinality(found) < MinRollupSize
                     THEN Idle
                     ELSE [exec EXCEPT !.pc = "upload", !.batch = found]
    /\ UNCHANGED <<store, chain, fails>>

(* Planted fault: Last-Rollup-Tx is taken from the contract                *)
File_on_contract ==
    [start |-> exec.start, end |-> exec.end, prev |-> latest, batch |-> exec.batch]

File == [start |-> exec.start, end |-> exec.end, prev |-> exec.prev, batch |-> exec.batch]

(* Planted fault: an upload that failed is not noticed                     *)
Upload_unchecked ==
    /\ exec.pc = "upload"
    /\ arweave' \in {arweave, Append(arweave, File)}
    /\ exec' = [exec EXCEPT !.pc = "send", !.tx = Len(arweave) + 1]
    /\ UNCHANGED <<store, mempool, latest, fails>>

Upload ==
    /\ exec.pc = "upload"
    /\ arweave' = Append(arweave, File)
    /\ exec' = [exec EXCEPT !.pc = "send", !.tx = Len(arweave) + 1]
    /\ UNCHANGED <<store, mempool, latest, fails>>

(* The upload fails, and Arweave may have taken the file all the same.     *)
UploadFails ==
    /\ exec.pc = "upload"
    /\ Fail
    /\ arweave' \in {arweave, Append(arweave, File)}
    /\ UNCHANGED <<store, mempool, latest>>

(* Planted fault: the contract is called without a transaction             *)
SendStep_dry ==
    /\ exec.pc = "send"
    /\ exec' = [exec EXCEPT !.pc = "poll"]
    /\ UNCHANGED <<store, chain, fails>>

(* update_rollup_step sends the transaction ...                            *)
SendStep ==
    /\ exec.pc = "send"
    /\ mempool' = Append(mempool, exec.tx)
    /\ exec' = [exec EXCEPT !.pc = "poll"]
    /\ UNCHANGED <<store, arweave, latest, fails>>

SendStepFails ==
    /\ exec.pc = "send"
    /\ Fail
    /\ UNCHANGED <<store, chain>>

(* ... and looks it up at most five times; it is content with not finding  *)
(* it, and never asks whether it was mined.                                *)
PollStep ==
    /\ exec.pc = "poll"
    /\ exec' = [exec EXCEPT !.pc = "record"]
    /\ UNCHANGED <<store, chain, fails>>

(* The lookup itself fails, or the answer to the sending was lost.         *)
PollStepFails ==
    /\ exec.pc = "poll"
    /\ Fail
    /\ UNCHANGED <<store, chain>>

AddRollupRecord ==
    /\ exec.pc = "record"
    /\ add_rollup_record([start |-> exec.start, end |-> exec.end, tx |-> exec.tx])
    /\ exec' = [Idle EXCEPT !.pc = "gc"]
    /\ UNCHANGED <<cursor, headers, bodies, gc_records, chain, fails>>

----------------------------------------------------------------------------
(* gc_mutation(): collect the oldest round not collected, when enough      *)
(* rounds are left.  Deleting and recording are two writes.                *)

LastGcStart ==
    LET last == get_last_record(gc_records)
    IN  IF last = {} THEN 0 ELSE (CHOOSE r \in last : TRUE).start

(* Planted fault: the newest round is collected                            *)
GcTarget_newest == LastRollup

GcTarget ==
    IF gc_records = {}
      THEN get_record(rollup_records, LastGcStart)
      ELSE get_next_record(rollup_records, LastGcStart)

GcDue == has_enough_round_left(LastGcStart, MinGcRound)

GcRange ==
    /\ exec.pc = "gc"
    /\ GcDue
    /\ \E r \in GcTarget :
          /\ gc_range_mutation(r.start, r.end)
          /\ exec' = [Idle EXCEPT !.pc = "gcrecord", !.start = r.start, !.end = r.end]
    /\ UNCHANGED <<cursor, rollup_records, gc_records, chain, fails>>

GcSkip ==
    /\ exec.pc = "gc"
    /\ ~GcDue \/ GcTarget = {}
    /\ exec' = Idle
    /\ UNCHANGED <<store, chain, fails>>

AddGcRecord ==
    /\ exec.pc = "gcrecord"
    /\ add_gc_record([start |-> exec.start, end |-> exec.end])
    /\ exec' = Idle
    /\ UNCHANGED <<cursor, headers, bodies, rollup_records, chain, fails>>

----------------------------------------------------------------------------
(* The EVM chain: the node's transactions carry consecutive account        *)
(* nonces, so they are mined in the order they were sent.                  *)

Mine ==
    /\ mempool # <<>>
    /\ latest' = Head(mempool)
    /\ mempool' = Tail(mempool)
    /\ UNCHANGED <<store, exec, arweave, fails>>

(* A transaction that is dropped or reverts leaves the contract as it was. *)
DropTx ==
    /\ MayDrop
    /\ mempool # <<>>
    /\ fails < MaxFail
    /\ fails' = fails + 1
    /\ mempool' = Tail(mempool)
    /\ UNCHANGED <<store, exec, arweave, latest>>

Process ==
    \/ Begin \/ Scan \/ Upload \/ SendStep \/ PollStep \/ AddRollupRecord
    \/ GcRange \/ GcSkip \/ AddGcRecord

OutsideFailure == UploadFails \/ SendStepFails \/ PollStepFails \/ DropTx

RollupExecutorNext == Process \/ OutsideFailure \/ Mine

=============================================================================
