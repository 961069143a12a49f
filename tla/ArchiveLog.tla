----------------------------- MODULE ArchiveLog -----------------------------
(***************************************************************************)
(* What the data rollup node promises to a reader of the chain: an archive *)
(* of acknowledged mutations that only grows, reached from the contract,   *)
(* with a tip that never moves back behind its blocks, and with every      *)
(* mutation acknowledged, and every place of the log archived, at most     *)
(* once.  It does not promise that the archive is complete up to the tip.  *)
(***************************************************************************)
EXTENDS Naturals

VARIABLES
    acked,           \* the mutations acknowledged: [block, order, id]
    archive,         \* those a reader of the contract can recover
    tip              \* the block up to which the archive reaches

Init ==
    /\ acked = {}
    /\ archive = {}
    /\ tip = 0

(* A mutation is acknowledged once, whatever block and order it is given.  *)
Acknowledge ==
    /\ \E h \in acked' \ acked :
          /\ acked' = acked \cup {h}
          /\ \A g \in acked : g.id # h.id
    /\ UNCHANGED <<archive, tip>>

(* The archive is extended by acknowledged mutations of blocks before the  *)
(* new tip; a slot of the archive that is taken stays as it is.            *)
Publish ==
    /\ archive \subseteq archive'
    /\ archive' \subseteq acked
    /\ tip <= tip'
    /\ \A h \in archive' : h.block < tip'
    /\ \A g, h \in archive' : g.block = h.block /\ g.order = h.order => g = h
    /\ UNCHANGED acked

Next == Acknowledge \/ Publish

Spec == Init /\ [][Next]_<<acked, archive, tip>>

=============================================================================
