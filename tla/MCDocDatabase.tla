--------------------------- MODULE MCDocDatabase ---------------------------
(* Instances of DocDatabase for TLC.                                       *)
EXTENDS DocDatabase, TLC

CONSTANTS a1, a2, c1, c2, m1

TwoAccounts == {a1, a2}
OneClient == {c1}
TwoClients == {c1, c2}
OneMint == {m1}

(* The databases mutations name: the one of the contract, and the one that *)
(* the third mutation may create.                                          *)
MintAndThird == {m1, 3}

(* Handlers of clients and accounts are interchangeable.                   *)
Symmetry == Permutations(Client) \cup Permutations(Account)

(* Two states that every node can be in after its first two mutations:     *)
(* both were refused, or the two events of the contract that create the    *)
(* database m1 and its collection were handled.                            *)
Refused ==
    /\ databases = <<>> /\ db_owner = <<>> /\ collections = <<>> /\ db_state = <<>>
    /\ block_state = 0
    /\ acked = {} /\ written = {}

Minted ==
    \E a \in Account :
        /\ databases = (m1 :> [kind |-> "doc", sender |-> a])
        /\ db_owner = (<<a, 1>> :> m1)
        /\ collections = (<<m1, "book">> :> [sender |-> a, indexes |-> {}])
        /\ db_state = (m1 :> [doc_order |-> 0, count |-> ("book" :> 0), total |-> 0])
        /\ block_state = 2
        /\ written = {[db |-> m1, sender |-> a, place |-> 1, order |-> 1]}
        /\ acked = {[order |-> 1, action |-> "MintDocumentDb", sender |-> a, docs |-> {}, cols |-> {}],
                    [order |-> 2, action |-> "MintCollection", sender |-> a, docs |-> {},
                     cols |-> {[db |-> m1, col |-> "book", indexes |-> {}]}]}

AfterTwo ==
    /\ Refused \/ Minted
    /\ doc_owner = <<>> /\ state_cf = <<>>
    /\ order = 2 /\ base = 0
    /\ handler = [w \in Worker |-> Free]
    /\ early = {} /\ flushes = 0 /\ crashes = 0

SpecAfterTwo == AfterTwo /\ [][Next]_vars

=============================================================================
