---------------------------- MODULE NonceProofs ----------------------------
(***************************************************************************)
(* The nonces of the state store admit every signed mutation to the        *)
(* database at most once, for any number of accounts and handlers.         *)
(***************************************************************************)
EXTENDS StorageNodeProofs

USE SMTT(40), ZenonT(40)

(* A handler that has used a nonce and not applied its mutation yet.       *)
Pending(w) == worker[w].pc \in {"nonced", "ordered"}
IdOf(w) == IF worker[w].pc = "nonced" THEN worker[w].id ELSE worker[w].h.id

Used(m) == m[2] <= nonce[m[1]]

(* The mutations applied and those on their way have used their nonces,    *)
(* and no two of them are the same.                                        *)
NonceInv ==
    /\ \A i \in 1 .. Len(db) : Used(db[i].id)
    /\ \A w \in Worker : Pending(w) =>
          Used(IdOf(w)) /\ \A i \in 1 .. Len(db) : db[i].id # IdOf(w)
    /\ \A v, w \in Worker : Pending(v) /\ Pending(w) /\ IdOf(v) = IdOf(w) => v = w
    /\ AppliedOnce

LEMMA NonceInit == Init => NonceInv
  BY DEF Init, NonceInv, AppliedOnce, Pending, FreeWorker

(* A step that applies nothing and makes no handler pending.               *)
LEMMA NonceUndisturbed ==
    ASSUME NonceInv, UNCHANGED <<nonce, db>>,
           \A w \in Worker : Pending(w)' => Pending(w) /\ IdOf(w)' = IdOf(w)
    PROVE  NonceInv'
  <1>1. (\A i \in 1 .. Len(db) : Used(db[i].id))' /\ AppliedOnce'
    BY DEF NonceInv, AppliedOnce, Used
  <1>2. \A w \in Worker : Pending(w)' =>
          Used(IdOf(w))' /\ \A i \in 1 .. Len(db') : db'[i].id # IdOf(w)'
    BY DEF NonceInv, Used
  <1>3. \A v, w \in Worker : Pending(v)' /\ Pending(w)' /\ IdOf(v)' = IdOf(w)' => v = w
    BY DEF NonceInv
  <1> QED
    BY <1>1, <1>2, <1>3 DEF NonceInv

LEMMA NonceHandler ==
    ASSUME TypeOK, NonceInv, NEW w \in Worker, SendMutation(w)
    PROVE  NonceInv'
  <1>0. \A v \in Worker : Pending(v) => IdOf(v) \in Mutation
    <2>1. ASSUME NEW v \in Worker, Pending(v) PROVE IdOf(v) \in Mutation
      BY <2>1, HandlerHolds DEF Pending, IdOf, Header
    <2> QED
      BY <2>1
  <1>1. CASE \E a \in Account, n \in 1 .. MaxNonce : incr_nonce(w, a, n)
    <2>1. PICK a \in Account, n \in 1 .. MaxNonce : incr_nonce(w, a, n)
      BY <1>1
    <2>2. /\ n = nonce[a] + 1 /\ nonce' = [nonce EXCEPT ![a] = n] /\ db' = db
          /\ worker' = [worker EXCEPT ![w] = [pc |-> "nonced", id |-> <<a, n>>]]
      BY <2>1 DEF incr_nonce
    <2>3. /\ Pending(w)' /\ IdOf(w)' = <<a, n>>
          /\ \A v \in Worker \ {w} : Pending(v)' = Pending(v) /\ IdOf(v)' = IdOf(v)
      BY <2>2 DEF Pending, IdOf, TypeOK
    <2>4. \A m \in Mutation : Used(m) => Used(m)' /\ m # <<a, n>>
      BY <2>2 DEF Used, Mutation, TypeOK
    <2>5. Used(<<a, n>>)'
      BY <2>2 DEF Used, TypeOK
    <2>6. \A i \in 1 .. Len(db) : db[i].id \in Mutation
      <3>1. \A i \in 1 .. Len(db) : db[i] \in Header
        BY DEF TypeOK
      <3> QED
        BY <3>1 DEF Header
    <2>7. \A i \in 1 .. Len(db) : Used(db[i].id)' /\ db[i].id # <<a, n>>
      BY <2>2, <2>4, <2>6 DEF NonceInv, Used
    <2>8. \A v \in Worker \ {w} : Pending(v) => Used(IdOf(v))' /\ IdOf(v) # <<a, n>>
      BY <1>0, <2>3, <2>4 DEF NonceInv, Used
    <2> QED
      BY <2>2, <2>3, <2>5, <2>7, <2>8 DEF NonceInv, AppliedOnce
  <1>2. CASE generate_mutation_block_and_order(w)
    <2>1. UNCHANGED <<nonce, db>>
      BY <1>2 DEF generate_mutation_block_and_order
    <2>2. \A v \in Worker : Pending(v)' => Pending(v) /\ IdOf(v)' = IdOf(v)
      BY <1>2 DEF generate_mutation_block_and_order, Pending, IdOf, TypeOK
    <2> QED
      BY <2>1, <2>2, NonceUndisturbed
  <1>3. CASE apply_mutation(w)
    <2>1. /\ nonce' = nonce /\ db' = Append(db, worker[w].h)
          /\ worker' = [worker EXCEPT ![w].pc = "applied"]
          /\ Pending(w) /\ IdOf(w) = worker[w].h.id
      BY <1>3 DEF apply_mutation, Pending, IdOf
    <2>2. /\ ~Pending(w)'
          /\ \A v \in Worker \ {w} : Pending(v)' = Pending(v) /\ IdOf(v)' = IdOf(v)
      BY <2>1 DEF Pending, IdOf, TypeOK
    <2>3. /\ Len(db) \in Nat /\ Len(db') = Len(db) + 1
          /\ db'[Len(db) + 1].id = IdOf(w)
          /\ \A i \in 1 .. Len(db) : db'[i] = db[i]
      <3>1. db \in Seq(Header) /\ worker[w].h \in Header
        BY <1>3, HandlerHolds DEF TypeOK, apply_mutation
      <3> QED
        BY <2>1, <3>1
    <2>4. \A i \in 1 .. Len(db') :
             \/ i \in 1 .. Len(db) /\ db'[i] = db[i]
             \/ i = Len(db) + 1 /\ db'[i].id = IdOf(w)
      BY <2>3
    <2>5. \A i \in 1 .. Len(db') : Used(db'[i].id)
      BY <2>1, <2>4 DEF NonceInv
    <2>6. AppliedOnce'
      <3> SUFFICES ASSUME NEW i \in 1 .. Len(db'), NEW j \in 1 .. Len(db'), db'[i].id = db'[j].id
                   PROVE  i = j
        BY DEF AppliedOnce
      <3> QED
        BY <2>1, <2>4 DEF NonceInv, AppliedOnce
    <2>7. ASSUME NEW v \in Worker \ {w}, Pending(v)
          PROVE  Used(IdOf(v)) /\ \A i \in 1 .. Len(db') : db'[i].id # IdOf(v)
      BY <2>1, <2>4, <2>7 DEF NonceInv
    <2>8. \A m : Used(m)' = Used(m)
      BY <2>1 DEF Used
    <2> QED
      BY <2>2, <2>5, <2>6, <2>7, <2>8 DEF NonceInv
  <1>4. CASE apply_mutation_fails(w) \/ log_mutation(w)
    <2>1. UNCHANGED <<nonce, db>>
      BY <1>4 DEF apply_mutation_fails, log_mutation
    <2>2. \A v \in Worker : Pending(v)' => Pending(v) /\ IdOf(v)' = IdOf(v)
      BY <1>4 DEF apply_mutation_fails, log_mutation, FreeWorker, Pending, IdOf, TypeOK
    <2> QED
      BY <2>1, <2>2, NonceUndisturbed
  <1> QED
    BY <1>1, <1>2, <1>3, <1>4 DEF SendMutation

LEMMA NonceNext ==
    ASSUME TypeOK, NonceInv, [Next]_vars
    PROVE  NonceInv'
  <1>1. CASE \E w \in Worker : SendMutation(w)
    BY <1>1, NonceHandler
  <1>2. CASE \/ RollupExecutorNext /\ UNCHANGED node
             \/ ProduceBlock
             \/ UNCHANGED vars
    <2>1. UNCHANGED <<nonce, db, worker>>
      BY <1>2 DEF ProduceBlock, vars, node
    <2>2. \A w \in Worker : Pending(w)' => Pending(w) /\ IdOf(w)' = IdOf(w)
      BY <2>1 DEF Pending, IdOf
    <2> QED
      BY <2>1, <2>2, NonceUndisturbed
  <1>3. CASE Crash
    <2>1. UNCHANGED <<nonce, db>> /\ \A w \in Worker : ~Pending(w)'
      BY <1>3 DEF Crash, Pending, FreeWorker
    <2> QED
      BY <2>1, NonceUndisturbed
  <1> QED
    BY <1>1, <1>2, <1>3 DEF Next

(* However often a mutation is sent, to however many handlers at once, and *)
(* whether or not the node crashes in between, incr_nonce lets it reach    *)
(* the database at most once.                                              *)
THEOREM NoReplay == Spec => []AppliedOnce
  <1>1. NonceInv => AppliedOnce
    BY DEF NonceInv
  <1> QED
    BY <1>1, NonceInit, NonceNext, TypeCorrect, PTL DEF Spec

=============================================================================
