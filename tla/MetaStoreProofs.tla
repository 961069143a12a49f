-------------------------- MODULE MetaStoreProofs --------------------------
(***************************************************************************)
(* Proofs about the DB3MetaStore contract, for any accounts and any number *)
(* of calls.                                                               *)
(***************************************************************************)
EXTENDS MetaStore, TLAPS

USE SMTT(40), ZenonT(40)

NetworkRecord ==
    [admin : Address \cup {ZeroAddress}, rollup : Address \cup {ZeroAddress},
     index : IndexNodes \cup {NoIndexNodes}, archive : ArTx \cup {ZeroTx}, desc : Description]

(* The addresses given out contain a value the counter has passed, so the  *)
(* next one is new: an address is never given out again.                   *)
AddressesUsed ==
    /\ networks \in Seq(NetworkRecord)
    /\ counters \in [databases : Nat, collections : Nat]
    /\ \A k \in DOMAIN databases :
          /\ k \in Nat \X (Nat \X Nat \X Address)
          /\ k[2][2] <= counters.databases

(* Replacing one network leaves a list of networks.                        *)
LEMMA Replaced ==
    ASSUME NEW n \in 1 .. Len(networks), networks \in Seq(NetworkRecord), NEW r \in NetworkRecord
    PROVE  /\ [networks EXCEPT ![n] = r] \in Seq(NetworkRecord)
           /\ [networks EXCEPT ![n] = r][n] = r
           /\ \A m \in 1 .. Len(networks) : m # n => [networks EXCEPT ![n] = r][m] = networks[m]
  OBVIOUS

LEMMA AddressesUsedInit == Init => AddressesUsed
  BY DEF Init, AddressesUsed

(* The calls that concern networks change no address and no counter.       *)
LEMMA NetworkSteps ==
    ASSUME AddressesUsed, NEW sender \in Address,
           \/ \E rollup \in Address, index \in IndexNodes, desc \in Description :
                 registerDataNetwork(sender, rollup, index, desc)
           \/ NetworkCall(sender)
    PROVE  AddressesUsed' /\ OrphanStep
  <1> USE MetaStoreConstants DEF AddressesUsed
  <1>0. Len(networks) \in Nat /\ \A n \in 1 .. Len(networks) : networks[n] \in NetworkRecord
    OBVIOUS
  <1>1. CASE \E rollup \in Address, index \in IndexNodes, desc \in Description :
                registerDataNetwork(sender, rollup, index, desc)
    <2>1. PICK rollup \in Address, index \in IndexNodes, desc \in Description :
             registerDataNetwork(sender, rollup, index, desc)
      BY <1>1
    <2> DEFINE r == [admin |-> sender, rollup |-> rollup, index |-> index,
                     archive |-> ZeroTx, desc |-> desc]
    <2>2. /\ networks' = Append(networks, r) /\ r \in NetworkRecord
          /\ UNCHANGED <<databases, collections, counters>>
      BY <2>1 DEF registerDataNetwork, NetworkRecord
    <2>3. networks' \in Seq(NetworkRecord) /\ \A n \in 1 .. Len(networks) : networks'[n] = networks[n]
      BY <2>2
    <2> QED
      BY <2>2, <2>3 DEF OrphanStep, networkCounter
  <1>2. CASE NetworkCall(sender)
    <2>1. PICK n \in NetworkId :
             \/ \E index \in IndexNodes : updateIndexNodes(sender, n, index)
             \/ \E rollup \in Address \cup {ZeroAddress} : updateRollupNode(sender, n, rollup)
             \/ \E tx \in ArTx : updateRollupSteps(sender, n, tx)
             \/ \E to \in Address \cup {ZeroAddress} : transferNetwork(sender, n, to)
             \/ forkNetwork(sender, n)
      BY <1>2 DEF NetworkCall
    <2>2. UNCHANGED <<databases, collections, counters>>
      BY <2>1 DEF updateIndexNodes, updateRollupNode, updateRollupSteps, transferNetwork, forkNetwork
    <2>0. registered(n)
      BY <2>1 DEF updateIndexNodes, updateRollupNode, updateRollupSteps, transferNetwork, forkNetwork
    <2>3. n \in 1 .. Len(networks)
      BY <1>0, <2>0 DEF NetworkId, networkCounter, registered
    <2>4. SUFFICES
            /\ networks' \in Seq(NetworkRecord)
            /\ \A m \in 1 .. Len(networks) : networks[m].admin = ZeroAddress =>
                  /\ networks'[m].admin = ZeroAddress
                  /\ networks'[m].rollup = networks[m].rollup
                  /\ networks'[m].index = networks[m].index
      BY <2>2 DEF OrphanStep, networkCounter
    <2> DEFINE old == networks[n]
    <2>10. /\ old.admin \in Address \cup {ZeroAddress} /\ old.rollup \in Address \cup {ZeroAddress}
           /\ old.index \in IndexNodes \cup {NoIndexNodes} /\ old.archive \in ArTx \cup {ZeroTx}
           /\ old.desc \in Description /\ old \in NetworkRecord
      BY <1>0, <2>3 DEF NetworkRecord
    <2>5. CASE \E index \in IndexNodes : updateIndexNodes(sender, n, index)
      <3>1. PICK index \in IndexNodes : updateIndexNodes(sender, n, index)
        BY <2>5
      <3> DEFINE r == [old EXCEPT !.index = index]
      <3>2. networks' = [networks EXCEPT ![n] = r] /\ old.admin = sender
        BY <3>1 DEF updateIndexNodes
      <3>3. r \in NetworkRecord
        BY <2>10 DEF NetworkRecord
      <3>4. old.admin # ZeroAddress
        BY <3>2
      <3> HIDE DEF r
      <3> QED
        BY <2>3, <3>2, <3>3, <3>4, Replaced
    <2>6. CASE \E rollup \in Address \cup {ZeroAddress} : updateRollupNode(sender, n, rollup)
      <3>1. PICK rollup \in Address \cup {ZeroAddress} : updateRollupNode(sender, n, rollup)
        BY <2>6
      <3> DEFINE r == [old EXCEPT !.rollup = rollup]
      <3>2. networks' = [networks EXCEPT ![n] = r] /\ old.admin = sender
        BY <3>1 DEF updateRollupNode
      <3>3. r \in NetworkRecord
        BY <2>10 DEF NetworkRecord
      <3>4. old.admin # ZeroAddress
        BY <3>2
      <3> HIDE DEF r
      <3> QED
        BY <2>3, <3>2, <3>3, <3>4, Replaced
    <2>7. CASE \E tx \in ArTx : updateRollupSteps(sender, n, tx)
      <3>1. PICK tx \in ArTx : updateRollupSteps(sender, n, tx)
        BY <2>7
      <3> DEFINE r == [old EXCEPT !.archive = tx]
      <3>2. networks' = [networks EXCEPT ![n] = r] /\ old.rollup = sender
        BY <3>1 DEF updateRollupSteps
      <3>3. r \in NetworkRecord
        BY <2>10 DEF NetworkRecord
      <3>4. r.admin = old.admin /\ r.rollup = old.rollup /\ r.index = old.index
        BY <2>10 DEF NetworkRecord
      <3> HIDE DEF r
      <3> QED
        BY <2>3, <3>2, <3>3, <3>4, Replaced
    <2>8. CASE \E to \in Address \cup {ZeroAddress} : transferNetwork(sender, n, to)
      <3>1. PICK to \in Address \cup {ZeroAddress} : transferNetwork(sender, n, to)
        BY <2>8
      <3> DEFINE r == [old EXCEPT !.admin = to]
      <3>2. networks' = [networks EXCEPT ![n] = r] /\ old.admin = sender
        BY <3>1 DEF transferNetwork
      <3>3. r \in NetworkRecord
        BY <2>10 DEF NetworkRecord
      <3>4. old.admin # ZeroAddress
        BY <3>2
      <3> HIDE DEF r
      <3> QED
        BY <2>3, <3>2, <3>3, <3>4, Replaced
    <2>9. CASE forkNetwork(sender, n)
      <3> DEFINE r == [admin |-> sender, rollup |-> ZeroAddress, index |-> NoIndexNodes,
                       archive |-> networks[networkCounter].archive,
                       desc |-> networks[networkCounter].desc]
      <3>1. networks[networkCounter] \in NetworkRecord
        BY <1>0, <2>3 DEF networkCounter
      <3>2. networks' = Append(networks, r) /\ r \in NetworkRecord
        BY <2>9, <3>1 DEF forkNetwork, NetworkRecord
      <3>3. networks' \in Seq(NetworkRecord) /\ \A m \in 1 .. Len(networks) : networks'[m] = networks[m]
        BY <3>2
      <3> QED
        BY <3>3
    <2> QED
      BY <2>1, <2>5, <2>6, <2>7, <2>8, <2>9
  <1> QED
    BY <1>1, <1>2

(* The calls that concern databases.                                       *)
LEMMA DatabaseSteps ==
    ASSUME AddressesUsed, NEW sender \in Address, DatabaseCall(sender)
    PROVE  AddressesUsed' /\ OrphanStep
  <1> USE MetaStoreConstants DEF AddressesUsed
  <1>1. CASE \E n \in NetworkId : createDocDatabase(sender, n)
    <2>1. PICK n \in NetworkId : createDocDatabase(sender, n)
      BY <1>1
    <2> DEFINE c  == counters.databases + 1
               new == <<n, <<n, c, sender>>>>
    <2>2. /\ databases' = [k \in DOMAIN databases \cup {new} |-> IF k = new THEN sender ELSE databases[k]]
          /\ counters' = [counters EXCEPT !.databases = @ + 1]
          /\ UNCHANGED <<networks, collections>>
      BY <2>1 DEF createDocDatabase, dbAddress
    <2>3. n \in Nat /\ c \in Nat
      BY DEF NetworkId, networkCounter
    <2>4. new \in Nat \X (Nat \X Nat \X Address) /\ new[2][2] = c
      BY <2>3
    <2>5. counters' \in [databases : Nat, collections : Nat] /\ counters'.databases = c
      BY <2>2
    <2>6. \A k \in DOMAIN databases : k # new /\ databases'[k] = databases[k]
      BY <2>2, <2>4
    <2>7. AddressesUsed'
      BY <2>2, <2>4, <2>5
    <2> QED
      BY <2>2, <2>6, <2>7 DEF OrphanStep, networkCounter
  <1>2. CASE \E k \in DOMAIN databases :
                \/ \E name \in Name : createCollection(sender, k[1], k[2], name)
                \/ \E to \in Address \cup {ZeroAddress} : transferDatabase(sender, k[1], k[2], to)
    <2>1. PICK k \in DOMAIN databases :
             \/ \E name \in Name : createCollection(sender, k[1], k[2], name)
             \/ \E to \in Address \cup {ZeroAddress} : transferDatabase(sender, k[1], k[2], to)
      BY <1>2
    <2>2. k = <<k[1], k[2]>>
      OBVIOUS
    <2>3. senderOf(k[1], k[2]) = databases[k]
      BY <2>2 DEF senderOf
    <2>4. databases[k] # ZeroAddress
      BY <2>1, <2>3 DEF createCollection, transferDatabase
    <2>5. CASE \E name \in Name : createCollection(sender, k[1], k[2], name)
      <3>1. PICK name \in Name : createCollection(sender, k[1], k[2], name)
        BY <2>5
      <3>0. /\ UNCHANGED <<networks, databases>>
            /\ counters' = [counters EXCEPT !.collections = @ + 1]
            /\ collections' = collections \cup {<<k[1], k[2], name>>}
        BY ONLY <3>1 DEF createCollection
      <3>2. /\ counters'.databases = counters.databases
            /\ counters' \in [databases : Nat, collections : Nat]
        BY <3>0
      <3>3. \A j \in DOMAIN databases : databases[j] = ZeroAddress => <<j[1], j[2]>> # <<k[1], k[2]>>
        <4>1. \A j \in DOMAIN databases : j = <<j[1], j[2]>>
          OBVIOUS
        <4> QED
          BY <2>2, <2>4, <4>1
      <3>4. \A j \in DOMAIN databases : databases[j] = ZeroAddress =>
               \A nm \in Name : <<j[1], j[2], nm>> \in collections' => <<j[1], j[2], nm>> \in collections
        BY <3>0, <3>3
      <3> QED
        BY <3>0, <3>2, <3>4 DEF OrphanStep, networkCounter
    <2>6. CASE \E to \in Address \cup {ZeroAddress} : transferDatabase(sender, k[1], k[2], to)
      <3>1. PICK to \in Address \cup {ZeroAddress} : transferDatabase(sender, k[1], k[2], to)
        BY <2>6
      <3>2. databases' = [databases EXCEPT ![k] = to] /\ UNCHANGED <<networks, collections, counters>>
        BY <2>2, <3>1 DEF transferDatabase
      <3> QED
        BY <2>4, <3>2 DEF OrphanStep, networkCounter
    <2> QED
      BY <2>1, <2>5, <2>6
  <1> QED
    BY <1>1, <1>2 DEF DatabaseCall

LEMMA AddressesUsedNext ==
    ASSUME AddressesUsed, [Next]_vars
    PROVE  AddressesUsed' /\ (OrphanStep \/ UNCHANGED vars)
  <1>1. CASE Next
    BY <1>1, NetworkSteps, DatabaseSteps DEF Next
  <1>2. CASE UNCHANGED vars
    BY <1>2 DEF vars, AddressesUsed
  <1> QED
    BY <1>1, <1>2

(* A database or network given to the zero address is out of everyone's    *)
(* reach for good: no require of the contract lets a caller take it, and   *)
(* createDocDatabase never meets its address again.                        *)
THEOREM OrphansAreFinal == Spec => OrphansStay
  <1>1. AddressesUsed /\ [Next]_vars => AddressesUsed' /\ [OrphanStep]_vars
    BY AddressesUsedNext
  <1> QED
    BY <1>1, AddressesUsedInit, PTL DEF Spec, OrphansStay

=============================================================================
