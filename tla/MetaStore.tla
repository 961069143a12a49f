----------------------------- MODULE MetaStore -----------------------------
(***************************************************************************)
(* The DB3MetaStore contract (metadata/contracts/DB3MetaStore.sol): data   *)
(* networks with their admin, nodes and newest archive, and the databases  *)
(* and collections created in them.                                        *)
(*                                                                         *)
(* A call is a transaction, so it is one step; a call whose require fails  *)
(* reverts and changes nothing.  What a call emits goes to the log of the  *)
(* chain, which is all that the nodes of a network read of it besides the  *)
(* newest archive.  Urls and the time of the last rollup are left out: no  *)
(* require reads them after the registration.                              *)
(***************************************************************************)
EXTENDS Naturals, Sequences, TLC

CONSTANTS
    Address,         \* the accounts that send transactions
    ZeroAddress,     \* address(0)
    ArTx,            \* the Arweave transaction ids
    ZeroTx,          \* bytes32(0)
    IndexNodes,      \* the lists of index nodes a network may have
    NoIndexNodes,    \* the empty list
    Description,     \* descriptions of networks
    Name,            \* names of collections
    MaxCall          \* bound on the calls that do not revert

ASSUME MetaStoreConstants ==
    /\ ZeroAddress \notin Address
    /\ ZeroTx \notin ArTx
    /\ MaxCall \in Nat

VARIABLES
    networks,        \* _dataNetworks: [admin, rollup, index, archive, desc]
    databases,       \* _databases: <<network, db>> -> sender
    collections,     \* _collections: the keys <<network, db, name>>
    counters,        \* _databaseCounter and _collectionCounter
    log              \* the events emitted

vars == <<networks, databases, collections, counters, log>>

(* _networkCounter: networks are numbered from 1.                          *)
networkCounter == Len(networks)
registered(n) == n # 0 /\ n <= networkCounter

Init ==
    /\ networks = <<>>
    /\ databases = <<>>
    /\ collections = {}
    /\ counters = [databases |-> 0, collections |-> 0]
    /\ log = <<>>

emit(event) ==
    /\ Len(log) < MaxCall
    /\ log' = Append(log, event)

----------------------------------------------------------------------------
(* Data networks.                                                          *)

registerDataNetwork(sender, rollup, index, desc) ==
    /\ rollup # ZeroAddress
    /\ networks' = Append(networks,
          [admin |-> sender, rollup |-> rollup, index |-> index, archive |-> ZeroTx, desc |-> desc])
    /\ emit([type |-> "CreateNetwork", sender |-> sender, network |-> networkCounter + 1])
    /\ UNCHANGED <<databases, collections, counters>>

updateIndexNodes(sender, n, index) ==
    /\ registered(n)
    /\ sender = networks[n].admin
    /\ networks' = [networks EXCEPT ![n].index = index]
    /\ emit([type |-> "UpdateIndexNode", sender |-> sender, network |-> n, index |-> index])
    /\ UNCHANGED <<databases, collections, counters>>

(* The address 0 disables rollups.                                         *)
updateRollupNode(sender, n, rollup) ==
    /\ registered(n)
    /\ sender = networks[n].admin
    /\ networks' = [networks EXCEPT ![n].rollup = rollup]
    /\ emit([type |-> "UpdateRollupNode", sender |-> sender, network |-> n, rollup |-> rollup])
    /\ UNCHANGED <<databases, collections, counters>>

updateRollupSteps(sender, n, tx) ==
    /\ registered(n)
    /\ tx # ZeroTx
    /\ sender = networks[n].rollup
    /\ networks' = [networks EXCEPT ![n].archive = tx]
    /\ emit([type |-> "UpdateRollupStep", sender |-> sender, network |-> n, tx |-> tx])
    /\ UNCHANGED <<databases, collections, counters>>

transferNetwork(sender, n, to) ==
    /\ registered(n)
    /\ sender # to
    /\ sender = networks[n].admin
    /\ networks' = [networks EXCEPT ![n].admin = to]
    /\ emit([type |-> "TransferNetwork", sender |-> sender, network |-> n, to |-> to])
    /\ UNCHANGED <<databases, collections, counters>>

(* Planted fault: the new network takes over the nodes of the old one      *)
forkNetwork_with_nodes(sender, n) ==
    /\ registered(n)
    /\ networks' = Append(networks, [networks[networkCounter] EXCEPT !.admin = sender])
    /\ emit([type |-> "ForkNetwork", sender |-> sender, network |-> n, fork |-> networkCounter + 1])
    /\ UNCHANGED <<databases, collections, counters>>

(* The network copied is the last one registered, whatever n is.  The fork *)
(* has no nodes.                                                           *)
forkNetwork(sender, n) ==
    /\ registered(n)
    /\ LET dataNetwork == networks[networkCounter]
       IN  networks' = Append(networks,
             [admin |-> sender, rollup |-> ZeroAddress, index |-> NoIndexNodes,
              archive |-> dataNetwork.archive, desc |-> dataNetwork.desc])
    /\ emit([type |-> "ForkNetwork", sender |-> sender, network |-> n, fork |-> networkCounter + 1])
    /\ UNCHANGED <<databases, collections, counters>>

----------------------------------------------------------------------------
(* Databases and collections.                                              *)

(* _databases[n][db].sender, zero where nothing was stored.                *)
senderOf(n, db) ==
    IF <<n, db>> \in DOMAIN databases THEN databases[<<n, db>>] ELSE ZeroAddress

(* Planted fault: the counter is not part of the address                   *)
dbAddress_by_sender(n, counter, sender) == <<n, sender>>

(* The keccak256 of network, counter and sender.                           *)
dbAddress(n, counter, sender) == <<n, counter, sender>>

(* Planted fault: any network will do                                      *)
createDocDatabase_anywhere(sender, n) ==
    /\ LET db == dbAddress(n, counters.databases + 1, sender)
       IN  /\ senderOf(n, db) = ZeroAddress
           /\ databases' = [k \in DOMAIN databases \cup {<<n, db>>} |->
                               IF k = <<n, db>> THEN sender ELSE databases[k]]
           /\ emit([type |-> "CreateDatabase", sender |-> sender, network |-> n, db |-> db])
    /\ counters' = [counters EXCEPT !.databases = @ + 1]
    /\ UNCHANGED <<networks, collections>>

(* Everyone may create a database.                                         *)
createDocDatabase(sender, n) ==
    /\ registered(n)
    /\ LET db == dbAddress(n, counters.databases + 1, sender)
       IN  /\ senderOf(n, db) = ZeroAddress
           /\ databases' = [k \in DOMAIN databases \cup {<<n, db>>} |->
                               IF k = <<n, db>> THEN sender ELSE databases[k]]
           /\ emit([type |-> "CreateDatabase", sender |-> sender, network |-> n, db |-> db])
    /\ counters' = [counters EXCEPT !.databases = @ + 1]
    /\ UNCHANGED <<networks, collections>>

(* Planted fault: the creator of the database keeps its rights             *)
createCollection_by_creator(sender, n, db, name) ==
    /\ registered(n)
    /\ <<n, db>> \in DOMAIN databases
    /\ sender \in {senderOf(n, db), db[3]}
    /\ <<n, db, name>> \notin collections
    /\ collections' = collections \cup {<<n, db, name>>}
    /\ counters' = [counters EXCEPT !.collections = @ + 1]
    /\ emit([type |-> "CreateCollection", sender |-> sender, network |-> n, db |-> db, name |-> name])
    /\ UNCHANGED <<networks, databases>>

createCollection(sender, n, db, name) ==
    /\ registered(n)
    /\ <<n, db>> \in DOMAIN databases
    /\ senderOf(n, db) = sender
    /\ <<n, db, name>> \notin collections
    /\ collections' = collections \cup {<<n, db, name>>}
    /\ counters' = [counters EXCEPT !.collections = @ + 1]
    /\ emit([type |-> "CreateCollection", sender |-> sender, network |-> n, db |-> db, name |-> name])
    /\ UNCHANGED <<networks, databases>>

(* Planted fault: the event names the new owner as the sender              *)
transferDatabase_swapped(sender, n, db, to) ==
    /\ registered(n)
    /\ senderOf(n, db) = sender
    /\ databases' = [databases EXCEPT ![<<n, db>>] = to]
    /\ emit([type |-> "TransferDatabase", sender |-> to, network |-> n, db |-> db, to |-> sender])
    /\ UNCHANGED <<networks, collections, counters>>

(* An account has a nonzero address, so only a stored database passes.     *)
transferDatabase(sender, n, db, to) ==
    /\ registered(n)
    /\ senderOf(n, db) = sender
    /\ databases' = [databases EXCEPT ![<<n, db>>] = to]
    /\ emit([type |-> "TransferDatabase", sender |-> sender, network |-> n, db |-> db, to |-> to])
    /\ UNCHANGED <<networks, collections, counters>>

----------------------------------------------------------------------------
(* The network ids a caller may name, registered or not.                   *)
NetworkId == 0 .. networkCounter + 1

NetworkCall(sender) ==
    \E n \in NetworkId :
        \/ \E index \in IndexNodes : updateIndexNodes(sender, n, index)
        \/ \E rollup \in Address \cup {ZeroAddress} : updateRollupNode(sender, n, rollup)
        \/ \E tx \in ArTx : updateRollupSteps(sender, n, tx)
        \/ \E to \in Address \cup {ZeroAddress} : transferNetwork(sender, n, to)
        \/ forkNetwork(sender, n)

DatabaseCall(sender) ==
    \/ \E n \in NetworkId : createDocDatabase(sender, n)
    \/ \E k \in DOMAIN databases :
          \/ \E name \in Name : createCollection(sender, k[1], k[2], name)
          \/ \E to \in Address \cup {ZeroAddress} : transferDatabase(sender, k[1], k[2], to)

Next ==
    \E sender \in Address :
        \/ \E rollup \in Address, index \in IndexNodes, desc \in Description :
              registerDataNetwork(sender, rollup, index, desc)
        \/ NetworkCall(sender)
        \/ DatabaseCall(sender)

Spec == Init /\ [][Next]_vars

----------------------------------------------------------------------------
(* What a follower of the log knows after each of its events: the admins   *)
(* and archives of the networks and the owners of the databases.           *)
Known ==
    LET known[i \in 0 .. Len(log)] ==
          IF i = 0
            THEN [admin |-> <<>>, archive |-> <<>>, owner |-> <<>>]
            ELSE LET was == known[i - 1]
                     e   == log[i]
                 IN  CASE e.type = "CreateNetwork" ->
                            [was EXCEPT !.admin = Append(@, e.sender), !.archive = Append(@, ZeroTx)]
                       [] e.type = "ForkNetwork" ->
                            [was EXCEPT !.admin = Append(@, e.sender),
                                        !.archive = Append(@, @[e.network])]
                       [] e.type = "TransferNetwork" -> [was EXCEPT !.admin[e.network] = e.to]
                       [] e.type = "UpdateRollupStep" -> [was EXCEPT !.archive[e.network] = e.tx]
                       [] e.type = "CreateDatabase" ->
                            [was EXCEPT !.owner = (<<e.network, e.db>> :> e.sender) @@ @]
                       [] e.type = "TransferDatabase" ->
                            [was EXCEPT !.owner[<<e.network, e.db>>] = e.to]
                       [] OTHER -> was
    IN  known

(* The type of every variable.                                             *)
TypeOK ==
    /\ networks \in Seq([admin : Address \cup {ZeroAddress}, rollup : Address \cup {ZeroAddress},
                         index : IndexNodes \cup {NoIndexNodes}, archive : ArTx \cup {ZeroTx}, desc : Description])
    /\ \A k \in DOMAIN databases :
          k[1] \in 1 .. networkCounter /\ databases[k] \in Address \cup {ZeroAddress}
    /\ \A c \in collections : <<c[1], c[2]>> \in DOMAIN databases /\ c[3] \in Name
    /\ counters \in [databases : Nat, collections : Nat]

(* The events are enough to know who runs every network and who owns every *)
(* database.  The event processor of a node subscribes to the creations    *)
(* only, so that of what they tell it learns the first owner alone.        *)
LogTellsOwners ==
    /\ Known[Len(log)].owner = databases
    /\ Known[Len(log)].admin = [n \in 1 .. networkCounter |-> networks[n].admin]

(* Every event was allowed by what the events before it tell: whoever      *)
(* added a collection, gave away a database or changed a network owned it  *)
(* at that moment, through any chain of transfers.                         *)
LogJustified ==
    \A i \in 1 .. Len(log) :
        LET e == log[i]
            b == Known[i - 1]
        IN  /\ e.type \in {"CreateCollection", "TransferDatabase"} =>
                  <<e.network, e.db>> \in DOMAIN b.owner /\ e.sender = b.owner[<<e.network, e.db>>]
            /\ e.type \in {"UpdateIndexNode", "UpdateRollupNode", "TransferNetwork"} =>
                  e.sender = b.admin[e.network]

(* A fork rolls nothing up until its admin has appointed a rollup node.    *)
ForkWaits ==
    \A i, j \in 1 .. Len(log) :
        log[i].type = "ForkNetwork" /\ log[j].type = "UpdateRollupStep" /\ log[j].network = log[i].fork =>
            \E k \in i .. j : log[k].type = "UpdateRollupNode" /\ log[k].network = log[i].fork

(* What belongs to the zero address stays there: nobody gets a database    *)
(* back that was given up, adds a collection to it, or changes the nodes   *)
(* of a network given up, not even by creating it anew.                    *)
OrphanStep ==
    /\ \A k \in DOMAIN databases : databases[k] = ZeroAddress =>
          /\ databases'[k] = ZeroAddress
          /\ \A name \in Name : <<k[1], k[2], name>> \in collections' =>
                <<k[1], k[2], name>> \in collections
    /\ \A n \in 1 .. networkCounter : networks[n].admin = ZeroAddress =>
          /\ networks'[n].admin = ZeroAddress
          /\ networks'[n].rollup = networks[n].rollup
          /\ networks'[n].index = networks[n].index
OrphansStay == [][OrphanStep]_vars

(* What the interface says of forkNetwork: "fork a data network", with     *)
(* "The id of your data network".  A fork starts from the archive of the   *)
(* network it names.                                                       *)
LogTellsArchives ==
    \A n \in 1 .. networkCounter : networks[n].archive = Known[Len(log)].archive[n]

=============================================================================
