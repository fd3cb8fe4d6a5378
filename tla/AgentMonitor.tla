---------------------------- MODULE AgentMonitor ----------------------------
(***************************************************************************)
(* The AgentInfo synchronisation engine of pkg/monitor/agent.go.           *)
(*                                                                         *)
(* Actors: the learning-channel consumer (updateOfPortIPAddress), the      *)
(* periodic ticker, the single queue worker (syncAgentInfoWorker /         *)
(* syncAgentInfo, split at its remote calls), the shared informer that     *)
(* caches the remote AgentInfo, the remote object store with its           *)
(* resourceVersion check, other writers of the object, agent restarts,     *)
(* and the OVSDB cache mirror (an environment: its code is not in this     *)
(* repository's sources).                                                  *)
(*                                                                         *)
(* Data is abstracted to what the properties tell apart: an AgentInfo is a *)
(* set of interface records (bridges and ports flattened), an IPMap maps   *)
(* each global address to its discovery time (0 = absent), and time is the *)
(* number of learning events so far.                                       *)
(***************************************************************************)
EXTENDS AgentInfoData, FiniteSets

CONSTANTS
    OtherIPs,      \* loopback, link-local and multicast addresses
    MaxFail,       \* bound on failed remote calls
    MaxRestart,    \* bound on agent restarts
    MaxExternal,   \* bound on writes by other clients
    MaxOvsChange   \* bound on changes of the OVSDB mirror

ASSUME IPsAssumption == GlobalIPs \cap OtherIPs = {}
ASSUME BoundsAssumption ==
    /\ MaxFail \in Nat
    /\ MaxRestart \in Nat
    /\ MaxExternal \in Nat
    /\ MaxOvsChange \in Nat

VARIABLES
    ovs,           \* the OVSDB cache mirror: Interface rows
    ovsTorn,       \* a Port referenced by a Bridge is missing from the mirror
    ovsChanges,    \* mirror changes so far
    ipCache,       \* monitor.ipCache: "<bridge>-<ofport>" -> IPMap
    now,           \* learning events so far; the clock of discovery times
    remote,        \* the AgentInfo held by the apiserver
    infSynced,     \* agentInformer.HasSynced()
    infObj,        \* the informer's copy of the AgentInfo
    infStale,      \* the remote was written since the informer's copy
    dirty,         \* workqueue: the agent name is in the dirty set
    processing,    \* workqueue: the agent name is being processed
    waiting,       \* workqueue: an AddAfter(name, 1s) is pending
    wpc,           \* where the worker is in syncAgentInfoWorker
    snap,          \* the AgentInfo built by getAgentInfo in this attempt
    origin,        \* the AgentInfo returned by k8sClientGet in this attempt
    originCurrent, \* origin's resourceVersion is still the remote's
    fails, restarts, externals

vars == <<ovs, ovsTorn, ovsChanges, ipCache, now, remote, infSynced, infObj,
          infStale, dirty, processing, waiting, wpc, snap, origin,
          originCurrent, fails, restarts, externals>>

-----------------------------------------------------------------------------
(* Data *)

\* ofport absent (an empty OvsSet) or negative: the float64 check fails
InvalidOfport == -1

OvsRow == [present : BOOLEAN, br : Bridges,
           ofport : Ofports \cup {InvalidOfport}, err : BOOLEAN]

AbsentRow == [present |-> FALSE, br |-> CHOOSE b \in Bridges : TRUE,
              ofport |-> InvalidOfport, err |-> FALSE]

\* the cache holds a (non-nil) map for key k
CacheHas(cache, k) == k \in Keys /\ \E ip \in GlobalIPs : cache[k][ip] > 0

EmptyCache == [k \in Keys |-> NoIPs]

\* OVSDB keeps ofports unique within a bridge
OfportFree(m, b, p) ==
    p = InvalidOfport \/
    \A j \in Ifaces : ~(m[j].present /\ m[j].br = b /\ m[j].ofport = p)

Mirrors == {m \in [Ifaces -> OvsRow] :
              \A i \in Ifaces :
                 /\ ~m[i].present => m[i] = AbsentRow
                 /\ m[i].present =>
                       OfportFree([m EXCEPT ![i] = AbsentRow],
                                  m[i].br, m[i].ofport)}

-----------------------------------------------------------------------------
(* The snapshot: getAgentInfo and the fetch*Locked helpers *)

\* Mutant: the raw ofport is stored when the float64 check fails
FetchInterfaceRawOfport(m, cache, i) ==
    LET valid == m[i].ofport # InvalidOfport
    IN  [name |-> i, br |-> m[i].br, ofport |-> m[i].ofport,
         ipmap |-> IF valid THEN cache[<<m[i].br, m[i].ofport>>] ELSE NoIPs]

\* fetchInterfaceLocked: the record of a present row without error, with
\* the cached addresses of its key when its ofport is valid
FetchInterface(m, cache, i) ==
    LET valid == m[i].ofport # InvalidOfport
        p     == IF valid THEN m[i].ofport ELSE 0
    IN  [name |-> i, br |-> m[i].br, ofport |-> p,
         ipmap |-> IF valid THEN cache[<<m[i].br, p>>] ELSE NoIPs]

\* ifHasError: rows with a non-empty error field are dropped
Reported(m) == {i \in Ifaces : m[i].present /\ ~m[i].err}

GetAgentInfo(m, cache) == {FetchInterface(m, cache, i) : i \in Reported(m)}

\* fetchBridgeLocked / fetchPortLocked: a Port row a Bridge references but
\* the mirror lacks is an error of the bridge, and so of the whole build
BuildFails(torn) == torn

-----------------------------------------------------------------------------
(* mergeAgentInfo's side effect on the cache *)

\* the local IPMap is monitor.ipCache[key] itself, so the merge also
\* writes the copied addresses into every non-nil cache map
MergedCache(cache, local, o) ==
    [k \in Keys |->
        IF CacheHas(cache, k) /\ \E r \in local : Key(r) = k
        THEN MergeIface(CHOOSE r \in local : Key(r) = k, o).ipmap
        ELSE cache[k]]

-----------------------------------------------------------------------------
(* shouldSyncOnLearnIPLocked over the AgentInfo k8sClientGet returned *)

\* Mutant: only the content of the remote's interfaces is compared
ShouldSyncOnLearnIPContentOnly(cache, view) ==
    \/ ~view.found
    \/ \E r \in view.ifaces :
          CacheHas(cache, Key(r)) /\
          \E ip \in GlobalIPs : cache[Key(r)][ip] > 0 /\ r.ipmap[ip] = 0

ShouldSyncOnLearnIP(cache, view) ==
    \/ ~view.found
    \/ \E r \in view.ifaces :
          CacheHas(cache, Key(r)) /\
          \E ip \in GlobalIPs : cache[Key(r)][ip] > 0 /\ r.ipmap[ip] = 0
    \/ Cardinality({r \in view.ifaces : CacheHas(cache, Key(r))})
         # Cardinality({k \in Keys : CacheHas(cache, k)})

-----------------------------------------------------------------------------
Init ==
    /\ ovs \in Mirrors
    /\ ovsTorn = FALSE
    /\ ovsChanges = 0
    /\ ipCache = EmptyCache
    /\ now = 0
    /\ remote = NotFound
    /\ infSynced = FALSE
    /\ infObj = NotFound
    /\ infStale = FALSE
    /\ dirty = FALSE
    /\ processing = FALSE
    /\ waiting = FALSE
    /\ wpc = "idle"
    /\ snap = {}
    /\ origin = NotFound
    /\ originCurrent = FALSE
    /\ fails = 0
    /\ restarts = 0
    /\ externals = 0

\* workqueue.Add: the item becomes queued unless it is dirty already; while
\* it is processing it is queued again by Done. Queued = dirty /\ ~processing.
QueueAdd == dirty' = TRUE

\* the attempt ends: AddAfter(name, time.Second) when it failed, then the
\* deferred syncQueue.Done and the release of ipCacheLock
EndAttempt(failed) ==
    /\ waiting' = (waiting \/ failed)
    /\ processing' = FALSE
    /\ wpc' = "idle"
    /\ snap' = {}
    /\ origin' = NotFound
    /\ originCurrent' = FALSE

ClearIPCache == ipCache' = EmptyCache

\* a remote call that fails on the network, within the bound
Fail == fails < MaxFail /\ fails' = fails + 1

\* every write to the remote bumps its resourceVersion
RemoteWrite(ifaces) ==
    /\ remote' = [found |-> TRUE, ifaces |-> ifaces]
    /\ infStale' = TRUE

-----------------------------------------------------------------------------
(* The learning-channel consumer *)

\* updateOfPortIPAddress: under ipCacheLock, replace the map of each key of
\* the batch that carries a global unicast address, then ask the remote
\* (through k8sClientGet) whether the learned state is new, and enqueue.
UpdateOfPortIPAddress ==
    /\ wpc \in {"idle", "got"}
    /\ now < MaxLearn
    /\ \E dom \in SUBSET Keys \ {{}} :
       \E batch \in [dom -> GlobalIPs \cup OtherIPs] :
         LET c == [k \in Keys |->
                     IF k \in dom /\ batch[k] \in GlobalIPs
                     THEN [ip \in GlobalIPs |->
                             IF ip = batch[k] THEN now + 1 ELSE 0]
                     ELSE ipCache[k]]
         IN  /\ ipCache' = c
             /\ \/ /\ infSynced
                   /\ dirty' = (dirty \/ ShouldSyncOnLearnIP(c, infObj))
                   /\ UNCHANGED fails
                \/ /\ ~infSynced
                   /\ dirty' = (dirty \/ ShouldSyncOnLearnIP(c, remote))
                   /\ UNCHANGED fails
                \/ /\ ~infSynced
                   /\ Fail
                   /\ dirty' = TRUE
    /\ now' = now + 1
    /\ UNCHANGED <<ovs, ovsTorn, ovsChanges, remote, infSynced, infObj,
                   infStale, processing, waiting, wpc, snap, origin,
                   originCurrent, restarts, externals>>

\* periodicallySyncAgentInfo: the ticker enqueues the agent name
PeriodicallySyncAgentInfo ==
    /\ QueueAdd
    /\ UNCHANGED <<ovs, ovsTorn, ovsChanges, ipCache, now, remote, infSynced,
                   infObj, infStale, processing, waiting, wpc, snap, origin,
                   originCurrent, fails, restarts, externals>>

\* the delaying queue moves an AddAfter item into the queue
RetryAfterFires ==
    /\ waiting
    /\ waiting' = FALSE
    /\ QueueAdd
    /\ UNCHANGED <<ovs, ovsTorn, ovsChanges, ipCache, now, remote, infSynced,
                   infObj, infStale, processing, wpc, snap, origin,
                   originCurrent, fails, restarts, externals>>

-----------------------------------------------------------------------------
(* The worker: syncAgentInfoWorker and syncAgentInfo *)

\* syncQueue.Get returns the agent name
SyncAgentInfoWorkerGet ==
    /\ wpc = "idle"
    /\ dirty /\ ~processing
    /\ processing' = TRUE
    /\ dirty' = FALSE
    /\ wpc' = "got"
    /\ UNCHANGED <<ovs, ovsTorn, ovsChanges, ipCache, now, remote, infSynced,
                   infObj, infStale, waiting, snap, origin, originCurrent,
                   fails, restarts, externals>>

\* take ipCacheLock and build the AgentInfo under the mirror's lock; a
\* Port missing from the mirror fails the whole build
SyncAgentInfoBuild ==
    /\ wpc = "got"
    /\ \/ /\ BuildFails(ovsTorn)
          /\ EndAttempt(TRUE)
          /\ UNCHANGED dirty
       \/ /\ ~BuildFails(ovsTorn)
          /\ snap' = GetAgentInfo(ovs, ipCache)
          /\ wpc' = "fetch"
          /\ UNCHANGED <<dirty, processing, waiting, origin, originCurrent>>
    /\ UNCHANGED <<ovs, ovsTorn, ovsChanges, ipCache, now, remote, infSynced,
                   infObj, infStale, fails, restarts, externals>>

\* k8sClientGet: the informer's copy once it has synced, else a GET
SyncAgentInfoFetch ==
    /\ wpc = "fetch"
    /\ \/ /\ infSynced
          /\ origin' = infObj
          /\ originCurrent' = ~infStale
          /\ wpc' = "write"
          /\ UNCHANGED <<fails, processing, waiting, snap>>
       \/ /\ ~infSynced
          /\ origin' = remote
          /\ originCurrent' = TRUE
          /\ wpc' = "write"
          /\ UNCHANGED <<fails, processing, waiting, snap>>
       \/ /\ ~infSynced
          /\ Fail
          /\ EndAttempt(TRUE)
    /\ UNCHANGED <<ovs, ovsTorn, ovsChanges, ipCache, now, remote, infSynced,
                   infObj, infStale, dirty, restarts, externals>>

\* NotFound: Create the built AgentInfo; the cache is left as it is
SyncAgentInfoCreate ==
    /\ wpc = "write"
    /\ ~origin.found
    /\ \/ /\ ~remote.found
          /\ RemoteWrite(snap)
          /\ EndAttempt(FALSE)
          /\ UNCHANGED fails
       \/ /\ remote.found               \* AlreadyExists
          /\ EndAttempt(TRUE)
          /\ UNCHANGED <<remote, infStale, fails>>
       \/ /\ Fail                       \* lost request
          /\ EndAttempt(TRUE)
          /\ UNCHANGED <<remote, infStale>>
       \/ /\ ~remote.found              \* applied, answer lost
          /\ Fail
          /\ RemoteWrite(snap)
          /\ EndAttempt(TRUE)
    /\ UNCHANGED <<ovs, ovsTorn, ovsChanges, ipCache, now, infSynced, infObj,
                   dirty, restarts, externals>>

\* Mutant: the ObjectMeta is taken from a fresh read instead of origin, so
\* the Update carries the current resourceVersion and never conflicts
SyncAgentInfoUpdateFreshMeta ==
    /\ wpc = "write"
    /\ origin.found
    /\ LET merged == MergeAgentInfo(snap, origin.ifaces)
           merges == MergedCache(ipCache, snap, origin.ifaces)
       IN  \/ /\ RemoteWrite(merged)
              /\ ClearIPCache
              /\ EndAttempt(FALSE)
              /\ UNCHANGED fails
           \/ /\ Fail
              /\ ipCache' = merges
              /\ EndAttempt(TRUE)
              /\ UNCHANGED <<remote, infStale>>
           \/ /\ Fail
              /\ RemoteWrite(merged)
              /\ ipCache' = merges
              /\ EndAttempt(TRUE)
    /\ UNCHANGED <<ovs, ovsTorn, ovsChanges, now, infSynced, infObj,
                   dirty, restarts, externals>>

\* found: merge, take origin's ObjectMeta and Update; the resourceVersion
\* check fails unless origin is the remote's current version. Only a
\* successful Update clears the cache.
SyncAgentInfoUpdate ==
    /\ wpc = "write"
    /\ origin.found
    /\ LET merged == MergeAgentInfo(snap, origin.ifaces)
           merges == MergedCache(ipCache, snap, origin.ifaces)
       IN  \/ /\ originCurrent
              /\ RemoteWrite(merged)
              /\ ClearIPCache
              /\ EndAttempt(FALSE)
              /\ UNCHANGED fails
           \/ /\ ~originCurrent         \* Conflict
              /\ ipCache' = merges
              /\ EndAttempt(TRUE)
              /\ UNCHANGED <<remote, infStale, fails>>
           \/ /\ Fail                   \* lost request
              /\ ipCache' = merges
              /\ EndAttempt(TRUE)
              /\ UNCHANGED <<remote, infStale>>
           \/ /\ originCurrent          \* applied, answer lost
              /\ Fail
              /\ RemoteWrite(merged)
              /\ ipCache' = merges
              /\ EndAttempt(TRUE)
    /\ UNCHANGED <<ovs, ovsTorn, ovsChanges, now, infSynced, infObj,
                   dirty, restarts, externals>>

-----------------------------------------------------------------------------
(* The informer, other clients, restarts *)

\* the informer's initial List
InformerList ==
    /\ ~infSynced
    /\ infSynced' = TRUE
    /\ infObj' = remote
    /\ infStale' = FALSE
    /\ UNCHANGED <<ovs, ovsTorn, ovsChanges, ipCache, now, remote, dirty,
                   processing, waiting, wpc, snap, origin, originCurrent,
                   fails, restarts, externals>>

\* the informer's Watch delivers the remote's latest version
InformerWatch ==
    /\ infSynced /\ infStale
    /\ infObj' = remote
    /\ infStale' = FALSE
    /\ UNCHANGED <<ovs, ovsTorn, ovsChanges, ipCache, now, remote, infSynced,
                   dirty, processing, waiting, wpc, snap, origin,
                   originCurrent, fails, restarts, externals>>

\* another client updates fields of the AgentInfo this model abstracts
ExternalUpdate ==
    /\ remote.found
    /\ externals < MaxExternal
    /\ externals' = externals + 1
    /\ infStale' = TRUE
    /\ originCurrent' = FALSE
    /\ UNCHANGED <<ovs, ovsTorn, ovsChanges, ipCache, now, remote, infSynced,
                   infObj, dirty, processing, waiting, wpc, snap, origin,
                   fails, restarts>>

\* the agent process restarts: every in-memory structure starts afresh
AgentRestart ==
    /\ restarts < MaxRestart
    /\ restarts' = restarts + 1
    /\ ipCache' = EmptyCache
    /\ infSynced' = FALSE
    /\ infObj' = NotFound
    /\ infStale' = FALSE
    /\ dirty' = FALSE
    /\ processing' = FALSE
    /\ waiting' = FALSE
    /\ wpc' = "idle"
    /\ snap' = {}
    /\ origin' = NotFound
    /\ originCurrent' = FALSE
    /\ UNCHANGED <<ovs, ovsTorn, ovsChanges, now, remote, fails, externals>>

-----------------------------------------------------------------------------
(* The OVSDB cache mirror, kept by the OVSDB monitor from the database's   *)
(* change notifications (an environment of this component).               *)

OvsChange ==
    /\ ovsChanges < MaxOvsChange
    /\ ovsChanges' = ovsChanges + 1

\* an Interface row appears with its Port in one transaction (createPort
\* of the test harness), with an ofport only when one is given
OvsAddInterface ==
    /\ OvsChange
    /\ \E i \in Ifaces, b \in Bridges, p \in Ofports \cup {InvalidOfport} :
          /\ ~ovs[i].present
          /\ OfportFree(ovs, b, p)
          /\ ovs' = [ovs EXCEPT ![i] = [present |-> TRUE, br |-> b,
                                        ofport |-> p, err |-> FALSE]]
    /\ UNCHANGED ovsTorn

\* an interface's ofport is assigned or changed (updateInterfaceOfPort of
\* the test harness), or withdrawn by vswitchd
OvsSetOfport ==
    /\ OvsChange
    /\ \E i \in Ifaces, p \in Ofports \cup {InvalidOfport} :
          /\ ovs[i].present
          /\ p # ovs[i].ofport
          /\ OfportFree(ovs, ovs[i].br, p)
          /\ ovs' = [ovs EXCEPT ![i].ofport = p]
    /\ UNCHANGED ovsTorn

\* the interface's error column is set or cleared
OvsSetError ==
    /\ OvsChange
    /\ \E i \in Ifaces :
          /\ ovs[i].present
          /\ ovs' = [ovs EXCEPT ![i].err = ~ovs[i].err]
    /\ UNCHANGED ovsTorn

\* the Port, its Interface and the Bridge's reference go in one
\* transaction (deletePort of the test harness)
OvsDeleteInterface ==
    /\ OvsChange
    /\ \E i \in Ifaces :
          /\ ovs[i].present
          /\ ovs' = [ovs EXCEPT ![i] = AbsentRow]
    /\ UNCHANGED ovsTorn

\* a Bridge's ports column names a Port row not yet (or no longer) mirrored
OvsTear ==
    /\ OvsChange
    /\ ~ovsTorn
    /\ ovsTorn' = TRUE
    /\ UNCHANGED ovs

\* the missing row's notification arrives
OvsMend ==
    /\ ovsTorn
    /\ ovsTorn' = FALSE
    /\ UNCHANGED <<ovs, ovsChanges>>

OvsNext ==
    /\ \/ OvsAddInterface \/ OvsSetOfport \/ OvsSetError
       \/ OvsDeleteInterface \/ OvsTear \/ OvsMend
    /\ UNCHANGED <<ipCache, now, remote, infSynced, infObj, infStale, dirty,
                   processing, waiting, wpc, snap, origin, originCurrent,
                   fails, restarts, externals>>

-----------------------------------------------------------------------------
Worker ==
    \/ SyncAgentInfoWorkerGet
    \/ SyncAgentInfoBuild
    \/ SyncAgentInfoFetch
    \/ SyncAgentInfoCreate
    \/ SyncAgentInfoUpdate

Next ==
    \/ UpdateOfPortIPAddress
    \/ PeriodicallySyncAgentInfo
    \/ RetryAfterFires
    \/ Worker
    \/ InformerList
    \/ InformerWatch
    \/ ExternalUpdate
    \/ AgentRestart
    \/ OvsNext

Spec == Init /\ [][Next]_vars

\* The worker loop (wait.Until), the ticker, the delaying queue and the
\* informer run forever once started; the mirror's missing row is
\* eventually delivered. Learning, other clients, restarts and mirror
\* changes are the environment and need not happen.
Fairness ==
    /\ WF_vars(SyncAgentInfoWorkerGet)
    /\ WF_vars(SyncAgentInfoBuild)
    /\ WF_vars(SyncAgentInfoFetch)
    /\ WF_vars(SyncAgentInfoCreate)
    /\ WF_vars(SyncAgentInfoUpdate)
    /\ WF_vars(PeriodicallySyncAgentInfo)
    /\ WF_vars(RetryAfterFires)
    /\ WF_vars(InformerList)
    /\ WF_vars(InformerWatch)
    /\ WF_vars(OvsMend /\ UNCHANGED <<ipCache, now, remote, infSynced,
                   infObj, infStale, dirty, processing, waiting, wpc, snap,
                   origin, originCurrent, fails, restarts, externals>>)

FairSpec == Spec /\ Fairness

-----------------------------------------------------------------------------
(* Properties *)

TypeOK ==
    /\ ovs \in [Ifaces -> OvsRow]
    /\ ovsTorn \in BOOLEAN
    /\ ovsChanges \in 0..MaxOvsChange
    /\ ipCache \in [Keys -> IPMaps]
    /\ now \in 0..MaxLearn
    /\ remote \in RemoteObj
    /\ infSynced \in BOOLEAN
    /\ infObj \in RemoteObj
    /\ infStale \in BOOLEAN
    /\ dirty \in BOOLEAN
    /\ processing \in BOOLEAN
    /\ waiting \in BOOLEAN
    /\ wpc \in {"idle", "got", "fetch", "write"}
    /\ snap \in SUBSET IfaceRec
    /\ origin \in RemoteObj
    /\ originCurrent \in BOOLEAN
    /\ fails \in 0..MaxFail
    /\ restarts \in 0..MaxRestart
    /\ externals \in 0..MaxExternal

\* An interface whose ofport is absent or negative is reported with Ofport 0,
\* and getCpIntf matches it with any remote interface of Ofport 0 on its
\* bridge. No such interface of the AgentInfo ever shows an address: the
\* build attaches none to it, and the merge only copies addresses between
\* interfaces of one bridge and ofport.
InvalidPortsCarryNoAddresses == NoAddressAtInvalidPort(remote.ifaces)

\* an address of the cache that no interface of the AgentInfo obj on the
\* same bridge and ofport shows
Unreflected(cache, obj) ==
    \E k \in Keys, ip \in GlobalIPs :
        /\ cache[k][ip] > 0
        /\ \A r \in obj.ifaces : Key(r) = k => r.ipmap[ip] = 0

\* spec 4.3, trigger (b): a learning batch after which the cache holds an
\* address that the AgentInfo does not show enqueues the agent name, when
\* the copy shouldSyncOnLearnIPLocked consults is current (a direct GET, or
\* an informer copy no write came after). The content check alone misses a
\* key that no remote interface carries; the count check catches it only
\* while the AgentInfo has at most one interface per key.
LearnSyncRequested ==
    [][now' = now + 1 /\ ~(infSynced /\ infStale) /\ Unreflected(ipCache', remote)
         => dirty']_vars

\* spec 3 and 8, "merge never loses remote-only data": no write to the
\* AgentInfo drops an address from an interface whose bridge and ofport
\* are still reported. It rests on mergeAgentInfo copying remote addresses
\* forward and on the resourceVersion check refusing an Update built from a
\* stale informer copy.
AddressesKept == KeepsAddresses(remote, remote')

IPMapNeverDropsAddress == [][AddressesKept]_vars

\* The engine implements the atomic store of AgentInfoStore, with the
\* attempt's snapshot as the agent's report: the AgentInfo is created from
\* the snapshot only when none exists, and every Update that the apiserver
\* applies (answered or not) equals the snapshot merged with the object's
\* content at that moment, although syncAgentInfo reads the object (from a
\* lagging informer) before it merges and writes. It rests on the
\* resourceVersion check of Update and on origin's ObjectMeta being copied.
Store == INSTANCE AgentInfoStore WITH local <- snap

StoreRefined == Store!StoreSpec

\* spec 3 and 4.3 step 5: a remote address is superseded only by a fresher
\* local observation, so no write to the AgentInfo moves an address's
\* discovery time back on an interface that keeps its bridge and ofport.
IPMapNeverRegresses ==
    [][remote.found =>
         \A r \in remote'.ifaces, m \in remote.ifaces :
            Key(r) = Key(m) =>
               \A ip \in GlobalIPs : r.ipmap[ip] >= m.ipmap[ip]]_vars

\* The AgentInfo reports exactly the interfaces the mirror reports, on the
\* same bridges and ofports, and every learned address has been folded in.
Converged ==
    /\ remote.found
    /\ {<<r.name, Key(r)>> : r \in remote.ifaces}
         = {<<r.name, Key(r)>> : r \in GetAgentInfo(ovs, ipCache)}
    /\ ipCache = EmptyCache

ClearedOnlyWhenPersisted ==
    [][(ipCache # EmptyCache /\ ipCache' = EmptyCache /\ restarts' = restarts)
        => \A k \in Keys, ip \in GlobalIPs :
              ipCache[k][ip] > 0 =>
                 \E r \in remote'.ifaces :
                    Key(r) = k /\ r.ipmap[ip] >= ipCache[k][ip]]_vars

\* spec 4.3 step 8: on any error the IP cache is left untouched; it changes
\* only when a learning batch replaces a port's map, when a successful
\* Update clears it, or when the agent restarts.
CacheUntouchedOnError ==
    [][ipCache' # ipCache =>
         \/ now' = now + 1
         \/ ipCache' = EmptyCache]_vars

=============================================================================
