------------------------------ MODULE HashRing ------------------------------
(***************************************************************************)
(* Consistent hashing and the two changes of membership: Driver's host     *)
(* list and ring (hostList, nodeMap, getHosts), and what addServer and     *)
(* removeServer move before every host changes its list.                   *)
(*                                                                         *)
(* Every host keeps the same list; they change it while they refuse calls, *)
(* so one step changes it for all.  The moves of a plan are carried out in *)
(* any order, each as a whole.  A record is its hash, and holds says which *)
(* hosts hold the value that was put last under it.  Calls arrive all the  *)
(* while: a put that comes after its hash was moved does not reach the new *)
(* replica; and a move may not send all that it should, or remove more.    *)
(***************************************************************************)
EXTENDS Integers, FiniteSets, Sequences, SequencesExt

CONSTANTS
  Host,       \* the hosts there are
  RingMax,    \* the largest hash; the code's is 2^32 - 1
  Vnodes,     \* the functions that say at which hashes each host may stand
  Config,     \* the host lists that configuration files may give
  N,          \* THKVS_N, the number of replicas
  Puts,       \* the hashes of the keys that calls put
  MaxChange,  \* bound: changes of membership
  Slips       \* sets of hashes that a move may not send, fail to remove, or
              \* remove though it should not

Hash == 0 .. RingMax

\* Every host has a virtual node of its own, or the walk around the ring that
\* looks for N hosts would have no end, and no list names a host twice.
ASSUME RingAssumption ==
  /\ IsFiniteSet(Host) /\ RingMax \in Nat /\ N \in Nat \ {0, 1}
  /\ Vnodes \subseteq [Host -> SUBSET Hash] /\ Vnodes # {}
  /\ \A f \in Vnodes, h \in Host : \E p \in f[h] : \A g \in Host \ {h} : p \notin f[g]
  /\ Config \subseteq Seq(Host) /\ Config # {} /\ \A list \in Config : IsInjective(list)
  /\ MaxChange \in Nat
  /\ Puts \subseteq Hash /\ Slips \subseteq SUBSET Hash

VARIABLES
  vnodes,    \* vnodes[h]: the hashes of the names h#0, h#1, ...
  hostList,  \* the hosts in the system, in the order they came
  nodeMap,   \* the ring: from hashes to indices of hostList
  holds,     \* holds[h]: the hashes whose last value h has a copy of
  change,    \* the change of membership under way
  changes,   \* the number of changes begun
  moves,     \* the moves of its plan that are not finished
  shipped,   \* history: the hashes of the moves that are finished
  torn       \* history: the hashes that a put has reached after they were
             \* moved, or a move has slipped on, since they were put well

vars == <<vnodes, hostList, nodeMap, holds, change, changes, moves, shipped, torn>>

NoChange == [op |-> "none"]

\* A hash that has a virtual node keeps it: the first host wins.
Emplace(map, h, id) ==
  [p \in DOMAIN map \cup vnodes[h] |-> IF p \in DOMAIN map THEN map[p] ELSE id]

Standing(hosts, p) == {id \in DOMAIN hosts : p \in vnodes[hosts[id]]}

Ring(hosts) ==
  [p \in {q \in Hash : Standing(hosts, q) # {}} |-> Min(Standing(hosts, p))]

\* The way from k to p clockwise, not counting p; p = k is a lap away.
Way(k, p) == (p - k - 1) % (RingMax + 1)

\* The ranks of ids by distance: the number of those that are nearer.
Ranked(ids, far) ==
  [n \in 1 .. Cardinality(ids) |->
     CHOOSE id \in ids : Cardinality({j \in ids : far[j] < far[id]}) = n - 1]

\* Mutant of Walk: the search begins at the hash itself.
WalkFrom(map, k) ==
  Ranked(Range(map), [id \in Range(map) |->
    Min({(p - k) % (RingMax + 1) : p \in {q \in DOMAIN map : map[q] = id}})])

\* How far from k the first virtual node of a host is.
Far(map, k, id) == Min({Way(k, p) : p \in {q \in DOMAIN map : map[q] = id}})

\* The hosts in the order in which the iterator meets them from the first
\* virtual node above k on.
Walk(map, k) ==
  Ranked(Range(map), [id \in Range(map) |-> Far(map, k, id)])

\* The replicas of k, none when there are too few hosts.
getHosts(k) ==
  LET walk == Walk(nodeMap, k)
  IN  IF Len(hostList) < N THEN << >> ELSE [n \in 1 .. N |-> walk[n]]

Replicas(k) == {hostList[id] : id \in ToSet(getHosts(k))}

\* The walk of a plan beyond the virtual node p: N hosts, and one more once
\* the host that comes or goes is among them.
Succ(map, p, moved) ==
  LET walk == Walk(map, p)
      M == IF \E n \in 1 .. N : walk[n] = moved THEN N + 1 ELSE N
  IN  [n \in 1 .. M |-> walk[n]]

\* The virtual nodes whose ranges a plan moves.
Moved(map, moved) == {p \in DOMAIN map : Len(Succ(map, p, moved)) > N}

\* The range of p ends at the next virtual node.
End(map, p) ==
  CHOOSE q \in DOMAIN map : \A r \in DOMAIN map : Way(p, q) <= Way(p, r)

Move(map, p, src, dst, remove) ==
  [begin |-> p, end |-> End(map, p), src |-> src, dst |-> dst, remove |-> remove]

\* Mutant of AddPlan: the new host takes over from the first replica.
AddPlanFirst(h) ==
  LET id == Len(hostList) + 1
      map == Emplace(nodeMap, h, id)
      From(p) == hostList[CHOOSE x \in ToSet(Succ(map, p, id)) : x # id]
  IN  {Move(map, p, From(p), h, TRUE) : p \in Moved(map, id)}

\* Where h becomes a replica, it takes over from the last one.
AddPlan(h) ==
  LET id == Len(hostList) + 1
      map == Emplace(nodeMap, h, id)
  IN  {Move(map, p, hostList[Last(Succ(map, p, id))], h, TRUE) :
         p \in Moved(map, id)}

\* The index of a host of the list.
Index(h) == CHOOSE id \in DOMAIN hostList : hostList[id] = h

\* Where h was a replica, the first one that stays copies to the next host.
RemovePlan(h) ==
  LET id == Index(h)
      From(s) == IF s[1] = id THEN s[2] ELSE s[1]
  IN  {LET s == Succ(nodeMap, p, id)
       IN  Move(nodeMap, p, hostList[From(s)], hostList[Last(s)], FALSE) :
         p \in Moved(nodeMap, id)}

\* The parts that getMoveData makes of begin .. end - 1.
Parts(begin, end) ==
  LET last == (end - 1) % (RingMax + 1)
  IN  IF begin > end THEN <<begin .. RingMax, 0 .. last>> ELSE <<begin .. last>>

Init ==
  /\ vnodes \in Vnodes
  /\ hostList \in Config
  /\ nodeMap = Ring(hostList)
  /\ holds = [h \in Host |-> {k \in Hash : h \in Replicas(k)}]
  /\ change = NoChange
  /\ changes = 0
  /\ moves = {}
  /\ shipped = {} /\ torn = {}

-----------------------------------------------------------------------------
\* A put reaches every replica by the list of the day; other copies of the
\* record are outdated, one that was moved already among them.
put(k) ==
  /\ LET replicas == Replicas(k)
     IN  holds' = [h \in Host |-> IF h \in replicas THEN holds[h] \cup {k}
                                                    ELSE holds[h] \ {k}]
  /\ torn' = IF k \in shipped THEN torn \cup {k} ELSE torn \ {k}
  /\ UNCHANGED <<vnodes, hostList, nodeMap, change, changes, moves, shipped>>

\* A host that joins may have been in the system before, and started anew.
\* With less than N hosts the walk of the plan has no end.
addServer(h) ==
  /\ change = NoChange /\ changes < MaxChange
  /\ Len(hostList) >= N
  /\ h \notin ToSet(hostList)
  /\ change' = [op |-> "add", host |-> h]
  /\ changes' = changes + 1
  /\ moves' = AddPlan(h)
  /\ holds' \in {holds, [holds EXCEPT ![h] = {}]}
  /\ UNCHANGED <<vnodes, hostList, nodeMap, shipped, torn>>

\* With no more than N hosts the walk of the plan has no end.
removeServer(h) ==
  /\ change = NoChange /\ changes < MaxChange
  /\ h \in ToSet(hostList)
  /\ Len(hostList) > N
  /\ change' = [op |-> "remove", host |-> h]
  /\ changes' = changes + 1
  /\ moves' = RemovePlan(h)
  /\ UNCHANGED <<vnodes, hostList, nodeMap, holds, shipped, torn>>

\* The source sends the records of every part, but for those of a file that
\* does not open.  When it is told to remove them it removes the last part
\* only, and perhaps not all of it; the flags of the records it has found, which
\* no block clears, may make it remove others too.
moveData(m, unsent, slip) ==
  LET parts == Parts(m.begin, m.end)
      sent == UNION ToSet(parts)
      last == Last(parts)
      got == [holds EXCEPT ![m.dst] = (@ \ sent) \cup ((holds[m.src] \cap sent) \ unsent)]
  IN  /\ m \in moves /\ unsent \subseteq sent
      /\ moves' = moves \ {m}
      /\ \E gone \in IF m.remove THEN {last \ slip, last \cup slip} ELSE {{}} :
           /\ holds' = [got EXCEPT ![m.src] = @ \ gone]
           /\ torn' = torn \cup unsent \cup (gone \ sent)
      /\ shipped' = shipped \cup sent
      /\ UNCHANGED <<vnodes, hostList, nodeMap, change, changes>>

\* Mutant of actAddServer: the index is that of the host before.
actAddServerBefore ==
  /\ change.op = "add" /\ moves = {}
  /\ hostList' = Append(hostList, change.host)
  /\ nodeMap' = Emplace(nodeMap, change.host, Len(hostList))
  /\ change' = NoChange
  /\ shipped' = {}
  /\ UNCHANGED <<vnodes, holds, changes, moves, torn>>

actAddServer ==
  /\ change.op = "add" /\ moves = {}
  /\ hostList' = Append(hostList, change.host)
  /\ nodeMap' = Emplace(nodeMap, change.host, Len(hostList'))
  /\ change' = NoChange
  /\ shipped' = {}
  /\ UNCHANGED <<vnodes, holds, changes, moves, torn>>

\* Mutant of actRemoveServer: the ring is not built again.
actRemoveServerOnly ==
  /\ change.op = "remove" /\ moves = {}
  /\ hostList' = RemoveAt(hostList, Index(change.host))
  /\ nodeMap' = [p \in {q \in DOMAIN nodeMap : hostList[nodeMap[q]] # change.host}
                   |-> nodeMap[p]]
  /\ change' = NoChange
  /\ shipped' = {}
  /\ UNCHANGED <<vnodes, holds, changes, moves, torn>>

actRemoveServer ==
  /\ change.op = "remove" /\ moves = {}
  /\ hostList' = RemoveAt(hostList, Index(change.host))
  /\ nodeMap' = Ring(hostList')
  /\ change' = NoChange
  /\ shipped' = {}
  /\ UNCHANGED <<vnodes, holds, changes, moves, torn>>

Next ==
  \/ \E k \in Puts : put(k)
  \/ \E h \in Host : addServer(h) \/ removeServer(h)
  \/ \E m \in moves, unsent, slip \in Slips : moveData(m, unsent, slip)
  \/ actAddServer \/ actRemoveServer

Spec == Init /\ [][Next]_vars

-----------------------------------------------------------------------------
(* Properties.                                                             *)

\* The indices on the ring are those of hosts, every host is on the ring,
\* and the moves of a plan are between hosts.
TypeOK ==
  /\ hostList \in Seq(Host) /\ IsInjective(hostList)
  /\ DOMAIN nodeMap \subseteq Hash
  /\ Range(nodeMap) = DOMAIN hostList
  /\ holds \in [Host -> SUBSET Hash]
  /\ shipped \subseteq Hash /\ torn \subseteq Hash
  /\ moves \subseteq [begin : Hash, end : Hash, src : Host, dst : Host,
                      remove : BOOLEAN]
  /\ \A m \in moves : m.src # m.dst

\* getHosts finds the N hosts whose virtual nodes come first clockwise of
\* the hash: all the hosts met up to some distance, each once.  A hash that
\* several hosts have a virtual node at is that of the first of the list.
Met(k, d) ==
  {hostList[id] : id \in {i \in DOMAIN hostList : \E e \in 1 .. d :
     LET p == (k + e) % (RingMax + 1)
     IN  p \in vnodes[hostList[i]] /\ \A j \in 1 .. i - 1 : p \notin vnodes[hostList[j]]}}

RouteIsNearest ==
  Len(hostList) >= N =>
    \A k \in Hash :
      LET ids == getHosts(k)
      IN  /\ Len(ids) = N /\ IsInjective(ids)
          /\ \E d \in 1 .. RingMax + 1 :
               {hostList[ids[n]] : n \in 1 .. N} = Met(k, d)

\* report.md:101: the data survive changes of membership.  Every replica of
\* a hash holds its last value, but for one of them while a plan is being
\* carried out, through all the changes there are, unless the last put came
\* between the move of its hash and the change of the lists, or a move since
\* then did not send the record or removed it though it should not.
ReplicasKept ==
  Len(hostList) >= N =>
    \A k \in Hash \ torn :
      Cardinality({h \in Replicas(k) : k \in holds[h]})
        >= IF change = NoChange THEN N ELSE N - 1

\* report.md:39: a host that comes or goes changes the replicas of no hash
\* that it is not itself a replica of, before or after.
RingStable ==
  [][\A k \in Hash :
       Replicas(k)' # Replicas(k) =>
         change.host \in Replicas(k) \cup Replicas(k)']_<<hostList, nodeMap>>
=============================================================================
