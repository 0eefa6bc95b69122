----------------------- MODULE DomainResolver_proofs -----------------------
(***************************************************************************)
(* What clients are told of virtual addresses survives every death of the  *)
(* process, for any names, rules, networks and number of addresses.        *)
(*                                                                         *)
(* AnswersKept and Recoverable are not inductive: they hold because of     *)
(* what the file holds at each step of _add (Stored) and because the       *)
(* records it counts never name a host twice (FileSound).                  *)
(***************************************************************************)
EXTENDS DomainResolver, TLAPS

Adding == pc \in {"open", "record", "header"}

\* How many items the file's size counts, and how many records are written.
Counted == ip - ipBase - (IF Adding THEN 1 ELSE 0)
Written == Counted + (IF pc = "header" THEN 1 ELSE 0)

ItemAt(i) == [name |-> ipToName[ipBase + i - 1], ip |-> ipBase + i - 1]

\* What dns.cache holds while the process runs.
Stored ==
  pc # "down" =>
    /\ Counted \in Nat
    /\ cache.there \/ Counted = 0
    /\ cache.there => \/ cache.header = Counted
                      \/ pc = "record" /\ Counted = 0 /\ cache.header = Short
    /\ pc \in {"record", "header"} => cache.there /\ size = Written
    /\ Written <= Len(cache.recs)
    /\ \A i \in 1..Written : cache.recs[i] = ItemAt(i)
    /\ Adding => host \in Hosts /\ nameToIp[host] = ip - 1
    /\ pc = "reply" => host \in Hosts /\ nameToIp[host] \in Addrs

\* A file that is not there is empty.  What is there can be counted on, and names
\* no host twice.
FileSound ==
  /\ ~cache.there => cache = NoCache
  /\ cache.header # Short =>
       /\ cache.header <= Len(cache.recs)
       /\ \A i, j \in 1..cache.header : cache.recs[i].name = cache.recs[j].name => i = j

Idle == pc = "down" => ip = ipBase /\ nameToIp = NoNames /\ ipToName = NoIPs

IInv == TypeOK /\ MapsAgree /\ AnswersKept /\ Recoverable /\ Stored /\ FileSound /\ Idle

-----------------------------------------------------------------------------
\* Replacing what is behind the first n elements of a sequence by one element.
LEMMA Overwrite ==
  ASSUME NEW S, NEW s \in Seq(S), NEW n \in Nat, n <= Len(s), NEW e \in S
  PROVE  /\ Append(SubSeq(s, 1, n), e) \in Seq(S)
         /\ Len(Append(SubSeq(s, 1, n), e)) = n + 1
         /\ \A i \in 1..n : Append(SubSeq(s, 1, n), e)[i] = s[i]
         /\ Append(SubSeq(s, 1, n), e)[n + 1] = e
  OBVIOUS

LEMMA ItemFields ==
  ASSUME NEW i
  PROVE  ItemAt(i).name = ipToName[ipBase + i - 1] /\ ItemAt(i).ip = ipBase + i - 1
  BY DEF ItemAt

LEMMA InitInv == Init => IInv
  BY ResolverAssumption
  DEF Init, IInv, TypeOK, MapsAgree, AnswersKept, Recoverable, Stored, FileSound, Idle,
      NoNames, NoIPs, NoCache, Short, NoAddr, Addrs, Item

-----------------------------------------------------------------------------
\* The file operations of _add and the answer change neither map.
LEMMA OpenCacheInv == IInv /\ OpenCache => IInv'
<1> SUFFICES ASSUME IInv, OpenCache PROVE IInv'
  OBVIOUS
<1>1. Readable(ipBase)' <=> Readable(ipBase)
  BY DEF OpenCache, Readable
<1>2. Loaded' = Loaded
  BY DEF OpenCache, Loaded
<1>3. Counted' = Counted /\ Written' = Counted /\ Written = Counted
  BY DEF OpenCache, Counted, Written, Adding, memory, IInv, Stored
<1>4. \A i : ItemAt(i)' = ItemAt(i)
  BY DEF OpenCache, ItemAt, memory
<1>5. Stored'
  BY <1>3, <1>4 DEF OpenCache, IInv, Stored, Adding, memory, Short, TypeOK
<1> QED
  BY <1>1, <1>2, <1>5
  DEF OpenCache, memory, IInv, TypeOK, MapsAgree, AnswersKept, Recoverable, FileSound, Idle

LEMMA CreateCacheInv == IInv /\ CreateCache => IInv'
<1> SUFFICES ASSUME IInv, CreateCache PROVE IInv'
  OBVIOUS
<1>1. answered = {}
  BY DEF CreateCache, IInv, Recoverable, Readable
<1>2. Counted = 0 /\ Counted' = Counted /\ Written' = Counted
  <2>1. Counted = 0
    BY DEF CreateCache, IInv, Stored, Short
  <2> QED
    BY <2>1 DEF CreateCache, Counted, Written, Adding, memory
<1>3. Stored'
  BY <1>2 DEF CreateCache, IInv, Stored, Adding, memory, TypeOK
<1>4. FileSound'
  BY DEF CreateCache, FileSound, Short
<1>5. TypeOK'
  <2>1. cache' \in [there : BOOLEAN, header : Nat \cup {Short}, recs : Seq(Item)]
    BY DEF CreateCache
  <2>2. pc' \in {"down", "idle", "open", "record", "header", "reply"} /\ size' \in Nat
    BY DEF CreateCache
  <2> QED
    BY <2>1, <2>2 DEF CreateCache, memory, IInv, TypeOK
<1>6. MapsAgree' /\ AnswersKept' /\ Recoverable' /\ Idle'
  BY <1>1 DEF CreateCache, memory, IInv, MapsAgree, AnswersKept, Recoverable, Idle
<1> QED
  BY <1>3, <1>4, <1>5, <1>6 DEF IInv

LEMMA WriteRecordInv == IInv /\ WriteRecord => IInv'
<1> SUFFICES ASSUME IInv, WriteRecord PROVE IInv'
  OBVIOUS
<1> DEFINE item == [name |-> host, ip |-> nameToIp[host]]
           recs == Append(SubSeq(cache.recs, 1, size), item)
<1>1. /\ Counted \in Nat /\ size = Counted /\ Counted <= Len(cache.recs)
      /\ \A i \in 1..Counted : cache.recs[i] = ItemAt(i)
      /\ host \in Hosts /\ nameToIp[host] = ip - 1 /\ cache.there
      /\ cache.header = Counted \/ (Counted = 0 /\ cache.header = Short)
  BY DEF WriteRecord, IInv, Stored, Written, Adding, Counted
<1>2. item \in Item /\ ip - 1 \in Addrs
  BY <1>1, ResolverAssumption
  DEF IInv, TypeOK, Item, Addrs, NoAddr, WriteRecord, Counted, Adding
<1>3. /\ recs \in Seq(Item) /\ Len(recs) = Counted + 1
      /\ \A i \in 1..Counted : recs[i] = cache.recs[i]
      /\ recs[Counted + 1] = item
  <2>1. cache.recs \in Seq(Item)
    BY DEF IInv, TypeOK
  <2> QED
    BY <1>1, <1>2, <2>1, Overwrite
<1>4. /\ cache' = [there |-> TRUE, header |-> Counted, recs |-> recs]
      /\ size' = Counted + 1 /\ pc' = "header"
      /\ UNCHANGED <<ipBase, ip, nameToIp, ipToName, host, answered>>
  <2>1. cache = [there |-> TRUE, header |-> cache.header, recs |-> cache.recs]
    BY <1>1 DEF IInv, TypeOK
  <2>2. (IF cache.header = Short THEN 0 ELSE cache.header) = Counted
    BY <1>1 DEF Short
  <2> QED
    BY <1>1, <2>1, <2>2 DEF WriteRecord, memory
<1>5. ipToName[ip - 1] = host
  BY <1>1, <1>2 DEF IInv, MapsAgree
<1>6. Counted' = Counted /\ Written' = Counted + 1 /\ ip - ipBase - 1 = Counted
  BY <1>4 DEF Counted, Written, Adding, WriteRecord
<1>7. \A i \in 1..(Counted + 1) : recs[i] = ItemAt(i)'
  <2> SUFFICES ASSUME NEW i \in 1..(Counted + 1) PROVE recs[i] = ItemAt(i)'
    OBVIOUS
  <2>1. ItemAt(i)' = ItemAt(i)
    BY <1>4 DEF ItemAt
  <2>2. CASE i \in 1..Counted
    BY <1>1, <1>3, <2>1, <2>2
  <2>3. CASE i = Counted + 1
    <3>1. ip \in Nat /\ ipBase \in Nat
      BY ResolverAssumption DEF IInv, TypeOK, Addrs
    <3>2. ip - ipBase - 1 = Counted
      BY <1>6
    <3>3. ipBase + i - 1 = ip - 1
      BY <2>3, <3>1, <3>2
    <3> QED
      BY <1>1, <1>3, <1>5, <2>1, <2>3, <3>3 DEF ItemAt
  <2> QED
    BY <1>1, <2>2, <2>3
<1>8. Stored'
  BY <1>1, <1>3, <1>4, <1>6, <1>7 DEF Stored, Adding
<1>9. FileSound'
  <2> SUFFICES ASSUME NEW i \in 1..Counted, NEW j \in 1..Counted, recs[i].name = recs[j].name
               PROVE i = j
    BY <1>1, <1>3, <1>4 DEF FileSound
  <2>1. cache.recs[i].name = cache.recs[j].name
    BY <1>3
  <2>2. cache.header = Counted
    BY <1>1
  <2> QED
    BY <1>1, <2>1, <2>2 DEF IInv, FileSound, Short
<1>10. Recoverable'
  <2> SUFFICES ASSUME answered # {} PROVE Recoverable'
    BY <1>4 DEF Recoverable
  <2>1. cache.header = Counted /\ Readable(ipBase) /\ answered \subseteq Loaded
    BY <1>1 DEF IInv, Recoverable, Readable
  <2>2. Readable(ipBase)'
    BY <1>1, <1>3, <1>4, <2>1 DEF Readable, Short
  <2>3. Loaded \subseteq Loaded'
    <3>1. Loaded = {cache.recs[i] : i \in 1..Counted}
      BY <2>1 DEF Loaded
    <3>2. Loaded' = {recs[i] : i \in 1..Counted}
      BY <1>4 DEF Loaded
    <3> HIDE DEF recs
    <3> QED BY <1>3, <3>1, <3>2
  <2> QED
    BY <1>4, <2>1, <2>2, <2>3 DEF Recoverable
<1>11. TypeOK'
  BY <1>1, <1>3, <1>4 DEF IInv, TypeOK
<1> QED
  BY <1>4, <1>8, <1>9, <1>10, <1>11 DEF IInv, MapsAgree, AnswersKept, Idle, WriteRecord

LEMMA WriteHeaderInv == IInv /\ WriteHeader => IInv'
<1> SUFFICES ASSUME IInv, WriteHeader PROVE IInv'
  OBVIOUS
<1>1. /\ Counted \in Nat /\ size = Counted + 1 /\ size <= Len(cache.recs)
      /\ \A i \in 1..size : cache.recs[i] = ItemAt(i)
      /\ host \in Hosts /\ nameToIp[host] = ip - 1 /\ cache.there
      /\ cache.header = Counted
  BY DEF WriteHeader, IInv, Stored, Written, Adding
<1>2. /\ cache' = [there |-> TRUE, header |-> size, recs |-> cache.recs] /\ pc' = "reply"
      /\ UNCHANGED <<ipBase, ip, nameToIp, ipToName, host, size, answered>>
  <2>1. cache \in [there : BOOLEAN, header : Nat \cup {Short}, recs : Seq(Item)] /\ cache.there
    BY <1>1 DEF IInv, TypeOK
  <2>2. cache' = [cache EXCEPT !.header = size]
    BY DEF WriteHeader
  <2>3. cache' = [there |-> TRUE, header |-> size, recs |-> cache.recs]
    BY <2>1, <2>2
  <2> QED
    BY <2>3 DEF WriteHeader, memory
<1>3. ipBase \in Addrs /\ ip \in 0..(AddrMax + 1) /\ AddrMax \in Nat
  BY ResolverAssumption DEF IInv, TypeOK
<1>4. Counted = ip - ipBase - 1 /\ Counted' = size /\ Written' = size
  BY <1>1, <1>2, <1>3 DEF Counted, Written, Adding, WriteHeader, Addrs
<1>5. \A i \in 1..size : ipBase + i - 1 \in Addrs /\ ipBase + i - 1 < ip
  BY <1>1, <1>3, <1>4 DEF Addrs
<1>6. ip - 1 \in Addrs
  BY <1>1, <1>3, <1>4 DEF Addrs
<1>7. Stored'
  <2>1. \A i \in 1..size : cache.recs[i] = ItemAt(i)'
    BY <1>1, <1>2 DEF ItemAt
  <2> QED
    BY <1>1, <1>2, <1>4, <1>6, <2>1 DEF Stored, Adding
<1>8. \A i \in 1..size : ipToName[ipBase + i - 1] \in Hosts
                        /\ nameToIp[ipToName[ipBase + i - 1]] = ipBase + i - 1
  <2>1. ipToName \in [Addrs -> Hosts \cup {NoHost}]
    BY DEF IInv, TypeOK
  <2>2. \A a \in Addrs : a < ip /\ ipBase <= a => ipToName[a] \in Hosts /\ nameToIp[ipToName[a]] = a
    BY <2>1 DEF IInv, MapsAgree
  <2> QED BY <1>3, <1>5, <2>2 DEF Addrs
<1>9. FileSound'
  <2> SUFFICES ASSUME NEW i \in 1..size, NEW j \in 1..size,
                      cache.recs[i].name = cache.recs[j].name
               PROVE i = j
    BY <1>1, <1>2 DEF FileSound
  <2>1. ipBase + i - 1 = ipBase + j - 1
    <3>1. ipToName[ipBase + i - 1] = ipToName[ipBase + j - 1]
      BY <1>1, ItemFields
    <3> QED
      BY <1>8, <3>1
  <2> QED
    BY <1>1, <1>3, <2>1 DEF Addrs
<1>10. Recoverable'
  <2> SUFFICES ASSUME answered # {} PROVE Recoverable'
    BY <1>2 DEF Recoverable
  <2>1. Readable(ipBase)'
    <3>1. size # Short /\ size <= Len(cache.recs)
      BY <1>1 DEF Short
    <3>2. \A i \in 1..size : cache.recs[i].ip = ipBase + i - 1
      BY <1>1, ItemFields
    <3> QED
      BY <1>2, <3>1, <3>2 DEF Readable
  <2>2. answered \subseteq Loaded'
    BY <1>1, <1>2 DEF IInv, Recoverable, Loaded
  <2> QED
    BY <1>2, <2>1, <2>2 DEF Recoverable
<1>11. TypeOK'
  BY <1>1, <1>2 DEF IInv, TypeOK
<1> QED
  BY <1>2, <1>7, <1>9, <1>10, <1>11 DEF IInv, MapsAgree, AnswersKept, Idle, WriteHeader

\* An item of the directory is a record the file counts, when nothing is being
\* added.
LEMMA InFile ==
  ASSUME IInv, pc \in {"idle", "reply"}, NEW h \in Hosts, nameToIp[h] \in Addrs
  PROVE  /\ cache.there /\ Readable(ipBase)
         /\ [name |-> h, ip |-> nameToIp[h]] \in Loaded
<1> DEFINE a == nameToIp[h]
           i == a - ipBase + 1
<1>1. ipToName[a] = h /\ ipBase <= a /\ a < ip
  BY ResolverAssumption DEF IInv, TypeOK, MapsAgree
<1>2. ipBase \in Addrs /\ ip \in 0..(AddrMax + 1) /\ AddrMax \in Nat
  BY ResolverAssumption DEF IInv, TypeOK
<1>3. Counted = ip - ipBase /\ Written = ip - ipBase
  BY <1>2 DEF Counted, Written, Adding, Addrs
<1>4. i \in 1..Counted /\ ipBase + i - 1 = a
  BY <1>1, <1>2, <1>3 DEF Addrs
<1>5. /\ cache.there /\ cache.header = Counted /\ Counted <= Len(cache.recs)
      /\ Counted \in Nat
      /\ \A k \in 1..Counted : cache.recs[k] = ItemAt(k)
  BY <1>3, <1>4 DEF IInv, Stored, Adding
<1>6. Readable(ipBase)
  <2>1. \A k \in 1..Counted : cache.recs[k].ip = ipBase + k - 1
    BY <1>5, ItemFields
  <2> QED
    BY <1>5, <2>1 DEF Readable, Short
<1> QED
  BY <1>1, <1>4, <1>5, <1>6 DEF Loaded, ItemAt

LEMMA ReplyInv == IInv /\ Reply => IInv'
<1> SUFFICES ASSUME IInv, Reply PROVE IInv'
  OBVIOUS
<1> DEFINE told == [name |-> host, ip |-> nameToIp[host]]
<1>1. pc = "reply" /\ host \in Hosts /\ nameToIp[host] \in Addrs
  BY DEF Reply, IInv, Stored
<1>2. cache.there /\ Readable(ipBase) /\ told \in Loaded
  BY <1>1, InFile
<1>3. told \in Item /\ ipToName[told.ip] = host
  BY <1>1 DEF Item, IInv, MapsAgree
<1>4. /\ answered' = answered \/ answered' = answered \cup {told}
      /\ pc' = "idle" /\ host' = NoHost
      /\ UNCHANGED <<ipBase, ip, nameToIp, ipToName, size, cache>>
  BY DEF Reply, memory
<1>5. Counted' = Counted /\ Written' = Counted /\ Written = Counted
  <2>1. Counted \in Nat
    BY <1>1 DEF IInv, Stored
  <2> QED
    BY <1>1, <1>4, <2>1 DEF Counted, Written, Adding
<1>6. \A k : ItemAt(k)' = ItemAt(k)
  BY <1>4 DEF ItemAt
<1>7. Stored'
  BY <1>1, <1>4, <1>5, <1>6 DEF IInv, Stored, Adding
<1>8. Recoverable'
  BY <1>2, <1>4 DEF IInv, Recoverable, Readable, Loaded
<1>9. AnswersKept'
  BY <1>1, <1>3, <1>4 DEF IInv, AnswersKept
<1>10. TypeOK'
  BY <1>3, <1>4 DEF IInv, TypeOK
<1> QED
  BY <1>4, <1>7, <1>8, <1>9, <1>10 DEF IInv, MapsAgree, FileSound, Idle

-----------------------------------------------------------------------------
\* Queries.
LEMMA QueryKnownInv ==
  ASSUME NEW c \in Clients, NEW h \in Hosts
  PROVE  IInv /\ QueryKnown(c, h) => IInv'
<1> SUFFICES ASSUME IInv, QueryKnown(c, h) PROVE IInv'
  OBVIOUS
<1>1. /\ pc = "idle" /\ pc' = "reply" /\ host' = h /\ nameToIp[h] \in Addrs
      /\ UNCHANGED <<ipBase, ip, nameToIp, ipToName, size, cache, answered>>
  BY DEF QueryKnown, memory, IInv, TypeOK
<1>2. Counted' = Counted /\ Written' = Written
  BY <1>1 DEF Counted, Written, Adding
<1>3. \A k : ItemAt(k)' = ItemAt(k)
  BY <1>1 DEF ItemAt
<1>4. Stored'
  BY <1>1, <1>2, <1>3 DEF IInv, Stored, Adding
<1> QED
  BY <1>1, <1>4
  DEF IInv, TypeOK, MapsAgree, AnswersKept, Recoverable, Readable, Loaded, FileSound, Idle

LEMMA QueryNewInv ==
  ASSUME NEW c \in Clients, NEW h \in Hosts
  PROVE  IInv /\ QueryNew(c, h) => IInv'
<1> SUFFICES ASSUME IInv, QueryNew(c, h) PROVE IInv'
  OBVIOUS
<1>1. /\ pc = "idle" /\ pc' = "open" /\ host' = h /\ nameToIp[h] = NoAddr
      /\ ip \in Addrs /\ ip' = ip + 1
      /\ nameToIp' = [nameToIp EXCEPT ![h] = ip]
      /\ ipToName' = [ipToName EXCEPT ![ip] = h]
      /\ UNCHANGED <<ipBase, size, cache, answered>>
  BY DEF QueryNew, AddItem
<1>2. TypeOK /\ ipBase \in Addrs /\ AddrMax \in Nat /\ NoHost \notin Hosts
  BY ResolverAssumption DEF IInv, TypeOK
<1>3. ipToName[ip] = NoHost
  BY <1>1, <1>2 DEF IInv, MapsAgree, TypeOK, Addrs
<1>4. TypeOK'
  BY <1>1, <1>2 DEF TypeOK, Addrs
<1>5. /\ nameToIp'[h] = ip /\ ipToName'[ip] = h
      /\ \A g \in Hosts : g # h => nameToIp'[g] = nameToIp[g]
      /\ \A a \in Addrs : a # ip => ipToName'[a] = ipToName[a]
  BY <1>1, <1>2 DEF TypeOK
<1>6. MapsAgree'
  <2>1. \A g \in Hosts, a \in Addrs : nameToIp'[g] = a <=> ipToName'[a] = g
    <3> SUFFICES ASSUME NEW g \in Hosts, NEW a \in Addrs
                 PROVE  nameToIp'[g] = a <=> ipToName'[a] = g
      OBVIOUS
    <3>1. nameToIp[g] = a <=> ipToName[a] = g
      BY DEF IInv, MapsAgree
    <3>2. NoAddr \notin Addrs
      BY DEF NoAddr, Addrs
    <3> QED
      BY <1>1, <1>2, <1>3, <1>5, <3>1, <3>2
  <2>2. \A a \in Addrs : ipToName'[a] # NoHost <=> ipBase' <= a /\ a < ip'
    <3> SUFFICES ASSUME NEW a \in Addrs
                 PROVE  ipToName'[a] # NoHost <=> ipBase <= a /\ a < ip + 1
      BY <1>1
    <3>1. ipToName[a] # NoHost <=> ipBase <= a /\ a < ip
      BY DEF IInv, MapsAgree
    <3>2. ipBase <= ip
      <4>1. Counted \in Nat /\ Counted = ip - ipBase - 0
        BY <1>1 DEF IInv, Stored, Counted, Adding
      <4> QED
        BY <1>1, <1>2, <4>1 DEF Addrs
    <3>3. CASE a = ip
      BY <1>1, <1>2, <1>5, <3>2, <3>3 DEF Addrs
    <3>4. CASE a # ip
      BY <1>1, <1>2, <1>5, <3>1, <3>4 DEF Addrs
    <3> QED
      BY <3>3, <3>4
  <2> QED
    BY <2>1, <2>2 DEF MapsAgree
<1>7. AnswersKept'
  <2> SUFFICES ASSUME NEW r \in answered
               PROVE  nameToIp'[r.name] = r.ip /\ ipToName'[r.ip] = r.name
    BY <1>1 DEF AnswersKept
  <2>1. r \in Item /\ nameToIp[r.name] = r.ip /\ ipToName[r.ip] = r.name
    BY <1>1, <1>2 DEF IInv, TypeOK, AnswersKept
  <2>2. r.name # h /\ r.ip # ip
    BY <1>1, <1>2, <1>3, <2>1 DEF Item, NoAddr, Addrs
  <2> QED
    BY <1>5, <2>1, <2>2 DEF Item
<1>8. Stored'
  <2>1. Counted \in Nat /\ Counted = ip - ipBase /\ Written = Counted
    <3>1. Counted \in Nat /\ Counted = ip - ipBase - 0
      BY <1>1 DEF IInv, Stored, Counted, Adding
    <3> QED
      BY <1>1, <1>2, <3>1 DEF Written, Addrs
  <2>2. Counted' = Counted /\ Written' = Counted
    BY <1>1, <1>2, <2>1 DEF Counted, Written, Adding, Addrs
  <2>3. \A i \in 1..Counted : cache.recs[i] = ItemAt(i)'
    <3> SUFFICES ASSUME NEW i \in 1..Counted PROVE cache.recs[i] = ItemAt(i)'
      OBVIOUS
    <3>1. ipBase + i - 1 \in Addrs /\ ipBase + i - 1 # ip
      BY <1>1, <1>2, <2>1 DEF Addrs
    <3>2. ItemAt(i)' = ItemAt(i)
      BY <1>1, <1>5, <3>1 DEF ItemAt
    <3> QED
      BY <1>1, <2>1, <3>2 DEF IInv, Stored
  <2>4. nameToIp'[h] = ip' - 1
    BY <1>1, <1>5 DEF Addrs
  <2> QED
    BY <1>1, <2>1, <2>2, <2>3, <2>4 DEF IInv, Stored, Adding
<1> QED
  BY <1>1, <1>4, <1>6, <1>7, <1>8
  DEF IInv, Recoverable, Readable, Loaded, FileSound, Idle

-----------------------------------------------------------------------------
\* Death and start.
LEMMA CrashInv == IInv /\ Crash => IInv'
<1> SUFFICES ASSUME IInv, Crash PROVE IInv'
  OBVIOUS
<1>1. ipBase \in Addrs /\ AddrMax \in Nat /\ NoHost \notin Hosts
  BY ResolverAssumption DEF IInv, TypeOK
<1>2. TypeOK'
  BY <1>1 DEF Crash, IInv, TypeOK, NoNames, NoIPs, Addrs
<1>3. MapsAgree'
  BY <1>1 DEF Crash, MapsAgree, NoNames, NoIPs, NoAddr, Addrs
<1>4. Recoverable' /\ FileSound'
  BY DEF Crash, IInv, Recoverable, Readable, Loaded, FileSound
<1> QED
  BY <1>2, <1>3, <1>4 DEF Crash, IInv, AnswersKept, Stored, Idle

LEMMA StartInv == IInv /\ Start => IInv'
<1> SUFFICES ASSUME IInv, pc = "down", pc' = "idle", NEW base \in Bases, ipBase' = base,
                    IF cache.there /\ Readable(base) THEN Load(base) ELSE StartEmpty(base),
                    answered' = IF base = ipBase THEN answered ELSE {},
                    UNCHANGED <<host, size>>
             PROVE  IInv'
  BY DEF Start
<1>1. base \in Addrs /\ AddrMax \in Nat /\ NoHost \notin Hosts /\ TypeOK
  BY ResolverAssumption DEF IInv
<1>2. CASE cache.there /\ Readable(base)
  <2> DEFINE n == cache.header
             nameAt(i) == cache.recs[i].name
  <2>1. /\ n \in Nat /\ n <= Len(cache.recs) /\ cache.recs \in Seq(Item)
        /\ \A i \in 1..n : cache.recs[i].ip = base + i - 1
        /\ \A i, j \in 1..n : nameAt(i) = nameAt(j) => i = j
    BY <1>1, <1>2 DEF Readable, IInv, FileSound, TypeOK, Short
  <2>2. \A i \in 1..n : cache.recs[i] \in Item
    BY <2>1
  <2>3. \A r, s \in Loaded : (r.name = s.name \/ r.ip = s.ip) => r = s
    <3> SUFFICES ASSUME NEW r \in Loaded, NEW s \in Loaded, r.name = s.name \/ r.ip = s.ip
                 PROVE  r = s
      OBVIOUS
    <3>1. PICK i \in 1..n, j \in 1..n : r = cache.recs[i] /\ s = cache.recs[j]
      BY DEF Loaded
    <3>2. CASE r.name = s.name
      BY <2>1, <3>1, <3>2
    <3>3. CASE r.ip = s.ip
      <4>1. base + i - 1 = base + j - 1
        BY <2>1, <3>1, <3>3
      <4>2. i = j
        BY <1>1, <2>1, <4>1 DEF Addrs
      <4> QED
        BY <3>1, <4>2
    <3> QED
      BY <3>2, <3>3
  <2>4. Loaded \subseteq Item
    BY <2>2 DEF Loaded
  <2>5. Load(base)
    BY <1>2
  <2>6. \A h \in Hosts, a \in Addrs :
          nameToIp'[h] = a <=> [name |-> h, ip |-> a] \in Loaded
    <3> SUFFICES ASSUME NEW h \in Hosts, NEW a \in Addrs
                 PROVE  nameToIp'[h] = a <=> [name |-> h, ip |-> a] \in Loaded
      OBVIOUS
    <3>1. nameToIp'[h] = IF \E r \in Loaded : r.name = h
                         THEN (CHOOSE r \in Loaded : r.name = h).ip ELSE NoAddr
      BY <2>5 DEF Load
    <3>2. CASE \E r \in Loaded : r.name = h
      <4>1. PICK r \in Loaded : r.name = h
        BY <3>2
      <4>2. (CHOOSE q \in Loaded : q.name = h) = r
        BY <2>3, <4>1
      <4>3. r = [name |-> h, ip |-> r.ip]
        BY <2>4, <4>1 DEF Item
      <4> QED
        BY <2>3, <3>1, <4>1, <4>2, <4>3
    <3>3. CASE ~\E r \in Loaded : r.name = h
      BY <3>1, <3>3 DEF NoAddr, Addrs
    <3> QED
      BY <3>2, <3>3
  <2>7. \A h \in Hosts, a \in Addrs :
          ipToName'[a] = h <=> [name |-> h, ip |-> a] \in Loaded
    <3> SUFFICES ASSUME NEW h \in Hosts, NEW a \in Addrs
                 PROVE  ipToName'[a] = h <=> [name |-> h, ip |-> a] \in Loaded
      OBVIOUS
    <3>1. ipToName'[a] = IF \E r \in Loaded : r.ip = a
                         THEN (CHOOSE r \in Loaded : r.ip = a).name ELSE NoHost
      BY <2>5 DEF Load
    <3>2. CASE \E r \in Loaded : r.ip = a
      <4>1. PICK r \in Loaded : r.ip = a
        BY <3>2
      <4>2. (CHOOSE q \in Loaded : q.ip = a) = r
        BY <2>3, <4>1
      <4>3. r = [name |-> r.name, ip |-> a]
        BY <2>4, <4>1 DEF Item
      <4> QED
        BY <2>3, <3>1, <4>1, <4>2, <4>3
    <3>3. CASE ~\E r \in Loaded : r.ip = a
      BY <1>1, <3>1, <3>3
    <3> QED
      BY <3>2, <3>3
  <2>8. n > 0 => base + n - 1 \in Addrs
    <3>1. n > 0 => cache.recs[n] \in Item /\ cache.recs[n].ip = base + n - 1
      BY <2>1, <2>2
    <3> QED
      BY <3>1 DEF Item
  <2>9. ip' = base + n /\ ip' \in 0..(AddrMax + 1) /\ cache' = cache
    BY <1>1, <2>1, <2>5, <2>8 DEF Load, Addrs
  <2>10. TypeOK'
    <3>1. nameToIp' \in [Hosts -> Addrs \cup {NoAddr}]
      BY <2>4, <2>5 DEF Load, Item
    <3>2. ipToName' \in [Addrs -> Hosts \cup {NoHost}]
      BY <2>4, <2>5 DEF Load, Item
    <3> QED
      BY <1>1, <2>9, <3>1, <3>2 DEF TypeOK
  <2>11. \A i \in 1..n : base + i - 1 \in Addrs /\ ipToName'[base + i - 1] = nameAt(i)
    <3> SUFFICES ASSUME NEW i \in 1..n
                 PROVE  base + i - 1 \in Addrs /\ ipToName'[base + i - 1] = nameAt(i)
      OBVIOUS
    <3>1. cache.recs[i] \in Item /\ cache.recs[i].ip = base + i - 1
      BY <2>1, <2>2
    <3>2. cache.recs[i] = [name |-> nameAt(i), ip |-> base + i - 1]
      BY <3>1 DEF Item
    <3>3. cache.recs[i] \in Loaded
      BY DEF Loaded
    <3> QED
      BY <2>7, <3>1, <3>2, <3>3 DEF Item
  <2>12. MapsAgree'
    <3>1. \A a \in Addrs : ipToName'[a] # NoHost <=> base <= a /\ a < base + n
      <4> SUFFICES ASSUME NEW a \in Addrs
                   PROVE  ipToName'[a] # NoHost <=> base <= a /\ a < base + n
        OBVIOUS
      <4>1. ASSUME ipToName'[a] # NoHost PROVE base <= a /\ a < base + n
        <5>1. ipToName'[a] \in Hosts
          BY <2>10, <4>1 DEF TypeOK
        <5>2. [name |-> ipToName'[a], ip |-> a] \in Loaded
          BY <2>7, <5>1
        <5>3. PICK i \in 1..n : cache.recs[i] = [name |-> ipToName'[a], ip |-> a]
          BY <5>2 DEF Loaded
        <5>4. a = base + i - 1
          BY <2>1, <5>3
        <5> QED
          BY <1>1, <2>1, <5>4 DEF Addrs
      <4>2. ASSUME base <= a, a < base + n PROVE ipToName'[a] # NoHost
        <5> DEFINE i == a - base + 1
        <5>1. i \in 1..n /\ base + i - 1 = a
          BY <1>1, <2>1, <4>2 DEF Addrs
        <5>2. ipToName'[a] = nameAt(i) /\ nameAt(i) \in Hosts
          BY <2>2, <2>11, <5>1 DEF Item
        <5> QED
          BY <1>1, <5>2
      <4> QED
        BY <4>1, <4>2
    <3> QED
      BY <2>6, <2>7, <2>9, <3>1 DEF MapsAgree
  <2>13. Counted' = n /\ Written' = n
    BY <1>1, <2>1, <2>9 DEF Counted, Written, Adding, Addrs
  <2>14. Stored'
    <3>1. \A i \in 1..n : cache.recs[i] = ItemAt(i)'
      <4> SUFFICES ASSUME NEW i \in 1..n PROVE cache.recs[i] = ItemAt(i)'
        OBVIOUS
      <4>1. cache.recs[i] = [name |-> nameAt(i), ip |-> base + i - 1]
        BY <2>1, <2>2 DEF Item
      <4> QED
        BY <2>11, <4>1 DEF ItemAt
    <3> QED
      BY <1>2, <2>1, <2>9, <2>13, <3>1 DEF Stored, Adding
  <2>15. answered' # {} => answered' = answered /\ base = ipBase /\ answered \subseteq Loaded
    BY DEF IInv, Recoverable
  <2>16. Recoverable' /\ FileSound'
    BY <1>2, <2>9, <2>15 DEF IInv, Recoverable, FileSound, Readable, Loaded
  <2>17. AnswersKept'
    <3> SUFFICES ASSUME NEW r \in answered'
                 PROVE  nameToIp'[r.name] = r.ip /\ ipToName'[r.ip] = r.name
      BY DEF AnswersKept
    <3>1. r \in Loaded /\ r \in Item
      BY <2>4, <2>15
    <3>2. r = [name |-> r.name, ip |-> r.ip]
      BY <3>1 DEF Item
    <3> QED
      BY <2>6, <2>7, <3>1, <3>2 DEF Item
  <2> QED
    BY <2>10, <2>12, <2>14, <2>16, <2>17 DEF IInv, Idle
<1>3. CASE ~(cache.there /\ Readable(base))
  <2>1. /\ ip' = base /\ nameToIp' = NoNames /\ ipToName' = NoIPs /\ cache' = NoCache
        /\ answered' = {}
    BY <1>3 DEF StartEmpty, IInv, Recoverable
  <2>2. Counted' = 0 /\ Written' = 0
    <3>1. ~Adding' /\ ip' - ipBase' - 0 = 0
      BY <1>1, <2>1 DEF Adding, Addrs
    <3>2. Counted' = 0
      BY <3>1 DEF Counted
    <3> QED
      BY <3>2 DEF Written
  <2>3. cache' \in [there : BOOLEAN, header : Nat \cup {Short}, recs : Seq(Item)]
    BY <2>1 DEF NoCache
  <2>4. TypeOK'
    BY <1>1, <2>1, <2>3 DEF TypeOK, NoNames, NoIPs, Addrs
  <2>5. MapsAgree'
    BY <1>1, <2>1 DEF MapsAgree, NoNames, NoIPs, NoAddr, Addrs
  <2>6. Stored'
    BY <2>1, <2>2 DEF Stored, Adding, NoCache
  <2>7. FileSound'
    BY <2>1 DEF FileSound, NoCache
  <2> QED
    BY <2>1, <2>4, <2>5, <2>6, <2>7 DEF IInv, AnswersKept, Recoverable, Idle
<1> QED
  BY <1>2, <1>3
-----------------------------------------------------------------------------
LEMMA NextInv == IInv /\ [Next]_vars => IInv'
<1> SUFFICES ASSUME IInv, [Next]_vars PROVE IInv'
  OBVIOUS
<1>1. CASE Start
  BY <1>1, StartInv
<1>2. CASE Crash
  BY <1>2, CrashInv
<1>3. ASSUME NEW c \in Clients, NEW h \in Hosts, QueryKnown(c, h) PROVE IInv'
  BY <1>3, QueryKnownInv
<1>4. ASSUME NEW c \in Clients, NEW h \in Hosts, QueryNew(c, h) PROVE IInv'
  BY <1>4, QueryNewInv
<1>5. CASE OpenCache
  BY <1>5, OpenCacheInv
<1>6. CASE CreateCache
  BY <1>6, CreateCacheInv
<1>7. CASE WriteRecord
  BY <1>7, WriteRecordInv
<1>8. CASE WriteHeader
  BY <1>8, WriteHeaderInv
<1>9. CASE Reply
  BY <1>9, ReplyInv
<1>10. CASE UNCHANGED vars
  <2>1. /\ UNCHANGED <<pc, ipBase, ip, nameToIp, ipToName>>
        /\ UNCHANGED <<host, size, cache, answered>>
    BY <1>10 DEF vars, memory
  <2>2. Counted' = Counted /\ Written' = Written
    BY <2>1 DEF Counted, Written, Adding
  <2>3. Stored'
    BY <2>1, <2>2 DEF IInv, Stored, Adding, ItemAt
  <2> QED
    BY <2>1, <2>3
    DEF IInv, TypeOK, MapsAgree, AnswersKept, Recoverable, Readable, Loaded, FileSound, Idle
<1> QED
  BY <1>1, <1>2, <1>3, <1>4, <1>5, <1>6, <1>7, <1>8, <1>9, <1>10 DEF Next

\* The inductive invariant holds: each step, a death and a start included, keeps it.
THEOREM Invariance == Spec => []IInv
  BY InitInv, NextInv, PTL DEF Spec

\* The resolver's fields, its locals and dns.cache keep their types.
THEOREM TypeCorrect == Spec => []TypeOK
  BY Invariance, PTL DEF IInv

\* _nameToIp and _ipToName are inverse to each other and hold exactly the addresses
\* given out, whether _add or the constructor put them there.
THEOREM MapsInverse == Spec => []MapsAgree
  BY Invariance, PTL DEF IInv

\* An address a client was told leads to the name it asked for, whenever the
\* process died in _add and however often it was started again.
THEOREM AnswersSurvive == Spec => []AnswersKept
  BY Invariance, PTL DEF IInv

\* What clients were told can be read back from dns.cache at every moment.
THEOREM FileSuffices == Spec => []Recoverable
  BY Invariance, PTL DEF IInv

-----------------------------------------------------------------------------
\* Only an answer and a start tell clients anything.
LEMMA OthersTellNothing ==
  [Next]_vars => Reply \/ Start \/ UNCHANGED answered
  BY DEF Next, vars, Crash, QueryKnown, QueryNew, OpenCache, CreateCache, WriteRecord,
         WriteHeader

\* What the answer says is new or was said before, and contradicts nothing.
LEMMA ReplyTells ==
  IInv /\ Reply => (\E b \in Told!Binding : Told!Tell(b)) \/ UNCHANGED answered
<1> SUFFICES ASSUME IInv, Reply, ~UNCHANGED answered
             PROVE  \E b \in Told!Binding : Told!Tell(b)
  OBVIOUS
<1> DEFINE b == [name |-> host, ip |-> nameToIp[host]]
<1>1. answered' = answered \cup {b}
  BY DEF Reply
<1>2. host \in Hosts /\ nameToIp[host] \in Addrs
  BY DEF Reply, IInv, Stored
<1>3. b \in Told!Binding
  BY <1>2 DEF Told!Binding
<1>4. \A o \in answered : o \in Item /\ nameToIp[o.name] = o.ip /\ ipToName[o.ip] = o.name
  BY DEF Reply, IInv, AnswersKept, TypeOK
<1>5. ipToName[nameToIp[host]] = host
  BY <1>2 DEF IInv, MapsAgree
<1>6. b \notin answered
  BY <1>1
<1>7. ASSUME NEW o \in answered PROVE o.name # b.name /\ o.ip # b.ip
  <2>1. o = [name |-> o.name, ip |-> o.ip]
    BY <1>4 DEF Item
  <2> QED
    BY <1>4, <1>5, <1>6, <2>1
<1> QED
  BY <1>1, <1>3, <1>7 DEF Told!Tell

\* The resolver, with its cache, its deaths and its restarts, is a directory of
\* bindings that never change while the network keeps its numbers.
THEOREM Implementation == Spec => ImplementsDirectory
<1>1. Init => Told!Init
  BY DEF Init, Told!Init
<1>2. IInv /\ [Next]_vars => [Told!Next]_answered
  <2> SUFFICES ASSUME IInv, [Next]_vars PROVE [Told!Next]_answered
    OBVIOUS
  <2>1. CASE Reply
    BY <2>1, ReplyTells DEF Told!Next
  <2>2. CASE Start
    BY <2>2 DEF Start, Told!Next, Told!Renumber
  <2> QED
    BY <2>1, <2>2, OthersTellNothing
<1> QED
  BY <1>1, <1>2, Invariance, PTL DEF Spec, ImplementsDirectory, Told!Spec
=============================================================================
