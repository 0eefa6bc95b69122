-------------------------- MODULE DomainResolver --------------------------
(***************************************************************************)
(* The virtual addresses of proxied names: DomainResolver gives a name the *)
(* next address when a DNS query first asks for it, appends the pair to    *)
(* dns.cache, and reads that file back when the process starts again.  The *)
(* process may die between any two of the file operations, as it does on   *)
(* any uncaught exception, and the daemon's parent starts another.         *)
(*                                                                         *)
(* Addresses are numbers.  The file is its size header, in records, and    *)
(* the records behind it; a file operation happens or not (what the death  *)
(* of a process leaves, not that of the machine).                          *)
(***************************************************************************)
EXTENDS Integers, Sequences

CONSTANTS
  Hosts, NoHost,  \* host names, and the null pointer
  Clients,        \* the addresses queries come from
  Rules,          \* the rule objects: who accepts or denies which names
  Bases,          \* the first virtual addresses the network settings may name
  AddrMax         \* bound: the last address given out

Addrs == 0..AddrMax
NoAddr == -1

ASSUME ResolverAssumption ==
  /\ NoHost \notin Hosts
  /\ AddrMax \in Nat
  /\ Bases \subseteq Addrs /\ Bases # {}
  /\ \A r \in Rules : r.accept \subseteq Clients \X Hosts /\ r.deny \subseteq Clients \X Hosts

VARIABLES
  pc,         \* where the process is, or "down"
  ipBase,     \* the base it was started with
  ip,         \* _ip
  nameToIp,   \* _nameToIp
  ipToName,   \* _ipToName
  host, size, \* the locals of dns() and _add()
  cache,      \* dns.cache
  answered    \* history: the pairs clients were told on this network

memory == <<ip, nameToIp, ipToName>>
vars == <<pc, ipBase, memory, host, size, cache, answered>>

Item == [name : Hosts, ip : Addrs]

Short == -1  \* a header that is not there yet
NoCache == [there |-> FALSE, header |-> Short, recs |-> <<>>]

TypeOK ==
  /\ pc \in {"down", "idle", "open", "record", "header", "reply"}
  /\ ipBase \in Bases
  /\ ip \in 0..(AddrMax + 1)
  /\ nameToIp \in [Hosts -> Addrs \cup {NoAddr}]
  /\ ipToName \in [Addrs -> Hosts \cup {NoHost}]
  /\ host \in Hosts \cup {NoHost}
  /\ size \in Nat
  /\ cache \in [there : BOOLEAN, header : Nat \cup {Short}, recs : Seq(Item)]
  /\ answered \subseteq Item

NoNames == [h \in Hosts |-> NoAddr]
NoIPs == [a \in Addrs |-> NoHost]

-----------------------------------------------------------------------------
(* The constructor.                                                         *)

\* Every record up to the header's size is there and carries the address that
\* counting from the base gives it.
Readable(base) ==
  /\ cache.header # Short
  /\ cache.header <= Len(cache.recs)
  /\ \A i \in 1..cache.header : cache.recs[i].ip = base + i - 1

\* (A wrong variant: the records are taken whatever their addresses are.)
ReadableUnchecked(base) ==
  /\ cache.header # Short
  /\ cache.header <= Len(cache.recs)

Loaded == {cache.recs[i] : i \in 1..cache.header}

Load(base) ==
  /\ ip' = base + cache.header
  /\ nameToIp' = [h \in Hosts |->
                    IF \E r \in Loaded : r.name = h
                    THEN (CHOOSE r \in Loaded : r.name = h).ip ELSE NoAddr]
  /\ ipToName' = [a \in Addrs |->
                    IF \E r \in Loaded : r.ip = a
                    THEN (CHOOSE r \in Loaded : r.ip = a).name ELSE NoHost]
  /\ UNCHANGED cache

\* No file, or one that cannot be read: it is removed and numbering starts over.
StartEmpty(base) ==
  /\ ip' = base
  /\ nameToIp' = NoNames
  /\ ipToName' = NoIPs
  /\ cache' = NoCache

Init ==
  /\ pc = "down"
  /\ ipBase \in Bases
  /\ ip = ipBase
  /\ nameToIp = NoNames
  /\ ipToName = NoIPs
  /\ host = NoHost /\ size = 0
  /\ cache = NoCache
  /\ answered = {}

\* run() starts with the base the settings name now; another one than before
\* means another network, on which nothing was answered yet.
Start ==
  /\ pc = "down"
  /\ \E base \in Bases :
       /\ ipBase' = base
       /\ IF cache.there /\ Readable(base) THEN Load(base) ELSE StartEmpty(base)
       /\ answered' = IF base = ipBase THEN answered ELSE {}
  /\ pc' = "idle"
  /\ UNCHANGED <<host, size>>

\* The process dies.
Crash ==
  /\ pc # "down"
  /\ pc' = "down"
  /\ ip' = ipBase /\ nameToIp' = NoNames /\ ipToName' = NoIPs
  /\ host' = NoHost /\ size' = 0
  /\ UNCHANGED <<ipBase, cache, answered>>

-----------------------------------------------------------------------------
(* dns().  A query that a rule denies, or that none accepts, gets no        *)
(* address and leaves no trace.                                             *)

Denies(c, h) == \E r \in Rules : <<c, h>> \in r.deny
Accepts(c, h) == \E r \in Rules : <<c, h>> \in r.accept

QueryKnown(c, h) ==
  /\ pc = "idle" /\ ~Denies(c, h) /\ Accepts(c, h)
  /\ nameToIp[h] # NoAddr
  /\ host' = h
  /\ pc' = "reply"
  /\ UNCHANGED <<ipBase, memory, size, cache, answered>>

\* (A wrong variant: the address is not used up.)
AddItemAgain(h) ==
  /\ ip \in Addrs
  /\ nameToIp' = [nameToIp EXCEPT ![h] = ip]
  /\ ipToName' = [ipToName EXCEPT ![ip] = h]
  /\ UNCHANGED ip

\* (A wrong variant: the counter is moved twice.)
AddItemTwice(h) ==
  /\ ip \in Addrs
  /\ nameToIp' = [nameToIp EXCEPT ![h] = ip]
  /\ ipToName' = [ipToName EXCEPT ![ip] = h]
  /\ ip' = ip + 2

\* new ResolvItem(hostname, _ip++), in both maps.
AddItem(h) ==
  /\ ip \in Addrs
  /\ nameToIp' = [nameToIp EXCEPT ![h] = ip]
  /\ ipToName' = [ipToName EXCEPT ![ip] = h]
  /\ ip' = ip + 1

QueryNew(c, h) ==
  /\ pc = "idle" /\ ~Denies(c, h) /\ Accepts(c, h)
  /\ nameToIp[h] = NoAddr
  /\ AddItem(h)
  /\ host' = h
  /\ pc' = "open"
  /\ UNCHANGED <<ipBase, size, cache, answered>>

-----------------------------------------------------------------------------
(* The file operations of _add().                                           *)

\* fopen "rb+", read the header, seek to the size it gives.
OpenCache ==
  /\ pc = "open"
  /\ cache.there /\ cache.header # Short
  /\ size' = cache.header
  /\ pc' = "record"
  /\ UNCHANGED <<ipBase, memory, host, cache, answered>>

\* fopen "wb+": the file is there and empty; its header is only buffered.
CreateCache ==
  /\ pc = "open"
  /\ ~(cache.there /\ cache.header # Short)
  /\ cache' = [there |-> TRUE, header |-> Short, recs |-> <<>>]
  /\ size' = 0
  /\ pc' = "record"
  /\ UNCHANGED <<ipBase, memory, host, answered>>

\* (A wrong variant: the record goes to the end of the file.)
WriteRecordAtEnd ==
  /\ pc = "record"
  /\ cache' = [cache EXCEPT
                 !.header = IF @ = Short THEN 0 ELSE @,
                 !.recs = Append(@, [name |-> host, ip |-> nameToIp[host]])]
  /\ size' = size + 1
  /\ pc' = "header"
  /\ UNCHANGED <<ipBase, memory, host, answered>>

\* fflush: a new file's header, for no records, and the record, over what an
\* interrupted _add may have left behind the size.
WriteRecord ==
  /\ pc = "record"
  /\ cache' = [cache EXCEPT
                 !.header = IF @ = Short THEN 0 ELSE @,
                 !.recs = Append(SubSeq(@, 1, size), [name |-> host, ip |-> nameToIp[host]])]
  /\ size' = size + 1
  /\ pc' = "header"
  /\ UNCHANGED <<ipBase, memory, host, answered>>

\* (A wrong variant: the size does not count the record just written.)
WriteHeaderBehind ==
  /\ pc = "header"
  /\ cache' = [cache EXCEPT !.header = size - 1]
  /\ pc' = "reply"
  /\ UNCHANGED <<ipBase, memory, host, size, answered>>

\* fclose: the header counts the record.
WriteHeader ==
  /\ pc = "header"
  /\ cache' = [cache EXCEPT !.header = size]
  /\ pc' = "reply"
  /\ UNCHANGED <<ipBase, memory, host, size, answered>>

\* The answer is sent (DNS::onReceived), or is of a kind that does not carry the
\* address.
Reply ==
  /\ pc = "reply"
  /\ \/ answered' = answered \cup {[name |-> host, ip |-> nameToIp[host]]}
     \/ UNCHANGED answered
  /\ pc' = "idle"
  /\ host' = NoHost
  /\ UNCHANGED <<ipBase, memory, size, cache>>

-----------------------------------------------------------------------------
Next ==
  \/ Start \/ Crash
  \/ \E c \in Clients, h \in Hosts : QueryKnown(c, h) \/ QueryNew(c, h)
  \/ OpenCache \/ CreateCache \/ WriteRecord \/ WriteHeader
  \/ Reply

Spec == Init /\ [][Next]_vars

-----------------------------------------------------------------------------
(* Properties.                                                              *)

\* The two maps are inverse to each other and hold exactly the addresses given
\* out so far, whether they were loaded or added.
MapsAgree ==
  /\ \A h \in Hosts, a \in Addrs : nameToIp[h] = a <=> ipToName[a] = h
  /\ \A a \in Addrs : ipToName[a] # NoHost <=> ipBase <= a /\ a < ip

\* A client that comes back to an address it was told is connected to the name it
\* asked for, however often the process died meanwhile, wherever in _add.
AnswersKept ==
  pc # "down" =>
    \A r \in answered : nameToIp[r.name] = r.ip /\ ipToName[r.ip] = r.name

\* What clients were told can be read back from the file at every moment: the
\* order of _add's writes, and its answer after the last of them.
Recoverable ==
  answered # {} =>
    cache.there /\ Readable(ipBase) /\ answered \subseteq Loaded

\* Restarts and the cache are not noticed.
Told == INSTANCE Directory WITH Names <- Hosts, bound <- answered

ImplementsDirectory == Told!Spec
===========================================================================
