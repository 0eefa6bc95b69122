---------------------------- MODULE Base_proofs ----------------------------
(***************************************************************************)
(* The parts that hold data for the others.  Answers find their askers,    *)
(* for any clients and queries, any losses and any order of the answers,   *)
(* whether or not the ids outgrow the array; the log's page shows the last *)
(* queries, however many there were; names are accepted and denied as the  *)
(* lines of the rules and lists say, for any lines and names; and the map  *)
(* holds its members in order and balanced, for any items and keys.        *)
(***************************************************************************)
EXTENDS DnsAgent, DomainRules, AvlMap, FiniteSetTheorems, SequenceTheorems, WellFoundedInduction, TLAPS

\* A query under way was asked, its id has been given out, and as long as it lies in
\* the array the id's item says who asked.
Kept(d) ==
  /\ d.q \in asked
  /\ d.id \in Int /\ d.id < nextId
  /\ d.id \in Slots => items[d.id] = [user |-> d.q.from, id |-> d.q.id, valid |-> TRUE]

IInv ==
  /\ nextId \in Int /\ DOMAIN items = Slots
  /\ \A d \in network : Kept(d)
  /\ RightAnswer

\* At the start nothing is under way.
LEMMA InitInv == DnsInit => IInv
BY DnsAssumption DEF DnsInit, IInv, RightAnswer

\* A query takes the next id, which nothing under way has.
LEMMA QueryKeeps ==
  ASSUME IInv, NEW q, Query(q), asked' = asked \cup {q}
  PROVE  IInv'
<1> USE DEF IInv
<1>1. nextId' \in Int /\ nextId' = nextId + 1 /\ DOMAIN items' = Slots
  BY DEF Query
<1>2. ASSUME NEW d \in network PROVE Kept(d)'
  <2>1. Kept(d)
    OBVIOUS
  <2>2. d.id # nextId /\ d.id < nextId'
    BY <1>1, <2>1 DEF Kept
  <2>3. d.id \in Slots => items'[d.id] = items[d.id]
    BY <2>2 DEF Query
  <2> QED BY <2>1, <2>2, <2>3 DEF Kept
<1>3. ASSUME NEW d, d = [id |-> nextId, q |-> q] PROVE Kept(d)'
  <2>1. d.id = nextId /\ d.q = q
    BY <1>3
  <2>2. nextId \in Slots => items'[nextId] = [user |-> q.from, id |-> q.id, valid |-> TRUE]
    BY DEF Query
  <2> QED BY <1>1, <2>1, <2>2 DEF Kept
<1>4. \A d \in network' : Kept(d)'
  BY <1>2, <1>3 DEF Query
<1>5. RightAnswer'
  BY DEF RightAnswer, Query
<1> QED BY <1>1, <1>4, <1>5

\* What is known is answered at once, to who asks.
LEMMA ReplyKeeps ==
  ASSUME IInv, NEW q, NEW ip, Reply(Answer(q.from, q.id, q, ip)), asked' = asked \cup {q}
  PROVE  IInv'
<1>1. \A d \in network' : Kept(d)'
  BY DEF IInv, Kept, Reply
<1>2. RightAnswer'
  <2>1. \A r \in replies : \E p \in asked :
          p.from = r.to /\ p.id = r.id /\ p.name = r.name /\ p.type = r.type
    BY DEF IInv, RightAnswer
  <2>2. ASSUME NEW r, r = Answer(q.from, q.id, q, ip)
        PROVE  q.from = r.to /\ q.id = r.id /\ q.name = r.name /\ q.type = r.type
    BY <2>2 DEF Answer
  <2> QED BY <2>1, <2>2 DEF RightAnswer, Reply
<1> QED BY <1>1, <1>2 DEF IInv, Reply

\* The upstream server's answer goes to who its item names.
LEMMA ResponseKeeps ==
  ASSUME IInv, NEW d, OnDnsAgentResponse(d)
  PROVE  IInv'
<1> DEFINE a == Answer(items[d.id].user, items[d.id].id, d.q, 0)
<1>1. \A e \in network' : Kept(e)'
  BY DEF IInv, Kept, OnDnsAgentResponse
<1>2. /\ d.q \in asked
      /\ d.q.from = a.to /\ d.q.id = a.id /\ d.q.name = a.name /\ d.q.type = a.type
  <2>1. d.q \in asked /\ items[d.id] = [user |-> d.q.from, id |-> d.q.id, valid |-> TRUE]
    BY DEF IInv, Kept, OnDnsAgentResponse
  <2> DEFINE user == items[d.id].user
             id == items[d.id].id
  <2>2. user = d.q.from /\ id = d.q.id
    BY <2>1
  <2> HIDE DEF user, id
  <2>3. Answer(user, id, d.q, 0).to = user /\ Answer(user, id, d.q, 0).id = id
    BY DEF Answer
  <2>4. Answer(user, id, d.q, 0).name = d.q.name /\ Answer(user, id, d.q, 0).type = d.q.type
    BY DEF Answer
  <2>5. a = Answer(user, id, d.q, 0)
    BY DEF user, id
  <2> HIDE DEF a
  <2> QED BY <2>1, <2>2, <2>3, <2>4, <2>5
<1>3. replies' \subseteq replies \cup {a} /\ asked' = asked
  BY DEF OnDnsAgentResponse
<1> HIDE DEF a
<1>4. RightAnswer'
  BY <1>2, <1>3 DEF IInv, RightAnswer
<1> QED BY <1>1, <1>4 DEF IInv, OnDnsAgentResponse

\* Every step keeps the invariant.
LEMMA NextInv == IInv /\ [DnsNext]_dnsVars => IInv'
<1> SUFFICES ASSUME IInv, [DnsNext]_dnsVars PROVE IInv'
  OBVIOUS
<1>1. ASSUME NEW q \in Queries, OnReceived(q) PROVE IInv'
  <2>1. asked' = asked \cup {q}
    BY <1>1 DEF OnReceived
  <2>2. \/ \E ip : Reply(Answer(q.from, q.id, q, ip))
        \/ Query(q)
    BY <1>1 DEF OnReceived
  <2> QED BY <2>1, <2>2, QueryKeeps, ReplyKeeps
<1>2. ASSUME NEW d \in network, OnDnsAgentResponse(d) PROVE IInv'
  BY <1>2, ResponseKeeps
<1>3. ASSUME NEW d \in network, Lose(d) PROVE IInv'
  BY <1>3 DEF Lose, IInv, Kept, RightAnswer
<1>4. CASE UNCHANGED dnsVars
  BY <1>4 DEF dnsVars, IInv, Kept, RightAnswer
<1> QED BY <1>1, <1>2, <1>3, <1>4 DEF DnsNext

\* A client only hears answers to what it asked, under the id it used, however many
\* clients use one id, whatever is lost and whatever overtakes what (OnReceived and
\* OnDnsAgentResponse).  Behind the array's end nothing is said: there the code's
\* reads and writes are undefined.  An id is a number here, without width.
THEOREM AnswersReturn == DnsSpec => []RightAnswer
<1>1. DnsInit => IInv
  BY InitInv
<1>2. IInv /\ [DnsNext]_dnsVars => IInv'
  BY NextInv
<1>3. IInv => RightAnswer
  BY DEF IInv
<1> QED BY <1>1, <1>2, <1>3, PTL DEF DnsSpec
-----------------------------------------------------------------------------
(* The log.                                                                 *)

Entries == {Entry(q, ip) : q \in Queries, ip \in {ServerIP} \cup {Resolved[p.name] : p \in Queries}}

\* The log is the end of all that was logged.
LastLogs ==
  /\ named \in Seq(Entries) /\ logs \in Seq(Entries)
  /\ Len(logs) = IF Len(named) < MAX_LOGS THEN Len(named) ELSE MAX_LOGS
  /\ \A i \in 1..Len(logs) : logs[i] = named[Len(named) - Len(logs) + i]

\* A set of numbers that is not empty has a least one.
LEMMA LeastNumber ==
  ASSUME NEW T, T \subseteq Nat, T # {}
  PROVE  \E m \in T : \A k \in T : m <= k
<1>1. IsWellFoundedOn(OpToRel(<, Nat), Nat)
  BY NatLessThanWellFounded
<1>2. PICK m \in T : \A k \in T : ~(<<k, m>> \in OpToRel(<, Nat))
  BY <1>1, WFMin
<1>3. ASSUME NEW k \in T PROVE m <= k
  <2>1. m \in Nat /\ k \in Nat
    OBVIOUS
  <2>2. ~(<<k, m>> \in OpToRel(<, Nat))
    BY <1>2
  <2>3. ~(k < m)
    BY <2>1, <2>2 DEF OpToRel
  <2> QED BY <2>1, <2>3
<1> QED BY <1>3

\* One step of what EntriesOf computes.
Collect(f, k, client, log) ==
  IF k = 0 THEN <<>>
  ELSE IF log[k].client = client THEN <<log[k]>> \o f[k - 1] ELSE f[k - 1]

\* The sequences that EntriesOf is defined by exist.
LEMMA CollectExists ==
  ASSUME NEW client, NEW log \in Seq(Entries), NEW n \in 0..Len(log)
  PROVE  \E f : f = [k \in 0..n |-> Collect(f, k, client, log)]
<1> DEFINE Its(f, m) == f = [k \in 0..m |-> Collect(f, k, client, log)]
           Bad == {m \in 0..n : ~ \E f : Its(f, m)}
<1>0. n \in Nat /\ n \in 0..n
  OBVIOUS
<1>1. SUFFICES ASSUME ~ \E f : Its(f, n) PROVE FALSE
  OBVIOUS
<1>2. Bad # {}
  BY <1>0, <1>1
<1>3. PICK m \in Bad : \A k \in Bad : m <= k
  <2>1. Bad \subseteq Nat
    OBVIOUS
  <2> QED BY <2>1, <1>2, LeastNumber
<1>4. CASE m = 0
  <2>1. Its([k \in 0..0 |-> <<>>], 0)
    BY DEF Collect
  <2> QED BY <2>1, <1>3, <1>4
<1>5. CASE m # 0
  <2>1. m \in Nat \ {0} /\ m - 1 \in 0..n /\ m - 1 \in Nat /\ m - 1 \notin Bad
    <3>1. m \in Nat \ {0} /\ m - 1 \in 0..n /\ m - 1 \in Nat /\ ~(m <= m - 1)
      BY <1>0, <1>3, <1>5
    <3> HIDE DEF Bad
    <3> QED BY <3>1, <1>3
  <2>2. PICK f : Its(f, m - 1)
    BY <2>1
  <2> DEFINE g == [k \in 0..m |-> IF k = m THEN Collect(f, m, client, log) ELSE f[k]]
  <2>3. ASSUME NEW k \in 0..m PROVE g[k] = Collect(g, k, client, log)
    <3>1. m - 1 \in 0..m /\ m - 1 # m /\ g[m - 1] = f[m - 1]
      BY <2>1
    <3>2. CASE k = m
      BY <3>1, <3>2, <2>1 DEF Collect
    <3>3. CASE k # m
      <4>1. k \in 0..(m - 1) /\ (k # 0 => k - 1 \in 0..m /\ k - 1 # m)
        BY <3>3, <2>1
      <4>2. f[k] = Collect(f, k, client, log)
        BY <4>1, <2>2
      <4>3. k # 0 => g[k - 1] = f[k - 1]
        BY <4>1
      <4>4. g[k] = f[k]
        BY <3>3
      <4> HIDE DEF g
      <4> QED BY <4>2, <4>3, <4>4 DEF Collect
    <3> QED BY <3>2, <3>3
  <2>4. Its(g, m)
    BY <2>3
  <2> HIDE DEF Its, g
  <2> QED BY <2>4, <1>3
<1> QED BY <1>4, <1>5

\* EntriesOf takes a log's entries one by one.
LEMMA EntriesAre ==
  ASSUME NEW client, NEW log \in Seq(Entries)
  PROVE  \E f : /\ EntriesOf(client, log) = f[Len(log)]
                /\ \A k \in 0..Len(log) : f[k] = Collect(f, k, client, log)
<1> DEFINE Its(f) == f = [k \in 0..Len(log) |-> Collect(f, k, client, log)]
           its == CHOOSE f : Its(f)
<1>1. Len(log) \in 0..Len(log)
  OBVIOUS
<1>2. \E f : Its(f)
  BY <1>1, CollectExists
<1>3. Its(its)
  BY <1>2
<1>4. EntriesOf(client, log) = its[Len(log)]
  BY DEF EntriesOf, Collect
<1>5. \A k \in 0..Len(log) : its[k] = Collect(its, k, client, log)
  BY <1>3
<1> QED BY <1>4, <1>5

\* The numbers of T from k on, and the places of s from i to j with the client's entries.
From(T, k) == {j \in T : j >= k}
Theirs(client, s, i, j) == {k \in i..j : s[k].client = client}

\* list has what s has at the places T, each once, the last first.
Lists(list, s, T) ==
  Len(list) = Cardinality(T) /\ \A k \in T : list[Cardinality(From(T, k))] = s[k]

\* One more after all the others: a set's size, and that of its part from k on.
LEMMA OneMore ==
  ASSUME NEW n \in Nat, NEW T \in SUBSET (1..n), NEW k \in T
  PROVE  /\ Cardinality(From(T, k)) \in 1..Cardinality(T)
         /\ Cardinality(From(T \cup {n + 1}, k)) = Cardinality(From(T, k)) + 1
<1> DEFINE from == From(T, k)
<1>1. IsFiniteSet(1..n)
  BY FS_Interval
<1>2. IsFiniteSet(T) /\ from \in SUBSET T
  BY <1>1, FS_Subset DEF From
<1>3. IsFiniteSet(from) /\ Cardinality(from) <= Cardinality(T)
  BY <1>2, FS_Subset
<1>4. Cardinality(T) \in Nat /\ Cardinality(from) \in Nat
  BY <1>2, <1>3, FS_CardinalityType
<1>5. k \in from
  BY DEF From
<1>6. Cardinality(from) # 0
  BY <1>3, <1>5, FS_EmptySet
<1>7. From(T \cup {n + 1}, k) = from \cup {n + 1} /\ n + 1 \notin from
  BY DEF From
<1>8. Cardinality(from \cup {n + 1}) = Cardinality(from) + 1
  BY <1>3, <1>7, FS_AddElement
<1>9. Cardinality(from) \in 1..Cardinality(T)
  BY <1>3, <1>4, <1>6
<1> QED BY <1>7, <1>8, <1>9

\* What EntriesOf makes of the end of a history: every entry of the client in that end
\* once, the last first.
LEMMA EntriesSound ==
  ASSUME NEW client, NEW all \in Seq(Entries), NEW log \in Seq(Entries), NEW o \in Nat,
         o + Len(log) = Len(all), \A i \in 1..Len(log) : log[i] = all[o + i]
  PROVE  Lists(EntriesOf(client, log), all, Theirs(client, all, o + 1, Len(all)))
<1> DEFINE Its(i) == Theirs(client, all, o + 1, o + i)
<1>1. PICK f : /\ EntriesOf(client, log) = f[Len(log)]
               /\ \A k \in 0..Len(log) : f[k] = Collect(f, k, client, log)
  BY EntriesAre
<1> DEFINE Good(i) ==
             f[i] \in Seq(Entries) /\ Lists(f[i], all, Its(i))
           Bad == {i \in 0..Len(log) : ~Good(i)}
<1>2. Len(log) \in Nat
  OBVIOUS
<1>3. SUFFICES ASSUME Bad # {} PROVE FALSE
  <2>1. Len(log) \in 0..Len(log)
    BY <1>2
  <2>2. ASSUME Bad = {} PROVE Good(Len(log))
    BY <2>1, <2>2
  <2>3. Its(Len(log)) = Theirs(client, all, o + 1, Len(all))
    OBVIOUS
  <2> HIDE DEF Its, Bad
  <2> QED BY <2>2, <2>3, <1>1
<1>4. PICK m \in Bad : \A k \in Bad : m <= k
  <2>1. Bad \subseteq Nat
    BY <1>2
  <2> QED BY <2>1, <1>3, LeastNumber
<1>5. m # 0
  <2>1. SUFFICES ASSUME m = 0 PROVE FALSE
    OBVIOUS
  <2>2. f[0] = <<>>
    <3>1. f[0] = Collect(f, 0, client, log)
      BY <1>1, <1>2
    <3> QED BY <3>1 DEF Collect
  <2>3. Its(0) = {}
    BY DEF Theirs
  <2>4. Cardinality(Its(0)) = 0
    BY <2>3, FS_EmptySet
  <2>5. <<>> \in Seq(Entries) /\ Len(<<>>) = 0
    OBVIOUS
  <2>6. Good(0)
    BY <2>2, <2>3, <2>4, <2>5 DEF Lists
  <2> QED BY <2>1, <2>6, <1>4
<1>6. m \in 1..Len(log) /\ m - 1 \in 0..Len(log) /\ m \in Nat /\ ~(m <= m - 1)
  BY <1>2, <1>4, <1>5
<1>7. Good(m - 1)
  <2> HIDE DEF Good
  <2>1. m - 1 \notin Bad
    <3> HIDE DEF Bad
    <3> QED BY <1>4, <1>6
  <2> QED BY <2>1, <1>6
<1> DEFINE t == f[m - 1]
           T == Its(m - 1)
<1>8. t \in Seq(Entries) /\ Lists(t, all, T)
  BY <1>7
<1>9. f[m] = IF log[m].client = client THEN <<log[m]>> \o t ELSE t
  <2>1. f[m] = Collect(f, m, client, log)
    BY <1>1, <1>6
  <2> QED BY <2>1, <1>5 DEF Collect
<1>10. log[m] = all[o + m] /\ log[m] \in Entries
  BY <1>6
<1>11. PICK b \in Nat : b + 1 = o + m /\ T \in SUBSET (1..b)
  <2>1. o + (m - 1) \in Nat /\ (o + (m - 1)) + 1 = o + m /\ T \subseteq 1..(o + (m - 1))
    BY <1>6 DEF Theirs
  <2> HIDE DEF T
  <2> QED BY <2>1
<1>12. Its(m) = IF log[m].client = client THEN T \cup {b + 1} ELSE T
  <2>1. (o + 1)..(o + m) = (o + 1)..(o + (m - 1)) \cup {o + m}
    <3>1. m >= 1
      BY <1>6
    <3> HIDE DEF Bad
    <3>2. \A x \in Int : x \in (o + 1)..(o + m) <=> x \in (o + 1)..(o + (m - 1)) \/ x = o + m
      BY <1>6, <3>1
    <3>3. o + m \in Int
      BY <1>6
    <3> QED BY <3>2, <3>3
  <2>2. b + 1 = o + m /\ log[m] = all[b + 1]
    BY <1>10, <1>11
  <2> QED BY <2>1, <2>2 DEF Theirs
<1>13. IsFiniteSet(T)
  <2>1. IsFiniteSet(1..b)
    <3>1. 1 \in Int /\ b \in Int
      OBVIOUS
    <3> QED BY ONLY <3>1, FS_Interval
  <2> QED BY <2>1, <1>11, FS_Subset
<1>14. ~Good(m)
  BY <1>4
<1> HIDE DEF T, t, Its
<1>15. CASE log[m].client # client
  BY <1>15, <1>8, <1>9, <1>12, <1>14
<1>16. CASE log[m].client = client
  <2> DEFINE e == log[m]
             more == T \cup {b + 1}
  <2>1. f[m] = <<e>> \o t /\ Its(m) = more
    BY <1>16, <1>9, <1>12
  <2>2. /\ <<e>> \o t \in Seq(Entries) /\ Len(<<e>> \o t) = 1 + Len(t)
        /\ (<<e>> \o t)[1] = e
        /\ \A i \in 1..Len(t) : (<<e>> \o t)[i + 1] = t[i]
    <3>1. <<e>> \in Seq(Entries) /\ Len(<<e>>) = 1 /\ <<e>>[1] = e
      BY <1>10
    <3>2. Len(t) \in Nat
      BY <1>8
    <3>3. /\ <<e>> \o t \in Seq(Entries) /\ Len(<<e>> \o t) = Len(<<e>>) + Len(t)
          /\ \A i \in 1..(Len(<<e>>) + Len(t)) :
               (<<e>> \o t)[i] = IF i <= Len(<<e>>) THEN <<e>>[i] ELSE t[i - Len(<<e>>)]
      BY <3>1, <1>8, ConcatProperties
    <3>4. ASSUME NEW i \in 1..Len(t) PROVE (<<e>> \o t)[i + 1] = t[i]
      <4>1. i + 1 \in 1..(1 + Len(t)) /\ ~(i + 1 <= 1) /\ (i + 1) - 1 = i
        BY <3>2
      <4> HIDE DEF e
      <4> QED BY <4>1, <3>1, <3>3
    <3>5. 1 \in 1..(1 + Len(t)) /\ 1 <= 1
      BY <3>2
    <3> HIDE DEF e
    <3> QED BY <3>1, <3>3, <3>4, <3>5
  <2>3. Cardinality(more) = Cardinality(T) + 1 /\ Cardinality(T) \in Nat
    <3>1. b + 1 \notin T
      BY <1>11
    <3> QED BY <3>1, <1>13, FS_AddElement, FS_CardinalityType
  <2>4. ASSUME NEW k \in more
        PROVE  (<<e>> \o t)[Cardinality(From(more, k))] = all[k]
    <3>1. CASE k = b + 1
      <4>1. \A j \in T : ~(j >= b + 1)
        BY <1>11
      <4>2. From(more, b + 1) = {b + 1}
        <5>1. b + 1 >= b + 1
          BY <1>11
        <5> HIDE DEF e
        <5> QED BY <4>1, <5>1 DEF From
      <4>3. Cardinality({k}) = 1
        BY FS_Singleton
      <4> QED BY <4>2, <4>3, <3>1, <2>2, <1>10, <1>11
    <3>2. CASE k \in T
      <4> DEFINE c == Cardinality(From(T, k))
      <4>1. c \in 1..Cardinality(T) /\ Cardinality(From(more, k)) = c + 1
        BY <3>2, <1>11, OneMore
      <4>2. t[c] = all[k] /\ c \in 1..Len(t)
        BY <4>1, <3>2, <1>8 DEF Lists
      <4> HIDE DEF c, e, more
      <4> QED BY <4>1, <4>2, <2>2
    <3> QED BY <3>1, <3>2
  <2>5. Len(<<e>> \o t) = Cardinality(more)
    BY <2>2, <2>3, <1>8 DEF Lists
  <2> HIDE DEF e, more
  <2>6. Good(m)
    BY <2>1, <2>2, <2>4, <2>5 DEF Lists
  <2> QED BY <2>6, <1>14
<1> QED BY <1>15, <1>16

\* The oldest entry makes room for the new one.
LEMMA LogKeeps ==
  ASSUME LastLogs, NEW e \in Entries, Log(e)
  PROVE  LastLogs'
<1>1. PICK l \in Nat, n \in Nat : l = Len(logs) /\ n = Len(named)
  BY DEF LastLogs
<1>2. MAX_LOGS \in Nat \ {0}
  BY DnsAssumption
<1>3. /\ named' \in Seq(Entries) /\ Len(named') = n + 1 /\ named'[n + 1] = e
      /\ \A i \in 1..n : named'[i] = named[i]
  BY <1>1, AppendProperties DEF LastLogs, Log
<1> DEFINE rest == IF l >= MAX_LOGS THEN Tail(logs) ELSE logs
           d == IF l >= MAX_LOGS THEN 1 ELSE 0
<1>4. /\ l = IF n < MAX_LOGS THEN n ELSE MAX_LOGS
      /\ \A i \in 1..l : logs[i] = named[n - l + i]
  BY <1>1 DEF LastLogs
<1>5. rest \in Seq(Entries) /\ Len(rest) = l - d /\ \A i \in 1..(l - d) : rest[i] = logs[i + d]
  <2>1. CASE l >= MAX_LOGS
    <3>1. logs # <<>> /\ logs \in Seq(Entries)
      BY <2>1, <1>1, <1>2 DEF LastLogs
    <3> QED BY <3>1, <2>1, <1>1, HeadTailProperties
  <2>2. CASE ~(l >= MAX_LOGS)
    BY <2>2, <1>1 DEF LastLogs
  <2> QED BY <2>1, <2>2
<1>6. logs' = Append(rest, e)
  BY <1>1 DEF Log
<1>7. d \in {0, 1} /\ l - d \in Nat /\ d <= l
  BY <1>1, <1>2
<1> HIDE DEF rest
<1>8. /\ logs' \in Seq(Entries) /\ Len(logs') = l - d + 1 /\ logs'[l - d + 1] = e
      /\ \A i \in 1..(l - d) : logs'[i] = rest[i]
  BY <1>5, <1>6, AppendProperties
<1>9. l - d + 1 = IF n + 1 < MAX_LOGS THEN n + 1 ELSE MAX_LOGS
  <2>1. l = IF n < MAX_LOGS THEN n ELSE MAX_LOGS
    BY <1>4
  <2>2. CASE n < MAX_LOGS
    BY <2>1, <2>2, <1>2
  <2>3. CASE ~(n < MAX_LOGS)
    BY <2>1, <2>3, <1>2
  <2> QED BY <2>2, <2>3
<1>10. ASSUME NEW i \in 1..(l - d + 1)
       PROVE  logs'[i] = named'[(n + 1) - (l - d + 1) + i]
  <2> HIDE DEF d
  <2>1. CASE i = l - d + 1
    <3>1. (n + 1) - (l - d + 1) + i = n + 1
      BY <2>1, <1>1, <1>7
    <3> QED BY <3>1, <2>1, <1>3, <1>8
  <2>2. CASE i # l - d + 1
    <3>1. /\ i \in 1..(l - d) /\ i + d \in 1..l
          /\ n - l + (i + d) = (n + 1) - (l - d + 1) + i
          /\ n - l + (i + d) \in 1..n
      BY <2>2, <1>1, <1>2, <1>4, <1>7
    <3>2. logs'[i] = logs[i + d]
      BY <3>1, <1>5, <1>8
    <3>3. logs[i + d] = named[n - l + (i + d)]
      BY <3>1, <1>4
    <3> QED BY <3>1, <3>2, <3>3, <1>3
  <2> QED BY <2>1, <2>2
<1> HIDE DEF d
<1> QED BY <1>3, <1>8, <1>9, <1>10 DEF LastLogs

\* The page shows what LastLogs says of the log.
LEMMA PageTells ==
  ASSUME LastLogs
  PROVE  LogTold
<1>1. PICK l \in Nat, n \in Nat : l = Len(logs) /\ n = Len(named)
  BY DEF LastLogs
<1>2. l = IF n < MAX_LOGS THEN n ELSE MAX_LOGS
  BY <1>1 DEF LastLogs
<1>3. \A i \in 1..l : logs[i] = named[n - l + i]
  BY <1>1 DEF LastLogs
<1>4. DOMAIN logs = 1..l /\ DOMAIN named = 1..n
  BY <1>1 DEF LastLogs
<1>5. MAX_LOGS \in Nat \ {0}
  BY DnsAssumption
<1>6. PICK o \in Nat : o = n - l /\ o + l = n
  BY <1>2, <1>5
<1>7. \A i \in 1..l : logs[i] = named[o + i]
  BY <1>3, <1>6
<1> DEFINE last == {k \in DOMAIN named : k + MAX_LOGS > Len(named)}
           its(client) == {k \in last : named[k].client = client}
<1>8. last = (o + 1)..n
  <2>1. ASSUME NEW k \in 1..n PROVE k + MAX_LOGS > n <=> k \in (o + 1)..n
    <3>1. CASE n < MAX_LOGS
      BY <3>1, <1>2, <1>5, <1>6
    <3>2. CASE ~(n < MAX_LOGS)
      BY <3>2, <1>2, <1>5, <1>6
    <3> QED BY <3>1, <3>2
  <2>2. last = {k \in 1..n : k + MAX_LOGS > n}
    BY <1>1, <1>4
  <2>3. (o + 1)..n \subseteq 1..n
    BY <1>6
  <2> HIDE DEF last
  <2> QED BY <2>1, <2>2, <2>3
<1>9. {logs[k].client : k \in DOMAIN logs} = {named[k].client : k \in last}
  <2> HIDE DEF last
  <2>1. ASSUME NEW k \in DOMAIN logs
        PROVE  \E j \in last : logs[k].client = named[j].client
    <3>1. o + k \in (o + 1)..n /\ logs[k] = named[o + k]
      BY <1>4, <1>6, <1>7
    <3> QED BY <3>1, <1>8
  <2>2. ASSUME NEW j \in last
        PROVE  \E k \in DOMAIN logs : named[j].client = logs[k].client
    <3>1. j - o \in 1..l /\ o + (j - o) = j
      BY <1>6, <1>8
    <3>2. logs[j - o] = named[j]
      BY <3>1, <1>7
    <3> QED BY <3>1, <3>2, <1>4
  <2> QED BY <2>1, <2>2
<1>10. ASSUME NEW client
       PROVE  Lists(EntriesOf(client, logs), named, its(client))
  <2>1. /\ named \in Seq(Entries) /\ logs \in Seq(Entries) /\ o + Len(logs) = Len(named)
        /\ \A i \in 1..Len(logs) : logs[i] = named[o + i]
    BY <1>1, <1>6, <1>7 DEF LastLogs
  <2>2. its(client) = Theirs(client, named, o + 1, Len(named))
    BY <1>1, <1>8 DEF Theirs
  <2> HIDE DEF its
  <2> QED BY <2>1, <2>2, EntriesSound
<1> SUFFICES ASSUME NEW me \in Clients, NEW client \in Clients
             PROVE  /\ Len(LogPage(me, client).logs) = Cardinality(its(client))
                    /\ \A k \in its(client) :
                         LogPage(me, client).logs[Cardinality({j \in its(client) : j >= k})]
                           = named[k]
                    /\ LogPage(me, client).clients
                         = {me, client} \cup {named[k].client : k \in last}
  BY Zenon DEF LogTold
<1>11. /\ LogPage(me, client).logs = EntriesOf(client, logs)
       /\ LogPage(me, client).clients = {me, client} \cup {logs[k].client : k \in DOMAIN logs}
  BY DEF LogPage
<1> HIDE DEF its, last
<1>12. \A k : From(its(client), k) = {j \in its(client) : j >= k}
  BY DEF From
<1> QED BY <1>9, <1>10, <1>11, <1>12 DEF Lists

\* The page of the log (/dnslog.json) shows a client every query of its own among the
\* last MAX_LOGS of all clients, each once and the newest first, and names whoever has
\* one there, for any clients and queries, and however many were logged.
THEOREM LogShown == DnsSpec => []LogTold
<1>1. DnsInit => LastLogs
  BY DnsAssumption DEF DnsInit, LastLogs
<1>2. LastLogs /\ [DnsNext]_dnsVars => LastLogs'
  <2> SUFFICES ASSUME LastLogs, [DnsNext]_dnsVars PROVE LastLogs'
    OBVIOUS
  <2>1. ASSUME NEW q \in Queries, OnReceived(q) PROVE LastLogs'
    <3> DEFINE ip == IF q.name = BuiltIn THEN ServerIP ELSE Resolved[q.name]
    <3>1. Entry(q, ip) \in Entries
      BY DEF Entries
    <3>2. Log(Entry(q, ip)) \/ UNCHANGED <<logs, named>>
      BY <2>1 DEF OnReceived
    <3>3. CASE UNCHANGED <<logs, named>>
      BY <3>3 DEF LastLogs
    <3> HIDE DEF ip
    <3> QED BY <3>1, <3>2, <3>3, LogKeeps
  <2>2. ASSUME NEW d \in network, OnDnsAgentResponse(d) \/ Lose(d) PROVE LastLogs'
    BY <2>2 DEF OnDnsAgentResponse, Lose, LastLogs
  <2>3. CASE UNCHANGED dnsVars
    BY <2>3 DEF dnsVars, LastLogs
  <2> QED BY <2>1, <2>2, <2>3 DEF DnsNext
<1>3. LastLogs => LogTold
  BY PageTells
<1> QED BY <1>1, <1>2, <1>3, PTL DEF DnsSpec

-----------------------------------------------------------------------------
(* The rules.  d and name are the labels of a line and of a host, last first. *)

\* (The provers do not know that a text in quotes is a STRING.)
Label == STRING \cup {"*", "."}
Texts == Seq(Label)

\* The labels of the model are such texts.
LEMMA TextsOf ==
  ASSUME NEW s \in Seq(STRING)
  PROVE  s \in Texts
<1>1. Len(s) \in Nat /\ s = [k \in 1..Len(s) |-> s[k]] /\ \A k \in 1..Len(s) : s[k] \in Label
  BY DEF Label
<1> QED BY <1>1 DEF Texts

\* Texts are equal label by label.
LEMMA SameText ==
  ASSUME NEW s \in Texts, NEW t \in Texts, Len(s) = Len(t), \A i \in 1..Len(s) : s[i] = t[i]
  PROVE  s = t
BY SeqEqual DEF Texts

\* Lengths are numbers.
LEMMA TextIs ==
  ASSUME NEW s \in Texts
  PROVE  Len(s) \in Nat /\ \A k \in 1..Len(s) : s[k] \in Label
BY DEF Texts

\* What Backwards does.
LEMMA BackwardsIs ==
  ASSUME NEW s \in Texts
  PROVE  /\ Backwards(s) \in Texts /\ Len(Backwards(s)) = Len(s)
         /\ \A k \in 1..Len(s) : Backwards(s)[k] = s[Len(s) + 1 - k]
<1>1. Len(s) \in Nat /\ \A k \in 1..Len(s) : s[k] \in Label
  BY DEF Texts
<1>2. \A k \in 1..Len(s) : Len(s) + 1 - k \in 1..Len(s)
  BY <1>1
<1>3. [k \in 1..Len(s) |-> s[Len(s) + 1 - k]] \in [1..Len(s) -> Label]
  BY <1>1, <1>2
<1>4. Backwards(s) \in Seq(Label) /\ Len(Backwards(s)) = Len(s)
  BY <1>1, <1>3 DEF Backwards
<1> QED BY <1>4 DEF Backwards, Texts

\* The first j labels, and one more.
First(s, j) == SubSeq(s, 1, j)
With(s, j, label) == Append(First(s, j), label)

\* What First does.
LEMMA FirstIs ==
  ASSUME NEW s \in Texts, NEW j \in 0..Len(s)
  PROVE  /\ First(s, j) \in Texts /\ Len(First(s, j)) = j
         /\ \A i \in 1..j : First(s, j)[i] = s[i]
<1>1. Len(s) \in Nat /\ j \in Nat /\ j <= Len(s) /\ \A k \in 1..Len(s) : s[k] \in Label
  BY DEF Texts
<1>2. \A k \in 1..j : s[k] \in Label
  BY <1>1
<1>3. /\ SubSeq(s, 1, j) \in Seq(Label)
      /\ Len(SubSeq(s, 1, j)) = IF 1 <= j THEN j - 1 + 1 ELSE 0
      /\ \A i \in 1..(j - 1 + 1) : SubSeq(s, 1, j)[i] = s[1 + i - 1]
  BY <1>1, <1>2, SubSeqProperties
<1> QED BY <1>1, <1>3 DEF First, Texts

\* What With does.
LEMMA WithIs ==
  ASSUME NEW s \in Texts, NEW j \in 0..Len(s), NEW label \in Label
  PROVE  /\ With(s, j, label) \in Texts /\ Len(With(s, j, label)) = j + 1
         /\ \A i \in 1..j : With(s, j, label)[i] = s[i]
         /\ With(s, j, label)[j + 1] = label
<1> DEFINE f == First(s, j)
<1>1. f \in Texts /\ Len(f) = j /\ \A i \in 1..j : f[i] = s[i]
  BY FirstIs
<1>2. With(s, j, label) = Append(f, label)
  BY DEF With
<1> HIDE DEF f
<1>3. f \in Seq(Label)
  BY <1>1 DEF Texts
<1>4. Append(f, label) \in Seq(Label) /\ Len(Append(f, label)) = Len(f) + 1
  BY <1>3, AppendProperties
<1>5. \A i \in 1..Len(f) : Append(f, label)[i] = f[i]
  BY <1>3, AppendProperties
<1>6. Append(f, label)[Len(f) + 1] = label
  BY <1>3, AppendProperties
<1> QED BY <1>1, <1>2, <1>4, <1>5, <1>6 DEF Texts

\* Two such texts are equal when their labels are.
LEMMA SameWith ==
  ASSUME NEW s \in Texts, NEW j \in 0..Len(s), NEW a \in Label,
         NEW t \in Texts, NEW k \in 0..Len(t), NEW b \in Label,
         With(s, j, a) = With(t, k, b)
  PROVE  j = k /\ a = b /\ \A i \in 1..j : s[i] = t[i]
<1>1. j \in Nat /\ k \in Nat
  BY DEF Texts
<1>2. /\ Len(With(s, j, a)) = j + 1 /\ With(s, j, a)[j + 1] = a
      /\ \A i \in 1..j : With(s, j, a)[i] = s[i]
  BY WithIs
<1>3. /\ Len(With(t, k, b)) = k + 1 /\ With(t, k, b)[k + 1] = b
      /\ \A i \in 1..k : With(t, k, b)[i] = t[i]
  BY WithIs
<1>4. j + 1 = k + 1
  BY <1>2, <1>3
<1>5. j = k
  BY <1>1, <1>4
<1> QED BY <1>2, <1>3, <1>5

\* A text's beginning is the one before and a label.
LEMMA FirstWith ==
  ASSUME NEW s \in Texts, NEW j \in 0..(Len(s) - 1)
  PROVE  First(s, j + 1) = With(s, j, s[j + 1])
<1>1. j \in Nat /\ j \in 0..Len(s) /\ j + 1 \in 0..Len(s) /\ s[j + 1] \in Label
  BY DEF Texts
<1> DEFINE f == First(s, j + 1)
           w == With(s, j, s[j + 1])
<1>2. f \in Texts /\ Len(f) = j + 1 /\ \A i \in 1..(j + 1) : f[i] = s[i]
  BY <1>1, FirstIs
<1>3. w \in Texts /\ Len(w) = j + 1 /\ (\A i \in 1..j : w[i] = s[i]) /\ w[j + 1] = s[j + 1]
  BY <1>1, WithIs
<1> HIDE DEF f, w
<1>4. ASSUME NEW i \in 1..(j + 1) PROVE f[i] = w[i]
  <2>1. i \in 1..j \/ i = j + 1
    BY <1>1
  <2> QED BY <2>1, <1>2, <1>3
<1>5. f = w
  BY <1>2, <1>3, <1>4, SameText
<1> QED BY <1>5 DEF f, w

\* Of a whole text.
LEMMA WholeFirst ==
  ASSUME NEW s \in Texts
  PROVE  First(s, Len(s)) = s
BY SubSeqFull DEF First, Texts

-----------------------------------------------------------------------------
(* The walk.                                                                *)

\* The walk down the tree comes from level k to some level j and ends there.
Ends(tree, name, j) ==
  With(name, j, "*") \in tree \/ (j = Len(name) /\ With(name, j, ".") \in tree)

FoundFrom(tree, name, k) ==
  \E j \in k..Len(name) :
    (\A i \in (k + 1)..j : First(name, i) \in tree) /\ Ends(tree, name, j)

\* One level of the walk.
LEMMA OneLevel ==
  ASSUME NEW tree, NEW name \in Texts, NEW k \in 0..Len(name)
  PROVE  FoundFrom(tree, name, k) <=>
           \/ Ends(tree, name, k)
           \/ k < Len(name) /\ First(name, k + 1) \in tree /\ FoundFrom(tree, name, k + 1)
<1>1. Len(name) \in Nat /\ k \in Nat /\ k \in k..Len(name)
  BY DEF Texts
<1>2. ASSUME Ends(tree, name, k) PROVE FoundFrom(tree, name, k)
  <2>1. \A i \in (k + 1)..k : First(name, i) \in tree
    BY <1>1
  <2> QED BY <1>1, <1>2, <2>1 DEF FoundFrom
<1>3. ASSUME k < Len(name), First(name, k + 1) \in tree, FoundFrom(tree, name, k + 1)
      PROVE  FoundFrom(tree, name, k)
  <2>1. PICK j \in (k + 1)..Len(name) :
          (\A i \in ((k + 1) + 1)..j : First(name, i) \in tree) /\ Ends(tree, name, j)
    BY <1>3 DEF FoundFrom
  <2>2. j \in k..Len(name)
    BY <1>1
  <2>3. ASSUME NEW i \in (k + 1)..j PROVE First(name, i) \in tree
    <3>1. i = k + 1 \/ i \in ((k + 1) + 1)..j
      BY <1>1
    <3> QED BY <3>1, <2>1, <1>3
  <2> QED BY <2>1, <2>2, <2>3 DEF FoundFrom
<1>4. ASSUME FoundFrom(tree, name, k), ~Ends(tree, name, k)
      PROVE  k < Len(name) /\ First(name, k + 1) \in tree /\ FoundFrom(tree, name, k + 1)
  <2>1. PICK j \in k..Len(name) :
          (\A i \in (k + 1)..j : First(name, i) \in tree) /\ Ends(tree, name, j)
    BY <1>4 DEF FoundFrom
  <2>2. j # k
    BY <2>1, <1>4
  <2>3. j \in (k + 1)..Len(name) /\ k + 1 \in (k + 1)..j /\ k < Len(name)
    BY <1>1, <2>2
  <2>4. First(name, k + 1) \in tree
    BY <2>1, <2>3
  <2>5. \A i \in ((k + 1) + 1)..j : First(name, i) \in tree
    <3>1. \A i \in ((k + 1) + 1)..j : i \in (k + 1)..j
      BY <1>1, <2>3
    <3> QED BY <3>1, <2>1
  <2> QED BY <2>1, <2>3, <2>4, <2>5 DEF FoundFrom
<1> QED BY <1>2, <1>3, <1>4

\* One step of _inList at level k, when f says what the levels below find.
Level(f, tree, name, k) ==
  IF With(name, k, "*") \in tree THEN TRUE
  ELSE IF k = Len(name) THEN With(name, k, ".") \in tree
  ELSE With(name, k, name[k + 1]) \in tree /\ f[k + 1]

\* The function that InList is defined by exists.
LEMMA LevelsExist ==
  ASSUME NEW tree, NEW name \in Texts, NEW n \in 0..Len(name)
  PROVE  \E f : f = [k \in (Len(name) - n)..Len(name) |-> Level(f, tree, name, k)]
<1>0. PICK len \in Nat : len = Len(name) /\ n \in 0..len
  BY DEF Texts
<1> DEFINE Its(f, m) == f = [k \in (len - m)..len |-> Level(f, tree, name, k)]
           Bad == {m \in 0..n : ~ \E f : Its(f, m)}
<1>1. SUFFICES ASSUME ~ \E f : Its(f, n) PROVE FALSE
  BY <1>0
<1>2. Bad # {}
  <2>1. n \in 0..n
    BY <1>0
  <2> QED BY <2>1, <1>1
<1>3. PICK m \in Bad : \A k \in Bad : m <= k
  <2>1. Bad \subseteq Nat
    BY <1>0
  <2> QED BY <2>1, <1>2, LeastNumber
<1>4. m \in Nat /\ m \in 0..len /\ ~ \E f : Its(f, m)
  BY <1>0
<1>5. CASE m = 0
  <2> DEFINE g == [k \in len..len |-> Level(<<>>, tree, name, len)]
  <2>1. ASSUME NEW k \in len..len PROVE g[k] = Level(g, tree, name, k)
    <3>1. k = len
      BY <1>0
    <3> HIDE DEF g
    <3>2. Level(<<>>, tree, name, len) = Level(g, tree, name, len)
      BY <1>0 DEF Level
    <3>3. g[k] = Level(<<>>, tree, name, len)
      BY DEF g
    <3> QED BY <3>1, <3>2, <3>3
  <2>2. g = [k \in len..len |-> Level(g, tree, name, k)]
    BY <2>1
  <2>3. len - m = len
    BY <1>5
  <2>4. Its(g, m)
    <3> HIDE DEF g
    <3> QED BY <2>2, <2>3
  <2> QED BY <2>4, <1>4
<1>6. CASE m # 0
  <2>1. m - 1 \in Nat /\ m - 1 \in 0..n /\ ~(m <= m - 1)
    BY <1>0, <1>4, <1>6
  <2>2. m - 1 \notin Bad
    <3> HIDE DEF Bad
    <3> QED BY <2>1, <1>3
  <2>3. PICK f : Its(f, m - 1)
    BY <2>1, <2>2
  <2> DEFINE o == len - m
             g == [k \in o..len |-> IF k = o THEN Level(f, tree, name, o) ELSE f[k]]
  <2>4. o \in Nat /\ o < len /\ o + 1 = len - (m - 1)
    BY <1>4, <1>6
  <2> HIDE DEF o
  <2>5. ASSUME NEW k \in o..len PROVE g[k] = Level(g, tree, name, k)
    <3>1. k # len => k + 1 \in o..len /\ k + 1 # o /\ g[k + 1] = f[k + 1]
      BY <2>4, <1>0
    <3>2. g[k] = IF k = o THEN Level(f, tree, name, o) ELSE f[k]
      OBVIOUS
    <3> HIDE DEF g
    <3>3. Level(g, tree, name, k) = Level(f, tree, name, k)
      BY <3>1, <1>0 DEF Level
    <3>4. k # o => f[k] = Level(f, tree, name, k)
      <4>1. k # o => k \in (len - (m - 1))..len
        BY <2>4, <1>0
      <4> QED BY <4>1, <2>3
    <3> QED BY <3>2, <3>3, <3>4
  <2>6. g = [k \in o..len |-> Level(g, tree, name, k)]
    BY <2>5
  <2>7. Its(g, m)
    <3> HIDE DEF g
    <3> QED BY <2>6 DEF o
  <2> QED BY <2>7, <1>4
<1> QED BY <1>5, <1>6

\* _inList finds a way from the root.
LEMMA InListIs ==
  ASSUME NEW tree, NEW host \in Texts
  PROVE  InList(tree, host) <=> FoundFrom(tree, Backwards(host), 0)
<1> DEFINE name == Backwards(host)
           Its(f) == f = [k \in 0..Len(name) |-> Level(f, tree, name, k)]
           match == CHOOSE f : Its(f)
<1>1. name \in Texts
  BY BackwardsIs
<1>2. PICK len \in Nat : len = Len(name)
  BY <1>1 DEF Texts
<1>3. Its(match)
  <2>1. len \in 0..len /\ len - len = 0
    BY <1>2
  <2>2. \E f : f = [k \in (Len(name) - len)..Len(name) |-> Level(f, tree, name, k)]
    <3>1. len \in 0..Len(name)
      BY <2>1, <1>2
    <3> HIDE DEF name
    <3> QED BY <3>1, <1>1, LevelsExist, Zenon
  <2>3. \E f : Its(f)
    BY <2>1, <2>2, <1>2
  <2> QED BY <2>3
<1>4. InList(tree, host) <=> match[0]
  BY Zenon DEF InList, Level, With, First
<1>5. \A k \in 0..len : match[k] = Level(match, tree, name, k)
  BY <1>2, <1>3
<1> HIDE DEF match, name
<1> DEFINE Good(k) == match[k] <=> FoundFrom(tree, name, k)
           Bad == {m \in 0..len : ~Good(len - m)}
<1>6. SUFFICES ASSUME Bad # {} PROVE FALSE
  <2>1. len \in 0..len /\ len - len = 0
    BY <1>2
  <2>2. ASSUME Bad = {} PROVE Good(len - len)
    BY <2>1, <2>2
  <2> HIDE DEF Bad
  <2> QED BY <2>1, <2>2, <1>4 DEF name
<1>7. PICK m \in Bad : \A j \in Bad : m <= j
  <2>1. Bad \subseteq Nat
    BY <1>2
  <2> QED BY <2>1, <1>6, LeastNumber
<1>8. PICK k \in 0..len : k = len - m /\ ~Good(k)
  BY <1>2
<1>9. k # len => Good(k + 1)
  <2>1. k # len => m - 1 \in 0..len /\ ~(m <= m - 1) /\ len - (m - 1) = k + 1
    BY <1>2, <1>8
  <2>2. k # len => m - 1 \notin Bad
    <3> HIDE DEF Bad
    <3> QED BY <2>1, <1>7
  <2> QED BY <2>1, <2>2
<1>10. match[k] <=> Level(match, tree, name, k)
  BY <1>5
<1>11. FoundFrom(tree, name, k) <=>
         \/ Ends(tree, name, k)
         \/ k < len /\ First(name, k + 1) \in tree /\ FoundFrom(tree, name, k + 1)
  BY <1>1, <1>2, OneLevel
<1>12. k # len => With(name, k, name[k + 1]) = First(name, k + 1) /\ k < len
  <2>1. k # len => k < len /\ k \in 0..(Len(name) - 1)
    BY <1>2
  <2> QED BY <2>1, <1>1, FirstWith
<1>13. k = len => ~(k < len)
  BY <1>2
<1>14. Good(k)
  BY <1>2, <1>9, <1>10, <1>11, <1>12, <1>13 DEF Level, Ends
<1> QED BY <1>8, <1>14

-----------------------------------------------------------------------------
(* The lines.                                                               *)

Last(line) == IF line.mark = "" THEN "." ELSE "*"

\* The nodes that a line adds.
Nodes(line) ==
  LET d == Backwards(line.labels) IN
  {w \in {First(d, k) : k \in 1..Len(d)} \cup {With(d, Len(d), Last(line))} :
     Usable(line) /\ \A k \in 1..Len(d) : d[k] # ""}

\* The labels of a line.
LEMMA LabelsOf ==
  ASSUME NEW line \in RuleLines
  PROVE  /\ line.labels \in Texts /\ line.mark \in {"", "||", "."} /\ line.direct \in BOOLEAN
         /\ Backwards(line.labels) \in Texts
         /\ Len(Backwards(line.labels)) = Len(line.labels)
         /\ \A k \in 1..Len(line.labels) : line.labels[k] # "."
<1>1. line.labels \in Texts /\ line.mark \in {"", "||", "."} /\ line.direct \in BOOLEAN
  <2>1. line.labels \in Seq(STRING) /\ line.mark \in {"", "||", "."} /\ line.direct \in BOOLEAN
    BY LinesAssumption
  <2> QED BY <2>1, TextsOf
<1>2. \A k \in DOMAIN line.labels : line.labels[k] # "."
  BY LinesAssumption
<1> DEFINE s == line.labels
<1> HIDE DEF s
<1>3. s \in Texts => DOMAIN s = 1..Len(s)
  BY DEF Texts
<1>4. \A k \in 1..Len(line.labels) : line.labels[k] # "."
  BY <1>1, <1>2, <1>3 DEF s
<1>5. Backwards(line.labels) \in Texts /\ Len(Backwards(line.labels)) = Len(line.labels)
  BY <1>1, BackwardsIs
<1> QED BY <1>1, <1>4, <1>5

\* The same, from the end.
LEMMA LabelsBack ==
  ASSUME NEW line \in RuleLines, NEW d, d = Backwards(line.labels)
  PROVE  /\ d \in Texts /\ Len(d) = Len(line.labels) /\ Len(d) \in Nat
         /\ \A k \in 1..Len(d) : d[k] \in Label
         /\ \A k \in 1..Len(d) : d[k] = line.labels[Len(d) + 1 - k] /\ d[k] # "."
<1>1. line.labels \in Texts /\ \A k \in 1..Len(line.labels) : line.labels[k] # "."
  BY LabelsOf
<1> DEFINE s == line.labels
<1>2. d \in Texts /\ Len(d) = Len(s) /\ \A k \in 1..Len(s) : d[k] = s[Len(s) + 1 - k]
  BY <1>1, BackwardsIs
<1>3. Len(d) \in Nat /\ \A k \in 1..Len(d) : d[k] \in Label
  BY <1>2, TextIs
<1>4. \A k \in 1..Len(s) : s[k] # "."
  BY <1>1
<1> HIDE DEF s
<1>5. \A k \in 1..Len(d) : Len(d) + 1 - k \in 1..Len(d)
  BY <1>3
<1>6. \A k \in 1..Len(d) : d[k] # "."
  BY <1>2, <1>4, <1>5
<1> QED BY <1>2, <1>3, <1>6 DEF s

\* What a line of the file adds to a tree.
LEMMA LoadedIs ==
  ASSUME NEW line \in RuleLines, NEW tree
  PROVE  Loaded(line, tree) = tree \cup Nodes(line)
<1> DEFINE d == Backwards(line.labels)
<1>0. d \in Texts
  BY LabelsOf
<1>1. d \in Texts /\ DOMAIN d = 1..Len(d)
  <2> HIDE DEF d
  <2> QED BY <1>0 DEF Texts
<1>2. With(d, Len(d), Last(line)) = Append(d, Last(line))
  BY <1>1, WholeFirst DEF With
<1>3. Nodes(line) = IF Usable(line) /\ \A k \in 1..Len(d) : d[k] # ""
                    THEN {First(d, k) : k \in 1..Len(d)} \cup {Append(d, Last(line))} ELSE {}
  BY <1>2 DEF Nodes
<1>4. Loaded(line, tree) =
        IF Usable(line) /\ \A k \in 1..Len(d) : d[k] # ""
        THEN tree \cup {SubSeq(d, 1, k) : k \in 1..Len(d)} \cup {Append(d, Last(line))} ELSE tree
  BY <1>1 DEF Loaded, AddNodes, Last
<1>5. {SubSeq(d, 1, k) : k \in 1..Len(d)} = {First(d, k) : k \in 1..Len(d)}
  BY DEF First
<1> HIDE DEF d
<1> QED BY <1>3, <1>4, <1>5

\* The first m labels are the same.
Agree(d, name, m) == Len(name) >= m /\ \A i \in 1..m : name[i] = d[i]

\* RuleMeans from the end of the names.
Means2(line, d, name) ==
  \/ \E p \in 1..Len(d) : /\ d[p] = "*" /\ \A q \in 1..Len(d) : d[q] = "*" => p <= q
                          /\ Agree(d, name, p - 1)
  \/ /\ \A p \in 1..Len(d) : d[p] # "*"
     /\ Agree(d, name, Len(d)) /\ (line.mark = "" => Len(name) = Len(d))

\* The same end of two texts.
LEMMA SameEnd ==
  ASSUME NEW host \in Texts, NEW labels \in Texts, NEW k \in 0..Len(labels)
  PROVE  LET n == Len(labels) IN
         /\ Len(host) >= n - k
         /\ SubSeq(host, Len(host) - (n - k) + 1, Len(host)) = SubSeq(labels, k + 1, n)
         <=> Agree(Backwards(labels), Backwards(host), n - k)
<1>1. PICK n \in Nat, h \in Nat, m \in Nat :
        n = Len(labels) /\ h = Len(host) /\ m = n - k /\ k = n - m /\ m <= n
  BY DEF Texts
<1> DEFINE x == SubSeq(host, h - m + 1, h)
           y == SubSeq(labels, k + 1, n)
           a == Backwards(host)
           b == Backwards(labels)
<1>2. SUFFICES (h >= m /\ x = y) <=> Agree(b, a, m)
  BY <1>1
<1>3. /\ Len(a) = h /\ \A i \in 1..h : a[i] = host[h + 1 - i]
      /\ \A i \in 1..n : b[i] = labels[n + 1 - i]
  BY <1>1, BackwardsIs
<1>4. SUFFICES ASSUME h >= m PROVE x = y <=> \A i \in 1..m : a[i] = b[i]
  BY <1>1, <1>3 DEF Agree
<1>5. x \in Texts /\ Len(x) = m /\ \A i \in 1..m : x[i] = host[h - m + i]
  <2>1. h - m + 1 \in Int /\ h \in Int /\ \A i \in (h - m + 1)..h : host[i] \in Label
    BY <1>1, <1>4 DEF Texts
  <2>2. /\ x \in Seq(Label) /\ Len(x) = IF h - m + 1 <= h THEN h - (h - m + 1) + 1 ELSE 0
        /\ \A i \in 1..(h - (h - m + 1) + 1) : x[i] = host[(h - m + 1) + i - 1]
    BY <2>1, SubSeqProperties
  <2> HIDE DEF x
  <2>3. Len(x) = m /\ h - (h - m + 1) + 1 = m
    BY <2>2, <1>1, <1>4
  <2>4. \A i \in 1..m : (h - m + 1) + i - 1 = h - m + i
    BY <1>1, <1>4
  <2> QED BY <2>2, <2>3, <2>4 DEF Texts
<1>6. y \in Texts /\ Len(y) = m /\ \A i \in 1..m : y[i] = labels[k + i]
  <2>1. k + 1 \in Int /\ n \in Int /\ \A i \in (k + 1)..n : labels[i] \in Label
    BY <1>1 DEF Texts
  <2>2. /\ y \in Seq(Label) /\ Len(y) = IF k + 1 <= n THEN n - (k + 1) + 1 ELSE 0
        /\ \A i \in 1..(n - (k + 1) + 1) : y[i] = labels[(k + 1) + i - 1]
    BY <2>1, SubSeqProperties
  <2> HIDE DEF y
  <2>3. Len(y) = m /\ n - (k + 1) + 1 = m
    BY <2>2, <1>1
  <2>4. \A i \in 1..m : (k + 1) + i - 1 = k + i
    BY <1>1
  <2> QED BY <2>2, <2>3, <2>4 DEF Texts
<1> HIDE DEF x, y, a, b
<1>7. ASSUME NEW i \in 1..m PROVE x[m + 1 - i] = a[i] /\ y[m + 1 - i] = b[i]
  <2>1. /\ m + 1 - i \in 1..m /\ i \in 1..h /\ i \in 1..n
        /\ h - m + (m + 1 - i) = h + 1 - i /\ k + (m + 1 - i) = n + 1 - i
    BY <1>1, <1>4
  <2>2. x[m + 1 - i] = host[h - m + (m + 1 - i)] /\ y[m + 1 - i] = labels[k + (m + 1 - i)]
    BY <2>1, <1>5, <1>6
  <2>3. a[i] = host[h + 1 - i] /\ b[i] = labels[n + 1 - i]
    BY <2>1, <1>3
  <2> QED BY <2>1, <2>2, <2>3
<1>8. ASSUME \A i \in 1..m : a[i] = b[i] PROVE x = y
  <2>1. ASSUME NEW j \in 1..m PROVE x[j] = y[j]
    <3>1. m + 1 - j \in 1..m /\ m + 1 - (m + 1 - j) = j
      BY <1>1
    <3>2. x[j] = a[m + 1 - j] /\ y[j] = b[m + 1 - j]
      BY <3>1, <1>7
    <3> QED BY <3>1, <3>2, <1>8
  <2> QED BY <2>1, <1>5, <1>6, SameText
<1>9. ASSUME x = y, NEW i \in 1..m PROVE a[i] = b[i]
  <2>1. x[m + 1 - i] = y[m + 1 - i]
    BY <1>9
  <2> QED BY <2>1, <1>7
<1> QED BY <1>8, <1>9

\* What a line of the file means, from the end of the names.
LEMMA RuleMeansIs ==
  ASSUME NEW line \in RuleLines, NEW host \in Texts
  PROVE  RuleMeans(line, host) <=>
           /\ Usable(line) /\ \A k \in 1..Len(line.labels) : line.labels[k] # ""
           /\ Means2(line, Backwards(line.labels), Backwards(host))
<1>1. line.labels \in Texts
  BY LabelsOf
<1> DEFINE labels == line.labels
           d == Backwards(labels)
           name == Backwards(host)
           stars == {k \in 1..Len(labels) : labels[k] = "*"}
           Behind(k) == /\ Len(host) >= Len(labels) - k
                        /\ SubSeq(host, Len(host) - (Len(labels) - k) + 1, Len(host))
                           = SubSeq(labels, k + 1, Len(labels))
<1>2. PICK n \in Nat : n = Len(labels)
  BY <1>1 DEF Texts
<1>3. Len(d) = n /\ (\A k \in 1..n : d[k] = labels[n + 1 - k]) /\ Len(name) = Len(host)
  BY <1>1, <1>2, BackwardsIs
<1>4. ASSUME NEW k \in 0..n PROVE Behind(k) <=> Agree(d, name, n - k)
  BY <1>1, <1>2, SameEnd
<1>5. RuleMeans(line, host) <=>
        /\ Usable(line) /\ \A k \in 1..Len(labels) : labels[k] # ""
        /\ IF stars # {} THEN \E k \in stars : (\A j \in stars : j <= k) /\ Behind(k)
           ELSE Behind(0) /\ (line.mark = "" => Len(host) = Len(labels))
  BY DEF RuleMeans
<1> HIDE DEF labels, d, name, Behind
<1>6. ASSUME NEW k \in 1..n
      PROVE  n + 1 - k \in 1..n /\ d[n + 1 - k] = labels[k] /\ d[k] = labels[n + 1 - k]
  <2>1. n + 1 - k \in 1..n /\ n + 1 - (n + 1 - k) = k
    BY <1>2
  <2> QED BY <2>1, <1>3
<1>7. CASE stars = {}
  <2>1. \A p \in 1..n : d[p] # "*"
    BY <1>2, <1>6, <1>7
  <2>2. Behind(0) <=> Agree(d, name, n)
    BY <1>2, <1>4
  <2> QED BY <2>1, <2>2, <1>2, <1>3, <1>5, <1>7 DEF Means2, labels, d, name
<1>8. CASE stars # {}
  <2>1. PICK s \in 1..n : d[s] = "*"
    BY <1>2, <1>6, <1>8
  <2>2. ASSUME NEW k \in 1..n, labels[k] = "*", \A j \in stars : j <= k, Behind(k)
        PROVE  Means2(line, d, name)
    <3> DEFINE p == n + 1 - k
    <3>1. p \in 1..n /\ d[p] = "*" /\ n - k = p - 1
      BY <2>2, <1>2, <1>6
    <3>2. ASSUME NEW q \in 1..n, d[q] = "*" PROVE p <= q
      <4>1. n + 1 - q \in stars
        BY <1>2, <1>6, <3>2
      <4>2. n + 1 - q <= k
        BY <4>1, <2>2
      <4> QED BY <4>2, <1>2
    <3>3. Agree(d, name, p - 1)
      <4>1. k \in 0..n
        BY <1>2
      <4> QED BY <4>1, <2>2, <1>4, <3>1
    <3> HIDE DEF p
    <3> QED BY <3>1, <3>2, <3>3, <1>3 DEF Means2
  <2>3. ASSUME NEW p \in 1..n, d[p] = "*", \A q \in 1..n : d[q] = "*" => p <= q,
               Agree(d, name, p - 1)
        PROVE  \E k \in stars : (\A j \in stars : j <= k) /\ Behind(k)
    <3> DEFINE k == n + 1 - p
    <3>1. k \in 1..n /\ k \in stars /\ n - k = p - 1 /\ k \in 0..n
      BY <2>3, <1>2, <1>6
    <3>2. ASSUME NEW j \in stars PROVE j <= k
      <4>1. j \in 1..n /\ n + 1 - j \in 1..n /\ d[n + 1 - j] = "*"
        BY <1>2, <1>6
      <4>2. p <= n + 1 - j
        BY <4>1, <2>3
      <4> QED BY <4>1, <4>2, <1>2
    <3>3. Behind(k)
      BY <3>1, <2>3, <1>4
    <3> HIDE DEF k, stars
    <3> QED BY <3>1, <3>2, <3>3
  <2>4. Means2(line, d, name) <=> \E k \in stars : (\A j \in stars : j <= k) /\ Behind(k)
    <3>1. ASSUME Means2(line, d, name)
          PROVE  \E k \in stars : (\A j \in stars : j <= k) /\ Behind(k)
      <4>1. PICK p \in 1..n : d[p] = "*" /\ (\A q \in 1..n : d[q] = "*" => p <= q)
                               /\ Agree(d, name, p - 1)
        BY <3>1, <2>1, <1>3 DEF Means2
      <4> HIDE DEF stars
      <4> QED BY <4>1, <2>3
    <3>2. ASSUME NEW k \in stars, \A j \in stars : j <= k, Behind(k)
          PROVE  Means2(line, d, name)
      BY <3>2, <2>2, <1>2
    <3> QED BY <3>1, <3>2
  <2> QED BY <2>4, <1>5, <1>8 DEF labels, d, name
<1> QED BY <1>7, <1>8

-----------------------------------------------------------------------------
\* What two lists of labels have to do with each other when a node of the one ends the
\* walk along the other.
LEMMA NodeEnds ==
  ASSUME NEW line \in RuleLines, NEW host \in Texts, NEW j \in 0..Len(host),
         \/ With(Backwards(host), j, "*") \in Nodes(line)
         \/ j = Len(host) /\ With(Backwards(host), j, ".") \in Nodes(line)
  PROVE  RuleMeans(line, host)
<1> DEFINE d == Backwards(line.labels)
           name == Backwards(host)
<1>0. name \in Texts /\ Len(name) = Len(host)
  BY BackwardsIs
<1>1. d \in Texts /\ name \in Texts /\ Len(name) = Len(host) /\ Len(name) \in Nat
  BY <1>0, LabelsBack, TextIs
<1>2. PICK n \in Nat : n = Len(d)
  BY LabelsBack
<1>labels. /\ Len(line.labels) = n /\ \A k \in 1..n : d[k] \in Label /\ d[k] # "."
      /\ \A k \in 1..n : d[k] = line.labels[n + 1 - k]
  BY <1>2, LabelsBack
<1>3. PICK last \in {"*", "."} : With(name, j, last) \in Nodes(line) /\ (last = "." => j = Len(name))
  BY <1>1
<1>4. Usable(line) /\ \A k \in 1..n : d[k] # ""
  BY <1>2, <1>3 DEF Nodes
<1>5. \/ \E k \in 1..n : With(name, j, last) = First(d, k)
      \/ With(name, j, last) = With(d, n, Last(line))
  BY <1>2, <1>3 DEF Nodes
<1> HIDE DEF d, name
<1>6. \A k \in 1..n : n + 1 - k \in 1..n /\ n + 1 - (n + 1 - k) = k
  BY <1>2
<1>7. ASSUME NEW k \in 1..n PROVE line.labels[k] # ""
  <2>1. n + 1 - k \in 1..n /\ n + 1 - (n + 1 - k) = k
    BY <1>6
  <2>2. d[n + 1 - k] = line.labels[k]
    BY <2>1, <1>labels
  <2> QED BY <2>1, <2>2, <1>4
<1>8. ASSUME NEW s \in 1..n, d[s] = "*", Agree(d, name, s - 1) PROVE Means2(line, d, name)
  <2> DEFINE T == {k \in 1..n : d[k] = "*"}
  <2>1. PICK p \in T : \A q \in T : p <= q
    <3>1. T \subseteq Nat /\ s \in T
      BY <1>2, <1>8
    <3> QED BY <3>1, LeastNumber
  <2>2. p \in 1..n /\ d[p] = "*" /\ p <= s /\ \A q \in 1..n : d[q] = "*" => p <= q
    BY <2>1, <1>8
  <2>3. Agree(d, name, p - 1)
    <3>1. s - 1 >= p - 1 /\ Len(name) >= s - 1 /\ Len(name) \in Nat
      BY <1>1, <1>2, <1>8, <2>2 DEF Agree
    <3>2. \A i \in 1..(p - 1) : i \in 1..(s - 1)
      BY <1>2, <2>2
    <3> QED BY <3>1, <3>2, <1>2, <1>8, <2>2 DEF Agree
  <2> QED BY <2>2, <2>3, <1>2 DEF Means2
<1>9. ASSUME NEW k \in 1..n, With(name, j, last) = First(d, k) PROVE Means2(line, d, name)
  <2>1. k - 1 \in 0..(Len(d) - 1) /\ k - 1 \in 0..Len(d) /\ (k - 1) + 1 = k /\ d[k] \in Label
    BY <1>2, <1>labels
  <2>2. First(d, k) = With(d, k - 1, d[k])
    BY <2>1, <1>1, FirstWith
  <2>3. j \in 0..Len(name) /\ last \in Label
    BY <1>0 DEF Label
  <2>4. j = k - 1 /\ last = d[k] /\ \A i \in 1..j : name[i] = d[i]
    <3> DEFINE label == d[k]
    <3>1. label \in Label /\ With(name, j, last) = With(d, k - 1, label)
      BY <2>1, <2>2, <1>9
    <3> HIDE DEF label
    <3>2. j = k - 1 /\ last = label /\ \A i \in 1..j : name[i] = d[i]
      BY <2>1, <2>3, <3>1, <1>1, SameWith
    <3> QED BY <3>2 DEF label
  <2>5. d[k] = "*"
    BY <2>4, <1>labels
  <2>6. Agree(d, name, k - 1)
    BY <2>3, <2>4, <1>1 DEF Agree
  <2> QED BY <2>5, <2>6, <1>8
<1>10. ASSUME With(name, j, last) = With(d, n, Last(line)) PROVE Means2(line, d, name)
  <2>0. Last(line) \in Label /\ last \in Label
    BY DEF Last, Label
  <2>1. j \in 0..Len(name) /\ last \in Label /\ n \in 0..Len(d) /\ Last(line) \in Label
    BY <2>0, <1>0, <1>2
  <2>2. j = n /\ last = Last(line) /\ \A i \in 1..j : name[i] = d[i]
    <3> DEFINE label == Last(line)
    <3>1. label \in Label /\ With(name, j, last) = With(d, n, label)
      BY <2>1, <1>10
    <3> HIDE DEF label
    <3>2. j = n /\ last = label /\ \A i \in 1..j : name[i] = d[i]
      BY <2>1, <3>1, <1>1, SameWith
    <3> QED BY <3>2 DEF label
  <2>3. Agree(d, name, n)
    BY <2>1, <2>2, <1>1 DEF Agree
  <2>4. line.mark = "" => Len(name) = n
    BY <2>2, <1>3 DEF Last
  <2>5. CASE \A p \in 1..n : d[p] # "*"
    BY <2>3, <2>4, <2>5, <1>2 DEF Means2
  <2>6. CASE \E p \in 1..n : d[p] = "*"
    <3>1. PICK s \in 1..n : d[s] = "*"
      BY <2>6
    <3>2. Agree(d, name, s - 1)
      BY <2>3, <1>1, <1>2 DEF Agree
    <3> QED BY <3>1, <3>2, <1>8
  <2> QED BY <2>5, <2>6
<1>11. Means2(line, d, name)
  BY <1>5, <1>9, <1>10
<1> QED BY <1>labels, <1>4, <1>7, <1>11, RuleMeansIs DEF d, name

\* And the other way round: the walk along a name that a line means comes to an end.
LEMMA MeansFound ==
  ASSUME NEW line \in RuleLines, NEW host \in Texts, NEW tree, Nodes(line) \subseteq tree,
         RuleMeans(line, host)
  PROVE  FoundFrom(tree, Backwards(host), 0)
<1> DEFINE d == Backwards(line.labels)
           name == Backwards(host)
<1>0. name \in Texts
  BY BackwardsIs
<1>1. d \in Texts /\ name \in Texts /\ Len(name) \in Nat
  BY <1>0, LabelsBack, TextIs
<1>2. PICK n \in Nat : n = Len(d)
  BY LabelsBack
<1>labels. Len(line.labels) = n /\ \A k \in 1..n : d[k] = line.labels[n + 1 - k]
  BY <1>2, LabelsBack
<1>3. Usable(line) /\ (\A k \in 1..n : line.labels[k] # "") /\ Means2(line, d, name)
  BY <1>labels, RuleMeansIs
<1>4. \A k \in 1..n : d[k] # ""
  <2>1. \A k \in 1..n : n + 1 - k \in 1..n
    BY <1>2
  <2> QED BY <2>1, <1>labels, <1>3
<1>5. (\A k \in 1..n : First(d, k) \in tree) /\ With(d, n, Last(line)) \in tree
  BY <1>2, <1>3, <1>4 DEF Nodes
<1> HIDE DEF d, name
<1>6. ASSUME NEW m \in 0..n, Agree(d, name, m)
      PROVE  m \in 0..Len(name) /\ \A i \in 0..m : First(name, i) = First(d, i)
  <2>1. m \in 0..Len(name) /\ Len(name) \in Nat
    BY <1>1, <1>2, <1>6 DEF Agree
  <2>2. ASSUME NEW i \in 0..m PROVE First(name, i) = First(d, i)
    <3>1. i \in 0..Len(name) /\ i \in 0..Len(d)
      BY <2>1, <1>2
    <3>2. /\ First(name, i) \in Texts /\ Len(First(name, i)) = i
          /\ \A k \in 1..i : First(name, i)[k] = name[k]
      BY <3>1, <1>1, FirstIs
    <3>3. /\ First(d, i) \in Texts /\ Len(First(d, i)) = i
          /\ \A k \in 1..i : First(d, i)[k] = d[k]
      BY <3>1, <1>1, FirstIs
    <3>4. \A k \in 1..i : name[k] = d[k]
      BY <2>1, <1>6 DEF Agree
    <3> QED BY <3>2, <3>3, <3>4, SameText
  <2> QED BY <2>1, <2>2
<1>7. ASSUME NEW m \in 0..n, Agree(d, name, m), Ends(tree, name, m)
      PROVE  FoundFrom(tree, name, 0)
  <2>1. m \in 0..Len(name) /\ \A i \in 0..m : First(name, i) = First(d, i)
    BY <1>6, <1>7
  <2>2. \A i \in (0 + 1)..m : i \in 0..m /\ i \in 1..n
    BY <1>2
  <2>3. \A i \in (0 + 1)..m : First(name, i) \in tree
    BY <2>1, <2>2, <1>5
  <2> QED BY <2>1, <2>3, <1>7 DEF FoundFrom
<1>8. ASSUME NEW p \in 1..n, d[p] = "*", Agree(d, name, p - 1)
      PROVE  FoundFrom(tree, name, 0)
  <2>1. p - 1 \in 0..n /\ p - 1 \in 0..(Len(d) - 1) /\ (p - 1) + 1 = p
    BY <1>2
  <2>2. First(name, p - 1) = First(d, p - 1)
    <3>1. p - 1 \in 0..(p - 1)
      BY <2>1
    <3> QED BY <3>1, <2>1, <1>6, <1>8
  <2>3. First(d, p) = With(d, p - 1, "*")
    BY <2>1, <1>1, <1>8, FirstWith
  <2>4. With(name, p - 1, "*") \in tree
    BY <2>2, <2>3, <1>5 DEF With
  <2> QED BY <2>1, <2>4, <1>7, <1>8 DEF Ends
<1>9. ASSUME Agree(d, name, n), line.mark = "" => Len(name) = n
      PROVE  FoundFrom(tree, name, 0)
  <2>1. First(name, n) = First(d, n)
    <3>1. n \in 0..n
      BY <1>2
    <3> QED BY <3>1, <1>6, <1>9
  <2>2. Ends(tree, name, n)
    BY <2>1, <1>5, <1>9 DEF Ends, With, Last
  <2>3. n \in 0..n
    BY <1>2
  <2> QED BY <2>2, <2>3, <1>7, <1>9
<1>10. FoundFrom(tree, name, 0)
  BY <1>2, <1>3, <1>8, <1>9 DEF Means2
<1> QED BY <1>10 DEF name

\* A tree of the nodes of some lines holds the names that one of them means.
LEMMA TreeMatches ==
  ASSUME NEW L \in SUBSET RuleLines, NEW host \in Texts, NEW tree,
         tree = {<<>>} \cup UNION {Nodes(line) : line \in L}
  PROVE  InList(tree, host) <=> \E line \in L : RuleMeans(line, host)
<1> DEFINE name == Backwards(host)
<1>1. name \in Texts /\ Len(name) = Len(host)
  BY BackwardsIs
<1>2. InList(tree, host) <=> FoundFrom(tree, name, 0)
  BY InListIs
<1>3. ASSUME NEW line \in L, RuleMeans(line, host) PROVE FoundFrom(tree, name, 0)
  <2>1. Nodes(line) \subseteq tree
    OBVIOUS
  <2> QED BY <2>1, <1>3, MeansFound
<1>4. ASSUME FoundFrom(tree, name, 0) PROVE \E line \in L : RuleMeans(line, host)
  <2>1. PICK j \in 0..Len(name) : Ends(tree, name, j)
    BY <1>4 DEF FoundFrom
  <2> HIDE DEF name
  <2>2. ASSUME NEW label \in Label, With(name, j, label) \in tree
        PROVE  \E line \in L : With(name, j, label) \in Nodes(line)
    <3> DEFINE w == With(name, j, label)
    <3>0. w \in tree
      BY <2>2
    <3>1. Len(w) = j + 1 /\ j \in Nat
      <4>1. Len(name) \in Nat
        BY <1>1, TextIs
      <4>2. j \in 0..Len(name) /\ j \in Nat
        BY <4>1
      <4> QED BY <4>2, <1>1, WithIs
    <3> HIDE DEF w
    <3>2. w # <<>>
      BY <3>1
    <3>3. \E line \in L : w \in Nodes(line)
      BY <3>0, <3>2
    <3> QED BY <3>3 DEF w
  <2>3. CASE With(name, j, "*") \in tree
    <3>1. PICK line \in L : With(name, j, "*") \in Nodes(line)
      <4>1. "*" \in Label
        BY DEF Label
      <4> QED BY <4>1, <2>2, <2>3, Zenon
    <3>2. RuleMeans(line, host)
      BY <3>1, <1>1, NodeEnds DEF name
    <3> QED BY <3>2
  <2>4. CASE j = Len(name) /\ With(name, j, ".") \in tree
    <3>1. PICK line \in L : With(name, j, ".") \in Nodes(line)
      <4>1. "." \in Label
        BY DEF Label
      <4> QED BY <4>1, <2>2, <2>4, Zenon
    <3>2. RuleMeans(line, host)
      BY <3>1, <2>4, <1>1, NodeEnds DEF name
    <3> QED BY <3>2
  <2> QED BY <2>1, <2>3, <2>4 DEF Ends
<1> QED BY <1>2, <1>3, <1>4

-----------------------------------------------------------------------------
(* The trees and the lists hold what the lines say, whatever their order.   *)

\* The lines of one kind.
RulesOf(direct) == {line \in lines \cap RuleLines : line.direct = direct}
ListOf(direct) == {line \in lines \cap ListLines : line.direct = direct /\ ~line.comment}

RulesInv ==
  /\ lines \subseteq RuleLines \cup ListLines
  /\ proxyDomains = {<<>>} \cup UNION {Nodes(line) : line \in RulesOf(FALSE)}
  /\ directDomains = {<<>>} \cup UNION {Nodes(line) : line \in RulesOf(TRUE)}
  /\ proxyList = {line.labels : line \in ListOf(FALSE)}
  /\ directList = {line.labels : line \in ListOf(TRUE)}

\* At the start there are no lines.
LEMMA RulesInitInv == RulesInit => RulesInv
BY DEF RulesInit, RulesInv, RulesOf, ListOf

\* A rule is added to the lines of its kind alone.
LEMMA RuleKeeps ==
  ASSUME RulesInv, NEW line \in RuleLines, LoadLine(line)
  PROVE  RulesInv'
<1>1. line.direct \in BOOLEAN /\ line \notin ListLines
  BY LabelsOf, LinesAssumption
<1>2. \A direct \in BOOLEAN :
        /\ RulesOf(direct)' = IF line.direct = direct THEN RulesOf(direct) \cup {line}
                              ELSE RulesOf(direct)
        /\ ListOf(direct)' = ListOf(direct)
  BY <1>1 DEF LoadLine, RulesOf, ListOf
<1>3. \A tree : Loaded(line, tree) = tree \cup Nodes(line)
  BY LoadedIs
<1>4. /\ proxyDomains' = IF line.direct THEN proxyDomains ELSE proxyDomains \cup Nodes(line)
      /\ directDomains' = IF line.direct THEN directDomains \cup Nodes(line) ELSE directDomains
  BY <1>1, <1>3 DEF LoadLine
<1>5. /\ (lines \subseteq RuleLines \cup ListLines)'
      /\ proxyList' = proxyList /\ directList' = directList
  BY DEF LoadLine, RulesInv
<1>6. /\ proxyDomains' = {<<>>} \cup UNION {Nodes(l) : l \in RulesOf(FALSE)'}
      /\ directDomains' = {<<>>} \cup UNION {Nodes(l) : l \in RulesOf(TRUE)'}
  BY <1>1, <1>2, <1>4 DEF RulesInv
<1> QED BY <1>2, <1>5, <1>6 DEF RulesInv

\* So is a line of the user's lists.
LEMMA ListKeeps ==
  ASSUME RulesInv, NEW line \in ListLines, LoadList(line)
  PROVE  RulesInv'
<1>1. line.direct \in BOOLEAN /\ line.comment \in BOOLEAN /\ line \notin RuleLines
  BY LinesAssumption
<1>2. \A direct \in BOOLEAN :
        /\ RulesOf(direct)' = RulesOf(direct)
        /\ ListOf(direct)' = IF line.direct = direct /\ ~line.comment THEN ListOf(direct) \cup {line}
                             ELSE ListOf(direct)
  BY <1>1 DEF LoadList, RulesOf, ListOf
<1>3. /\ proxyList' = IF line.direct \/ line.comment THEN proxyList ELSE proxyList \cup {line.labels}
      /\ directList' = IF ~line.direct \/ line.comment THEN directList ELSE directList \cup {line.labels}
      /\ proxyDomains' = proxyDomains /\ directDomains' = directDomains
      /\ (lines \subseteq RuleLines \cup ListLines)'
  BY <1>1 DEF LoadList, RulesInv
<1>4. /\ proxyList' = {l.labels : l \in ListOf(FALSE)'}
      /\ directList' = {l.labels : l \in ListOf(TRUE)'}
  BY <1>1, <1>2, <1>3 DEF RulesInv
<1> QED BY <1>2, <1>3, <1>4 DEF RulesInv

\* What the trees and the lists hold is what the lines mean.
LEMMA RulesDecide == RulesInv => RulesMatch
<1> SUFFICES ASSUME RulesInv, NEW host \in Hosts
             PROVE  /\ Accepts(host) <=> \E line \in lines : ~line.direct /\ Means(line, host)
                    /\ Denies(host) <=> \E line \in lines : line.direct /\ Means(line, host)
  BY DEF RulesMatch
<1>1. host \in Texts
  BY LinesAssumption, TextsOf
<1>2. /\ RulesOf(FALSE) \in SUBSET RuleLines /\ RulesOf(TRUE) \in SUBSET RuleLines
      /\ RuleLines \cap ListLines = {}
      /\ \A line \in lines : line.direct \in BOOLEAN
  BY LinesAssumption DEF RulesOf, RulesInv
<1>3. InList(proxyDomains, host) <=> \E line \in RulesOf(FALSE) : RuleMeans(line, host)
  BY <1>1, <1>2, TreeMatches DEF RulesInv
<1>4. InList(directDomains, host) <=> \E line \in RulesOf(TRUE) : RuleMeans(line, host)
  BY <1>1, <1>2, TreeMatches DEF RulesInv
<1>5. /\ host \in proxyList <=> \E line \in ListOf(FALSE) : line.labels = host
      /\ host \in directList <=> \E line \in ListOf(TRUE) : line.labels = host
  BY DEF RulesInv
<1>6. /\ lines \subseteq RuleLines \cup ListLines
      /\ \A line \in lines : line \in ListLines => line \notin RuleLines
  BY <1>2 DEF RulesInv
<1>7. Accepts(host) <=> \E line \in lines : ~line.direct /\ Means(line, host)
  BY <1>2, <1>3, <1>5, <1>6 DEF Accepts, Means, RulesOf, ListOf
<1>8. Denies(host) <=> \E line \in lines : line.direct /\ Means(line, host)
  BY <1>2, <1>4, <1>5, <1>6 DEF Denies, Means, RulesOf, ListOf
<1> QED BY <1>7, <1>8

\* A name is accepted or denied exactly when one of the lines loaded says so, for any
\* lines and names, in whatever order the lines come: the trees of DomainRules::_add,
\* with the nodes they share, and the walk of _inList.
THEOREM LinesDecide == RulesSpec => []RulesMatch
<1>1. RulesInv /\ [RulesNext]_ruleVars => RulesInv'
  <2> SUFFICES ASSUME RulesInv, [RulesNext]_ruleVars PROVE RulesInv'
    OBVIOUS
  <2>1. CASE \E line \in RuleLines : LoadLine(line)
    BY <2>1, RuleKeeps
  <2>2. CASE \E line \in ListLines : LoadList(line)
    BY <2>2, ListKeeps
  <2>3. CASE UNCHANGED ruleVars
    BY <2>3 DEF ruleVars, RulesInv, RulesOf, ListOf
  <2> QED BY <2>1, <2>2, <2>3 DEF RulesNext
<1> QED BY <1>1, RulesInitInv, RulesDecide, PTL DEF RulesSpec
-----------------------------------------------------------------------------
(* The map.  under says which items stand in the tree below each item, that *)
(* one included.                                                            *)

Side == {"l", "r"}
Node == Items \cup {NULL}
Trees == [root : Node, kid : [Side -> [Items -> Node]], p : [Items -> Node],
          height : [Items -> Nat], size : Int, aborted : BOOLEAN]
Unders == [Items -> SUBSET Items]

Under(under, c) == IF c = NULL THEN {} ELSE under[c]

\* Item y may stand at side s of x.
Ordered(s, y, x) == IF s = "l" THEN Key[y] <= Key[x] ELSE Key[x] <= Key[y]

\* An item and its kids.
Linked(t, under, x) ==
  /\ under[x] = {x} \cup Under(under, t.kid["l"][x]) \cup Under(under, t.kid["r"][x])
  /\ Under(under, t.kid["l"][x]) \cap Under(under, t.kid["r"][x]) = {}
  /\ \A s \in Side :
       /\ t.kid[s][x] # NULL => t.p[t.kid[s][x]] = x /\ t.kid[s][x] \in under[t.kid[s][x]]
       /\ x \notin Under(under, t.kid[s][x])
       /\ \A y \in Under(under, t.kid[s][x]) : Ordered(s, y, x)

Even(t, x) ==
  /\ HeightOf(t, t.kid["l"][x]) - HeightOf(t, t.kid["r"][x]) \in -1..1
  /\ t.height[x] = Higher(HeightOf(t, t.kid["l"][x]), HeightOf(t, t.kid["r"][x])) + 1

\* What stands below an item has all that is below itself, and its parent, there as well.
Closed(t, under, x) ==
  \A y \in under[x] :
    /\ under[y] \subseteq under[x] /\ t.height[y] <= t.height[x]
    /\ y # x => t.p[y] \in under[x] /\ \E s \in Side : t.kid[s][t.p[y]] = y

Tree(t, under, c) ==
  c # NULL =>
    /\ c \in Items /\ c \in under[c]
    /\ \A x \in under[c] : Linked(t, under, x) /\ Even(t, x) /\ Closed(t, under, x)

\* An item outside the tree.
Loose(t, x) == t.p[x] = NULL /\ t.height[x] = 0 /\ \A s \in Side : t.kid[s][x] = NULL

Whole(t, under, S) ==
  /\ t \in Trees /\ under \in Unders /\ S \subseteq Items
  /\ Tree(t, under, t.root) /\ Under(under, t.root) = S
  /\ t.root # NULL => t.p[t.root] = NULL
  /\ \A x \in Items \ S : Loose(t, x)
  /\ IsFiniteSet(S) /\ t.size = Cardinality(S) /\ ~t.aborted

MapInv == \E under \in Unders : Whole(avl, under, members)

\* The operators that set a field.
KidSet(t, n, s, c, r) ==
  /\ r \in Trees /\ r.root = t.root /\ r.p = t.p /\ r.height = t.height
  /\ r.size = t.size /\ r.aborted = t.aborted
  /\ \A q \in Side : \A x \in Items : r.kid[q][x] = IF q = s /\ x = n THEN c ELSE t.kid[q][x]

ParentSet(t, n, c, r) ==
  /\ r \in Trees /\ r.root = t.root /\ r.kid = t.kid /\ r.height = t.height
  /\ r.size = t.size /\ r.aborted = t.aborted
  /\ \A x \in Items : r.p[x] = IF x = n THEN c ELSE t.p[x]

HeightSet(t, n, r) ==
  /\ r \in Trees /\ r.root = t.root /\ r.kid = t.kid /\ r.p = t.p
  /\ r.size = t.size /\ r.aborted = t.aborted
  /\ \A x \in Items : r.height[x] =
       IF x = n THEN Higher(HeightOf(t, t.kid["l"][n]), HeightOf(t, t.kid["r"][n])) + 1
       ELSE t.height[x]

\* What SetKid does to the fields.
LEMMA SetKidIs ==
  ASSUME NEW t \in Trees, NEW n \in Items, NEW s \in Side, NEW c \in Node
  PROVE  KidSet(t, n, s, c, SetKid(t, n, s, c))
BY DEF SetKid, KidSet, Trees

\* What SetParent does to the fields.
LEMMA SetParentIs ==
  ASSUME NEW t \in Trees, NEW n \in Node, NEW c \in Node
  PROVE  ParentSet(t, n, c, SetParent(t, n, c))
BY MapAssumption DEF SetParent, ParentSet, Trees, Node

\* The height of a reference, NULL included.
LEMMA HeightIs ==
  ASSUME NEW t \in Trees, NEW n \in Node
  PROVE  HeightOf(t, n) \in Nat /\ (n = NULL => HeightOf(t, n) = 0)
         /\ (n # NULL => HeightOf(t, n) = t.height[n])
BY DEF HeightOf, Trees, Node

\* What SetHeight does to the fields.
LEMMA SetHeightIs ==
  ASSUME NEW t \in Trees, NEW n \in Items
  PROVE  HeightSet(t, n, SetHeight(t, n))
<1>1. t.kid["l"][n] \in Node /\ t.kid["r"][n] \in Node
  BY DEF Trees, Side
<1>2. Higher(HeightOf(t, t.kid["l"][n]), HeightOf(t, t.kid["r"][n])) + 1 \in Nat
  BY <1>1, HeightIs DEF Higher
<1> QED BY <1>2 DEF SetHeight, HeightSet, Trees

\* What Abort does to the fields.
LEMMA AbortIs ==
  ASSUME NEW t \in Trees, NEW condition \in BOOLEAN, NEW r, r = Abort(t, condition)
  PROVE  /\ r \in Trees /\ r.root = t.root /\ r.kid = t.kid /\ r.p = t.p
         /\ r.height = t.height /\ r.size = t.size /\ r.aborted = (t.aborted \/ condition)
BY DEF Abort, Trees

\* An item has two sides.
LEMMA Others ==
  ASSUME NEW s \in Side
  PROVE  /\ Other(s) \in Side /\ Other(s) # s /\ Other(Other(s)) = s /\ Side = {s, Other(s)}
         /\ \A q \in Side : q = s \/ q = Other(s)
BY DEF Other, Side

\* The fields of an item.
LEMMA Kids ==
  ASSUME NEW t \in Trees, NEW x \in Items, NEW s \in Side
  PROVE  t.kid[s][x] \in Node /\ t.p[x] \in Node /\ t.height[x] \in Nat
BY DEF Trees

\* The greater one does not depend on the side.
LEMMA Greater ==
  ASSUME NEW a \in Int, NEW b \in Int
  PROVE  Higher(a, b) = Higher(b, a) /\ Higher(a, b) \in {a, b}
         /\ Higher(a, b) >= a /\ Higher(a, b) >= b
BY DEF Higher

\* What Rotate does to the fields.
Rotated(t, x, root, s, o, up, inner, outer, beside) ==
  /\ x.root = up /\ x.t \in Trees
  /\ x.t.root = t.root /\ x.t.size = t.size /\ x.t.aborted = t.aborted
  /\ \A q \in Side : \A i \in Items :
       x.t.kid[q][i] = IF q = s /\ i = root THEN inner
                       ELSE IF q = o /\ i = up THEN root ELSE t.kid[q][i]
  /\ \A i \in Items :
       x.t.p[i] = IF i = root THEN up ELSE IF i = up THEN t.p[root]
                  ELSE IF i = inner THEN root ELSE t.p[i]
  /\ \A i \in Items \ {root, up} : x.t.height[i] = t.height[i]
  /\ x.t.height[root] = Higher(HeightOf(t, inner), HeightOf(t, beside)) + 1
  /\ x.t.height[up] = Higher(HeightOf(t, outer), x.t.height[root]) + 1

\* It does so where the items it touches are different ones.
LEMMA RotateIs ==
  ASSUME NEW t \in Trees, NEW root \in Items, NEW s \in Side, NEW o \in Side,
         NEW up \in Items, NEW inner \in Node, NEW outer \in Node, NEW beside \in Node,
         NEW x
  PROVE  /\ o = Other(s) /\ t.kid[s][root] = up /\ t.kid[o][root] = beside
         /\ t.kid[o][up] = inner /\ t.kid[s][up] = outer
         /\ up # root /\ inner \notin {root, up} /\ outer \notin {root, up} /\ beside \notin {root, up}
         /\ x = Rotate(t, root, s)
         => Rotated(t, x, root, s, o, up, inner, outer, beside)
<1>h. SUFFICES ASSUME o = Other(s), t.kid[s][root] = up, t.kid[o][root] = beside,
                      t.kid[o][up] = inner, t.kid[s][up] = outer,
                      up # root, inner \notin {root, up}, outer \notin {root, up},
                      beside \notin {root, up}, x = Rotate(t, root, s)
              PROVE  Rotated(t, x, root, s, o, up, inner, outer, beside)
  OBVIOUS
<1>a. PICK a : a = SetParent(t, inner, root)
  OBVIOUS
<1>b. PICK b : b = SetKid(a, root, s, inner)
  OBVIOUS
<1>c. PICK c : c = SetHeight(b, root)
  OBVIOUS
<1>d. PICK d : d = SetKid(c, up, o, root)
  OBVIOUS
<1>e. PICK e : e = SetHeight(d, up)
  OBVIOUS
<1>f. PICK f : f = SetParent(e, up, e.p[root])
  OBVIOUS
<1>g. PICK g : g = SetParent(f, root, up)
  OBVIOUS
<1>0. x = [t |-> g, root |-> up]
  BY <1>a, <1>b, <1>c, <1>d, <1>e, <1>f, <1>g, <1>h DEF Rotate
<1>1. o \in Side /\ o # s /\ \A q \in Side : q = s \/ q = o
  BY <1>h, Others
<1>2. root \in Node /\ up \in Node
  BY DEF Node
<1>3. ParentSet(t, inner, root, a)
  BY <1>a, <1>2, SetParentIs
<1>4. KidSet(a, root, s, inner, b)
  BY <1>b, <1>3, SetKidIs DEF ParentSet
<1>5. HeightSet(b, root, c)
  BY <1>c, <1>4, SetHeightIs DEF KidSet
<1>6. KidSet(c, up, o, root, d)
  BY <1>d, <1>2, <1>5, SetKidIs DEF HeightSet
<1>7. HeightSet(d, up, e)
  BY <1>e, <1>6, SetHeightIs DEF KidSet
<1>8. ParentSet(e, up, e.p[root], f)
  <2>1. e \in Trees
    BY <1>7 DEF HeightSet
  <2>2. e.p[root] \in Node
    BY <2>1, Kids DEF Side
  <2> QED BY <1>f, <2>1, <2>2, <1>2, SetParentIs
<1>9. ParentSet(f, root, up, g)
  <2>1. f \in Trees
    BY <1>8 DEF ParentSet
  <2> QED BY <1>g, <2>1, <1>2, SetParentIs
<1>10. ASSUME NEW y \in Trees, NEW z \in Trees, NEW n \in Node,
              n # NULL => y.height[n] = z.height[n]
       PROVE  HeightOf(y, n) = HeightOf(z, n)
  BY <1>10 DEF HeightOf
<1>11. ASSUME NEW y \in Trees, NEW i \in Items
       PROVE  Higher(HeightOf(y, y.kid["l"][i]), HeightOf(y, y.kid["r"][i]))
              = Higher(HeightOf(y, y.kid[s][i]), HeightOf(y, y.kid[o][i]))
  <2>1. y.kid["l"][i] \in Node /\ y.kid["r"][i] \in Node
    BY Kids DEF Side
  <2>2. HeightOf(y, y.kid["l"][i]) \in Int /\ HeightOf(y, y.kid["r"][i]) \in Int
    BY <2>1, HeightIs
  <2>3. (s = "l" /\ o = "r") \/ (s = "r" /\ o = "l")
    BY <1>h DEF Side, Other
  <2> QED BY <2>2, <2>3, Greater
<1>12. b.kid[s][root] = inner /\ b.kid[o][root] = beside
  BY <1>h, <1>1, <1>3, <1>4 DEF ParentSet, KidSet, HeightSet
<1>13. HeightOf(b, inner) = HeightOf(t, inner) /\ HeightOf(b, beside) = HeightOf(t, beside)
  BY <1>2, <1>3, <1>4, <1>10 DEF ParentSet, KidSet, HeightSet
<1>14. c.height[root] = Higher(HeightOf(t, inner), HeightOf(t, beside)) + 1
  BY <1>4, <1>5, <1>11, <1>12, <1>13 DEF ParentSet, KidSet, HeightSet
<1>15. d.kid[s][up] = outer /\ d.kid[o][up] = root
  BY <1>h, <1>1, <1>3, <1>4, <1>5, <1>6 DEF ParentSet, KidSet, HeightSet
<1>16. HeightOf(d, outer) = HeightOf(t, outer)
  <2>1. outer # NULL => outer \in Items /\ d.height[outer] = t.height[outer]
    BY <1>h, <1>2, <1>3, <1>4, <1>5, <1>6 DEF ParentSet, KidSet, HeightSet, Node
  <2> QED BY <2>1, <1>2, <1>6, <1>10 DEF ParentSet, KidSet, HeightSet
<1>17. HeightOf(d, root) = c.height[root]
  BY <1>6, MapAssumption DEF ParentSet, KidSet, HeightSet, HeightOf
<1>18. e.height[up] = Higher(HeightOf(t, outer), c.height[root]) + 1
  BY <1>6, <1>7, <1>11, <1>15, <1>16, <1>17 DEF ParentSet, KidSet, HeightSet
<1>19. g.height[root] = c.height[root] /\ g.height[up] = e.height[up]
  BY <1>h, <1>6, <1>7, <1>8, <1>9 DEF ParentSet, KidSet, HeightSet
<1>20. \A q \in Side : \A i \in Items :
         g.kid[q][i] = IF q = s /\ i = root THEN inner
                       ELSE IF q = o /\ i = up THEN root ELSE t.kid[q][i]
  BY <1>h, <1>1, <1>3, <1>4, <1>5, <1>6, <1>7, <1>8, <1>9 DEF ParentSet, KidSet, HeightSet
<1>21. \A i \in Items : g.p[i] = IF i = root THEN up ELSE IF i = up THEN t.p[root]
                                ELSE IF i = inner THEN root ELSE t.p[i]
  BY <1>h, <1>3, <1>4, <1>5, <1>6, <1>7, <1>8, <1>9 DEF ParentSet, KidSet, HeightSet
<1>22. \A i \in Items \ {root, up} : g.height[i] = t.height[i]
  BY <1>h, <1>3, <1>4, <1>5, <1>6, <1>7, <1>8, <1>9 DEF ParentSet, KidSet, HeightSet
<1>23. g.root = t.root /\ g.size = t.size /\ g.aborted = t.aborted
  BY <1>3, <1>4, <1>5, <1>6, <1>7, <1>8, <1>9 DEF ParentSet, KidSet, HeightSet
<1>24. x.t = g /\ x.root = up
  BY <1>0
<1> QED BY <1>9, <1>14, <1>18, <1>19, <1>20, <1>21, <1>22, <1>23, <1>24 DEF ParentSet, KidSet, HeightSet, Rotated

\* An item and its kids, a at side s and b at the other one.
Joint(t, under, x, s, a, b) ==
  /\ under[x] = {x} \cup Under(under, a) \cup Under(under, b)
  /\ Under(under, a) \cap Under(under, b) = {} /\ x \notin Under(under, a) /\ x \notin Under(under, b)
  /\ a # NULL => t.p[a] = x /\ a \in under[a]
  /\ b # NULL => t.p[b] = x /\ b \in under[b]
  /\ \A y \in Under(under, a) : Ordered(s, y, x)
  /\ \A y \in Under(under, b) : Ordered(Other(s), y, x)

\* Linked, read from either side.
LEMMA JointIs ==
  ASSUME NEW t, NEW under, NEW x, NEW s \in Side
  PROVE  Linked(t, under, x) <=> Joint(t, under, x, s, t.kid[s][x], t.kid[Other(s)][x])
<1>1. CASE s = "l"
  BY <1>1 DEF Linked, Joint, Other, Side
<1>2. CASE s = "r"
  BY <1>2 DEF Linked, Joint, Other, Side
<1> QED BY <1>1, <1>2 DEF Side

\* The heights, seen from side s.
LEMMA EvenIs ==
  ASSUME NEW t \in Trees, NEW x \in Items, NEW s \in Side,
         NEW a, NEW b
  PROVE  t.kid[s][x] = a /\ t.kid[Other(s)][x] = b =>
           (Even(t, x) <=> /\ HeightOf(t, a) - HeightOf(t, b) \in -1..1
                           /\ t.height[x] = Higher(HeightOf(t, a), HeightOf(t, b)) + 1)
<1>1. SUFFICES ASSUME t.kid[s][x] = a, t.kid[Other(s)][x] = b
               PROVE  Even(t, x) <=> /\ HeightOf(t, a) - HeightOf(t, b) \in -1..1
                                     /\ t.height[x] = Higher(HeightOf(t, a), HeightOf(t, b)) + 1
  OBVIOUS
<1>2. HeightOf(t, a) \in Nat /\ HeightOf(t, b) \in Nat
  BY <1>1, Others, Kids, HeightIs
<1>3. Higher(HeightOf(t, a), HeightOf(t, b)) = Higher(HeightOf(t, b), HeightOf(t, a))
  BY <1>2, Greater
<1>4. CASE s = "l"
  BY <1>1, <1>4 DEF Even, Other
<1>5. CASE s = "r"
  <2>1. t.kid["r"][x] = a /\ t.kid["l"][x] = b
    BY <1>1, <1>5 DEF Other
  <2> QED BY <2>1, <1>2, <1>3 DEF Even
<1> QED BY <1>4, <1>5 DEF Side

\* What stands under a reference.
LEMMA UnderIs ==
  ASSUME NEW under \in Unders, NEW c \in Node
  PROVE  /\ Under(under, c) \subseteq Items
         /\ (c = NULL => Under(under, c) = {}) /\ (c # NULL => Under(under, c) = under[c])
BY DEF Under, Unders, Node

\* The kids of a tree's top are trees.
LEMMA KidTree ==
  ASSUME NEW t \in Trees, NEW under \in Unders, NEW c \in Items, NEW s \in Side, NEW k,
         k = t.kid[s][c], Tree(t, under, c)
  PROVE  /\ Tree(t, under, k) /\ Under(under, k) \subseteq under[c] /\ c \notin Under(under, k)
         /\ k # NULL => k \in Items /\ k \in under[k] /\ t.p[k] = c
<1>0. k \in Node
  BY Kids
<1>1. Linked(t, under, c) /\ c \in under[c]
  BY MapAssumption DEF Tree
<1>2. Joint(t, under, c, s, k, t.kid[Other(s)][c])
  BY <1>1, JointIs
<1>3. Under(under, k) \subseteq under[c]
  BY <1>2 DEF Joint
<1>4. ASSUME k # NULL PROVE k \in Items /\ k \in under[k] /\ t.p[k] = c /\ under[k] \subseteq under[c]
  BY <1>0, <1>2, <1>3, <1>4, UnderIs DEF Joint, Node
<1>5. Tree(t, under, k)
  BY <1>4, MapAssumption DEF Tree
<1> QED BY <1>2, <1>3, <1>4, <1>5 DEF Joint

\* A tree is the same where nothing of it has changed but its place.
Untouched(t, under, t2, under2, c) ==
  \A x \in Under(under, c) :
    /\ under2[x] = under[x] /\ t2.height[x] = t.height[x]
    /\ \A s \in Side : t2.kid[s][x] = t.kid[s][x]
    /\ x # c => t2.p[x] = t.p[x]

\* A tree none of whose items has changed is the same tree.
LEMMA SameTree ==
  ASSUME NEW t \in Trees, NEW under \in Unders, NEW t2 \in Trees, NEW under2 \in Unders,
         NEW c \in Node, Tree(t, under, c), Untouched(t, under, t2, under2, c)
  PROVE  /\ Tree(t2, under2, c) /\ Under(under2, c) = Under(under, c)
         /\ HeightOf(t2, c) = HeightOf(t, c)
<1>1. CASE c = NULL
  BY <1>1 DEF Tree, Under, HeightOf
<1>2. CASE c # NULL
  <2>1. /\ c \in Items /\ c \in under[c] /\ Under(under, c) = under[c] /\ under[c] \subseteq Items
        /\ \A x \in under[c] : Linked(t, under, x) /\ Even(t, x) /\ Closed(t, under, x)
    BY <1>2, UnderIs DEF Tree
  <2>2. \A x \in under[c] : /\ under2[x] = under[x] /\ t2.height[x] = t.height[x]
                            /\ \A s \in Side : t2.kid[s][x] = t.kid[s][x]
                            /\ x # c => t2.p[x] = t.p[x]
    BY <2>1 DEF Untouched
  <2>3. ASSUME NEW x \in under[c], NEW s \in Side, NEW k, k = t.kid[s][x], k # NULL
        PROVE  /\ k \in under[c] /\ k # c /\ Under(under2, k) = Under(under, k)
               /\ HeightOf(t2, k) = HeightOf(t, k)
    <3>1. Joint(t, under, x, s, k, t.kid[Other(s)][x])
      BY <2>1, <2>3, JointIs
    <3>2. Under(under, k) = under[k] /\ Under(under2, k) = under2[k]
      BY <2>3 DEF Under
    <3>3. k \in under[k] /\ under[k] \subseteq under[x] /\ x \notin under[k]
      BY <2>3, <3>1, <3>2 DEF Joint
    <3>4. under[x] \subseteq under[c]
      BY <2>1 DEF Closed
    <3>5. k \in under[c] /\ k # c
      BY <3>3, <3>4
    <3> QED BY <3>2, <3>5, <2>2 DEF HeightOf
  <2>4. ASSUME NEW x \in under[c] PROVE Linked(t2, under2, x)
    <3> DEFINE l == t.kid["l"][x]
               r == t.kid["r"][x]
    <3>1. Linked(t, under, x)
      BY <2>1
    <3>2. Joint(t, under, x, "l", l, r)
      BY <3>1, JointIs DEF Side, Other
    <3>3. t2.kid["l"][x] = l /\ t2.kid["r"][x] = r /\ under2[x] = under[x]
      BY <2>2 DEF Side
    <3>4. Under(under2, l) = Under(under, l)
      <4>1. l = NULL => Under(under2, l) = Under(under, l)
        BY DEF Under
      <4> QED BY <4>1, <2>3 DEF Side
    <3>5. Under(under2, r) = Under(under, r)
      <4>1. r = NULL => Under(under2, r) = Under(under, r)
        BY DEF Under
      <4> QED BY <4>1, <2>3 DEF Side
    <3>6. l # NULL => l \in under[c] /\ l # c
      BY <2>3 DEF Side
    <3>7. r # NULL => r \in under[c] /\ r # c
      BY <2>3 DEF Side
    <3> HIDE DEF l, r
    <3>8. l # NULL => t2.p[l] = t.p[l] /\ under2[l] = under[l]
      BY <3>6, <2>2
    <3>9. r # NULL => t2.p[r] = t.p[r] /\ under2[r] = under[r]
      BY <3>7, <2>2
    <3>10. Joint(t2, under2, x, "l", l, r)
      BY <3>2, <3>3, <3>4, <3>5, <3>8, <3>9 DEF Joint
    <3> QED BY <3>3, <3>10, JointIs DEF Side, Other
  <2>5. ASSUME NEW x \in under[c] PROVE Even(t2, x)
    <3>1. \A s \in Side : HeightOf(t2, t.kid[s][x]) = HeightOf(t, t.kid[s][x])
      <4>1. \A s \in Side : t.kid[s][x] = NULL => HeightOf(t2, t.kid[s][x]) = HeightOf(t, t.kid[s][x])
        BY DEF HeightOf
      <4> QED BY <4>1, <2>3
    <3> QED BY <3>1, <2>1, <2>2 DEF Even, Side
  <2>6. ASSUME NEW x \in under[c], NEW y \in under[x]
        PROVE  /\ under2[y] \subseteq under2[x] /\ t2.height[y] <= t2.height[x]
               /\ y # x => t2.p[y] \in under2[x] /\ \E s \in Side : t2.kid[s][t2.p[y]] = y
    <3>1. Closed(t, under, x) /\ under[x] \subseteq under[c] /\ y \in under[c]
      BY <2>1 DEF Closed
    <3>2. under2[y] = under[y] /\ under2[x] = under[x] /\ t2.height[y] = t.height[y]
          /\ t2.height[x] = t.height[x]
      BY <3>1, <2>2
    <3>3. under[y] \subseteq under[x] /\ t.height[y] <= t.height[x]
      BY <3>1 DEF Closed
    <3>4. ASSUME y # x PROVE t2.p[y] \in under2[x] /\ \E s \in Side : t2.kid[s][t2.p[y]] = y
      <4>1. PICK s \in Side : t.p[y] \in under[x] /\ t.kid[s][t.p[y]] = y
        BY <3>1, <3>4 DEF Closed
      <4>2. y # NULL /\ t.p[y] \in under[c]
        BY <3>1, <4>1, <2>1, MapAssumption
      <4>3. y # c
        BY <2>3, <4>1, <4>2
      <4> QED BY <4>1, <4>2, <4>3, <3>1, <3>2, <2>2
    <3> QED BY <3>2, <3>3, <3>4
  <2>7. \A x \in under[c] : Closed(t2, under2, x)
    BY <2>2, <2>6 DEF Closed
  <2>8. Tree(t2, under2, c)
    BY <2>1, <2>2, <2>4, <2>5, <2>7 DEF Tree
  <2> QED BY <2>1, <2>2, <2>8, <1>2 DEF Under, HeightOf
<1> QED BY <1>1, <1>2

\* An item whose kids are trees, in order and of near heights, is the top of a tree.
LEMMA Joined ==
  ASSUME NEW t \in Trees, NEW under \in Unders, NEW c \in Items, Linked(t, under, c), Even(t, c),
         \A s \in Side : Tree(t, under, t.kid[s][c])
  PROVE  Tree(t, under, c)
<1>1. c # NULL /\ c \in under[c]
  BY MapAssumption DEF Linked
<1>2. \A s \in Side : t.kid[s][c] \in Node
  BY Kids
<1>3. ASSUME NEW y \in under[c], y # c
      PROVE  \E s \in Side : t.kid[s][c] # NULL /\ y \in under[t.kid[s][c]]
  <2>1. y \in Under(under, t.kid["l"][c]) \/ y \in Under(under, t.kid["r"][c])
    BY <1>3 DEF Linked
  <2> QED BY <2>1 DEF Under, Side
<1>4. ASSUME NEW s \in Side, NEW k, k = t.kid[s][c], k # NULL
      PROVE  /\ k \in Items /\ k \in under[k] /\ under[k] \subseteq under[c] /\ t.p[k] = c
             /\ t.height[k] <= t.height[c] /\ Closed(t, under, k)
             /\ \A y \in under[k] : Linked(t, under, y) /\ Even(t, y) /\ Closed(t, under, y)
  <2>1. Joint(t, under, c, s, k, t.kid[Other(s)][c])
    BY <1>4, JointIs
  <2>2. /\ k \in Items /\ k \in under[k]
        /\ \A y \in under[k] : Linked(t, under, y) /\ Even(t, y) /\ Closed(t, under, y)
    BY <1>4 DEF Tree
  <2>3. under[k] \subseteq under[c] /\ t.p[k] = c
    BY <2>1, <1>4 DEF Joint, Under
  <2>4. t.height[k] <= t.height[c]
    <3>1. /\ HeightOf(t, k) = t.height[k] /\ HeightOf(t, k) \in Nat
          /\ HeightOf(t, t.kid[Other(s)][c]) \in Nat
      BY <1>2, <1>4, Others, HeightIs
    <3>2. t.height[c] = Higher(HeightOf(t, k), HeightOf(t, t.kid[Other(s)][c])) + 1
      BY <1>4, EvenIs
    <3> QED BY <3>1, <3>2, Greater DEF Higher
  <2> QED BY <2>2, <2>3, <2>4
<1>5. ASSUME NEW y \in under[c]
      PROVE  /\ under[y] \subseteq under[c] /\ t.height[y] <= t.height[c]
             /\ y # c => t.p[y] \in under[c] /\ \E s \in Side : t.kid[s][t.p[y]] = y
  <2>1. CASE y = c
    BY <2>1, Kids DEF Side
  <2>2. CASE y # c
    <3>1. PICK s \in Side : t.kid[s][c] # NULL /\ y \in under[t.kid[s][c]]
      BY <2>2, <1>3
    <3>2. PICK k \in Items : k = t.kid[s][c] /\ k # NULL
      BY <3>1, <1>4
    <3>3. /\ under[k] \subseteq under[c] /\ t.p[k] = c
          /\ t.height[k] <= t.height[c] /\ Closed(t, under, k)
      BY <3>2, <1>4
    <3>4. y \in under[k] /\ y \in Items
      BY <3>1, <3>2 DEF Unders
    <3>5. under[y] \subseteq under[c] /\ t.height[y] <= t.height[c]
      <4>1. under[y] \subseteq under[k] /\ t.height[y] <= t.height[k]
        BY <3>3, <3>4 DEF Closed
      <4>2. t.height[y] \in Nat /\ t.height[k] \in Nat /\ t.height[c] \in Nat
        BY <3>4, Kids DEF Side
      <4> QED BY <4>1, <4>2, <3>3
    <3>6. t.p[y] \in under[c] /\ \E q \in Side : t.kid[q][t.p[y]] = y
      <4>1. CASE y = k
        BY <4>1, <3>2, <3>3, <1>1
      <4>2. CASE y # k
        BY <4>2, <3>3, <3>4 DEF Closed
      <4> QED BY <4>1, <4>2
    <3> QED BY <3>5, <3>6
  <2> QED BY <2>1, <2>2
<1>6. Closed(t, under, c)
  BY <1>5 DEF Closed
<1>7. \A y \in under[c] : Linked(t, under, y) /\ Even(t, y) /\ Closed(t, under, y)
  BY <1>3, <1>4, <1>6
<1> QED BY <1>1, <1>7 DEF Tree

\* Nothing outside S has changed.
Beyond(t, u, t2, u2, S) ==
  /\ t2.root = t.root /\ t2.aborted = t.aborted
  /\ \A y \in Items \ S : /\ u2[y] = u[y] /\ t2.height[y] = t.height[y] /\ t2.p[y] = t.p[y]
                          /\ \A q \in Side : t2.kid[q][y] = t.kid[q][y]

\* What leaves alone all outside a set, twice, does so for any set that holds both.
LEMMA BeyondIs ==
  ASSUME NEW t, NEW u, NEW t2, NEW u2, NEW t3, NEW u3, NEW S \in SUBSET Items, NEW S2 \in SUBSET Items,
         NEW S3 \in SUBSET Items, S \subseteq S3, S2 \subseteq S3,
         Beyond(t, u, t2, u2, S), Beyond(t2, u2, t3, u3, S2)
  PROVE  Beyond(t, u, t3, u3, S3)
BY DEF Beyond

\* The order of the keys, from either side.
LEMMA OrderIs ==
  ASSUME NEW s \in Side, NEW a \in Items, NEW b \in Items
  PROVE  /\ Ordered(Other(s), a, b) <=> Ordered(s, b, a)
         /\ Key[a] \in Int
         /\ \A c \in Items : Ordered(s, a, b) /\ Ordered(s, b, c) => Ordered(s, a, c)
BY MapAssumption DEF Ordered, Other, Side

Turned(t, u, x, v, root, s, o, up, inner, outer, beside) ==
  /\ Rotated(t, x, root, s, o, up, inner, outer, beside) /\ v \in Unders
  /\ Linked(x.t, v, root) /\ Linked(x.t, v, up) /\ v[up] = u[root]
  /\ \A c \in {inner, outer, beside} :
       Tree(x.t, v, c) /\ Under(v, c) = Under(u, c) /\ HeightOf(x.t, c) = HeightOf(t, c)
  /\ Beyond(t, u, x.t, v, u[root]) /\ x.t.size = t.size

\* A rotation keeps the order and what stands under each of the three.
LEMMA RotateTree ==
  ASSUME NEW t \in Trees, NEW u \in Unders, NEW root \in Items, NEW s \in Side, NEW o \in Side,
         NEW up \in Items, NEW inner \in Node, NEW outer \in Node, NEW beside \in Node,
         NEW x
  PROVE  /\ o = Other(s) /\ t.kid[s][root] = up /\ t.kid[o][root] = beside
         /\ t.kid[o][up] = inner /\ t.kid[s][up] = outer
         /\ Linked(t, u, root) /\ Linked(t, u, up)
         /\ Tree(t, u, inner) /\ Tree(t, u, outer) /\ Tree(t, u, beside)
         /\ x = Rotate(t, root, s)
         => \E v \in Unders : Turned(t, u, x, v, root, s, o, up, inner, outer, beside)
<1>h. SUFFICES ASSUME o = Other(s), t.kid[s][root] = up, t.kid[o][root] = beside,
                      t.kid[o][up] = inner, t.kid[s][up] = outer,
                      Linked(t, u, root), Linked(t, u, up),
                      Tree(t, u, inner), Tree(t, u, outer), Tree(t, u, beside),
                      x = Rotate(t, root, s)
               PROVE  \E v \in Unders : Turned(t, u, x, v, root, s, o, up, inner, outer, beside)
  OBVIOUS
<1>1. o # s /\ \A q \in Side : q = s \/ q = o
  BY <1>h, Others
<1>2. Joint(t, u, root, s, up, beside) /\ Joint(t, u, up, s, outer, inner)
  BY <1>h, JointIs
<1>n. up # NULL /\ root # NULL
  BY MapAssumption
<1>3. PICK P \in SUBSET Items : P = Under(u, inner)
  BY UnderIs
<1>4. PICK Q \in SUBSET Items : Q = Under(u, outer)
  BY UnderIs
<1>5. PICK R \in SUBSET Items : R = Under(u, beside)
  BY UnderIs
<1>6. /\ u[up] = {up} \cup Q \cup P /\ u[root] = {root} \cup u[up] \cup R
      /\ P \cap Q = {} /\ up \notin P /\ up \notin Q /\ root \notin P /\ root \notin Q /\ up # root
      /\ root \notin R /\ up \notin R /\ P \cap R = {} /\ Q \cap R = {}
  <2>1. u[up] = {up} \cup Q \cup P /\ P \cap Q = {} /\ up \notin P /\ up \notin Q
    BY <1>2, <1>3, <1>4 DEF Joint
  <2>2. u[root] = {root} \cup u[up] \cup R /\ u[up] \cap R = {} /\ root \notin u[up] /\ root \notin R
    BY <1>2, <1>n, <1>5 DEF Joint, Under
  <2> QED BY <2>1, <2>2
<1>7. /\ inner # NULL => inner \in P /\ inner \in Items /\ t.p[inner] = up
      /\ outer # NULL => outer \in Q /\ outer \in Items /\ t.p[outer] = up
      /\ beside # NULL => beside \in R /\ beside \in Items /\ t.p[beside] = root
  BY <1>2, <1>3, <1>4, <1>5 DEF Joint, Under, Node
<1>8. /\ \A y \in Q : Ordered(s, y, up)
      /\ \A y \in P : Ordered(o, y, up)
      /\ \A y \in P : Ordered(s, y, root)
      /\ Ordered(s, up, root)
      /\ \A y \in R : Ordered(o, y, root)
  BY <1>2, <1>3, <1>4, <1>5, <1>6, <1>n, <1>h DEF Joint, Under
<1>9. Rotated(t, x, root, s, o, up, inner, outer, beside)
  BY <1>h, <1>6, <1>7, <1>n, RotateIs
<1>10. PICK v \in Unders : v = [u EXCEPT ![root] = {root} \cup P \cup R, ![up] = u[root]]
  BY DEF Unders
<1>11. /\ v[root] = {root} \cup P \cup R /\ v[up] = u[root]
       /\ \A y \in Items \ {root, up} : v[y] = u[y]
  BY <1>6, <1>10 DEF Unders
<1>12. x.t \in Trees
  BY <1>9 DEF Rotated
<1>13. ASSUME NEW c \in {inner, outer, beside}
       PROVE  Tree(x.t, v, c) /\ Under(v, c) = Under(u, c) /\ HeightOf(x.t, c) = HeightOf(t, c)
  <2>1. c \in Node /\ Tree(t, u, c) /\ Under(u, c) \subseteq Items \ {root, up}
    BY <1>h, <1>3, <1>4, <1>5, <1>6
  <2>2. \A y \in Under(u, c) : y # c => y # inner
    <3>1. \A y \in Items : y # NULL
      BY MapAssumption
    <3>2. \A y \in Q \cup R : y # inner
      BY <3>1, <1>6, <1>7
    <3> QED BY <3>2, <1>3, <1>4, <1>5
  <2>3. Untouched(t, u, x.t, v, c)
    BY <2>1, <2>2, <1>9, <1>11 DEF Untouched, Rotated
  <2> QED BY <2>1, <2>3, <1>12, SameTree
<1>14. Under(v, inner) = P /\ Under(v, outer) = Q /\ Under(v, beside) = R
       /\ Under(v, root) = v[root]
  BY <1>3, <1>4, <1>5, <1>13, <1>n DEF Under
<1>15. /\ x.t.kid[s][root] = inner /\ x.t.kid[o][root] = beside
       /\ x.t.kid[s][up] = outer /\ x.t.kid[o][up] = root
  BY <1>h, <1>1, <1>6, <1>9 DEF Rotated
<1>16. /\ inner # NULL => x.t.p[inner] = root /\ inner \in v[inner]
       /\ beside # NULL => x.t.p[beside] = root /\ beside \in v[beside]
       /\ outer # NULL => x.t.p[outer] = up /\ outer \in v[outer]
       /\ x.t.p[root] = up /\ root \in v[root]
  <2>1. inner # NULL => x.t.p[inner] = root
    BY <1>6, <1>7, <1>9 DEF Rotated
  <2>2. beside # NULL => x.t.p[beside] = root
    BY <1>6, <1>7, <1>9 DEF Rotated
  <2>3. outer # NULL => x.t.p[outer] = up
    BY <1>6, <1>7, <1>9 DEF Rotated
  <2>4. x.t.p[root] = up /\ root \in v[root]
    BY <1>9, <1>11 DEF Rotated
  <2> QED BY <2>1, <2>2, <2>3, <2>4, <1>7, <1>14 DEF Under
<1>17. Linked(x.t, v, root)
  <2>1. Joint(x.t, v, root, s, inner, beside)
    BY <1>6, <1>8, <1>11, <1>14, <1>16, <1>h DEF Joint
  <2>2. Joint(x.t, v, root, s, x.t.kid[s][root], x.t.kid[Other(s)][root])
    BY <2>1, <1>15, <1>h
  <2> QED BY <2>2, JointIs
<1>18. Linked(x.t, v, up)
  <2>1. v[up] = {up} \cup Q \cup v[root] /\ Q \cap v[root] = {} /\ up \notin v[root]
    BY <1>6, <1>11
  <2>2. ASSUME NEW y \in v[root] PROVE Ordered(o, y, up)
    <3>1. Ordered(o, root, up)
      BY <1>8, <1>h, OrderIs
    <3>2. CASE y = root
      BY <3>1, <3>2
    <3>3. CASE y \in P
      BY <3>3, <1>8
    <3>4. CASE y \in R
      BY <3>1, <3>4, <1>8, <1>h, OrderIs
    <3> QED BY <3>2, <3>3, <3>4, <1>11
  <2>3. Joint(x.t, v, up, s, outer, root)
    BY <2>1, <2>2, <1>6, <1>8, <1>14, <1>16, <1>h DEF Joint
  <2>4. Joint(x.t, v, up, s, x.t.kid[s][up], x.t.kid[Other(s)][up])
    BY <2>3, <1>15, <1>h
  <2> QED BY <2>4, JointIs
<1>19. Beyond(t, u, x.t, v, u[root])
  <2>1. up \in u[root] /\ root \in u[root] /\ (inner # NULL => inner \in u[root])
    BY <1>6, <1>7
  <2> QED BY <2>1, <1>9, <1>11, MapAssumption DEF Beyond, Rotated
<1>20. x.t.size = t.size
  BY <1>9 DEF Rotated
<1>21. Turned(t, u, x, v, root, s, o, up, inner, outer, beside)
  BY <1>9, <1>11, <1>13, <1>17, <1>18, <1>19, <1>20 DEF Turned
<1> QED BY <1>21

\* What Adjust returns for the item at root: a tree of the same items.
Adjusted(t, u, root, x, v) ==
  /\ x.t \in Trees /\ v \in Unders /\ x.root \in Items
  /\ Tree(x.t, v, x.root) /\ v[x.root] = u[root] /\ x.t.p[x.root] = t.p[root]
  /\ Beyond(t, u, x.t, v, u[root]) /\ x.t.size = t.size

\* An item whose child up does not lean inwards; x is the rotation, a, b and c the heights.
Liftable(t, u, root, s, o, up, inner, outer, beside, x, a, b, c) ==
  /\ o = Other(s) /\ t.kid[s][root] = up /\ t.kid[o][root] = beside
  /\ t.kid[o][up] = inner /\ t.kid[s][up] = outer
  /\ Linked(t, u, root) /\ Linked(t, u, up)
  /\ Tree(t, u, inner) /\ Tree(t, u, outer) /\ Tree(t, u, beside)
  /\ x = Rotate(t, root, s)
  /\ a \in Nat /\ b \in Nat /\ c \in Nat /\ a = HeightOf(t, outer) /\ b = HeightOf(t, inner) /\ c = HeightOf(t, beside)
  /\ b - c \in -1..1 /\ a - Higher(b, c) - 1 \in -1..1

\* A rotation of one item whose child does not lean inwards.
LEMMA OnceIs ==
  ASSUME NEW t \in Trees, NEW u \in Unders, NEW root \in Items, NEW s \in Side, NEW o \in Side,
         NEW up \in Items, NEW inner \in Node, NEW outer \in Node, NEW beside \in Node,
         NEW x, NEW a, NEW b, NEW c
  PROVE  Liftable(t, u, root, s, o, up, inner, outer, beside, x, a, b, c)
         => \E v \in Unders : Adjusted(t, u, root, x, v)
                              /\ x.t.height[x.root] = Higher(a, Higher(b, c) + 1) + 1
<1>h. SUFFICES ASSUME a \in Nat, b \in Nat, c \in Nat, o = Other(s), t.kid[s][root] = up, t.kid[o][root] = beside,
                      t.kid[o][up] = inner, t.kid[s][up] = outer,
                      Linked(t, u, root), Linked(t, u, up),
                      Tree(t, u, inner), Tree(t, u, outer), Tree(t, u, beside),
                      x = Rotate(t, root, s),
                      a = HeightOf(t, outer), b = HeightOf(t, inner), c = HeightOf(t, beside),
                      b - c \in -1..1, a - Higher(b, c) - 1 \in -1..1
               PROVE  \E v \in Unders : Adjusted(t, u, root, x, v)
                              /\ x.t.height[x.root] = Higher(a, Higher(b, c) + 1) + 1
  BY DEF Liftable
<1>1. PICK v \in Unders : Turned(t, u, x, v, root, s, o, up, inner, outer, beside)
  BY <1>h, RotateTree
<1>2. Rotated(t, x, root, s, o, up, inner, outer, beside) /\ x.t \in Trees /\ x.root = up
  BY <1>1 DEF Turned, Rotated
<1>3. o # s /\ \A q \in Side : q = s \/ q = o
  BY <1>h, Others
<1>4. up # root
  BY <1>h, KidTree, MapAssumption, JointIs DEF Joint, Under
<1>5. /\ x.t.kid[s][root] = inner /\ x.t.kid[o][root] = beside
      /\ x.t.kid[s][up] = outer /\ x.t.kid[o][up] = root
  BY <1>h, <1>2, <1>3, <1>4 DEF Rotated
<1>6. HeightOf(x.t, inner) = b /\ HeightOf(x.t, outer) = a /\ HeightOf(x.t, beside) = c
  BY <1>h, <1>1 DEF Turned
<1>7. x.t.height[root] = Higher(b, c) + 1 /\ x.t.height[up] = Higher(a, Higher(b, c) + 1) + 1
  BY <1>h, <1>2 DEF Rotated
<1>8. HeightOf(x.t, root) = Higher(b, c) + 1
  BY <1>7, MapAssumption DEF HeightOf
<1>9. Even(x.t, root) /\ Even(x.t, up)
  <2>1. Even(x.t, root)
    BY <1>2, <1>5, <1>6, <1>7, <1>h, EvenIs
  <2>2. HeightOf(x.t, outer) - HeightOf(x.t, root) \in -1..1
    BY <1>6, <1>8, <1>h DEF Higher
  <2>3. Even(x.t, up)
    BY <1>2, <1>5, <1>6, <1>7, <1>8, <1>h, <2>2, EvenIs
  <2> QED BY <2>1, <2>3
<1>10. Tree(x.t, v, root)
  <2>1. \A q \in Side : Tree(x.t, v, x.t.kid[q][root])
    BY <1>1, <1>3, <1>5 DEF Turned
  <2> QED BY <2>1, <1>1, <1>2, <1>9, Joined DEF Turned
<1>11. Tree(x.t, v, up)
  <2>1. \A q \in Side : Tree(x.t, v, x.t.kid[q][up])
    BY <1>1, <1>3, <1>5, <1>10 DEF Turned
  <2> QED BY <2>1, <1>1, <1>2, <1>9, Joined DEF Turned
<1>12. x.t.p[up] = t.p[root]
  BY <1>2, <1>4 DEF Rotated
<1>13. Adjusted(t, u, root, x, v)
  BY <1>1, <1>2, <1>11, <1>12 DEF Adjusted, Turned
<1> QED BY <1>7, <1>2, <1>13

\* An item whose child mid leans inwards; h, f and n are the heights.
DoublyLiftable(t, u, root, s, o, mid, up, outer, far, near, beside, x, h, f, n, top) ==
  /\ o = Other(s) /\ t.kid[s][root] = mid /\ t.kid[o][root] = beside
  /\ t.kid[o][mid] = up /\ t.kid[s][mid] = outer
  /\ t.kid[s][up] = far /\ t.kid[o][up] = near
  /\ Linked(t, u, root) /\ Linked(t, u, mid) /\ Linked(t, u, up)
  /\ Tree(t, u, outer) /\ Tree(t, u, far) /\ Tree(t, u, near) /\ Tree(t, u, beside)
  /\ x = RotateTwice(t, root, s)
  /\ h \in Nat /\ f \in Nat /\ n \in Nat /\ top = h + 2 /\ HeightOf(t, outer) = h /\ HeightOf(t, beside) = h
  /\ HeightOf(t, far) = f /\ HeightOf(t, near) = n
  /\ h - f \in 0..1 /\ h - n \in 0..1

\* The rotation of an item whose child leans inwards: first the child, then the item.
LEMMA TwiceIs ==
  ASSUME NEW t \in Trees, NEW u \in Unders, NEW root \in Items, NEW s \in Side, NEW o \in Side,
         NEW mid \in Items, NEW up \in Items, NEW outer \in Node, NEW far \in Node,
         NEW near \in Node, NEW beside \in Node,
         NEW x, NEW h, NEW f, NEW n, NEW top
  PROVE  DoublyLiftable(t, u, root, s, o, mid, up, outer, far, near, beside, x, h, f, n, top)
         => \E v \in Unders : Adjusted(t, u, root, x, v) /\ x.t.height[x.root] = top
<1>h. SUFFICES ASSUME top = h + 2, h \in Nat, f \in Nat, n \in Nat, o = Other(s), t.kid[s][root] = mid, t.kid[o][root] = beside,
                      t.kid[o][mid] = up, t.kid[s][mid] = outer,
                      t.kid[s][up] = far, t.kid[o][up] = near,
                      Linked(t, u, root), Linked(t, u, mid), Linked(t, u, up),
                      Tree(t, u, outer), Tree(t, u, far), Tree(t, u, near), Tree(t, u, beside),
                      x = RotateTwice(t, root, s),
                      HeightOf(t, outer) = h, HeightOf(t, beside) = h,
                      HeightOf(t, far) = f, HeightOf(t, near) = n,
                      h - f \in 0..1, h - n \in 0..1
               PROVE  \E v \in Unders : Adjusted(t, u, root, x, v) /\ x.t.height[x.root] = top
  BY DEF DoublyLiftable
<1>1. o # s /\ Other(o) = s /\ \A q \in Side : q = s \/ q = o
  BY <1>h, Others
<1>2. \A i \in Items : i # NULL
  BY MapAssumption
<1>3. /\ Joint(t, u, root, s, mid, beside) /\ Joint(t, u, mid, s, outer, up)
      /\ Joint(t, u, up, s, far, near)
  BY <1>h, JointIs
<1>4. PICK F \in SUBSET Items : F = Under(u, far)
  BY UnderIs
<1>5. PICK N \in SUBSET Items : N = Under(u, near)
  BY UnderIs
<1>6. PICK H \in SUBSET Items : H = Under(u, outer)
  BY UnderIs
<1>7. PICK R \in SUBSET Items : R = Under(u, beside)
  BY UnderIs
<1>8. /\ u[up] = {up} \cup F \cup N /\ u[mid] = {mid} \cup H \cup u[up]
      /\ u[root] = {root} \cup u[mid] \cup R /\ u[mid] \cap R = {}
      /\ root \notin u[mid] /\ root \notin R /\ H \cap u[up] = {} /\ mid \notin u[up] /\ mid \notin H
      /\ up # mid /\ up # root /\ mid # root
  <2>1. u[up] = {up} \cup F \cup N
    BY <1>3, <1>4, <1>5 DEF Joint
  <2>2. u[mid] = {mid} \cup H \cup u[up] /\ H \cap u[up] = {} /\ mid \notin u[up] /\ mid \notin H
    BY <1>2, <1>3, <1>6 DEF Joint, Under
  <2>3. u[root] = {root} \cup u[mid] \cup R /\ u[mid] \cap R = {} /\ root \notin u[mid] /\ root \notin R
    BY <1>2, <1>3, <1>7 DEF Joint, Under
  <2> QED BY <2>1, <2>2, <2>3
<1>9. /\ beside # NULL => beside \in R /\ beside \in Items /\ t.p[beside] = root
      /\ t.p[mid] = root
  BY <1>2, <1>3, <1>7 DEF Joint, Under, Node
<1>10. PICK sub : sub = Rotate(t, mid, o)
  OBVIOUS
<1>11. PICK v \in Unders : Turned(t, u, sub, v, mid, o, s, up, far, near, outer)
  <2>1. s = Other(o)
    BY <1>1
  <2> QED BY <2>1, <1>h, <1>10, RotateTree
<1>12. /\ Rotated(t, sub, mid, o, s, up, far, near, outer) /\ sub.t \in Trees /\ sub.root = up
       /\ Beyond(t, u, sub.t, v, u[mid]) /\ v[up] = u[mid] /\ sub.t.size = t.size
       /\ Linked(sub.t, v, mid) /\ Linked(sub.t, v, up)
  BY <1>11 DEF Turned, Rotated
<1>13. PICK y : y = SetKid(sub.t, root, s, up)
  OBVIOUS
<1>14. KidSet(sub.t, root, s, up, y) /\ y \in Trees
  <2>1. up \in Node
    BY DEF Node
  <2>2. sub.t \in Trees
    BY <1>12
  <2>3. KidSet(sub.t, root, s, up, y)
    BY <2>1, <2>2, <1>13, SetKidIs
  <2> QED BY <2>3 DEF KidSet
<1>15. x = Rotate(y, root, s)
  BY <1>h, <1>10, <1>12, <1>13 DEF RotateTwice
<1>16. /\ sub.t.kid[s][mid] = outer /\ sub.t.kid[o][mid] = far
       /\ sub.t.kid[s][up] = mid /\ sub.t.kid[o][up] = near
       /\ sub.t.kid[o][root] = beside
  <2>1. sub.t.kid[o][mid] = far /\ sub.t.kid[s][up] = mid
    BY <1>1, <1>8, <1>12 DEF Rotated
  <2>2. sub.t.kid[s][mid] = outer /\ sub.t.kid[o][up] = near /\ sub.t.kid[o][root] = beside
    BY <1>h, <1>1, <1>8, <1>12 DEF Rotated
  <2> QED BY <2>1, <2>2
<1>17. /\ y.kid[s][mid] = outer /\ y.kid[o][mid] = far /\ y.kid[s][up] = mid /\ y.kid[o][up] = near
       /\ y.kid[s][root] = up /\ y.kid[o][root] = beside
  BY <1>1, <1>8, <1>14, <1>16 DEF KidSet
<1>18. y.p = sub.t.p /\ y.height = sub.t.height /\ y.size = sub.t.size
  BY <1>14 DEF KidSet
<1>19. Linked(y, v, mid) /\ Linked(y, v, up)
  <2>1. Joint(sub.t, v, mid, s, outer, far) /\ Joint(sub.t, v, up, s, mid, near)
    BY <1>h, <1>12, <1>16, JointIs
  <2>2. Joint(y, v, mid, s, outer, far) /\ Joint(y, v, up, s, mid, near)
    BY <2>1, <1>18 DEF Joint
  <2> QED BY <2>2, <1>h, <1>17, JointIs
<1>20. v[root] = u[root] /\ sub.t.p[root] = t.p[root] /\ sub.t.height[root] = t.height[root]
       /\ \A i \in R : /\ v[i] = u[i] /\ sub.t.p[i] = t.p[i] /\ sub.t.height[i] = t.height[i]
                       /\ \A q \in Side : sub.t.kid[q][i] = t.kid[q][i]
  BY <1>8, <1>12 DEF Beyond
<1>21. \A i \in R : \A q \in Side : y.kid[q][i] = t.kid[q][i]
  BY <1>8, <1>14, <1>20 DEF KidSet
<1>22. Tree(y, v, beside) /\ Under(v, beside) = R /\ HeightOf(y, beside) = h
  <2>1. Untouched(t, u, y, v, beside)
    BY <1>7, <1>18, <1>20, <1>21 DEF Untouched
  <2> QED BY <2>1, <1>h, <1>7, <1>14, SameTree
<1>23. ASSUME NEW c \in {outer, far, near}
       PROVE  Tree(y, v, c) /\ HeightOf(y, c) = HeightOf(t, c)
  <2>1. Tree(sub.t, v, c) /\ Under(v, c) = Under(u, c) /\ HeightOf(sub.t, c) = HeightOf(t, c)
    BY <1>11 DEF Turned
  <2>2. root \notin Under(v, c) /\ c \in Node /\ Under(v, c) \subseteq Items
    BY <2>1, <1>4, <1>5, <1>6, <1>8
  <2>3. Untouched(sub.t, v, y, v, c)
    BY <2>2, <1>14, <1>18 DEF Untouched, KidSet
  <2> QED BY <2>1, <2>2, <2>3, <1>12, <1>14, SameTree
<1>24. Linked(y, v, root)
  <2>1. Under(v, up) = u[mid] /\ Under(u, mid) = u[mid] /\ Under(v, beside) = R
    BY <1>2, <1>12, <1>22 DEF Under
  <2>2. y.p[up] = root
    BY <1>8, <1>9, <1>12, <1>18 DEF Rotated
  <2>3. up \in v[up]
    BY <1>8, <1>12
  <2>4. beside # NULL => y.p[beside] = root /\ beside \in v[beside]
    BY <1>9, <1>18, <1>20, <2>1 DEF Under
  <2>5. Joint(y, v, root, s, up, beside)
    BY <2>1, <2>2, <2>3, <2>4, <1>3, <1>7, <1>8, <1>20 DEF Joint
  <2> QED BY <2>5, <1>h, <1>17, JointIs
<1>25. HeightOf(y, outer) = h /\ HeightOf(y, far) = f /\ HeightOf(y, near) = n
  BY <1>h, <1>23
<1>26. y.height[mid] = h + 1 /\ HeightOf(y, mid) = h + 1
  <2>1. y.height[mid] = Higher(HeightOf(t, far), HeightOf(t, outer)) + 1
    BY <1>12, <1>18 DEF Rotated
  <2> QED BY <2>1, <1>2, <1>h DEF Higher, HeightOf
<1>27. Tree(y, v, mid)
  <2>1. Even(y, mid)
    <3>1. HeightOf(y, outer) - HeightOf(y, far) \in -1..1
          /\ y.height[mid] = Higher(HeightOf(y, outer), HeightOf(y, far)) + 1
      BY <1>25, <1>26, <1>h DEF Higher
    <3> QED BY <3>1, <1>14, <1>17, <1>h, EvenIs
  <2>2. \A q \in Side : Tree(y, v, y.kid[q][mid])
    BY <1>1, <1>17, <1>23
  <2> QED BY <2>1, <2>2, <1>14, <1>19, Joined
<1>28. PICK w \in Unders : Adjusted(y, v, root, x, w)
                           /\ x.t.height[x.root] = Higher(h + 1, Higher(n, h) + 1) + 1
  <2>1. n - h \in -1..1 /\ (h + 1) - Higher(n, h) - 1 \in -1..1 /\ h + 1 \in Nat
    BY <1>h DEF Higher
  <2>2. mid \in Node
    BY DEF Node
  <2>3. PICK a \in Nat : a = h + 1
    BY <2>1
  <2>4. /\ o = Other(s) /\ y.kid[s][root] = up /\ y.kid[o][root] = beside
        /\ y.kid[o][up] = near /\ y.kid[s][up] = mid
    BY <1>h, <1>17
  <2>5. Tree(y, v, near) /\ Tree(y, v, mid) /\ Tree(y, v, beside) /\ Linked(y, v, root) /\ Linked(y, v, up)
    BY <1>19, <1>22, <1>23, <1>24, <1>27
  <2>6. a = HeightOf(y, mid) /\ n = HeightOf(y, near) /\ h = HeightOf(y, beside)
    BY <2>3, <1>22, <1>25, <1>26
  <2>7. a - Higher(n, h) - 1 \in -1..1 /\ n - h \in -1..1 /\ y \in Trees
    BY <2>1, <2>3, <1>14
  <2>9. n \in Nat /\ h \in Nat /\ a \in Nat
    BY <1>h
  <2>8. \E w \in Unders : Adjusted(y, v, root, x, w)
                           /\ x.t.height[x.root] = Higher(a, Higher(n, h) + 1) + 1
    <3>1. Liftable(y, v, root, s, o, up, near, mid, beside, x, a, n, h)
      BY <2>4, <2>5, <2>6, <2>7, <2>9, <1>15 DEF Liftable
    <3> QED BY <2>2, <2>7, <3>1, OnceIs
  <2> QED BY <2>3, <2>8
<1>29. x.t.height[x.root] = top
  BY <1>28, <1>h DEF Higher
<1>30. Beyond(t, u, x.t, w, u[root])
  <2>1. Beyond(y, v, x.t, w, u[root])
    BY <1>20, <1>28 DEF Adjusted
  <2>2. Beyond(t, u, y, v, u[root])
    <3>1. y.root = sub.t.root /\ y.aborted = sub.t.aborted
          /\ \A q \in Side : \A i \in Items \ {root} : y.kid[q][i] = sub.t.kid[q][i]
      BY <1>14 DEF KidSet
    <3> QED BY <3>1, <1>8, <1>12, <1>18 DEF Beyond
  <2>3. u[root] \in SUBSET Items
    BY DEF Unders
  <2> QED BY <2>1, <2>2, <2>3, BeyondIs
<1>31. Adjusted(t, u, root, x, w)
  BY <1>12, <1>18, <1>20, <1>28, <1>30 DEF Adjusted
<1> QED BY <1>29, <1>31

\* Adjust makes x of t at root; m is the height of the higher kid, and lean how much
\* higher the right one is.
Adjustable(t, u, root, x, m, lean) ==
  /\ t \in Trees /\ u \in Unders /\ root \in Items
  /\ Linked(t, u, root) /\ \A s \in Side : Tree(t, u, t.kid[s][root])
  /\ lean = HeightOf(t, t.kid["r"][root]) - HeightOf(t, t.kid["l"][root]) /\ lean \in -2..2
  /\ m = Higher(HeightOf(t, t.kid["l"][root]), HeightOf(t, t.kid["r"][root]))
  /\ x = Adjust(t, root)

\* __adjust makes a tree of an item whose two subtrees differ by two in height at most, as
\* high as the higher of them or one more.
LEMMA AdjustIs ==
  ASSUME NEW t, NEW u, NEW root, NEW x, NEW m, NEW lean
  PROVE  Adjustable(t, u, root, x, m, lean) =>
           \E v \in Unders : /\ Adjusted(t, u, root, x, v) /\ x.t.height[x.root] \in {m, m + 1}
                             /\ lean \in -1..1 => x.t.height[x.root] = m + 1
<1> SUFFICES
      ASSUME t \in Trees, u \in Unders, root \in Items,
             Linked(t, u, root), \A s \in Side : Tree(t, u, t.kid[s][root]),
             HeightOf(t, t.kid["r"][root]) - HeightOf(t, t.kid["l"][root]) \in -2..2,
             m = Higher(HeightOf(t, t.kid["l"][root]), HeightOf(t, t.kid["r"][root])),
             x = Adjust(t, root)
      PROVE  \E v \in Unders :
               /\ Adjusted(t, u, root, x, v) /\ x.t.height[x.root] \in {m, m + 1}
               /\ HeightOf(t, t.kid["r"][root]) - HeightOf(t, t.kid["l"][root]) \in -1..1
                  => x.t.height[x.root] = m + 1
  BY Zenon DEF Adjustable
<1>1. PICK l \in Node : l = t.kid["l"][root]
  BY Kids DEF Side
<1>2. PICK r \in Node : r = t.kid["r"][root]
  BY Kids DEF Side
<1>3. PICK hl \in Nat : hl = HeightOf(t, l)
  BY HeightIs
<1>4. PICK hr \in Nat : hr = HeightOf(t, r)
  BY HeightIs
<1>5. PICK t0 : t0 = SetHeight(t, root)
  OBVIOUS
<1>6. PICK condition \in BOOLEAN : condition = (hr - hl \notin -2..2)
  OBVIOUS
<1>7. PICK t1 : t1 = Abort(t0, condition)
  OBVIOUS
<1>8. hr - hl \in -2..2 /\ m = Higher(hl, hr) /\ ~condition
  BY <1>1, <1>2, <1>3, <1>4, <1>6
<1>9. HeightSet(t, root, t0) /\ t0 \in Trees
  <2>1. HeightSet(t, root, t0)
    BY <1>5, SetHeightIs
  <2> QED BY <2>1 DEF HeightSet
<1>10. /\ t1 \in Trees /\ t1.root = t0.root /\ t1.kid = t0.kid /\ t1.p = t0.p
       /\ t1.height = t0.height /\ t1.size = t0.size /\ t1.aborted = (t0.aborted \/ condition)
  BY <1>7, <1>9, AbortIs
<1>11. t1.kid = t.kid /\ t1.p = t.p /\ t1.size = t.size /\ t1.root = t.root
  BY <1>9, <1>10 DEF HeightSet
<1>12. t1.aborted = t.aborted
  <2>1. t0.aborted = t.aborted /\ t.aborted \in BOOLEAN
    BY <1>9 DEF HeightSet, Trees
  <2> QED BY <2>1, <1>8, <1>10
<1>13. t1.height[root] = m + 1 /\ \A i \in Items \ {root} : t1.height[i] = t.height[i]
  BY <1>1, <1>2, <1>3, <1>4, <1>8, <1>9, <1>10 DEF HeightSet
<1>14. /\ x = IF hr - hl \notin {-2, 2} THEN [t |-> t1, root |-> root]
              ELSE IF HeightOf(t, t.kid[IF hr - hl < 0 THEN "l" ELSE "r"][t.kid[IF hr - hl < 0 THEN "l" ELSE "r"][root]])
                      >= HeightOf(t, t.kid[Other(IF hr - hl < 0 THEN "l" ELSE "r")][t.kid[IF hr - hl < 0 THEN "l" ELSE "r"][root]])
              THEN Rotate(t1, root, IF hr - hl < 0 THEN "l" ELSE "r")
              ELSE RotateTwice(t1, root, IF hr - hl < 0 THEN "l" ELSE "r")
  BY <1>1, <1>2, <1>3, <1>4, <1>5, <1>6, <1>7, MapAssumption DEF Adjust
<1>15. /\ Linked(t1, u, root) /\ root \in u[root] /\ u[root] \in SUBSET Items
       /\ \A s \in Side : root \notin Under(u, t.kid[s][root])
  <2>1. Linked(t1, u, root)
    BY <1>11 DEF Linked
  <2> QED BY <2>1 DEF Linked, Unders
<1>16. ASSUME NEW s \in Side
       PROVE  /\ t1.kid[s][root] = t.kid[s][root] /\ t.kid[s][root] \in Node
              /\ Tree(t1, u, t.kid[s][root])
              /\ HeightOf(t1, t.kid[s][root]) = HeightOf(t, t.kid[s][root])
  <2>1. PICK k \in Node : k = t.kid[s][root]
    BY Kids
  <2>2. Under(u, k) \subseteq Items /\ root \notin Under(u, k) /\ Tree(t, u, k)
    BY <2>1, <1>15, UnderIs
  <2>3. Untouched(t, u, t1, u, k)
    BY <2>2, <1>11, <1>13 DEF Untouched
  <2> QED BY <2>1, <2>2, <2>3, <1>10, <1>11, SameTree
<1>17. Beyond(t, u, t1, u, u[root])
  BY <1>11, <1>12, <1>13, <1>15 DEF Beyond
<1>18. ASSUME NEW v \in Unders, Adjusted(t1, u, root, x, v) PROVE Adjusted(t, u, root, x, v)
  <2>1. Beyond(t, u, x.t, v, u[root])
    BY <1>15, <1>17, <1>18, BeyondIs DEF Adjusted
  <2> QED BY <2>1, <1>11, <1>18 DEF Adjusted
<1>19. CASE hr - hl \in -1..1
  <2>1. x.t = t1 /\ x.root = root
    BY <1>14, <1>19
  <2>2. Even(t1, root)
    <3>1. HeightOf(t1, l) = hl /\ HeightOf(t1, r) = hr /\ t1.kid["l"][root] = l /\ t1.kid["r"][root] = r
      BY <1>1, <1>2, <1>3, <1>4, <1>16 DEF Side
    <3>2. hl - hr \in -1..1
      BY <1>19
    <3> QED BY <3>1, <3>2, <1>8, <1>13 DEF Even
  <2>3. Tree(t1, u, root)
    BY <2>2, <1>10, <1>15, <1>16, Joined
  <2>4. Adjusted(t1, u, root, x, u)
    BY <2>1, <2>3, <1>10, <1>15 DEF Adjusted, Beyond
  <2>5. x.t.height[x.root] = m + 1
    BY <2>1, <1>13
  <2> QED BY <2>4, <2>5, <1>18
<1>20. CASE hr - hl \in {-2, 2}
  <2>1. PICK s \in Side : s = IF hr - hl < 0 THEN "l" ELSE "r"
    BY DEF Side
  <2>2. PICK o \in Side : o = Other(s)
    BY Others
  <2>3. PICK up \in Node : up = t.kid[s][root]
    BY Kids
  <2>4. PICK beside \in Node : beside = t.kid[o][root]
    BY Kids
  <2>5. PICK b \in Nat : b = HeightOf(t, beside)
    BY HeightIs
  <2>6. HeightOf(t, up) = b + 2 /\ m = b + 2
    <3>1. CASE hr - hl < 0
      <4>1. s = "l" /\ o = "r" /\ up = l /\ beside = r
        BY <3>1, <2>1, <2>2, <2>3, <2>4, <1>1, <1>2 DEF Other
      <4> QED BY <4>1, <3>1, <1>3, <1>4, <1>8, <1>20, <2>5 DEF Higher
    <3>2. CASE ~(hr - hl < 0)
      <4>1. s = "r" /\ o = "l" /\ up = r /\ beside = l
        BY <3>2, <2>1, <2>2, <2>3, <2>4, <1>1, <1>2 DEF Other
      <4> QED BY <4>1, <3>2, <1>3, <1>4, <1>8, <1>20, <2>5 DEF Higher
    <3> QED BY <3>1, <3>2
  <2>7. up \in Items /\ up # NULL
    BY <2>5, <2>6, HeightIs DEF Node
  <2>8. Tree(t1, u, up) /\ Tree(t1, u, beside) /\ HeightOf(t1, up) = b + 2 /\ HeightOf(t1, beside) = b
        /\ t1.kid[s][root] = up /\ t1.kid[o][root] = beside
    BY <2>3, <2>4, <2>5, <2>6, <1>16
  <2>9. PICK outer \in Node : outer = t1.kid[s][up]
    BY <2>7, <1>10, Kids
  <2>10. PICK inner \in Node : inner = t1.kid[o][up]
    BY <2>7, <1>10, Kids
  <2>11. Tree(t1, u, outer) /\ Tree(t1, u, inner)
    BY <2>7, <2>8, <2>9, <2>10, <1>10, KidTree
  <2>12. Linked(t1, u, up) /\ Even(t1, up) /\ t1.height[up] = b + 2
    BY <2>7, <2>8 DEF Tree, HeightOf
  <2>13. PICK i \in Nat : i = HeightOf(t1, inner)
    BY <1>10, HeightIs
  <2>14. PICK e \in Nat : e = HeightOf(t1, outer)
    BY <1>10, HeightIs
  <2>15. e - i \in -1..1 /\ b + 2 = Higher(e, i) + 1
    BY <2>2, <2>7, <2>9, <2>10, <2>12, <2>13, <2>14, <1>10, EvenIs
  <2>16. HeightOf(t, outer) = e /\ HeightOf(t, inner) = i
    <3>1. root \notin Under(u, up) /\ Under(u, up) = u[up]
      BY <2>3, <2>7, <1>15 DEF Under
    <3>2. (outer # NULL => outer \in u[up]) /\ (inner # NULL => inner \in u[up])
      <4>1. /\ outer # NULL => outer \in u[outer]
            /\ inner # NULL => inner \in u[inner]
            /\ Under(u, outer) \subseteq u[up] /\ Under(u, inner) \subseteq u[up]
        BY <2>7, <2>8, <2>9, <2>10, <1>10, KidTree
      <4> QED BY <4>1 DEF Under
    <3>3. outer # root /\ inner # root
      BY <3>1, <3>2, MapAssumption
    <3> QED BY <3>3, <2>13, <2>14, <1>13 DEF HeightOf, Node
  <2>17. x = IF e >= i THEN Rotate(t1, root, s) ELSE RotateTwice(t1, root, s)
    <3>1. hr - hl \in {-2, 2}
      BY <1>20
    <3>2. outer = t.kid[s][up] /\ inner = t.kid[Other(s)][up]
      BY <2>2, <2>9, <2>10, <1>11
    <3> QED BY <3>1, <3>2, <1>14, <2>1, <2>3, <2>16
  <2>18. CASE e >= i
    <3>1. e = b + 1 /\ i \in {b, b + 1}
      BY <2>15, <2>18 DEF Higher
    <3>2. i - b \in -1..1 /\ e - Higher(i, b) - 1 \in -1..1
      BY <3>1 DEF Higher
    <3>3. x = Rotate(t1, root, s)
      BY <2>17, <2>18
    <3>4. Liftable(t1, u, root, s, o, up, inner, outer, beside, x, e, i, b)
      BY <3>2, <3>3, <2>2, <2>8, <2>9, <2>10, <2>11, <2>12, <2>13, <2>14, <1>15 DEF Liftable
    <3>5. PICK v \in Unders : /\ Adjusted(t1, u, root, x, v)
                              /\ x.t.height[x.root] = Higher(e, Higher(i, b) + 1) + 1
      BY <3>4, <2>7, <1>10, OnceIs
    <3>6. x.t.height[x.root] \in {m, m + 1}
      BY <3>1, <3>5, <2>6 DEF Higher
    <3> QED BY <3>5, <3>6, <1>18, <1>20, <1>1, <1>2, <1>3, <1>4
  <2>19. CASE ~(e >= i)
    <3>1. i = b + 1 /\ e = b
      BY <2>15, <2>19 DEF Higher
    <3>2. inner \in Items /\ inner # NULL
      BY <3>1, <2>13, <1>10, HeightIs DEF Node
    <3>3. x = RotateTwice(t1, root, s)
      BY <2>17, <2>19
    <3>4. PICK far \in Node : far = t1.kid[s][inner]
      BY <3>2, <1>10, Kids
    <3>5. PICK near \in Node : near = t1.kid[o][inner]
      BY <3>2, <1>10, Kids
    <3>6. Tree(t1, u, far) /\ Tree(t1, u, near)
      BY <3>2, <3>4, <3>5, <2>11, <1>10, KidTree
    <3>7. Linked(t1, u, inner) /\ Even(t1, inner) /\ t1.height[inner] = b + 1
      BY <3>1, <3>2, <2>11, <2>13 DEF Tree, HeightOf
    <3>8. PICK f \in Nat : f = HeightOf(t1, far)
      BY <1>10, HeightIs
    <3>9. PICK n \in Nat : n = HeightOf(t1, near)
      BY <1>10, HeightIs
    <3>10. f - n \in -1..1 /\ b + 1 = Higher(f, n) + 1
      BY <3>2, <3>4, <3>5, <3>7, <3>8, <3>9, <2>2, <1>10, EvenIs
    <3>11. b - f \in 0..1 /\ b - n \in 0..1
      BY <3>10 DEF Higher
    <3>12. PICK v \in Unders : Adjusted(t1, u, root, x, v) /\ x.t.height[x.root] = m
      <4>1. o = Other(s) /\ t1.kid[s][root] = up /\ t1.kid[o][root] = beside
            /\ t1.kid[o][up] = inner /\ t1.kid[s][up] = outer
            /\ t1.kid[s][inner] = far /\ t1.kid[o][inner] = near
        BY <3>4, <3>5, <2>2, <2>8, <2>9, <2>10
      <4>2. Linked(t1, u, root) /\ Linked(t1, u, up) /\ Linked(t1, u, inner)
            /\ Tree(t1, u, outer) /\ Tree(t1, u, far) /\ Tree(t1, u, near) /\ Tree(t1, u, beside)
        BY <3>6, <3>7, <2>8, <2>11, <2>12, <1>15
      <4>3. HeightOf(t1, outer) = b /\ HeightOf(t1, beside) = b
            /\ HeightOf(t1, far) = f /\ HeightOf(t1, near) = n
        BY <3>1, <3>8, <3>9, <2>8, <2>14
      <4>4. DoublyLiftable(t1, u, root, s, o, up, inner, outer, far, near, beside, x, b, f, n, m)
        BY <4>1, <4>2, <4>3, <2>6, <3>3, <3>11 DEF DoublyLiftable
      <4>5. t1 \in Trees /\ up \in Items /\ inner \in Items
        BY <3>2, <2>7, <1>10
      <4> QED BY <4>4, <4>5, TwiceIs
    <3>13. x.t.height[x.root] \in {m, m + 1}
      BY <3>12, <2>6
    <3> QED BY <3>12, <3>13, <1>18, <1>20, <1>1, <1>2, <1>3, <1>4
  <2> QED BY <2>18, <2>19
<1> QED BY <1>8, <1>19, <1>20

\* x is a tree of the items T; nothing outside S has changed on the way to it.
Grown(t, u, S, x, v, T) ==
  /\ x.t \in Trees /\ v \in Unders /\ x.root \in Node
  /\ Tree(x.t, v, x.root) /\ Under(v, x.root) = T
  /\ Beyond(t, u, x.t, v, S)

\* In t2, a tree of the items T at c is to take the place of child below root; y is t2 with
\* that done, and x what Adjust makes of it.
Hung(t, u, root, s, child, beside, t2, v, S, T, y, c, x) ==
  /\ child = t.kid[s][root] /\ beside = t.kid[Other(s)][root]
  /\ t2 \in Trees /\ v \in Unders /\ c \in Node /\ Tree(t2, v, c) /\ Under(v, c) = T
  /\ Beyond(t, u, t2, v, S) /\ S \cap ({root} \cup Under(u, beside)) = {}
  /\ T \cap ({root} \cup Under(u, beside)) = {} /\ \A z \in T : Ordered(s, z, root)
  /\ c # NULL => y.p[c] = root
  /\ y \in Trees /\ y.root = t2.root /\ y.aborted = t2.aborted /\ y.size = t2.size
  /\ y.height = t2.height
  /\ \A q \in Side : \A i \in Items : y.kid[q][i] = IF q = s /\ i = root THEN c ELSE t2.kid[q][i]
  /\ \A i \in Items : i # c => y.p[i] = t2.p[i]
  /\ x = Adjust(y, root)
  /\ HeightOf(t2, c) - HeightOf(t, child) \in -1..1

\* Adjust then makes one tree of it, and its height follows that of the kid.
LEMMA HangIs ==
  ASSUME NEW t \in Trees, NEW u \in Unders, NEW root \in Items, NEW s \in Side, NEW child,
         NEW beside, NEW t2, NEW v, NEW S \in SUBSET Items, NEW T \in SUBSET Items, NEW y,
         NEW c, NEW x, Tree(t, u, root)
  PROVE  Hung(t, u, root, s, child, beside, t2, v, S, T, y, c, x) =>
           \E w \in Unders :
             /\ Grown(t, u, S \cup T \cup u[root], x, w, {root} \cup T \cup Under(u, beside))
             /\ x.root \in Items /\ x.t.p[x.root] = t.p[root] /\ x.t.size = t2.size
             /\ HeightOf(t2, c) - HeightOf(t, child) \in 0..1
                => x.t.height[x.root] - t.height[root] \in 0..1
             /\ HeightOf(t2, c) - HeightOf(t, child) \in -1..0
                => x.t.height[x.root] - t.height[root] \in -1..0
<1>h. SUFFICES ASSUME Hung(t, u, root, s, child, beside, t2, v, S, T, y, c, x)
      PROVE  \E w \in Unders :
               /\ Grown(t, u, S \cup T \cup u[root], x, w, {root} \cup T \cup Under(u, beside))
               /\ x.root \in Items /\ x.t.p[x.root] = t.p[root] /\ x.t.size = t2.size
               /\ HeightOf(t2, c) - HeightOf(t, child) \in 0..1
                  => x.t.height[x.root] - t.height[root] \in 0..1
               /\ HeightOf(t2, c) - HeightOf(t, child) \in -1..0
                  => x.t.height[x.root] - t.height[root] \in -1..0
  OBVIOUS
<1>o. PICK o \in Side : o = Other(s) /\ o # s /\ \A q \in Side : q = s \/ q = o
  BY Others
<1>1. /\ child = t.kid[s][root] /\ beside = t.kid[o][root] /\ child \in Node /\ beside \in Node
      /\ t2 \in Trees /\ v \in Unders /\ c \in Node
  BY <1>h, <1>o, Kids DEF Hung
<1>2. PICK R \in SUBSET Items : R = Under(u, beside)
  BY <1>1, UnderIs
<1>3. /\ Tree(t2, v, c) /\ Under(v, c) = T /\ Beyond(t, u, t2, v, S)
      /\ S \cap ({root} \cup R) = {} /\ T \cap ({root} \cup R) = {}
      /\ \A z \in T : Ordered(s, z, root)
  BY <1>h, <1>2 DEF Hung
<1>4. /\ c # NULL => y.p[c] = root
      /\ y \in Trees /\ y.root = t2.root /\ y.aborted = t2.aborted /\ y.size = t2.size
      /\ y.height = t2.height
      /\ \A q \in Side : \A i \in Items :
           y.kid[q][i] = IF q = s /\ i = root THEN c ELSE t2.kid[q][i]
      /\ \A i \in Items : i # c => y.p[i] = t2.p[i]
      /\ x = Adjust(y, root)
  BY <1>h DEF Hung
<1>5. /\ Linked(t, u, root) /\ Even(t, root) /\ Joint(t, u, root, s, child, beside)
      /\ Tree(t, u, beside) /\ root \in u[root] /\ root \notin R /\ R \subseteq u[root]
  <2>1. Linked(t, u, root) /\ Even(t, root) /\ root \in u[root]
    BY MapAssumption DEF Tree
  <2>2. Joint(t, u, root, s, child, beside)
    BY <2>1, <1>1, <1>o, JointIs
  <2>3. Tree(t, u, beside)
    BY <1>1, KidTree
  <2> QED BY <2>1, <2>2, <2>3, <1>2 DEF Joint
<1>6. /\ c # NULL => c \in T /\ c \in Items /\ c \in v[c]
      /\ beside # NULL => beside \in R /\ beside \in Items /\ beside \in u[beside] /\ t.p[beside] = root
  <2>1. c # NULL => c \in T /\ c \in Items /\ c \in v[c]
    BY <1>1, <1>3 DEF Tree, Under, Node
  <2>2. beside # NULL => beside \in R /\ beside \in Items /\ beside \in u[beside] /\ t.p[beside] = root
    BY <1>1, <1>2, <1>5 DEF Joint, Under, Node
  <2> QED BY <2>1, <2>2
<1>7. PICK v1 \in Unders : /\ v1[root] = {root} \cup T \cup R
                           /\ \A i \in Items \ {root} : v1[i] = v[i]
  <2>1. [v EXCEPT ![root] = {root} \cup T \cup R] \in Unders
    BY <1>1 DEF Unders
  <2> QED BY <2>1, <1>1 DEF Unders
<1>8. \A i \in R \cup {root} :
        /\ v[i] = u[i] /\ t2.height[i] = t.height[i] /\ t2.p[i] = t.p[i]
        /\ \A q \in Side : t2.kid[q][i] = t.kid[q][i]
  BY <1>3 DEF Beyond
<1>9. y.kid[s][root] = c /\ y.kid[o][root] = beside
  BY <1>1, <1>4, <1>8, <1>o
<1>10. Tree(y, v1, c) /\ Under(v1, c) = T /\ HeightOf(y, c) = HeightOf(t2, c)
  <2>1. \A i \in T : i \in Items \ {root}
    BY <1>3
  <2>2. Untouched(t2, v, y, v1, c)
    BY <2>1, <1>3, <1>4, <1>7 DEF Untouched
  <2> QED BY <2>2, <1>1, <1>3, <1>4, <1>7, SameTree
<1>11. Tree(y, v1, beside) /\ Under(v1, beside) = R /\ HeightOf(y, beside) = HeightOf(t, beside)
  <2>1. \A i \in R : i \in Items \ {root} /\ i # c
    BY <1>3, <1>5, <1>6, MapAssumption
  <2>2. Untouched(t, u, y, v1, beside)
    BY <2>1, <1>2, <1>4, <1>7, <1>8 DEF Untouched
  <2> QED BY <2>2, <1>1, <1>2, <1>4, <1>5, <1>7, SameTree
<1>12. Linked(y, v1, root)
  <2>1. c # NULL => c \in v1[c]
    BY <1>3, <1>6, <1>7
  <2>2. beside # NULL => y.p[beside] = root /\ beside \in v1[beside]
    <3>1. ASSUME beside # NULL PROVE y.p[beside] = root
      BY <3>1, <1>3, <1>4, <1>6, <1>8
    <3>2. ASSUME beside # NULL PROVE beside \in v1[beside]
      BY <3>2, <1>5, <1>6, <1>7, <1>8
    <3> QED BY <3>1, <3>2
  <2>3. \A z \in R : Ordered(o, z, root)
    BY <1>2, <1>5, <1>o DEF Joint
  <2>4. Joint(y, v1, root, s, c, beside)
    BY <2>1, <2>2, <2>3, <1>3, <1>4, <1>5, <1>7, <1>10, <1>11, <1>o DEF Joint
  <2> QED BY <2>4, <1>9, <1>o, JointIs
<1>13. PICK a \in Nat : a = HeightOf(t, child)
  BY <1>1, HeightIs
<1>14. PICK b \in Nat : b = HeightOf(t, beside)
  BY <1>1, HeightIs
<1>15. PICK d \in Nat : d = HeightOf(t2, c)
  BY <1>1, HeightIs
<1>16. d - a \in -1..1 /\ a - b \in -1..1 /\ t.height[root] = Higher(a, b) + 1
  <2>1. a - b \in -1..1 /\ t.height[root] = Higher(a, b) + 1
    BY <1>1, <1>5, <1>13, <1>14, <1>o, EvenIs
  <2> QED BY <2>1, <1>h, <1>13, <1>15 DEF Hung
<1>17. PICK m : m = Higher(HeightOf(y, y.kid["l"][root]), HeightOf(y, y.kid["r"][root]))
  OBVIOUS
<1>18. PICK k : k = HeightOf(y, y.kid["r"][root]) - HeightOf(y, y.kid["l"][root])
  OBVIOUS
<1>19. m = Higher(d, b) /\ (k = d - b \/ k = b - d)
  <2>1. HeightOf(y, c) = d /\ HeightOf(y, beside) = b
    BY <1>10, <1>11, <1>14, <1>15
  <2>2. CASE s = "l"
    <3>1. y.kid["l"][root] = c /\ y.kid["r"][root] = beside
      BY <2>2, <1>9, <1>o DEF Other
    <3> QED BY <3>1, <2>1, <1>17, <1>18
  <2>3. CASE s = "r"
    <3>1. y.kid["r"][root] = c /\ y.kid["l"][root] = beside
      BY <2>3, <1>9, <1>o DEF Other
    <3> QED BY <3>1, <2>1, <1>17, <1>18 DEF Higher
  <2> QED BY <2>2, <2>3 DEF Side
<1>20. k \in -2..2 /\ (k \in -1..1 <=> d - b \in -1..1)
  BY <1>16, <1>19
<1>21. PICK w \in Unders : /\ Adjusted(y, v1, root, x, w) /\ x.t.height[x.root] \in {m, m + 1}
                           /\ k \in -1..1 => x.t.height[x.root] = m + 1
  <2>1. \A q \in Side : Tree(y, v1, y.kid[q][root])
    BY <1>9, <1>10, <1>11, <1>o
  <2>2. Adjustable(y, v1, root, x, m, k)
    BY <2>1, <1>4, <1>12, <1>17, <1>18, <1>20 DEF Adjustable
  <2> QED BY <2>2, AdjustIs
<1>22. /\ d - a \in 0..1 => x.t.height[x.root] - t.height[root] \in 0..1
       /\ d - a \in -1..0 => x.t.height[x.root] - t.height[root] \in -1..0
  BY <1>16, <1>19, <1>20, <1>21 DEF Higher
<1>23. Beyond(t, u, x.t, w, S \cup T \cup u[root])
  <2>1. Beyond(y, v1, x.t, w, v1[root]) /\ v1[root] \in SUBSET Items /\ u[root] \in SUBSET Items
    BY <1>21 DEF Adjusted, Unders
  <2>2. v1[root] \subseteq S \cup T \cup u[root]
    BY <1>5, <1>7
  <2>3. Beyond(t, u, y, v1, S \cup T \cup u[root])
    <3>1. \A i \in Items \ (S \cup T \cup u[root]) : i # root /\ i # c
      BY <1>5, <1>6, MapAssumption
    <3> QED BY <3>1, <1>3, <1>4, <1>7 DEF Beyond
  <2> QED BY <2>1, <2>2, <2>3, BeyondIs
<1>24. x.t.p[x.root] = t.p[root]
  <2>1. root # c
    BY <1>3, <1>6, MapAssumption
  <2> QED BY <2>1, <1>4, <1>8, <1>21 DEF Adjusted
<1>25. Grown(t, u, S \cup T \cup u[root], x, w, {root} \cup T \cup Under(u, beside))
  <2>1. x.root \in Node /\ x.root # NULL
    BY <1>21, MapAssumption DEF Adjusted, Node
  <2> QED BY <2>1, <1>2, <1>7, <1>21, <1>23 DEF Grown, Adjusted, Under
<1>26. x.root \in Items /\ x.t.size = t2.size
  BY <1>4, <1>21 DEF Adjusted
<1> QED BY <1>13, <1>15, <1>22, <1>24, <1>25, <1>26

\* The bodies of the recursive functions of the map: f is the function.
Leaf(t, n, parent) ==
  [t |-> [t EXCEPT !.p[n] = parent, !.kid["l"][n] = NULL, !.kid["r"][n] = NULL,
                   !.height[n] = 1, !.size = @ + 1], root |-> n]

Below(f, t, n, root) ==
  LET s == IF Key[n] < Key[root] THEN "l" ELSE "r"
      child == t.kid[s][root]
      sub == IF child = NULL THEN Leaf(t, n, root) ELSE f[child]
  IN Adjust(SetKid(sub.t, root, s, sub.root), root)

Extreme(f, t, s, root) ==
  LET child == t.kid[s][root]
      sub == f[child]
  IN IF child = NULL THEN Returning(Adjust(t, t.kid[Other(s)][root]), root)
     ELSE Returning(Adjust(SetParent(SetKid(sub.t, root, s, sub.root), sub.root, root), root), sub.ret)

Rest(f, t, n, root) ==
  LET Found(s) == /\ IF s = "l" THEN Key[n] <= Key[root] ELSE Key[n] >= Key[root]
                  /\ f[t.kid[s][root]].ret
      s == IF Found("l") THEN "l" ELSE "r"
      sub == f[t.kid[s][root]]
  IN IF root = NULL THEN [t |-> t, root |-> NULL, ret |-> FALSE]
     ELSE IF root = n
     THEN LET x == Unlink(t, n) IN Returning([x EXCEPT !.t.size = @ - 1], TRUE)
     ELSE IF Found(s) THEN Returning(Adjust(SetKid(sub.t, root, s, sub.root), root), TRUE)
     ELSE [t |-> t, root |-> root, ret |-> FALSE]

Got(f, t, key, n) ==
  IF n = NULL THEN n
  ELSE IF Key[n] = key THEN n
  ELSE f[t.kid[IF key < Key[n] THEN "l" ELSE "r"][n]]

Most(f, t, n) ==
  IF n = NULL THEN n ELSE IF t.kid["l"][n] = NULL THEN n ELSE f[t.kid["l"][n]]

Upward(f, t, n) ==
  LET parent == t.p[n]
  IN IF parent = NULL THEN NULL ELSE IF t.kid["r"][parent] = n THEN f[parent] ELSE parent

Met(f, k) ==
  LET After(n) == IF n = NULL THEN NULL ELSE Bigger(n)
  IN IF k = 0 THEN Leftmost(avl.root) ELSE After(f[k - 1])

Body(of, f, t, n, s, x) ==
  IF of = "below" THEN Below(f, t, n, x)
  ELSE IF of = "last" THEN Extreme(f, t, s, x)
  ELSE IF of = "rest" THEN Rest(f, t, n, x)
  ELSE IF of = "got" THEN Got(f, t, n, x)
  ELSE IF of = "most" THEN Most(f, t, x)
  ELSE IF of = "above" THEN Upward(f, t, x)
  ELSE Met(f, x)

Solves(f, D, of, t, n, s) == f = [x \in D |-> Body(of, f, t, n, s, x)]

\* The body uses its function only on what ranks lower.
Local(D, rank, of, t, n, s) ==
  \A f, g : \A x \in D : (\A z \in D : rank[z] < rank[x] => f[z] = g[z])
                         => Body(of, f, t, n, s, x) = Body(of, g, t, n, s, x)

\* A function whose body uses it only on what ranks lower exists: by way of the least
\* rank up to which there would be none.
LEMMA RecursionExists ==
  ASSUME NEW D, NEW rank \in [D -> Nat], NEW H \in Nat, NEW of, NEW t, NEW n, NEW s,
         \A x \in D : rank[x] < H, Local(D, rank, of, t, n, s)
  PROVE  \E f : Solves(f, D, of, t, n, s)
<1> DEFINE Upto(f, k) == \A x \in D : rank[x] < k => f[x] = Body(of, f, t, n, s, x)
           Bad == {k \in Nat : ~ \E f : Upto(f, k)}
<1>1. Bad = {}
  <2>1. SUFFICES ASSUME Bad # {} PROVE FALSE
    OBVIOUS
  <2>2. PICK k \in Bad : \A j \in Bad : k <= j
    <3>1. Bad \subseteq Nat
      OBVIOUS
    <3> HIDE DEF Bad
    <3> QED BY <2>1, <3>1, LeastNumber
  <2>3. k \in Nat /\ ~ \E f : Upto(f, k)
    BY <2>2
  <2>4. k # 0
    <3>1. \A x \in D : ~(rank[x] < 0)
      OBVIOUS
    <3>2. Upto(D, 0)
      BY <3>1
    <3> HIDE DEF Upto
    <3> QED BY <3>2, <2>3
  <2>5. k - 1 \in Nat /\ ~(k <= k - 1)
    BY <2>3, <2>4
  <2>6. PICK f : Upto(f, k - 1)
    <3>1. k - 1 \notin Bad
      <4> HIDE DEF Bad
      <4> QED BY <2>2, <2>5
    <3> HIDE DEF Upto
    <3> QED BY <3>1, <2>5
  <2>7. PICK g : g = [x \in D |-> IF rank[x] < k - 1 THEN f[x] ELSE Body(of, f, t, n, s, x)]
    OBVIOUS
  <2>8. ASSUME NEW x \in D, rank[x] < k PROVE g[x] = Body(of, g, t, n, s, x)
    <3>1. g[x] = Body(of, f, t, n, s, x)
      BY <2>6, <2>7
    <3>2. \A z \in D : rank[z] < rank[x] => f[z] = g[z]
      <4>1. \A z \in D : rank[z] < rank[x] => rank[z] < k - 1
        BY <2>8, <2>3
      <4> QED BY <4>1, <2>7
    <3>3. Body(of, f, t, n, s, x) = Body(of, g, t, n, s, x)
      BY <3>2 DEF Local
    <3> QED BY <3>1, <3>3
  <2>9. Upto(g, k)
    BY <2>8
  <2> HIDE DEF Upto
  <2> QED BY <2>9, <2>3
<1>2. PICK f : Upto(f, H)
  <2>1. H \notin Bad
    <3> HIDE DEF Bad
    <3> QED BY <1>1
  <2> HIDE DEF Upto
  <2> QED BY <2>1
<1>3. PICK g : g = [x \in D |-> Body(of, f, t, n, s, x)]
  OBVIOUS
<1>4. ASSUME NEW x \in D PROVE g[x] = Body(of, g, t, n, s, x)
  <2>1. \A z \in D : f[z] = g[z]
    BY <1>2, <1>3
  <2>2. Body(of, f, t, n, s, x) = Body(of, g, t, n, s, x)
    BY <2>1 DEF Local
  <2> QED BY <2>2, <1>3
<1>5. g = [x \in D |-> g[x]]
  BY <1>3
<1>6. g = [x \in D |-> Body(of, g, t, n, s, x)]
  BY <1>4, <1>5
<1> QED BY <1>6 DEF Solves

\* In a tree the kids rank below their parent.
Ranked(t, rank, H) ==
  /\ rank \in [Node -> Nat] /\ H \in Nat /\ \A x \in Node : rank[x] < H
  /\ \A x \in Items : \A s \in Side : t.kid[s][x] \in Node /\ rank[t.kid[s][x]] < rank[x]
  /\ \A x \in Items : rank[x] = t.height[x] + 1

\* In a whole tree the heights are such a rank.
LEMMA RanksExist ==
  ASSUME NEW t, NEW u, NEW S, Whole(t, u, S)
  PROVE  \E rank : \E H : Ranked(t, rank, H)
<1>1. t \in Trees /\ u \in Unders /\ Tree(t, u, t.root) /\ Under(u, t.root) = S
      /\ t.root \in Node /\ \A x \in Items \ S : Loose(t, x)
  BY DEF Whole, Trees
<1>2. PICK top \in Nat : \A x \in S : t.height[x] <= top
  <2>1. CASE t.root = NULL
    <3>1. S = {} /\ 0 \in Nat
      BY <2>1, <1>1 DEF Under
    <3> QED BY <3>1
  <2>2. CASE t.root # NULL
    <3>1. t.root \in Items /\ S = u[t.root] /\ Closed(t, u, t.root)
      BY <2>2, <1>1 DEF Under, Tree, Node
    <3>2. t.height[t.root] \in Nat
      BY <3>1, <1>1, Kids DEF Side
    <3> QED BY <3>1, <3>2 DEF Closed
  <2> QED BY <2>1, <2>2
<1>3. PICK rank : rank = [x \in Node |-> IF x = NULL THEN 0 ELSE t.height[x] + 1]
  OBVIOUS
<1>4. \A x \in Items : rank[x] = t.height[x] + 1 /\ t.height[x] \in Nat
  BY <1>1, <1>3, Kids, MapAssumption DEF Node, Side
<1>5. rank[NULL] = 0
  BY <1>3 DEF Node
<1>6. rank \in [Node -> Nat]
  BY <1>3, <1>4, <1>5 DEF Node
<1>7. \A x \in Node : rank[x] < top + 2
  <2>1. \A x \in Items : t.height[x] <= top
    BY <1>1, <1>2 DEF Loose
  <2> QED BY <2>1, <1>4, <1>5 DEF Node
<1>8. ASSUME NEW x \in Items, NEW s \in Side
      PROVE  t.kid[s][x] \in Node /\ rank[t.kid[s][x]] < rank[x]
  <2>1. PICK k \in Node : k = t.kid[s][x]
    BY <1>1, Kids
  <2>2. CASE k = NULL
    BY <2>1, <2>2, <1>4, <1>5
  <2>3. CASE k # NULL
    <3>1. x \in S /\ t.root # NULL
      BY <2>1, <2>3, <1>1 DEF Loose, Under
    <3>2. Even(t, x)
      BY <3>1, <1>1 DEF Tree, Under
    <3>3. PICK o \in Node : o = t.kid[Other(s)][x]
      BY <1>1, Kids, Others
    <3>4. PICK a \in Nat : a = HeightOf(t, k)
      BY <1>1, HeightIs
    <3>5. PICK b \in Nat : b = HeightOf(t, o)
      BY <1>1, HeightIs
    <3>6. t.height[x] = Higher(a, b) + 1
      BY <3>2, <3>3, <3>4, <3>5, <2>1, <1>1, EvenIs
    <3>7. a = t.height[k] /\ k \in Items
      BY <2>3, <3>4 DEF HeightOf, Node
    <3> QED BY <3>6, <3>7, <2>1, <1>4 DEF Higher
  <2> QED BY <2>2, <2>3
<1>9. Ranked(t, rank, top + 2)
  BY <1>4, <1>6, <1>7, <1>8 DEF Ranked
<1> QED BY <1>9

Planted(t, u, n, c, x) ==
  t \in Trees /\ u \in Unders /\ n \in Items /\ c \in Node /\ x = Leaf(t, n, c)

Sprung(t, u, n, c, x) ==
  \E v \in Unders : /\ Grown(t, u, {n}, x, v, {n}) /\ x.root = n /\ x.t.p[n] = c
                    /\ x.t.size = t.size + 1 /\ HeightOf(x.t, n) = 1

\* An item that is planted is a tree by itself.
LEMMA LeafIs ==
  ASSUME NEW t, NEW u, NEW n, NEW c, NEW x
  PROVE  Planted(t, u, n, c, x) => Sprung(t, u, n, c, x)
<1> SUFFICES ASSUME t \in Trees, u \in Unders, n \in Items, c \in Node, x = Leaf(t, n, c)
             PROVE  Sprung(t, u, n, c, x)
  BY DEF Planted
<1>1. PICK v \in Unders : v[n] = {n} /\ \A i \in Items \ {n} : v[i] = u[i]
  <2>1. [u EXCEPT ![n] = {n}] \in Unders
    BY DEF Unders
  <2> QED BY <2>1 DEF Unders
<1>2. x.root = n /\ x.t = [t EXCEPT !.p[n] = c, !.kid["l"][n] = NULL, !.kid["r"][n] = NULL,
                                    !.height[n] = 1, !.size = @ + 1]
  BY DEF Leaf
<1>3. /\ x.t \in Trees /\ x.t.root = t.root /\ x.t.aborted = t.aborted /\ x.t.size = t.size + 1
      /\ \A i \in Items : x.t.p[i] = IF i = n THEN c ELSE t.p[i]
      /\ \A i \in Items : x.t.height[i] = IF i = n THEN 1 ELSE t.height[i]
      /\ \A q \in Side : \A i \in Items : x.t.kid[q][i] = IF i = n THEN NULL ELSE t.kid[q][i]
  <2>1. PICK kid : kid = [[t.kid EXCEPT !["l"][n] = NULL] EXCEPT !["r"][n] = NULL]
    OBVIOUS
  <2>2. t.kid \in [Side -> [Items -> Node]]
    BY DEF Trees
  <2>3. /\ kid \in [Side -> [Items -> Node]]
        /\ \A q \in Side : \A i \in Items : kid[q][i] = IF i = n THEN NULL ELSE t.kid[q][i]
    BY <2>1, <2>2 DEF Side, Node
  <2>4. x.t = [t EXCEPT !.p = [t.p EXCEPT ![n] = c], !.kid = kid,
                        !.height = [t.height EXCEPT ![n] = 1], !.size = t.size + 1]
    BY <1>2, <2>1, ZenonT(60) DEF Trees
  <2> HIDE <2>1
  <2>5. /\ x.t.root = t.root /\ x.t.aborted = t.aborted /\ x.t.size = t.size + 1
        /\ x.t.p = [t.p EXCEPT ![n] = c] /\ x.t.height = [t.height EXCEPT ![n] = 1]
        /\ x.t.kid = kid /\ DOMAIN x.t = DOMAIN t
    BY <2>4 DEF Trees
  <2>6. x.t \in Trees
    <3>1. /\ [t.p EXCEPT ![n] = c] \in [Items -> Node] /\ [t.height EXCEPT ![n] = 1] \in [Items -> Nat]
          /\ t.size + 1 \in Int /\ t.root \in Node /\ t.aborted \in BOOLEAN
      BY DEF Trees
    <3>2. PICK p \in [Items -> Node] : p = [t.p EXCEPT ![n] = c]
      BY <3>1
    <3>3. PICK height \in [Items -> Nat] : height = [t.height EXCEPT ![n] = 1]
      BY <3>1
    <3>4. x.t = [t EXCEPT !.p = p, !.kid = kid, !.height = height, !.size = t.size + 1]
      BY <2>4, <3>2, <3>3
    <3>5. x.t = [root |-> t.root, kid |-> kid, p |-> p, height |-> height, size |-> t.size + 1,
                 aborted |-> t.aborted]
      BY <3>4 DEF Trees
    <3> QED BY <2>3, <3>1, <3>5 DEF Trees
  <2>7. t.p \in [Items -> Node] /\ t.height \in [Items -> Nat]
    BY DEF Trees
  <2> QED BY <2>3, <2>5, <2>6, <2>7
<1>4. n # NULL /\ HeightOf(x.t, n) = 1 /\ x.t.kid["l"][n] = NULL /\ x.t.kid["r"][n] = NULL
  BY <1>3, MapAssumption DEF HeightOf, Side
<1>5. Linked(x.t, v, n) /\ Even(x.t, n)
  <2>1. \A q \in Side : x.t.kid[q][n] = NULL
    BY <1>3
  <2>2. Linked(x.t, v, n)
    BY <2>1, <1>1, <1>4 DEF Linked, Under
  <2> QED BY <2>2, <1>3, <1>4 DEF Even, HeightOf, Higher
<1>6. Tree(x.t, v, n)
  <2>1. Closed(x.t, v, n)
    BY <1>1, <1>3 DEF Closed
  <2> QED BY <2>1, <1>1, <1>5 DEF Tree
<1>7. Beyond(t, u, x.t, v, {n})
  BY <1>1, <1>3 DEF Beyond
<1>8. Grown(t, u, {n}, x, v, {n})
  BY <1>1, <1>2, <1>3, <1>4, <1>6, <1>7 DEF Grown, Under, Node
<1> QED BY <1>2, <1>3, <1>4, <1>8 DEF Sprung

\* x is the tree at c with n in it.
Inserted(t, u, n, c, x, v) ==
  /\ Grown(t, u, u[c] \cup {n}, x, v, u[c] \cup {n}) /\ x.root \in Items
  /\ x.t.p[x.root] = t.p[c] /\ x.t.size = t.size + 1
  /\ HeightOf(x.t, x.root) - t.height[c] \in 0..1

\* What __insert makes of a tree below any item, by way of the lowest where it would not.
LEMMA BelowIs ==
  ASSUME NEW t \in Trees, NEW u \in Unders, NEW n \in Items, NEW f,
         \A c \in Items : f[c] = Below(f, t, n, c)
  PROVE  \A c \in Items : Tree(t, u, c) /\ n \notin u[c] => \E v \in Unders : Inserted(t, u, n, c, f[c], v)
<1> DEFINE Bad(c) == Tree(t, u, c) /\ n \notin u[c] /\ ~ \E v \in Unders : Inserted(t, u, n, c, f[c], v)
           BadHeights == {t.height[c] : c \in {i \in Items : Bad(i)}}
<1>1. SUFFICES ASSUME BadHeights # {} PROVE FALSE
  OBVIOUS
<1>2. PICK k \in BadHeights : \A j \in BadHeights : k <= j
  <2>1. BadHeights \subseteq Nat
    BY Kids DEF Side
  <2> HIDE DEF BadHeights
  <2> QED BY <2>1, <1>1, LeastNumber
<1>3. PICK c \in Items : Bad(c) /\ \A i \in Items : Bad(i) => t.height[c] <= t.height[i]
  BY <1>2
<1> HIDE DEF BadHeights
<1>4. Tree(t, u, c) /\ n \notin u[c] /\ ~ \E v \in Unders : Inserted(t, u, n, c, f[c], v)
  BY <1>3
<1>5. ASSUME NEW i \in Items, Tree(t, u, i), n \notin u[i], t.height[i] < t.height[c]
      PROVE  \E v \in Unders : Inserted(t, u, n, i, f[i], v)
  <2>1. ~Bad(i)
    <3>1. t.height[i] \in Nat /\ t.height[c] \in Nat
      BY Kids DEF Side
    <3> HIDE DEF Bad
    <3> QED BY <3>1, <1>3, <1>5
  <2> QED BY <2>1, <1>5
<1> HIDE DEF Bad
<1>6. PICK s \in Side : s = IF Key[n] < Key[c] THEN "l" ELSE "r"
  BY DEF Side
<1>7. PICK child \in Node : child = t.kid[s][c]
  BY Kids
<1>8. PICK beside \in Node : beside = t.kid[Other(s)][c]
  BY Kids, Others
<1>9. PICK sub : sub = IF child = NULL THEN Leaf(t, n, c) ELSE f[child]
  OBVIOUS
<1>10. f[c] = Adjust(SetKid(sub.t, c, s, sub.root), c)
  BY <1>6, <1>7, <1>9 DEF Below
<1>11. /\ c \in u[c] /\ c # n /\ n \notin Under(u, child) /\ n \notin Under(u, beside)
       /\ u[c] = {c} \cup Under(u, child) \cup Under(u, beside) /\ u[c] \in SUBSET Items
       /\ Under(u, child) \cap Under(u, beside) = {}
       /\ c \notin Under(u, child) /\ c \notin Under(u, beside)
       /\ \A z \in Under(u, child) : Ordered(s, z, c)
  <2>1. Joint(t, u, c, s, child, beside) /\ c \in u[c]
    BY <1>4, <1>7, <1>8, JointIs, MapAssumption DEF Tree
  <2> QED BY <2>1, <1>4 DEF Joint, Unders
<1>12. Ordered(s, n, c)
  <2>1. Key[n] \in Int /\ Key[c] \in Int
    BY MapAssumption
  <2> QED BY <2>1, <1>6 DEF Ordered
<1>13. PICK h \in Nat : h = HeightOf(t, child)
  BY HeightIs
<1>14. PICK S \in SUBSET Items : S = Under(u, child) \cup {n}
  BY <1>11
<1>15. \E v \in Unders : /\ Grown(t, u, S, sub, v, S) /\ sub.root \in Items
                         /\ sub.t.p[sub.root] = c /\ sub.t.size = t.size + 1
                         /\ HeightOf(sub.t, sub.root) - h \in 0..1
  <2>1. CASE child = NULL
    <3>1. sub = Leaf(t, n, c) /\ S = {n} /\ h = 0 /\ c \in Node
      BY <2>1, <1>9, <1>13, <1>14 DEF Under, HeightOf, Node
    <3>2. PICK v \in Unders : Grown(t, u, {n}, sub, v, {n}) /\ sub.root = n /\ sub.t.p[n] = c
                              /\ sub.t.size = t.size + 1 /\ HeightOf(sub.t, n) = 1
      <4>1. Planted(t, u, n, c, sub)
        BY <3>1 DEF Planted
      <4>2. Sprung(t, u, n, c, sub)
        BY <4>1, LeafIs
      <4> QED BY <4>2 DEF Sprung
    <3> QED BY <3>1, <3>2
  <2>2. CASE child # NULL
    <3>1. child \in Items /\ Under(u, child) = u[child] /\ HeightOf(t, child) = t.height[child]
      BY <2>2 DEF Node, Under, HeightOf
    <3>2. Tree(t, u, child) /\ t.p[child] = c
      BY <2>2, <1>4, <1>7, KidTree
    <3>3. t.height[child] < t.height[c]
      <4>1. PICK b \in Nat : b = HeightOf(t, beside)
        BY HeightIs
      <4>2. Even(t, c)
        BY <1>4, MapAssumption DEF Tree
      <4>3. t.height[c] = Higher(h, b) + 1
        BY <4>1, <4>2, <1>7, <1>8, <1>13, EvenIs
      <4> QED BY <4>3, <3>1, <1>13 DEF Higher
    <3>4. PICK v \in Unders : Inserted(t, u, n, child, f[child], v)
      BY <3>1, <3>2, <3>3, <1>5, <1>11
    <3>5. sub = f[child]
      BY <2>2, <1>9
    <3> QED BY <3>1, <3>2, <3>4, <3>5, <1>13, <1>14 DEF Inserted
  <2> QED BY <2>1, <2>2
<1>16. PICK v \in Unders : /\ Grown(t, u, S, sub, v, S) /\ sub.root \in Items
                           /\ sub.t.p[sub.root] = c /\ sub.t.size = t.size + 1
                           /\ HeightOf(sub.t, sub.root) - h \in 0..1
  BY <1>15
<1>17. PICK y : y = SetKid(sub.t, c, s, sub.root)
  OBVIOUS
<1>18. KidSet(sub.t, c, s, sub.root, y)
  <2>1. sub.t \in Trees /\ sub.root \in Node
    BY <1>16 DEF Grown
  <2> QED BY <2>1, <1>17, SetKidIs
<1>19. PICK r : r = f[c]
  OBVIOUS
<1>20. Hung(t, u, c, s, child, beside, sub.t, v, S, S, y, sub.root, r)
  <2>1. /\ y \in Trees /\ y.root = sub.t.root /\ y.aborted = sub.t.aborted /\ y.size = sub.t.size
        /\ y.height = sub.t.height /\ y.p = sub.t.p
        /\ \A q \in Side : \A i \in Items :
             y.kid[q][i] = IF q = s /\ i = c THEN sub.root ELSE sub.t.kid[q][i]
    BY <1>18 DEF KidSet
  <2>2. /\ sub.t \in Trees /\ sub.root \in Node /\ Tree(sub.t, v, sub.root)
        /\ Under(v, sub.root) = S /\ Beyond(t, u, sub.t, v, S)
    BY <1>16 DEF Grown
  <2>3. S \cap ({c} \cup Under(u, beside)) = {} /\ \A z \in S : Ordered(s, z, c)
    BY <1>11, <1>12, <1>14
  <2>4. r = Adjust(y, c)
    BY <1>10, <1>17, <1>19
  <2>5. HeightOf(sub.t, sub.root) - HeightOf(t, child) \in -1..1
    BY <1>13, <1>16
  <2> QED BY <2>1, <2>2, <2>3, <2>4, <2>5, <1>7, <1>8, <1>16 DEF Hung
<1>21. PICK w \in Unders :
         /\ Grown(t, u, S \cup S \cup u[c], r, w, {c} \cup S \cup Under(u, beside))
         /\ r.root \in Items /\ r.t.p[r.root] = t.p[c] /\ r.t.size = sub.t.size
         /\ HeightOf(sub.t, sub.root) - HeightOf(t, child) \in 0..1
            => r.t.height[r.root] - t.height[c] \in 0..1
         /\ HeightOf(sub.t, sub.root) - HeightOf(t, child) \in -1..0
            => r.t.height[r.root] - t.height[c] \in -1..0
  BY <1>4, <1>20, HangIs
<1>22. S \cup S \cup u[c] = u[c] \cup {n} /\ {c} \cup S \cup Under(u, beside) = u[c] \cup {n}
  BY <1>11, <1>14
<1>23. HeightOf(r.t, r.root) - t.height[c] \in 0..1
  <2>1. HeightOf(r.t, r.root) = r.t.height[r.root]
    BY <1>21, MapAssumption DEF HeightOf
  <2> QED BY <2>1, <1>13, <1>16, <1>21
<1>24. Inserted(t, u, n, c, r, w)
  BY <1>16, <1>21, <1>22, <1>23 DEF Inserted
<1> QED BY <1>4, <1>19, <1>24

\* The function that Insert defines exists.
LEMMA BelowExists ==
  ASSUME NEW t, NEW u, NEW S, NEW n, Whole(t, u, S)
  PROVE  \E f : Solves(f, Items, "below", t, n, "l")
<1>1. PICK rank, H : Ranked(t, rank, H)
  BY RanksExist
<1>2. PICK its \in [Items -> Nat] : \A x \in Items : its[x] = rank[x]
  <2>1. [x \in Items |-> rank[x]] \in [Items -> Nat]
    BY <1>1 DEF Ranked, Node
  <2> QED BY <2>1
<1>3. H \in Nat /\ \A x \in Items : its[x] < H
  BY <1>1, <1>2 DEF Ranked, Node
<1>4. ASSUME NEW f, NEW g, NEW x \in Items, \A z \in Items : its[z] < its[x] => f[z] = g[z]
      PROVE  Body("below", f, t, n, "l", x) = Body("below", g, t, n, "l", x)
  <2>1. \A s \in Side : t.kid[s][x] = NULL \/ f[t.kid[s][x]] = g[t.kid[s][x]]
    BY <1>1, <1>2, <1>4 DEF Ranked, Node
  <2>2. Below(f, t, n, x) = Below(g, t, n, x)
    <3>1. PICK s \in Side : s = IF Key[n] < Key[x] THEN "l" ELSE "r"
      BY DEF Side
    <3>2. (IF t.kid[s][x] = NULL THEN Leaf(t, n, x) ELSE f[t.kid[s][x]])
          = (IF t.kid[s][x] = NULL THEN Leaf(t, n, x) ELSE g[t.kid[s][x]])
      BY <2>1
    <3> QED BY <3>1, <3>2 DEF Below
  <2> QED BY <2>2 DEF Body
<1>5. Local(Items, its, "below", t, n, "l")
  BY <1>4 DEF Local
<1> QED BY <1>2, <1>3, <1>5, RecursionExists

\* __insert at the root of the map.
LEMMA InsertIs ==
  ASSUME NEW t, NEW u, NEW S, Whole(t, u, S), NEW n \in Items \ S, NEW x, x = Insert(t, n)
  PROVE  \E v \in Unders : /\ Grown(t, u, S \cup {n}, x, v, S \cup {n}) /\ x.root \in Items
                           /\ x.t.p[x.root] = NULL /\ x.t.size = t.size + 1
<1> DEFINE Its(f) == f = [root \in Items |-> Below(f, t, n, root)]
           below == CHOOSE f : Its(f)
<1>1. Its(below)
  <2>1. PICK f : Solves(f, Items, "below", t, n, "l")
    BY BelowExists
  <2>2. Its(f)
    BY <2>1 DEF Solves, Body
  <2> HIDE DEF Its
  <2> QED BY <2>2
<1>2. x = IF t.root = NULL THEN Leaf(t, n, NULL) ELSE below[t.root]
  BY Zenon DEF Insert, Below, Leaf
<1>3. \A c \in Items : below[c] = Below(below, t, n, c)
  BY <1>1
<1> HIDE DEF below
<1>4. /\ t \in Trees /\ u \in Unders /\ S \in SUBSET Items /\ Tree(t, u, t.root)
      /\ Under(u, t.root) = S /\ t.root \in Node /\ (t.root # NULL => t.p[t.root] = NULL)
  BY DEF Whole, Trees
<1>5. CASE t.root = NULL
  <2>1. S = {} /\ S \cup {n} = {n} /\ NULL \in Node
    BY <1>4, <1>5 DEF Under, Node
  <2>2. \E v \in Unders : Grown(t, u, {n}, x, v, {n}) /\ x.root = n /\ x.t.p[n] = NULL
                          /\ x.t.size = t.size + 1 /\ HeightOf(x.t, n) = 1
    <3>1. Planted(t, u, n, NULL, x)
      BY <2>1, <1>2, <1>4, <1>5 DEF Planted
    <3>2. Sprung(t, u, n, NULL, x)
      BY <3>1, LeafIs
    <3> QED BY <3>2 DEF Sprung
  <2> QED BY <2>1, <2>2
<1>6. CASE t.root # NULL
  <2>1. t.root \in Items /\ u[t.root] = S
    BY <1>4, <1>6 DEF Under, Node
  <2>2. PICK v \in Unders : Inserted(t, u, n, t.root, x, v)
    BY <2>1, <1>2, <1>3, <1>4, <1>6, BelowIs
  <2> QED BY <2>1, <2>2, <1>4, <1>6 DEF Inserted
<1> QED BY <1>5, <1>6

\* A tree that has grown out of a whole one is whole when the rest is loose.
LEMMA WholeAgain ==
  ASSUME NEW t, NEW u, NEW S, Whole(t, u, S), NEW n \in Items, NEW T \in SUBSET Items,
         NEW x, NEW v, NEW r, Grown(t, u, S \cup {n}, x, v, T),
         r \in Trees, r.root = x.root, ~r.aborted, IsFiniteSet(T), r.size = Cardinality(T),
         \A i \in (S \cup {n}) \ T : Loose(r, i),
         \A i \in Items \ ((S \cup {n}) \ T) :
           /\ r.height[i] = x.t.height[i] /\ r.p[i] = x.t.p[i]
           /\ \A q \in Side : r.kid[q][i] = x.t.kid[q][i],
         T \subseteq S \cup {n}, x.root # NULL => x.t.p[x.root] = NULL
  PROVE  Whole(r, v, T)
<1>1. /\ x.t \in Trees /\ v \in Unders /\ x.root \in Node /\ Tree(x.t, v, x.root)
      /\ Under(v, x.root) = T /\ Beyond(t, u, x.t, v, S \cup {n})
  BY DEF Grown
<1>2. Untouched(x.t, v, r, v, x.root)
  BY <1>1 DEF Untouched
<1>3. Tree(r, v, r.root)
  BY <1>1, <1>2, SameTree
<1>4. ASSUME r.root # NULL PROVE r.p[r.root] = NULL
  <2>1. x.root \in T
    BY <1>1, <1>4 DEF Tree, Under
  <2> QED BY <2>1, <1>4
<1>5. ASSUME NEW i \in Items \ T PROVE Loose(r, i)
  <2>1. CASE i \in S \cup {n}
    BY <2>1, <1>5
  <2>2. CASE i \notin S \cup {n}
    <3>1. Loose(t, i)
      BY <2>2 DEF Whole
    <3> QED BY <3>1, <2>2, <1>1 DEF Loose, Beyond
  <2> QED BY <2>1, <2>2
<1> QED BY <1>1, <1>3, <1>4, <1>5 DEF Whole

\* With an item added the tree is whole.
LEMMA AddKeeps ==
  ASSUME NEW t, NEW u, NEW S, Whole(t, u, S), NEW n \in Items \ S
  PROVE  \E v \in Unders : Whole(Rooted(Insert(t, n)), v, S \cup {n})
<1>1. PICK x : x = Insert(t, n)
  OBVIOUS
<1>2. PICK v \in Unders : /\ Grown(t, u, S \cup {n}, x, v, S \cup {n}) /\ x.root \in Items
                          /\ x.t.p[x.root] = NULL /\ x.t.size = t.size + 1
  BY <1>1, InsertIs
<1>3. PICK r : r = Rooted(x)
  OBVIOUS
<1>4. x.t \in Trees /\ x.root \in Node /\ x.t.aborted = t.aborted /\ t.aborted = FALSE
  BY <1>2 DEF Grown, Beyond, Whole, Trees
<1>5. /\ r \in Trees /\ r.root = x.root /\ r.kid = x.t.kid /\ r.p = x.t.p /\ r.height = x.t.height
      /\ r.size = x.t.size /\ r.aborted = x.t.aborted
  BY <1>3, <1>4 DEF Rooted, Trees
<1>6. S \cup {n} \in SUBSET Items /\ IsFiniteSet(S \cup {n}) /\ Cardinality(S \cup {n}) = r.size
  <2>1. IsFiniteSet(S) /\ t.size = Cardinality(S) /\ S \subseteq Items
    BY DEF Whole
  <2> QED BY <2>1, <1>2, <1>5, FS_AddElement
<1>7. Whole(r, v, S \cup {n})
  BY <1>2, <1>4, <1>5, <1>6, WholeAgain
<1> QED BY <1>1, <1>3, <1>7

\* The function that RemoveLast defines exists.
LEMMA ExtremeExists ==
  ASSUME NEW t, NEW u, NEW S, NEW s \in Side, Whole(t, u, S)
  PROVE  \E f : Solves(f, Items, "last", t, NULL, s)
<1>1. PICK rank, H : Ranked(t, rank, H)
  BY RanksExist
<1>2. PICK its \in [Items -> Nat] : \A x \in Items : its[x] = rank[x]
  <2>1. [x \in Items |-> rank[x]] \in [Items -> Nat]
    BY <1>1 DEF Ranked, Node
  <2> QED BY <2>1
<1>3. H \in Nat /\ \A x \in Items : its[x] < H
  BY <1>1, <1>2 DEF Ranked, Node
<1>4. ASSUME NEW f, NEW g, NEW x \in Items, \A z \in Items : its[z] < its[x] => f[z] = g[z]
      PROVE  Body("last", f, t, NULL, s, x) = Body("last", g, t, NULL, s, x)
  <2>1. t.kid[s][x] = NULL \/ f[t.kid[s][x]] = g[t.kid[s][x]]
    BY <1>1, <1>2, <1>4 DEF Ranked, Node
  <2>2. Extreme(f, t, s, x) = Extreme(g, t, s, x)
    BY <2>1 DEF Extreme
  <2> QED BY <2>2 DEF Body
<1>5. Local(Items, its, "last", t, NULL, s)
  BY <1>4 DEF Local
<1> QED BY <1>2, <1>3, <1>5, RecursionExists

\* x is the tree at c without its last item at side s.
Taken(t, u, s, c, x, v) ==
  /\ x.ret \in u[c] /\ x.ret \in Items /\ \A y \in u[c] : Ordered(s, x.ret, y)
  /\ Grown(t, u, u[c], x, v, u[c] \ {x.ret})
  /\ x.t.size = t.size /\ HeightOf(x.t, x.root) - t.height[c] \in -1..0

\* The fields of what __removeMin and __remove return.
LEMMA ReturningIs ==
  ASSUME NEW x, NEW ret, NEW r, r = Returning(x, ret)
  PROVE  r.t = x.t /\ r.root = x.root /\ r.ret = ret
BY DEF Returning

\* An item may stand next to one of its key, at either side.
LEMMA SelfOrdered ==
  ASSUME NEW s \in Side, NEW a \in Items
  PROVE  Ordered(s, a, a)
BY OrderIs DEF Ordered, Side

\* What __removeMin and __removeMax make of the tree at any item.
LEMMA TakenIs ==
  ASSUME NEW t \in Trees, NEW u \in Unders, NEW s \in Side, NEW f,
         \A c \in Items : f[c] = Extreme(f, t, s, c)
  PROVE  \A c \in Items : Tree(t, u, c) => \E v \in Unders : Taken(t, u, s, c, f[c], v)
<1> DEFINE Bad(c) == Tree(t, u, c) /\ ~ \E v \in Unders : Taken(t, u, s, c, f[c], v)
           BadHeights == {t.height[c] : c \in {i \in Items : Bad(i)}}
<1>1. SUFFICES ASSUME BadHeights # {} PROVE FALSE
  OBVIOUS
<1>2. PICK k \in BadHeights : \A j \in BadHeights : k <= j
  <2>1. BadHeights \subseteq Nat
    BY Kids DEF Side
  <2> HIDE DEF BadHeights
  <2> QED BY <2>1, <1>1, LeastNumber
<1>3. PICK c \in Items : Bad(c) /\ \A i \in Items : Bad(i) => t.height[c] <= t.height[i]
  BY <1>2
<1> HIDE DEF BadHeights
<1>4. Tree(t, u, c) /\ ~ \E v \in Unders : Taken(t, u, s, c, f[c], v)
  BY <1>3
<1>5. ASSUME NEW i \in Items, Tree(t, u, i), t.height[i] < t.height[c]
      PROVE  \E v \in Unders : Taken(t, u, s, i, f[i], v)
  <2>1. ~Bad(i)
    <3>1. t.height[i] \in Nat /\ t.height[c] \in Nat
      BY Kids DEF Side
    <3> HIDE DEF Bad
    <3> QED BY <3>1, <1>3, <1>5
  <2> QED BY <2>1, <1>5
<1> HIDE DEF Bad
<1>6. PICK child \in Node : child = t.kid[s][c]
  BY Kids
<1>7. PICK beside \in Node : beside = t.kid[Other(s)][c]
  BY Kids, Others
<1>8. PICK h \in Nat : h = HeightOf(t, child)
  BY HeightIs
<1>9. PICK b \in Nat : b = HeightOf(t, beside)
  BY HeightIs
<1>10. t.height[c] = Higher(h, b) + 1 /\ h - b \in -1..1
  <2>1. Even(t, c)
    BY <1>4, MapAssumption DEF Tree
  <2> QED BY <2>1, <1>6, <1>7, <1>8, <1>9, EvenIs
<1>11. /\ c \in u[c] /\ u[c] = {c} \cup Under(u, child) \cup Under(u, beside) /\ u[c] \in SUBSET Items
       /\ Under(u, child) \cap Under(u, beside) = {}
       /\ c \notin Under(u, child) /\ c \notin Under(u, beside)
       /\ \A z \in Under(u, child) : Ordered(s, z, c)
       /\ \A z \in Under(u, beside) : Ordered(Other(s), z, c)
  <2>1. Joint(t, u, c, s, child, beside) /\ c \in u[c]
    BY <1>4, <1>6, <1>7, JointIs, MapAssumption DEF Tree
  <2> QED BY <2>1 DEF Joint, Unders
<1>12. \A z \in u[c] \ Under(u, child) : Ordered(s, c, z)
  <2>1. \A z \in Under(u, beside) : Ordered(s, c, z)
    BY <1>11, OrderIs
  <2> QED BY <2>1, <1>11, SelfOrdered
<1>13. PICK r : r = f[c]
  OBVIOUS
<1>14. CASE child = NULL
  <2>1. PICK z : z = Adjust(t, beside)
    OBVIOUS
  <2>2. r = Returning(z, c)
    BY <2>1, <1>6, <1>7, <1>13, <1>14 DEF Extreme
  <2>3. r.t = z.t /\ r.root = z.root /\ r.ret = c
    BY <2>2, ReturningIs
  <2>4. Under(u, child) = {} /\ h = 0 /\ u[c] \ {c} = Under(u, beside)
    BY <1>8, <1>11, <1>14 DEF Under, HeightOf
  <2>5. \A y \in u[c] : Ordered(s, c, y)
    BY <2>4, <1>12
  <2>6. \E v \in Unders : /\ Grown(t, u, u[c], r, v, u[c] \ {c}) /\ r.t.size = t.size
                          /\ HeightOf(r.t, r.root) - t.height[c] \in -1..0
    <3>1. CASE beside = NULL
      <4>1. r.t = t /\ r.root = NULL /\ Under(u, beside) = {} /\ b = 0 /\ HeightOf(r.t, r.root) = 0
        BY <2>1, <2>3, <3>1, <1>9 DEF Adjust, Under, HeightOf
      <4>2. Grown(t, u, u[c], r, u, u[c] \ {c})
        BY <4>1, <2>4 DEF Grown, Tree, Under, Beyond, Node
      <4>3. t.height[c] = 1
        BY <4>1, <2>4, <1>10 DEF Higher
      <4> QED BY <4>1, <4>2, <4>3
    <3>2. CASE beside # NULL
      <4>1. beside \in Items /\ Under(u, beside) = u[beside] /\ b = t.height[beside]
        BY <3>2, <1>9 DEF Under, Node, HeightOf
      <4>2. Tree(t, u, beside)
        BY <1>4, <1>7, KidTree, Others
      <4>3. Linked(t, u, beside) /\ Even(t, beside) /\ \A q \in Side : Tree(t, u, t.kid[q][beside])
        BY <4>1, <4>2, <3>2, KidTree DEF Tree
      <4>4. PICK hl \in Nat : hl = HeightOf(t, t.kid["l"][beside])
        BY <4>1, Kids, HeightIs DEF Side
      <4>5. PICK hr \in Nat : hr = HeightOf(t, t.kid["r"][beside])
        BY <4>1, Kids, HeightIs DEF Side
      <4>6. PICK m : m = Higher(hl, hr)
        OBVIOUS
      <4>7. hl - hr \in -1..1 /\ b = m + 1
        BY <4>1, <4>3, <4>4, <4>5, <4>6 DEF Even
      <4>8. hr - hl \in -2..2 /\ hr - hl \in -1..1
        BY <4>7
      <4>9. PICK v \in Unders : Adjusted(t, u, beside, z, v) /\ z.t.height[z.root] = m + 1
        <5>1. Adjustable(t, u, beside, z, m, hr - hl)
          BY <4>1, <4>3, <4>4, <4>5, <4>6, <4>8, <2>1 DEF Adjustable
        <5> QED BY <5>1, <4>8, AdjustIs
      <4>10. r.root \in Items /\ r.root # NULL /\ HeightOf(r.t, r.root) = b
        BY <4>7, <4>9, <2>3, MapAssumption DEF Adjusted, HeightOf
      <4>11. Beyond(t, u, r.t, v, u[c])
        BY <4>1, <4>9, <2>3, <1>11 DEF Adjusted, Beyond
      <4>12. Grown(t, u, u[c], r, v, u[c] \ {c})
        BY <4>1, <4>9, <4>10, <4>11, <2>3, <2>4 DEF Adjusted, Grown, Under, Node
      <4>13. t.height[c] = b + 1
        BY <2>4, <1>10 DEF Higher
      <4> QED BY <4>9, <4>10, <4>12, <4>13, <2>3 DEF Adjusted
    <3> QED BY <3>1, <3>2
  <2>7. \E v \in Unders : Taken(t, u, s, c, r, v)
    BY <2>3, <2>5, <2>6, <1>11 DEF Taken
  <2> QED BY <2>7, <1>4, <1>13
<1>15. CASE child # NULL
  <2>1. child \in Items /\ Under(u, child) = u[child] /\ h = t.height[child]
    BY <1>8, <1>15 DEF Node, Under, HeightOf
  <2>2. Tree(t, u, child)
    BY <1>4, <1>6, KidTree
  <2>3. t.height[child] < t.height[c]
    BY <2>1, <1>10 DEF Higher
  <2>4. PICK sub : sub = f[child]
    OBVIOUS
  <2>5. PICK v \in Unders : Taken(t, u, s, child, sub, v)
    BY <2>1, <2>2, <2>3, <2>4, <1>5
  <2>6. PICK ret \in Items : ret = sub.ret
    BY <2>5 DEF Taken
  <2>7. PICK T \in SUBSET Items : T = u[child] \ {ret}
    BY <2>1, <1>11
  <2>8. PICK a : a = SetKid(sub.t, c, s, sub.root)
    OBVIOUS
  <2>9. PICK y : y = SetParent(a, sub.root, c)
    OBVIOUS
  <2>10. PICK z : z = Adjust(y, c)
    OBVIOUS
  <2>11. r = Returning(z, ret)
    BY <2>4, <2>6, <2>8, <2>9, <2>10, <1>6, <1>13, <1>15 DEF Extreme
  <2>12. r.t = z.t /\ r.root = z.root /\ r.ret = ret
    BY <2>11, ReturningIs
  <2>13. /\ sub.t \in Trees /\ sub.root \in Node /\ Tree(sub.t, v, sub.root)
         /\ Under(v, sub.root) = T /\ Beyond(t, u, sub.t, v, u[child]) /\ sub.t.size = t.size
    BY <2>5, <2>6, <2>7 DEF Taken, Grown
  <2>14. KidSet(sub.t, c, s, sub.root, a)
    <3>1. sub.t \in Trees /\ sub.root \in Node
      BY <2>13
    <3> QED BY <3>1, <2>8, SetKidIs
  <2>15. ParentSet(a, sub.root, c, y)
    <3>1. a \in Trees /\ sub.root \in Node /\ c \in Node
      BY <2>13, <2>14 DEF KidSet, Node
    <3> QED BY <3>1, <2>9, SetParentIs
  <2>16. Hung(t, u, c, s, child, beside, sub.t, v, u[child], T, y, sub.root, z)
    <3>1. /\ y \in Trees /\ y.root = sub.t.root /\ y.aborted = sub.t.aborted /\ y.size = sub.t.size
          /\ y.height = sub.t.height
          /\ \A q \in Side : \A i \in Items :
               y.kid[q][i] = IF q = s /\ i = c THEN sub.root ELSE sub.t.kid[q][i]
      BY <2>14, <2>15 DEF KidSet, ParentSet
    <3>2. sub.root # NULL => sub.root \in Items
      BY <2>13 DEF Node
    <3>3. /\ sub.root # NULL => y.p[sub.root] = c
          /\ \A i \in Items : i # sub.root => y.p[i] = sub.t.p[i]
      BY <3>2, <2>14, <2>15 DEF KidSet, ParentSet
    <3>4. /\ u[child] \cap ({c} \cup Under(u, beside)) = {} /\ T \cap ({c} \cup Under(u, beside)) = {}
          /\ \A i \in T : Ordered(s, i, c)
      BY <2>1, <2>7, <1>11
    <3>5. HeightOf(sub.t, sub.root) - HeightOf(t, child) \in -1..1
      BY <2>1, <2>5, <1>8 DEF Taken
    <3> QED BY <3>1, <3>3, <3>4, <3>5, <2>10, <2>13, <1>6, <1>7 DEF Hung
  <2>17. PICK w \in Unders :
           /\ Grown(t, u, u[child] \cup T \cup u[c], z, w, {c} \cup T \cup Under(u, beside))
           /\ z.root \in Items /\ z.t.p[z.root] = t.p[c] /\ z.t.size = sub.t.size
           /\ HeightOf(sub.t, sub.root) - HeightOf(t, child) \in 0..1
              => z.t.height[z.root] - t.height[c] \in 0..1
           /\ HeightOf(sub.t, sub.root) - HeightOf(t, child) \in -1..0
              => z.t.height[z.root] - t.height[c] \in -1..0
    <3>1. u[child] \in SUBSET Items
      BY <2>1, <1>11
    <3> QED BY <3>1, <2>16, <1>4, HangIs
  <2>18. ret \in u[child] /\ ret \in u[c] /\ ret # c /\ ret \notin Under(u, beside)
    BY <2>1, <2>5, <2>6, <1>11 DEF Taken
  <2>19. u[child] \cup T \cup u[c] = u[c] /\ {c} \cup T \cup Under(u, beside) = u[c] \ {ret}
    BY <2>1, <2>7, <2>18, <1>11
  <2>20. Grown(t, u, u[c], r, w, u[c] \ {ret})
    BY <2>12, <2>17, <2>19 DEF Grown
  <2>21. HeightOf(r.t, r.root) - t.height[c] \in -1..0
    <3>1. HeightOf(sub.t, sub.root) - HeightOf(t, child) \in -1..0
      BY <2>1, <2>5, <1>8 DEF Taken
    <3>2. HeightOf(r.t, r.root) = z.t.height[z.root]
      BY <2>12, <2>17, MapAssumption DEF HeightOf
    <3> QED BY <3>1, <3>2, <2>17
  <2>22. ASSUME NEW i \in u[c] PROVE Ordered(s, ret, i)
    <3>1. CASE i \in u[child]
      BY <3>1, <2>5, <2>6 DEF Taken
    <3>2. CASE i \notin u[child]
      <4>1. Ordered(s, ret, c) /\ Ordered(s, c, i) /\ i \in Items
        BY <3>2, <2>1, <2>18, <1>11, <1>12
      <4> QED BY <4>1, OrderIs
    <3> QED BY <3>1, <3>2
  <2>23. Taken(t, u, s, c, r, w)
    BY <2>12, <2>13, <2>17, <2>18, <2>20, <2>21, <2>22 DEF Taken
  <2> QED BY <2>23, <1>4, <1>13
<1> QED BY <1>14, <1>15

\* __removeMin and __removeMax.
LEMMA RemoveLastIs ==
  ASSUME NEW t, NEW u, NEW S, Whole(t, u, S), NEW from \in Items, Tree(t, u, from), NEW s \in Side,
         NEW x, x = RemoveLast(t, from, s)
  PROVE  \E v \in Unders : Taken(t, u, s, from, x, v)
<1> DEFINE Its(f) == f = [root \in Items |-> Extreme(f, t, s, root)]
           last == CHOOSE f : Its(f)
<1>1. Its(last)
  <2>1. PICK f : Solves(f, Items, "last", t, NULL, s)
    BY ExtremeExists
  <2>2. Its(f)
    BY <2>1 DEF Solves, Body
  <2> HIDE DEF Its
  <2> QED BY <2>2
<1>2. x = last[from]
  BY Zenon DEF RemoveLast, Extreme
<1>3. \A c \in Items : last[c] = Extreme(last, t, s, c)
  BY <1>1
<1> HIDE DEF last
<1>4. t \in Trees /\ u \in Unders
  BY DEF Whole
<1> QED BY <1>2, <1>3, <1>4, TakenIs

\* x is the tree at c without the item n.
Without(t, u, n, c, x, v) ==
  /\ Grown(t, u, u[c], x, v, u[c] \ {n}) /\ HeightOf(x.t, x.root) - t.height[c] \in -1..0
  /\ x.root # NULL => x.t.p[x.root] = t.p[c]

\* An item with one subtree at most: that one takes its place.
LEMMA OneKid ==
  ASSUME NEW t \in Trees, NEW u \in Unders, NEW n \in Items, NEW q \in Side, NEW e \in Node,
         NEW x, Tree(t, u, n), t.kid[q][n] = NULL, t.kid[Other(q)][n] = e,
         x = [t |-> SetParent(t, e, t.p[n]), root |-> e]
  PROVE  Without(t, u, n, n, x, u) /\ x.t.size = t.size
<1>1. /\ n \in u[n] /\ u[n] \in SUBSET Items /\ Joint(t, u, n, q, NULL, e) /\ Even(t, n)
      /\ Tree(t, u, e)
  <2>1. Linked(t, u, n) /\ Even(t, n) /\ n \in u[n]
    BY MapAssumption DEF Tree
  <2>2. Tree(t, u, e)
    BY KidTree, Others
  <2> QED BY <2>1, <2>2, JointIs DEF Unders
<1>2. u[n] \ {n} = Under(u, e) /\ (e # NULL => e \in u[n] /\ Under(u, e) = u[e])
  BY <1>1 DEF Joint, Under
<1>3. ParentSet(t, e, t.p[n], x.t) /\ x.root = e
  <2>1. t.p[n] \in Node
    BY Kids DEF Side
  <2> QED BY <2>1, SetParentIs
<1>4. x.t \in Trees /\ x.t.size = t.size
  BY <1>3 DEF ParentSet
<1>5. Tree(x.t, u, e) /\ HeightOf(x.t, e) = HeightOf(t, e)
  <2>1. Under(u, e) \in SUBSET Items
    BY UnderIs
  <2>2. Untouched(t, u, x.t, u, e)
    BY <2>1, <1>3 DEF Untouched, ParentSet
  <2> QED BY <2>2, <1>1, <1>4, SameTree
<1>6. Beyond(t, u, x.t, u, u[n])
  <2>1. \A i \in Items \ u[n] : i # e
    BY <1>2, MapAssumption
  <2> QED BY <2>1, <1>3 DEF Beyond, ParentSet
<1>7. HeightOf(t, e) - t.height[n] \in -1..0
  <2>1. PICK h \in Nat : h = HeightOf(t, e)
    BY HeightIs
  <2>2. HeightOf(t, NULL) = 0
    BY DEF HeightOf
  <2>3. t.height[n] = Higher(0, h) + 1 /\ 0 - h \in -1..1
    BY <2>1, <2>2, <1>1, EvenIs
  <2> QED BY <2>1, <2>3 DEF Higher
<1>8. x.root # NULL => x.t.p[x.root] = t.p[n]
  BY <1>3 DEF ParentSet, Node
<1> QED BY <1>2, <1>3, <1>4, <1>5, <1>6, <1>7, <1>8 DEF Without, Grown

\* __remove(node) of an item with two subtrees, the one at side s the higher.
Uneven(t, n, t2, in, root, keep) ==
  \/ t2.height[in] \notin (t.height[n] - 1)..t.height[n]
  \/ HeightOf(t2, root) - HeightOf(t2, keep) \notin -1..1

StandIn(t, n, s) ==
  LET sub == RemoveLast(t, t.kid[s][n], Other(s))
      in == sub.ret
      keep == t.kid[Other(s)][n]
      t1 == SetParent(SetParent(sub.t, sub.root, in), keep, in)
      t2 == SetHeight(SetKid(SetKid(SetParent(t1, in, t.p[n]), in, s, sub.root),
                             in, Other(s), keep), in)
  IN [t |-> Abort(t2, Uneven(t, n, t2, in, sub.root, keep)), root |-> in]

\* __remove(node).
LEMMA UnlinkIs ==
  ASSUME NEW t, NEW u, NEW S, Whole(t, u, S), NEW n \in Items, Tree(t, u, n), NEW x, x = Unlink(t, n)
  PROVE  \E v \in Unders : Without(t, u, n, n, x, v) /\ x.t.size = t.size
<1>1. t \in Trees /\ u \in Unders
  BY DEF Whole
<1>2. PICK l \in Node : l = t.kid["l"][n]
  BY <1>1, Kids DEF Side
<1>3. PICK r \in Node : r = t.kid["r"][n]
  BY <1>1, Kids DEF Side
<1>4. CASE l = NULL
  <2>1. x = [t |-> SetParent(t, r, t.p[n]), root |-> r]
    BY <1>2, <1>3, <1>4 DEF Unlink
  <2>2. t.kid["l"][n] = NULL /\ t.kid[Other("l")][n] = r /\ "l" \in Side
    BY <1>2, <1>3, <1>4 DEF Other, Side
  <2> QED BY <2>1, <2>2, <1>1, OneKid
<1>5. CASE l # NULL /\ r = NULL
  <2>1. x = [t |-> SetParent(t, l, t.p[n]), root |-> l]
    BY <1>2, <1>3, <1>5 DEF Unlink
  <2>2. t.kid["r"][n] = NULL /\ t.kid[Other("r")][n] = l /\ "r" \in Side
    BY <1>2, <1>3, <1>5 DEF Other, Side
  <2> QED BY <2>1, <2>2, <1>1, OneKid
<1>6. CASE l # NULL /\ r # NULL
  <2>1. PICK s \in Side : s = IF t.height[l] > t.height[r] THEN "l" ELSE "r"
    BY DEF Side
  <2>2. PICK o \in Side : o = Other(s) /\ Other(o) = s /\ o # s /\ \A q \in Side : q = s \/ q = o
    BY Others
  <2>3. PICK up \in Items : up = t.kid[s][n]
    BY <1>2, <1>3, <1>6, <2>1 DEF Node
  <2>4. PICK keep \in Items : keep = t.kid[o][n]
    BY <1>2, <1>3, <1>6, <2>2 DEF Node, Side
  <2>5. PICK h \in Nat : h = t.height[up]
    BY <1>1, Kids DEF Side
  <2>6. PICK b \in Nat : b = t.height[keep]
    BY <1>1, Kids DEF Side
  <2>7. /\ up # NULL /\ keep # NULL /\ HeightOf(t, up) = h /\ HeightOf(t, keep) = b
        /\ Tree(t, u, up) /\ Tree(t, u, keep)
    <3>1. up # NULL /\ keep # NULL
      BY MapAssumption
    <3> QED BY <3>1, <1>1, <2>3, <2>4, <2>5, <2>6, KidTree DEF HeightOf
  <2>8. /\ n \in u[n] /\ Joint(t, u, n, s, up, keep)
        /\ t.height[n] = Higher(h, b) + 1 /\ h - b \in -1..1
    <3>1. Linked(t, u, n) /\ Even(t, n) /\ n \in u[n]
      BY MapAssumption DEF Tree
    <3>2. t.height[n] = Higher(h, b) + 1 /\ h - b \in -1..1
      BY <3>1, <1>1, <2>2, <2>3, <2>4, <2>7, EvenIs
    <3> QED BY <3>1, <3>2, <2>2, <2>3, <2>4, JointIs
  <2>9. h >= b
    <3>1. CASE s = "l"
      <4>1. up = l /\ keep = r
        BY <3>1, <1>2, <1>3, <2>2, <2>3, <2>4 DEF Other
      <4> QED BY <4>1, <3>1, <2>1, <2>5, <2>6
    <3>2. CASE s = "r"
      <4>1. up = r /\ keep = l
        BY <3>2, <1>2, <1>3, <2>2, <2>3, <2>4 DEF Other
      <4> QED BY <4>1, <3>2, <2>1, <2>5, <2>6
    <3> QED BY <3>1, <3>2 DEF Side
  <2>10. PICK sub : sub = RemoveLast(t, up, o)
    OBVIOUS
  <2>11. PICK v \in Unders : Taken(t, u, o, up, sub, v)
    BY <2>7, <2>10, RemoveLastIs
  <2>12. PICK in \in Items : in = sub.ret
    BY <2>11 DEF Taken
  <2>13. PICK c \in Node : c = sub.root
    BY <2>11 DEF Taken, Grown
  <2>14. PICK P \in SUBSET Items : P = u[up]
    BY <1>1 DEF Unders
  <2>15. PICK K \in SUBSET Items : K = u[keep]
    BY <1>1 DEF Unders
  <2>16. /\ in \in P /\ \A y \in P : Ordered(o, in, y)
         /\ sub.t \in Trees /\ Tree(sub.t, v, c) /\ Under(v, c) = P \ {in}
         /\ Beyond(t, u, sub.t, v, P) /\ sub.t.size = t.size
         /\ HeightOf(sub.t, c) - h \in -1..0
    BY <2>5, <2>11, <2>12, <2>13, <2>14 DEF Taken, Grown
  <2>17. /\ u[n] = {n} \cup P \cup K /\ P \cap K = {} /\ n \notin P /\ n \notin K
         /\ keep \in K /\ t.p[keep] = n
         /\ \A y \in P : Ordered(s, y, n)
         /\ \A y \in K : Ordered(o, y, n)
    BY <2>2, <2>7, <2>8, <2>14, <2>15 DEF Joint, Under
  <2>18. c # NULL => c \in P /\ c # in /\ c \in Items /\ c \in v[c]
    BY <2>13, <2>16 DEF Under, Tree
  <2>19. keep # in /\ keep # c /\ n # in /\ n # c /\ n # keep
    BY <2>16, <2>17, <2>18, MapAssumption
  <2>20. PICK a : a = SetParent(sub.t, c, in)
    OBVIOUS
  <2>21. PICK d : d = SetParent(a, keep, in)
    OBVIOUS
  <2>22. PICK e : e = SetParent(d, in, t.p[n])
    OBVIOUS
  <2>23. PICK f : f = SetKid(e, in, s, c)
    OBVIOUS
  <2>24. PICK g : g = SetKid(f, in, o, keep)
    OBVIOUS
  <2>25. PICK t2 : t2 = SetHeight(g, in)
    OBVIOUS
  <2>26. PICK condition \in BOOLEAN :
           condition = Uneven(t, n, t2, in, c, keep)
    BY DEF Uneven
  <2>27. x = [t |-> Abort(t2, condition), root |-> in]
    <3>1. l # NULL /\ r # NULL /\ l = t.kid["l"][n] /\ r = t.kid["r"][n]
      BY <1>2, <1>3, <1>6
    <3>2. Unlink(t, n) = StandIn(t, n, IF t.height[t.kid["l"][n]] > t.height[t.kid["r"][n]] THEN "l" ELSE "r")
      <4>1. t.kid["l"][n] # NULL /\ t.kid["r"][n] # NULL
        BY <3>1
      <4> QED BY <4>1, Zenon DEF Unlink, StandIn, Uneven
    <3>3. s = IF t.height[t.kid["l"][n]] > t.height[t.kid["r"][n]] THEN "l" ELSE "r"
      BY <3>1, <2>1
    <3>4. x = StandIn(t, n, s)
      BY <3>2, <3>3
    <3>5. sub = RemoveLast(t, t.kid[s][n], o) /\ o = Other(s) /\ keep = t.kid[o][n]
          /\ in = sub.ret /\ c = sub.root
      BY <2>2, <2>3, <2>4, <2>10, <2>12, <2>13
    <3>6. StandIn(t, n, s) = [t |-> Abort(t2, Uneven(t, n, t2, in, c, keep)), root |-> in]
      BY <3>5, <2>20, <2>21, <2>22, <2>23, <2>24, <2>25 DEF StandIn
    <3> QED BY <3>4, <3>6, <2>26
  <2>28. in \in Node /\ keep \in Node /\ t.p[n] \in Node
    BY <1>1, Kids DEF Node, Side
  <2>29. ParentSet(sub.t, c, in, a)
    BY <2>16, <2>20, <2>28, SetParentIs
  <2>30. ParentSet(a, keep, in, d)
    <3>1. a \in Trees
      BY <2>29 DEF ParentSet
    <3> QED BY <3>1, <2>21, <2>28, SetParentIs
  <2>31. ParentSet(d, in, t.p[n], e)
    <3>1. d \in Trees
      BY <2>30 DEF ParentSet
    <3> QED BY <3>1, <2>22, <2>28, SetParentIs
  <2>32. KidSet(e, in, s, c, f)
    <3>1. e \in Trees
      BY <2>31 DEF ParentSet
    <3> QED BY <3>1, <2>23, SetKidIs
  <2>33. KidSet(f, in, o, keep, g)
    <3>1. f \in Trees
      BY <2>32 DEF KidSet
    <3> QED BY <3>1, <2>24, <2>28, SetKidIs
  <2>34. HeightSet(g, in, t2)
    <3>1. g \in Trees
      BY <2>33 DEF KidSet
    <3> QED BY <3>1, <2>25, SetHeightIs
  <2>35. t2 \in Trees /\ t2.root = sub.t.root /\ t2.size = sub.t.size /\ t2.aborted = sub.t.aborted
    BY <2>29, <2>30, <2>31, <2>32, <2>33, <2>34 DEF ParentSet, KidSet, HeightSet
  <2>36. \A i \in Items : t2.p[i] = IF i = in THEN t.p[n] ELSE IF i = keep \/ i = c THEN in ELSE sub.t.p[i]
    <3>1. t2.p = e.p
      BY <2>32, <2>33, <2>34 DEF KidSet, HeightSet
    <3>2. \A i \in Items : e.p[i] = IF i = in THEN t.p[n] ELSE IF i = keep \/ i = c THEN in ELSE sub.t.p[i]
      BY <2>29, <2>30, <2>31 DEF ParentSet
    <3> QED BY <3>1, <3>2
  <2>37. t2.kid[s][in] = c /\ t2.kid[o][in] = keep
         /\ \A i \in Items \ {in} : \A q \in Side : t2.kid[q][i] = sub.t.kid[q][i]
    <3>1. t2.kid = g.kid /\ e.kid = sub.t.kid
      BY <2>29, <2>30, <2>31, <2>34 DEF ParentSet, HeightSet
    <3>2. /\ g.kid[s][in] = c /\ g.kid[o][in] = keep
          /\ \A i \in Items \ {in} : \A q \in Side : g.kid[q][i] = e.kid[q][i]
      BY <2>2, <2>32, <2>33 DEF KidSet
    <3> QED BY <3>1, <3>2
  <2>38. PICK k \in Nat : k = HeightOf(sub.t, c)
    BY <2>16, HeightIs
  <2>39. /\ \A i \in Items \ {in} : t2.height[i] = sub.t.height[i]
         /\ HeightOf(t2, c) = k /\ HeightOf(t2, keep) = b
         /\ t2.height[in] = Higher(k, b) + 1
    <3>1. g.height = sub.t.height
      BY <2>29, <2>30, <2>31, <2>32, <2>33 DEF ParentSet, KidSet
    <3>2. \A i \in Items \ {in} : t2.height[i] = sub.t.height[i]
      BY <3>1, <2>34 DEF HeightSet
    <3>3. sub.t.height[keep] = b
      BY <2>6, <2>16, <2>17 DEF Beyond
    <3>4. HeightOf(g, c) = k /\ HeightOf(t2, c) = k
      BY <3>1, <3>2, <2>18, <2>38 DEF HeightOf
    <3>5. HeightOf(g, keep) = b /\ HeightOf(t2, keep) = b
      BY <3>1, <3>2, <3>3, <2>7, <2>19 DEF HeightOf
    <3>6. Higher(HeightOf(g, g.kid["l"][in]), HeightOf(g, g.kid["r"][in])) = Higher(k, b)
      <4>1. g.kid = t2.kid
        BY <2>34 DEF HeightSet
      <4>2. CASE s = "l"
        <5>1. g.kid["l"][in] = c /\ g.kid["r"][in] = keep
          BY <4>1, <4>2, <2>2, <2>37 DEF Other
        <5> QED BY <5>1, <3>4, <3>5
      <4>3. CASE s = "r"
        <5>1. g.kid["r"][in] = c /\ g.kid["l"][in] = keep
          BY <4>1, <4>3, <2>2, <2>37 DEF Other
        <5> QED BY <5>1, <3>4, <3>5 DEF Higher
      <4> QED BY <4>2, <4>3 DEF Side
    <3>7. t2.height[in] = Higher(k, b) + 1
      BY <3>6, <2>34 DEF HeightSet
    <3> QED BY <3>2, <3>4, <3>5, <3>7
  <2>40. k - b \in -1..1 /\ t2.height[in] - t.height[n] \in -1..0 /\ ~condition
    <3>1. k - b \in -1..1 /\ t2.height[in] - t.height[n] \in -1..0
      BY <2>8, <2>9, <2>16, <2>38, <2>39 DEF Higher
    <3>2. t.height[n] \in Nat /\ t2.height[in] \in Nat
      BY <1>1, <2>35, Kids DEF Side
    <3>3. t2.height[in] \in (t.height[n] - 1)..t.height[n]
      BY <3>1, <3>2
    <3> QED BY <3>1, <3>3, <2>26, <2>39 DEF Uneven
  <2>41. /\ x.root = in /\ x.t \in Trees /\ x.t.root = t2.root /\ x.t.kid = t2.kid /\ x.t.p = t2.p
         /\ x.t.height = t2.height /\ x.t.size = t2.size /\ x.t.aborted = (t2.aborted \/ condition)
    <3>1. PICK y : y = Abort(t2, condition)
      OBVIOUS
    <3>2. x.t = y /\ x.root = in
      BY <3>1, <2>27
    <3> QED BY <3>1, <3>2, <2>35, AbortIs
  <2>42. x.t.aborted = t.aborted
    <3>1. t2.aborted = t.aborted /\ t2.aborted \in BOOLEAN
      BY <2>16, <2>35 DEF Beyond, Trees
    <3> QED BY <3>1, <2>40, <2>41
  <2>43. PICK w \in Unders : /\ w[in] = {in} \cup (P \ {in}) \cup K
                             /\ \A i \in Items \ {in} : w[i] = v[i]
    <3>1. [v EXCEPT ![in] = {in} \cup (P \ {in}) \cup K] \in Unders
      BY DEF Unders
    <3> QED BY <3>1 DEF Unders
  <2>44. in \notin K /\ \A i \in K : v[i] = u[i] /\ sub.t.height[i] = t.height[i]
                               /\ sub.t.p[i] = t.p[i] /\ \A q \in Side : sub.t.kid[q][i] = t.kid[q][i]
    BY <2>16, <2>17 DEF Beyond
  <2>45. Tree(x.t, w, c) /\ Under(w, c) = P \ {in}
    <3>1. \A i \in P \ {in} : i \in Items \ {in} /\ i # keep
      BY <2>17
    <3>2. Untouched(sub.t, v, x.t, w, c)
      BY <3>1, <2>16, <2>36, <2>37, <2>39, <2>41, <2>43 DEF Untouched
    <3> QED BY <3>2, <2>16, <2>41, SameTree
  <2>46. Tree(x.t, w, keep) /\ Under(w, keep) = K /\ Under(u, keep) = K
    <3>1. \A i \in K : i \in Items \ {in} /\ i # c
      BY <2>17, <2>18, <2>44, MapAssumption
    <3>2. Under(u, keep) = K
      BY <2>7, <2>15 DEF Under
    <3>3. Untouched(t, u, x.t, w, keep)
      BY <3>1, <3>2, <2>36, <2>37, <2>39, <2>41, <2>43, <2>44 DEF Untouched
    <3> QED BY <3>2, <3>3, <1>1, <2>7, <2>28, <2>41, SameTree
  <2>47. Linked(x.t, w, in)
    <3>1. \A y \in P \ {in} : Ordered(s, y, in)
      BY <2>2, <2>16, OrderIs
    <3>2. \A y \in K : Ordered(o, y, in)
      <4>1. Ordered(o, n, in)
        BY <2>2, <2>16, <2>17, OrderIs
      <4> QED BY <4>1, <2>17, OrderIs
    <3>3. c # NULL => x.t.p[c] = in /\ c \in w[c]
      BY <2>18, <2>36, <2>41, <2>43
    <3>4. x.t.p[keep] = in /\ keep \in w[keep]
      BY <2>7, <2>17, <2>19, <2>36, <2>41, <2>46 DEF Under
    <3>5. Joint(x.t, w, in, s, c, keep)
      BY <3>1, <3>2, <3>3, <3>4, <2>2, <2>17, <2>43, <2>44, <2>45, <2>46 DEF Joint
    <3> QED BY <3>5, <2>2, <2>37, <2>41, JointIs
  <2>48. Tree(x.t, w, in)
    <3>1. Even(x.t, in)
      <4>1. HeightOf(x.t, c) = k /\ HeightOf(x.t, keep) = b
        BY <2>39, <2>41 DEF HeightOf
      <4> QED BY <4>1, <2>2, <2>37, <2>39, <2>40, <2>41, EvenIs
    <3>2. \A q \in Side : Tree(x.t, w, x.t.kid[q][in])
      BY <2>2, <2>37, <2>41, <2>45, <2>46
    <3> QED BY <3>1, <3>2, <2>41, <2>47, Joined
  <2>49. w[in] = u[n] \ {n} /\ in # NULL
    BY <2>16, <2>17, <2>43, MapAssumption
  <2>50. Beyond(t, u, x.t, w, u[n])
    <3>1. \A i \in Items \ u[n] : i # in /\ i # keep /\ i # c /\ i \notin P
      BY <2>16, <2>17, <2>18, MapAssumption
    <3> QED BY <3>1, <2>16, <2>35, <2>36, <2>37, <2>39, <2>41, <2>42, <2>43 DEF Beyond
  <2>51. Grown(t, u, u[n], x, w, u[n] \ {n})
    BY <2>28, <2>41, <2>48, <2>49, <2>50 DEF Grown, Under
  <2>52. HeightOf(x.t, x.root) - t.height[n] \in -1..0 /\ x.t.p[x.root] = t.p[n]
    BY <2>36, <2>40, <2>41, <2>49 DEF HeightOf
  <2>53. x.t.size = t.size
    BY <2>16, <2>35, <2>41
  <2> QED BY <2>51, <2>52, <2>53 DEF Without
<1> QED BY <1>4, <1>5, <1>6

\* The function that Remove defines exists.
LEMMA RestExists ==
  ASSUME NEW t, NEW u, NEW S, NEW n, Whole(t, u, S)
  PROVE  \E f : Solves(f, Node, "rest", t, n, "l")
<1>1. PICK rank, H : Ranked(t, rank, H)
  BY RanksExist
<1>2. rank \in [Node -> Nat] /\ H \in Nat /\ \A x \in Node : rank[x] < H
  BY <1>1 DEF Ranked
<1>4. ASSUME NEW f, NEW g, NEW x \in Node, \A z \in Node : rank[z] < rank[x] => f[z] = g[z]
      PROVE  Body("rest", f, t, n, "l", x) = Body("rest", g, t, n, "l", x)
  <2>1. CASE x = NULL
    <3>1. Rest(f, t, n, x) = Rest(g, t, n, x)
      BY <2>1 DEF Rest
    <3> QED BY <3>1 DEF Body
  <2>2. CASE x # NULL
    <3>1. f[t.kid["l"][x]] = g[t.kid["l"][x]] /\ f[t.kid["r"][x]] = g[t.kid["r"][x]]
      BY <1>1, <1>4, <2>2 DEF Ranked, Node, Side
    <3>2. Rest(f, t, n, x) = Rest(g, t, n, x)
      BY <3>1 DEF Rest
    <3> QED BY <3>2 DEF Body
  <2> QED BY <2>1, <2>2
<1>5. Local(Node, rank, "rest", t, n, "l")
  BY <1>4 DEF Local
<1> QED BY <1>2, <1>5, RecursionExists

\* What __remove(root, node) returns for the tree at c.
Removed(t, u, n, c, x) ==
  IF n \in Under(u, c)
  THEN x.ret = TRUE /\ \E v \in Unders : Without(t, u, n, c, x, v) /\ x.t.size = t.size - 1
  ELSE x = [t |-> t, root |-> c, ret |-> FALSE]

\* What __remove makes of the tree at any reference: where the item is not, nothing; where
\* it is, equal keys on the way do not hide it.
LEMMA RestIs ==
  ASSUME NEW t, NEW u, NEW S, Whole(t, u, S), NEW n \in Items, NEW f,
         \A c \in Node : f[c] = Rest(f, t, n, c)
  PROVE  \A c \in Node : Tree(t, u, c) => Removed(t, u, n, c, f[c])
<1>0. t \in Trees /\ u \in Unders
  BY DEF Whole
<1> DEFINE Bad(c) == Tree(t, u, c) /\ ~Removed(t, u, n, c, f[c])
           BadHeights == {HeightOf(t, c) : c \in {i \in Node : Bad(i)}}
<1>1. SUFFICES ASSUME BadHeights # {} PROVE FALSE
  OBVIOUS
<1>2. PICK k \in BadHeights : \A j \in BadHeights : k <= j
  <2>1. BadHeights \subseteq Nat
    BY <1>0, HeightIs
  <2> HIDE DEF BadHeights
  <2> QED BY <2>1, <1>1, LeastNumber
<1>3. PICK c \in Node : Bad(c) /\ \A i \in Node : Bad(i) => HeightOf(t, c) <= HeightOf(t, i)
  BY <1>2
<1> HIDE DEF BadHeights
<1>4. Tree(t, u, c) /\ ~Removed(t, u, n, c, f[c])
  BY <1>3
<1>5. ASSUME NEW i \in Node, Tree(t, u, i), HeightOf(t, i) < HeightOf(t, c)
      PROVE  Removed(t, u, n, i, f[i])
  <2>1. ~Bad(i)
    <3>1. HeightOf(t, i) \in Nat /\ HeightOf(t, c) \in Nat
      BY <1>0, HeightIs
    <3> HIDE DEF Bad
    <3> QED BY <3>1, <1>3, <1>5
  <2> QED BY <2>1, <1>5
<1> HIDE DEF Bad
<1>6. PICK r : r = f[c]
  OBVIOUS
<1>7. CASE c = NULL
  <2>1. r = [t |-> t, root |-> c, ret |-> FALSE]
    BY <1>6, <1>7 DEF Rest, Node
  <2>2. Under(u, c) = {}
    BY <1>7 DEF Under
  <2> QED BY <2>1, <2>2, <1>4, <1>6 DEF Removed
<1>8. CASE c # NULL /\ c = n
  <2>1. PICK x : x = Unlink(t, n)
    OBVIOUS
  <2>2. r = Returning([x EXCEPT !.t.size = @ - 1], TRUE)
    BY <2>1, <1>6, <1>8 DEF Rest
  <2>3. PICK v \in Unders : Without(t, u, n, n, x, v) /\ x.t.size = t.size
    BY <2>1, <1>4, <1>8, UnlinkIs
  <2>4. x.t \in Trees /\ t.size \in Int
    BY <2>3, <1>0 DEF Without, Grown, Trees
  <2>5. x = [t |-> x.t, root |-> x.root]
    BY <2>1 DEF Unlink
  <2>6. /\ r.ret = TRUE /\ r.root = x.root /\ r.t \in Trees /\ r.t.size = x.t.size - 1
        /\ r.t.root = x.t.root /\ r.t.kid = x.t.kid /\ r.t.p = x.t.p
        /\ r.t.height = x.t.height /\ r.t.aborted = x.t.aborted
    <3>1. PICK y : y = [x.t EXCEPT !.size = @ - 1]
      OBVIOUS
    <3>2. r.t = y /\ r.root = x.root /\ r.ret = TRUE
      BY <3>1, <2>2, <2>5 DEF Returning
    <3>3. /\ y \in Trees /\ y.size = x.t.size - 1 /\ y.root = x.t.root /\ y.kid = x.t.kid /\ y.p = x.t.p
          /\ y.height = x.t.height /\ y.aborted = x.t.aborted
      BY <3>1, <2>4 DEF Trees
    <3> QED BY <3>2, <3>3
  <2>7. Without(t, u, n, c, r, v)
    <3>1. /\ x.root \in Node /\ Tree(x.t, v, x.root)
          /\ Under(v, x.root) = u[n] \ {n} /\ Beyond(t, u, x.t, v, u[n])
      BY <2>3 DEF Without, Grown
    <3>2. Untouched(x.t, v, r.t, v, x.root)
      <4>1. Under(v, x.root) \subseteq Items
        BY <3>1, UnderIs
      <4> QED BY <4>1, <2>6 DEF Untouched
    <3>3. Tree(r.t, v, r.root) /\ HeightOf(r.t, r.root) = HeightOf(x.t, x.root)
      BY <3>1, <3>2, <2>4, <2>6, SameTree
    <3>4. Beyond(t, u, r.t, v, u[n])
      BY <3>1, <2>6 DEF Beyond
    <3> QED BY <3>1, <3>3, <3>4, <2>3, <2>6, <1>8 DEF Without, Grown
  <2>8. n \in Under(u, c)
    BY <1>4, <1>8 DEF Tree, Under
  <2> QED BY <2>3, <2>6, <2>7, <2>8, <1>4, <1>6 DEF Removed
<1>9. CASE c # NULL /\ c # n
  <2>1. c \in Items /\ HeightOf(t, c) = t.height[c] /\ Under(u, c) = u[c]
    BY <1>9 DEF Node, HeightOf, Under
  <2>2. /\ c \in u[c] /\ u[c] \in SUBSET Items /\ Linked(t, u, c) /\ Even(t, c)
    BY <2>1, <1>0, <1>4, <1>9 DEF Tree, Unders
  <2>3. ASSUME NEW s \in Side, NEW child, child = t.kid[s][c]
        PROVE  /\ child \in Node /\ Removed(t, u, n, child, f[child]) /\ Tree(t, u, child)
               /\ n \in Under(u, child) => f[child].ret = TRUE
               /\ n \notin Under(u, child) => f[child].ret = FALSE
               /\ n \in Under(u, child) => Ordered(s, n, c)
    <3>1. child \in Node /\ Tree(t, u, child)
      BY <2>1, <2>3, <1>0, <1>4, Kids, KidTree
    <3>2. HeightOf(t, child) < HeightOf(t, c)
      <4>1. PICK beside \in Node : beside = t.kid[Other(s)][c]
        BY <2>1, <1>0, Kids, Others
      <4>2. PICK h \in Nat : h = HeightOf(t, child)
        BY <3>1, <1>0, HeightIs
      <4>3. PICK b \in Nat : b = HeightOf(t, beside)
        BY <1>0, HeightIs
      <4>4. t.height[c] = Higher(h, b) + 1
        BY <4>1, <4>2, <4>3, <2>1, <2>2, <2>3, <1>0, EvenIs
      <4> QED BY <4>2, <4>4, <2>1 DEF Higher
    <3>3. Removed(t, u, n, child, f[child])
      BY <3>1, <3>2, <1>5
    <3>4. /\ n \in Under(u, child) => f[child].ret = TRUE
          /\ n \notin Under(u, child) => f[child].ret = FALSE
      BY <3>3 DEF Removed
    <3>5. n \in Under(u, child) => Ordered(s, n, c)
      BY <2>2, <2>3 DEF Linked
    <3> QED BY <3>1, <3>3, <3>4, <3>5
  <2>4. PICK l \in Node : l = t.kid["l"][c]
    BY <2>3 DEF Side
  <2>5. PICK r0 \in Node : r0 = t.kid["r"][c]
    BY <2>3 DEF Side
  <2>6. /\ n \in Under(u, l) => f[l].ret = TRUE
        /\ n \notin Under(u, l) => f[l].ret = FALSE
        /\ n \in Under(u, r0) => f[r0].ret = TRUE
        /\ n \notin Under(u, r0) => f[r0].ret = FALSE
        /\ (n \in Under(u, l) => Key[n] <= Key[c]) /\ (n \in Under(u, r0) => Key[n] >= Key[c])
    <3>1. Key[n] \in Int /\ Key[c] \in Int
      BY <2>1, MapAssumption
    <3>2. (n \in Under(u, l) => f[l].ret = TRUE) /\ (n \notin Under(u, l) => f[l].ret = FALSE)
          /\ (n \in Under(u, l) => Ordered("l", n, c))
      BY <2>3, <2>4 DEF Side
    <3>3. (n \in Under(u, r0) => f[r0].ret = TRUE) /\ (n \notin Under(u, r0) => f[r0].ret = FALSE)
          /\ (n \in Under(u, r0) => Ordered("r", n, c))
      BY <2>3, <2>5 DEF Side
    <3> QED BY <3>1, <3>2, <3>3 DEF Ordered
  <2>7. u[c] = {c} \cup Under(u, l) \cup Under(u, r0)
    BY <2>2, <2>4, <2>5 DEF Linked
  <2>8. CASE n \notin Under(u, c)
    <3>1. n \notin Under(u, l) /\ n \notin Under(u, r0)
      BY <2>1, <2>7, <2>8
    <3>2. f[l].ret = FALSE /\ f[r0].ret = FALSE
      BY <3>1, <2>6
    <3>3. f[t.kid["l"][c]].ret = FALSE /\ f[t.kid["r"][c]].ret = FALSE
      BY <3>2, <2>4, <2>5
    <3>4. Rest(f, t, n, c) = [t |-> t, root |-> c, ret |-> FALSE]
      BY <3>3, <1>9 DEF Rest
    <3> QED BY <3>4, <2>8, <1>4 DEF Removed
  <2>9. CASE n \in Under(u, c)
    <3>1. PICK s \in Side : s = IF n \in Under(u, l) THEN "l" ELSE "r"
      BY DEF Side
    <3>2. PICK child \in Node : child = t.kid[s][c]
      BY <2>3
    <3>3. PICK beside \in Node : beside = t.kid[Other(s)][c]
      BY <2>3, Others
    <3>4. n \in Under(u, child)
      <4>1. CASE n \in Under(u, l)
        BY <4>1, <3>1, <3>2, <2>4
      <4>2. CASE n \notin Under(u, l)
        BY <4>2, <3>1, <3>2, <2>1, <2>5, <2>7, <2>9, <1>9
      <4> QED BY <4>1, <4>2
    <3>5. PICK sub : sub = f[child]
      OBVIOUS
    <3>6. PICK y : y = SetKid(sub.t, c, s, sub.root)
      OBVIOUS
    <3>7. PICK z : z = Adjust(y, c)
      OBVIOUS
    <3>8. r = Returning(z, TRUE)
      <4>1. CASE n \in Under(u, l)
        <5>1. s = "l" /\ f[t.kid["l"][c]].ret = TRUE /\ Key[n] <= Key[c]
          BY <4>1, <3>1, <2>4, <2>6
        <5>2. Rest(f, t, n, c) = Returning(z, TRUE)
          BY <5>1, <3>2, <3>5, <3>6, <3>7, <1>9 DEF Rest
        <5> QED BY <5>2, <1>6
      <4>2. CASE n \notin Under(u, l)
        <5>1. s = "r" /\ f[t.kid["l"][c]].ret = FALSE
          BY <4>2, <3>1, <2>4, <2>6
        <5>2. f[t.kid["r"][c]].ret = TRUE /\ Key[n] >= Key[c]
          BY <5>1, <3>2, <3>4, <2>5, <2>6
        <5>3. Rest(f, t, n, c) = Returning(z, TRUE)
          BY <5>1, <5>2, <3>2, <3>5, <3>6, <3>7, <1>9 DEF Rest
        <5> QED BY <5>3, <1>6
      <4> QED BY <4>1, <4>2
    <3>9. r.t = z.t /\ r.root = z.root /\ r.ret = TRUE
      BY <3>8 DEF Returning
    <3>10. child # NULL /\ child \in Items /\ Under(u, child) = u[child] /\ u[child] \in SUBSET Items
      BY <3>4, <1>0 DEF Under, Node, Unders
    <3>11. PICK v \in Unders : Without(t, u, n, child, sub, v) /\ sub.t.size = t.size - 1
      BY <3>2, <3>4, <3>5, <2>3 DEF Removed
    <3>12. PICK T \in SUBSET Items : T = u[child] \ {n}
      BY <3>10
    <3>13. /\ sub.t \in Trees /\ sub.root \in Node /\ Tree(sub.t, v, sub.root)
           /\ Under(v, sub.root) = T /\ Beyond(t, u, sub.t, v, u[child])
           /\ (sub.root # NULL => sub.t.p[sub.root] = t.p[child])
           /\ HeightOf(sub.t, sub.root) - t.height[child] \in -1..0
      BY <3>11, <3>12 DEF Without, Grown
    <3>14. /\ u[c] = {c} \cup u[child] \cup Under(u, beside)
           /\ u[child] \cap Under(u, beside) = {} /\ c \notin u[child] /\ c \notin Under(u, beside)
           /\ t.p[child] = c
           /\ \A i \in u[child] : Ordered(s, i, c)
      <4>1. Joint(t, u, c, s, child, beside)
        BY <3>2, <3>3, <2>2, JointIs
      <4> QED BY <4>1, <3>10 DEF Joint
    <3>15. KidSet(sub.t, c, s, sub.root, y)
      <4>1. sub.t \in Trees /\ sub.root \in Node
        BY <3>13
      <4> QED BY <4>1, <3>6, <2>1, SetKidIs
    <3>16. Hung(t, u, c, s, child, beside, sub.t, v, u[child], T, y, sub.root, z)
      <4>1. /\ y \in Trees /\ y.root = sub.t.root /\ y.aborted = sub.t.aborted /\ y.size = sub.t.size
            /\ y.height = sub.t.height /\ y.p = sub.t.p
            /\ \A q \in Side : \A i \in Items :
                 y.kid[q][i] = IF q = s /\ i = c THEN sub.root ELSE sub.t.kid[q][i]
        BY <3>15 DEF KidSet
      <4>2. /\ u[child] \cap ({c} \cup Under(u, beside)) = {} /\ T \cap ({c} \cup Under(u, beside)) = {}
            /\ \A i \in T : Ordered(s, i, c)
        BY <3>12, <3>14
      <4>3. HeightOf(sub.t, sub.root) - HeightOf(t, child) \in -1..1
        BY <3>10, <3>13 DEF HeightOf
      <4> QED BY <4>1, <4>2, <4>3, <3>2, <3>3, <3>7, <3>13, <3>14 DEF Hung
    <3>17. PICK w \in Unders :
             /\ Grown(t, u, u[child] \cup T \cup u[c], z, w, {c} \cup T \cup Under(u, beside))
             /\ z.root \in Items /\ z.t.p[z.root] = t.p[c] /\ z.t.size = sub.t.size
             /\ HeightOf(sub.t, sub.root) - HeightOf(t, child) \in 0..1
                => z.t.height[z.root] - t.height[c] \in 0..1
             /\ HeightOf(sub.t, sub.root) - HeightOf(t, child) \in -1..0
                => z.t.height[z.root] - t.height[c] \in -1..0
      BY <3>10, <3>16, <2>1, <1>0, <1>4, HangIs
    <3>18. n \in u[child] /\ n # c /\ n \notin Under(u, beside)
      BY <3>4, <3>10, <3>14
    <3>19. u[child] \cup T \cup u[c] = u[c] /\ {c} \cup T \cup Under(u, beside) = u[c] \ {n}
      BY <3>12, <3>14, <3>18
    <3>20. Grown(t, u, u[c], r, w, u[c] \ {n})
      BY <3>9, <3>17, <3>19 DEF Grown
    <3>21. HeightOf(r.t, r.root) - t.height[c] \in -1..0
      <4>1. HeightOf(sub.t, sub.root) - HeightOf(t, child) \in -1..0
        BY <3>10, <3>13 DEF HeightOf
      <4>2. HeightOf(r.t, r.root) = z.t.height[z.root]
        BY <3>9, <3>17, MapAssumption DEF HeightOf
      <4> QED BY <4>1, <4>2, <3>17
    <3>22. Without(t, u, n, c, r, w)
      BY <3>9, <3>17, <3>20, <3>21 DEF Without
    <3>23. r.t.size = t.size - 1
      BY <3>9, <3>11, <3>17
    <3> QED BY <3>9, <3>22, <3>23, <2>9, <1>4, <1>6 DEF Removed
  <2> QED BY <2>8, <2>9
<1> QED BY <1>7, <1>8, <1>9

\* __remove(root, node) at the root of the map, for an item that is in it.
Gone(t, u, S, n, x, v) ==
  /\ Grown(t, u, S \cup {n}, x, v, S \ {n}) /\ x.ret = TRUE
  /\ x.root # NULL => x.t.p[x.root] = NULL
  /\ x.t.size = t.size - 1

\* An item that is in the tree is found and taken out.
LEMMA RemoveIs ==
  ASSUME NEW t, NEW u, NEW S, Whole(t, u, S), NEW n \in S, NEW x, x = Remove(t, n)
  PROVE  \E v \in Unders : Gone(t, u, S, n, x, v)
<1> DEFINE Its(f) == f = [root \in Items \cup {NULL} |-> Rest(f, t, n, root)]
           rest == CHOOSE f : Its(f)
<1>1. Its(rest)
  <2>1. PICK f : Solves(f, Node, "rest", t, n, "l")
    BY RestExists
  <2>2. Its(f)
    BY <2>1 DEF Solves, Body, Node
  <2> HIDE DEF Its
  <2> QED BY <2>2
<1>2. x = rest[t.root]
  BY Zenon DEF Remove, Rest
<1>3. \A c \in Node : rest[c] = Rest(rest, t, n, c)
  BY <1>1 DEF Node
<1> HIDE DEF rest
<1>4. /\ t.root \in Node /\ Tree(t, u, t.root) /\ Under(u, t.root) = S /\ n \in Items
      /\ t.root # NULL => t.p[t.root] = NULL
  BY DEF Whole, Trees
<1>5. Removed(t, u, n, t.root, x)
  BY <1>2, <1>3, <1>4, RestIs
<1>6. PICK v \in Unders : x.ret = TRUE /\ Without(t, u, n, t.root, x, v) /\ x.t.size = t.size - 1
  BY <1>4, <1>5 DEF Removed
<1>7. t.root # NULL /\ u[t.root] = S /\ S \cup {n} = S
  BY <1>4 DEF Under
<1> QED BY <1>4, <1>6, <1>7 DEF Without, Gone

\* What Map::remove leaves in the fields of the item it took out.
LEMMA LoosedIs ==
  ASSUME NEW t \in Trees, NEW n \in Items, NEW r, r = Cleared(t, n)
  PROVE  /\ r \in Trees /\ r.root = t.root /\ r.aborted = t.aborted /\ r.size = t.size /\ Loose(r, n)
         /\ \A i \in Items \ {n} : /\ r.height[i] = t.height[i] /\ r.p[i] = t.p[i]
                                   /\ \A q \in Side : r.kid[q][i] = t.kid[q][i]
<1>0. n \in Node /\ NULL \in Node /\ "l" \in Side /\ "r" \in Side /\ Side = {"l", "r"} /\ n # NULL
  BY MapAssumption DEF Node, Side
<1>1. PICK a : a = SetParent(t, n, NULL)
  OBVIOUS
<1>2. PICK b : b = SetKid(a, n, "l", NULL)
  OBVIOUS
<1>3. PICK c : c = SetKid(b, n, "r", NULL)
  OBVIOUS
<1>4. ParentSet(t, n, NULL, a)
  BY <1>0, <1>1, SetParentIs
<1>5. KidSet(a, n, "l", NULL, b)
  <2>1. a \in Trees
    BY <1>4 DEF ParentSet
  <2> QED BY <2>1, <1>0, <1>2, SetKidIs
<1>6. KidSet(b, n, "r", NULL, c)
  <2>1. b \in Trees
    BY <1>5 DEF KidSet
  <2> QED BY <2>1, <1>0, <1>3, SetKidIs
<1>7. r = [c EXCEPT !.height[n] = 0]
  BY <1>1, <1>2, <1>3 DEF Cleared
<1>8. c \in Trees
  BY <1>6 DEF KidSet
<1>9. /\ r \in Trees /\ r.root = c.root /\ r.kid = c.kid /\ r.p = c.p /\ r.size = c.size
      /\ r.aborted = c.aborted
      /\ \A i \in Items : r.height[i] = IF i = n THEN 0 ELSE c.height[i]
  <2>1. PICK height : height = [c.height EXCEPT ![n] = 0]
    OBVIOUS
  <2>2. /\ c.height \in [Items -> Nat] /\ c.root \in Node /\ c.kid \in [Side -> [Items -> Node]]
        /\ c.p \in [Items -> Node] /\ c.size \in Int /\ c.aborted \in BOOLEAN
        /\ c = [root |-> c.root, kid |-> c.kid, p |-> c.p, height |-> c.height, size |-> c.size,
                aborted |-> c.aborted]
    BY <1>8 DEF Trees
  <2>3. height \in [Items -> Nat] /\ \A i \in Items : height[i] = IF i = n THEN 0 ELSE c.height[i]
    BY <2>1, <2>2
  <2>4. r = [c EXCEPT !.height = height]
    BY <1>7, <2>1
  <2>5. r = [root |-> c.root, kid |-> c.kid, p |-> c.p, height |-> height, size |-> c.size,
             aborted |-> c.aborted]
    BY <2>2, <2>4
  <2> QED BY <2>2, <2>3, <2>5 DEF Trees
<1>10. /\ c.root = t.root /\ c.size = t.size /\ c.aborted = t.aborted /\ c.height = t.height
       /\ \A i \in Items : c.p[i] = IF i = n THEN NULL ELSE t.p[i]
  BY <1>4, <1>5, <1>6 DEF ParentSet, KidSet
<1>11. \A q \in Side : \A i \in Items : c.kid[q][i] = IF i = n THEN NULL ELSE t.kid[q][i]
  BY <1>0, <1>4, <1>5, <1>6 DEF ParentSet, KidSet
<1>12. Loose(r, n)
  BY <1>9, <1>10, <1>11 DEF Loose
<1>13. ASSUME NEW i \in Items \ {n}
       PROVE  /\ r.height[i] = t.height[i] /\ r.p[i] = t.p[i]
              /\ \A q \in Side : r.kid[q][i] = t.kid[q][i]
  BY <1>9, <1>10, <1>11
<1> QED BY <1>9, <1>10, <1>12, <1>13

\* Without an item that was in it the tree is whole.
LEMMA DeleteKeeps ==
  ASSUME NEW t, NEW u, NEW S, Whole(t, u, S), NEW n \in S, NEW x, x = Remove(t, n), NEW r,
         r = Abort(Cleared(Rooted(x), n), ~x.ret)
  PROVE  \E v \in Unders : Whole(r, v, S \ {n})
<1>1. PICK v \in Unders : /\ Grown(t, u, S \cup {n}, x, v, S \ {n}) /\ x.ret = TRUE
                          /\ x.root # NULL => x.t.p[x.root] = NULL
                          /\ x.t.size = t.size - 1
  <2>1. PICK v \in Unders : Gone(t, u, S, n, x, v)
    BY RemoveIs
  <2> QED BY <2>1 DEF Gone
<1>2. x.t \in Trees /\ x.root \in Node /\ n \in Items /\ S \in SUBSET Items
      /\ x.t.aborted = t.aborted /\ ~t.aborted
  BY <1>1 DEF Grown, Beyond, Whole
<1>3. PICK y : y = Rooted(x)
  OBVIOUS
<1>4. /\ y \in Trees /\ y.root = x.root /\ y.kid = x.t.kid /\ y.p = x.t.p /\ y.height = x.t.height
      /\ y.size = x.t.size /\ y.aborted = x.t.aborted
  BY <1>2, <1>3 DEF Rooted, Trees
<1>5. PICK z : z = Cleared(y, n)
  OBVIOUS
<1>6. /\ z \in Trees /\ z.root = y.root /\ z.aborted = y.aborted /\ z.size = y.size /\ Loose(z, n)
      /\ \A i \in Items \ {n} : /\ z.height[i] = y.height[i] /\ z.p[i] = y.p[i]
                                /\ \A q \in Side : z.kid[q][i] = y.kid[q][i]
  <2>1. n \in Items /\ y \in Trees
    BY <1>2, <1>4
  <2> QED BY <2>1, <1>5, LoosedIs
<1>7. PICK failed \in BOOLEAN : failed = ~x.ret
  OBVIOUS
<1>8. r = Abort(z, failed) /\ ~failed
  BY <1>1, <1>3, <1>5, <1>7
<1>9. /\ r \in Trees /\ r.root = z.root /\ r.kid = z.kid /\ r.p = z.p /\ r.height = z.height
      /\ r.size = z.size /\ r.aborted = (z.aborted \/ failed)
  BY <1>6, <1>8, AbortIs
<1>10. /\ r.root = x.root /\ ~r.aborted /\ r.size = x.t.size /\ Loose(r, n)
       /\ \A i \in Items \ {n} : /\ r.height[i] = x.t.height[i] /\ r.p[i] = x.t.p[i]
                                 /\ \A q \in Side : r.kid[q][i] = x.t.kid[q][i]
  <2>1. ~z.aborted /\ ~r.aborted
    BY <1>2, <1>4, <1>6, <1>8, <1>9
  <2>2. Loose(r, n)
    BY <1>6, <1>9 DEF Loose
  <2> QED BY <2>1, <2>2, <1>4, <1>6, <1>9
<1>11. PICK T \in SUBSET Items : T = S \ {n}
  BY <1>2
<1>12. IsFiniteSet(T) /\ Cardinality(T) = r.size
  <2>1. IsFiniteSet(S) /\ t.size = Cardinality(S)
    BY DEF Whole
  <2> QED BY <2>1, <1>1, <1>10, <1>11, FS_RemoveElement
<1>13. (S \cup {n}) \ T = {n} /\ T \subseteq S \cup {n}
  BY <1>2, <1>11
<1>14. /\ \A i \in (S \cup {n}) \ T : Loose(r, i)
       /\ \A i \in Items \ ((S \cup {n}) \ T) :
            /\ r.height[i] = x.t.height[i] /\ r.p[i] = x.t.p[i]
            /\ \A q \in Side : r.kid[q][i] = x.t.kid[q][i]
  BY <1>10, <1>13
<1>15. Grown(t, u, S \cup {n}, x, v, T)
  BY <1>1, <1>11
<1>16. Whole(r, v, T)
  <2>1. x.root # NULL => x.t.p[x.root] = NULL
    BY <1>1
  <2>2. n \in Items /\ r \in Trees /\ r.root = x.root /\ ~r.aborted /\ IsFiniteSet(T)
        /\ r.size = Cardinality(T) /\ T \subseteq S \cup {n}
    BY <1>2, <1>9, <1>10, <1>12, <1>13
  <2> QED BY <2>1, <2>2, <1>14, <1>15, WholeAgain
<1> QED BY <1>11, <1>16

\* An empty tree is whole.
LEMMA MapInvInit == AvlInit => MapInv
<1> SUFFICES ASSUME AvlInit PROVE MapInv
  OBVIOUS
<1>1. PICK u : u = [i \in Items |-> {}]
  OBVIOUS
<1>2. u \in Unders
  BY <1>1 DEF Unders
<1>3. avl \in Trees /\ avl.root = NULL /\ avl.size = 0 /\ ~avl.aborted /\ members = {}
      /\ \A i \in Items : Loose(avl, i)
  BY DEF AvlInit, Trees, Side, Node, Loose
<1>4. IsFiniteSet({}) /\ Cardinality({}) = 0
  BY FS_EmptySet
<1>5. Whole(avl, u, members)
  BY <1>2, <1>3, <1>4 DEF Whole, Tree, Under
<1> QED BY <1>2, <1>5 DEF MapInv

\* Every addition and removal keeps the tree whole.
LEMMA MapInvNext == MapInv /\ [AvlNext]_avlVars => MapInv'
<1> SUFFICES ASSUME MapInv, [AvlNext]_avlVars PROVE MapInv'
  OBVIOUS
<1>1. PICK u \in Unders : Whole(avl, u, members)
  BY DEF MapInv
<1>2. ASSUME NEW n \in Items, Add(n) PROVE MapInv'
  <2>1. n \notin members /\ avl' = Rooted(Insert(avl, n)) /\ members' = members \cup {n}
    BY <1>2 DEF Add
  <2>2. \E v \in Unders : Whole(Rooted(Insert(avl, n)), v, members \cup {n})
    BY <2>1, <1>1, AddKeeps
  <2> QED BY <2>1, <2>2 DEF MapInv
<1>3. ASSUME NEW n \in Items, Delete(n) PROVE MapInv'
  <2>1. PICK x : x = Remove(avl, n)
    OBVIOUS
  <2>2. PICK r : r = Abort(Cleared(Rooted(x), n), ~x.ret)
    OBVIOUS
  <2>3. n \in members /\ avl' = r /\ members' = members \ {n}
    BY <2>1, <2>2, <1>3 DEF Delete, Deleted
  <2>4. \E v \in Unders : Whole(r, v, members \ {n})
    BY <2>1, <2>2, <2>3, <1>1, DeleteKeeps
  <2> QED BY <2>3, <2>4 DEF MapInv
<1>4. CASE UNCHANGED avlVars
  BY <1>1, <1>4 DEF MapInv, avlVars
<1> QED BY <1>2, <1>3, <1>4 DEF AvlNext

\* The function that Get defines exists.
LEMMA GotExists ==
  ASSUME NEW t, NEW u, NEW S, NEW key, Whole(t, u, S)
  PROVE  \E f : Solves(f, Node, "got", t, key, "l")
<1>1. PICK rank, H : Ranked(t, rank, H)
  BY RanksExist
<1>2. rank \in [Node -> Nat] /\ H \in Nat /\ \A x \in Node : rank[x] < H
  BY <1>1 DEF Ranked
<1>4. ASSUME NEW f, NEW g, NEW x \in Node, \A z \in Node : rank[z] < rank[x] => f[z] = g[z]
      PROVE  Body("got", f, t, key, "l", x) = Body("got", g, t, key, "l", x)
  <2>1. CASE x = NULL
    <3>1. Got(f, t, key, x) = Got(g, t, key, x)
      BY <2>1 DEF Got
    <3> QED BY <3>1 DEF Body
  <2>2. CASE x # NULL
    <3>1. f[t.kid["l"][x]] = g[t.kid["l"][x]] /\ f[t.kid["r"][x]] = g[t.kid["r"][x]]
      BY <1>1, <1>4, <2>2 DEF Ranked, Node, Side
    <3>2. Got(f, t, key, x) = Got(g, t, key, x)
      BY <3>1 DEF Got
    <3> QED BY <3>2 DEF Body
  <2> QED BY <2>1, <2>2
<1>5. Local(Node, rank, "got", t, key, "l")
  BY <1>4 DEF Local
<1> QED BY <1>2, <1>5, RecursionExists

\* The function that Leftmost defines exists.
LEMMA MostExists ==
  ASSUME NEW t, NEW u, NEW S, Whole(t, u, S)
  PROVE  \E f : Solves(f, Node, "most", t, NULL, "l")
<1>1. PICK rank, H : Ranked(t, rank, H)
  BY RanksExist
<1>2. rank \in [Node -> Nat] /\ H \in Nat /\ \A x \in Node : rank[x] < H
  BY <1>1 DEF Ranked
<1>4. ASSUME NEW f, NEW g, NEW x \in Node, \A z \in Node : rank[z] < rank[x] => f[z] = g[z]
      PROVE  Body("most", f, t, NULL, "l", x) = Body("most", g, t, NULL, "l", x)
  <2>1. CASE x = NULL
    <3>1. Most(f, t, x) = Most(g, t, x)
      BY <2>1 DEF Most
    <3> QED BY <3>1 DEF Body
  <2>2. CASE x # NULL
    <3>1. f[t.kid["l"][x]] = g[t.kid["l"][x]]
      BY <1>1, <1>4, <2>2 DEF Ranked, Node, Side
    <3>2. Most(f, t, x) = Most(g, t, x)
      BY <3>1 DEF Most
    <3> QED BY <3>2 DEF Body
  <2> QED BY <2>1, <2>2
<1>5. Local(Node, rank, "most", t, NULL, "l")
  BY <1>4 DEF Local
<1> QED BY <1>2, <1>5, RecursionExists

\* The function that Above defines exists: it goes up, so what is higher ranks lower.
LEMMA AboveExists ==
  ASSUME NEW t, NEW u, NEW S, Whole(t, u, S)
  PROVE  \E f : Solves(f, Items, "above", t, NULL, "l")
<1>1. PICK rank, H : Ranked(t, rank, H)
  BY RanksExist
<1>2. PICK depth \in [Items -> Nat] : \A x \in Items : depth[x] = H - rank[x]
  <2>1. [x \in Items |-> H - rank[x]] \in [Items -> Nat]
    BY <1>1 DEF Ranked, Node
  <2> QED BY <2>1
<1>3. H + 1 \in Nat /\ \A x \in Items : depth[x] < H + 1
  BY <1>1, <1>2 DEF Ranked, Node
<1>4. ASSUME NEW f, NEW g, NEW x \in Items, \A z \in Items : depth[z] < depth[x] => f[z] = g[z]
      PROVE  Body("above", f, t, NULL, "l", x) = Body("above", g, t, NULL, "l", x)
  <2>1. t.p[x] \in Node
    <3>1. t \in Trees
      BY DEF Whole
    <3> QED BY <3>1, Kids DEF Side
  <2>2. CASE t.p[x] # NULL /\ t.kid["r"][t.p[x]] = x
    <3>1. t.p[x] \in Items /\ rank[x] < rank[t.p[x]] /\ rank[x] \in Nat /\ rank[t.p[x]] \in Nat /\ H \in Nat
      BY <1>1, <2>1, <2>2 DEF Ranked, Node, Side
    <3>2. depth[t.p[x]] < depth[x]
      BY <3>1, <1>2
    <3>3. f[t.p[x]] = g[t.p[x]]
      BY <3>1, <3>2, <1>4
    <3>4. Upward(f, t, x) = Upward(g, t, x)
      BY <3>3 DEF Upward
    <3> QED BY <3>4 DEF Body
  <2>3. CASE ~(t.p[x] # NULL /\ t.kid["r"][t.p[x]] = x)
    <3>1. Upward(f, t, x) = Upward(g, t, x)
      BY <2>3 DEF Upward
    <3> QED BY <3>1 DEF Body
  <2> QED BY <2>2, <2>3
<1>5. Local(Items, depth, "above", t, NULL, "l")
  BY <1>4 DEF Local
<1> QED BY <1>2, <1>3, <1>5, RecursionExists

\* The function that Walk defines exists.
LEMMA MetExists ==
  ASSUME NEW size \in Nat
  PROVE  \E f : Solves(f, 0..size, "met", NULL, NULL, "l")
<1>1. PICK rank \in [0..size -> Nat] : \A k \in 0..size : rank[k] = k
  <2>1. [k \in 0..size |-> k] \in [0..size -> Nat]
    OBVIOUS
  <2> QED BY <2>1
<1>2. size + 1 \in Nat /\ \A k \in 0..size : rank[k] < size + 1
  BY <1>1
<1>3. ASSUME NEW f, NEW g, NEW x \in 0..size, \A z \in 0..size : rank[z] < rank[x] => f[z] = g[z]
      PROVE  Body("met", f, NULL, NULL, "l", x) = Body("met", g, NULL, NULL, "l", x)
  <2>1. x # 0 => f[x - 1] = g[x - 1]
    <3>1. ASSUME x # 0 PROVE f[x - 1] = g[x - 1]
      <4>1. x - 1 \in 0..size /\ x - 1 < x
        BY <3>1
      <4> QED BY <4>1, <1>1, <1>3
    <3> QED BY <3>1
  <2>2. Met(f, x) = Met(g, x)
    BY <2>1 DEF Met
  <2> QED BY <2>2 DEF Body
<1>4. Local(0..size, rank, "met", NULL, NULL, "l")
  BY <1>3 DEF Local
<1> QED BY <1>1, <1>2, <1>4, RecursionExists

\* What stands in a whole tree.
LEMMA InTree ==
  ASSUME NEW t, NEW u, NEW S, Whole(t, u, S), NEW x \in S
  PROVE  /\ t \in Trees /\ u \in Unders /\ S \in SUBSET Items /\ x \in Items /\ x # NULL
         /\ t.root \in S /\ u[t.root] = S /\ t.p[t.root] = NULL
         /\ x \in u[x] /\ u[x] \subseteq S /\ Tree(t, u, x)
         /\ Linked(t, u, x) /\ Even(t, x) /\ Closed(t, u, x)
         /\ x # t.root => t.p[x] \in S /\ \E s \in Side : t.kid[s][t.p[x]] = x
<1>1. /\ t \in Trees /\ u \in Unders /\ S \in SUBSET Items /\ x \in Items /\ x # NULL
      /\ Tree(t, u, t.root) /\ Under(u, t.root) = S /\ (t.root # NULL => t.p[t.root] = NULL)
  BY MapAssumption DEF Whole
<1>2. t.root # NULL /\ u[t.root] = S
  BY <1>1 DEF Under
<1>3. /\ t.root \in S /\ \A y \in S : Linked(t, u, y) /\ Even(t, y) /\ Closed(t, u, y)
  BY <1>1, <1>2 DEF Tree
<1>4. Closed(t, u, t.root)
  BY <1>3
<1>5. u[x] \subseteq S /\ (x # t.root => t.p[x] \in S /\ \E s \in Side : t.kid[s][t.p[x]] = x)
  BY <1>2, <1>4 DEF Closed
<1>6. x \in u[x]
  BY <1>3 DEF Linked
<1>7. Tree(t, u, x)
  BY <1>1, <1>3, <1>5, <1>6 DEF Tree
<1> QED BY <1>1, <1>2, <1>3, <1>5, <1>6, <1>7

\* What get finds under c.
Finds(u, c, key, n) ==
  IF \E m \in Under(u, c) : Key[m] = key THEN n \in Under(u, c) /\ Key[n] = key ELSE n = NULL

\* The way down from c that get takes passes by no item with the key.
LEMMA GotIs ==
  ASSUME NEW t \in Trees, NEW u \in Unders, NEW key \in Int, NEW f,
         \A c \in Node : f[c] = Got(f, t, key, c)
  PROVE  \A c \in Node : Tree(t, u, c) => Finds(u, c, key, f[c])
<1> DEFINE Bad(c) == Tree(t, u, c) /\ ~Finds(u, c, key, f[c])
           BadHeights == {HeightOf(t, c) : c \in {i \in Node : Bad(i)}}
<1>1. SUFFICES ASSUME BadHeights # {} PROVE FALSE
  OBVIOUS
<1>2. PICK k \in BadHeights : \A j \in BadHeights : k <= j
  <2>1. BadHeights \subseteq Nat
    BY HeightIs
  <2> HIDE DEF BadHeights
  <2> QED BY <2>1, <1>1, LeastNumber
<1>3. PICK c \in Node : Bad(c) /\ \A i \in Node : Bad(i) => HeightOf(t, c) <= HeightOf(t, i)
  BY <1>2
<1> HIDE DEF BadHeights
<1>4. Tree(t, u, c) /\ ~Finds(u, c, key, f[c])
  BY <1>3
<1>5. ASSUME NEW i \in Node, Tree(t, u, i), HeightOf(t, i) < HeightOf(t, c)
      PROVE  Finds(u, i, key, f[i])
  <2>1. ~Bad(i)
    <3>1. HeightOf(t, i) \in Nat /\ HeightOf(t, c) \in Nat
      BY HeightIs
    <3> HIDE DEF Bad
    <3> QED BY <3>1, <1>3, <1>5
  <2> QED BY <2>1, <1>5
<1> HIDE DEF Bad
<1>6. PICK n : n = f[c]
  OBVIOUS
<1>7. CASE c = NULL
  <2>1. n = NULL /\ Under(u, c) = {}
    BY <1>6, <1>7 DEF Got, Under
  <2> QED BY <2>1, <1>4, <1>6 DEF Finds
<1>8. CASE c # NULL /\ Key[c] = key
  <2>1. n = c /\ c \in Under(u, c)
    BY <1>4, <1>6, <1>8 DEF Got, Under, Tree
  <2> QED BY <2>1, <1>4, <1>6, <1>8 DEF Finds
<1>9. CASE c # NULL /\ Key[c] # key
  <2>1. c \in Items /\ HeightOf(t, c) = t.height[c] /\ Under(u, c) = u[c] /\ Linked(t, u, c) /\ Even(t, c)
    BY <1>4, <1>9 DEF Node, HeightOf, Under, Tree
  <2>2. PICK s \in Side : s = IF key < Key[c] THEN "l" ELSE "r"
    BY DEF Side
  <2>3. PICK child \in Node : child = t.kid[s][c]
    BY <2>1, Kids
  <2>4. PICK beside \in Node : beside = t.kid[Other(s)][c]
    BY <2>1, Kids, Others
  <2>5. n = f[child]
    BY <2>2, <2>3, <1>6, <1>9 DEF Got
  <2>6. HeightOf(t, child) < HeightOf(t, c) /\ Tree(t, u, child)
    <3>1. PICK h \in Nat : h = HeightOf(t, child)
      BY HeightIs
    <3>2. PICK b \in Nat : b = HeightOf(t, beside)
      BY HeightIs
    <3>3. t.height[c] = Higher(h, b) + 1
      BY <3>1, <3>2, <2>1, <2>3, <2>4, EvenIs
    <3>4. Tree(t, u, child)
      BY <2>1, <2>3, <1>4, KidTree
    <3> QED BY <3>1, <3>3, <3>4, <2>1 DEF Higher
  <2>7. Finds(u, child, key, n)
    BY <2>5, <2>6, <1>5
  <2>8. /\ u[c] = {c} \cup Under(u, child) \cup Under(u, beside)
        /\ \A y \in Under(u, beside) : Ordered(Other(s), y, c)
        /\ Under(u, beside) \subseteq Items
    <3>1. Joint(t, u, c, s, child, beside)
      BY <2>1, <2>3, <2>4, JointIs
    <3>2. Under(u, beside) \subseteq Items
      BY UnderIs
    <3> QED BY <3>1, <3>2 DEF Joint
  <2>9. \A y \in Under(u, beside) : Key[y] # key
    <3>1. ASSUME NEW y \in Under(u, beside) PROVE Key[y] # key
      <4>1. Key[y] \in Int /\ Key[c] \in Int /\ Ordered(Other(s), y, c)
        BY <2>1, <2>8, MapAssumption
      <4>2. CASE key < Key[c]
        BY <4>1, <4>2, <2>2 DEF Ordered, Other
      <4>3. CASE ~(key < Key[c])
        BY <4>1, <4>3, <2>2, <1>9 DEF Ordered, Other
      <4> QED BY <4>2, <4>3
    <3> QED BY <3>1
  <2>10. Finds(u, c, key, n)
    BY <2>1, <2>7, <2>8, <2>9, <1>9 DEF Finds
  <2> QED BY <2>10, <1>4, <1>6
<1> QED BY <1>7, <1>8, <1>9

\* get finds a key exactly when an item of the tree has it.
LEMMA GetIs ==
  ASSUME NEW u, NEW S, Whole(avl, u, S), NEW key \in Int
  PROVE  IF \E m \in S : Key[m] = key THEN Get(key) \in S /\ Key[Get(key)] = key ELSE Get(key) = NULL
<1> DEFINE Its(f) == f = [n \in Items \cup {NULL} |-> Got(f, avl, key, n)]
           got == CHOOSE f : Its(f)
<1>1. Its(got)
  <2>1. PICK f : Solves(f, Node, "got", avl, key, "l")
    BY GotExists
  <2>2. Its(f)
    BY <2>1 DEF Solves, Body, Node
  <2> HIDE DEF Its
  <2> QED BY <2>2
<1>2. Get(key) = got[avl.root]
  BY Zenon DEF Get, Got
<1>3. \A c \in Node : got[c] = Got(got, avl, key, c)
  BY <1>1 DEF Node
<1> HIDE DEF got
<1>4. avl \in Trees /\ u \in Unders /\ avl.root \in Node /\ Tree(avl, u, avl.root) /\ Under(u, avl.root) = S
  BY DEF Whole, Trees
<1>5. Finds(u, avl.root, key, got[avl.root])
  BY <1>3, <1>4, GotIs
<1> QED BY <1>2, <1>4, <1>5 DEF Finds

\* The items in order: a walk comes to those at the right of an item, then to those that are
\* after every item it stands at the left of.
Onward(t, u, S, x) ==
  {m \in S : \E a \in S : /\ x \in Under(u, t.kid["l"][a])
                          /\ m \in {a} \cup Under(u, t.kid["r"][a])}

Later(t, u, S, x) == Under(u, t.kid["r"][x]) \cup Onward(t, u, S, x)

\* What comes after a kid: at the left side its parent and what comes after that, at the
\* right side what comes after its parent.
LEMMA OnwardOfKid ==
  ASSUME NEW t, NEW u, NEW S, Whole(t, u, S), NEW x \in S, NEW k, k # NULL
  PROVE  /\ k = t.kid["l"][x] => Onward(t, u, S, k) = {x} \cup Later(t, u, S, x)
         /\ k = t.kid["r"][x] => Onward(t, u, S, k) = Onward(t, u, S, x)
         /\ k \in {t.kid["l"][x], t.kid["r"][x]} => k \in S
<1>1. SUFFICES ASSUME k \in {t.kid["l"][x], t.kid["r"][x]}
               PROVE  /\ k = t.kid["l"][x] => Onward(t, u, S, k) = {x} \cup Later(t, u, S, x)
                      /\ k = t.kid["r"][x] => Onward(t, u, S, k) = Onward(t, u, S, x)
                      /\ k \in S
  OBVIOUS
<1>2. Linked(t, u, x) /\ u[x] \subseteq S /\ x \in S
  BY InTree
<1>3. k \in u[k] /\ t.p[k] = x /\ Under(u, k) = u[k] /\ u[k] \subseteq u[x] /\ k \in S /\ x \notin u[k]
  BY <1>1, <1>2 DEF Linked, Side, Under
<1>4. ASSUME NEW a \in S, a # x PROVE k \in Under(u, t.kid["l"][a]) <=> x \in Under(u, t.kid["l"][a])
  <2>1. PICK la : la = t.kid["l"][a]
    OBVIOUS
  <2>2. Linked(t, u, a) /\ u[a] \subseteq S
    BY InTree
  <2>3. CASE la = NULL
    BY <2>1, <2>3 DEF Under
  <2>4. CASE la # NULL
    <3>1. Under(u, la) = u[la] /\ la \in u[la] /\ t.p[la] = a /\ la \in S
      BY <2>1, <2>2, <2>4 DEF Linked, Side, Under
    <3>2. Closed(t, u, la)
      BY <3>1, InTree
    <3>3. x \in u[la] => k \in u[la]
      BY <3>2, <1>3 DEF Closed, Linked, Under
    <3>4. k \in u[la] => x \in u[la]
      BY <3>1, <3>2, <1>3, <1>4 DEF Closed
    <3> QED BY <3>1, <3>3, <3>4, <2>1
  <2> QED BY <2>3, <2>4
<1>5. x \notin Under(u, t.kid["l"][x])
  BY <1>2 DEF Linked, Side
<1>6. CASE k = t.kid["l"][x]
  <2>1. k # t.kid["r"][x]
    BY <1>2, <1>3, <1>6 DEF Linked, Under
  <2>2. k \in Under(u, t.kid["l"][x])
    BY <1>3, <1>6
  <2>3. {x} \cup Under(u, t.kid["r"][x]) \subseteq S
    BY <1>2 DEF Linked
  <2>4. ASSUME NEW m \in S
        PROVE  m \in Onward(t, u, S, k) <=> m \in {x} \cup Later(t, u, S, x)
    BY <2>2, <1>2, <1>4, <1>5 DEF Onward, Later
  <2>5. Onward(t, u, S, k) \subseteq S /\ {x} \cup Later(t, u, S, x) \subseteq S
    BY <2>3 DEF Onward, Later
  <2> QED BY <2>1, <2>4, <2>5, <1>3, <1>6
<1>7. CASE k = t.kid["r"][x]
  <2>1. k # t.kid["l"][x] /\ k \notin Under(u, t.kid["l"][x])
    BY <1>2, <1>3, <1>7 DEF Linked, Under
  <2>2. ASSUME NEW m \in S
        PROVE  m \in Onward(t, u, S, k) <=> m \in Onward(t, u, S, x)
    BY <2>1, <1>4, <1>5 DEF Onward
  <2>3. Onward(t, u, S, k) \subseteq S /\ Onward(t, u, S, x) \subseteq S
    BY DEF Onward
  <2> QED BY <2>1, <2>2, <2>3, <1>3
<1> QED BY <1>1, <1>6, <1>7

\* What comes after the items under x is none of them and has no smaller key.
LEMMA OnwardIs ==
  ASSUME NEW t, NEW u, NEW S, Whole(t, u, S), NEW x \in S
  PROVE  /\ u[x] \cap Onward(t, u, S, x) = {} /\ Onward(t, u, S, x) \subseteq S
         /\ Onward(t, u, S, t.root) = {}
         /\ \A m \in Onward(t, u, S, x) : Key[x] <= Key[m]
<1>1. ASSUME NEW a \in S, NEW z \in S, z \in Under(u, t.kid["l"][a])
      PROVE  /\ u[z] \cap ({a} \cup Under(u, t.kid["r"][a])) = {}
             /\ \A m \in {a} \cup Under(u, t.kid["r"][a]) : m \in Items => Key[z] <= Key[m]
  <2>1. PICK la : la = t.kid["l"][a]
    OBVIOUS
  <2>2. la # NULL /\ Under(u, la) = u[la] /\ z \in u[la]
    BY <2>1, <1>1 DEF Under
  <2>3. Linked(t, u, a) /\ u[a] \subseteq S
    BY InTree
  <2>4. la \in u[la] /\ la \in S
    BY <2>1, <2>2, <2>3 DEF Linked, Side
  <2>5. Closed(t, u, la)
    BY <2>4, InTree
  <2>6. u[z] \subseteq Under(u, la)
    BY <2>2, <2>5 DEF Closed
  <2>7. Ordered("l", z, a) /\ \A m \in Under(u, t.kid["r"][a]) : Ordered("r", m, a)
    BY <2>1, <2>2, <2>3 DEF Linked, Side
  <2>8. Key[z] <= Key[a] /\ \A m \in Under(u, t.kid["r"][a]) : Key[a] <= Key[m]
    BY <2>7 DEF Ordered
  <2>9. a \in Items /\ z \in Items
    BY InTree
  <2>10. ASSUME NEW m \in {a} \cup Under(u, t.kid["r"][a]), m \in Items PROVE Key[z] <= Key[m]
    <3>1. Key[z] \in Int /\ Key[a] \in Int /\ Key[m] \in Int
      BY <2>9, <2>10, MapAssumption
    <3> QED BY <3>1, <2>8
  <2> QED BY <2>1, <2>3, <2>6, <2>10 DEF Linked, Side
<1>2. u[x] \cap Onward(t, u, S, x) = {}
  BY <1>1 DEF Onward
<1>3. t.root \in S /\ u[t.root] = S /\ S \in SUBSET Items
  BY InTree
<1>4. Onward(t, u, S, t.root) = {}
  BY <1>1, <1>3 DEF Onward
<1>5. \A m \in Onward(t, u, S, x) : Key[x] <= Key[m]
  BY <1>1, <1>3 DEF Onward
<1> QED BY <1>2, <1>4, <1>5 DEF Onward

\* What is met later than x is not x and has no smaller key.
LEMMA LaterIs ==
  ASSUME NEW t, NEW u, NEW S, Whole(t, u, S), NEW x \in S
  PROVE  /\ x \notin Later(t, u, S, x) /\ Later(t, u, S, x) \subseteq S
         /\ \A m \in Later(t, u, S, x) : Key[x] <= Key[m]
<1>1. Linked(t, u, x) /\ u[x] \subseteq S /\ x \in u[x]
  BY InTree
<1>2. PICK r : r = Under(u, t.kid["r"][x])
  OBVIOUS
<1>3. u[x] = {x} \cup Under(u, t.kid["l"][x]) \cup r /\ x \notin r /\ \A m \in r : Key[x] <= Key[m]
  BY <1>1, <1>2 DEF Linked, Side, Ordered
<1>4. PICK on : on = Onward(t, u, S, x)
  OBVIOUS
<1>5. u[x] \cap on = {} /\ on \subseteq S /\ \A m \in on : Key[x] <= Key[m]
  BY <1>4, OnwardIs
<1>6. Later(t, u, S, x) = r \cup on
  BY <1>2, <1>4 DEF Later
<1> QED BY <1>1, <1>3, <1>5, <1>6

\* Of the items R still to be met, b is met next.
Comes(t, u, S, R, b) ==
  IF R = {} THEN b = NULL ELSE b \in S /\ R = {b} \cup Later(t, u, S, b)

\* The walk into a subtree starts at its leftmost item.
LEMMA MostIs ==
  ASSUME NEW t, NEW u, NEW S, Whole(t, u, S), NEW f, \A x \in Node : f[x] = Most(f, t, x)
  PROVE  \A c \in S : Comes(t, u, S, u[c] \cup Onward(t, u, S, c), f[c])
<1>0. t \in Trees /\ u \in Unders /\ S \subseteq Items
  BY DEF Whole
<1> DEFINE Good(c) == Comes(t, u, S, u[c] \cup Onward(t, u, S, c), f[c])
           BadHeights == {t.height[c] : c \in {i \in S : ~Good(i)}}
<1>1. SUFFICES ASSUME BadHeights # {} PROVE FALSE
  OBVIOUS
<1>2. PICK k \in BadHeights : \A j \in BadHeights : k <= j
  <2>1. BadHeights \subseteq Nat
    BY <1>0 DEF Trees
  <2> HIDE DEF BadHeights
  <2> QED BY <2>1, <1>1, LeastNumber
<1>3. PICK c \in S : ~Good(c) /\ \A i \in S : ~Good(i) => t.height[c] <= t.height[i]
  BY <1>2
<1> HIDE DEF BadHeights
<1>4. c \in Items /\ c # NULL /\ Linked(t, u, c) /\ c \in u[c]
  BY InTree
<1>5. PICK l : l = t.kid["l"][c]
  OBVIOUS
<1>6. PICK r : r = Under(u, t.kid["r"][c])
  OBVIOUS
<1>7. u[c] = {c} \cup Under(u, l) \cup r
  BY <1>4, <1>5, <1>6 DEF Linked
<1>8. PICK on : on = Onward(t, u, S, c)
  OBVIOUS
<1>9. Later(t, u, S, c) = r \cup on
  BY <1>6, <1>8 DEF Later
<1>10. CASE l = NULL
  <2>1. f[c] = c
    BY <1>4, <1>5, <1>10 DEF Most, Node
  <2>2. u[c] = {c} \cup r
    BY <1>7, <1>10 DEF Under
  <2>3. Good(c)
    BY <2>1, <2>2, <1>4, <1>8, <1>9 DEF Comes
  <2> QED BY <2>3, <1>3
<1>11. CASE l # NULL
  <2>1. f[c] = f[l]
    BY <1>4, <1>5, <1>11 DEF Most, Node
  <2>2. l \in S /\ Onward(t, u, S, l) = {c} \cup Later(t, u, S, c)
    BY <1>5, <1>11, OnwardOfKid
  <2>3. t.height[l] < t.height[c]
    <3>1. PICK rank, H : Ranked(t, rank, H)
      BY RanksExist
    <3>2. "l" \in Side /\ l \in Items /\ t.height[l] \in Nat /\ t.height[c] \in Nat
      BY <2>2, <1>0, <1>4, Kids DEF Side
    <3> QED BY <3>1, <3>2, <1>4, <1>5 DEF Ranked
  <2>4. Good(l)
    <3>1. t.height[l] \in Nat /\ t.height[c] \in Nat
      BY <2>2, <1>0, <1>4, Kids DEF Side
    <3>2. ~(t.height[c] <= t.height[l])
      BY <3>1, <2>3
    <3> HIDE DEF Good
    <3> QED BY <3>2, <2>2, <1>3
  <2>5. u[l] \cup Onward(t, u, S, l) = u[c] \cup on
    BY <2>2, <1>7, <1>9, <1>11 DEF Under
  <2>6. Good(c)
    BY <2>1, <2>4, <2>5, <1>8
  <2> QED BY <2>6, <1>3
<1> QED BY <1>10, <1>11

\* min, below any item.
LEMMA LeftmostIs ==
  ASSUME NEW u, NEW S, Whole(avl, u, S)
  PROVE  /\ Leftmost(NULL) = NULL
         /\ \A c \in S : Comes(avl, u, S, u[c] \cup Onward(avl, u, S, c), Leftmost(c))
<1> DEFINE Its(f) == f = [n \in Items \cup {NULL} |-> Most(f, avl, n)]
           most == CHOOSE f : Its(f)
<1>1. Its(most)
  <2>1. PICK f : Solves(f, Node, "most", avl, NULL, "l")
    BY MostExists
  <2>2. Its(f)
    BY <2>1 DEF Solves, Body, Node
  <2> HIDE DEF Its
  <2> QED BY <2>2
<1>2. \A from : Leftmost(from) = most[from]
  BY Zenon DEF Leftmost, Most
<1>3. \A x \in Node : most[x] = Most(most, avl, x)
  BY <1>1 DEF Node
<1> HIDE DEF most
<1>4. Leftmost(NULL) = NULL
  BY <1>2, <1>3 DEF Node, Most
<1>5. \A c \in S : Comes(avl, u, S, u[c] \cup Onward(avl, u, S, c), most[c])
  BY <1>3, MostIs
<1> QED BY <1>2, <1>4, <1>5

\* The walk out of a subtree goes on at the next item above.
LEMMA UpwardIs ==
  ASSUME NEW t, NEW u, NEW S, Whole(t, u, S), NEW f, \A x \in Items : f[x] = Upward(f, t, x)
  PROVE  \A c \in S : Comes(t, u, S, Onward(t, u, S, c), f[c])
<1>0. t \in Trees /\ u \in Unders /\ S \subseteq Items
  BY DEF Whole
<1>1. PICK rank, H : Ranked(t, rank, H)
  BY RanksExist
<1>2. rank \in [Node -> Nat] /\ H \in Nat /\ \A x \in Node : rank[x] < H
  BY <1>1 DEF Ranked
<1> DEFINE Good(c) == Comes(t, u, S, Onward(t, u, S, c), f[c])
           BadDepths == {H - rank[c] : c \in {i \in S : ~Good(i)}}
<1>3. SUFFICES ASSUME BadDepths # {} PROVE FALSE
  OBVIOUS
<1>4. PICK k \in BadDepths : \A j \in BadDepths : k <= j
  <2>1. BadDepths \subseteq Nat
    BY <1>0, <1>2 DEF Node
  <2> HIDE DEF BadDepths
  <2> QED BY <2>1, <1>3, LeastNumber
<1>5. PICK c \in S : ~Good(c) /\ \A i \in S : ~Good(i) => H - rank[c] <= H - rank[i]
  BY <1>4
<1> HIDE DEF BadDepths
<1>6. c \in Items /\ c # NULL /\ t.p[t.root] = NULL
      /\ (c # t.root => t.p[c] \in S /\ \E s \in Side : t.kid[s][t.p[c]] = c)
  BY InTree
<1>7. CASE c = t.root
  <2>1. f[c] = NULL
    BY <1>6, <1>7 DEF Upward
  <2>2. Onward(t, u, S, c) = {}
    BY <1>7, OnwardIs
  <2>3. Good(c)
    BY <2>1, <2>2 DEF Comes
  <2> QED BY <2>3, <1>5
<1>8. CASE c # t.root
  <2>1. PICK x \in S : x = t.p[c]
    BY <1>6, <1>8
  <2>2. x \in Items /\ x # NULL
    BY InTree
  <2>3. CASE t.kid["r"][x] = c
    <3>1. f[c] = f[x]
      BY <2>1, <2>2, <2>3, <1>6 DEF Upward
    <3>2. Onward(t, u, S, c) = Onward(t, u, S, x)
      BY <2>3, <1>6, OnwardOfKid
    <3>3. rank[c] < rank[x] /\ rank[c] \in Nat /\ rank[x] \in Nat
      BY <2>2, <2>3, <1>1, <1>2, <1>6 DEF Ranked, Side, Node
    <3>4. ~(H - rank[c] <= H - rank[x])
      BY <3>3, <1>2
    <3>5. Good(x)
      <4> HIDE DEF Good
      <4> QED BY <3>4, <1>5
    <3>6. Good(c)
      BY <3>1, <3>2, <3>5
    <3> QED BY <3>6, <1>5
  <2>4. CASE t.kid["r"][x] # c
    <3>1. f[c] = x
      BY <2>1, <2>2, <2>4, <1>6 DEF Upward
    <3>2. t.kid["l"][x] = c
      BY <2>1, <2>4, <1>6, <1>8 DEF Side
    <3>3. Onward(t, u, S, c) = {x} \cup Later(t, u, S, x)
      BY <3>2, <1>6, OnwardOfKid
    <3>4. Good(c)
      BY <3>1, <3>3 DEF Comes
    <3> QED BY <3>4, <1>5
  <2> QED BY <2>3, <2>4
<1> QED BY <1>7, <1>8

\* The way up that bigger takes.
LEMMA AboveIs ==
  ASSUME NEW u, NEW S, Whole(avl, u, S)
  PROVE  \A c \in S : Comes(avl, u, S, Onward(avl, u, S, c), Above(c))
<1> DEFINE Its(f) == f = [n \in Items |-> Upward(f, avl, n)]
           above == CHOOSE f : Its(f)
<1>1. Its(above)
  <2>1. PICK f : Solves(f, Items, "above", avl, NULL, "l")
    BY AboveExists
  <2>2. Its(f)
    BY <2>1 DEF Solves, Body
  <2> HIDE DEF Its
  <2> QED BY <2>2
<1>2. \A from : Above(from) = above[from]
  BY Zenon DEF Above, Upward
<1>3. \A x \in Items : above[x] = Upward(above, avl, x)
  BY <1>1
<1> HIDE DEF above
<1>4. \A c \in S : Comes(avl, u, S, Onward(avl, u, S, c), above[c])
  BY <1>3, UpwardIs
<1> QED BY <1>2, <1>4

\* min is met first, and bigger leads from each item to the next.
LEMMA BiggerIs ==
  ASSUME NEW u, NEW S, Whole(avl, u, S)
  PROVE  /\ Comes(avl, u, S, S, Leftmost(avl.root))
         /\ \A n \in S : Comes(avl, u, S, Later(avl, u, S, n), Bigger(n))
<1>1. Comes(avl, u, S, S, Leftmost(avl.root))
  <2>1. CASE S = {}
    <3>1. avl.root = NULL
      BY <2>1 DEF Whole, Tree, Under
    <3>2. Leftmost(avl.root) = NULL
      BY <3>1, LeftmostIs
    <3> QED BY <2>1, <3>2 DEF Comes
  <2>2. CASE S # {}
    <3>1. avl.root \in S /\ u[avl.root] = S
      BY <2>2, InTree
    <3>2. Onward(avl, u, S, avl.root) = {}
      BY <3>1, OnwardIs
    <3>3. Comes(avl, u, S, u[avl.root] \cup Onward(avl, u, S, avl.root), Leftmost(avl.root))
      BY <3>1, LeftmostIs
    <3> QED BY <3>1, <3>2, <3>3
  <2> QED BY <2>1, <2>2
<1>2. ASSUME NEW n \in S PROVE Comes(avl, u, S, Later(avl, u, S, n), Bigger(n))
  <2>1. PICK r : r = avl.kid["r"][n]
    OBVIOUS
  <2>2. CASE r = NULL
    <3>1. Bigger(n) = Above(n)
      BY <2>1, <2>2 DEF Bigger
    <3>2. Later(avl, u, S, n) = Onward(avl, u, S, n)
      BY <2>1, <2>2 DEF Later, Under
    <3>3. Comes(avl, u, S, Onward(avl, u, S, n), Above(n))
      BY AboveIs
    <3> QED BY <3>1, <3>2, <3>3
  <2>3. CASE r # NULL
    <3>1. Bigger(n) = Leftmost(r)
      BY <2>1, <2>3 DEF Bigger
    <3>2. r \in S /\ Onward(avl, u, S, r) = Onward(avl, u, S, n)
      BY <2>1, <2>3, OnwardOfKid
    <3>3. Later(avl, u, S, n) = u[r] \cup Onward(avl, u, S, r)
      BY <2>1, <2>3, <3>2 DEF Later, Under
    <3>4. Comes(avl, u, S, u[r] \cup Onward(avl, u, S, r), Leftmost(r))
      BY <3>2, LeftmostIs
    <3> QED BY <3>1, <3>3, <3>4
  <2> QED BY <2>2, <2>3
<1> QED BY <1>1, <1>2

\* A walk has met k of the items of S; the others, R, are still to come.
Walked(met, u, S, k, R) ==
  /\ R \subseteq S /\ Cardinality(R) = Cardinality(S) - k /\ Comes(avl, u, S, R, met[k])
  /\ {met[j] : j \in 0..(k - 1)} \cup R = S
  /\ k > 0 => \A m \in R : Key[met[k - 1]] <= Key[m]

\* One step of the walk.
LEMMA WalkedOn ==
  ASSUME NEW u, NEW S, Whole(avl, u, S), NEW met, NEW k \in Nat, NEW R,
         k + 1 \in 0..avl.size, Walked(met, u, S, k, R), met[k + 1] = Met(met, k + 1)
  PROVE  \E Q : Walked(met, u, S, k + 1, Q)
<1>1. IsFiniteSet(S) /\ avl.size = Cardinality(S) /\ S \subseteq Items
  BY DEF Whole
<1>2. Cardinality(S) \in Nat
  BY <1>1, FS_CardinalityType
<1>3. R # {}
  <2>1. Cardinality(R) # 0
    BY <1>1, <1>2 DEF Walked
  <2> QED BY <2>1, FS_EmptySet
<1>4. PICK b \in S : b = met[k] /\ R = {b} \cup Later(avl, u, S, b)
  BY <1>3 DEF Walked, Comes
<1>5. PICK Q : Q = Later(avl, u, S, b)
  OBVIOUS
<1>6. b \notin Q /\ Q \subseteq S /\ \A m \in Q : Key[b] <= Key[m]
  BY <1>5, LaterIs
<1>7. Comes(avl, u, S, Q, met[k + 1])
  <2>1. b # NULL
    BY <1>1, MapAssumption
  <2>2. met[k + 1] = Bigger(b)
    BY <2>1, <1>4 DEF Met
  <2> QED BY <2>2, <1>5, BiggerIs
<1>8. Cardinality(Q) = Cardinality(S) - (k + 1)
  <2>1. IsFiniteSet(R) /\ Q = R \ {b} /\ b \in R
    BY <1>1, <1>4, <1>5, <1>6, FS_Subset DEF Walked
  <2>2. Cardinality(Q) = Cardinality(R) - 1
    BY <2>1, FS_RemoveElement
  <2> QED BY <2>2, <1>2 DEF Walked
<1>9. {met[j] : j \in 0..((k + 1) - 1)} \cup Q = S
  <2>1. 0..((k + 1) - 1) = 0..(k - 1) \cup {k}
    OBVIOUS
  <2>2. {met[j] : j \in 0..((k + 1) - 1)} = {met[j] : j \in 0..(k - 1)} \cup {b}
    BY <2>1, <1>4
  <2> QED BY <2>2, <1>4, <1>5 DEF Walked
<1>10. \A m \in Q : Key[met[(k + 1) - 1]] <= Key[m]
  BY <1>4, <1>6
<1>11. Walked(met, u, S, k + 1, Q)
  BY <1>6, <1>7, <1>8, <1>9, <1>10 DEF Walked
<1> QED BY <1>11

\* The walk meets the items one by one, by way of the first step after which it would not.
LEMMA WalkIs ==
  ASSUME NEW u, NEW S, Whole(avl, u, S)
  PROVE  \A k \in 0..avl.size : \E R : Walked(Walk, u, S, k, R)
<1>1. IsFiniteSet(S) /\ avl.size = Cardinality(S)
  BY DEF Whole
<1>2. avl.size \in Nat
  BY <1>1, FS_CardinalityType
<1> DEFINE Its(f) == f = [k \in 0..avl.size |-> Met(f, k)]
           met == CHOOSE f : Its(f)
<1>3. Its(met)
  <2>1. PICK f : Solves(f, 0..avl.size, "met", NULL, NULL, "l")
    BY <1>2, MetExists
  <2>2. Its(f)
    BY <2>1 DEF Solves, Body
  <2> HIDE DEF Its
  <2> QED BY <2>2
<1>4. Walk = met
  BY Zenon DEF Walk, Met
<1>5. \A k \in 0..avl.size : met[k] = Met(met, k)
  BY <1>3
<1> HIDE DEF met
<1> DEFINE Bad == {k \in 0..avl.size : ~ \E R : Walked(met, u, S, k, R)}
<1>6. SUFFICES ASSUME Bad # {} PROVE FALSE
  BY <1>4
<1>7. PICK k \in Bad : \A j \in Bad : k <= j
  <2>1. Bad \subseteq Nat
    OBVIOUS
  <2> HIDE DEF Bad
  <2> QED BY <2>1, <1>6, LeastNumber
<1>8. k \in 0..avl.size /\ ~ \E R : Walked(met, u, S, k, R)
  BY <1>7
<1>9. CASE k = 0
  <2>1. met[0] = Leftmost(avl.root)
    BY <1>2, <1>5 DEF Met
  <2>2. Comes(avl, u, S, S, met[0])
    BY <2>1, BiggerIs
  <2>3. 0..(0 - 1) = {} /\ Cardinality(S) = Cardinality(S) - 0
    BY <1>1, <1>2
  <2>4. Walked(met, u, S, 0, S)
    BY <2>2, <2>3 DEF Walked
  <2> QED BY <2>4, <1>8, <1>9
<1>10. CASE k # 0
  <2>1. PICK i \in Nat : k = i + 1
    <3>1. k - 1 \in Nat /\ k = (k - 1) + 1
      BY <1>2, <1>8, <1>10
    <3> QED BY <3>1
  <2>2. i \in 0..avl.size /\ ~(k <= i)
    BY <2>1, <1>2, <1>8
  <2>3. i \notin Bad
    <3> HIDE DEF Bad
    <3> QED BY <2>2, <1>7
  <2>4. PICK R : Walked(met, u, S, i, R)
    BY <2>2, <2>3
  <2>5. met[i + 1] = Met(met, i + 1)
    BY <2>1, <1>5, <1>8
  <2>6. \E Q : Walked(met, u, S, i + 1, Q)
    BY <2>1, <2>4, <2>5, <1>8, WalkedOn
  <2> QED BY <2>6, <2>1, <1>8
<1> QED BY <1>9, <1>10

\* A tree that is whole is sound.
LEMMA MapInvSound == MapInv => MapSound
<1>1. SUFFICES ASSUME NEW u \in Unders, Whole(avl, u, members) PROVE MapSound
  BY DEF MapInv
<1>2. /\ avl \in Trees /\ members \subseteq Items /\ IsFiniteSet(members)
      /\ avl.size = Cardinality(members) /\ ~avl.aborted
  BY <1>1 DEF Whole
<1>3. avl.size \in Nat
  BY <1>2, FS_CardinalityType
<1>4. PICK met : met = Walk
  OBVIOUS
<1>5. \A k \in 0..avl.size : \E R : Walked(met, u, members, k, R)
  BY <1>1, <1>4, WalkIs
<1>6. {Walk[k] : k \in 0..(avl.size - 1)} = members /\ Walk[avl.size] = NULL
  <2>1. PICK R : Walked(met, u, members, avl.size, R)
    BY <1>3, <1>5
  <2>2. Cardinality(R) = 0 /\ IsFiniteSet(R)
    BY <2>1, <1>2, <1>3, FS_Subset DEF Walked
  <2>3. R = {}
    BY <2>2, FS_EmptySet
  <2> QED BY <2>1, <2>3, <1>4 DEF Walked, Comes
<1>7. ASSUME NEW k \in 1..(avl.size - 1) PROVE Key[Walk[k - 1]] <= Key[Walk[k]]
  <2>1. k \in 0..avl.size /\ k > 0 /\ avl.size - k # 0
    BY <1>3
  <2>2. PICK R : Walked(met, u, members, k, R)
    BY <2>1, <1>5
  <2>3. R # {}
    BY <2>1, <2>2, <1>2, FS_EmptySet DEF Walked
  <2>4. met[k] \in R
    BY <2>2, <2>3 DEF Walked, Comes
  <2> QED BY <2>1, <2>2, <2>4, <1>4 DEF Walked
<1>8. ASSUME NEW i \in Items
      PROVE  LET n == Get(Key[i]) IN
             IF \E m \in members : Key[m] = Key[i] THEN n \in members /\ Key[n] = Key[i] ELSE n = NULL
  <2>1. Key[i] \in Int
    BY MapAssumption
  <2> QED BY <2>1, <1>1, GetIs
<1>9. ASSUME NEW n \in members
      PROVE  LET hl == HeightOf(avl, avl.kid["l"][n])
                 hr == HeightOf(avl, avl.kid["r"][n])
             IN hl - hr \in -1..1 /\ avl.height[n] = Higher(hl, hr) + 1
  <2>1. Even(avl, n)
    BY <1>1, InTree
  <2> QED BY <2>1 DEF Even
<1> QED BY <1>2, <1>6, <1>7, <1>8, <1>9 DEF MapSound

\* Through any additions and removals the tree holds exactly its members, in order and
\* balanced, and no check of the code aborts (Map::add, remove, get, min and bigger).
THEOREM MapKept == AvlSpec => []MapSound
<1>1. AvlInit => MapInv
  BY MapInvInit
<1>2. MapInv /\ [AvlNext]_avlVars => MapInv'
  BY MapInvNext
<1>3. MapInv => MapSound
  BY MapInvSound
<1> QED BY <1>1, <1>2, <1>3, PTL DEF AvlSpec
===========================================================================
