----------------------------- MODULE DnsAgent -----------------------------
(***************************************************************************)
(* DNS and its DnsAgent: what is known of names for the proxy is answered  *)
(* at once, every other query goes to the upstream server under an id of   *)
(* the agent's own, and the answer goes back under the client's.  Queries  *)
(* and answers are lost and overtake each other.  What a name stands for   *)
(* is DomainResolver's to say.                                             *)
(*                                                                         *)
(* External: an answer of the upstream server comes once.  (A repeated one *)
(* finds its item still valid and its request deleted.)                    *)
(***************************************************************************)
EXTENDS Integers, Sequences, FiniteSets

CONSTANTS
  Clients, Queries,  \* bound: what clients ask, [from, id, name, type, plain]
  ServerIP,          \* _serverIP, what BuiltIn stands for
  BuiltIn,           \* "transproxy.cn"
  Resolved,          \* dns() of each name, 0 for one that is not for the proxy
  MIN_ID, MAX_ID, MAX_LOGS,
  LastId,            \* bound: the last id that is given out
  MaxNamed           \* bound: the queries that are logged

ASSUME DnsAssumption == MIN_ID \in Int /\ MAX_LOGS \in Nat \ {0}

VARIABLES
  items,   \* _items
  nextId,  \* _id
  logs,    \* _logs
  network, \* queries at the upstream server, and its answers
  asked,   \* history: what was asked
  named,   \* history: all that was logged
  replies  \* history: what was answered

dnsVars == <<items, nextId, logs, network, asked, named, replies>>

Slots == 0..(MAX_ID - MIN_ID)
NoItem == [user |-> <<>>, id |-> 0, valid |-> FALSE]

DnsInit ==
  /\ items = [k \in Slots |-> NoItem]
  /\ nextId = MIN_ID
  /\ logs = <<>> /\ named = <<>>
  /\ network = {} /\ asked = {} /\ replies = {}

\* What is put into an answer: whose it is, and the question it repeats.
Answer(to, id, q, ip) == [to |-> to, id |-> id, name |-> q.name, type |-> q.type, ip |-> ip]

\* (A wrong variant: the newest entry makes room.)
LogNewest(entry) ==
  /\ logs' = Append(IF Len(logs) >= MAX_LOGS THEN SubSeq(logs, 1, Len(logs) - 1) ELSE logs, entry)
  /\ named' = Append(named, entry)

\* _log: the oldest entry makes room.
Log(entry) ==
  /\ logs' = Append(IF Len(logs) >= MAX_LOGS THEN Tail(logs) ELSE logs, entry)
  /\ named' = Append(named, entry)

Entry(q, ip) == [client |-> q.from, name |-> q.name, ip |-> ip]

\* (A wrong variant: the query keeps the client's id.)
QueryAsIs(q) ==
  /\ nextId <= LastId
  /\ items' = [items EXCEPT ![q.id] = [user |-> q.from, id |-> q.id, valid |-> TRUE]]
  /\ network' = network \cup {[id |-> q.id, q |-> q]}
  /\ nextId' = nextId + 1
  /\ UNCHANGED replies

\* new _AgentRequest: DnsAgent::query.  An id behind the array's end writes elsewhere.
Query(q) ==
  /\ nextId <= LastId
  /\ items' = IF nextId \in Slots
              THEN [items EXCEPT ![nextId] = [user |-> q.from, id |-> q.id, valid |-> TRUE]]
              ELSE items
  /\ network' = network \cup {[id |-> nextId, q |-> q]}
  /\ nextId' = nextId + 1
  /\ UNCHANGED replies

Reply(r) == replies' = replies \cup {r} /\ UNCHANGED <<items, nextId, network>>

\* DNS::onReceived.
OnReceived(q) ==
  LET ip == IF q.name = BuiltIn THEN ServerIP ELSE Resolved[q.name] IN
  /\ Len(named) < MaxNamed
  /\ asked' = asked \cup {q}
  /\ IF q.plain /\ q.type = "A" THEN Log(Entry(q, ip)) ELSE UNCHANGED <<logs, named>>
  /\ IF q.plain /\ q.type \in {"A", "AAAA"} /\ ip # 0
     THEN Reply(Answer(q.from, q.id, q, IF q.type = "A" THEN ip ELSE 0))
     ELSE Query(q)

\* _UdpPeerListener::onReceived and onDnsAgentResponse; the item stays valid.  (What
\* is read behind the array's end is undefined, and IdsInArray broken before.)
OnDnsAgentResponse(d) ==
  /\ d \in network /\ d.id \in Slots
  /\ replies' = IF items[d.id].valid
                THEN replies \cup {Answer(items[d.id].user, items[d.id].id, d.q, 0)} ELSE replies
  /\ network' = network \ {d}
  /\ UNCHANGED <<items, nextId, logs, asked, named>>

Lose(d) ==
  /\ d \in network /\ network' = network \ {d}
  /\ UNCHANGED <<items, nextId, logs, asked, named, replies>>

DnsNext ==
  \/ \E q \in Queries : OnReceived(q)
  \/ \E d \in network : OnDnsAgentResponse(d) \/ Lose(d)

DnsSpec == DnsInit /\ [][DnsNext]_dnsVars

\* The client's entries of a log, the last first.
EntriesOf(client, log) ==
  LET its[k \in 0..Len(log)] ==
        IF k = 0 THEN <<>>
        ELSE IF log[k].client = client THEN <<log[k]>> \o its[k - 1] ELSE its[k - 1]
  IN its[Len(log)]

\* /dnslog.json, asked for by me about client.
LogPage(me, client) ==
  [clients |-> {me, client} \cup {logs[k].client : k \in DOMAIN logs},
   logs |-> EntriesOf(client, logs)]

-----------------------------------------------------------------------------
\* Whatever is lost or overtaken, and although two clients use one id at a time, a
\* client only hears answers to what it asked, under the id it used.
RightAnswer ==
  \A r \in replies : \E q \in asked :
    q.from = r.to /\ q.id = r.id /\ q.name = r.name /\ q.type = r.type

\* The page shows a client's part of the last MAX_LOGS queries of all clients, newest
\* first, and names every client that has one among them.
LogTold ==
  \A me, client \in Clients :
    LET page == LogPage(me, client)
        last == {k \in DOMAIN named : k + MAX_LOGS > Len(named)}
        its == {k \in last : named[k].client = client}
    IN /\ Len(page.logs) = Cardinality(its)
       /\ \A k \in its : page.logs[Cardinality({j \in its : j >= k})] = named[k]
       /\ page.clients = {me, client} \cup {named[k].client : k \in last}

\* MAX_ID and the array say: every id that is given out has an item of its own.
IdsInArray == \A d \in network : d.id \in MIN_ID..MAX_ID /\ d.id \in Slots
===========================================================================
