---------------------------- MODULE DomainRules ----------------------------
(***************************************************************************)
(* The rules file and the lists of the user: lines are loaded one by one   *)
(* into trees of labels, the last label of a name first, and a name is     *)
(* looked up label by label.  DomainResolver asks whether a name is denied *)
(* or accepted.                                                            *)
(*                                                                         *)
(* A line is what it says: whether it is for the direct domains ("@@"),    *)
(* its mark ("||", "." or none), and its labels, the parts between dots.   *)
(* A path is measured and then not cut off: its parts are labels like the  *)
(* name's.  One with a slash in it, which no host has, is "/" here.  A     *)
(* tree is the set of the paths of its nodes.                              *)
(***************************************************************************)
EXTENDS Integers, Sequences

CONSTANTS
  RuleLines, \* bound: the lines of the rules file
  ListLines, \* bound: the lines of the user's lists
  Hosts      \* bound: the names asked for

\* Lines and names are split at dots.
ASSUME LinesAssumption ==
  /\ RuleLines \subseteq [direct : BOOLEAN, mark : {"", "||", "."}, labels : Seq(STRING)]
  /\ ListLines \subseteq [direct : BOOLEAN, comment : BOOLEAN, labels : Seq(STRING)]
  /\ RuleLines \cap ListLines = {}
  /\ Hosts \subseteq Seq(STRING)
  /\ \A line \in RuleLines : line.labels # <<>> /\ \A k \in DOMAIN line.labels : line.labels[k] # "."
  /\ \A host \in Hosts : \A k \in DOMAIN host : host[k] # "."

VARIABLES
  proxyDomains, directDomains, \* _proxyDomains and _directDomains
  proxyList, directList,       \* the same of CustomList
  lines                        \* history: the lines loaded

ruleVars == <<proxyDomains, directDomains, proxyList, directList, lines>>

RulesInit ==
  /\ proxyDomains = {<<>>} /\ directDomains = {<<>>}
  /\ proxyList = {} /\ directList = {}
  /\ lines = {}

Backwards(s) == [k \in 1..Len(s) |-> s[Len(s) + 1 - k]]

\* Lines with nothing before the path, or without a dot there, say nothing.
Usable(line) == line.mark = "." \/ (Len(line.labels) > 1 /\ line.labels[1] # "/")

\* _add: a node for every label, unless one is empty; then the last one.
AddNodes(tree, domain, last) ==
  IF \E k \in DOMAIN domain : domain[k] = "" THEN tree
  ELSE tree \cup {SubSeq(domain, 1, k) : k \in DOMAIN domain} \cup {Append(domain, last)}

\* (A wrong variant: a name alone stands for what is below it, too.)
LoadedWide(line, tree) ==
  IF Usable(line) THEN AddNodes(tree, Backwards(line.labels), "*") ELSE tree

\* DomainRules, one line of the file.
Loaded(line, tree) ==
  IF ~Usable(line) THEN tree
  ELSE AddNodes(tree, Backwards(line.labels), IF line.mark = "" THEN "." ELSE "*")

LoadLine(line) ==
  /\ IF line.direct
     THEN directDomains' = Loaded(line, directDomains) /\ UNCHANGED proxyDomains
     ELSE proxyDomains' = Loaded(line, proxyDomains) /\ UNCHANGED directDomains
  /\ lines' = lines \cup {line}
  /\ UNCHANGED <<proxyList, directList>>

\* _loadList, one line: a name as it is written, or a comment.
LoadList(line) ==
  LET Added(list) == IF line.comment THEN list ELSE list \cup {line.labels} IN
  /\ IF line.direct
     THEN directList' = Added(directList) /\ UNCHANGED proxyList
     ELSE proxyList' = Added(proxyList) /\ UNCHANGED directList
  /\ lines' = lines \cup {line}
  /\ UNCHANGED <<proxyDomains, directDomains>>

\* _inList: at every level "*" first, then the next label.
InList(tree, host) ==
  LET name == Backwards(host)
      Get(k, label) == Append(SubSeq(name, 1, k), label) \in tree
      match[k \in 0..Len(name)] ==
        IF Get(k, "*") THEN TRUE
        ELSE IF k = Len(name) THEN Get(k, ".")
        ELSE Get(k, name[k + 1]) /\ match[k + 1]
  IN match[0]

Accepts(host) == InList(proxyDomains, host) \/ host \in proxyList
Denies(host) == InList(directDomains, host) \/ host \in directList

RulesNext ==
  \/ \E line \in RuleLines : LoadLine(line)
  \/ \E line \in ListLines : LoadList(line)

RulesSpec == RulesInit /\ [][RulesNext]_ruleVars

-----------------------------------------------------------------------------
\* What a line of the rules means: a name stands for itself, and with a mark or from a
\* label "*" on for everything below it; with an empty label for nothing.  A path's
\* parts are labels: it makes a line mean nothing, or, with a "*" behind the slash,
\* all that ends in what is behind that.
RuleMeans(line, host) ==
  LET n == Len(line.labels)
      stars == {k \in 1..n : line.labels[k] = "*"}
      EndsBehind(k) ==
        /\ Len(host) >= n - k
        /\ SubSeq(host, Len(host) - (n - k) + 1, Len(host)) = SubSeq(line.labels, k + 1, n)
  IN /\ Usable(line) /\ \A k \in 1..n : line.labels[k] # ""
     /\ IF stars # {} THEN \E k \in stars : (\A j \in stars : j <= k) /\ EndsBehind(k)
        ELSE EndsBehind(0) /\ (line.mark = "" => Len(host) = n)

Means(line, host) ==
  IF line \in RuleLines THEN RuleMeans(line, host) ELSE ~line.comment /\ line.labels = host

\* Whatever lines were loaded in whatever order, with nodes shared and wildcards above
\* and below them, a name is accepted or denied exactly when one line says so.
RulesMatch ==
  \A host \in Hosts :
    /\ Accepts(host) <=> \E line \in lines : ~line.direct /\ Means(line, host)
    /\ Denies(host) <=> \E line \in lines : line.direct /\ Means(line, host)
===========================================================================
