------------------------------ MODULE AvlMap ------------------------------
(***************************************************************************)
(* Map, the balanced tree behind every table of the program: connections,  *)
(* names, settings, rules.  Items link themselves into the tree; equal     *)
(* keys may stand next to each other, and an item is removed by identity.  *)
(*                                                                         *)
(* A tree t is [root, kid, p, height, size, aborted]: kid["l"] and         *)
(* kid["r"] are the items' _l and _r.  An operator for a function that     *)
(* takes a _MapItem*& returns the tree and what the reference then holds.  *)
(* What the fields of an item outside the tree hold means nothing.         *)
(***************************************************************************)
EXTENDS Integers, FiniteSets

CONSTANTS
  Items,
  Key,  \* getKey, [Items -> Int]
  NULL

ASSUME MapAssumption == Key \in [Items -> Int] /\ NULL \notin Items

VARIABLES avl, members \* members, history: the items added and not removed

avlVars == <<avl, members>>

Higher(a, b) == IF a > b THEN a ELSE b
Other(s) == IF s = "l" THEN "r" ELSE "l"
HeightOf(t, n) == IF n = NULL THEN 0 ELSE t.height[n]

AvlInit ==
  /\ avl = [root |-> NULL, kid |-> [s \in {"l", "r"} |-> [i \in Items |-> NULL]],
             p |-> [i \in Items |-> NULL], height |-> [i \in Items |-> 0],
             size |-> 0, aborted |-> FALSE]
  /\ members = {}

SetKid(t, n, s, c) == [t EXCEPT !.kid[s][n] = c]
SetParent(t, n, parent) == IF n = NULL THEN t ELSE [t EXCEPT !.p[n] = parent]
SetHeight(t, n) ==
  [t EXCEPT !.height[n] = Higher(HeightOf(t, t.kid["l"][n]), HeightOf(t, t.kid["r"][n])) + 1]
Abort(t, condition) == [t EXCEPT !.aborted = @ \/ condition]

\* The child of root at side s takes its place.
Rotate(t, root, s) ==
  LET up == t.kid[s][root]
      inner == t.kid[Other(s)][up]
      t1 == SetHeight(SetKid(SetParent(t, inner, root), root, s, inner), root)
      t2 == SetHeight(SetKid(t1, up, Other(s), root), up)
  IN [t |-> SetParent(SetParent(t2, up, t2.p[root]), root, up), root |-> up]

\* LR and RL: the inner grandchild does.
RotateTwice(t, root, s) ==
  LET sub == Rotate(t, t.kid[s][root], Other(s))
  IN Rotate(SetKid(sub.t, root, s, sub.root), root, s)

\* (A wrong variant: a child that leans inwards is lifted as it is.)
AdjustOnce(t, root) ==
  IF root = NULL THEN [t |-> t, root |-> NULL] ELSE
  LET balance == HeightOf(t, t.kid["r"][root]) - HeightOf(t, t.kid["l"][root])
      t1 == SetHeight(t, root)
      s == IF balance < 0 THEN "l" ELSE "r"
  IN IF balance \in {-2, 2} THEN Rotate(t1, root, s) ELSE [t |-> t1, root |-> root]

\* __adjust.
Adjust(t, root) ==
  IF root = NULL THEN [t |-> t, root |-> NULL] ELSE
  LET balance == HeightOf(t, t.kid["r"][root]) - HeightOf(t, t.kid["l"][root])
      t1 == Abort(SetHeight(t, root), balance \notin -2..2)
      s == IF balance < 0 THEN "l" ELSE "r"
      child == t.kid[s][root]
      outer == HeightOf(t, t.kid[s][child])
      inner == HeightOf(t, t.kid[Other(s)][child])
  IN IF balance \notin {-2, 2} THEN [t |-> t1, root |-> root]
     ELSE IF outer >= inner THEN Rotate(t1, root, s) ELSE RotateTwice(t1, root, s)

\* __insert: an equal key goes to the right.
Insert(t, n) ==
  LET Leaf(parent) ==
        [t |-> [t EXCEPT !.p[n] = parent, !.kid["l"][n] = NULL, !.kid["r"][n] = NULL,
                         !.height[n] = 1, !.size = @ + 1], root |-> n]
      below[root \in Items] ==
        LET s == IF Key[n] < Key[root] THEN "l" ELSE "r"
            child == t.kid[s][root]
            sub == IF child = NULL THEN Leaf(root) ELSE below[child]
        IN Adjust(SetKid(sub.t, root, s, sub.root), root)
  IN IF t.root = NULL THEN Leaf(NULL) ELSE below[t.root]

Returning(x, ret) == [t |-> x.t, root |-> x.root, ret |-> ret]

\* __removeMin at side "l", __removeMax at side "r".
RemoveLast(t, from, s) ==
  LET last[root \in Items] ==
        LET child == t.kid[s][root]
            sub == last[child]
        IN IF child = NULL THEN Returning(Adjust(t, t.kid[Other(s)][root]), root)
           ELSE Returning(Adjust(SetParent(SetKid(sub.t, root, s, sub.root), sub.root, root), root),
                          sub.ret)
  IN last[from]

\* __remove(node): a neighbour out of the higher subtree stands in.
Unlink(t, n) ==
  LET l == t.kid["l"][n]
      r == t.kid["r"][n]
      s == IF t.height[l] > t.height[r] THEN "l" ELSE "r"
      sub == RemoveLast(t, t.kid[s][n], Other(s))
      in == sub.ret
      keep == t.kid[Other(s)][n]
      t1 == SetParent(SetParent(sub.t, sub.root, in), keep, in)
      t2 == SetHeight(SetKid(SetKid(SetParent(t1, in, t.p[n]), in, s, sub.root),
                             in, Other(s), keep), in)
  IN IF l = NULL THEN [t |-> SetParent(t, r, t.p[n]), root |-> r]
     ELSE IF r = NULL THEN [t |-> SetParent(t, l, t.p[n]), root |-> l]
     ELSE [t |-> Abort(t2, \/ t2.height[in] \notin (t.height[n] - 1)..t.height[n]
                           \/ HeightOf(t2, sub.root) - HeightOf(t2, keep) \notin -1..1),
           root |-> in]

\* __remove(root, node): equal keys may be on both sides, the left one comes first.
Remove(t, n) ==
  LET rest[root \in Items \cup {NULL}] ==
        LET Found(s) == /\ IF s = "l" THEN Key[n] <= Key[root] ELSE Key[n] >= Key[root]
                        /\ rest[t.kid[s][root]].ret
            s == IF Found("l") THEN "l" ELSE "r"
            sub == rest[t.kid[s][root]]
        IN IF root = NULL THEN [t |-> t, root |-> NULL, ret |-> FALSE]
           ELSE IF root = n
           THEN LET x == Unlink(t, n) IN Returning([x EXCEPT !.t.size = @ - 1], TRUE)
           ELSE IF Found(s) THEN Returning(Adjust(SetKid(sub.t, root, s, sub.root), root), TRUE)
           ELSE [t |-> t, root |-> root, ret |-> FALSE]
  IN rest[t.root]

Rooted(x) == [x.t EXCEPT !.root = x.root]

\* Nothing reads the fields of an item that was removed: they are reset.
Cleared(t, n) ==
  [SetKid(SetKid(SetParent(t, n, NULL), n, "l", NULL), n, "r", NULL) EXCEPT !.height[n] = 0]

Deleted(x, n) == Abort(Cleared(Rooted(x), n), ~x.ret)

\* Map::add and Map::remove; to add an item twice, or to remove one that is not
\* there, aborts.
Add(n) ==
  /\ n \notin members
  /\ avl' = Rooted(Insert(avl, n))
  /\ members' = members \cup {n}

Delete(n) ==
  /\ n \in members
  /\ avl' = Deleted(Remove(avl, n), n)
  /\ members' = members \ {n}

\* get, min and bigger.
Get(key) ==
  LET got[n \in Items \cup {NULL}] ==
        IF n = NULL THEN n
        ELSE IF Key[n] = key THEN n
        ELSE got[avl.kid[IF key < Key[n] THEN "l" ELSE "r"][n]]
  IN got[avl.root]

Leftmost(from) ==
  LET most[n \in Items \cup {NULL}] ==
        IF n = NULL THEN n ELSE IF avl.kid["l"][n] = NULL THEN n ELSE most[avl.kid["l"][n]]
  IN most[from]

Above(from) ==
  LET above[n \in Items] ==
        LET parent == avl.p[n]
        IN IF parent = NULL THEN NULL
           ELSE IF avl.kid["r"][parent] = n THEN above[parent] ELSE parent
  IN above[from]

Bigger(n) == IF avl.kid["r"][n] # NULL THEN Leftmost(avl.kid["r"][n]) ELSE Above(n)

AvlNext == \E n \in Items : Add(n) \/ Delete(n)

AvlSpec == AvlInit /\ [][AvlNext]_avlVars

-----------------------------------------------------------------------------
\* The items met from min on by way of bigger, at most one more than there are.
Walk ==
  LET After(n) == IF n = NULL THEN NULL ELSE Bigger(n)
      met[k \in 0..avl.size] == IF k = 0 THEN Leftmost(avl.root) ELSE After(met[k - 1])
  IN met

\* Through any additions and removals the tree holds exactly its members: a walk from
\* min by bigger meets each once and in order, get finds a key when a member has it,
\* and every subtree is balanced, so that none of the code's own checks aborts.
MapSound ==
  /\ ~avl.aborted
  /\ avl.size = Cardinality(members)
  /\ {Walk[k] : k \in 0..(avl.size - 1)} = members /\ Walk[avl.size] = NULL
  /\ \A k \in 1..(avl.size - 1) : Key[Walk[k - 1]] <= Key[Walk[k]]
  /\ \A i \in Items : LET n == Get(Key[i]) IN
       IF \E m \in members : Key[m] = Key[i] THEN n \in members /\ Key[n] = Key[i] ELSE n = NULL
  /\ \A n \in members : LET hl == HeightOf(avl, avl.kid["l"][n])
                             hr == HeightOf(avl, avl.kid["r"][n])
                         IN hl - hr \in -1..1 /\ avl.height[n] = Higher(hl, hr) + 1
===========================================================================
