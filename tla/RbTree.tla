------------------------------- MODULE RbTree -------------------------------
(***************************************************************************)
(* The red-black tree of rbtree.c, as operators on a record: root, the     *)
(* left and right child, the parent and the colour of every node.  A node  *)
(* is named by its key: which address it has, no one can tell.  left and   *)
(* right are two fields of child, so that an operator stands for a piece   *)
(* of code and for its mirror image.                                       *)
(***************************************************************************)
EXTENDS Integers, FiniteSets

CONSTANTS
    Nodes,      \* the keys, integers
    SENTINEL,   \* the leaf all trees share
    NULL

ASSUME RbTreeAssumption ==
    Nodes \subseteq Int /\ SENTINEL \notin Nodes /\ NULL \notin Nodes \cup {SENTINEL}

Side == {"left", "right"}
Other(d) == IF d = "left" THEN "right" ELSE "left"

Places == Nodes \cup {SENTINEL}

Trees == [root   : Places,
          child  : [Side -> [Nodes -> Places \cup {NULL}]],
          parent : [Places -> Nodes \cup {NULL}],
          red    : [Places -> BOOLEAN]]

\* rbtree_init: the sentinel is black.
Empty == [root   |-> SENTINEL,
          child  |-> [d \in Side |-> [n \in Nodes |-> SENTINEL]],
          parent |-> [n \in Places |-> NULL],
          red    |-> [n \in Places |-> FALSE]]

\* The side a key goes to at a node.
Toward(key, n) == IF key > n THEN "right" ELSE "left"

\* The side a node hangs on.
SideOf(T, n) == IF T.child["left"][T.parent[n]] = n THEN "left" ELSE "right"

\* The tree with n where m was, under m's parent.
Replace(T, m, n) ==
    LET T1 == [T EXCEPT !.parent[n] = T.parent[m]]
    IN  IF m = T.root THEN [T1 EXCEPT !.root = n]
        ELSE [T1 EXCEPT !.child[SideOf(T, m)][T.parent[m]] = n]

\* The assignments by which up, a child of n, becomes its parent, and moved goes
\* from up to n.
Turn(T, n, up, moved, d) ==
    [T EXCEPT !.child[Other(d)][n] = moved, !.child[d][up] = n, !.parent[n] = up]

\* rbtree_left_rotate and rbtree_right_rotate: n goes down to side d, its other
\* child comes up.
Rotate(T, n, d) ==
    LET up    == T.child[Other(d)][n]
        moved == T.child[d][up]
        T2    == Turn(Replace(T, n, up), n, up, moved, d)
    IN  IF moved = SENTINEL THEN T2 ELSE [T2 EXCEPT !.parent[moved] = n]

\* The fields of a node that is put in.
Leaf(T, n, p, red) ==
    [T EXCEPT !.parent[n] = p, !.red[n] = red,
              !.child["left"][n] = SENTINEL, !.child["right"][n] = SENTINEL]

\* A node becomes the root of an empty tree.
PlantRoot(T, n) == [Leaf(T, n, NULL, FALSE) EXCEPT !.root = n]

\* A node becomes a red leaf under p.
Attach(T, n, p) == [Leaf(T, n, p, TRUE) EXCEPT !.child[Toward(n, p)][p] = n]

\* One round of the loop that rebalances after an insertion works on a red node
\* under a red parent.
Unbalanced(T, n) == n # T.root /\ T.red[T.parent[n]]

Grandparent(T, n) == T.parent[T.parent[n]]
Uncle(T, n) == T.child[Other(SideOf(T, T.parent[n]))][Grandparent(T, n)]

\* Mutant: the grandparent stays black.
Recolor_TopStaysBlack(T, n) ==
    [T EXCEPT !.red[T.parent[n]] = FALSE, !.red[Uncle(T, n)] = FALSE]

\* With a red uncle the colours change, and the next round is the grandparent's.
Recolor(T, n) ==
    [T EXCEPT !.red[T.parent[n]] = FALSE, !.red[Uncle(T, n)] = FALSE,
              !.red[Grandparent(T, n)] = TRUE]

\* With a black uncle one or two rotations end the loop: a node on the inner side
\* first changes places with its parent.
Straighten(T, n) ==
    LET p == T.parent[n]
        d == SideOf(T, p)
        T1 == IF n = T.child[Other(d)][p] THEN Rotate(T, p, d) ELSE T
        n1 == IF n = T.child[Other(d)][p] THEN p ELSE n
        T2 == [T1 EXCEPT !.red[T1.parent[n1]] = FALSE,
                         !.red[Grandparent(T1, n1)] = TRUE]
    IN  Rotate(T2, Grandparent(T2, n1), Other(d))

BlackenRoot(T) == [T EXCEPT !.red[T.root] = FALSE]

-----------------------------------------------------------------------------
(* rbtree_delete *)

\* The nodes at and below n.
Below(T, n) ==
    LET f[m \in Places \cup {NULL}] ==
            IF m \notin Nodes THEN {}
            ELSE {m} \cup f[T.child["left"][m]] \cup f[T.child["right"][m]]
    IN  f[n]

Members(T) == Below(T, T.root)

\* rbtree_min
Leftmost(T, n) ==
    LET f[m \in Members(T)] ==
            IF T.child["left"][m] = SENTINEL THEN m ELSE f[T.child["left"][m]]
    IN  f[n]

\* The node that leaves its place: the one deleted, or the next in order when it
\* has two children.
Subst(T, n) ==
    IF SENTINEL \in {T.child[d][n] : d \in Side} THEN n
    ELSE Leftmost(T, T.child["right"][n])

\* What moves up into that place: a child, or the sentinel.
Riser(T, s) ==
    IF T.child["left"][s] # SENTINEL THEN T.child["left"][s]
    ELSE T.child["right"][s]

\* The node s moves into the place of n, with n's children and colour.
TakePlace(T, n, s) ==
    LET T1 == [Replace(T, n, s) EXCEPT
                 !.child["left"][s] = T.child["left"][n],
                 !.child["right"][s] = T.child["right"][n],
                 !.red[s] = T.red[n]]
    IN  [T1 EXCEPT !.parent =
            [m \in Places |->
                IF m # SENTINEL /\ \E d \in Side : T1.child[d][s] = m
                THEN s ELSE T1.parent[m]]]

\* n is out of the tree.  temp's parent is set even if temp is the sentinel.
Unlink(T, n) ==
    LET s    == Subst(T, n)
        temp == Riser(T, s)
        T1   == [T EXCEPT !.child[SideOf(T, s)][T.parent[s]] = temp,
                          !.parent[temp] = IF s # n /\ T.parent[s] = n THEN s
                                           ELSE T.parent[s]]
    IN  IF s = n THEN T1 ELSE TakePlace(T1, n, s)

\* The fields of a deleted node are cleared.
Clear(T, n) == [T EXCEPT !.child["left"][n] = NULL, !.child["right"][n] = NULL,
                         !.parent[n] = NULL]

\* A red sibling w of x is rotated away: x gets a black one.
BlackSibling(T, x) ==
    LET p == T.parent[x]
        d == SideOf(T, x)
        w == T.child[Other(d)][p]
    IN  IF T.red[w]
        THEN Rotate([T EXCEPT !.red[w] = FALSE, !.red[p] = TRUE], p, d)
        ELSE T

\* Mutant: the sibling keeps its own colour when it takes the parent's place.
FixEnd_KeepsColor(T, x) ==
    LET p  == T.parent[x]
        d  == SideOf(T, x)
        w  == T.child[Other(d)][p]
        T1 == IF T.red[T.child[Other(d)][w]] THEN T
              ELSE Rotate([T EXCEPT !.red[T.child[d][w]] = FALSE,
                                    !.red[w] = TRUE], w, Other(d))
        w1 == T1.child[Other(d)][p]
    IN  Rotate([T1 EXCEPT !.red[p] = FALSE,
                          !.red[T1.child[Other(d)][w1]] = FALSE], p, d)

\* With a red child of the sibling one or two rotations end the loop.
FixEnd(T, x) ==
    LET p  == T.parent[x]
        d  == SideOf(T, x)
        w  == T.child[Other(d)][p]
        T1 == IF T.red[T.child[Other(d)][w]] THEN T
              ELSE Rotate([T EXCEPT !.red[T.child[d][w]] = FALSE,
                                    !.red[w] = TRUE], w, Other(d))
        w1 == T1.child[Other(d)][p]
    IN  Rotate([T1 EXCEPT !.red[w1] = T1.red[p], !.red[p] = FALSE,
                          !.red[T1.child[Other(d)][w1]] = FALSE], p, d)

\* The loop that rebalances goes on as long as the subtree at x has one black node
\* too few.
FixupDone(T, x) == x = T.root \/ T.red[x]

\* One round: the lack is passed on to the parent, or the loop ends at the root.
FixupRound(T, x) ==
    LET T1 == BlackSibling(T, x)
        p  == T1.parent[x]
        w  == T1.child[Other(SideOf(T1, x))][p]
    IN  IF \A d \in Side : ~T1.red[T1.child[d][w]]
        THEN [tree |-> [T1 EXCEPT !.red[w] = TRUE], x |-> p]
        ELSE [tree |-> FixEnd(T1, x), x |-> FixEnd(T1, x).root]

\* There are no more rounds than nodes.
Fixup(T0, x0) ==
    LET most == Cardinality(Members(T0))
        f[k \in 0 .. most] ==
            IF k = 0 THEN [tree |-> T0, x |-> x0]
            ELSE LET s == f[k - 1]
                 IN  IF FixupDone(s.tree, s.x) THEN s
                     ELSE FixupRound(s.tree, s.x)
    IN  [f[most].tree EXCEPT !.red[f[most].x] = FALSE]

\* Of a root with at most one child nothing but the root changes: its parent
\* field still names the deleted node.
rbtree_delete(T, n) ==
    LET s    == Subst(T, n)
        temp == Riser(T, s)
        T1   == Clear(Unlink(T, n), n)
    IN  IF s = T.root
        THEN Clear([T EXCEPT !.root = temp, !.red[temp] = FALSE], n)
        ELSE IF T.red[s] THEN T1 ELSE Fixup(T1, temp)

-----------------------------------------------------------------------------
(* What a tree should be *)

BlackHeight(T, n) ==
    LET f[m \in Places \cup {NULL}] ==
            IF m \notin Nodes THEN 0
            ELSE f[T.child["left"][m]] + (IF T.red[m] THEN 0 ELSE 1)
    IN  f[n]

\* Keys in order, parents the inverse of children.
IsSearchTree(T) ==
    \A n \in Members(T), d \in Side :
        LET c == T.child[d][n]
        IN  /\ c # SENTINEL => T.parent[c] = n
            /\ \A m \in Below(T, c) : m # n /\ Toward(m, n) = d

\* A walk up the parents ends above the root.
RootHasNoParent(T) == T.root # SENTINEL => T.parent[T.root] = NULL

\* No red node under a red one, as many black nodes on every path.
IsRedBlack(T) ==
    /\ ~T.red[T.root] /\ ~T.red[SENTINEL]
    /\ \A n \in Members(T) :
          /\ \A d \in Side : T.red[n] => ~T.red[T.child[d][n]]
          /\ BlackHeight(T, T.child["left"][n]) = BlackHeight(T, T.child["right"][n])
=============================================================================
