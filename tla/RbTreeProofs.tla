---------------------------- MODULE RbTreeProofs ----------------------------
(***************************************************************************)
(* Proofs about the insertion and the deletion of rbtree.c, for any keys.  *)
(*                                                                         *)
(* Below, BlackHeight and Members walk a tree and are recursive, and tlapm *)
(* has no induction over them. So a tree is described by a witness: sub    *)
(* gives each place the set of the nodes at and below it (IsTree), bh its  *)
(* black height (IsColored), and each is tied to a node's children. An     *)
(* operation is correct when it turns witnesses into witnesses: Rotated,   *)
(* Attached, Pruned, MovedSub, MovedBh and the [bh EXCEPT ...] of the      *)
(* lemmas. That a witness is what the recursive operator computes follows  *)
(* once, in the part on the walks: a set of places where they differ would *)
(* have a lowest node (LowestNode), and that one agrees.                   *)
(*                                                                         *)
(* A deletion takes out a node with at most one child (SpliceShape), lets  *)
(* it take the place of the deleted one (RenameShape), and then one black  *)
(* node may be lacking at one place (IsShort). A round of its loop passes  *)
(* the lack on to the parent or ends it (RoundKeeps); a node has fewer     *)
(* nodes above it than the tree has, so the rounds suffice (FixupKeeps).   *)
(*                                                                         *)
(* The last part hides the witnesses: HasShape and HasColors are what a    *)
(* client of the tree knows of it.                                         *)
(***************************************************************************)
EXTENDS RbTree, FiniteSetTheorems, WellFoundedInduction, TLAPS

\* A node that is not in the tree was not put in yet, or was deleted.
NoChildren(T, S) == \A n \in Nodes \ S, d \in Side : T.child[d][n] \in {SENTINEL, NULL}

\* T is a search tree of the nodes S, and sub[n] are those at and below n: each side
\* holds the keys it should, parents are the inverse of children, nothing hangs twice.
IsTree(T, S, sub) ==
    /\ T \in Trees
    /\ S \subseteq Nodes /\ IsFiniteSet(S)
    /\ sub \in [Places -> SUBSET S]
    /\ sub[T.root] = S /\ sub[SENTINEL] = {}
    /\ T.root # SENTINEL => T.root \in S /\ T.parent[T.root] \notin S
    /\ NoChildren(T, S)
    /\ \A n \in S : sub[n] = {n} \cup sub[T.child["left"][n]] \cup sub[T.child["right"][n]]
    /\ \A n \in S, d \in Side :
          /\ T.child[d][n] \in S \cup {SENTINEL}
          /\ T.child[d][n] # SENTINEL => T.parent[T.child[d][n]] = n
          /\ \A m \in sub[T.child[d][n]] : m # n /\ Toward(m, n) = d
    /\ \A n \in S \ {T.root} :
          /\ T.parent[n] \in S
          /\ \E d \in Side : T.child[d][T.parent[n]] = n
    /\ \A n \in S : \A m \in sub[n] :
          /\ sub[m] \subseteq sub[n]
          /\ m # n => T.parent[m] \in sub[n]

\* A node's child is another node, and hangs on one side only.
LEMMA ChildFacts ==
    ASSUME NEW T, NEW S, NEW sub, IsTree(T, S, sub),
           NEW n \in S, NEW d \in Side, T.child[d][n] # SENTINEL
    PROVE  /\ T.child[d][n] \in S /\ T.child[d][n] # n /\ T.child[d][n] # T.root
           /\ T.parent[T.child[d][n]] = n
           /\ T.child[d][n] \in sub[n]
           /\ n \notin sub[T.child[d][n]]
           /\ T.child[Other(d)][n] # T.child[d][n]
           /\ SideOf(T, T.child[d][n]) = d
  <1> DEFINE c == T.child[d][n]
  <1>1. c \in S /\ T.parent[c] = n
    BY DEF IsTree
  <1>2. c \in sub[c]
    BY <1>1 DEF IsTree
  <1>3. c # n /\ Toward(c, n) = d /\ n \notin sub[c]
    BY <1>1, <1>2 DEF IsTree
  <1>4. c \in sub[n] 
    BY <1>2 DEF IsTree, Side
  <1>6. c # T.root
    BY <1>1 DEF IsTree
  <1>7. Other(d) \in Side /\ Other(d) # d
    BY DEF Side, Other
  <1>8. T.child[Other(d)][n] # c
    BY <1>1, <1>2, <1>3, <1>7 DEF IsTree
  <1>9. SideOf(T, c) = d
    BY <1>1, <1>8 DEF SideOf, Side, Other
  <1> QED BY <1>1, <1>3, <1>4, <1>6, <1>8, <1>9

\* A node below the root hangs where SideOf says.
LEMMA ParentFacts ==
    ASSUME NEW T, NEW S, NEW sub, IsTree(T, S, sub),
           NEW n \in S, n # T.root
    PROVE  /\ T.parent[n] \in S /\ T.parent[n] # n
           /\ SideOf(T, n) \in Side
           /\ T.child[SideOf(T, n)][T.parent[n]] = n
  <1>1. T.parent[n] \in S /\ n # SENTINEL
    BY RbTreeAssumption DEF IsTree
  <1>2. PICK d \in Side : T.child[d][T.parent[n]] = n
    BY DEF IsTree
  <1>3. SideOf(T, n) = d /\ T.parent[n] # n
    BY <1>1, <1>2, ChildFacts
  <1> QED BY <1>1, <1>2, <1>3

\* One field of one node, or the root, assigned.
WithParent(T, m, q)  == [T EXCEPT !.parent[m] = q]
WithChild(T, d, m, c) == [T EXCEPT !.child[d][m] = c]
WithRed(T, m, b)     == [T EXCEPT !.red[m] = b]
WithRoot(T, m)       == [T EXCEPT !.root = m]

-----------------------------------------------------------------------------
(* Assignments *)

\* What each assignment leaves of the other fields.
LEMMA ParentSet ==
    ASSUME NEW T \in Trees, NEW m \in Places, NEW q \in Nodes \cup {NULL}
    PROVE  /\ WithParent(T, m, q) \in Trees
           /\ WithParent(T, m, q).parent = [T.parent EXCEPT ![m] = q]
           /\ WithParent(T, m, q).child = T.child
           /\ WithParent(T, m, q).root = T.root
           /\ WithParent(T, m, q).red = T.red
  BY DEF Trees, Places, WithParent

\* The same for the root.
LEMMA RootSet ==
    ASSUME NEW T \in Trees, NEW m \in Places
    PROVE  /\ WithRoot(T, m) \in Trees
           /\ WithRoot(T, m).root = m
           /\ WithRoot(T, m).child = T.child
           /\ WithRoot(T, m).parent = T.parent
           /\ WithRoot(T, m).red = T.red
  BY DEF Trees, WithRoot

\* The same for a colour.
LEMMA RedSet ==
    ASSUME NEW T \in Trees, NEW m \in Places, NEW b \in BOOLEAN
    PROVE  /\ WithRed(T, m, b) \in Trees
           /\ WithRed(T, m, b).red = [T.red EXCEPT ![m] = b]
           /\ WithRed(T, m, b).root = T.root
           /\ WithRed(T, m, b).child = T.child
           /\ WithRed(T, m, b).parent = T.parent
  BY DEF Trees, WithRed

\* The same for a child.
LEMMA ChildSet ==
    ASSUME NEW T \in Trees, NEW d \in Side, NEW m \in Nodes,
           NEW c \in Places \cup {NULL}
    PROVE  /\ WithChild(T, d, m, c) \in Trees
           /\ WithChild(T, d, m, c).root = T.root
           /\ WithChild(T, d, m, c).parent = T.parent
           /\ WithChild(T, d, m, c).red = T.red
           /\ \A e \in Side, x \in Nodes : WithChild(T, d, m, c).child[e][x] =
                 IF e = d /\ x = m THEN c ELSE T.child[e][x]
  BY DEF Trees, WithChild

\* Replace gives m's place to a child of it, and touches nothing else.
LEMMA ReplaceFields ==
    ASSUME NEW T, NEW S, NEW sub, IsTree(T, S, sub),
           NEW n \in S, NEW up \in S, up # n
    PROVE  /\ Replace(T, n, up) \in Trees
           /\ Replace(T, n, up).red = T.red
           /\ Replace(T, n, up).root = IF n = T.root THEN up ELSE T.root
           /\ Replace(T, n, up).parent = [T.parent EXCEPT ![up] = T.parent[n]]
           /\ \A e \in Side, x \in Nodes : Replace(T, n, up).child[e][x] =
                 IF T.child[e][x] = n THEN up ELSE T.child[e][x]
  <1> DEFINE s == SideOf(T, n)
             q == T.parent[n]
             T1 == WithParent(T, up, q)
  <1>1. T \in Trees /\ up \in Places /\ n \in Nodes /\ n # SENTINEL /\ S \subseteq Nodes
    BY RbTreeAssumption DEF IsTree, Places
  <1>2. q \in Nodes \cup {NULL}
    BY <1>1 DEF Trees, Places
  <1>3. ASSUME NEW e \in Side, NEW x \in Nodes, T.child[e][x] = n
        PROVE  x = q /\ s = e /\ n # T.root
    <2>1. x \in S
      BY <1>1, <1>3, RbTreeAssumption DEF IsTree, NoChildren
    <2> QED BY <1>1, <1>3, <2>1, ChildFacts
  <1>4. /\ T1 \in Trees /\ T1.parent = [T.parent EXCEPT ![up] = q] /\ T1.child = T.child
        /\ T1.root = T.root /\ T1.red = T.red
    <2>1. T1 = WithParent(T, up, q)
      OBVIOUS
    <2> HIDE DEF T1, q
    <2> QED BY <1>1, <1>2, <2>1, ParentSet, ZenonT(60)
  <1>5. CASE n = T.root
    <2>1. Replace(T, n, up) = WithRoot(T1, up)
      BY <1>5 DEF Replace, WithRoot, WithParent
    <2> HIDE DEF T1, s
    <2> QED BY <1>1, <1>3, <1>4, <1>5, <2>1, RootSet
  <1>6. CASE n # T.root
    <2>1. q \in Nodes /\ s \in Side /\ T.child[s][q] = n
      BY <1>1, <1>6, ParentFacts
    <2>2. Replace(T, n, up) = WithChild(T1, s, q, up)
      BY <1>6 DEF Replace, WithChild, WithParent
    <2> HIDE DEF T1, s
    <2>3. \A e \in Side, x \in Nodes : T.child[e][x] = n <=> (e = s /\ x = q)
      BY <1>3, <2>1
    <2>4. up \in Places \cup {NULL}
      BY <1>1
    <2>5. /\ Replace(T, n, up) \in Trees
          /\ Replace(T, n, up).root = T1.root
          /\ Replace(T, n, up).parent = T1.parent
          /\ Replace(T, n, up).red = T1.red
          /\ \A e \in Side, x \in Nodes : Replace(T, n, up).child[e][x] =
                IF e = s /\ x = q THEN up ELSE T1.child[e][x]
      BY <1>4, <2>1, <2>2, <2>4, ChildSet
    <2> HIDE DEF q
    <2> QED BY <1>4, <1>6, <2>3, <2>5 DEF q
  <1> QED BY <1>5, <1>6

\* Turn assigns two children and a parent.
LEMMA TurnFields ==
    ASSUME NEW T \in Trees, NEW d \in Side, NEW n \in Nodes, NEW moved \in Places,
           NEW up \in Nodes, up # n
    PROVE  /\ Turn(T, n, up, moved, d) \in Trees
           /\ Turn(T, n, up, moved, d).red = T.red
           /\ Turn(T, n, up, moved, d).root = T.root
           /\ Turn(T, n, up, moved, d).parent = [T.parent EXCEPT ![n] = up]
           /\ \A e \in Side, x \in Nodes : Turn(T, n, up, moved, d).child[e][x] =
                     IF e = Other(d) /\ x = n THEN moved
                     ELSE IF e = d /\ x = up THEN n ELSE T.child[e][x]
  <1>1. Other(d) \in Side /\ Other(d) # d
    BY DEF Side, Other
  <1> QED BY <1>1, ZenonT(60) DEF Trees, Places, Turn

\* What a rotation leaves in every field: n and its child up change places.
LEMMA RotateFields ==
    ASSUME NEW T, NEW S, NEW sub, IsTree(T, S, sub),
           NEW n \in S, NEW d \in Side, T.child[Other(d)][n] # SENTINEL
    PROVE  LET up    == T.child[Other(d)][n]
               moved == T.child[d][up]
               R     == Rotate(T, n, d)
           IN  /\ R \in Trees /\ R.red = T.red
               /\ R.root = IF n = T.root THEN up ELSE T.root
               /\ \A x \in Places : R.parent[x] =
                     IF x = up THEN T.parent[n]
                     ELSE IF x = n THEN up
                     ELSE IF x = moved /\ moved # SENTINEL THEN n ELSE T.parent[x]
               /\ \A e \in Side, x \in Nodes : R.child[e][x] =
                     IF x = n THEN IF e = d THEN T.child[e][x] ELSE moved
                     ELSE IF x = up THEN IF e = d THEN n ELSE T.child[e][x]
                     ELSE IF T.child[e][x] = n THEN up ELSE T.child[e][x]
  <1> DEFINE o == Other(d)
             up == T.child[o][n]
             moved == T.child[d][up]
             T1 == Replace(T, n, up)
             T2 == Turn(T1, n, up, moved, d)
             R  == Rotate(T, n, d)
  <1>1. /\ T \in Trees /\ S \subseteq Nodes /\ n \in Nodes /\ n # SENTINEL
        /\ o \in Side /\ o # d /\ Other(o) = d
    BY RbTreeAssumption DEF IsTree, Side, Other
  <1>2. up \in S /\ up # n /\ T.child[d][n] # up /\ n \notin sub[up] /\ up # SENTINEL
    BY <1>1, ChildFacts
  <1>3. \A e \in Side, x \in S : T.child[e][x] # SENTINEL =>
            T.child[e][x] # x /\ T.child[e][x] \in sub[x]
    BY ChildFacts
  <1>4. moved \in S \cup {SENTINEL} /\ moved # n /\ moved # up
    <2>1. moved \in S \cup {SENTINEL}
      BY <1>2 DEF IsTree
    <2> QED BY <1>1, <1>2, <1>3, <2>1
  <1>5. R = IF moved = SENTINEL THEN T2 ELSE WithParent(T2, moved, n)
    BY ZenonT(60) DEF Rotate, WithParent
  <1>6. /\ T1 \in Trees /\ T1.red = T.red
        /\ T1.root = IF n = T.root THEN up ELSE T.root
        /\ T1.parent = [T.parent EXCEPT ![up] = T.parent[n]]
        /\ \A e \in Side, x \in Nodes : T1.child[e][x] =
              IF T.child[e][x] = n THEN up ELSE T.child[e][x]
    BY <1>2, ReplaceFields, SMTT(60)
  <1>7. n \in Places /\ up \in Nodes /\ moved \in Places
    BY <1>1, <1>2, <1>4 DEF Places
  <1> HIDE DEF T1, up, moved, R
  <1>8. /\ T2 \in Trees /\ T2.red = T1.red /\ T2.root = T1.root
        /\ T2.parent = [T1.parent EXCEPT ![n] = up]
        /\ \A e \in Side, x \in Nodes : T2.child[e][x] =
              IF e = o /\ x = n THEN moved
              ELSE IF e = d /\ x = up THEN n ELSE T1.child[e][x]
    BY <1>1, <1>2, <1>6, <1>7, TurnFields, SMTT(60)
  <1> HIDE DEF T2
  <1>9. /\ R \in Trees /\ R.red = T2.red /\ R.root = T2.root /\ R.child = T2.child
        /\ R.parent = IF moved = SENTINEL THEN T2.parent ELSE [T2.parent EXCEPT ![moved] = n]
    BY <1>1, <1>5, <1>7, <1>8, ParentSet
  <1>10. \A x \in Nodes, e \in Side : T.child[e][x] = n => x # up /\ x # n
    BY <1>1, <1>2, <1>3 DEF IsTree
  <1>11. T1.parent \in [Places -> Nodes \cup {NULL}] /\ T.parent \in [Places -> Nodes \cup {NULL}]
    BY <1>1, <1>6 DEF Trees
  <1>12. \A x \in Places : R.parent[x] =
           IF x = up THEN T.parent[n]
           ELSE IF x = n THEN up
           ELSE IF x = moved /\ moved # SENTINEL THEN n ELSE T.parent[x]
    BY <1>2, <1>4, <1>6, <1>7, <1>8, <1>9, <1>11
  <1>13. \A e \in Side, x \in Nodes : R.child[e][x] =
           IF x = n THEN IF e = d THEN T.child[e][x] ELSE moved
           ELSE IF x = up THEN IF e = d THEN n ELSE T.child[e][x]
           ELSE IF T.child[e][x] = n THEN up ELSE T.child[e][x]
    <2> SUFFICES ASSUME NEW e \in Side, NEW x \in Nodes
                 PROVE  R.child[e][x] =
                          IF x = n THEN IF e = d THEN T.child[e][x] ELSE moved
                          ELSE IF x = up THEN IF e = d THEN n ELSE T.child[e][x]
                          ELSE IF T.child[e][x] = n THEN up ELSE T.child[e][x]
      OBVIOUS
    <2>1. R.child[e][x] = IF e = o /\ x = n THEN moved
              ELSE IF e = d /\ x = up THEN n
              ELSE IF T.child[e][x] = n THEN up ELSE T.child[e][x]
      BY <1>6, <1>8, <1>9
    <2>2. e # d => e = o
      BY DEF Side, Other
    <2> QED BY <1>1, <1>2, <1>10, <2>1, <2>2
  <1> QED BY <1>6, <1>8, <1>9, <1>12, <1>13, ZenonT(60) DEF R, up, moved

-----------------------------------------------------------------------------
(* Rotation *)

\* Keys on different sides of n are in order.
LEMMA TowardTransitive ==
    ASSUME NEW n \in Int, NEW m \in Int, NEW up \in Int, NEW d \in Side,
           m # n, up # n, Toward(m, n) = d, Toward(up, n) = Other(d)
    PROVE  m # up /\ Toward(m, up) = d
  BY SMTT(60) DEF Toward, Side, Other

\* The subtrees after a rotation: only the two nodes that change places have
\* another one.
Rotated(T, sub, n, d) ==
    LET up == T.child[Other(d)][n]
    IN  [sub EXCEPT ![n] = {n} \cup sub[T.child[d][n]] \cup sub[T.child[d][up]],
                    ![up] = sub[n]]

\* A rotation turns a search tree into a search tree of the same nodes.
LEMMA RotateShape ==
    ASSUME NEW T, NEW S, NEW sub, IsTree(T, S, sub),
           NEW n \in S, NEW d \in Side, T.child[Other(d)][n] # SENTINEL
    PROVE  IsTree(Rotate(T, n, d), S, Rotated(T, sub, n, d))
  <1> DEFINE o == Other(d)
             up == T.child[o][n]
             moved == T.child[d][up]
             keep == T.child[d][n]
             w == T.child[o][up]
             R  == Rotate(T, n, d)
             sub2 == Rotated(T, sub, n, d)
  <1>1. /\ T \in Trees /\ S \subseteq Nodes /\ n \in Nodes /\ SENTINEL \notin S /\ Nodes \subseteq Int
        /\ o \in Side /\ o # d /\ Other(o) = d /\ Side = {o, d}
    <2>1. o \in Side /\ o # d /\ Other(o) = d /\ Side = {o, d}
      BY DEF Side, Other
    <2>2. T \in Trees /\ S \subseteq Nodes
      BY DEF IsTree
    <2>3. n \in Nodes /\ SENTINEL \notin S /\ Nodes \subseteq Int
      BY <2>2, RbTreeAssumption
    <2> QED BY <2>1, <2>2, <2>3
  <1>2. up \in S /\ up # n /\ n \notin sub[up] /\ up \in sub[n] /\ T.parent[up] = n /\ up # T.root
    BY <1>1, ChildFacts
  <1>3. \A e \in Side, x \in S : T.child[e][x] \in S =>
            /\ T.child[e][x] # x /\ T.child[e][x] \in sub[x] /\ T.child[e][x] # T.root
            /\ T.parent[T.child[e][x]] = x /\ x \notin sub[T.child[e][x]]
            /\ T.child[Other(e)][x] # T.child[e][x]
    BY <1>1, ChildFacts
  <1>4. \A e \in Side, x \in S :
            /\ T.child[e][x] \in S \cup {SENTINEL}
            /\ \A m \in sub[T.child[e][x]] : m # x /\ Toward(m, x) = e
    BY DEF IsTree
  <1>5. \A x \in S : /\ sub[x] \subseteq S /\ x \in sub[x]
                     /\ \A m \in sub[x] : sub[m] \subseteq sub[x] /\ (m # x => T.parent[m] \in sub[x])
    BY <1>1 DEF IsTree, Places
  <1>6. \A x \in S : sub[x] = {x} \cup sub[T.child[d][x]] \cup sub[T.child[o][x]]
    BY DEF IsTree, Side, Other
  <1>7. sub[SENTINEL] = {} /\ sub \in [Places -> SUBSET S] /\ S \subseteq Places /\ SENTINEL \in Places
    BY <1>1 DEF IsTree, Places
  <1>8. /\ keep \in S \cup {SENTINEL} /\ keep # n /\ keep # up
        /\ moved \in S \cup {SENTINEL} /\ moved # n /\ moved # up
        /\ w \in S \cup {SENTINEL} /\ w # n /\ w # up
        /\ moved = SENTINEL \/ (moved # keep /\ moved # w)
    <2>0. up = T.child[o][n] /\ keep = T.child[d][n] /\ moved = T.child[d][up] /\ w = T.child[o][up]
      OBVIOUS
    <2> HIDE DEF up, keep, moved, w
    <2>1. keep \in S \cup {SENTINEL} /\ moved \in S \cup {SENTINEL} /\ w \in S \cup {SENTINEL}
      BY <1>1, <1>2, <1>4, <2>0
    <2>2. keep # n /\ keep # up
      BY <1>1, <1>2, <1>3, <2>0, <2>1
    <2>3. moved # n /\ moved # up
      BY <1>1, <1>2, <1>3, <2>0, <2>1
    <2>4. w # n /\ w # up
      BY <1>1, <1>2, <1>3, <2>0, <2>1
    <2>5. moved = SENTINEL \/ (moved # keep /\ moved # w)
      BY <1>1, <1>2, <1>3, <2>0, <2>1
    <2> QED BY <2>1, <2>2, <2>3, <2>4, <2>5
  <1>9. /\ R \in Trees /\ R.root = IF n = T.root THEN up ELSE T.root
        /\ \A x \in Places : R.parent[x] =
                     IF x = up THEN T.parent[n]
                     ELSE IF x = n THEN up
                     ELSE IF x = moved /\ moved # SENTINEL THEN n ELSE T.parent[x]
        /\ \A e \in Side, x \in Nodes : R.child[e][x] =
                     IF x = n THEN IF e = d THEN T.child[e][x] ELSE moved
                     ELSE IF x = up THEN IF e = d THEN n ELSE T.child[e][x]
                     ELSE IF T.child[e][x] = n THEN up ELSE T.child[e][x]
    BY RotateFields, SMTT(60)
  <1>10. \A x \in Places : sub2[x] = IF x = n THEN {n} \cup sub[keep] \cup sub[moved]
                                    ELSE IF x = up THEN sub[n] ELSE sub[x]
    BY <1>2, <1>7, ZenonT(60) DEF Rotated
  <1>11. sub2 \in [Places -> SUBSET S]
    <2>1. sub[keep] \subseteq S /\ sub[moved] \subseteq S /\ sub[n] \subseteq S
      BY <1>7, <1>8, <1>5, ZenonT(60)
    <2>2. DOMAIN sub2 = Places /\ sub2 = [x \in Places |-> sub2[x]]
      BY <1>7, ZenonT(60) DEF Rotated
    <2> HIDE DEF sub2
    <2>3. \A x \in Places : sub2[x] \in SUBSET S
      BY <2>1, <1>7, <1>10
    <2> QED BY <2>2, <2>3
  <1>13. o = Other(d) /\ up = T.child[o][n] /\ keep = T.child[d][n] /\ moved = T.child[d][up] /\ w = T.child[o][up]
    OBVIOUS
  <1> HIDE DEF R, sub2, w, moved, keep, up, o
  <1>14. /\ R.child[d][n] = keep /\ R.child[o][n] = moved
         /\ R.child[d][up] = n /\ R.child[o][up] = w
         /\ sub2[n] = {n} \cup sub[keep] \cup sub[moved] /\ sub2[up] = sub[n]
         /\ sub2[keep] = sub[keep] /\ sub2[moved] = sub[moved] /\ sub2[w] = sub[w]
         /\ sub[n] = {n} \cup sub[keep] \cup sub[up] /\ sub[up] = {up} \cup sub[moved] \cup sub[w]
    <2>1. n \in Nodes /\ up \in Nodes /\ n \in Places /\ up \in Places
          /\ keep \in Places /\ moved \in Places /\ w \in Places
      BY <1>1, <1>2, <1>7, <1>8
    <2>2. R.child[d][n] = keep /\ R.child[o][n] = moved /\ R.child[d][up] = n /\ R.child[o][up] = w
      BY <1>1, <1>2, <1>9, <1>13, <2>1
    <2>3. /\ sub2[n] = {n} \cup sub[keep] \cup sub[moved] /\ sub2[up] = sub[n]
          /\ sub2[keep] = sub[keep] /\ sub2[moved] = sub[moved] /\ sub2[w] = sub[w]
      BY <1>2, <1>8, <1>10, <2>1
    <2>4. sub[n] = {n} \cup sub[keep] \cup sub[up] /\ sub[up] = {up} \cup sub[moved] \cup sub[w]
      BY <1>2, <1>6, <1>13
    <2> QED BY <2>2, <2>3, <2>4
  <1>15. \A x \in S \ {n, up}, e \in Side :
            IF T.child[e][x] = n THEN R.child[e][x] = up
            ELSE /\ R.child[e][x] = T.child[e][x]
                 /\ R.child[e][x] # up /\ (R.child[e][x] # SENTINEL => R.child[e][x] # moved)
                 /\ R.child[e][x] # n /\ sub2[R.child[e][x]] = sub[T.child[e][x]]
    <2> SUFFICES ASSUME NEW x \in S \ {n, up}, NEW e \in Side
                 PROVE  IF T.child[e][x] = n THEN R.child[e][x] = up
                        ELSE /\ R.child[e][x] = T.child[e][x]
                             /\ R.child[e][x] # up /\ (R.child[e][x] # SENTINEL => R.child[e][x] # moved)
                             /\ R.child[e][x] # n /\ sub2[R.child[e][x]] = sub[T.child[e][x]]
      OBVIOUS
    <2>1. CASE T.child[e][x] = n
      BY <1>1, <1>9, <2>1
    <2>2. CASE T.child[e][x] # n
      <3>1. R.child[e][x] = T.child[e][x] /\ T.child[e][x] \in S \cup {SENTINEL}
        BY <1>1, <1>4, <1>9, <2>2
      <3>2. T.child[e][x] # up /\ (T.child[e][x] # SENTINEL => T.child[e][x] # moved)
        <4>1. T.child[e][x] # SENTINEL => T.parent[T.child[e][x]] = x
          BY <1>1, <1>3, <3>1, SMTT(60)
        <4>2. moved # SENTINEL => T.parent[moved] = up
          BY <1>1, <1>2, <1>3, <1>8, <1>13, ZenonT(60)
        <4> QED BY <1>1, <1>2, <4>1, <4>2
      <3> QED BY <1>7, <1>10, <2>2, <3>1, <3>2
    <2> QED BY <2>1, <2>2
  <1>16. Toward(up, n) = o
    <2>1. n \in S /\ o \in Side /\ up \in S
      BY <1>1, <1>2
    <2>2. \A m \in sub[T.child[o][n]] : Toward(m, n) = o
      BY <1>4, <2>1, Zenon
    <2>3. up \in sub[T.child[o][n]]
      BY <1>5, <1>13, <2>1, Zenon
    <2> QED BY <2>2, <2>3, Zenon
  <1>12. T.root \in S /\ T.parent[T.root] \notin S /\ sub[T.root] = S
    BY <1>1 DEF IsTree, Trees, Places
  <1>20. sub2[R.root] = S /\ sub2[SENTINEL] = {}
    BY <1>1, <1>2, <1>7, <1>9, <1>10, <1>12
  <1>21. R.root # SENTINEL => R.root \in S /\ R.parent[R.root] \notin S
    <2>1. moved # SENTINEL => moved # T.root
      BY <1>1, <1>2, <1>3, <1>8, <1>13, ZenonT(60)
    <2>2. T.root # up /\ T.root \in Places
      BY <1>2, <1>7, <1>12
    <2>3. CASE n = T.root
      BY <1>2, <1>7, <1>9, <1>12, <2>3
    <2>4. CASE n # T.root
      BY <1>9, <1>12, <2>1, <2>2, <2>4
    <2> QED BY <2>3, <2>4, SMTT(60)
  <1>22. NoChildren(R, S)
    <2>1. NoChildren(T, S) /\ n \notin {SENTINEL, NULL}
      BY <1>1, RbTreeAssumption DEF IsTree
    <2> QED BY <1>2, <1>9, <2>1 DEF NoChildren
  <1>23. \A x \in S : sub2[x] = {x} \cup sub2[R.child[d][x]] \cup sub2[R.child[o][x]]
    <2> SUFFICES ASSUME NEW x \in S
                 PROVE  sub2[x] = {x} \cup sub2[R.child[d][x]] \cup sub2[R.child[o][x]]
      OBVIOUS
    <2>1. CASE x = n
      BY <1>14, <2>1
    <2>2. CASE x = up
      BY <1>14, <2>2
    <2>3. CASE x \notin {n, up}
      <3>1. \A e \in Side : sub2[R.child[e][x]] = sub[T.child[e][x]]
        <4>1. ASSUME NEW e \in Side PROVE sub2[R.child[e][x]] = sub[T.child[e][x]]
          <5>1. CASE T.child[e][x] = n
            <6>1. R.child[e][x] = up
              BY <1>15, <2>3, <5>1
            <6> QED BY <1>14, <5>1, <6>1
          <5>2. CASE T.child[e][x] # n
            BY <1>15, <2>3, <5>2
          <5> QED BY <5>1, <5>2
        <4> QED BY <4>1
      <3>2. sub2[x] = sub[x]
        BY <1>7, <1>10, <2>3
      <3> QED BY <1>1, <1>6, <3>1, <3>2
    <2> QED BY <2>1, <2>2, <2>3
  <1>24. \A x \in S, e \in Side :
           /\ R.child[e][x] \in S \cup {SENTINEL}
           /\ R.child[e][x] # SENTINEL => R.parent[R.child[e][x]] = x
           /\ \A m \in sub2[R.child[e][x]] : m # x /\ Toward(m, x) = e
    <2> DEFINE Good(x, e) ==
           /\ R.child[e][x] \in S \cup {SENTINEL}
           /\ R.child[e][x] # SENTINEL => R.parent[R.child[e][x]] = x
           /\ \A m \in sub2[R.child[e][x]] : m # x /\ Toward(m, x) = e
    <2>1. Good(n, d)
      <3>1. keep # SENTINEL => T.parent[keep] = n /\ keep # moved
        BY <1>1, <1>3, <1>8, <1>13, ZenonT(60)
      <3>2. \A m \in sub[keep] : m # n /\ Toward(m, n) = d
        BY <1>1, <1>4, <1>13
      <3>3. keep # SENTINEL => R.parent[keep] = n
        BY <1>1, <1>7, <1>8, <1>9, <3>1
      <3> QED BY <1>8, <1>14, <3>2, <3>3, SMTT(60)
    <2>2. Good(n, o)
      <3>1. \A m \in sub[moved] : m # n /\ Toward(m, n) = o
        BY <1>1, <1>4, <1>13, <1>14, ZenonT(60)
      <3> QED BY <1>7, <1>8, <1>9, <1>14, <3>1
    <2>3. Good(up, d)
      <3>1. n # up /\ Toward(n, up) = d
        BY <1>1, <1>2, <1>16 DEF Toward, Side, Other, o
      <3>2. \A m \in sub[moved] : m # up /\ Toward(m, up) = d
        BY <1>1, <1>2, <1>4, <1>13
      <3>3. \A m \in sub[keep] : m # up /\ Toward(m, up) = d
        <4>1. \A m \in sub[keep] : m \in S /\ m # n /\ Toward(m, n) = d
          BY <1>1, <1>4, <1>5, <1>7, <1>8, <1>13
        <4>2. ASSUME NEW m \in sub[keep] PROVE m # up /\ Toward(m, up) = d
          <5>1. m \in Int /\ n \in Int /\ up \in Int /\ Toward(up, n) = Other(d)
            BY <1>1, <1>2, <1>13, <1>16, <4>1
          <5> QED BY <1>2, <4>1, <5>1, TowardTransitive
        <4> QED BY <4>2
      <3> QED BY <1>2, <1>7, <1>9, <1>14, <3>1, <3>2, <3>3
    <2>4. Good(up, o)
      <3>1. w # SENTINEL => T.parent[w] = up /\ w # moved
        BY <1>1, <1>2, <1>3, <1>8, <1>13, ZenonT(60)
      <3>2. \A m \in sub[w] : m # up /\ Toward(m, up) = o
        BY <1>1, <1>2, <1>4, <1>13
      <3> QED BY <1>7, <1>8, <1>9, <1>14, <3>1, <3>2
    <2>5. ASSUME NEW x \in S \ {n, up}, NEW e \in Side
          PROVE  Good(x, e)
      <3>1. CASE T.child[e][x] = n
        <4>1. R.child[e][x] = up /\ T.parent[n] = x
          BY <1>3, <1>15, <3>1
        <4>2. \A m \in sub[n] : m # x /\ Toward(m, x) = e
          BY <1>4, <3>1
        <4> QED BY <1>2, <1>7, <1>9, <1>14, <4>1, <4>2
      <3>2. CASE T.child[e][x] # n
        <4>1. T.child[e][x] # SENTINEL => T.parent[T.child[e][x]] = x
          BY <1>3, <1>4
        <4>2. /\ R.child[e][x] = T.child[e][x] /\ R.child[e][x] \in S \cup {SENTINEL}
              /\ sub2[R.child[e][x]] = sub[T.child[e][x]]
          BY <1>4, <1>15, <3>2
        <4>3. R.child[e][x] # SENTINEL => R.parent[R.child[e][x]] = x
          BY <1>7, <1>9, <1>15, <3>2, <4>1, <4>2
        <4> QED BY <1>4, <4>2, <4>3
      <3> QED BY <3>1, <3>2
    <2> HIDE DEF Good
    <2>6. \A x \in S, e \in Side : Good(x, e)
      BY <1>1, <2>1, <2>2, <2>3, <2>4, <2>5
    <2> QED BY <2>6 DEF Good
  <1>25. \A x \in S \ {R.root} : R.parent[x] \in S /\ \E e \in Side : R.child[e][R.parent[x]] = x
    <2> SUFFICES ASSUME NEW x \in S \ {R.root}
                 PROVE  R.parent[x] \in S /\ \E e \in Side : R.child[e][R.parent[x]] = x
      OBVIOUS
    <2>0. \A y \in S \ {T.root} : T.parent[y] \in S /\ \E e \in Side : T.child[e][T.parent[y]] = y
      BY DEF IsTree
    <2>1. CASE x = up
      <3>1. n # T.root
        BY <1>9, <2>1
      <3>2. T.parent[n] \in S /\ R.parent[x] = T.parent[n]
        BY <1>7, <1>9, <2>0, <2>1, <3>1
      <3>3. PICK e \in Side : T.child[e][T.parent[n]] = n
        BY <2>0, <3>1
      <3>4. T.parent[n] \notin {n, up}
        BY <1>1, <1>2, <1>3, <1>5, <3>2, <3>3
      <3> QED BY <1>15, <2>1, <3>2, <3>3, <3>4
    <2>2. CASE x = n
      BY <1>1, <1>2, <1>7, <1>9, <1>14, <2>2
    <2>3. CASE x = moved /\ x \notin {n, up}
      BY <1>1, <1>7, <1>9, <1>14, <2>3
    <2>4. CASE x \notin {n, up, moved}
      <3>1. x # T.root
        BY <1>9, <2>4
      <3>2. T.parent[x] \in S /\ R.parent[x] = T.parent[x]
        BY <1>7, <1>9, <2>0, <2>4, <3>1
      <3>3. PICK e \in Side : T.child[e][T.parent[x]] = x
        BY <2>0, <3>1
      <3>4. CASE T.parent[x] = n
        <4>1. e = d \/ e = o
          BY <1>1
        <4>2. x = keep
          BY <1>13, <2>4, <3>3, <3>4, <4>1
        <4> QED BY <1>14, <2>4, <3>2, <3>4, <4>2
      <3>5. CASE T.parent[x] = up
        BY <1>1, <1>13, <1>14, <2>4, <3>2, <3>3, <3>5, ZenonT(60)
      <3>6. CASE T.parent[x] \notin {n, up}
        BY <1>15, <2>4, <3>2, <3>3, <3>6
      <3> QED BY <3>4, <3>5, <3>6
    <2> QED BY <2>1, <2>2, <2>3, <2>4
  <1>26. \A x \in S : \A m \in sub2[x] :
           sub2[m] \subseteq sub2[x] /\ (m # x => R.parent[m] \in sub2[x])
    <2> SUFFICES ASSUME NEW x \in S, NEW m \in sub2[x]
                 PROVE  sub2[m] \subseteq sub2[x] /\ (m # x => R.parent[m] \in sub2[x])
      OBVIOUS
    <2>0. m \in S /\ m \in Places
      BY <1>7, <1>11
    <2>a. \A y \in S \ {n, up} : sub2[y] = sub[y]
      BY <1>7, <1>10
    <2>b. \A y \in S \ {n, up, moved} : R.parent[y] = T.parent[y]
      BY <1>7, <1>9
    <2>c. sub2[n] \subseteq sub[n]
      BY <1>14
    <2>d. /\ R.parent[up] = T.parent[n] /\ R.parent[n] = up
          /\ moved # SENTINEL => R.parent[moved] = n
      BY <1>2, <1>7, <1>8, <1>9
    <2>e. moved # SENTINEL => T.parent[moved] = up
      <3>1. d \in Side /\ up \in S /\ moved = T.child[d][up]
        BY <1>2, <1>13
      <3>2. T.child[d][up] \in S => T.parent[T.child[d][up]] = up
        BY <1>3, <3>1, ZenonT(60)
      <3>3. moved # SENTINEL => moved \in S
        BY <1>8
      <3> QED BY <3>1, <3>2, <3>3
    <2>1. CASE x = n
      <3>1. CASE m = n
        BY <2>1, <3>1
      <3>2. CASE m \in sub[keep]
        <4>1. keep \in S /\ m \notin {n, up} /\ m # moved
          <5>1. keep \in S
            BY <1>7, <1>8, <3>2
          <5>2. Toward(m, n) = d /\ m # n
            BY <1>1, <1>4, <1>13, <3>2
          <5>3. \A y \in sub[up] : Toward(y, n) = o
            BY <1>1, <1>4, <1>13
          <5>4. up \in sub[up] /\ (moved # SENTINEL => moved \in sub[up])
            BY <1>2, <1>5, <1>8, <1>14
          <5>5. m # SENTINEL
            BY <1>1, <2>0
          <5> QED BY <1>1, <5>1, <5>2, <5>3, <5>4, <5>5
        <4>2. sub[m] \subseteq sub[keep] /\ (m # keep => T.parent[m] \in sub[keep])
          BY <1>5, <3>2, <4>1
        <4>3. m = keep => T.parent[m] = n
          BY <1>1, <1>3, <1>13, <4>1
        <4> QED BY <1>14, <2>0, <2>1, <2>a, <2>b, <4>1, <4>2, <4>3
      <3>3. CASE m \in sub[moved]
        <4>1. moved \in S /\ m \notin {n, up}
          <5>1. moved \in S
            BY <1>7, <1>8, <3>3
          <5>2. up \notin sub[moved]
            BY <1>1, <1>2, <1>3, <1>13, <5>1
          <5> QED BY <1>2, <1>14, <3>3, <5>1, <5>2
        <4>2. sub[m] \subseteq sub[moved] /\ (m # moved => T.parent[m] \in sub[moved])
          BY <1>5, <3>3, <4>1
        <4>3. sub2[m] = sub[m]
          BY <2>0, <2>a, <4>1
        <4>4. R.parent[m] \in {n} \cup sub[moved]
          BY <1>1, <2>0, <2>b, <2>d, <4>1, <4>2
        <4> QED BY <1>14, <2>1, <4>2, <4>3, <4>4
      <3> QED BY <1>14, <2>1, <3>1, <3>2, <3>3
    <2>2. CASE x = up
      <3>1. sub2[x] = sub[n] /\ n \in sub[n] /\ up \in sub[n]
        BY <1>2, <1>5, <1>14, <2>2
      <3>2. sub[m] \subseteq sub[n] /\ (m # n => T.parent[m] \in sub[n])
        BY <1>5, <3>1
      <3>3. sub2[m] \subseteq sub[n]
        BY <1>14, <2>0, <2>a, <2>c, <3>2
      <3>4. m # up => R.parent[m] \in sub[n]
        BY <1>1, <2>0, <2>b, <2>d, <3>1, <3>2
      <3> QED BY <2>2, <3>1, <3>3, <3>4
    <2>3. CASE x \notin {n, up}
      <3>1. sub2[x] = sub[x]
        BY <2>3, <2>a
      <3>2. \A y \in sub[x] : sub[y] \subseteq sub[x] /\ (y # x => T.parent[y] \in sub[x])
        BY <1>5
      <3>3. up \in sub[x] => n \in sub[x]
        BY <1>2, <2>3, <3>2
      <3>4. moved # SENTINEL /\ moved \in sub[x] /\ moved # x => n \in sub[x]
        BY <2>e, <3>2, <3>3
      <3>5. n \in sub[x] => up \in sub[x]
        BY <1>2, <3>2
      <3>6. sub2[m] \subseteq sub[x]
        BY <1>14, <2>0, <2>a, <2>c, <3>1, <3>2, <3>3
      <3>7. m # x => R.parent[m] \in sub[x]
        BY <1>1, <2>0, <2>3, <2>b, <2>d, <3>1, <3>2, <3>3, <3>4, <3>5
      <3> QED BY <3>1, <3>6, <3>7
    <2> QED BY <2>1, <2>2, <2>3
  <1>27. \A x \in S : sub2[x] = {x} \cup sub2[R.child["left"][x]] \cup sub2[R.child["right"][x]]
    BY <1>1, <1>23 DEF Side, Other
  <1> QED BY <1>1, <1>9, <1>11, <1>20, <1>21, <1>22, <1>24, <1>25, <1>26, <1>27, ZenonT(60) DEF IsTree, R, sub2

\* Nothing is above the root after a rotation either.
LEMMA RotateRoot ==
    ASSUME NEW T, NEW S, NEW sub, IsTree(T, S, sub), RootHasNoParent(T),
           NEW n \in S, NEW d \in Side, T.child[Other(d)][n] # SENTINEL
    PROVE  RootHasNoParent(Rotate(T, n, d))
  <1>1. PICK up, moved : up = T.child[Other(d)][n] /\ moved = T.child[d][up]
    OBVIOUS
  <1>2. d \in Side /\ Other(d) \in Side /\ up # SENTINEL
    BY <1>1 DEF Side, Other
  <1>3. up \in S /\ up # T.root
    BY <1>1, <1>2, ChildFacts
  <1>4. moved # SENTINEL => moved # T.root
    BY <1>1, <1>2, <1>3, ChildFacts
  <1>5. T.root \in S /\ S \subseteq Places /\ T.root # SENTINEL
    BY RbTreeAssumption DEF IsTree, Places
  <1>6. /\ Rotate(T, n, d).root = IF n = T.root THEN up ELSE T.root
        /\ \A x \in Places : Rotate(T, n, d).parent[x] =
              IF x = up THEN T.parent[n]
              ELSE IF x = n THEN up
              ELSE IF x = moved /\ moved # SENTINEL THEN n ELSE T.parent[x]
    BY <1>1, RotateFields
  <1> QED BY <1>3, <1>4, <1>5, <1>6 DEF RootHasNoParent

-----------------------------------------------------------------------------
(* A new node *)

\* The fields that planting and attaching set.
LEMMA PlantFields ==
    ASSUME NEW T \in Trees, NEW n \in Nodes
    PROVE  /\ PlantRoot(T, n) \in Trees /\ PlantRoot(T, n).root = n
           /\ PlantRoot(T, n).parent = [T.parent EXCEPT ![n] = NULL]
  BY ZenonT(60) DEF Trees, Places, PlantRoot, Leaf

\* It has no children.
LEMMA PlantChild ==
    ASSUME NEW T \in Trees, NEW n \in Nodes, NEW e \in Side, NEW x \in Nodes
    PROVE  PlantRoot(T, n).child[e][x] = IF x = n THEN SENTINEL ELSE T.child[e][x]
  BY DEF Trees, Places, Side, PlantRoot, Leaf

\* The fields of a tree with a new leaf.
LEMMA AttachFields ==
    ASSUME NEW T \in Trees, NEW n \in Nodes, NEW p \in Nodes
    PROVE  /\ Attach(T, n, p) \in Trees /\ Attach(T, n, p).root = T.root
           /\ Attach(T, n, p).parent = [T.parent EXCEPT ![n] = p]
  <1>1. PICK d \in Side : d = Toward(n, p)
    BY DEF Toward, Side
  <1>2. PICK L : L = Leaf(T, n, p, TRUE)
    OBVIOUS
  <1>3. L \in Trees /\ L.root = T.root /\ L.parent = [T.parent EXCEPT ![n] = p]
    BY <1>2, ZenonT(60) DEF Trees, Places, Leaf
  <1>4. Attach(T, n, p) = WithChild(L, d, p, n)
    BY <1>1, <1>2 DEF Attach, WithChild
  <1> QED BY <1>3, <1>4, ChildSet DEF Places

\* Only its parent has the new leaf for a child.
LEMMA AttachChild ==
    ASSUME NEW T \in Trees, NEW n \in Nodes, NEW p \in Nodes, p # n,
           NEW e \in Side, NEW x \in Nodes
    PROVE  Attach(T, n, p).child[e][x] =
              IF x = n THEN SENTINEL ELSE IF x = p /\ e = Toward(n, p) THEN n ELSE T.child[e][x]
  <1>1. PICK d \in Side : d = Toward(n, p)
    BY DEF Toward, Side
  <1>2. PICK L : L = Leaf(T, n, p, TRUE)
    OBVIOUS
  <1>3. L \in Trees /\ L.child[e][x] = IF x = n THEN SENTINEL ELSE T.child[e][x]
    BY <1>2 DEF Trees, Places, Side, Leaf
  <1>4. Attach(T, n, p) = WithChild(L, d, p, n)
    BY <1>1, <1>2 DEF Attach, WithChild
  <1>5. n \in Places \cup {NULL}
    BY DEF Places
  <1>6. WithChild(L, d, p, n).child[e][x] = IF e = d /\ x = p THEN n ELSE L.child[e][x]
    BY <1>3, <1>5, ChildSet
  <1> QED BY <1>1, <1>3, <1>4, <1>6

\* The new root is black.
LEMMA PlantReds ==
    ASSUME NEW T \in Trees, NEW n \in Nodes, NEW x \in Places
    PROVE  PlantRoot(T, n).red[x] <=> (x # n /\ T.red[x])
  BY DEF PlantRoot, Leaf, Trees, Places

\* The new leaf is red.
LEMMA AttachReds ==
    ASSUME NEW T \in Trees, NEW n \in Nodes, NEW p \in Nodes, NEW x \in Places
    PROVE  Attach(T, n, p).red[x] <=> (x = n \/ T.red[x])
  BY SMTT(60) DEF Attach, Leaf, Trees, Places

\* The walk for h that is at cur has come down from above on the sides h goes to.
Path(T, S, sub, h, cur) ==
    \A m \in S : cur \in sub[m] => m = cur \/ cur \in sub[T.child[Toward(h, m)][m]]

\* The subtrees after h was attached under p: h is in those that p is in.
Attached(sub, h, p) ==
    [m \in Places |-> IF m = h THEN {h}
                      ELSE IF p \in sub[m] THEN sub[m] \cup {h} ELSE sub[m]]

\* A node put where the walk for it ends makes a search tree with one node more.
LEMMA AttachShape ==
    ASSUME NEW T, NEW S, NEW sub, IsTree(T, S, sub),
           NEW h \in Nodes \ S, NEW p \in S,
           T.child[Toward(h, p)][p] = SENTINEL, Path(T, S, sub, h, p), T.parent[T.root] # h
    PROVE  IsTree(Attach(T, h, p), S \cup {h}, Attached(sub, h, p))
  <1> DEFINE R == Attach(T, h, p)
             sub2 == Attached(sub, h, p)
             d == Toward(h, p)
  <1>1. /\ T \in Trees /\ S \subseteq Nodes /\ h \in Nodes /\ p \in Nodes /\ p # h
        /\ SENTINEL \notin Nodes /\ Nodes \subseteq Int
    BY RbTreeAssumption DEF IsTree
  <1>2. d \in Side
    BY DEF Toward, Side
  <1>3. /\ R \in Trees /\ R.root = T.root
        /\ R.parent = [T.parent EXCEPT ![h] = p]
        /\ \A e \in Side, x \in Nodes :
              R.child[e][x] = IF x = h THEN SENTINEL
                              ELSE IF x = p /\ e = d THEN h ELSE T.child[e][x]
    <2>1. R = Attach(T, h, p) /\ d = Toward(h, p)
      OBVIOUS
    <2> HIDE DEF R, d
    <2>2. R \in Trees /\ R.root = T.root /\ R.parent = [T.parent EXCEPT ![h] = p]
      BY <1>1, <2>1, AttachFields
    <2>3. \A e \in Side, x \in Nodes :
              R.child[e][x] = IF x = h THEN SENTINEL
                              ELSE IF x = p /\ e = d THEN h ELSE T.child[e][x]
      BY <1>1, <2>1, AttachChild
    <2> QED BY <2>2, <2>3
  <1>4. T.parent \in [Places -> Nodes \cup {NULL}] /\ T.root \in Places
    BY <1>1 DEF Trees
  <1>5. sub[SENTINEL] = {} /\ sub \in [Places -> SUBSET S] /\ S \subseteq Places /\ SENTINEL \in Places
    BY <1>1 DEF IsTree, Places
  <1>6. \A x \in Places : sub2[x] = IF x = h THEN {h}
                                   ELSE IF p \in sub[x] THEN sub[x] \cup {h} ELSE sub[x]
    BY DEF Attached
  <1>7. sub2 \in [Places -> SUBSET (S \cup {h})]
    BY <1>5 DEF Attached
  <1>8. \A x \in S : /\ sub[x] \subseteq S /\ x \in sub[x]
                     /\ \A m \in sub[x] : sub[m] \subseteq sub[x] /\ (m # x => T.parent[m] \in sub[x])
    BY <1>1 DEF IsTree, Places
  <1>9. \A e \in Side, x \in S :
            /\ T.child[e][x] \in S \cup {SENTINEL}
            /\ T.child[e][x] # SENTINEL => T.parent[T.child[e][x]] = x
            /\ \A m \in sub[T.child[e][x]] : m # x /\ Toward(m, x) = e
    BY DEF IsTree
  <1>10. \A x \in S : sub[x] = {x} \cup sub[T.child["left"][x]] \cup sub[T.child["right"][x]]
    BY DEF IsTree
  <1>11. T.child[d][p] = SENTINEL
    OBVIOUS
  <1>12. T.root \in S /\ T.parent[T.root] \notin S \cup {h} /\ sub[T.root] = S
    BY <1>1 DEF IsTree, Trees, Places
  <1>13. \A m \in S : p \in sub[m] => m = p \/ p \in sub[T.child[Toward(h, m)][m]]
    BY DEF Path
  <1>14. d = Toward(h, p)
    OBVIOUS
  <1> HIDE DEF R, sub2, d
  <1>20. S \cup {h} \subseteq Nodes /\ IsFiniteSet(S \cup {h})
    BY <1>1, FS_AddElement DEF IsTree
  <1>21. /\ sub2[R.root] = S \cup {h} /\ sub2[SENTINEL] = {}
         /\ R.root \in S \cup {h} /\ R.parent[R.root] \notin S \cup {h}
    <2>1. T.root # h /\ SENTINEL # h /\ p \in sub[T.root]
      BY <1>1, <1>12
    <2>2. sub2[T.root] = S \cup {h} /\ sub2[SENTINEL] = {}
      BY <1>4, <1>5, <1>6, <1>12, <2>1
    <2> QED BY <1>3, <1>4, <1>12, <2>1, <2>2
  <1>22. NoChildren(R, S \cup {h})
    <2>1. NoChildren(T, S)
      BY DEF IsTree
    <2> QED BY <1>1, <1>3, <2>1 DEF NoChildren
  <1>23. \A x \in S : /\ sub2[x] = IF p \in sub[x] THEN sub[x] \cup {h} ELSE sub[x]
                      /\ R.parent[x] = T.parent[x]
    BY <1>1, <1>3, <1>4, <1>5, <1>6
  <1>24. \A x \in S, e \in Side :
            IF x = p /\ e = d THEN R.child[e][x] = h
            ELSE /\ R.child[e][x] = T.child[e][x] /\ R.child[e][x] # h
                 /\ sub2[R.child[e][x]] =
                       IF p \in sub[T.child[e][x]] THEN sub[T.child[e][x]] \cup {h}
                       ELSE sub[T.child[e][x]]
    <2> SUFFICES ASSUME NEW x \in S, NEW e \in Side, ~(x = p /\ e = d)
                 PROVE /\ R.child[e][x] = T.child[e][x] /\ R.child[e][x] # h
                       /\ sub2[R.child[e][x]] =
                             IF p \in sub[T.child[e][x]] THEN sub[T.child[e][x]] \cup {h}
                             ELSE sub[T.child[e][x]]
      <3>1. R.child[d][p] = h
        BY <1>1, <1>2, <1>3
      <3> QED BY <3>1
    <2>1. R.child[e][x] = T.child[e][x]
      BY <1>1, <1>3
    <2>2. T.child[e][x] # h /\ T.child[e][x] \in Places
      <3>1. T.child[e][x] \in S \cup {SENTINEL} /\ h \notin S /\ h # SENTINEL
        BY <1>1, <1>9
      <3> QED BY <1>5, <3>1
    <2> QED BY <1>6, <2>1, <2>2
  <1>25. sub2[h] = {h} /\ R.parent[h] = p /\ \A e \in Side : R.child[e][h] = SENTINEL
    BY <1>1, <1>3, <1>4, <1>6 DEF Places
  <1>30. \A x \in S \cup {h} : sub2[x] = {x} \cup sub2[R.child["left"][x]] \cup sub2[R.child["right"][x]]
    <2> SUFFICES ASSUME NEW x \in S \cup {h}
                 PROVE  sub2[x] = {x} \cup sub2[R.child["left"][x]] \cup sub2[R.child["right"][x]]
      OBVIOUS
    <2>1. CASE x = h
      BY <1>21, <1>25, <2>1 DEF Side
    <2>2. CASE x = p
      <3>1. ASSUME NEW e \in Side, e # d PROVE sub2[R.child[e][p]] = sub[T.child[e][p]]
        BY <1>9, <1>24, <3>1
      <3>2. sub2[R.child[d][p]] = {h} /\ sub[T.child[d][p]] = {}
        BY <1>2, <1>5, <1>11, <1>24, <1>25
      <3>3. sub2[p] = sub[p] \cup {h}
        BY <1>8, <1>23
      <3> QED BY <1>2, <1>10, <2>2, <3>1, <3>2, <3>3 DEF Side
    <2>3. CASE x \in S /\ x # p
      <3>1. ASSUME NEW e \in Side
            PROVE  sub2[R.child[e][x]] = IF p \in sub[T.child[e][x]] THEN sub[T.child[e][x]] \cup {h}
                                         ELSE sub[T.child[e][x]]
        BY <1>24, <2>3
      <3>2. sub2[x] = IF p \in sub[x] THEN sub[x] \cup {h} ELSE sub[x]
        BY <1>23, <2>3
      <3> QED BY <1>10, <2>3, <3>1, <3>2 DEF Side
    <2> QED BY <2>1, <2>2, <2>3
  <1>31. \A x \in S \cup {h}, e \in Side :
           /\ R.child[e][x] \in S \cup {h} \cup {SENTINEL}
           /\ R.child[e][x] # SENTINEL => R.parent[R.child[e][x]] = x
           /\ \A m \in sub2[R.child[e][x]] : m # x /\ Toward(m, x) = e
    <2> SUFFICES ASSUME NEW x \in S \cup {h}, NEW e \in Side
                 PROVE  /\ R.child[e][x] \in S \cup {h} \cup {SENTINEL}
                        /\ R.child[e][x] # SENTINEL => R.parent[R.child[e][x]] = x
                        /\ \A m \in sub2[R.child[e][x]] : m # x /\ Toward(m, x) = e
      OBVIOUS
    <2>1. CASE x = h
      BY <1>21, <1>25, <2>1
    <2>2. CASE x = p /\ e = d
      BY <1>1, <1>14, <1>24, <1>25, <2>2, ZenonT(60)
    <2>3. CASE x \in S /\ ~(x = p /\ e = d)
      <3>1. /\ R.child[e][x] = T.child[e][x]
            /\ sub2[R.child[e][x]] \subseteq sub[T.child[e][x]] \cup {h}
            /\ h \in sub2[R.child[e][x]] => p \in sub[T.child[e][x]]
        <4>1. h \notin sub[T.child[e][x]]
          BY <1>1, <1>5, <1>8, <1>9, <2>3
        <4> QED BY <1>24, <2>3, <4>1
      <3>2. R.child[e][x] # SENTINEL => R.parent[R.child[e][x]] = x
        BY <1>9, <1>23, <2>3, <3>1, ZenonT(60)
      <3>3. h \in sub2[R.child[e][x]] => h # x /\ Toward(h, x) = e
        <4> SUFFICES ASSUME h \in sub2[R.child[e][x]] PROVE h # x /\ Toward(h, x) = e
          OBVIOUS
        <4>1. p \in sub[T.child[e][x]] /\ Toward(p, x) = e /\ p # x
          BY <1>9, <2>3, <3>1
        <4>2. p \in sub[x]
          BY <1>10, <2>3, <4>1 DEF Side
        <4>3. p \in sub[T.child[Toward(h, x)][x]] /\ Toward(h, x) \in Side
          BY <1>13, <2>3, <4>1, <4>2 DEF Toward, Side
        <4>4. Toward(p, x) = Toward(h, x)
          BY <1>9, <2>3, <4>3
        <4> QED BY <1>1, <2>3, <4>1, <4>4
      <3>4. \A m \in sub[T.child[e][x]] : m # x /\ Toward(m, x) = e
        BY <1>9, <2>3
      <3>5. R.child[e][x] \in S \cup {SENTINEL}
        BY <1>9, <2>3, <3>1
      <3> QED BY <3>1, <3>2, <3>3, <3>4, <3>5
    <2> QED BY <2>1, <2>2, <2>3
  <1>32. \A x \in (S \cup {h}) \ {R.root} :
            R.parent[x] \in S \cup {h} /\ \E e \in Side : R.child[e][R.parent[x]] = x
    <2> SUFFICES ASSUME NEW x \in (S \cup {h}) \ {R.root}
                 PROVE  R.parent[x] \in S \cup {h} /\ \E e \in Side : R.child[e][R.parent[x]] = x
      OBVIOUS
    <2>1. CASE x = h
      BY <1>2, <1>24, <1>25, <2>1
    <2>2. CASE x # h
      <3>1. x \in S \ {T.root} /\ R.parent[x] = T.parent[x]
        BY <1>3, <1>23, <2>2
      <3>2. T.parent[x] \in S /\ \E e \in Side : T.child[e][T.parent[x]] = x
        BY <3>1 DEF IsTree
      <3>3. PICK e \in Side : T.child[e][T.parent[x]] = x
        BY <3>2
      <3>4. R.child[e][T.parent[x]] = x
        <4>1. ~(T.parent[x] = p /\ e = d)
          BY <1>1, <1>11, <3>1, <3>3
        <4> QED BY <1>24, <3>2, <3>3, <4>1
      <3> QED BY <3>1, <3>2, <3>4
    <2> QED BY <2>1, <2>2
  <1>33. \A x \in S \cup {h} : \A m \in sub2[x] :
           sub2[m] \subseteq sub2[x] /\ (m # x => R.parent[m] \in sub2[x])
    <2> SUFFICES ASSUME NEW x \in S \cup {h}, NEW m \in sub2[x]
                 PROVE  sub2[m] \subseteq sub2[x] /\ (m # x => R.parent[m] \in sub2[x])
      OBVIOUS
    <2>1. CASE x = h
      BY <1>25, <2>1
    <2>2. CASE x \in S /\ m = h
      <3>1. p \in sub[x]
        BY <1>1, <1>8, <1>23, <2>2
      <3> QED BY <1>23, <1>25, <2>2, <3>1
    <2>3. CASE x \in S /\ m # h
      <3>1. m \in sub[x] /\ m \in S
        <4>1. sub2[x] \subseteq sub[x] \cup {h} /\ sub[x] \subseteq S
          BY <1>8, <1>23, <2>3
        <4> QED BY <2>3, <4>1
      <3>2. sub[m] \subseteq sub[x] /\ (m # x => R.parent[m] \in sub[x])
        BY <1>8, <1>23, <2>3, <3>1
      <3> QED BY <1>23, <2>3, <3>1, <3>2
    <2> QED BY <2>1, <2>2, <2>3
  <1> QED BY <1>3, <1>7, <1>20, <1>21, <1>22, <1>30, <1>31, <1>32, <1>33, ZenonT(60) DEF IsTree, R, sub2

\* The first node is a tree.
LEMMA PlantShape ==
    ASSUME NEW T, NEW sub, IsTree(T, {}, sub), NEW h \in Nodes
    PROVE  IsTree(PlantRoot(T, h), {h}, [x \in Places |-> IF x = h THEN {h} ELSE {}])
  <1> DEFINE R == PlantRoot(T, h)
             sub2 == [x \in Places |-> IF x = h THEN {h} ELSE {}]
  <1>1. /\ T \in Trees /\ SENTINEL \notin Nodes /\ h \in Places /\ SENTINEL \in Places
        /\ T.parent \in [Places -> Nodes \cup {NULL}]
        /\ \A e \in Side, x \in Nodes : T.child[e][x] \in {SENTINEL, NULL}
        /\ NULL \notin Nodes
    BY RbTreeAssumption DEF IsTree, NoChildren, Places, Trees
  <1>2. /\ R \in Trees /\ R.root = h
        /\ R.parent = [T.parent EXCEPT ![h] = NULL]
        /\ \A e \in Side, x \in Nodes : R.child[e][x] = IF x = h THEN SENTINEL ELSE T.child[e][x]
    <2> HIDE DEF R
    <2>1. R = PlantRoot(T, h)
      BY DEF R
    <2>2. R \in Trees /\ R.root = h /\ R.parent = [T.parent EXCEPT ![h] = NULL]
      BY <1>1, <2>1, PlantFields
    <2>3. \A e \in Side, x \in Nodes : R.child[e][x] = IF x = h THEN SENTINEL ELSE T.child[e][x]
      BY <1>1, <2>1, PlantChild
    <2> QED BY <2>2, <2>3
  <1>3. sub2 \in [Places -> SUBSET {h}] /\ sub2[h] = {h} /\ sub2[SENTINEL] = {}
    BY <1>1
  <1>4. IsFiniteSet({h})
    BY FS_Singleton
  <1>5. "left" \in Side /\ "right" \in Side
    BY DEF Side
  <1> HIDE DEF R, sub2
  <1>6. /\ R.root \in {h} /\ R.parent[R.root] \notin {h} /\ NoChildren(R, {h})
        /\ \A e \in Side : R.child[e][h] = SENTINEL
    BY <1>1, <1>2 DEF NoChildren
  <1> QED BY <1>1, <1>2, <1>3, <1>4, <1>5, <1>6 DEF IsTree, R, sub2

-----------------------------------------------------------------------------
(* A node less *)

\* R is T without s: what hung under s, at most one child, hangs where s did. Of a root
\* only the root field changes.
Spliced(T, S, s, temp, R) ==
    /\ R \in Trees /\ NoChildren(R, S \ {s})
    /\ R.root = IF s = T.root THEN temp ELSE T.root
    /\ \A x \in S \ {s}, e \in Side :
          R.child[e][x] = IF T.child[e][x] = s THEN temp ELSE T.child[e][x]
    /\ \A x \in S \ {s} :
          R.parent[x] = IF x = temp /\ s # T.root THEN T.parent[s] ELSE T.parent[x]

\* The subtrees lose a node.
Pruned(sub, s) == [x \in Places |-> sub[x] \ {s}]

ChildrenPruned(T, R, S, sub, s) ==
    \A x \in S \ {s}, e \in Side :
       Pruned(sub, s)[R.child[e][x]] = sub[T.child[e][x]] \ {s}

\* Without a node that has at most one child the tree is a search tree of the others.
LEMMA SpliceShape ==
    ASSUME NEW T, NEW S, NEW sub, IsTree(T, S, sub),
           NEW s \in S, NEW k \in Side, T.child[k][s] = SENTINEL,
           NEW R, Spliced(T, S, s, T.child[Other(k)][s], R)
    PROVE  IsTree(R, S \ {s}, Pruned(sub, s)) /\ ChildrenPruned(T, R, S, sub, s)
  <1>1. PICK temp : temp = T.child[Other(k)][s]
    OBVIOUS
  <1>2. PICK sub2 : sub2 = Pruned(sub, s)
    OBVIOUS
  <1>3. /\ S \subseteq Nodes /\ NULL \notin Nodes /\ SENTINEL \notin S /\ T \in Trees
        /\ SENTINEL \in Places /\ S \subseteq Places /\ IsFiniteSet(S \ {s})
        /\ Other(k) \in Side /\ \A e \in Side : e = k \/ e = Other(k)
    <2>1. IsFiniteSet(S \ {s})
      BY FS_RemoveElement DEF IsTree
    <2>2. Other(k) \in Side /\ \A e \in Side : e = k \/ e = Other(k)
      BY DEF Side, Other
    <2> QED BY <2>1, <2>2, RbTreeAssumption DEF IsTree, Places
  <1>4. /\ sub2 \in [Places -> SUBSET (S \ {s})]
        /\ \A x \in Places : sub2[x] = sub[x] \ {s}
    BY <1>2 DEF IsTree, Pruned
  <1>5. /\ R \in Trees /\ NoChildren(R, S \ {s})
        /\ R.root = IF s = T.root THEN temp ELSE T.root
        /\ \A x \in S \ {s}, e \in Side :
              R.child[e][x] = IF T.child[e][x] = s THEN temp ELSE T.child[e][x]
        /\ \A x \in S \ {s} :
              R.parent[x] = IF x = temp /\ s # T.root THEN T.parent[s] ELSE T.parent[x]
    BY <1>1 DEF Spliced
  <1>6. temp \in S \cup {SENTINEL}
    BY <1>1, <1>3 DEF IsTree
  <1>7. temp # SENTINEL => temp # s /\ temp # T.root /\ T.parent[temp] = s
    BY <1>1, <1>3, ChildFacts
  <1>8. sub[s] = {s} \cup sub[temp] /\ s \notin sub[temp]
    <2>1. sub[s] = {s} \cup sub[T.child["left"][s]] \cup sub[T.child["right"][s]] /\ sub[SENTINEL] = {}
      BY DEF IsTree
    <2>2. \A m \in sub[temp] : m # s
      BY <1>1, <1>3 DEF IsTree
    <2> QED BY <1>1, <1>3, <2>1, <2>2 DEF Side, Other
  <1>9. \A x \in S, e \in Side : T.child[e][x] \in S \cup {SENTINEL} /\ T.child[e][x] \in Places
    BY <1>3 DEF IsTree
  <1>10. ASSUME NEW x \in S \ {s}, NEW e \in Side
         PROVE  sub2[R.child[e][x]] = sub[T.child[e][x]] \ {s}
    <2>1. CASE T.child[e][x] = s
      <3>1. R.child[e][x] = temp /\ temp \in Places
        BY <1>3, <1>5, <1>6, <2>1
      <3> QED BY <1>4, <1>8, <2>1, <3>1
    <2>2. CASE T.child[e][x] # s
      <3>1. R.child[e][x] = T.child[e][x]
        BY <1>5, <2>2
      <3> QED BY <1>4, <1>9, <3>1
    <2> QED BY <2>1, <2>2
  <1>11. ASSUME NEW x \in S \ {T.root}, T.parent[x] = s
         PROVE  x = temp
    <2>1. PICK e \in Side : T.child[e][s] = x
      BY <1>11 DEF IsTree
    <2> QED BY <1>1, <1>3, <2>1
  <1>12. T.root \in S /\ T.parent[T.root] \notin S /\ sub[T.root] = S
    BY <1>3 DEF IsTree, Trees
  <1>13. sub2[R.root] = S \ {s} /\ sub2[SENTINEL] = {}
    <2>1. sub[SENTINEL] = {}
      BY DEF IsTree
    <2>2. CASE s = T.root
      BY <1>3, <1>4, <1>5, <1>6, <1>8, <1>12, <2>1, <2>2
    <2>3. CASE s # T.root
      BY <1>3, <1>4, <1>5, <1>12, <2>1, <2>3
    <2> QED BY <2>2, <2>3
  <1>14. R.root # SENTINEL => R.root \in S \ {s} /\ R.parent[R.root] \notin S \ {s}
    <2>1. CASE s = T.root
      BY <1>5, <1>6, <1>7, <2>1
    <2>2. CASE s # T.root
      BY <1>3, <1>5, <1>7, <1>12, <2>2
    <2> QED BY <2>1, <2>2
  <1>15. ASSUME NEW x \in S \ {s}
         PROVE  sub2[x] = {x} \cup sub2[R.child["left"][x]] \cup sub2[R.child["right"][x]]
    <2>1. sub[x] = {x} \cup sub[T.child["left"][x]] \cup sub[T.child["right"][x]]
      BY DEF IsTree
    <2>2. "left" \in Side /\ "right" \in Side
      BY DEF Side
    <2>3. sub2[R.child["left"][x]] = sub[T.child["left"][x]] \ {s}
      BY <1>10, <2>2
    <2>4. sub2[R.child["right"][x]] = sub[T.child["right"][x]] \ {s}
      BY <1>10, <2>2
    <2>5. sub2[x] = sub[x] \ {s}
      BY <1>3, <1>4
    <2> QED BY <2>1, <2>3, <2>4, <2>5
  <1>16. ASSUME NEW x \in S \ {s}, NEW e \in Side
         PROVE  /\ R.child[e][x] \in (S \ {s}) \cup {SENTINEL}
                /\ R.child[e][x] # SENTINEL => R.parent[R.child[e][x]] = x
                /\ \A m \in sub2[R.child[e][x]] : m # x /\ Toward(m, x) = e
    <2>1. \A m \in sub2[R.child[e][x]] : m # x /\ Toward(m, x) = e
      BY <1>10 DEF IsTree
    <2>2. T.child[e][x] # SENTINEL => T.parent[T.child[e][x]] = x /\ T.child[e][x] # T.root
      BY ChildFacts
    <2>3. CASE T.child[e][x] = s
      <3>1. R.child[e][x] = temp
        BY <1>5, <2>3
      <3> QED BY <1>3, <1>5, <1>6, <1>7, <2>1, <2>2, <2>3, <3>1
    <2>4. CASE T.child[e][x] # s
      <3>1. R.child[e][x] = T.child[e][x] /\ T.child[e][x] \in (S \ {s}) \cup {SENTINEL}
        BY <1>5, <1>9, <2>4
      <3>2. T.child[e][x] # SENTINEL => T.child[e][x] # temp
        BY <1>7, <2>2
      <3> QED BY <1>5, <2>1, <2>2, <3>1, <3>2
    <2> QED BY <2>3, <2>4
  <1>17. ASSUME NEW x \in (S \ {s}) \ {R.root}
         PROVE  R.parent[x] \in S \ {s} /\ \E e \in Side : R.child[e][R.parent[x]] = x
    <2>1. CASE x = temp
      <3>1. s # T.root
        BY <1>5, <2>1
      <3>2. PICK q, e : q = T.parent[s] /\ e = SideOf(T, s)
        OBVIOUS
      <3>3. q \in S /\ q # s /\ e \in Side /\ T.child[e][q] = s
        BY <3>1, <3>2, ParentFacts
      <3>4. R.parent[x] = q /\ R.child[e][q] = temp
        BY <1>5, <2>1, <3>1, <3>2, <3>3
      <3> QED BY <2>1, <3>3, <3>4
    <2>2. CASE x # temp
      <3>1. x \in S /\ x # T.root
        BY <1>5
      <3>2. PICK q, e : q = T.parent[x] /\ e = SideOf(T, x)
        OBVIOUS
      <3>3. q \in S /\ e \in Side /\ T.child[e][q] = x
        BY <3>1, <3>2, ParentFacts
      <3>4. q # s
        BY <1>11, <2>2, <3>1, <3>2
      <3>5. R.parent[x] = q /\ R.child[e][q] = x
        BY <1>5, <2>2, <3>2, <3>3, <3>4
      <3> QED BY <3>3, <3>4, <3>5
    <2> QED BY <2>1, <2>2
  <1>18. ASSUME NEW x \in S \ {s}, NEW m \in sub2[x]
         PROVE  sub2[m] \subseteq sub2[x] /\ (m # x => R.parent[m] \in sub2[x])
    <2>1. sub2[x] = sub[x] \ {s} /\ m \in sub[x] /\ m # s /\ sub[x] \subseteq S
      BY <1>3, <1>4 DEF IsTree
    <2>2. \A y \in sub[x] : sub[y] \subseteq sub[x] /\ (y # x => T.parent[y] \in sub[x])
      BY DEF IsTree
    <2>3. sub2[m] = sub[m] \ {s}
      BY <1>3, <1>4, <2>1
    <2>4. ASSUME m # x PROVE R.parent[m] \in sub[x] /\ R.parent[m] # s
      <3>1. m # T.root /\ T.parent[m] \in sub[x]
        BY <1>12, <2>1, <2>2, <2>4
      <3>2. CASE m = temp
        <4>1. T.parent[m] = s /\ s \in sub[x]
          BY <1>3, <1>7, <2>1, <3>1, <3>2
        <4>2. T.parent[s] \in sub[x]
          BY <2>2, <4>1
        <4>3. s # T.root
          BY <1>12, <2>1, <4>2
        <4>4. T.parent[s] # s
          BY <4>3, ParentFacts
        <4> QED BY <1>5, <2>1, <3>2, <4>2, <4>3, <4>4
      <3>3. CASE m # temp
        BY <1>5, <1>11, <2>1, <3>1, <3>3, SMTT(60)
      <3> QED BY <3>2, <3>3
    <2> QED BY <2>1, <2>2, <2>3, <2>4
  <1>19. IsTree(R, S \ {s}, sub2)
    BY <1>3, <1>4, <1>5, <1>13, <1>14, <1>15, <1>16, <1>17, <1>18, ZenonT(60) DEF IsTree
  <1> QED BY <1>2, <1>10, <1>19 DEF ChildrenPruned

-----------------------------------------------------------------------------
(* Colours *)

\* Black nodes are counted right and no red node is under a red one, except that
\* odd may be, or may be the root.
IsColored(T, S, bh, odd) ==
    /\ bh \in [Places -> Nat] /\ bh[SENTINEL] = 0 /\ ~T.red[SENTINEL]
    /\ \A n \in S, d \in Side :
          /\ bh[n] = bh[T.child[d][n]] + (IF T.red[n] THEN 0 ELSE 1)
          /\ T.red[n] /\ T.red[T.child[d][n]] => T.child[d][n] = odd
    /\ T.red[T.root] => T.root = odd

\* Colours are no part of the shape.
LEMMA SameShape ==
    ASSUME NEW T, NEW S, NEW sub, IsTree(T, S, sub),
           NEW R \in Trees, R.root = T.root, R.child = T.child, R.parent = T.parent
    PROVE  IsTree(R, S, sub)
  BY DEF IsTree, NoChildren

\* The first node is black, and one black node is on its path.
LEMMA PlantColors ==
    ASSUME NEW T \in Trees, NEW sub, IsTree(T, {}, sub), NEW h \in Nodes, ~T.red[SENTINEL], NEW odd
    PROVE  IsColored(PlantRoot(T, h), {h}, [x \in Places |-> IF x = h THEN 1 ELSE 0], odd)
  <1>1. T \in Trees /\ SENTINEL \notin Nodes /\ h \in Places /\ SENTINEL \in Places
    BY RbTreeAssumption DEF IsTree, Places
  <1> DEFINE R == PlantRoot(T, h)
             bh == [x \in Places |-> IF x = h THEN 1 ELSE 0]
  <1>2. /\ R.root = h /\ ~R.red[h] /\ ~R.red[SENTINEL]
        /\ \A e \in Side : R.child[e][h] = SENTINEL
    <2>1. R = PlantRoot(T, h)
      OBVIOUS
    <2> HIDE DEF R
    <2>2. R.root = h
      BY <1>1, <2>1, PlantFields
    <2>3. \A x \in Places : R.red[x] <=> (x # h /\ T.red[x])
      BY <1>1, <2>1, PlantReds
    <2>4. \A e \in Side, x \in Nodes :
               R.child[e][x] = IF x = h THEN SENTINEL ELSE T.child[e][x]
      BY <2>1, PlantChild
    <2> QED BY <1>1, <2>2, <2>3, <2>4
  <1>3. bh \in [Places -> Nat] /\ bh[h] = 1 /\ bh[SENTINEL] = 0
    BY <1>1
  <1> HIDE DEF R, bh
  <1> QED BY <1>2, <1>3 DEF IsColored, R, bh

\* A red leaf changes no black height: at worst it is red under its red parent.
LEMMA AttachColors ==
    ASSUME NEW T \in Trees, NEW S, NEW sub, IsTree(T, S, sub), NEW bh, IsColored(T, S, bh, NULL),
           NEW h \in Nodes \ S, NEW p \in S, T.child[Toward(h, p)][p] = SENTINEL
    PROVE  IsColored(Attach(T, h, p), S \cup {h}, [bh EXCEPT ![h] = 0], h)
  <1> DEFINE R == Attach(T, h, p)
             bh2 == [bh EXCEPT ![h] = 0]
  <1>0. PICK d : d = Toward(h, p)
    OBVIOUS
  <1>1. /\ T \in Trees /\ S \subseteq Nodes /\ h \in Nodes /\ p \in Nodes /\ p # h
        /\ SENTINEL \notin Nodes /\ NULL \notin Nodes /\ NULL # SENTINEL
    BY RbTreeAssumption DEF IsTree
  <1>2. /\ R.root = T.root
        /\ \A x \in Places : R.red[x] <=> (x = h \/ T.red[x])
        /\ \A e \in Side, x \in Nodes :
              R.child[e][x] = IF x = h THEN SENTINEL
                              ELSE IF x = p /\ e = d THEN h ELSE T.child[e][x]
    <2>1. R = Attach(T, h, p)
      OBVIOUS
    <2> HIDE DEF R
    <2>2. R.root = T.root
      BY <1>0, <1>1, <2>1, AttachFields, ZenonT(60)
    <2>3. \A x \in Places : R.red[x] <=> (x = h \/ T.red[x])
      BY <1>1, <2>1, AttachReds
    <2>4. \A e \in Side, x \in Nodes :
              R.child[e][x] = IF x = h THEN SENTINEL
                              ELSE IF x = p /\ e = d THEN h ELSE T.child[e][x]
      BY <1>0, <1>1, <2>1, AttachChild
    <2> QED BY <2>2, <2>3, <2>4
  <1>3. h \in Places /\ SENTINEL \in Places /\ S \subseteq Places /\ T.root \in S
        /\ \A x \in S, e \in Side : T.child[e][x] \in S \cup {SENTINEL}
    BY <1>1 DEF IsTree, Places, Trees
  <1>4. bh2 \in [Places -> Nat] /\ bh2[h] = 0 /\ \A x \in Places \ {h} : bh2[x] = bh[x]
    BY <1>3 DEF IsColored
  <1>5. T.child[d][p] = SENTINEL /\ bh[SENTINEL] = 0
    BY <1>0 DEF IsColored
  <1>6. ~T.red[SENTINEL] /\ ~T.red[T.root]
    BY <1>1, <1>3 DEF IsColored
  <1> HIDE DEF R, bh2
  <1>7. ASSUME NEW x \in S \cup {h}, NEW e \in Side
        PROVE  /\ bh2[x] = bh2[R.child[e][x]] + (IF R.red[x] THEN 0 ELSE 1)
               /\ R.red[x] /\ R.red[R.child[e][x]] => R.child[e][x] = h
    <2>1. CASE x = h
      <3>1. R.child[e][h] = SENTINEL /\ R.red[h] /\ ~R.red[SENTINEL]
        BY <1>1, <1>2, <1>3, <1>6
      <3>2. bh2[h] = 0 /\ bh2[SENTINEL] = 0
        BY <1>1, <1>3, <1>4, <1>5
      <3> QED BY <2>1, <3>1, <3>2
    <2>2. CASE x = p /\ e = d
      <3>1. R.child[e][x] = h /\ (R.red[p] <=> T.red[p]) /\ bh2[p] = bh[p]
        BY <1>1, <1>2, <1>3, <1>4, <2>2
      <3>2. bh[p] = bh[T.child[d][p]] + (IF T.red[p] THEN 0 ELSE 1)
        BY <2>2 DEF IsColored
      <3> QED BY <1>4, <1>5, <2>2, <3>1, <3>2
    <2>3. CASE x \in S /\ ~(x = p /\ e = d)
      <3>1. R.child[e][x] = T.child[e][x] /\ T.child[e][x] \in Places \ {h} /\ x \in Places \ {h}
        BY <1>1, <1>2, <1>3, <2>3
      <3>2. /\ bh[x] = bh[T.child[e][x]] + (IF T.red[x] THEN 0 ELSE 1)
            /\ T.red[x] /\ T.red[T.child[e][x]] => T.child[e][x] = NULL
        BY <2>3 DEF IsColored
      <3>3. T.child[e][x] # NULL
        BY <1>1, <3>1 DEF Places
      <3> QED BY <1>2, <1>4, <3>1, <3>2, <3>3
    <2> QED BY <2>1, <2>2, <2>3
  <1>8. bh2[SENTINEL] = 0 /\ ~R.red[SENTINEL] /\ ~R.red[R.root]
    BY <1>1, <1>2, <1>3, <1>4, <1>5, <1>6
  <1> QED BY <1>4, <1>7, <1>8 DEF IsColored, R, bh2

-----------------------------------------------------------------------------
(* The rounds of the rebalancing *)

\* A red node under a red one, in a tree that is right but for that: its parent
\* hangs on a black grandparent.
LEMMA FamilyFacts ==
    ASSUME NEW T \in Trees, NEW S, NEW sub, IsTree(T, S, sub),
           NEW n \in S, NEW bh, IsColored(T, S, bh, n), Unbalanced(T, n)
    PROVE  LET p == T.parent[n]
               g == T.parent[p]
               d == SideOf(T, p)
           IN  /\ p \in S /\ p # n /\ p # T.root /\ n # T.root /\ T.red[p]
               /\ g \in S /\ g # p /\ g # n /\ ~T.red[g]
               /\ d \in Side /\ T.child[d][g] = p
               /\ \E e \in Side : T.child[e][p] = n
  <1> DEFINE p == T.parent[n]
             g == T.parent[p]
             d == SideOf(T, p)
  <1>1. n # T.root /\ T.red[p]
    BY DEF Unbalanced
  <1>2. p \in S /\ p # n
    BY <1>1, ParentFacts
  <1>3. \E e \in Side : T.child[e][p] = n
    BY <1>1 DEF IsTree
  <1>4. p # T.root
    BY <1>1, <1>2 DEF IsColored
  <1>5. g \in S /\ g # p /\ d \in Side /\ T.child[d][g] = p
    BY <1>2, <1>4, ParentFacts
  <1>6. ~T.red[g]
    BY <1>1, <1>2, <1>5 DEF IsColored
  <1>7. g # n
    <2>0. SENTINEL \notin S
      BY RbTreeAssumption DEF IsTree
    <2>1. n \in sub[p] /\ p \in sub[g] /\ p # SENTINEL /\ n # SENTINEL
      <3>1. PICK e \in Side : T.child[e][p] = n
        BY <1>3
      <3>2. p # SENTINEL /\ n # SENTINEL
        BY <1>2, <2>0
      <3>3. n \in sub[p]
        BY <1>2, <3>1, <3>2, ChildFacts
      <3>4. p \in sub[g]
        BY <1>5, <3>2, ChildFacts
      <3> QED BY <3>2, <3>3, <3>4
    <2>2. g \notin sub[p]
      BY <1>5, <2>1, ChildFacts
    <2> QED BY <2>1, <2>2
  <1> QED BY <1>1, <1>2, <1>3, <1>4, <1>5, <1>6, <1>7

\* The grandparent turns red, two nodes black.
Repainted(T, p, u, g) == [T EXCEPT !.red[p] = FALSE, !.red[u] = FALSE, !.red[g] = TRUE]

\* Repainting leaves the shape and swaps three colours.
LEMMA RepaintedShape ==
    ASSUME NEW T \in Trees, NEW p \in Places, NEW u \in Places, NEW g \in Places
    PROVE  /\ Repainted(T, p, u, g) \in Trees /\ Repainted(T, p, u, g).root = T.root
           /\ Repainted(T, p, u, g).child = T.child /\ Repainted(T, p, u, g).parent = T.parent
  BY DEF Trees, Repainted

\* Who is red then.
LEMMA RepaintedReds ==
    ASSUME NEW T \in Trees, NEW p \in Places, NEW u \in Places, NEW g \in Places,
           NEW x \in Places
    PROVE  Repainted(T, p, u, g).red[x] <=> (x = g \/ (x # p /\ x # u /\ T.red[x]))
  BY DEF Trees, Repainted

\* A colour as a predicate.
IsRed(T, n) == T.red[n]

\* One round that only recolours.
LEMMA RecolorKeeps ==
    ASSUME NEW T \in Trees, NEW S, NEW sub, IsTree(T, S, sub),
           NEW n \in S, NEW bh, IsColored(T, S, bh, n), IsRed(T, n),
           Unbalanced(T, n), IsRed(T, Uncle(T, n))
    PROVE  /\ IsTree(Recolor(T, n), S, sub)
           /\ Recolor(T, n).root = T.root /\ Recolor(T, n).parent = T.parent
           /\ Grandparent(T, n) \in S /\ IsRed(Recolor(T, n), Grandparent(T, n))
           /\ \E bh2 : IsColored(Recolor(T, n), S, bh2, Grandparent(T, n))
  <1> DEFINE p == T.parent[n]
             g == T.parent[p]
             d == SideOf(T, p)
             o == Other(d)
             u == T.child[o][g]
             R == Recolor(T, n)
             bh2 == [x \in Places |-> IF x \in {p, u} THEN bh[x] + 1 ELSE bh[x]]
  <1>1. /\ p \in S /\ p # n /\ p # T.root /\ n # T.root /\ T.red[p]
        /\ g \in S /\ g # p /\ g # n /\ ~T.red[g]
        /\ d \in Side /\ T.child[d][g] = p
    BY FamilyFacts
  <1>2. S \subseteq Nodes /\ S \subseteq Places /\ SENTINEL \in Places /\ SENTINEL \notin S /\ T.root \in Places
    BY RbTreeAssumption DEF IsTree, Places, Trees
  <1>3. o \in Side /\ o # d /\ \A e \in Side : e = d \/ e = o
    BY <1>1 DEF Side, Other
  <1>4. T.red[u] /\ g = Grandparent(T, n) /\ u = Uncle(T, n)
    BY DEF Uncle, Grandparent, IsRed
  <1>5. \A e \in Side, x \in S :
           /\ T.child[e][x] \in S \cup {SENTINEL}
           /\ T.child[e][x] # SENTINEL => T.parent[T.child[e][x]] = x
    BY DEF IsTree
  <1>6. \A e \in Side, x \in S :
           /\ bh[x] = bh[T.child[e][x]] + (IF T.red[x] THEN 0 ELSE 1)
           /\ T.red[x] /\ T.red[T.child[e][x]] => T.child[e][x] = n
    BY DEF IsColored
  <1>7. bh \in [Places -> Nat] /\ bh[SENTINEL] = 0 /\ ~T.red[SENTINEL] /\ (T.red[T.root] => T.root = n)
    BY DEF IsColored
  <1>8. p = T.parent[n]
    OBVIOUS
  <1>9. u \in S /\ u # g /\ T.parent[u] = g /\ T.parent[p] = g /\ u = T.child[o][g]
    BY <1>1, <1>2, <1>3, <1>4, <1>5, <1>7
  <1>10. R = Repainted(T, p, u, g)
    <2>1. g = Grandparent(T, n) /\ u = Uncle(T, n) /\ p = T.parent[n]
      BY <1>4
    <2> HIDE DEF g, u, p
    <2> QED BY <2>1 DEF Recolor, Repainted
  <1>11. bh2 \in [Places -> Nat] /\ \A x \in Places : bh2[x] = IF x \in {p, u} THEN bh[x] + 1 ELSE bh[x]
    BY <1>7
  <1> HIDE DEF p, g, d, o, u, R, bh2
  <1>12. /\ R \in Trees /\ R.root = T.root /\ R.child = T.child /\ R.parent = T.parent
         /\ \A x \in Places : R.red[x] <=> (x = g \/ (x # p /\ x # u /\ T.red[x]))
    <2>1. p \in Places /\ g \in Places /\ u \in Places
      BY <1>1, <1>2, <1>9
    <2>2. R \in Trees /\ R.root = T.root /\ R.child = T.child /\ R.parent = T.parent
      BY <1>10, <2>1, RepaintedShape, ZenonT(60)
    <2>3. \A x \in Places : R.red[x] <=> (x = g \/ (x # p /\ x # u /\ T.red[x]))
      BY <1>10, <2>1, RepaintedReds
    <2> QED BY <2>2, <2>3
  <1>13. IsTree(R, S, sub)
    BY <1>12, SameShape
  <1>14. ASSUME NEW x \in S, NEW e \in Side
         PROVE  /\ bh2[x] = bh2[R.child[e][x]] + (IF R.red[x] THEN 0 ELSE 1)
                /\ R.red[x] /\ R.red[R.child[e][x]] => R.child[e][x] = g
    <2> DEFINE c == T.child[e][x]
    <2>1. /\ c \in S \cup {SENTINEL} /\ (c # SENTINEL => T.parent[c] = x)
          /\ bh[x] = bh[c] + (IF T.red[x] THEN 0 ELSE 1)
          /\ T.red[x] /\ T.red[c] => c = n
          /\ R.child[e][x] = c /\ x \in Places /\ c \in Places
      BY <1>2, <1>5, <1>6, <1>12
    <2>0. bh[x] \in Nat /\ bh[c] \in Nat
      BY <1>7, <2>1
    <2>2. c \in {p, u} <=> x = g
      <3>1. x = g => c \in {p, u}
        BY <1>1, <1>3, <1>9
      <3>2. c \in {p, u} => x = g
        BY <1>1, <1>2, <1>9, <2>1
      <3> QED BY <3>1, <3>2
    <2> HIDE DEF c
    <2>3. CASE x = g
      <3>1. R.red[x] /\ ~R.red[c] /\ x \notin {p, u}
        BY <1>1, <1>9, <1>12, <2>1, <2>2, <2>3
      <3> QED BY <1>1, <1>11, <2>0, <2>1, <2>2, <2>3, <3>1
    <2>4. CASE x \in {p, u}
      <3>1. ~R.red[x] /\ T.red[x] /\ c \notin {p, u}
        BY <1>1, <1>4, <1>9, <1>12, <2>1, <2>2, <2>4
      <3> QED BY <1>11, <2>0, <2>1, <2>4, <3>1
    <2>5. CASE x \notin {p, u, g}
      <3>1. (R.red[x] <=> T.red[x]) /\ c \notin {p, u}
        BY <1>12, <2>1, <2>2, <2>5
      <3>2. bh2[x] = bh[x] /\ bh2[c] = bh[c]
        BY <1>11, <2>1, <2>5, <3>1
      <3>3. R.red[x] /\ R.red[c] => c = g
        <4>1. c = n => x = p
          BY <1>2, <1>8, <2>1
        <4> QED BY <1>12, <2>1, <2>5, <3>1, <4>1
      <3> QED BY <2>1, <3>1, <3>2, <3>3
    <2> QED BY <2>3, <2>4, <2>5
  <1>15. bh2[SENTINEL] = 0 /\ ~R.red[SENTINEL] /\ (R.red[R.root] => R.root = g)
    BY <1>1, <1>2, <1>7, <1>9, <1>11, <1>12
  <1>16. IsColored(R, S, bh2, g)
    BY <1>11, <1>14, <1>15 DEF IsColored
  <1>17. R.red[g]
    BY <1>1, <1>2, <1>12
  <1> QED BY <1>1, <1>4, <1>12, <1>13, <1>16, <1>17 DEF R, IsRed

\* The root is painted black and nothing else.
LEMMA BlackenFields ==
    ASSUME NEW T \in Trees
    PROVE  /\ BlackenRoot(T) \in Trees /\ BlackenRoot(T).root = T.root
           /\ BlackenRoot(T).child = T.child /\ BlackenRoot(T).parent = T.parent
  BY DEF Trees, BlackenRoot

\* Who is red then.
LEMMA BlackenReds ==
    ASSUME NEW T \in Trees, NEW x \in Places
    PROVE  BlackenRoot(T).red[x] <=> (x # T.root /\ T.red[x])
  BY DEF Trees, BlackenRoot

\* The last round: without a red node under a red one only the root is left to do.
LEMMA BlackenKeeps ==
    ASSUME NEW T \in Trees, NEW S, NEW sub, IsTree(T, S, sub),
           NEW bh, NEW odd, IsColored(T, S, bh, odd),
           odd \in S => ~Unbalanced(T, odd)
    PROVE  /\ IsTree(BlackenRoot(T), S, sub)
           /\ \E bh2 : IsColored(BlackenRoot(T), S, bh2, NULL)
  <1> DEFINE R == BlackenRoot(T)
             bh2 == [x \in Places |-> IF x = T.root /\ T.red[x] THEN bh[x] + 1 ELSE bh[x]]
  <1>1. /\ R \in Trees /\ R.root = T.root /\ R.child = T.child /\ R.parent = T.parent
    BY BlackenFields
  <1>2. \A x \in Places : R.red[x] <=> (x # T.root /\ T.red[x])
    BY BlackenReds
  <1>3. S \subseteq Nodes /\ S \subseteq Places /\ SENTINEL \in Places /\ SENTINEL \notin S /\ T.root \in Places
    BY RbTreeAssumption DEF IsTree, Places, Trees
  <1>4. \A e \in Side, x \in S :
           /\ T.child[e][x] \in S \cup {SENTINEL}
           /\ bh[x] = bh[T.child[e][x]] + (IF T.red[x] THEN 0 ELSE 1)
           /\ T.red[x] /\ T.red[T.child[e][x]] => T.child[e][x] = odd
    BY DEF IsTree, IsColored
  <1>5. \A e \in Side, x \in S : T.child[e][x] # SENTINEL =>
           T.child[e][x] # T.root /\ T.parent[T.child[e][x]] = x
    BY ChildFacts
  <1>6. bh \in [Places -> Nat] /\ bh[SENTINEL] = 0 /\ ~T.red[SENTINEL] /\ (T.red[T.root] => T.root = odd)
    BY DEF IsColored
  <1>7. bh2 \in [Places -> Nat] /\ \A x \in Places : bh2[x] = IF x = T.root /\ T.red[x] THEN bh[x] + 1 ELSE bh[x]
    BY <1>6
  <1> HIDE DEF R, bh2
  <1>8. ASSUME NEW x \in S, NEW e \in Side
        PROVE  /\ bh2[x] = bh2[R.child[e][x]] + (IF R.red[x] THEN 0 ELSE 1)
               /\ R.red[x] /\ R.red[R.child[e][x]] => R.child[e][x] = NULL
    <2> DEFINE c == T.child[e][x]
    <2>1. /\ c \in S \cup {SENTINEL} /\ (c # SENTINEL => c # T.root /\ T.parent[c] = x)
          /\ bh[x] = bh[c] + (IF T.red[x] THEN 0 ELSE 1)
          /\ T.red[x] /\ T.red[c] => c = odd
          /\ R.child[e][x] = c /\ x \in Places /\ c \in Places
      BY <1>1, <1>3, <1>4, <1>5
    <2>2. bh[x] \in Nat /\ bh[c] \in Nat
      BY <1>6, <2>1
    <2> HIDE DEF c
    <2>3. bh2[c] = bh[c]
      BY <1>3, <1>6, <1>7, <2>1
    <2>4. bh2[x] = bh2[c] + (IF R.red[x] THEN 0 ELSE 1)
      BY <1>2, <1>7, <2>1, <2>2, <2>3
    <2>5. ~(R.red[x] /\ R.red[c])
      BY <1>2, <1>6, <2>1 DEF Unbalanced
    <2> QED BY <2>1, <2>4, <2>5
  <1>9. bh2[SENTINEL] = 0 /\ ~R.red[SENTINEL] /\ ~R.red[R.root]
    BY <1>1, <1>2, <1>3, <1>6, <1>7
  <1>10. IsColored(R, S, bh2, NULL)
    BY <1>7, <1>8, <1>9 DEF IsColored
  <1>11. IsTree(R, S, sub)
    BY <1>1, SameShape
  <1> QED BY <1>10, <1>11 DEF R

\* n hangs on side d of p and p on side d of g; n and p are red.
Bent(T, S, sub, bh, n, p, g, d) ==
    /\ IsTree(T, S, sub) /\ IsColored(T, S, bh, n)
    /\ n \in S /\ p \in S /\ g \in S /\ d \in Side
    /\ T.child[d][p] = n /\ T.child[d][g] = p
    /\ T.red[n] /\ T.red[p] /\ ~T.red[g] /\ ~T.red[T.child[Other(d)][g]]

\* p and g exchange their colours.
Swapped(T, p, g) == [T EXCEPT !.red[p] = FALSE, !.red[g] = TRUE]

\* Parent and grandparent swap their colours.
LEMMA SwappedShape ==
    ASSUME NEW T \in Trees, NEW p \in Places, NEW g \in Places
    PROVE  /\ Swapped(T, p, g) \in Trees /\ Swapped(T, p, g).root = T.root
           /\ Swapped(T, p, g).child = T.child /\ Swapped(T, p, g).parent = T.parent
  BY DEF Trees, Swapped

\* Who is red then.
LEMMA SwappedReds ==
    ASSUME NEW T \in Trees, NEW p \in Places, NEW g \in Places, NEW x \in Places
    PROVE  Swapped(T, p, g).red[x] <=> (x = g \/ (x # p /\ T.red[x]))
  BY DEF Trees, Swapped

\* The rotation at the grandparent, with the exchange of colours before it.
LEMMA OuterTurn ==
    ASSUME NEW T \in Trees, NEW S, NEW sub, NEW bh, NEW n, NEW p, NEW g, NEW d,
           Bent(T, S, sub, bh, n, p, g, d)
    PROVE  /\ \E sub2 : IsTree(Rotate(Swapped(T, p, g), g, Other(d)), S, sub2)
           /\ \E bh2 : IsColored(Rotate(Swapped(T, p, g), g, Other(d)), S, bh2, NULL)
           /\ RootHasNoParent(T) => RootHasNoParent(Rotate(Swapped(T, p, g), g, Other(d)))
  <1> DEFINE o == Other(d)
             u == T.child[o][g]
             w == T.child[o][p]
             T2 == Swapped(T, p, g)
             R == Rotate(T2, g, o)
             bh2 == [bh EXCEPT ![g] = bh[p], ![p] = bh[g]]
  <1>1. /\ IsTree(T, S, sub) /\ n \in S /\ p \in S /\ g \in S /\ d \in Side
        /\ T.child[d][p] = n /\ T.child[d][g] = p
        /\ T.red[n] /\ T.red[p] /\ ~T.red[g] /\ ~T.red[u]
    BY DEF Bent
  <1>2. S \subseteq Nodes /\ S \subseteq Places /\ SENTINEL \in Places /\ SENTINEL \notin S /\ T.root \in Places
    BY <1>1, RbTreeAssumption DEF IsTree, Places, Trees
  <1>3. o \in Side /\ o # d /\ Other(o) = d /\ \A e \in Side : e = d \/ e = o
    BY <1>1 DEF Side, Other
  <1>4. \A e \in Side, x \in S :
           /\ T.child[e][x] \in S \cup {SENTINEL}
           /\ bh[x] = bh[T.child[e][x]] + (IF T.red[x] THEN 0 ELSE 1)
           /\ T.red[x] /\ T.red[T.child[e][x]] => T.child[e][x] = n
    BY DEF IsTree, IsColored, Bent
  <1>5. \A e \in Side, x \in S : T.child[e][x] # SENTINEL =>
           /\ T.child[e][x] # T.root /\ T.child[e][x] # x
           /\ T.parent[T.child[e][x]] = x
           /\ T.child[Other(e)][x] # T.child[e][x]
    BY <1>1, ChildFacts
  <1>6. bh \in [Places -> Nat] /\ bh[SENTINEL] = 0 /\ ~T.red[SENTINEL] /\ (T.red[T.root] => T.root = n)
    BY DEF IsColored, Bent
  <1>7. T2 \in Trees /\ T2.root = T.root /\ T2.child = T.child /\ T2.parent = T.parent
    BY <1>1, <1>2, SwappedShape
  <1>8. \A x \in Places : T2.red[x] <=> (x = g \/ (x # p /\ T.red[x]))
    BY <1>1, <1>2, SwappedReds
  <1>9. u = T.child[o][g] /\ w = T.child[o][p] /\ o = Other(d) /\ T2.child[Other(o)][g] = p
    BY <1>1, <1>3, <1>7
  <1>10. bh2 \in [Places -> Nat] /\ \A x \in Places :
            bh2[x] = IF x = p THEN bh[g] ELSE IF x = g THEN bh[p] ELSE bh[x]
    BY <1>1, <1>2, <1>6
  <1> HIDE DEF o, u, w, T2, R, bh2
  <1>11. IsTree(T2, S, sub)
    BY <1>1, <1>7, SameShape
  <1>12. IsTree(R, S, Rotated(T2, sub, g, o))
    BY <1>1, <1>2, <1>3, <1>9, <1>11, RotateShape DEF R
  <1>13. /\ R \in Trees /\ R.red = T2.red
         /\ R.root = IF g = T.root THEN p ELSE T.root
         /\ \A e \in Side, x \in Nodes : R.child[e][x] =
                     IF x = g THEN IF e = o THEN T.child[e][x] ELSE w
                     ELSE IF x = p THEN IF e = o THEN g ELSE T.child[e][x]
                     ELSE IF T.child[e][x] = g THEN p ELSE T.child[e][x]
    <2>1. R = Rotate(T2, g, o) /\ p = T2.child[Other(o)][g] /\ w = T2.child[o][p]
      BY <1>7, <1>9 DEF R
    <2>2. p # SENTINEL /\ o \in Side /\ g \in S
      BY <1>1, <1>2, <1>3
    <2>3. /\ R \in Trees /\ R.red = T2.red
          /\ R.root = IF g = T2.root THEN p ELSE T2.root
          /\ \A e \in Side, x \in Nodes : R.child[e][x] =
                     IF x = g THEN IF e = o THEN T2.child[e][x] ELSE w
                     ELSE IF x = p THEN IF e = o THEN g ELSE T2.child[e][x]
                     ELSE IF T2.child[e][x] = g THEN p ELSE T2.child[e][x]
      BY <1>11, <2>1, <2>2, RotateFields
    <2> QED BY <1>7, <2>3
  <1>14. /\ p # g /\ n # p /\ n # g /\ p # T.root /\ n # T.root
         /\ u \in S \cup {SENTINEL} /\ u # g /\ u # p
         /\ w \in S \cup {SENTINEL} /\ w # g /\ w # p /\ w # n
    <2>1. p # g /\ n # p /\ p # T.root /\ n # T.root /\ T.parent[p] = g /\ T.parent[n] = p
      BY <1>1, <1>2, <1>5
    <2>2. n # g
      BY <1>1
    <2>3. u \in S \cup {SENTINEL} /\ (u # SENTINEL => u # g /\ u # p /\ T.parent[u] = g)
      BY <1>1, <1>2, <1>3, <1>4, <1>5, <1>9
    <2>4. w \in S \cup {SENTINEL} /\ (w # SENTINEL => w # n /\ w # p /\ T.parent[w] = p)
      BY <1>1, <1>2, <1>3, <1>4, <1>5, <1>9
    <2>5. w # g
      <3>1. w # SENTINEL => w \in sub[p]
        BY <1>1, <1>3, <1>9, ChildFacts
      <3>2. g \notin sub[p]
        BY <1>1, <1>2, ChildFacts
      <3> QED BY <1>1, <1>2, <3>1, <3>2
    <2> QED BY <1>1, <1>2, <2>1, <2>2, <2>3, <2>4, <2>5
  <1>15. bh[g] = bh[p] + 1 /\ bh[n] = bh[p] /\ bh[u] = bh[p] /\ bh[w] = bh[p] /\ ~T.red[w]
    <2>1. bh[g] \in Nat /\ bh[p] \in Nat /\ bh[n] \in Nat /\ bh[u] \in Nat /\ bh[w] \in Nat
      BY <1>1, <1>2, <1>6, <1>14
    <2>2. bh[g] = bh[p] + 1 /\ bh[g] = bh[u] + 1
      BY <1>1, <1>3, <1>4, <1>9
    <2>3. bh[p] = bh[n] + 0 /\ bh[p] = bh[w] + 0
      BY <1>1, <1>3, <1>4, <1>9
    <2>4. ~T.red[w]
      BY <1>1, <1>3, <1>4, <1>9, <1>14
    <2> QED BY <2>1, <2>2, <2>3, <2>4
  <1>16. ASSUME NEW x \in S, NEW e \in Side
         PROVE  /\ bh2[x] = bh2[R.child[e][x]] + (IF R.red[x] THEN 0 ELSE 1)
                /\ ~(R.red[x] /\ R.red[R.child[e][x]])
    <2>0. \A y \in S \cup {SENTINEL} : bh[y] \in Nat /\ (R.red[y] <=> (y = g \/ (y # p /\ T.red[y])))
      BY <1>2, <1>6, <1>8, <1>13
    <2>1. CASE x = g
      <3>1. R.child[e][x] \in {u, w} /\ R.red[g] /\ ~R.red[u] /\ ~R.red[w]
        BY <1>1, <1>2, <1>3, <1>9, <1>13, <1>14, <1>15, <2>0, <2>1
      <3>2. bh2[g] = bh[p] /\ bh2[u] = bh[u] /\ bh2[w] = bh[w]
        BY <1>1, <1>2, <1>10, <1>14
      <3> QED BY <1>1, <1>15, <2>0, <2>1, <3>1, <3>2
    <2>2. CASE x = p
      <3>1. R.child[e][x] \in {n, g} /\ ~R.red[p]
        BY <1>1, <1>2, <1>3, <1>9, <1>13, <1>14, <2>0, <2>2
      <3>2. bh2[p] = bh[g] /\ bh2[n] = bh[n] /\ bh2[g] = bh[p]
        BY <1>1, <1>2, <1>10, <1>14
      <3> QED BY <1>1, <1>15, <2>0, <2>2, <3>1, <3>2
    <2>3. CASE x \notin {g, p}
      <3>1. /\ bh[x] = bh[T.child[e][x]] + (IF T.red[x] THEN 0 ELSE 1)
            /\ T.red[x] /\ T.red[T.child[e][x]] => T.child[e][x] = n
            /\ T.child[e][x] \in S \cup {SENTINEL}
        BY <1>4
      <3>2. bh2[x] = bh[x] /\ (R.red[x] <=> T.red[x])
        BY <1>2, <1>10, <2>0, <2>3
      <3>3. CASE T.child[e][x] = g
        <4>1. R.child[e][x] = p /\ ~R.red[p] /\ bh2[p] = bh[g]
          BY <1>1, <1>2, <1>10, <1>13, <1>14, <2>0, <2>3, <3>3
        <4> QED BY <3>1, <3>2, <3>3, <4>1
      <3>4. CASE T.child[e][x] # g
        <4>1. R.child[e][x] = T.child[e][x]
          BY <1>2, <1>13, <2>3, <3>4
        <4>2. T.child[e][x] # p /\ T.child[e][x] # n
          BY <1>1, <1>2, <1>5, <2>3
        <4>3. bh2[T.child[e][x]] = bh[T.child[e][x]]
          BY <1>2, <1>10, <3>1, <3>4, <4>2
        <4> QED BY <2>0, <3>1, <3>2, <3>4, <4>1, <4>2, <4>3
      <3> QED BY <3>3, <3>4
    <2> QED BY <2>1, <2>2, <2>3
  <1>17. bh2[SENTINEL] = 0 /\ ~R.red[SENTINEL] /\ ~R.red[R.root]
    <2>1. bh2[SENTINEL] = 0 /\ ~R.red[SENTINEL]
      BY <1>1, <1>2, <1>6, <1>8, <1>10, <1>13
    <2>2. ~R.red[R.root]
      BY <1>1, <1>2, <1>6, <1>8, <1>13, <1>14
    <2> QED BY <2>1, <2>2
  <1>18. IsColored(R, S, bh2, NULL)
    BY <1>10, <1>16, <1>17 DEF IsColored
  <1>19. RootHasNoParent(T) => RootHasNoParent(R)
    <2>1. T2.child[Other(o)][g] # SENTINEL
      BY <1>1, <1>2, <1>9
    <2>2. RootHasNoParent(T) => RootHasNoParent(T2)
      BY <1>7 DEF RootHasNoParent
    <2> QED BY <1>1, <1>3, <1>11, <2>1, <2>2, RotateRoot DEF R
  <1> QED BY <1>12, <1>18, <1>19 DEF R, T2, o

\* n hangs on the other side of p.
Inner(T, S, sub, bh, n, p, g, d) ==
    /\ IsTree(T, S, sub) /\ IsColored(T, S, bh, n)
    /\ n \in S /\ p \in S /\ g \in S /\ d \in Side
    /\ T.child[Other(d)][p] = n /\ T.child[d][g] = p
    /\ T.red[n] /\ T.red[p] /\ ~T.red[g] /\ ~T.red[T.child[Other(d)][g]]

\* The rotation at the parent: n and p, both red, change places.
LEMMA InnerTurn ==
    ASSUME NEW T \in Trees, NEW S, NEW sub, NEW bh, NEW n, NEW p, NEW g, NEW d,
           Inner(T, S, sub, bh, n, p, g, d)
    PROVE  /\ Bent(Rotate(T, p, d), S, Rotated(T, sub, p, d), bh, p, n, g, d)
           /\ Rotate(T, p, d).parent[p] = n /\ Rotate(T, p, d).parent[n] = g
           /\ RootHasNoParent(T) => RootHasNoParent(Rotate(T, p, d))
  <1> DEFINE o == Other(d)
             u == T.child[o][g]
             k == T.child[d][p]
             w == T.child[d][n]
             R == Rotate(T, p, d)
  <1>1. /\ IsTree(T, S, sub) /\ n \in S /\ p \in S /\ g \in S /\ d \in Side
        /\ T.child[o][p] = n /\ T.child[d][g] = p
        /\ T.red[n] /\ T.red[p] /\ ~T.red[g] /\ ~T.red[u]
    BY DEF Inner
  <1>2. S \subseteq Nodes /\ S \subseteq Places /\ SENTINEL \in Places /\ SENTINEL \notin S /\ T.root \in Places
    BY <1>1, RbTreeAssumption DEF IsTree, Places, Trees
  <1>3. o \in Side /\ o # d /\ Other(o) = d /\ \A e \in Side : e = d \/ e = o
    BY <1>1 DEF Side, Other
  <1>4. \A e \in Side, x \in S :
           /\ T.child[e][x] \in S \cup {SENTINEL}
           /\ bh[x] = bh[T.child[e][x]] + (IF T.red[x] THEN 0 ELSE 1)
           /\ T.red[x] /\ T.red[T.child[e][x]] => T.child[e][x] = n
    BY DEF IsTree, IsColored, Inner
  <1>5. \A e \in Side, x \in S : T.child[e][x] # SENTINEL =>
           /\ T.child[e][x] # T.root /\ T.child[e][x] # x
           /\ T.parent[T.child[e][x]] = x
           /\ T.child[Other(e)][x] # T.child[e][x]
    BY <1>1, ChildFacts
  <1>6. bh \in [Places -> Nat] /\ bh[SENTINEL] = 0 /\ ~T.red[SENTINEL] /\ (T.red[T.root] => T.root = n)
    BY DEF IsColored, Inner
  <1>7. u = T.child[o][g] /\ w = T.child[d][n] /\ k = T.child[d][p] /\ o = Other(d)
    OBVIOUS
  <1> HIDE DEF o, u, w, k, R
  <1>8. IsTree(R, S, Rotated(T, sub, p, d))
    BY <1>1, <1>2, <1>7, RotateShape DEF R
  <1>9. /\ R \in Trees /\ R.red = T.red
        /\ R.root = IF p = T.root THEN n ELSE T.root
        /\ \A x \in Places : R.parent[x] =
                     IF x = n THEN T.parent[p]
                     ELSE IF x = p THEN n
                     ELSE IF x = w /\ w # SENTINEL THEN p ELSE T.parent[x]
        /\ \A e \in Side, x \in Nodes : R.child[e][x] =
                     IF x = p THEN IF e = d THEN T.child[e][x] ELSE w
                     ELSE IF x = n THEN IF e = d THEN p ELSE T.child[e][x]
                     ELSE IF T.child[e][x] = p THEN n ELSE T.child[e][x]
    <2>1. R = Rotate(T, p, d) /\ n = T.child[Other(d)][p] /\ w = T.child[d][n]
      BY <1>1, <1>7 DEF R
    <2>2. n # SENTINEL
      BY <1>1, <1>2
    <2> QED BY <1>1, <2>1, <2>2, RotateFields
  <1>10. /\ n # p /\ p # g /\ n # g /\ p # T.root /\ n # T.root /\ T.parent[p] = g /\ T.parent[n] = p
         /\ k # n /\ w # n /\ w # p /\ u # p /\ u # n /\ ~T.red[k] /\ ~T.red[w]
    <2>1. n # p /\ p # g /\ p # T.root /\ n # T.root /\ T.parent[p] = g /\ T.parent[n] = p
      BY <1>1, <1>2, <1>3, <1>5
    <2>2. n # g /\ u # n
      BY <1>1
    <2>3. k # n /\ ~T.red[k]
      BY <1>1, <1>2, <1>3, <1>4, <1>5, <1>7
    <2>4. w # n /\ ~T.red[w]
      BY <1>1, <1>2, <1>3, <1>4, <1>5, <1>7
    <2> QED BY <1>1, <2>1, <2>2, <2>3, <2>4
  <1>11. R.parent[p] = n /\ R.parent[n] = g
    BY <1>1, <1>2, <1>9, <1>10
  <1>12. /\ R.child[d][n] = p /\ R.child[o][n] = T.child[o][n]
         /\ R.child[d][p] = k /\ R.child[o][p] = w
         /\ R.child[d][g] = n /\ R.child[o][g] = u
    BY <1>1, <1>2, <1>3, <1>7, <1>9, <1>10
  <1>13. ASSUME NEW x \in S, NEW e \in Side
         PROVE  /\ bh[x] = bh[R.child[e][x]] + (IF R.red[x] THEN 0 ELSE 1)
                /\ R.red[x] /\ R.red[R.child[e][x]] => R.child[e][x] = p
    <2>0. bh[x] \in Nat /\ bh[n] \in Nat /\ bh[p] \in Nat /\ bh[T.child[e][x]] \in Nat
      BY <1>1, <1>2, <1>4, <1>6
    <2>1. bh[n] = bh[p] /\ bh[w] = bh[p] /\ bh[k] = bh[p]
      <3>1. bh[p] = bh[n] + 0 /\ bh[p] = bh[k] + 0 /\ bh[n] = bh[w] + 0
        BY <1>1, <1>3, <1>4, <1>7
      <3>2. bh[k] \in Nat /\ bh[w] \in Nat
        BY <1>1, <1>2, <1>4, <1>6, <1>7
      <3> QED BY <2>0, <3>1, <3>2
    <2>2. CASE x = p
      <3>1. R.child[e][x] \in {k, w}
        BY <1>3, <1>12, <2>2
      <3> QED BY <1>1, <1>9, <1>10, <2>0, <2>1, <2>2, <3>1
    <2>3. CASE x = n /\ e = d
      BY <1>1, <1>9, <1>12, <2>0, <2>1, <2>3
    <2>4. CASE x = n /\ e # d
      <3>1. R.child[e][x] = T.child[e][x]
        BY <1>3, <1>12, <2>4
      <3>2. T.child[e][x] # n
        BY <1>1, <1>2, <1>5, <2>4
      <3> QED BY <1>4, <1>9, <2>4, <3>1, <3>2
    <2>5. CASE x \notin {n, p} /\ T.child[e][x] = p
      <3>1. R.child[e][x] = n /\ x = g
        BY <1>1, <1>2, <1>5, <1>9, <1>10, <2>5
      <3> QED BY <1>1, <1>4, <1>9, <2>0, <2>1, <2>5, <3>1
    <2>6. CASE x \notin {n, p} /\ T.child[e][x] # p
      <3>1. R.child[e][x] = T.child[e][x]
        BY <1>2, <1>9, <2>6
      <3>2. T.child[e][x] # n
        BY <1>1, <1>2, <1>5, <1>10, <2>6
      <3> QED BY <1>4, <1>9, <3>1, <3>2
    <2> QED BY <2>2, <2>3, <2>4, <2>5, <2>6
  <1>14. R.root = T.root /\ ~R.red[R.root] /\ ~R.red[SENTINEL]
    BY <1>6, <1>9, <1>10
  <1>15. IsColored(R, S, bh, p)
    BY <1>6, <1>13, <1>14 DEF IsColored
  <1>16. Bent(R, S, Rotated(T, sub, p, d), bh, p, n, g, d)
    BY <1>1, <1>7, <1>8, <1>9, <1>12, <1>15 DEF Bent
  <1>17. RootHasNoParent(T) => RootHasNoParent(R)
    BY <1>1, <1>2, <1>7, RotateRoot DEF R
  <1> QED BY <1>11, <1>16, <1>17 DEF R

\* The last rotations of an insertion.
LEMMA StraightenKeeps ==
    ASSUME NEW T \in Trees, NEW S, NEW sub, IsTree(T, S, sub),
           NEW n \in S, NEW bh, IsColored(T, S, bh, n), IsRed(T, n),
           Unbalanced(T, n), ~IsRed(T, Uncle(T, n))
    PROVE  /\ \E sub2 : IsTree(Straighten(T, n), S, sub2)
           /\ \E bh2 : IsColored(Straighten(T, n), S, bh2, NULL)
           /\ RootHasNoParent(T) => RootHasNoParent(Straighten(T, n))
  <1> DEFINE p == T.parent[n]
             g == T.parent[p]
             d == SideOf(T, p)
             o == Other(d)
             T1 == IF n = T.child[o][p] THEN Rotate(T, p, d) ELSE T
             n1 == IF n = T.child[o][p] THEN p ELSE n
             p1 == IF n = T.child[o][p] THEN n ELSE p
  <1>1. /\ p \in S /\ p # n /\ p # T.root /\ n # T.root /\ T.red[p]
        /\ g \in S /\ g # p /\ g # n /\ ~T.red[g]
        /\ d \in Side /\ T.child[d][g] = p
        /\ \E e \in Side : T.child[e][p] = n
    BY FamilyFacts
  <1>2. T.red[n] /\ ~T.red[T.child[o][g]]
    BY ZenonT(60) DEF IsRed, Uncle, Grandparent
  <1>3. p = T.parent[n] /\ g = T.parent[p] /\ d = SideOf(T, p) /\ o = Other(d)
    OBVIOUS
  <1> HIDE DEF p, g, d, o
  <1>4. /\ \E sub2 : Bent(T1, S, sub2, bh, n1, p1, g, d)
        /\ T1.parent[n1] = p1 /\ T1.parent[p1] = g /\ T1 \in Trees
        /\ RootHasNoParent(T) => RootHasNoParent(T1)
    <2>1. CASE n = T.child[o][p]
      <3>1. Inner(T, S, sub, bh, n, p, g, d)
        BY <1>1, <1>2, <1>3, <2>1, ZenonT(60) DEF Inner
      <3>2. T1 = Rotate(T, p, d) /\ n1 = p /\ p1 = n
        BY <2>1
      <3> HIDE DEF T1, n1, p1
      <3>3. Bent(T1, S, Rotated(T, sub, p, d), bh, n1, p1, g, d)
        BY <3>1, <3>2, InnerTurn
      <3>4. T1.parent[n1] = p1 /\ T1.parent[p1] = g
        BY <3>1, <3>2, InnerTurn
      <3>5. T1 \in Trees
        BY <3>3 DEF Bent, IsTree
      <3>6. RootHasNoParent(T) => RootHasNoParent(T1)
        BY <3>1, <3>2, InnerTurn
      <3> QED BY <3>3, <3>4, <3>5, <3>6
    <2>2. CASE n # T.child[o][p]
      <3>1. T.child[d][p] = n
        BY <1>1, <1>3, <2>2 DEF Side, Other
      <3>2. T1 = T /\ n1 = n /\ p1 = p
        BY <2>2, SMTT(60)
      <3> HIDE DEF T1, n1, p1
      <3>3. Bent(T, S, sub, bh, n, p, g, d)
        BY <1>1, <1>2, <1>3, <3>1, ZenonT(60) DEF Bent
      <3> QED BY <1>3, <3>2, <3>3
    <2> QED BY <2>1, <2>2
  <1>5. PICK sub1 : Bent(T1, S, sub1, bh, n1, p1, g, d)
    BY <1>4
  <1>6. Straighten(T, n) = Rotate(Swapped(T1, p1, g), g, o)
    <2>1. T1 = (IF n = T.child[o][p] THEN Rotate(T, p, d) ELSE T) /\ n1 = IF n = T.child[o][p] THEN p ELSE n
      OBVIOUS
    <2> HIDE DEF T1, n1, p1
    <2>2. Grandparent(T1, n1) = g
      BY <1>4 DEF Grandparent
    <2>3. p1 \in Places /\ g \in Places
      BY <1>5 DEF Bent, IsTree, Places
    <2>4. Grandparent(Swapped(T1, p1, g), n1) = g
      BY <1>4, <2>3, SwappedShape DEF Grandparent
    <2>5. Swapped(T1, p1, g) = [T1 EXCEPT !.red[T1.parent[n1]] = FALSE, !.red[Grandparent(T1, n1)] = TRUE]
      BY <1>4, <2>2 DEF Swapped
    <2> QED BY <1>3, <2>1, <2>4, <2>5, ZenonT(60) DEF Straighten
  <1> HIDE DEF T1, n1, p1
  <1> QED BY <1>3, <1>4, <1>5, <1>6, OuterTurn

-----------------------------------------------------------------------------
(* What the walks over a tree compute *)

\* The order of the natural numbers is well founded.
Before == {ss \in Nat \X Nat : ss[1] < ss[2]}

\* Numbers do not go down for ever.
LEMMA BeforeIsWellFounded == IsWellFoundedOn(Before, Nat)
  BY NatLessThanWellFounded DEF Before, OpToRel

\* A set of natural numbers has a least member.
LEMMA LeastNatural ==
    ASSUME NEW S \in SUBSET Nat, S # {}
    PROVE  \E x \in S : \A y \in S : x <= y
  <1>1. \E x \in S : \A y \in S : ~(<<y, x>> \in Before)
    BY BeforeIsWellFounded, WFMin
  <1>2. \A x, y \in Nat : ~(<<y, x>> \in Before) => x <= y
    BY DEF Before
  <1> QED BY <1>1, <1>2

\* Of some nodes of a tree one is lowest: induction over the tree, for a set of
\* counterexamples.
LEMMA LowestNode ==
    ASSUME NEW T, NEW S, NEW sub, IsTree(T, S, sub),
           NEW Bad \in SUBSET S, Bad # {}
    PROVE  \E m \in Bad : \A d \in Side : sub[T.child[d][m]] \cap Bad = {}
  <1> DEFINE B == {sub[m] : m \in Bad}
  <1>1. /\ S \subseteq Nodes /\ sub \in [Places -> SUBSET S] /\ IsFiniteSet(S) /\ S \subseteq Places
    BY DEF IsTree, Places
  <1>2. B \subseteq FiniteSubsetsOf(S) /\ B # {}
    <2>1. \A m \in Bad : sub[m] \in SUBSET S /\ IsFiniteSet(sub[m])
      BY <1>1, FS_Subset
    <2> QED BY <2>1 DEF FiniteSubsetsOf
  <1>3. IsWellFoundedOn(StrictSubsetOrdering(S), FiniteSubsetsOf(S))
    BY FS_StrictSubsetOrderingWellFounded
  <1>4. PICK b \in B : \A c \in B : ~(<<c, b>> \in StrictSubsetOrdering(S))
    <2> HIDE DEF B
    <2> QED BY <1>2, <1>3, WFMin
  <1>5. PICK m \in Bad : b = sub[m]
    OBVIOUS
  <1>6. ASSUME NEW d \in Side, NEW x \in sub[T.child[d][m]], x \in Bad
        PROVE  FALSE
    <2>1. T.child[d][m] \in S /\ m \notin sub[T.child[d][m]] /\ x \in sub[m]
      <3>1. T.child[d][m] \in S \cup {SENTINEL} /\ sub[SENTINEL] = {}
        BY DEF IsTree
      <3>2. \A y \in sub[T.child[d][m]] : y # m
        BY DEF IsTree
      <3>3. sub[m] = {m} \cup sub[T.child["left"][m]] \cup sub[T.child["right"][m]]
        BY DEF IsTree
      <3> QED BY <1>6, <3>1, <3>2, <3>3 DEF Side
    <2>2. sub[x] \subseteq sub[T.child[d][m]] /\ sub[x] \subseteq sub[m]
      BY <2>1 DEF IsTree
    <2>3. m \in sub[m]
      BY DEF IsTree
    <2>4. sub[x] # sub[m] /\ sub[x] \in SUBSET S /\ sub[m] \in SUBSET S
      BY <1>1, <1>6, <2>1, <2>2, <2>3
    <2>5. <<sub[x], sub[m]>> \in StrictSubsetOrdering(S)
      BY <2>2, <2>4 DEF StrictSubsetOrdering
    <2> QED BY <1>4, <1>5, <1>6, <2>5
  <1> QED BY <1>6

\* Below is the subtree.
LEMMA BelowIsSub ==
    ASSUME NEW T, NEW S, NEW sub, IsTree(T, S, sub), NEW n \in S \cup {SENTINEL}
    PROVE  Below(T, n) = sub[n]
  <1> DEFINE Eq(h) == h = [m \in Places \cup {NULL} |->
                             IF m \notin Nodes THEN {}
                             ELSE {m} \cup h[T.child["left"][m]] \cup h[T.child["right"][m]]]
             f == CHOOSE h : Eq(h)
             f0 == [m \in Places \cup {NULL} |->
                      IF m \notin Nodes THEN {} ELSE IF m \in S THEN sub[m] ELSE {m}]
  <1>1. Below(T, n) = f[n]
    BY DEF Below
  <1>2. /\ S \subseteq Nodes /\ SENTINEL \notin Nodes /\ sub[SENTINEL] = {}
        /\ Nodes \subseteq Places /\ SENTINEL \in Places /\ NULL \notin Nodes
        /\ \A m \in Nodes \ S, d \in Side : T.child[d][m] \in {SENTINEL, NULL}
        /\ \A m \in S, d \in Side : T.child[d][m] \in S \cup {SENTINEL}
        /\ \A m \in S : sub[m] = {m} \cup sub[T.child["left"][m]] \cup sub[T.child["right"][m]]
        /\ "left" \in Side /\ "right" \in Side
    BY RbTreeAssumption DEF IsTree, NoChildren, Side, Places
  <1>3. Eq(f0)
    <2>1. ASSUME NEW m \in Places \cup {NULL}
          PROVE  f0[m] = IF m \notin Nodes THEN {}
                         ELSE {m} \cup f0[T.child["left"][m]] \cup f0[T.child["right"][m]]
      <3>1. CASE m \notin Nodes
        BY <3>1
      <3>2. ASSUME NEW d \in Side, m \in Nodes
            PROVE  f0[T.child[d][m]] = IF m \in S THEN sub[T.child[d][m]] ELSE {}
        <4>1. PICK c : c = T.child[d][m]
          OBVIOUS
        <4>2. m \in S => c \in S \cup {SENTINEL}
          BY <1>2, <4>1
        <4>3. m \notin S => c \in {SENTINEL, NULL}
          BY <1>2, <3>2, <4>1
        <4>4. \A x \in S : f0[x] = sub[x]
          BY <1>2
        <4>5. f0[SENTINEL] = {} /\ f0[NULL] = {}
          BY <1>2
        <4> HIDE DEF f0
        <4> QED BY <1>2, <4>1, <4>2, <4>3, <4>4, <4>5
      <3>3. CASE m \in Nodes
        <4>1. f0[m] = IF m \in S THEN sub[m] ELSE {m}
          BY <3>3
        <4> HIDE DEF f0
        <4> QED BY <1>2, <3>2, <3>3, <4>1
      <3> QED BY <3>1, <3>3
    <2>2. f0 = [m \in Places \cup {NULL} |-> f0[m]]
      OBVIOUS
    <2> HIDE DEF f0
    <2> QED BY <2>1, <2>2, Zenon
  <1>4. Eq(f)
    BY <1>3, ZenonT(60)
  <1>5. f[SENTINEL] = {} /\ \A m \in S : f[m] = {m} \cup f[T.child["left"][m]] \cup f[T.child["right"][m]]
    <2> HIDE DEF f
    <2> QED BY <1>2, <1>4, ZenonT(60)
  <1> HIDE DEF f
  <1>6. {m \in S : f[m] # sub[m]} = {}
    <2> DEFINE Bad == {m \in S : f[m] # sub[m]}
    <2> SUFFICES ASSUME Bad # {} PROVE FALSE
      OBVIOUS
    <2>1. Bad \in SUBSET S
      OBVIOUS
    <2>2. PICK m \in Bad : \A d \in Side : sub[T.child[d][m]] \cap Bad = {}
      <3> HIDE DEF Bad
      <3> QED BY <2>1, LowestNode
    <2>3. ASSUME NEW d \in Side PROVE f[T.child[d][m]] = sub[T.child[d][m]]
      <3>1. T.child[d][m] \in S => T.child[d][m] \in sub[T.child[d][m]]
        BY DEF IsTree
      <3> QED BY <1>2, <1>5, <2>2, <3>1
    <2>4. f[T.child["left"][m]] = sub[T.child["left"][m]] /\ f[T.child["right"][m]] = sub[T.child["right"][m]]
      BY <1>2, <2>3
    <2>5. m \in S /\ f[m] # sub[m]
      OBVIOUS
    <2>6. f[m] = {m} \cup f[T.child["left"][m]] \cup f[T.child["right"][m]]
      BY <1>5, <2>5
    <2>7. sub[m] = {m} \cup sub[T.child["left"][m]] \cup sub[T.child["right"][m]]
      BY <1>2, <2>5
    <2> QED BY <2>4, <2>5, <2>6, <2>7
  <1> QED BY <1>1, <1>2, <1>5, <1>6

\* The black nodes of a colouring are those BlackHeight counts.
LEMMA BlackHeightIs ==
    ASSUME NEW T, NEW S, NEW sub, IsTree(T, S, sub), NEW bh, NEW odd, IsColored(T, S, bh, odd),
           NEW n \in S \cup {SENTINEL}
    PROVE  BlackHeight(T, n) = bh[n]
  <1> DEFINE Eq(h) == h = [m \in Places \cup {NULL} |->
                             IF m \notin Nodes THEN 0
                             ELSE h[T.child["left"][m]] + (IF T.red[m] THEN 0 ELSE 1)]
             f == CHOOSE h : Eq(h)
             f0 == [m \in Places \cup {NULL} |->
                      IF m \notin Nodes THEN 0 ELSE IF m \in S THEN bh[m]
                      ELSE IF T.red[m] THEN 0 ELSE 1]
  <1>1. BlackHeight(T, n) = f[n]
    BY DEF BlackHeight
  <1>2. /\ S \subseteq Nodes /\ SENTINEL \notin Nodes /\ bh[SENTINEL] = 0
        /\ Nodes \subseteq Places /\ SENTINEL \in Places /\ NULL \notin Nodes
        /\ \A m \in Nodes \ S, d \in Side : T.child[d][m] \in {SENTINEL, NULL}
        /\ \A m \in S, d \in Side : T.child[d][m] \in S \cup {SENTINEL}
        /\ \A m \in S : bh[m] = bh[T.child["left"][m]] + (IF T.red[m] THEN 0 ELSE 1)
        /\ "left" \in Side /\ "right" \in Side
    BY RbTreeAssumption DEF IsTree, NoChildren, IsColored, Side, Places
  <1>3. Eq(f0)
    <2>1. ASSUME NEW m \in Places \cup {NULL}
          PROVE  f0[m] = IF m \notin Nodes THEN 0
                         ELSE f0[T.child["left"][m]] + (IF T.red[m] THEN 0 ELSE 1)
      <3>1. CASE m \notin Nodes
        BY <3>1
      <3>2. CASE m \in S
        <4>1. f0[T.child["left"][m]] = bh[T.child["left"][m]] /\ f0[m] = bh[m] /\ m \in Nodes
          <5>1. T.child["left"][m] \in S \cup {SENTINEL} /\ m \in Nodes
            BY <1>2, <3>2
          <5>2. \A x \in S \cup {SENTINEL} : f0[x] = bh[x]
            BY <1>2
          <5> HIDE DEF f0
          <5> QED BY <5>1, <5>2, <3>2
        <4> HIDE DEF f0
        <4> QED BY <1>2, <3>2, <4>1
      <3>3. CASE m \in Nodes \ S
        <4>1. T.child["left"][m] \in {SENTINEL, NULL} /\ m \in Nodes
          BY <1>2, <3>3
        <4>2. f0[SENTINEL] = 0 /\ f0[NULL] = 0
          BY <1>2
        <4>3. f0[m] = IF T.red[m] THEN 0 ELSE 1
          BY <1>2, <3>3
        <4> HIDE DEF f0
        <4> QED BY <4>1, <4>2, <4>3
      <3> QED BY <3>1, <3>2, <3>3
    <2>2. f0 = [m \in Places \cup {NULL} |-> f0[m]]
      BY SMTT(60)
    <2> HIDE DEF f0
    <2> QED BY <2>1, <2>2, Zenon
  <1>4. Eq(f)
    BY <1>3, ZenonT(60)
  <1>5. f[SENTINEL] = 0 /\ \A m \in S : f[m] = f[T.child["left"][m]] + (IF T.red[m] THEN 0 ELSE 1)
    <2> HIDE DEF f
    <2> QED BY <1>2, <1>4
  <1> HIDE DEF f
  <1>6. {m \in S : f[m] # bh[m]} = {}
    <2> DEFINE Bad == {m \in S : f[m] # bh[m]}
    <2> SUFFICES ASSUME Bad # {} PROVE FALSE
      OBVIOUS
    <2>1. Bad \in SUBSET S
      OBVIOUS
    <2>2. PICK m \in Bad : \A d \in Side : sub[T.child[d][m]] \cap Bad = {}
      <3> HIDE DEF Bad
      <3> QED BY <2>1, LowestNode
    <2>3. f[T.child["left"][m]] = bh[T.child["left"][m]]
      <3>1. T.child["left"][m] \in S => T.child["left"][m] \in sub[T.child["left"][m]]
        BY DEF IsTree
      <3> QED BY <1>2, <1>5, <2>2, <3>1
    <2>4. m \in S /\ f[m] # bh[m]
      OBVIOUS
    <2>5. f[m] = f[T.child["left"][m]] + (IF T.red[m] THEN 0 ELSE 1)
      BY <1>5, <2>4
    <2>6. bh[m] = bh[T.child["left"][m]] + (IF T.red[m] THEN 0 ELSE 1)
      BY <1>2, <2>4
    <2> QED BY <2>3, <2>4, <2>5, <2>6
  <1> QED BY <1>1, <1>2, <1>5, <1>6

\* The nodes a walk over the tree meets are its nodes.
LEMMA MembersAre ==
    ASSUME NEW T, NEW S, NEW sub, IsTree(T, S, sub)
    PROVE  Members(T) = S
  <1>1. T.root \in S \cup {SENTINEL} /\ sub[T.root] = S
    BY DEF IsTree
  <1> QED BY <1>1, BelowIsSub DEF Members

\* A tree of this shape is a search tree.
LEMMA TreeIsSearchTree ==
    ASSUME NEW T, NEW S, NEW sub, IsTree(T, S, sub)
    PROVE  IsSearchTree(T)
  <1>1. Members(T) = S
    BY MembersAre
  <1>2. ASSUME NEW n \in S, NEW d \in Side
        PROVE  /\ T.child[d][n] # SENTINEL => T.parent[T.child[d][n]] = n
               /\ \A m \in Below(T, T.child[d][n]) : m # n /\ Toward(m, n) = d
    <2>1. T.child[d][n] \in S \cup {SENTINEL}
      BY DEF IsTree
    <2>2. Below(T, T.child[d][n]) = sub[T.child[d][n]]
      BY <2>1, BelowIsSub
    <2> QED BY <2>2 DEF IsTree
  <1> QED BY <1>1, <1>2 DEF IsSearchTree

\* A colouring without an exception is a red-black one.
LEMMA ColoredIsRedBlack ==
    ASSUME NEW T, NEW S, NEW sub, IsTree(T, S, sub), NEW bh, IsColored(T, S, bh, NULL)
    PROVE  IsRedBlack(T)
  <1>1. Members(T) = S
    BY MembersAre
  <1>2. /\ NULL \notin S \cup {SENTINEL} /\ T.root \in S \cup {SENTINEL}
        /\ \A n \in S, d \in Side : T.child[d][n] \in S \cup {SENTINEL}
        /\ "left" \in Side /\ "right" \in Side
    BY RbTreeAssumption DEF IsTree, Side
  <1>3. ~T.red[T.root] /\ ~T.red[SENTINEL]
    BY <1>2 DEF IsColored
  <1>4. ASSUME NEW n \in S, NEW d \in Side, T.red[n]
        PROVE  ~T.red[T.child[d][n]]
    BY <1>2, <1>4 DEF IsColored
  <1>5. ASSUME NEW n \in S
        PROVE  BlackHeight(T, T.child["left"][n]) = BlackHeight(T, T.child["right"][n])
    <2>1. T.child["left"][n] \in S \cup {SENTINEL} /\ T.child["right"][n] \in S \cup {SENTINEL}
      BY <1>2
    <2>2. /\ BlackHeight(T, T.child["left"][n]) = bh[T.child["left"][n]]
          /\ BlackHeight(T, T.child["right"][n]) = bh[T.child["right"][n]]
      BY <2>1, BlackHeightIs
    <2>3. bh[T.child["left"][n]] \in Nat /\ bh[T.child["right"][n]] \in Nat
      BY <2>1 DEF IsColored, IsTree, Places
    <2>4. /\ bh[n] = bh[T.child["left"][n]] + (IF T.red[n] THEN 0 ELSE 1)
          /\ bh[n] = bh[T.child["right"][n]] + (IF T.red[n] THEN 0 ELSE 1)
      BY <1>2 DEF IsColored
    <2> QED BY <2>2, <2>3, <2>4
  <1> QED BY <1>1, <1>3, <1>4, <1>5 DEF IsRedBlack

-----------------------------------------------------------------------------
(* The rounds of the rebalancing after a deletion *)

\* One black node too few below p on side d, where x is: red or not, x is the only node
\* that may be wrong about its colour.
IsShort(T, S, bh, x, p, d) ==
    /\ bh \in [Places -> Nat] /\ bh[SENTINEL] = 0 /\ ~T.red[SENTINEL] /\ ~T.red[T.root]
    /\ p \in S /\ d \in Side /\ T.child[d][p] = x /\ T.parent[x] = p
    /\ \A n \in S, e \in Side :
          /\ bh[n] = bh[T.child[e][n]] + (IF n = p /\ e = d THEN 1 ELSE 0)
                       + (IF T.red[n] THEN 0 ELSE 1)
          /\ T.red[n] /\ T.red[T.child[e][n]] => x \in {n, T.child[e][n]}

\* The sibling of x is a node of the tree, for there are black nodes below it.
LEMMA ShortFacts ==
    ASSUME NEW T, NEW S, NEW sub, IsTree(T, S, sub),
           NEW bh, NEW x, NEW p, NEW d, IsShort(T, S, bh, x, p, d)
    PROVE  /\ x \in S \cup {SENTINEL} /\ x \in Places /\ x # T.root /\ x # p /\ x # NULL
           /\ T.parent[x] = p /\ T.child[d][p] = x /\ p \in S /\ d \in Side
           /\ SideOf(T, x) = d
           /\ T.child[Other(d)][p] \in S /\ T.child[Other(d)][p] # x
           /\ bh[T.child[Other(d)][p]] = bh[x] + 1
  <1> DEFINE o == Other(d)
             w == T.child[o][p]
  <1>1. /\ p \in S /\ d \in Side /\ T.child[d][p] = x /\ T.parent[x] = p
        /\ bh \in [Places -> Nat] /\ bh[SENTINEL] = 0
    BY DEF IsShort
  <1>2. o \in Side /\ o # d
    BY <1>1 DEF Side, Other
  <1>3. /\ S \subseteq Places /\ SENTINEL \in Places /\ SENTINEL \notin S /\ NULL \notin Places
        /\ T.root \in Places
    BY RbTreeAssumption DEF IsTree, Places, Trees
  <1>4. x \in S \cup {SENTINEL} /\ w \in S \cup {SENTINEL}
    BY <1>1, <1>2 DEF IsTree
  <1>5. /\ bh[p] = bh[x] + 1 + (IF T.red[p] THEN 0 ELSE 1)
        /\ bh[p] = bh[w] + 0 + (IF T.red[p] THEN 0 ELSE 1)
    BY <1>1, <1>2 DEF IsShort
  <1>6. bh[x] \in Nat /\ bh[w] \in Nat
    BY <1>1, <1>3, <1>4
  <1>7. bh[w] = bh[x] + 1
    BY <1>5, <1>6
  <1>8. w \in S /\ w # x
    BY <1>1, <1>4, <1>6, <1>7
  <1>9. SideOf(T, x) = d
    BY <1>1, <1>8 DEF SideOf, Side, Other
  <1>10. x # T.root /\ x # p
    <2>1. x # SENTINEL => x # T.root /\ x # p
      BY <1>1, ChildFacts
    <2>2. T.root \in S
      BY <1>1, <1>3 DEF IsTree
    <2> QED BY <1>1, <1>3, <2>1, <2>2
  <1> QED BY <1>1, <1>3, <1>4, <1>7, <1>8, <1>9, <1>10

\* A black node g and its red child up change places and colours, g going down to side f.
Turned(T, R, S, sub, bh, x, p, d, g, f, up) ==
    /\ IsTree(R, S, Rotated(Swapped(T, up, g), sub, g, f))
    /\ IsShort(R, S, [bh EXCEPT ![g] = bh[up], ![up] = bh[g]], x, p, d)
    /\ \A n \in Places : R.red[n] <=> (n = g \/ (n # up /\ T.red[n]))
    /\ R.child[f][up] = g
    /\ \A e \in Side, n \in S \ {g, up} :
          R.child[e][n] = IF T.child[e][n] = g THEN up ELSE T.child[e][n]

\* It does not change what is lacking.
LEMMA ShortTurn ==
    ASSUME NEW T \in Trees, NEW S, NEW sub, IsTree(T, S, sub),
           NEW bh, NEW x, NEW p, NEW d, IsShort(T, S, bh, x, p, d), ~T.red[x],
           NEW g \in S, g # x, NEW f \in Side, g = p => f = d,
           NEW up, up = T.child[Other(f)][g], T.red[up], up # p, ~T.red[T.child[f][g]]
    PROVE  Turned(T, Rotate(Swapped(T, up, g), g, f), S, sub, bh, x, p, d, g, f, up)
  <1> DEFINE o == Other(f)
             k == T.child[f][g]
             A == T.child[f][up]
             B == T.child[o][up]
             T2 == Swapped(T, up, g)
             R == Rotate(T2, g, f)
             bh2 == [bh EXCEPT ![g] = bh[up], ![up] = bh[g]]
  <1>1. S \subseteq Nodes /\ S \subseteq Places /\ SENTINEL \in Places /\ SENTINEL \notin S /\ T.root \in Places
    BY RbTreeAssumption DEF IsTree, Places, Trees
  <1>2. o \in Side /\ o # f /\ Other(o) = f /\ \A e \in Side : e = f \/ e = o
    BY DEF Side, Other
  <1>3. \A e \in Side, n \in S :
           /\ T.child[e][n] \in S \cup {SENTINEL}
           /\ bh[n] = bh[T.child[e][n]] + (IF n = p /\ e = d THEN 1 ELSE 0)
                        + (IF T.red[n] THEN 0 ELSE 1)
           /\ ~(T.red[n] /\ T.red[T.child[e][n]])
    BY DEF IsTree, IsShort
  <1>4. \A e \in Side, n \in S : T.child[e][n] # SENTINEL =>
           /\ T.child[e][n] # T.root /\ T.child[e][n] # n
           /\ T.parent[T.child[e][n]] = n
           /\ T.child[Other(e)][n] # T.child[e][n]
    BY ChildFacts
  <1>5. bh \in [Places -> Nat] /\ bh[SENTINEL] = 0 /\ ~T.red[SENTINEL] /\ ~T.red[T.root]
        /\ p \in S /\ d \in Side /\ T.child[d][p] = x /\ T.parent[x] = p
    BY DEF IsShort
  <1>6. o = Other(f) /\ up = T.child[o][g] /\ k = T.child[f][g] /\ A = T.child[f][up] /\ B = T.child[o][up]
    OBVIOUS
  <1>7. up \in S /\ up # g /\ up # T.root /\ T.parent[up] = g /\ up # k /\ ~T.red[g] /\ up # x
    <2>1. up \in S /\ up # SENTINEL
      BY <1>1, <1>2, <1>3, <1>5, <1>6
    <2> QED BY <1>2, <1>3, <1>4, <1>6, <2>1
  <1>8. T2 \in Trees /\ T2.root = T.root /\ T2.child = T.child /\ T2.parent = T.parent
    BY <1>1, <1>7, SwappedShape
  <1>9. \A n \in Places : T2.red[n] <=> (n = g \/ (n # up /\ T.red[n]))
    BY <1>1, <1>7, SwappedReds
  <1>10. bh2 \in [Places -> Nat] /\ \A n \in Places :
            bh2[n] = IF n = up THEN bh[g] ELSE IF n = g THEN bh[up] ELSE bh[n]
    BY <1>1, <1>5, <1>7
  <1> HIDE DEF o, k, A, B, T2, R, bh2
  <1>11. IsTree(T2, S, sub)
    BY <1>8, SameShape
  <1>12. IsTree(R, S, Rotated(T2, sub, g, f))
    BY <1>1, <1>6, <1>7, <1>8, <1>11, RotateShape DEF R
  <1>13. /\ R \in Trees /\ R.red = T2.red
         /\ R.root = IF g = T.root THEN up ELSE T.root
         /\ \A n \in Places : R.parent[n] =
                     IF n = up THEN T.parent[g]
                     ELSE IF n = g THEN up
                     ELSE IF n = A /\ A # SENTINEL THEN g ELSE T.parent[n]
         /\ \A e \in Side, n \in Nodes : R.child[e][n] =
                     IF n = g THEN IF e = f THEN T.child[e][n] ELSE A
                     ELSE IF n = up THEN IF e = f THEN g ELSE T.child[e][n]
                     ELSE IF T.child[e][n] = g THEN up ELSE T.child[e][n]
    <2>1. R = Rotate(T2, g, f) /\ up = T2.child[Other(f)][g] /\ A = T2.child[f][up] /\ up # SENTINEL
      BY <1>1, <1>6, <1>7, <1>8 DEF R
    <2>0. T2.child[Other(f)][g] # SENTINEL
      BY <2>1
    <2>2. /\ R \in Trees /\ R.red = T2.red
          /\ R.root = IF g = T2.root THEN up ELSE T2.root
          /\ \A n \in Places : R.parent[n] =
                      IF n = up THEN T2.parent[g]
                      ELSE IF n = g THEN up
                      ELSE IF n = A /\ A # SENTINEL THEN g ELSE T2.parent[n]
          /\ \A e \in Side, n \in Nodes : R.child[e][n] =
                      IF n = g THEN IF e = f THEN T2.child[e][n] ELSE A
                      ELSE IF n = up THEN IF e = f THEN g ELSE T2.child[e][n]
                      ELSE IF T2.child[e][n] = g THEN up ELSE T2.child[e][n]
      BY <1>11, <2>0, <2>1, RotateFields
    <2>3. \A n \in Places : R.parent[n] =
                     IF n = up THEN T.parent[g]
                     ELSE IF n = g THEN up
                     ELSE IF n = A /\ A # SENTINEL THEN g ELSE T.parent[n]
      BY <1>8, <2>2
    <2>4. \A e \in Side, n \in Nodes : R.child[e][n] =
                     IF n = g THEN IF e = f THEN T.child[e][n] ELSE A
                     ELSE IF n = up THEN IF e = f THEN g ELSE T.child[e][n]
                     ELSE IF T.child[e][n] = g THEN up ELSE T.child[e][n]
      BY <1>8, <2>2
    <2> QED BY <1>8, <2>2, <2>3, <2>4
  <1>14. /\ k \in S \cup {SENTINEL} /\ k # g /\ k # up /\ ~T.red[k]
         /\ A \in S \cup {SENTINEL} /\ A # g /\ A # up /\ ~T.red[A]
         /\ B \in S \cup {SENTINEL} /\ B # g /\ B # up /\ ~T.red[B]
    <2>1. k \in S \cup {SENTINEL} /\ A \in S \cup {SENTINEL} /\ B \in S \cup {SENTINEL}
      BY <1>2, <1>3, <1>6, <1>7
    <2>2. ~T.red[k] /\ ~T.red[A] /\ ~T.red[B]
      BY <1>2, <1>3, <1>6, <1>7
    <2>3. k # g /\ A # up /\ B # up /\ k # up
      BY <1>1, <1>2, <1>4, <1>6, <1>7
    <2>4. A # g /\ B # g
      <3>1. \A e \in Side, n \in S : T.child[e][n] # SENTINEL => T.child[e][n] \in sub[n]
        BY ChildFacts
      <3>2. g \notin sub[up] /\ up # SENTINEL
        BY <1>1, <1>2, <1>6, <1>7, ChildFacts
      <3> QED BY <1>1, <1>2, <1>6, <1>7, <3>1, <3>2
    <2> QED BY <2>1, <2>2, <2>3, <2>4
  <1>15. bh[g] = bh[up] + 1 /\ bh[A] = bh[up] /\ bh[B] = bh[up]
         /\ bh[k] + (IF g = p THEN 1 ELSE 0) = bh[up]
    <2>1. bh[g] \in Nat /\ bh[up] \in Nat /\ bh[k] \in Nat /\ bh[A] \in Nat /\ bh[B] \in Nat
      BY <1>1, <1>5, <1>7, <1>14
    <2>2. bh[g] = bh[up] + 0 + 1
      BY <1>2, <1>3, <1>6, <1>7
    <2>3. bh[up] = bh[A] + 0 + 0 /\ bh[up] = bh[B] + 0 + 0
      BY <1>2, <1>3, <1>6, <1>7
    <2>4. bh[g] = bh[k] + (IF g = p THEN 1 ELSE 0) + 1
      BY <1>2, <1>3, <1>6, <1>7
    <2> QED BY <2>1, <2>2, <2>3, <2>4
  <1>16. \A n \in S \cup {SENTINEL} : bh[n] \in Nat /\ (R.red[n] <=> (n = g \/ (n # up /\ T.red[n])))
    BY <1>1, <1>5, <1>9, <1>13
  <1>17. ASSUME NEW n \in S, NEW e \in Side
         PROVE  /\ bh2[n] = bh2[R.child[e][n]] + (IF n = p /\ e = d THEN 1 ELSE 0)
                              + (IF R.red[n] THEN 0 ELSE 1)
                /\ ~(R.red[n] /\ R.red[R.child[e][n]])
    <2>1. CASE n = g
      <3>0. R.red[g] /\ bh2[g] = bh[up] /\ bh2[k] = bh[k] /\ bh2[A] = bh[A] /\ ~R.red[k] /\ ~R.red[A]
        BY <1>1, <1>7, <1>10, <1>14, <1>16
      <3>1. CASE e = f
        <4>1. R.child[e][n] = k /\ (n = p /\ e = d <=> g = p)
          BY <1>1, <1>6, <1>13, <2>1, <3>1
        <4> QED BY <1>1, <1>14, <1>15, <1>16, <2>1, <3>0, <4>1
      <3>2. CASE e = o
        <4>1. R.child[e][n] = A /\ ~(n = p /\ e = d)
          BY <1>1, <1>2, <1>13, <2>1, <3>2, SMTT(60)
        <4> QED BY <1>14, <1>15, <1>16, <2>1, <3>0, <4>1
      <3> QED BY <1>2, <3>1, <3>2
    <2>2. CASE n = up
      <3>1. R.child[e][n] \in {g, B} /\ ~R.red[up]
        BY <1>1, <1>2, <1>6, <1>7, <1>13, <1>16, <2>2
      <3>2. bh2[up] = bh[g] /\ bh2[g] = bh[up] /\ bh2[B] = bh[B]
        BY <1>1, <1>7, <1>10, <1>14
      <3> QED BY <1>7, <1>15, <1>16, <2>2, <3>1, <3>2, SMTT(60)
    <2>3. CASE n \notin {g, up}
      <3>1. /\ bh[n] = bh[T.child[e][n]] + (IF n = p /\ e = d THEN 1 ELSE 0)
                       + (IF T.red[n] THEN 0 ELSE 1)
            /\ ~(T.red[n] /\ T.red[T.child[e][n]])
            /\ T.child[e][n] \in S \cup {SENTINEL}
        BY <1>3
      <3>2. bh2[n] = bh[n] /\ (R.red[n] <=> T.red[n])
        BY <1>1, <1>10, <1>16, <2>3
      <3>3. CASE T.child[e][n] = g
        <4>1. R.child[e][n] = up /\ ~R.red[up] /\ bh2[up] = bh[g]
          BY <1>1, <1>7, <1>10, <1>13, <1>16, <2>3, <3>3
        <4> QED BY <3>1, <3>2, <3>3, <4>1
      <3>4. CASE T.child[e][n] # g
        <4>1. R.child[e][n] = T.child[e][n]
          BY <1>1, <1>13, <2>3, <3>4
        <4>2. T.child[e][n] # up
          BY <1>1, <1>4, <1>7, <2>3
        <4>3. bh2[T.child[e][n]] = bh[T.child[e][n]]
          BY <1>1, <1>10, <3>1, <3>4, <4>2
        <4> QED BY <1>16, <3>1, <3>2, <3>4, <4>1, <4>2, <4>3
      <3> QED BY <3>3, <3>4
    <2> QED BY <2>1, <2>2, <2>3
  <1>18. bh2[SENTINEL] = 0 /\ ~R.red[SENTINEL] /\ ~R.red[R.root]
    <2>1. bh2[SENTINEL] = 0 /\ ~R.red[SENTINEL]
      BY <1>1, <1>5, <1>7, <1>10, <1>16
    <2>2. ~R.red[R.root]
      BY <1>1, <1>5, <1>7, <1>9, <1>13
    <2> QED BY <2>1, <2>2
  <1>19. R.child[d][p] = x /\ R.parent[x] = p
    <2>1. x \in Places /\ x \in S \cup {SENTINEL}
      BY ShortFacts
    <2>2. R.child[d][p] = x
      BY <1>1, <1>5, <1>13, SMTT(60)
    <2>3. x = A => x = SENTINEL
      <3>1. T.child[f][up] # SENTINEL => T.parent[T.child[f][up]] = up
        BY <1>4, <1>7
      <3>2. A # SENTINEL => T.parent[A] = up
        BY <1>6, <3>1
      <3>3. T.parent[x] = p
        BY <1>5
      <3> QED BY <3>2, <3>3
    <2> QED BY <1>5, <1>7, <1>13, <2>1, <2>2, <2>3
  <1>20. IsShort(R, S, bh2, x, p, d)
    BY <1>5, <1>10, <1>17, <1>18, <1>19 DEF IsShort
  <1>21. /\ \A n \in Places : R.red[n] <=> (n = g \/ (n # up /\ T.red[n]))
         /\ R.child[f][up] = g
         /\ \A e \in Side, n \in S \ {g, up} :
               R.child[e][n] = IF T.child[e][n] = g THEN up ELSE T.child[e][n]
    BY <1>1, <1>7, <1>9, <1>13
  <1> HIDE DEF R
  <1>22. Turned(T, R, S, sub, bh, x, p, d, g, f, up)
    BY <1>12, <1>20, <1>21 DEF Turned, T2, bh2
  <1>23. R = Rotate(Swapped(T, up, g), g, f)
    BY DEF R, T2
  <1> QED BY <1>22, <1>23

\* Two nodes have a black one less below them.
Lowered(bh, p, w) == [bh EXCEPT ![p] = bh[p] - 1, ![w] = bh[w] - 1]

\* What is lacking at x is lacking at p, or nothing is.
PassedOn(T, R, S, sub, bh, p, w) ==
    /\ IsTree(R, S, sub) /\ R.root = T.root
    /\ p = T.root => IsColored(R, S, Lowered(bh, p, w), NULL)
    /\ p # T.root => IsShort(R, S, Lowered(bh, p, w), p, T.parent[p], SideOf(T, p))

\* A black sibling with black children turns red.
LEMMA UpRound ==
    ASSUME NEW T \in Trees, NEW S, NEW sub, IsTree(T, S, sub),
           NEW bh, NEW x, NEW p, NEW d, IsShort(T, S, bh, x, p, d), ~T.red[x],
           NEW w, w = T.child[Other(d)][p], ~T.red[w],
           \A e \in Side : ~T.red[T.child[e][w]]
    PROVE  PassedOn(T, WithRed(T, w, TRUE), S, sub, bh, p, w)
  <1> DEFINE o == Other(d)
             R == WithRed(T, w, TRUE)
             bh2 == Lowered(bh, p, w)
  <1>1. S \subseteq Nodes /\ S \subseteq Places /\ SENTINEL \in Places /\ SENTINEL \notin S /\ T.root \in Places
    BY RbTreeAssumption DEF IsTree, Places, Trees
  <1>2. o \in Side /\ o # d /\ Other(o) = d /\ \A e \in Side : e = d \/ e = o
    BY ShortFacts DEF Side, Other
  <1>3. /\ x \in S \cup {SENTINEL} /\ x # p /\ p \in S /\ d \in Side /\ T.child[d][p] = x
        /\ w \in S /\ w # x /\ bh[w] = bh[x] + 1
    BY ShortFacts
  <1>4. \A e \in Side, n \in S :
           /\ T.child[e][n] \in S \cup {SENTINEL}
           /\ bh[n] = bh[T.child[e][n]] + (IF n = p /\ e = d THEN 1 ELSE 0)
                        + (IF T.red[n] THEN 0 ELSE 1)
           /\ ~(T.red[n] /\ T.red[T.child[e][n]])
    BY DEF IsTree, IsShort
  <1>5. bh \in [Places -> Nat] /\ bh[SENTINEL] = 0 /\ ~T.red[SENTINEL] /\ ~T.red[T.root]
    BY DEF IsShort
  <1>6. \A e \in Side, n \in S : T.child[e][n] # SENTINEL =>
           /\ T.child[e][n] # T.root /\ T.child[e][n] # n
           /\ T.parent[T.child[e][n]] = n
           /\ SideOf(T, T.child[e][n]) = e
           /\ T.child[e][n] \in sub[n] /\ n \notin sub[T.child[e][n]]
    BY ChildFacts
  <1>7. w = T.child[o][p] /\ w # SENTINEL /\ w # p /\ w # T.root /\ T.parent[w] = p /\ p \notin sub[w]
    BY <1>1, <1>2, <1>3, <1>6
  <1>8. /\ R \in Trees /\ R.root = T.root /\ R.child = T.child /\ R.parent = T.parent
        /\ R.red = [T.red EXCEPT ![w] = TRUE]
    BY <1>1, <1>3, RedSet
  <1>9. \A n \in Places : R.red[n] <=> (n = w \/ T.red[n])
    BY <1>8, ZenonT(60) DEF Trees
  <1>10. bh[p] = bh[w] + (IF T.red[p] THEN 0 ELSE 1) /\ bh[p] = bh[x] + 1 + (IF T.red[p] THEN 0 ELSE 1)
         /\ bh[p] \in Nat /\ bh[w] \in Nat /\ bh[x] \in Nat
    <2>1. bh[p] = bh[w] + 0 + (IF T.red[p] THEN 0 ELSE 1)
      BY <1>2, <1>3, <1>4, <1>7
    <2>2. bh[p] = bh[x] + 1 + (IF T.red[p] THEN 0 ELSE 1)
      BY <1>3, <1>4
    <2> QED BY <1>1, <1>3, <1>5, <2>1, <2>2
  <1>11. bh2 \in [Places -> Nat] /\ \A n \in Places :
            bh2[n] = IF n = w \/ n = p THEN bh[n] - 1 ELSE bh[n]
    <2>1. bh[p] - 1 \in Nat /\ bh[w] - 1 \in Nat
      BY <1>3, <1>10
    <2> QED BY <1>1, <1>3, <1>5, <1>7, <2>1 DEF Lowered
  <1>12. \A e \in Side : T.child[e][w] # p /\ T.child[e][w] # w
    <2>1. \A e \in Side : T.child[e][w] # SENTINEL => T.child[e][w] \in sub[w] /\ T.child[e][w] # w
      BY <1>3, <1>6
    <2> QED BY <1>1, <1>3, <1>7, <2>1
  <1> HIDE DEF o, R, bh2
  <1>13. IsTree(R, S, sub)
    BY <1>8, SameShape
  <1> DEFINE Up(n, e) == T.child[e][n] = p
  <1>14. ASSUME NEW n \in S, NEW e \in Side
         PROVE  /\ bh2[n] = bh2[T.child[e][n]] + (IF Up(n, e) THEN 1 ELSE 0)
                              + (IF R.red[n] THEN 0 ELSE 1)
                /\ R.red[n] /\ R.red[T.child[e][n]] => n = p
    <2>0. T.child[e][n] \in Places /\ bh[T.child[e][n]] \in Nat /\ n \in Places /\ bh[n] \in Nat
      BY <1>1, <1>4, <1>5
    <2>1. CASE n = p
      <3>1. ~Up(n, e) /\ (R.red[p] <=> T.red[p]) /\ bh2[p] = bh[p] - 1
        BY <1>1, <1>3, <1>6, <1>7, <1>9, <1>11, <2>1
      <3>2. CASE e = d
        BY <1>1, <1>3, <1>10, <1>11, <2>0, <2>1, <3>1, <3>2
      <3>3. CASE e = o
        BY <1>1, <1>3, <1>7, <1>10, <1>11, <2>0, <2>1, <3>1, <3>3
      <3> QED BY <1>2, <3>2, <3>3
    <2>2. CASE n = w
      <3>1. ~Up(n, e) /\ R.red[w] /\ bh2[w] = bh[w] - 1 /\ bh2[T.child[e][n]] = bh[T.child[e][n]]
        BY <1>1, <1>3, <1>9, <1>11, <1>12, <2>0, <2>2, ZenonT(60)
      <3>2. bh[w] = bh[T.child[e][w]] + 0 + 1
        BY <1>3, <1>4, <1>7
      <3>3. ~R.red[T.child[e][w]]
        BY <1>1, <1>9, <1>12, <2>0, <2>2
      <3>4. bh2[n] = bh2[T.child[e][n]]
        <4>1. bh2[w] = bh2[T.child[e][w]]
          <5>1. PICK c : c = T.child[e][w]
            BY SMTT(60)
          <5>2. bh2[w] = bh[w] - 1 /\ bh2[c] = bh[c] /\ bh[c] \in Nat
            BY <2>0, <2>2, <3>1, <5>1, ZenonT(60)
          <5>3. bh[w] = bh[c] + 0 + 1
            BY <3>2, <5>1
          <5>4. bh2[w] = bh2[c]
            BY <5>2, <5>3, SMTT(60)
          <5> QED BY <5>1, <5>4
        <4> QED BY <2>2, <4>1, ZenonT(60)
      <3>5. R.red[n] /\ ~R.red[T.child[e][n]]
        BY <2>2, <3>1, <3>3, ZenonT(60)
      <3>6. bh2[T.child[e][n]] \in Nat
        BY <2>0, <3>1
      <3> QED BY <3>1, <3>4, <3>5, <3>6, SMTT(60)
    <2>3. CASE n # p /\ n # w
      <3>1. bh2[n] = bh[n] /\ (R.red[n] <=> T.red[n]) /\ T.child[e][n] # w
        BY <1>1, <1>6, <1>7, <1>9, <1>11, <2>0, <2>3
      <3>2. /\ bh[n] = bh[T.child[e][n]] + 0 + (IF T.red[n] THEN 0 ELSE 1)
            /\ ~(T.red[n] /\ T.red[T.child[e][n]])
        BY <1>4, <2>3
      <3>3. bh2[T.child[e][n]] = IF Up(n, e) THEN bh[T.child[e][n]] - 1 ELSE bh[T.child[e][n]]
        BY <1>11, <2>0, <3>1
      <3>4. R.red[T.child[e][n]] <=> T.red[T.child[e][n]]
        BY <1>9, <2>0, <3>1
      <3> QED BY <2>0, <3>1, <3>2, <3>3, <3>4
    <2> QED BY <2>1, <2>2, <2>3
  <1>15. bh2[SENTINEL] = 0 /\ ~R.red[SENTINEL] /\ ~R.red[R.root]
    BY <1>1, <1>3, <1>5, <1>7, <1>8, <1>9, <1>11
  <1>16. ASSUME p = T.root PROVE IsColored(R, S, bh2, NULL)
    <2>1. \A n \in S, e \in Side : ~Up(n, e)
      BY <1>1, <1>3, <1>6, <1>16, SMTT(60)
    <2>2. ~R.red[p]
      BY <1>8, <1>15, <1>16
    <2>3. \A n \in S, e \in Side :
             /\ bh2[n] = bh2[T.child[e][n]] + (IF R.red[n] THEN 0 ELSE 1)
             /\ ~(R.red[n] /\ R.red[T.child[e][n]])
      <3> TAKE n \in S, e \in Side
      <3>1. /\ bh2[n] = bh2[T.child[e][n]] + 0 + (IF R.red[n] THEN 0 ELSE 1)
            /\ R.red[n] /\ R.red[T.child[e][n]] => n = p
        BY <1>14, <2>1
      <3>2. bh2[T.child[e][n]] \in Nat
        BY <1>1, <1>4, <1>11
      <3> QED BY <2>2, <3>1, <3>2
    <2> QED BY <1>8, <1>11, <1>15, <2>3, SMTT(60) DEF IsColored
  <1>17. ASSUME p # T.root PROVE IsShort(R, S, bh2, p, T.parent[p], SideOf(T, p))
    <2> DEFINE q == T.parent[p]
               f == SideOf(T, p)
    <2>1. q \in S /\ f \in Side /\ T.child[f][q] = p
      BY <1>3, <1>17, ParentFacts
    <2>2. \A n \in S, e \in Side : Up(n, e) <=> (n = q /\ e = f)
      BY <1>1, <1>3, <1>6, <2>1
    <2> HIDE DEF q, f, Up
    <2>3. \A n \in S, e \in Side :
             /\ bh2[n] = bh2[T.child[e][n]] + (IF n = q /\ e = f THEN 1 ELSE 0)
                              + (IF R.red[n] THEN 0 ELSE 1)
             /\ R.red[n] /\ R.red[T.child[e][n]] => n = p
      BY <1>14, <2>2
    <2>4. R.child[f][q] = p /\ R.parent[p] = q
      BY <1>8, <2>1 DEF q
    <2>5. IsShort(R, S, bh2, p, q, f)
      BY <1>8, <1>11, <1>15, <2>1, <2>3, <2>4 DEF IsShort
    <2> QED BY <2>5 DEF q, f
  <1>18. PassedOn(T, R, S, sub, bh, p, w)
    BY <1>8, <1>13, <1>16, <1>17 DEF PassedOn, bh2
  <1> QED BY <1>18 DEF R

\* The sibling takes the parent's colour, the parent and the outer child are black.
Evened(T, p, w, b) == [T EXCEPT !.red[w] = T.red[p], !.red[p] = FALSE, !.red[b] = FALSE]

\* No child and no parent changes.
LEMMA EvenedShape ==
    ASSUME NEW T \in Trees, NEW p \in Places, NEW w \in Places, NEW b \in Places
    PROVE  /\ Evened(T, p, w, b) \in Trees /\ Evened(T, p, w, b).root = T.root
           /\ Evened(T, p, w, b).child = T.child /\ Evened(T, p, w, b).parent = T.parent
  BY DEF Trees, Evened

\* Who is red then.
LEMMA EvenedReds ==
    ASSUME NEW T \in Trees, NEW p \in Places, NEW w \in Places, NEW b \in Places,
           NEW x \in Places
    PROVE  Evened(T, p, w, b).red[x] <=>
              (x # b /\ x # p /\ IF x = w THEN T.red[p] ELSE T.red[x])
  BY DEF Trees, Evened

\* With an outer red child of the sibling a rotation ends the lack.
LEMMA LastTurn ==
    ASSUME NEW T \in Trees, NEW S, NEW sub, IsTree(T, S, sub),
           NEW bh, NEW x, NEW p, NEW d, IsShort(T, S, bh, x, p, d), ~T.red[x],
           NEW w, w = T.child[Other(d)][p], ~T.red[w],
           NEW b, b = T.child[Other(d)][w], T.red[b]
    PROVE  LET R == Rotate(Evened(T, p, w, b), p, d)
           IN  /\ IsTree(R, S, Rotated(Evened(T, p, w, b), sub, p, d))
               /\ \E bh2 : IsColored(R, S, bh2, NULL)
  <1> DEFINE o == Other(d)
             A == T.child[d][w]
             T2 == Evened(T, p, w, b)
             R == Rotate(T2, p, d)
             bh2 == [bh EXCEPT ![p] = bh[x] + 1, ![w] = bh[p], ![b] = bh[b] + 1]
  <1>1. S \subseteq Nodes /\ S \subseteq Places /\ SENTINEL \in Places /\ SENTINEL \notin S /\ T.root \in Places
    BY RbTreeAssumption DEF IsTree, Places, Trees
  <1>2. o \in Side /\ o # d /\ Other(o) = d /\ \A e \in Side : e = d \/ e = o
    BY ShortFacts DEF Side, Other
  <1>3. /\ x \in S \cup {SENTINEL} /\ x # p /\ p \in S /\ d \in Side /\ T.child[d][p] = x
        /\ w \in S /\ w # x /\ bh[w] = bh[x] + 1
    BY ShortFacts
  <1>4. \A e \in Side, n \in S :
           /\ T.child[e][n] \in S \cup {SENTINEL}
           /\ bh[n] = bh[T.child[e][n]] + (IF n = p /\ e = d THEN 1 ELSE 0)
                        + (IF T.red[n] THEN 0 ELSE 1)
           /\ ~(T.red[n] /\ T.red[T.child[e][n]])
    BY DEF IsTree, IsShort
  <1>5. bh \in [Places -> Nat] /\ bh[SENTINEL] = 0 /\ ~T.red[SENTINEL] /\ ~T.red[T.root]
    BY DEF IsShort
  <1>6. \A e \in Side, n \in S : T.child[e][n] # SENTINEL =>
           /\ T.child[e][n] # T.root /\ T.child[e][n] # n
           /\ T.parent[T.child[e][n]] = n
           /\ T.child[e][n] \in sub[n] /\ n \notin sub[T.child[e][n]]
           /\ T.child[Other(e)][n] # T.child[e][n]
    BY ChildFacts
  <1>7. o = Other(d) /\ w = T.child[o][p] /\ b = T.child[o][w] /\ A = T.child[d][w]
    OBVIOUS
  <1>8. w # SENTINEL /\ w # p /\ w # T.root /\ T.parent[w] = p /\ p \notin sub[w]
    BY <1>1, <1>2, <1>3, <1>6, <1>7
  <1>9. b \in S /\ b # SENTINEL /\ b # w /\ b # p /\ b # T.root /\ T.parent[b] = w /\ b # x
         /\ b \in sub[w]
    <2>1. b \in S /\ b # SENTINEL
      BY <1>2, <1>3, <1>4, <1>5, <1>7
    <2>2. b # w /\ b # T.root /\ T.parent[b] = w /\ b \in sub[w]
      BY <1>2, <1>3, <1>6, <1>7, <2>1
    <2> QED BY <1>8, <2>1, <2>2
  <1>10. A \in S \cup {SENTINEL} /\ A # w /\ A # p /\ A # b
    <2>1. A \in S \cup {SENTINEL}
      BY <1>3, <1>4
    <2>2. A # SENTINEL => A # w /\ A \in sub[w]
      BY <1>3, <1>6
    <2>3. A # b
      BY <1>2, <1>3, <1>6, <1>7, <1>9, SMTT(60)
    <2> QED BY <1>1, <1>3, <1>8, <2>1, <2>2, <2>3
  <1>11. T2 \in Trees /\ T2.root = T.root /\ T2.child = T.child /\ T2.parent = T.parent
    <2>1. p \in Places /\ w \in Places /\ b \in Places
      BY <1>1, <1>3, <1>9
    <2>2. /\ Evened(T, p, w, b) \in Trees /\ Evened(T, p, w, b).root = T.root
          /\ Evened(T, p, w, b).child = T.child /\ Evened(T, p, w, b).parent = T.parent
      BY <2>1 DEF Evened, Trees
    <2> QED BY <2>2
  <1>12. \A n \in Places : T2.red[n] <=> (n # b /\ n # p /\ IF n = w THEN T.red[p] ELSE T.red[n])
    <2>1. p \in Places /\ w \in Places /\ b \in Places
      BY <1>1, <1>3, <1>9
    <2> QED BY <2>1, EvenedReds
  <1>13. /\ bh[p] = bh[x] + 1 + (IF T.red[p] THEN 0 ELSE 1)
         /\ bh[p] \in Nat /\ bh[w] \in Nat /\ bh[x] \in Nat /\ bh[A] \in Nat /\ bh[b] \in Nat
         /\ bh[A] = bh[x] /\ bh[b] = bh[x]
    <2>1. bh[p] = bh[x] + 1 + (IF T.red[p] THEN 0 ELSE 1)
      BY <1>3, <1>4
    <2>2. bh[p] \in Nat /\ bh[w] \in Nat /\ bh[x] \in Nat /\ bh[A] \in Nat /\ bh[b] \in Nat
      BY <1>1, <1>3, <1>5, <1>9, <1>10
    <2>3. bh[w] = bh[A] + 0 + 1
      BY <1>3, <1>4, <1>7, <1>8
    <2>4. bh[w] = bh[b] + 0 + 1
      BY <1>2, <1>3, <1>4, <1>7, <1>8
    <2> QED BY <1>3, <2>1, <2>2, <2>3, <2>4
  <1>14. bh2 \in [Places -> Nat] /\ \A n \in Places :
            bh2[n] = IF n = b THEN bh[b] + 1 ELSE IF n = w THEN bh[p]
                     ELSE IF n = p THEN bh[x] + 1 ELSE bh[n]
    BY <1>1, <1>3, <1>5, <1>8, <1>9, <1>13, ZenonT(60)
  <1> HIDE DEF o, A, T2, R, bh2
  <1>15. IsTree(T2, S, sub)
    BY <1>11, SameShape
  <1>16. IsTree(R, S, Rotated(T2, sub, p, d))
    BY <1>1, <1>3, <1>7, <1>8, <1>11, <1>15, RotateShape DEF R
  <1>17. /\ R \in Trees /\ R.red = T2.red
         /\ R.root = IF p = T.root THEN w ELSE T.root
         /\ \A e \in Side, n \in Nodes : R.child[e][n] =
                     IF n = p THEN IF e = d THEN T.child[e][n] ELSE A
                     ELSE IF n = w THEN IF e = d THEN p ELSE T.child[e][n]
                     ELSE IF T.child[e][n] = p THEN w ELSE T.child[e][n]
    <2>1. R = Rotate(T2, p, d) /\ w = T2.child[Other(d)][p] /\ A = T2.child[d][w]
          /\ T2.child[Other(d)][p] # SENTINEL
      BY <1>7, <1>8, <1>11 DEF R
    <2>2. /\ R \in Trees /\ R.red = T2.red
          /\ R.root = IF p = T2.root THEN w ELSE T2.root
          /\ \A e \in Side, n \in Nodes : R.child[e][n] =
                      IF n = p THEN IF e = d THEN T2.child[e][n] ELSE A
                      ELSE IF n = w THEN IF e = d THEN p ELSE T2.child[e][n]
                      ELSE IF T2.child[e][n] = p THEN w ELSE T2.child[e][n]
      BY <1>3, <1>15, <2>1, RotateFields, SMTT(60)
    <2>3. \A e \in Side, n \in Nodes : R.child[e][n] =
                     IF n = p THEN IF e = d THEN T.child[e][n] ELSE A
                     ELSE IF n = w THEN IF e = d THEN p ELSE T.child[e][n]
                     ELSE IF T.child[e][n] = p THEN w ELSE T.child[e][n]
      BY <1>11, <2>2
    <2> QED BY <1>11, <2>2, <2>3
  <1>18. \A n \in S \cup {SENTINEL} : bh[n] \in Nat /\
            (R.red[n] <=> (n # b /\ n # p /\ IF n = w THEN T.red[p] ELSE T.red[n]))
    BY <1>1, <1>5, <1>12, <1>17
  <1>19. ASSUME NEW n \in S, NEW e \in Side
         PROVE  /\ bh2[n] = bh2[R.child[e][n]] + (IF R.red[n] THEN 0 ELSE 1)
                /\ ~(R.red[n] /\ R.red[R.child[e][n]])
    <2>1. CASE n = p
      <3>0. ~R.red[p] /\ bh2[p] = bh[x] + 1
        BY <1>1, <1>3, <1>8, <1>9, <1>14, <1>18, ZenonT(60)
      <3>1. R.child[e][n] = x \/ R.child[e][n] = A
        BY <1>1, <1>3, <1>17, <2>1, SMTT(60)
      <3>2. bh2[x] = bh[x] /\ bh2[A] = bh[x]
        BY <1>1, <1>3, <1>9, <1>10, <1>13, <1>14, SMTT(60)
      <3> QED BY <1>13, <2>1, <3>0, <3>1, <3>2, SMTT(60)
    <2>2. CASE n = w
      <3>1. R.child[e][n] = p \/ R.child[e][n] = b
        BY <1>1, <1>2, <1>3, <1>7, <1>8, <1>17, <2>2, SMTT(60)
      <3>2. bh2[w] = bh[p] /\ bh2[p] = bh[x] + 1 /\ bh2[b] = bh[x] + 1
        BY <1>1, <1>3, <1>8, <1>9, <1>13, <1>14, SMTT(60)
      <3>3. ~R.red[p] /\ ~R.red[b] /\ (R.red[w] <=> T.red[p])
        BY <1>3, <1>8, <1>9, <1>18, ZenonT(60)
      <3>4. bh2[R.child[e][n]] = bh[x] + 1 /\ ~R.red[R.child[e][n]]
        BY <3>1, <3>2, <3>3
      <3> QED BY <1>13, <2>2, <3>2, <3>3, <3>4, ZenonT(60)
    <2>3. CASE n = b
      <3>1. PICK c : c = T.child[e][n]
        OBVIOUS
      <3>2. T.child[e][n] # b /\ T.child[e][n] # w /\ T.child[e][n] # p
        <4>1. T.child[e][n] # w
          BY <1>6, <1>8, <1>9, <2>3, SMTT(60)
        <4>2. T.child[e][n] # b
          BY <1>6, <1>9, <2>3, ZenonT(60)
        <4>3. T.child[e][n] # p
          <5>1. T.child[e][n] = p => p \in sub[b]
            BY <1>1, <1>3, <1>6, <2>3, SMTT(60)
          <5>2. sub[b] \subseteq sub[w]
            <6>1. \A y \in S : \A m \in sub[y] : sub[m] \subseteq sub[y]
              BY DEF IsTree
            <6> QED BY <1>3, <1>9, <6>1, ZenonT(60)
          <5> QED BY <1>8, <5>1, <5>2
        <4> QED BY <4>1, <4>2, <4>3, SMTT(60)
      <3>3. R.child[e][n] = c /\ c \in S \cup {SENTINEL} /\ bh[b] = bh[c] + 0 + 0
        BY <1>1, <1>4, <1>9, <1>17, <2>3, <3>1, <3>2, ZenonT(60)
      <3>4. bh2[b] = bh[b] + 1 /\ bh2[c] = bh[c] /\ ~R.red[b] /\ bh[c] \in Nat
        BY <1>1, <1>9, <1>14, <1>18, <3>1, <3>2, <3>3, ZenonT(60)
      <3> QED BY <2>3, <3>3, <3>4
    <2>4. CASE n \notin {p, w, b}
      <3>1. /\ bh[n] = bh[T.child[e][n]] + 0 + (IF T.red[n] THEN 0 ELSE 1)
            /\ ~(T.red[n] /\ T.red[T.child[e][n]])
            /\ T.child[e][n] \in S \cup {SENTINEL}
        BY <1>4, <2>4
      <3>2. bh2[n] = bh[n] /\ (R.red[n] <=> T.red[n])
        BY <1>1, <1>14, <1>18, <2>4
      <3>3. CASE T.child[e][n] = p
        <4>1. R.child[e][n] = w /\ (R.red[w] <=> T.red[p]) /\ bh2[w] = bh[p]
          BY <1>1, <1>3, <1>8, <1>9, <1>14, <1>17, <1>18, <2>4, <3>3, ZenonT(60)
        <4> QED BY <1>13, <3>1, <3>2, <3>3, <4>1
      <3>4. CASE T.child[e][n] # p
        <4>1. R.child[e][n] = T.child[e][n]
          BY <1>1, <1>17, <2>4, <3>4
        <4>2. T.child[e][n] # w /\ T.child[e][n] # b
          BY <1>6, <1>8, <1>9, <2>4, SMTT(60)
        <4>3. bh2[T.child[e][n]] = bh[T.child[e][n]] /\ (R.red[T.child[e][n]] <=> T.red[T.child[e][n]])
          BY <1>1, <1>14, <1>18, <3>1, <3>4, <4>2
        <4>4. bh[T.child[e][n]] \in Nat
          BY <1>18, <3>1
        <4> QED BY <3>1, <3>2, <4>1, <4>3, <4>4
      <3> QED BY <3>3, <3>4
    <2> QED BY <2>1, <2>2, <2>3, <2>4
  <1>20. bh2[SENTINEL] = 0 /\ ~R.red[SENTINEL] /\ ~R.red[R.root]
    <2>1. bh2[SENTINEL] = 0 /\ ~R.red[SENTINEL]
      BY <1>1, <1>3, <1>5, <1>9, <1>14, <1>18, ZenonT(60)
    <2>2. T.root \in S \cup {SENTINEL}
      BY DEF IsTree
    <2>3. ~R.red[R.root]
      BY <1>3, <1>5, <1>8, <1>17, <1>18, <2>2
    <2> QED BY <2>1, <2>3, SMTT(60)
  <1>21. IsColored(R, S, bh2, NULL)
    BY <1>14, <1>19, <1>20 DEF IsColored
  <1> QED BY <1>16, <1>21 DEF R, T2

\* With a red child of the sibling the loop ends, and nothing is lacking.
LEMMA FixEndKeeps ==
    ASSUME NEW T \in Trees, NEW S, NEW sub, IsTree(T, S, sub),
           NEW bh, NEW x, NEW p, NEW d, IsShort(T, S, bh, x, p, d), ~T.red[x],
           NEW w, w = T.child[Other(d)][p], ~T.red[w],
           NEW e \in Side, T.red[T.child[e][w]]
    PROVE  \E sub2, bh2 : IsTree(FixEnd(T, x), S, sub2) /\ IsColored(FixEnd(T, x), S, bh2, NULL)
  <1> DEFINE o == Other(d)
             b == T.child[o][w]
             m == T.child[d][w]
             T1 == IF T.red[b] THEN T ELSE Rotate(Swapped(T, m, w), w, o)
             w1 == T1.child[o][p]
             b1 == T1.child[o][w1]
  <1>1. S \subseteq Places /\ SENTINEL \in Places /\ SENTINEL \notin S
    BY RbTreeAssumption DEF IsTree, Places
  <1>2. o \in Side /\ o # d /\ Other(o) = d /\ \A c \in Side : c = d \/ c = o
    BY ShortFacts DEF Side, Other
  <1>3. /\ p \in S /\ d \in Side /\ T.parent[x] = p /\ SideOf(T, x) = d
        /\ w \in S /\ w # x
    BY ShortFacts
  <1>4. FixEnd(T, x) = Rotate(Evened(T1, p, w1, b1), p, d)
    <2>1. T1 = IF T.red[T.child[Other(d)][w]] THEN T
               ELSE Rotate([T EXCEPT !.red[T.child[d][w]] = FALSE, !.red[w] = TRUE], w, Other(d))
      BY DEF Swapped
    <2> HIDE DEF T1
    <2>2. FixEnd(T, x) = Rotate([T1 EXCEPT !.red[w1] = T1.red[p], !.red[p] = FALSE,
                                           !.red[b1] = FALSE], p, d)
      BY <1>3, <2>1 DEF FixEnd
    <2> QED BY <2>2 DEF Evened
  <1>5. w # SENTINEL /\ w # p
    <2>1. T.child[o][p] # SENTINEL => T.child[o][p] # p
      BY <1>2, <1>3, ChildFacts
    <2> QED BY <1>1, <1>3, <2>1
  <1>6. CASE T.red[b]
    <2>1. T1 = T /\ w1 = w /\ b1 = b
      BY <1>6
    <2> HIDE DEF T1, w1, b1, o
    <2>2. b = T.child[Other(d)][w]
      BY DEF o
    <2>3. \E bh2 : IsColored(Rotate(Evened(T, p, w, b), p, d), S, bh2, NULL)
      BY <1>6, <2>2, LastTurn
    <2>4. IsTree(Rotate(Evened(T, p, w, b), p, d), S, Rotated(Evened(T, p, w, b), sub, p, d))
      BY <1>6, <2>2, LastTurn
    <2> QED BY <1>4, <2>1, <2>3, <2>4, ZenonT(60)
  <1>7. CASE ~T.red[b]
    <2>1. T1 = Rotate(Swapped(T, m, w), w, o)
      BY <1>7
    <2>2. T.red[m] /\ m = T.child[Other(o)][w]
      BY <1>2, <1>7
    <2>3. m \in S /\ m # p /\ m # w
      <3>1. m \in S
        <4>1. m \in S \cup {SENTINEL} /\ ~T.red[SENTINEL]
          BY <1>3 DEF IsTree, IsShort
        <4> QED BY <2>2, <4>1
      <3>2. m # SENTINEL => m \in sub[w] /\ m # w
        BY <1>3, ChildFacts
      <3>3. p \notin sub[w]
        BY <1>2, <1>3, <1>5, ChildFacts
      <3> QED BY <1>1, <3>1, <3>2, <3>3
    <2> DEFINE sub1 == Rotated(Swapped(T, m, w), sub, w, o)
               bh1 == [bh EXCEPT ![w] = bh[m], ![m] = bh[w]]
    <2> HIDE DEF T1, m, o, sub1, bh1
    <2>4. /\ IsTree(T1, S, sub1) /\ IsShort(T1, S, bh1, x, p, d)
          /\ \A n \in Places : T1.red[n] <=> (n = w \/ (n # m /\ T.red[n]))
          /\ T1.child[o][m] = w
          /\ \A c \in Side, n \in S \ {w, m} :
                T1.child[c][n] = IF T.child[c][n] = w THEN m ELSE T.child[c][n]
      <3>1. ~T.red[T.child[o][w]]
        BY <1>7
      <3>2. w = p => o = d
        BY <1>5
      <3>3. o \in Side
        BY <1>2
      <3>4. Turned(T, Rotate(Swapped(T, m, w), w, o), S, sub, bh, x, p, d, w, o, m)
        BY <1>3, <2>2, <2>3, <3>1, <3>2, <3>3, ShortTurn
      <3>5. Turned(T, T1, S, sub, bh, x, p, d, w, o, m)
        BY <2>1, <3>4
      <3> QED BY <3>5 DEF sub1, bh1, Turned
    <2>5. w1 = m
      BY <1>2, <1>3, <1>5, <2>3, <2>4 DEF o
    <2>6. b1 = w
      BY <2>4, <2>5, SMTT(60)
    <2>7. x \in Places /\ T1 \in Trees
      BY <2>4, ShortFacts, ZenonT(60) DEF IsTree
    <2>8. ~T1.red[x] /\ ~T1.red[w1] /\ T1.red[b1]
      BY <1>1, <1>3, <2>3, <2>4, <2>5, <2>6, <2>7
    <2>9. w1 = T1.child[Other(d)][p] /\ b1 = T1.child[Other(d)][w1]
      BY DEF o
    <2> HIDE DEF w1, b1
    <2>10. \E bh2 : IsColored(Rotate(Evened(T1, p, w1, b1), p, d), S, bh2, NULL)
      BY <2>4, <2>7, <2>8, <2>9, LastTurn
    <2>11. IsTree(Rotate(Evened(T1, p, w1, b1), p, d), S, Rotated(Evened(T1, p, w1, b1), sub1, p, d))
      BY <2>4, <2>7, <2>8, <2>9, LastTurn
    <2> QED BY <1>4, <2>10, <2>11
  <1> QED BY <1>6, <1>7

\* After the first step of a round the sibling is black; a rotation of it leaves a red
\* parent.
LEMMA BlackSiblingKeeps ==
    ASSUME NEW T \in Trees, NEW S, NEW sub, IsTree(T, S, sub),
           NEW bh, NEW x, NEW p, NEW d, IsShort(T, S, bh, x, p, d), ~T.red[x]
    PROVE  LET T1 == BlackSibling(T, x)
           IN  /\ T1 \in Trees
               /\ \E sub1, bh1 : /\ IsTree(T1, S, sub1) /\ IsShort(T1, S, bh1, x, p, d)
                                 /\ sub1 = sub \/ T1.red[p]
               /\ ~T1.red[x] /\ ~T1.red[T1.child[Other(d)][p]]
  <1> DEFINE w == T.child[Other(d)][p]
             T1 == BlackSibling(T, x)
             Goal(U) == /\ U \in Trees
                        /\ \E sub1, bh1 : /\ IsTree(U, S, sub1) /\ IsShort(U, S, bh1, x, p, d)
                                          /\ sub1 = sub \/ U.red[p]
                        /\ ~U.red[x] /\ ~U.red[U.child[Other(d)][p]]
  <1> SUFFICES Goal(T1)
    OBVIOUS
  <1>1. S \subseteq Places /\ SENTINEL \in Places /\ SENTINEL \notin S
    BY RbTreeAssumption DEF IsTree, Places
  <1>2. Other(d) \in Side /\ Other(d) # d
    BY ShortFacts DEF Side, Other
  <1>3. /\ p \in S /\ d \in Side /\ T.parent[x] = p /\ SideOf(T, x) = d
        /\ w \in S /\ w # x /\ x # p /\ x \in Places /\ T.child[d][p] = x
    BY ShortFacts
  <1>4. T1 = IF T.red[w] THEN Rotate(Swapped(T, w, p), p, d) ELSE T
    BY <1>3 DEF BlackSibling, Swapped
  <1>5. CASE ~T.red[w]
    BY <1>4, <1>5
  <1>6. CASE T.red[w]
    <2>1. w # SENTINEL /\ w # p
      <3>1. T.child[Other(d)][p] # SENTINEL => T.child[Other(d)][p] # p
        BY <1>2, <1>3, ChildFacts
      <3> QED BY <1>1, <1>3, <3>1
    <2> DEFINE sub1 == Rotated(Swapped(T, w, p), sub, p, d)
               bh1 == [bh EXCEPT ![p] = bh[w], ![w] = bh[p]]
    <2>2. w = T.child[Other(d)][p]
      OBVIOUS
    <2>3. T1 = Rotate(Swapped(T, w, p), p, d)
      BY <1>4, <1>6
    <2> HIDE DEF T1, w, sub1, bh1, Goal
    <2>4. /\ IsTree(T1, S, sub1) /\ IsShort(T1, S, bh1, x, p, d)
          /\ \A n \in Places : T1.red[n] <=> (n = p \/ (n # w /\ T.red[n]))
      <3>1. ~T.red[T.child[d][p]]
        BY <1>3
      <3>2. Turned(T, Rotate(Swapped(T, w, p), p, d), S, sub, bh, x, p, d, p, d, w)
        BY <1>2, <1>3, <1>6, <2>1, <2>2, <3>1, ShortTurn
      <3> QED BY <2>3, <3>2 DEF sub1, bh1, Turned
    <2>5. T1.red[p] /\ ~T1.red[x]
      BY <1>1, <1>3, <2>4
    <2>6. ~T1.red[T1.child[Other(d)][p]]
      <3>1. T1.child[Other(d)][p] # x
        BY <2>4, ShortFacts
      <3>2. T1.red[p] /\ T1.red[T1.child[Other(d)][p]] => x \in {p, T1.child[Other(d)][p]}
        BY <1>2, <1>3, <2>4 DEF IsShort
      <3> QED BY <1>3, <2>5, <3>1, <3>2
    <2>7. T1 \in Trees
      BY <2>4 DEF IsTree
    <2>8. \E s1, b1 : /\ IsTree(T1, S, s1) /\ IsShort(T1, S, b1, x, p, d)
                      /\ s1 = sub \/ T1.red[p]
      BY <2>4, <2>5
    <2> QED BY <2>5, <2>6, <2>7, <2>8 DEF Goal
  <1> QED BY <1>5, <1>6

\* Nothing is lacking any more, or one black node is at x; the loop ends at a red x, and
\* before it has gone up by more than k nodes.
Pending(T, S, x, k) ==
    \E sub, bh :
       /\ IsTree(T, S, sub)
       /\ \/ x = T.root /\ IsColored(T, S, bh, NULL)
          \/ \E p, d : /\ IsShort(T, S, bh, x, p, d)
                       /\ T.red[x] \/ Cardinality(S \ sub[x]) <= k

\* The node below which a black one is lacking is not below x.
LEMMA ParentIsAbove ==
    ASSUME NEW T, NEW S, NEW sub, IsTree(T, S, sub),
           NEW bh, NEW x, NEW p, NEW d, IsShort(T, S, bh, x, p, d)
    PROVE  /\ p \in S \ sub[x] /\ p \in sub[p] /\ sub[x] \subseteq sub[p]
           /\ IsFiniteSet(S \ sub[x]) /\ Cardinality(S \ sub[x]) \in Nat \ {0}
           /\ Cardinality(S \ sub[p]) \in Nat
           /\ Cardinality(S \ sub[p]) < Cardinality(S \ sub[x])
           /\ Cardinality(S \ sub[x]) <= Cardinality(S)
  <1>1. p \in S /\ d \in Side /\ T.child[d][p] = x
    BY ShortFacts
  <1>2. p \notin sub[x] /\ p \in sub[p] /\ sub[x] \subseteq sub[p]
    <2>1. sub[p] = {p} \cup sub[T.child["left"][p]] \cup sub[T.child["right"][p]]
      BY <1>1 DEF IsTree
    <2>2. \A m \in sub[T.child[d][p]] : m # p
      BY <1>1 DEF IsTree
    <2> QED BY <1>1, <2>1, <2>2 DEF Side
  <1>3. IsFiniteSet(S)
    BY DEF IsTree
  <1>4. S \ sub[x] \in SUBSET S
    OBVIOUS
  <1>5. IsFiniteSet(S \ sub[x]) /\ Cardinality(S \ sub[x]) <= Cardinality(S)
    BY <1>3, <1>4, FS_Subset
  <1>6. Cardinality(S \ sub[x]) \in Nat
    BY <1>5, FS_CardinalityType
  <1>7. S \ sub[p] \in SUBSET (S \ sub[x])
    BY <1>2
  <1>8. /\ IsFiniteSet(S \ sub[p]) /\ Cardinality(S \ sub[p]) <= Cardinality(S \ sub[x])
        /\ Cardinality(S \ sub[p]) = Cardinality(S \ sub[x]) => S \ sub[x] = S \ sub[p]
    BY <1>5, <1>7, FS_Subset
  <1>9. Cardinality(S \ sub[p]) \in Nat
    BY <1>8, FS_CardinalityType
  <1>10. S \ sub[x] # S \ sub[p]
    BY <1>1, <1>2
  <1> QED BY <1>1, <1>2, <1>5, <1>6, <1>8, <1>9, <1>10

\* With no more rounds to go the loop is done.
LEMMA PendingEnds ==
    ASSUME NEW T, NEW S, NEW x, Pending(T, S, x, 0)
    PROVE  FixupDone(T, x)
  <1>1. PICK sub, bh :
           /\ IsTree(T, S, sub)
           /\ \/ x = T.root /\ IsColored(T, S, bh, NULL)
              \/ \E p, d : /\ IsShort(T, S, bh, x, p, d)
                           /\ T.red[x] \/ Cardinality(S \ sub[x]) <= 0
    BY DEF Pending
  <1>2. ASSUME NEW p, NEW d, IsShort(T, S, bh, x, p, d), Cardinality(S \ sub[x]) <= 0
        PROVE  FALSE
    <2>1. Cardinality(S \ sub[x]) \in Nat \ {0}
      BY <1>1, <1>2, ParentIsAbove
    <2> QED BY <1>2, <2>1
  <1> QED BY <1>1, <1>2 DEF FixupDone

\* A loop that is done stays so.
LEMMA PendingStays ==
    ASSUME NEW T, NEW S, NEW x, NEW k, Pending(T, S, x, k), FixupDone(T, x), NEW j
    PROVE  Pending(T, S, x, j)
  <1>1. PICK sub, bh :
           /\ IsTree(T, S, sub)
           /\ \/ x = T.root /\ IsColored(T, S, bh, NULL)
              \/ \E p, d : /\ IsShort(T, S, bh, x, p, d)
                           /\ T.red[x] \/ Cardinality(S \ sub[x]) <= k
    BY DEF Pending
  <1>2. CASE x = T.root /\ IsColored(T, S, bh, NULL)
    BY <1>1, <1>2 DEF Pending
  <1>3. ASSUME NEW p, NEW d, IsShort(T, S, bh, x, p, d)
        PROVE  Pending(T, S, x, j)
    <2>1. x # T.root
      BY <1>1, <1>3, ShortFacts
    <2>2. T.red[x]
      BY <2>1 DEF FixupDone
    <2> QED BY <1>1, <1>3, <2>2 DEF Pending
  <1> QED BY <1>1, <1>2, <1>3

\* A round gets nearer to the end.
LEMMA RoundKeeps ==
    ASSUME NEW T, NEW S, NEW x, NEW k \in Nat, Pending(T, S, x, k), ~FixupDone(T, x)
    PROVE  Pending(FixupRound(T, x).tree, S, FixupRound(T, x).x, k - 1)
  <1> DEFINE T1 == BlackSibling(T, x)
             Rd == FixupRound(T, x)
  <1>1. x # T.root /\ ~T.red[x]
    BY DEF FixupDone
  <1>2. PICK sub, bh, p, d :
           /\ IsTree(T, S, sub) /\ IsShort(T, S, bh, x, p, d)
           /\ Cardinality(S \ sub[x]) <= k
    BY <1>1 DEF Pending
  <1>3. T \in Trees
    BY <1>2 DEF IsTree
  <1>4. /\ T1 \in Trees
        /\ \E sub1, bh1 : /\ IsTree(T1, S, sub1) /\ IsShort(T1, S, bh1, x, p, d)
                          /\ sub1 = sub \/ T1.red[p]
        /\ ~T1.red[x] /\ ~T1.red[T1.child[Other(d)][p]]
    BY <1>1, <1>2, <1>3, BlackSiblingKeeps
  <1> HIDE DEF T1, Rd
  <1>5. PICK sub1, bh1 : /\ IsTree(T1, S, sub1) /\ IsShort(T1, S, bh1, x, p, d)
                         /\ sub1 = sub \/ T1.red[p]
    BY <1>4
  <1> DEFINE w == T1.child[Other(d)][p]
             R == WithRed(T1, w, TRUE)
  <1>6. /\ T1.parent[x] = p /\ SideOf(T1, x) = d /\ p \in S /\ d \in Side
        /\ w \in S
    BY <1>5, ShortFacts
  <1>7. Rd = IF \A c \in Side : ~T1.red[T1.child[c][w]]
             THEN [tree |-> R, x |-> p]
             ELSE [tree |-> FixEnd(T1, x), x |-> FixEnd(T1, x).root]
    BY <1>6 DEF FixupRound, T1, Rd, WithRed
  <1> HIDE DEF R, w
  <1>8. CASE \A c \in Side : ~T1.red[T1.child[c][w]]
    <2>1. Rd.tree = R /\ Rd.x = p
      BY <1>7, <1>8
    <2>2. w = T1.child[Other(d)][p] /\ ~T1.red[w]
      BY <1>4 DEF w
    <2>3. /\ IsTree(R, S, sub1) /\ R.root = T1.root
          /\ p = T1.root => IsColored(R, S, Lowered(bh1, p, w), NULL)
          /\ p # T1.root => IsShort(R, S, Lowered(bh1, p, w), p, T1.parent[p], SideOf(T1, p))
      <3>1. PassedOn(T1, WithRed(T1, w, TRUE), S, sub1, bh1, p, w)
        BY <1>4, <1>5, <1>8, <2>2, UpRound
      <3> QED BY <3>1 DEF R, PassedOn
    <2>4. CASE p = T1.root
      <3>1. Pending(R, S, p, k - 1)
        BY <2>3, <2>4 DEF Pending
      <3> QED BY <2>1, <3>1 DEF Rd
    <2>5. CASE p # T1.root
      <3>1. T1.red[p] => R.red[p]
        <4>1. w \in Places /\ p \in Places
          BY <1>5, <1>6 DEF IsTree, Places
        <4>2. R.red = [T1.red EXCEPT ![w] = TRUE]
          BY <1>4, <4>1, RedSet DEF R
        <4> QED BY <1>4, <4>1, <4>2 DEF Trees
      <3>2. sub1 = sub => Cardinality(S \ sub1[p]) <= k - 1
        <4> SUFFICES ASSUME sub1 = sub PROVE Cardinality(S \ sub[p]) <= k - 1
          OBVIOUS
        <4>1. /\ Cardinality(S \ sub[x]) \in Nat /\ Cardinality(S \ sub[p]) \in Nat
              /\ Cardinality(S \ sub[p]) < Cardinality(S \ sub[x])
          BY <1>2, ParentIsAbove
        <4> QED BY <1>2, <4>1
      <3>3. R.red[p] \/ Cardinality(S \ sub1[p]) <= k - 1
        BY <1>5, <3>1, <3>2
      <3>4. Pending(R, S, p, k - 1)
        BY <2>3, <2>5, <3>3 DEF Pending
      <3> QED BY <2>1, <3>4 DEF Rd
    <2> QED BY <2>4, <2>5
  <1>9. CASE \E c \in Side : T1.red[T1.child[c][w]]
    <2>1. Rd.tree = FixEnd(T1, x) /\ Rd.x = FixEnd(T1, x).root
      BY <1>7, <1>9
    <2>2. PICK c \in Side : T1.red[T1.child[c][w]]
      BY <1>9
    <2>3. w = T1.child[Other(d)][p] /\ ~T1.red[w]
      BY <1>4 DEF w
    <2>4. \E sub2, bh2 : IsTree(FixEnd(T1, x), S, sub2) /\ IsColored(FixEnd(T1, x), S, bh2, NULL)
      BY <1>4, <1>5, <2>2, <2>3, FixEndKeeps
    <2>5. Pending(FixEnd(T1, x), S, FixEnd(T1, x).root, k - 1)
      BY <2>4 DEF Pending
    <2> QED BY <2>1, <2>5 DEF Rd
  <1> QED BY <1>8, <1>9

\* The steps of the loop, and of a loop that is done.
NextRound(s) == IF FixupDone(s.tree, s.x) THEN s ELSE FixupRound(s.tree, s.x)

Rounds(f, n, s0) == f = [k \in 0 .. n |-> IF k = 0 THEN s0 ELSE NextRound(f[k - 1])]

\* There are n rounds, whatever n: by induction, for the least n of which there are not.
LEMMA RoundsExist ==
    ASSUME NEW s0, NEW n \in Nat
    PROVE  \E f : Rounds(f, n, s0)
  <1> DEFINE Bad == {m \in Nat : ~\E f : Rounds(f, m, s0)}
  <1> SUFFICES ASSUME Bad # {} PROVE FALSE
    OBVIOUS
  <1>1. PICK m \in Bad : \A y \in Bad : m <= y
    <2>1. Bad \in SUBSET Nat
      OBVIOUS
    <2> HIDE DEF Bad
    <2> QED BY <2>1, LeastNatural
  <1>2. m \in Nat /\ ~\E f : Rounds(f, m, s0)
    BY <1>1
  <1>3. CASE m = 0
    <2> DEFINE f0 == [k \in 0 .. m |-> s0]
    <2>1. f0 = [k \in 0 .. m |-> IF k = 0 THEN s0 ELSE NextRound(f0[k - 1])]
      BY <1>3
    <2> HIDE DEF f0
    <2> QED BY <1>2, <2>1 DEF Rounds
  <1>4. CASE m # 0
    <2>1. m - 1 \in Nat /\ m - 1 \notin Bad
      BY <1>1, <1>2, <1>4
    <2>2. PICK g : Rounds(g, m - 1, s0)
      BY <2>1
    <2> DEFINE f0 == [k \in 0 .. m |-> IF k = m THEN NextRound(g[m - 1]) ELSE g[k]]
    <2>3. \A k \in 0 .. m - 1 : f0[k] = g[k] /\ g[k] = IF k = 0 THEN s0 ELSE NextRound(g[k - 1])
      <3>1. \A k \in 0 .. m - 1 : f0[k] = g[k]
        BY <1>2, <1>4
      <3>2. \A k \in 0 .. m - 1 : g[k] = IF k = 0 THEN s0 ELSE NextRound(g[k - 1])
        BY <2>2, Zenon DEF Rounds
      <3> QED BY <3>1, <3>2
    <2>4. f0[m] = NextRound(g[m - 1])
      BY <1>2, <1>4
    <2>5. f0 = [k \in 0 .. m |-> f0[k]]
      OBVIOUS
    <2> HIDE DEF f0
    <2>6. ASSUME NEW k \in 0 .. m
          PROVE  f0[k] = IF k = 0 THEN s0 ELSE NextRound(f0[k - 1])
      <3>1. CASE k = m
        <4>1. m - 1 \in 0 .. m - 1
          BY <1>2, <1>4
        <4> QED BY <1>4, <2>3, <2>4, <3>1, <4>1
      <3>2. CASE k = 0
        <4>1. 0 \in 0 .. m - 1
          BY <1>2, <1>4
        <4> QED BY <2>3, <3>2, <4>1
      <3>3. CASE k # m /\ k # 0
        <4>1. k \in 0 .. m - 1 /\ k - 1 \in 0 .. m - 1
          BY <1>2, <3>3
        <4> QED BY <2>3, <3>3, <4>1
      <3> QED BY <3>1, <3>2, <3>3
    <2>7. f0 = [k \in 0 .. m |-> IF k = 0 THEN s0 ELSE NextRound(f0[k - 1])]
      BY <2>5, <2>6, Zenon
    <2> QED BY <1>2, <2>7 DEF Rounds
  <1> QED BY <1>3, <1>4

\* At the end x turns black.
LEMMA EndKeeps ==
    ASSUME NEW T, NEW S, NEW x, Pending(T, S, x, 0)
    PROVE  \E sub, bh : /\ IsTree(WithRed(T, x, FALSE), S, sub)
                        /\ IsColored(WithRed(T, x, FALSE), S, bh, NULL)
  <1> DEFINE R == WithRed(T, x, FALSE)
  <1>1. PICK sub, bh :
           /\ IsTree(T, S, sub)
           /\ \/ x = T.root /\ IsColored(T, S, bh, NULL)
              \/ \E p, d : /\ IsShort(T, S, bh, x, p, d)
                           /\ T.red[x] \/ Cardinality(S \ sub[x]) <= 0
    BY DEF Pending
  <1>2. x = T.root \/ T.red[x]
    BY PendingEnds DEF FixupDone
  <1>3. T \in Trees /\ S \subseteq Places /\ T.root \in Places /\ NULL \notin Places
        /\ SENTINEL \in Places /\ SENTINEL \notin S
        /\ \A n \in S, d \in Side : T.child[d][n] \in S \cup {SENTINEL}
    BY <1>1, RbTreeAssumption DEF IsTree, Places, Trees
  <1>4. CASE x = T.root /\ IsColored(T, S, bh, NULL)
    <2>1. ~T.red[x] /\ x \in Places
      BY <1>3, <1>4 DEF IsColored
    <2>2. R \in Trees /\ R.root = T.root /\ R.child = T.child /\ R.parent = T.parent
          /\ R.red = [T.red EXCEPT ![x] = FALSE]
      BY <1>3, <2>1, RedSet
    <2>3. \A n \in Places : R.red[n] <=> T.red[n]
      BY <1>3, <2>1, <2>2 DEF Trees
    <2> HIDE DEF R
    <2>4. IsTree(R, S, sub)
      BY <1>1, <2>2, SameShape
    <2>5. IsColored(R, S, bh, NULL)
      BY <1>3, <1>4, <2>2, <2>3 DEF IsColored
    <2> QED BY <2>4, <2>5 DEF R
  <1>5. ASSUME NEW p, NEW d, IsShort(T, S, bh, x, p, d)
        PROVE  \E b : IsTree(R, S, sub) /\ IsColored(R, S, b, NULL)
    <2>1. /\ x \in S \cup {SENTINEL} /\ x \in Places /\ x # T.root /\ x # p
          /\ p \in S /\ d \in Side /\ T.child[d][p] = x /\ T.parent[x] = p
      BY <1>1, <1>5, ShortFacts
    <2>2. T.red[x] /\ x \in S
      BY <1>2, <1>5, <2>1 DEF IsShort
    <2>3. R \in Trees /\ R.root = T.root /\ R.child = T.child /\ R.parent = T.parent
          /\ R.red = [T.red EXCEPT ![x] = FALSE]
      BY <1>3, <2>1, RedSet
    <2>4. \A n \in Places : R.red[n] <=> (n # x /\ T.red[n])
      BY <1>3, <2>1, <2>3, ZenonT(60) DEF Trees
    <2> HIDE DEF R
    <2>5. IsTree(R, S, sub)
      BY <1>1, <2>3, SameShape
    <2>6. bh \in [Places -> Nat] /\ bh[SENTINEL] = 0 /\ ~T.red[SENTINEL] /\ ~T.red[T.root]
      BY <1>5 DEF IsShort
    <2>7. \A n \in S, e \in Side :
             /\ bh[n] = bh[T.child[e][n]] + (IF n = p /\ e = d THEN 1 ELSE 0)
                          + (IF T.red[n] THEN 0 ELSE 1)
             /\ T.red[n] /\ T.red[T.child[e][n]] => x \in {n, T.child[e][n]}
      BY <1>5 DEF IsShort
    <2>8. \A n \in S, e \in Side : T.child[e][n] = x <=> n = p /\ e = d
      <3> TAKE n \in S, e \in Side
      <3>1. T.child[e][n] # SENTINEL => T.parent[T.child[e][n]] = n /\ SideOf(T, T.child[e][n]) = e
        BY <1>1, ChildFacts
      <3>2. SideOf(T, x) = d
        BY <1>1, <1>5, ShortFacts
      <3> QED BY <1>3, <2>1, <2>2, <3>1, <3>2
    <2> DEFINE b == [bh EXCEPT ![x] = bh[x] + 1]
    <2>9. b \in [Places -> Nat] /\ \A n \in Places : b[n] = IF n = x THEN bh[x] + 1 ELSE bh[n]
      BY <1>3, <2>1, <2>6
    <2> HIDE DEF b
    <2>10. ASSUME NEW n \in S, NEW e \in Side
           PROVE  /\ b[n] = b[T.child[e][n]] + (IF R.red[n] THEN 0 ELSE 1)
                  /\ ~(R.red[n] /\ R.red[T.child[e][n]])
      <3>1. PICK c : c = T.child[e][n]
        OBVIOUS
      <3>2. c \in Places /\ n \in Places /\ bh[c] \in Nat /\ bh[n] \in Nat
        BY <1>3, <2>6, <3>1
      <3>3. ~(R.red[n] /\ R.red[c])
        BY <2>4, <2>7, <3>1, <3>2
      <3>4. bh[n] = bh[c] + (IF c = x THEN 1 ELSE 0) + (IF T.red[n] THEN 0 ELSE 1)
        BY <2>7, <2>8, <3>1
      <3>5. b[c] = IF c = x THEN bh[c] + 1 ELSE bh[c]
        BY <2>9, <3>2
      <3>6. CASE n = x
        <4>1. c # x
          BY <2>1, <2>8, <3>1, <3>6
        <4>2. b[n] = bh[n] + 1 /\ ~R.red[n] /\ T.red[n]
          BY <2>2, <2>4, <2>9, <3>2, <3>6
        <4>3. b[n] = b[c] + 1
          BY <3>2, <3>4, <3>5, <4>1, <4>2
        <4> QED BY <3>1, <3>3, <4>2, <4>3
      <3>7. CASE n # x
        <4>1. b[n] = bh[n] /\ (R.red[n] <=> T.red[n])
          BY <2>4, <2>9, <3>2, <3>7
        <4>2. b[n] = b[c] + (IF R.red[n] THEN 0 ELSE 1)
          BY <3>2, <3>4, <3>5, <4>1
        <4> QED BY <3>1, <3>3, <4>2
      <3> QED BY <3>6, <3>7
    <2>11. b[SENTINEL] = 0 /\ ~R.red[SENTINEL] /\ ~R.red[R.root]
      BY <1>3, <2>2, <2>3, <2>4, <2>6, <2>9
    <2>12. IsColored(R, S, b, NULL)
      BY <2>3, <2>9, <2>10, <2>11 DEF IsColored
    <2> QED BY <2>5, <2>12
  <1> QED BY <1>1, <1>4, <1>5

\* The loop makes a red-black tree of one that lacks one black node.
LEMMA FixupKeeps ==
    ASSUME NEW T, NEW S, NEW sub, IsTree(T, S, sub),
           NEW bh, NEW x, NEW p, NEW d, IsShort(T, S, bh, x, p, d)
    PROVE  \E sub2, bh2 : IsTree(Fixup(T, x), S, sub2) /\ IsColored(Fixup(T, x), S, bh2, NULL)
  <1> DEFINE most == Cardinality(Members(T))
             s0 == [tree |-> T, x |-> x]
             Eq(h) == h = [k \in 0 .. most |->
                             IF k = 0 THEN [tree |-> T, x |-> x]
                             ELSE LET s == h[k - 1]
                                  IN  IF FixupDone(s.tree, s.x) THEN s
                                      ELSE FixupRound(s.tree, s.x)]
             f == CHOOSE h : Eq(h)
  <1>1. Fixup(T, x) = [f[most].tree EXCEPT !.red[f[most].x] = FALSE]
    BY DEF Fixup
  <1>2. most \in Nat /\ most = Cardinality(S)
    <2>1. IsFiniteSet(S) /\ Members(T) = S
      BY MembersAre, SMTT(60) DEF IsTree
    <2> QED BY <2>1, FS_CardinalityType
  <1> HIDE DEF most
  <1>3. \A h : Eq(h) <=> Rounds(h, most, s0)
    BY Zenon DEF Rounds, NextRound
  <1>4. Eq(f)
    <2>1. \E h : Eq(h)
      <3> HIDE DEF Eq, s0
      <3> QED BY <1>2, <1>3, RoundsExist
    <2> QED BY <2>1, ZenonT(60)
  <1>5. Rounds(f, most, s0)
    <2> HIDE DEF f, Eq, s0
    <2> QED BY <1>3, <1>4
  <1> HIDE DEF f, Eq
  <1>6. f[0] = s0 /\ \A k \in 1 .. most : f[k] = NextRound(f[k - 1])
    <2> HIDE DEF s0
    <2>1. \A k \in 0 .. most : f[k] = IF k = 0 THEN s0 ELSE NextRound(f[k - 1])
      BY <1>5, Zenon DEF Rounds
    <2> QED BY <1>2, <2>1
  <1> DEFINE Fine(k) == Pending(f[k].tree, S, f[k].x, most - k)
             Bad == {k \in 0 .. most : ~Fine(k)}
  <1>7. Fine(0)
    <2>1. Cardinality(S \ sub[x]) <= Cardinality(S)
      BY ParentIsAbove
    <2>2. Pending(T, S, x, most)
      BY <1>2, <2>1 DEF Pending
    <2> QED BY <1>2, <1>6, <2>2
  <1>8. Bad = {}
    <2> SUFFICES ASSUME Bad # {} PROVE FALSE
      OBVIOUS
    <2>1. PICK k \in Bad : \A y \in Bad : k <= y
      <3>1. Bad \in SUBSET Nat
        BY <1>2
      <3> HIDE DEF Bad
      <3> QED BY <3>1, LeastNatural
    <2>2. k \in 0 .. most /\ ~Fine(k)
      OBVIOUS
    <2>3. k # 0
      BY <1>7, <2>2
    <2>4. k \in 1 .. most /\ k - 1 \in 0 .. most /\ k - 1 < k /\ most - (k - 1) \in Nat
          /\ (most - (k - 1)) - 1 = most - k
      BY <1>2, <2>2, <2>3
    <2>5. k - 1 \notin Bad
      BY <2>1, <2>4
    <2> DEFINE s == f[k - 1]
    <2>6. Pending(s.tree, S, s.x, most - (k - 1))
      BY <2>4, <2>5
    <2>7. f[k] = NextRound(s)
      BY <1>6, <2>4
    <2> HIDE DEF s
    <2>8. CASE FixupDone(s.tree, s.x)
      <3>1. Pending(s.tree, S, s.x, most - k)
        BY <2>6, <2>8, PendingStays
      <3>2. f[k] = s
        BY <2>7, <2>8 DEF NextRound
      <3> QED BY <2>2, <3>1, <3>2
    <2>9. CASE ~FixupDone(s.tree, s.x)
      <3>1. Pending(FixupRound(s.tree, s.x).tree, S, FixupRound(s.tree, s.x).x, (most - (k - 1)) - 1)
        BY <2>4, <2>6, <2>9, RoundKeeps
      <3>2. f[k] = FixupRound(s.tree, s.x)
        BY <2>7, <2>9 DEF NextRound
      <3> QED BY <2>2, <2>4, <3>1, <3>2
    <2> QED BY <2>8, <2>9
  <1>9. Pending(f[most].tree, S, f[most].x, 0)
    <2>1. most \in 0 .. most /\ most - most = 0
      BY <1>2
    <2>2. Fine(most)
      BY <1>8, <2>1
    <2> QED BY <2>1, <2>2
  <1>10. Fixup(T, x) = WithRed(f[most].tree, f[most].x, FALSE)
    BY <1>1 DEF WithRed
  <1> QED BY <1>9, <1>10, EndKeeps

-----------------------------------------------------------------------------
(* The least key of a subtree, and a node under another name *)

\* The least key of a subtree, as a predicate.
IsLeast(y, X) == y \in X /\ \A z \in X : y <= z

\* There is one.
LEMMA LeastIsOne ==
    ASSUME NEW X \in SUBSET Int, NEW y, IsLeast(y, X), NEW z, IsLeast(z, X)
    PROVE  y = z
  <1>1. y \in Int /\ z \in Int /\ y <= z /\ z <= y
    BY DEF IsLeast
  <1> QED BY <1>1

\* The least key is found to the left, or is the node's own.
LEMMA LeastBelow ==
    ASSUME NEW T, NEW S, NEW sub, IsTree(T, S, sub), NEW m \in S, NEW y
    PROVE  /\ T.child["left"][m] = SENTINEL => IsLeast(m, sub[m])
           /\ T.child["left"][m] # SENTINEL =>
                 /\ T.child["left"][m] \in S
                 /\ IsLeast(y, sub[T.child["left"][m]]) => IsLeast(y, sub[m])
  <1>1. /\ S \subseteq Int /\ sub[SENTINEL] = {} /\ sub \in [Places -> SUBSET S] /\ SENTINEL \in Places
        /\ S \subseteq Places
        /\ \A d \in Side : T.child[d][m] \in S \cup {SENTINEL}
    BY RbTreeAssumption DEF IsTree, Places
  <1>2. sub[m] = {m} \cup sub[T.child["left"][m]] \cup sub[T.child["right"][m]]
    BY DEF IsTree
  <1>3. \A d \in Side : \A z \in sub[T.child[d][m]] : z # m /\ Toward(z, m) = d
    BY DEF IsTree
  <1>4. \A z \in sub[T.child["left"][m]] : z \in Int /\ z < m
    <2> TAKE z \in sub[T.child["left"][m]]
    <2>1. z # m /\ Toward(z, m) = "left" /\ z \in Int
      BY <1>1, <1>3 DEF Side
    <2> QED BY <1>1, <2>1 DEF Toward
  <1>5. \A z \in sub[T.child["right"][m]] : z \in Int /\ m < z
    <2> TAKE z \in sub[T.child["right"][m]]
    <2>1. z # m /\ Toward(z, m) = "right" /\ z \in Int
      BY <1>1, <1>3 DEF Side
    <2> QED BY <1>1, <2>1 DEF Toward
  <1>6. m \in Int
    BY <1>1
  <1>7. T.child["left"][m] = SENTINEL => IsLeast(m, sub[m])
    BY <1>1, <1>2, <1>5, <1>6 DEF IsLeast
  <1>8. T.child["left"][m] # SENTINEL =>
           /\ T.child["left"][m] \in S
           /\ IsLeast(y, sub[T.child["left"][m]]) => IsLeast(y, sub[m])
    <2>1. PICK L : L = sub[T.child["left"][m]]
      OBVIOUS
    <2>2. PICK Rt : Rt = sub[T.child["right"][m]]
      OBVIOUS
    <2>3. IsLeast(y, L) => IsLeast(y, {m} \cup L \cup Rt)
      <3> SUFFICES ASSUME y \in L, \A z \in L : y <= z
                   PROVE  \A z \in {m} \cup L \cup Rt : y <= z
        BY DEF IsLeast
      <3>1. y \in Int /\ y < m
        BY <1>4, <2>1
      <3>2. \A z \in Rt : z \in Int /\ m < z
        BY <1>5, <2>2
      <3> QED BY <1>6, <3>1, <3>2
    <2>4. T.child["left"][m] \in S \cup {SENTINEL}
      BY <1>1 DEF Side
    <2> QED BY <1>2, <2>1, <2>2, <2>3, <2>4
  <1> QED BY <1>7, <1>8

\* rbtree_min finds the least key, and it has no left child.
LEMMA LeftmostFacts ==
    ASSUME NEW T, NEW S, NEW sub, IsTree(T, S, sub), NEW r \in S
    PROVE  /\ IsLeast(Leftmost(T, r), sub[r])
           /\ T.child["left"][Leftmost(T, r)] = SENTINEL
  <1> DEFINE Eq(h) == h = [m \in Members(T) |->
                             IF T.child["left"][m] = SENTINEL THEN m ELSE h[T.child["left"][m]]]
             f == CHOOSE h : Eq(h)
             Lo(m) == CHOOSE y : IsLeast(y, sub[m])
             f0 == [m \in S |-> Lo(m)]
             l(m) == T.child["left"][m]
  <1>1. Leftmost(T, r) = f[r]
    BY DEF Leftmost
  <1>2. Members(T) = S
    BY MembersAre
  <1>3. \A m \in S : sub[m] \in SUBSET Int /\ m \in sub[m] /\ sub[l(m)] \in SUBSET Int
    <2>1. S \subseteq Int /\ S \subseteq Places /\ sub \in [Places -> SUBSET S] /\ SENTINEL \in Places
      BY RbTreeAssumption DEF IsTree, Places
    <2>2. \A m \in S : m \in sub[m] /\ l(m) \in S \cup {SENTINEL}
      BY DEF IsTree, Side
    <2> QED BY <2>1, <2>2
  <1>4. {m \in S : ~\E y : IsLeast(y, sub[m])} = {}
    <2> DEFINE Bad == {m \in S : ~\E y : IsLeast(y, sub[m])}
    <2> SUFFICES ASSUME Bad # {} PROVE FALSE
      OBVIOUS
    <2>1. Bad \in SUBSET S
      OBVIOUS
    <2>2. PICK m \in Bad : \A d \in Side : sub[T.child[d][m]] \cap Bad = {}
      <3> HIDE DEF Bad
      <3> QED BY <2>1, LowestNode
    <2>3. m \in S /\ ~\E y : IsLeast(y, sub[m])
      OBVIOUS
    <2>4. l(m) # SENTINEL /\ l(m) \in S
      BY <2>3, LeastBelow
    <2>5. l(m) \notin Bad
      BY <1>3, <2>2, <2>4 DEF Side
    <2>6. \E y : IsLeast(y, sub[l(m)])
      BY <2>4, <2>5
    <2> QED BY <2>3, <2>4, <2>6, LeastBelow
  <1>5. \A m \in S : IsLeast(Lo(m), sub[m])
    BY <1>4
  <1>6. \A m \in S : f0[m] = Lo(m)
    OBVIOUS
  <1> HIDE DEF Lo
  <1>7. \A m \in S : f0[m] = IF l(m) = SENTINEL THEN m ELSE f0[l(m)]
    <2> HIDE DEF f0
    <2> TAKE m \in S
    <2>1. CASE l(m) = SENTINEL
      <3>1. IsLeast(m, sub[m])
        BY <2>1, LeastBelow
      <3>2. Lo(m) = m
        BY <1>3, <1>5, <3>1, LeastIsOne
      <3> QED BY <1>6, <2>1, <3>2
    <2>2. CASE l(m) # SENTINEL
      <3>1. l(m) \in S
        BY <2>2, LeastBelow
      <3>2. IsLeast(Lo(l(m)), sub[m])
        BY <1>5, <2>2, <3>1, LeastBelow
      <3>3. Lo(l(m)) = Lo(m)
        BY <1>3, <1>5, <3>2, LeastIsOne
      <3> QED BY <1>6, <2>2, <3>1, <3>3
    <2> QED BY <2>1, <2>2
  <1>8. Eq(f0)
    <2>1. f0 = [m \in S |-> f0[m]]
      OBVIOUS
    <2> HIDE DEF f0
    <2>2. f0 = [m \in S |-> IF T.child["left"][m] = SENTINEL THEN m ELSE f0[T.child["left"][m]]]
      BY <1>7, <2>1, Zenon
    <2> QED BY <1>2, <2>2
  <1>9. Eq(f)
    BY <1>8, ZenonT(60)
  <1>10. \A m \in S : f[m] = IF l(m) = SENTINEL THEN m ELSE f[l(m)]
    <2> HIDE DEF f
    <2> QED BY <1>2, <1>9
  <1> HIDE DEF f, Eq
  <1> DEFINE Fine(m) == IsLeast(f[m], sub[m]) /\ T.child["left"][f[m]] = SENTINEL
  <1>11. {m \in S : ~Fine(m)} = {}
    <2> DEFINE Bad == {m \in S : ~Fine(m)}
    <2> SUFFICES ASSUME Bad # {} PROVE FALSE
      OBVIOUS
    <2>1. Bad \in SUBSET S
      OBVIOUS
    <2>2. PICK m \in Bad : \A d \in Side : sub[T.child[d][m]] \cap Bad = {}
      <3> HIDE DEF Bad
      <3> QED BY <2>1, LowestNode
    <2>3. m \in S /\ ~Fine(m)
      OBVIOUS
    <2>4. CASE l(m) = SENTINEL
      <3>1. f[m] = m
        BY <1>10, <2>3, <2>4
      <3>2. IsLeast(m, sub[m])
        BY <2>3, <2>4, LeastBelow
      <3> QED BY <2>3, <2>4, <3>1, <3>2
    <2>5. CASE l(m) # SENTINEL
      <3>1. l(m) \in S /\ f[m] = f[l(m)]
        BY <1>10, <2>3, <2>5, LeastBelow
      <3>2. l(m) \notin Bad
        BY <1>3, <2>2, <3>1 DEF Side
      <3>3. Fine(l(m))
        BY <3>1, <3>2
      <3>4. IsLeast(f[m], sub[m])
        BY <2>3, <2>5, <3>1, <3>3, LeastBelow
      <3> QED BY <2>3, <3>1, <3>3, <3>4
    <2> QED BY <2>4, <2>5
  <1> QED BY <1>1, <1>11

\* A node s takes the place of n: the tree R is V with n's name changed.
Moved(y, n, s) == IF y = n THEN s ELSE y
MovedSet(X, n, s) == {Moved(z, n, s) : z \in X}

Renamed(V, R, S, n, s) ==
    /\ R \in Trees /\ NoChildren(R, MovedSet(S, n, s))
    /\ R.root = Moved(V.root, n, s)
    /\ R.root # SENTINEL => R.parent[R.root] \notin MovedSet(S, n, s)
    /\ \A y \in S, e \in Side : R.child[e][Moved(y, n, s)] = Moved(V.child[e][y], n, s)
    /\ \A y \in S \ {V.root} : R.parent[Moved(y, n, s)] = Moved(V.parent[y], n, s)

MovedSub(sub, n, s) ==
    [x \in Places |-> IF x = n THEN {} ELSE MovedSet(sub[IF x = s THEN n ELSE x], n, s)]

\* What a changed name leaves alone.
MovesWell(S, sub, n, s, S2, sub2) ==
    /\ Moved(SENTINEL, n, s) = SENTINEL
    /\ \A y \in S : Moved(y, n, s) \in S2
    /\ \A x \in S2 : \E y \in S : x = Moved(y, n, s)
    /\ S2 = (S \ {n}) \cup {s}
    /\ \A y, z \in S \cup {SENTINEL} : Moved(y, n, s) = Moved(z, n, s) => y = z
    /\ sub2 \in [Places -> SUBSET S2]
    /\ \A y \in S \cup {SENTINEL} : sub2[Moved(y, n, s)] = MovedSet(sub[y], n, s)

\* The renaming is one to one.
LEMMA MovedFacts ==
    ASSUME NEW S \in SUBSET Nodes, NEW n \in S, NEW s \in Nodes \ S,
           NEW sub \in [Places -> SUBSET S]
    PROVE  MovesWell(S, sub, n, s, MovedSet(S, n, s), MovedSub(sub, n, s))
  <1>1. S \subseteq Nodes /\ n \in Nodes /\ SENTINEL \notin Nodes /\ Nodes \subseteq Places
        /\ SENTINEL \in Places /\ n # s
    BY RbTreeAssumption DEF Places
  <1>2. Moved(SENTINEL, n, s) = SENTINEL
    BY <1>1 DEF Moved
  <1>3. \A y \in S : Moved(y, n, s) \in MovedSet(S, n, s)
    BY DEF MovedSet
  <1>4. \A x \in MovedSet(S, n, s) : \E y \in S : x = Moved(y, n, s)
    BY DEF MovedSet
  <1>5. MovedSet(S, n, s) = (S \ {n}) \cup {s}
    BY <1>1 DEF Moved, MovedSet
  <1>6. \A y, z \in S \cup {SENTINEL} : Moved(y, n, s) = Moved(z, n, s) => y = z
    BY <1>1 DEF Moved
  <1>7. \A X \in SUBSET S : MovedSet(X, n, s) \subseteq MovedSet(S, n, s)
    BY DEF MovedSet
  <1>8. \A x \in Places : MovedSub(sub, n, s)[x] =
            IF x = n THEN {} ELSE MovedSet(sub[IF x = s THEN n ELSE x], n, s)
    BY DEF MovedSub
  <1>9. MovedSub(sub, n, s) \in [Places -> SUBSET MovedSet(S, n, s)]
    <2>1. \A x \in Places : sub[IF x = s THEN n ELSE x] \in SUBSET S
      BY <1>1
    <2>2. \A x \in Places : (IF x = n THEN {} ELSE MovedSet(sub[IF x = s THEN n ELSE x], n, s))
                               \in SUBSET MovedSet(S, n, s)
      BY <1>7, <2>1
    <2> QED BY <2>2 DEF MovedSub
  <1>10. ASSUME NEW y \in S \cup {SENTINEL}
         PROVE  MovedSub(sub, n, s)[Moved(y, n, s)] = MovedSet(sub[y], n, s)
    <2>1. CASE y = n
      BY <1>1, <1>8, <2>1 DEF Moved
    <2>2. CASE y # n
      BY <1>1, <1>8, <2>2 DEF Moved
    <2> QED BY <2>1, <2>2
  <1> QED BY <1>2, <1>3, <1>4, <1>5, <1>6, <1>9, <1>10 DEF MovesWell

\* The new name must be in the order where the old one was.
LEMMA RenameShape ==
    ASSUME NEW V, NEW S, NEW sub, IsTree(V, S, sub),
           NEW n \in S, NEW s \in Nodes \ S, NEW R, Renamed(V, R, S, n, s),
           \A e \in Side : \A m \in sub[V.child[e][n]] : m # s /\ Toward(m, s) = e,
           \A x \in S \ {n}, e \in Side : n \in sub[V.child[e][x]] => s # x /\ Toward(s, x) = e
    PROVE  IsTree(R, MovedSet(S, n, s), MovedSub(sub, n, s))
  <1>0. S \in SUBSET Nodes /\ sub \in [Places -> SUBSET S] /\ S \subseteq Places
    BY DEF IsTree, Places
  <1> DEFINE F(y) == Moved(y, n, s)
  <1>1. PICK S2 : S2 = MovedSet(S, n, s)
    OBVIOUS
  <1>2. PICK sub2 : sub2 = MovedSub(sub, n, s)
    OBVIOUS
  <1>3. /\ F(SENTINEL) = SENTINEL
        /\ \A y \in S : F(y) \in S2
        /\ \A x \in S2 : \E y \in S : x = F(y)
        /\ S2 = (S \ {n}) \cup {s}
        /\ \A y, z \in S \cup {SENTINEL} : F(y) = F(z) => y = z
        /\ sub2 \in [Places -> SUBSET S2]
        /\ \A y \in S \cup {SENTINEL} : sub2[F(y)] = MovedSet(sub[y], n, s)
    <2>1. MovesWell(S, sub, n, s, MovedSet(S, n, s), MovedSub(sub, n, s))
      BY <1>0, MovedFacts
    <2>2. MovesWell(S, sub, n, s, S2, sub2)
      BY <1>1, <1>2, <2>1
    <2> QED BY <2>2 DEF MovesWell
  <1>4. \A X, y : y \in MovedSet(X, n, s) <=> \E z \in X : y = F(z)
    BY DEF MovedSet
  <1>5. /\ R \in Trees /\ NoChildren(R, S2)
        /\ R.root = F(V.root)
        /\ R.root # SENTINEL => R.parent[R.root] \notin S2
        /\ \A y \in S, e \in Side : R.child[e][F(y)] = F(V.child[e][y])
        /\ \A y \in S \ {V.root} : R.parent[F(y)] = F(V.parent[y])
    BY <1>1 DEF Renamed
  <1>6. /\ V.root \in S \cup {SENTINEL} /\ sub[V.root] = S /\ sub[SENTINEL] = {}
        /\ SENTINEL \notin S /\ SENTINEL \in Places
        /\ \A y \in S, e \in Side : V.child[e][y] \in S \cup {SENTINEL}
        /\ "left" \in Side /\ "right" \in Side
    BY RbTreeAssumption DEF IsTree, Side, Places
  <1>7. \A y : F(y) = IF y = n THEN s ELSE y
    BY DEF Moved
  <1> HIDE DEF F
  <1>8. S2 \subseteq Nodes /\ IsFiniteSet(S2)
    <2>1. IsFiniteSet(S)
      BY DEF IsTree
    <2>2. IsFiniteSet(S \ {n})
      BY <2>1, FS_RemoveElement
    <2>3. IsFiniteSet((S \ {n}) \cup {s})
      BY <2>2, FS_AddElement
    <2> QED BY <1>0, <1>3, <2>3
  <1>9. sub2[R.root] = S2 /\ sub2[SENTINEL] = {}
    <2>1. sub2[SENTINEL] = MovedSet({}, n, s)
      BY <1>3, <1>6
    <2>2. MovedSet({}, n, s) = {}
      BY <1>4
    <2> QED BY <1>1, <1>3, <1>5, <1>6, <2>1, <2>2
  <1>10. R.root # SENTINEL => R.root \in S2 /\ R.parent[R.root] \notin S2
    BY <1>3, <1>5, <1>6
  <1>11. ASSUME NEW x \in S2
         PROVE  sub2[x] = {x} \cup sub2[R.child["left"][x]] \cup sub2[R.child["right"][x]]
    <2>1. PICK y \in S : x = F(y)
      BY <1>3
    <2>2. sub[y] = {y} \cup sub[V.child["left"][y]] \cup sub[V.child["right"][y]]
      BY DEF IsTree
    <2>3. /\ sub2[x] = MovedSet(sub[y], n, s)
          /\ sub2[R.child["left"][x]] = MovedSet(sub[V.child["left"][y]], n, s)
          /\ sub2[R.child["right"][x]] = MovedSet(sub[V.child["right"][y]], n, s)
      BY <1>3, <1>5, <1>6, <2>1
    <2>4. PICK A, B : A = sub[V.child["left"][y]] /\ B = sub[V.child["right"][y]]
      OBVIOUS
    <2>5. MovedSet({y} \cup A \cup B, n, s) = {F(y)} \cup MovedSet(A, n, s) \cup MovedSet(B, n, s)
      BY <1>4
    <2> QED BY <2>1, <2>2, <2>3, <2>4, <2>5
  <1>12. ASSUME NEW x \in S2, NEW e \in Side
         PROVE  /\ R.child[e][x] \in S2 \cup {SENTINEL}
                /\ R.child[e][x] # SENTINEL => R.parent[R.child[e][x]] = x
                /\ \A m \in sub2[R.child[e][x]] : m # x /\ Toward(m, x) = e
    <2>1. PICK y \in S : x = F(y)
      BY <1>3
    <2>2. PICK c : c = V.child[e][y]
      OBVIOUS
    <2>3. c \in S \cup {SENTINEL} /\ R.child[e][x] = F(c)
      BY <1>5, <1>6, <2>1, <2>2
    <2>4. F(c) \in S2 \cup {SENTINEL}
      BY <1>3, <2>3
    <2>5. F(c) # SENTINEL => R.parent[F(c)] = x
      <3> SUFFICES ASSUME F(c) # SENTINEL PROVE R.parent[F(c)] = x
        OBVIOUS
      <3>1. c # SENTINEL
        BY <1>3
      <3>2. c \in S /\ c # V.root /\ V.parent[c] = y
        BY <2>2, <2>3, <3>1, ChildFacts
      <3> QED BY <1>5, <2>1, <3>2
    <2>6. ASSUME NEW m \in sub2[F(c)] PROVE m # x /\ Toward(m, x) = e
      <3>1. PICK z \in sub[c] : m = F(z)
        BY <1>3, <1>4, <2>3
      <3>2. z \in S /\ z # y /\ Toward(z, y) = e
        <4>1. z # y /\ Toward(z, y) = e
          BY <2>2, <3>1 DEF IsTree
        <4>2. c \in Places
          BY <1>0, <1>6, <2>3
        <4> QED BY <1>0, <3>1, <4>1, <4>2
      <3>3. CASE y = n
        <4>1. m = z /\ x = s
          BY <1>7, <2>1, <3>1, <3>2, <3>3
        <4> QED BY <2>2, <3>1, <3>3, <4>1
      <3>4. CASE y # n
        <4>1. x = y
          BY <1>7, <2>1, <3>4
        <4>2. CASE z = n
          BY <1>7, <2>2, <3>1, <3>4, <4>1, <4>2
        <4>3. CASE z # n
          BY <1>7, <3>1, <3>2, <4>1, <4>3
        <4> QED BY <4>2, <4>3
      <3> QED BY <3>3, <3>4
    <2> QED BY <2>3, <2>4, <2>5, <2>6
  <1>13. ASSUME NEW x \in S2 \ {R.root}
         PROVE  /\ R.parent[x] \in S2
                /\ \E e \in Side : R.child[e][R.parent[x]] = x
    <2>1. PICK y \in S : x = F(y)
      BY <1>3
    <2>2. y # V.root
      BY <1>5, <2>1
    <2>3. V.parent[y] \in S /\ \E e \in Side : V.child[e][V.parent[y]] = y
      BY <2>2 DEF IsTree
    <2>4. R.parent[x] = F(V.parent[y])
      BY <1>5, <2>1, <2>2
    <2>5. PICK e \in Side : V.child[e][V.parent[y]] = y
      BY <2>3
    <2>6. R.child[e][R.parent[x]] = x
      BY <1>5, <2>1, <2>3, <2>4, <2>5
    <2> QED BY <1>3, <2>3, <2>4, <2>6
  <1>14. ASSUME NEW x \in S2, NEW m \in sub2[x]
         PROVE  /\ sub2[m] \subseteq sub2[x]
                /\ m # x => R.parent[m] \in sub2[x]
    <2>1. PICK y \in S : x = F(y)
      BY <1>3
    <2>2. PICK z \in sub[y] : m = F(z)
      BY <1>3, <1>4, <2>1
    <2>3. z \in S
      BY <1>0, <2>2
    <2>4. sub[z] \subseteq sub[y] /\ (z # y => V.parent[z] \in sub[y])
      BY <2>2 DEF IsTree
    <2>5. sub2[x] = MovedSet(sub[y], n, s) /\ sub2[m] = MovedSet(sub[z], n, s)
      BY <1>3, <2>1, <2>2, <2>3
    <2>6. sub2[m] \subseteq sub2[x]
      BY <1>4, <2>4, <2>5
    <2>7. m # x => R.parent[m] \in sub2[x]
      <3> SUFFICES ASSUME m # x PROVE R.parent[m] \in sub2[x]
        OBVIOUS
      <3>1. z # y
        BY <2>1, <2>2
      <3>2. z # V.root
        <4>1. z = V.root => sub[y] = S /\ V.parent[z] \notin S
          <5>1. sub[y] \subseteq S
            BY <1>0
          <5>2. V.root # SENTINEL => V.parent[V.root] \notin S
            BY DEF IsTree
          <5> QED BY <1>6, <2>3, <2>4, <5>1, <5>2
        <4>2. V.parent[z] \in S
          BY <1>0, <2>4, <3>1
        <4> QED BY <4>1, <4>2
      <3>3. R.parent[m] = F(V.parent[z])
        BY <1>5, <2>2, <2>3, <3>2
      <3> QED BY <1>4, <2>4, <2>5, <3>1, <3>3
    <2> QED BY <2>6, <2>7
  <1>15. IsTree(R, S2, sub2)
    BY <1>3, <1>5, <1>8, <1>9, <1>10, <1>11, <1>12, <1>13, <1>14 DEF IsTree
  <1> QED BY <1>1, <1>2, <1>15

\* The colours go with the names.
MovedBh(bh, n, s) == [x \in Places |-> IF x = s THEN bh[n] ELSE bh[x]]

SameReds(V, R, S, n, s) == \A y \in S \cup {SENTINEL} : R.red[Moved(y, n, s)] <=> V.red[y]

\* The tree with the changed name is coloured as before.
LEMMA RenameColors ==
    ASSUME NEW V, NEW S, NEW sub, IsTree(V, S, sub), NEW bh, IsColored(V, S, bh, NULL),
           NEW n \in S, NEW s \in Nodes \ S, NEW R, Renamed(V, R, S, n, s),
           SameReds(V, R, S, n, s)
    PROVE  IsColored(R, MovedSet(S, n, s), MovedBh(bh, n, s), NULL)
  <1> DEFINE F(y) == Moved(y, n, s)
  <1>0. S \in SUBSET Nodes /\ sub \in [Places -> SUBSET S] /\ S \subseteq Places
        /\ SENTINEL \in Places /\ SENTINEL \notin S /\ NULL \notin Places /\ s # SENTINEL
        /\ s \in Places /\ s \notin S /\ V.root \in S \cup {SENTINEL}
        /\ \A y \in S, e \in Side : V.child[e][y] \in S \cup {SENTINEL}
    BY RbTreeAssumption DEF IsTree, Places
  <1>1. PICK S2 : S2 = MovedSet(S, n, s)
    OBVIOUS
  <1>2. PICK b : b = MovedBh(bh, n, s)
    OBVIOUS
  <1>3. F(SENTINEL) = SENTINEL /\ \A x \in S2 : \E y \in S : x = F(y)
    <2>1. MovesWell(S, sub, n, s, S2, MovedSub(sub, n, s))
      BY <1>0, <1>1, MovedFacts
    <2> QED BY <2>1 DEF MovesWell
  <1>4. /\ R.root = F(V.root)
        /\ \A y \in S, e \in Side : R.child[e][F(y)] = F(V.child[e][y])
    BY DEF Renamed
  <1>5. \A y \in S \cup {SENTINEL} : R.red[F(y)] <=> V.red[y]
    BY DEF SameReds
  <1>6. /\ bh \in [Places -> Nat] /\ bh[SENTINEL] = 0 /\ ~V.red[SENTINEL]
        /\ \A y \in S, e \in Side :
              /\ bh[y] = bh[V.child[e][y]] + (IF V.red[y] THEN 0 ELSE 1)
              /\ V.red[y] /\ V.red[V.child[e][y]] => V.child[e][y] = NULL
        /\ V.red[V.root] => V.root = NULL
    BY DEF IsColored
  <1>7. b \in [Places -> Nat] /\ \A x \in Places : b[x] = IF x = s THEN bh[n] ELSE bh[x]
    BY <1>0, <1>2, <1>6 DEF MovedBh
  <1>8. \A y \in S \cup {SENTINEL} : b[F(y)] = bh[y]
    BY <1>0, <1>7 DEF Moved
  <1> HIDE DEF F
  <1>9. b[SENTINEL] = 0 /\ ~R.red[SENTINEL] /\ ~R.red[R.root]
    BY <1>0, <1>3, <1>4, <1>5, <1>6, <1>8
  <1>10. ASSUME NEW x \in S2, NEW e \in Side
         PROVE  /\ b[x] = b[R.child[e][x]] + (IF R.red[x] THEN 0 ELSE 1)
                /\ ~(R.red[x] /\ R.red[R.child[e][x]])
    <2>1. PICK y \in S : x = F(y)
      BY <1>3
    <2>2. PICK c : c = V.child[e][y]
      OBVIOUS
    <2>3. c \in S \cup {SENTINEL} /\ c # NULL /\ R.child[e][x] = F(c)
      BY <1>0, <1>4, <2>1, <2>2
    <2>4. /\ bh[y] = bh[c] + (IF V.red[y] THEN 0 ELSE 1)
          /\ ~(V.red[y] /\ V.red[c])
      BY <1>6, <2>2, <2>3
    <2>5. b[x] = bh[y] /\ b[F(c)] = bh[c] /\ (R.red[x] <=> V.red[y]) /\ (R.red[F(c)] <=> V.red[c])
      BY <1>5, <1>8, <2>1, <2>3
    <2> QED BY <2>3, <2>4, <2>5
  <1>11. IsColored(R, S2, b, NULL)
    BY <1>7, <1>9, <1>10 DEF IsColored
  <1> QED BY <1>1, <1>2, <1>11

\* So does what is lacking.
LEMMA RenameShort ==
    ASSUME NEW V, NEW S, NEW sub, IsTree(V, S, sub),
           NEW bh, NEW z, NEW p, NEW d, IsShort(V, S, bh, z, p, d),
           NEW n \in S, NEW s \in Nodes \ S, NEW R, Renamed(V, R, S, n, s),
           SameReds(V, R, S, n, s), R.parent[Moved(z, n, s)] = Moved(p, n, s)
    PROVE  IsShort(R, MovedSet(S, n, s), MovedBh(bh, n, s), Moved(z, n, s), Moved(p, n, s), d)
  <1> DEFINE F(y) == Moved(y, n, s)
  <1>0. S \in SUBSET Nodes /\ sub \in [Places -> SUBSET S] /\ S \subseteq Places
        /\ SENTINEL \in Places /\ SENTINEL \notin S /\ NULL \notin Places /\ s # SENTINEL
        /\ s \in Places /\ s \notin S /\ V.root \in S \cup {SENTINEL}
        /\ \A y \in S, e \in Side : V.child[e][y] \in S \cup {SENTINEL}
    BY RbTreeAssumption DEF IsTree, Places
  <1>1. PICK S2 : S2 = MovedSet(S, n, s)
    OBVIOUS
  <1>2. PICK b : b = MovedBh(bh, n, s)
    OBVIOUS
  <1>3. /\ F(SENTINEL) = SENTINEL /\ \A x \in S2 : \E y \in S : x = F(y)
        /\ \A y \in S : F(y) \in S2
        /\ \A y, x \in S \cup {SENTINEL} : F(y) = F(x) => y = x
    <2>1. MovesWell(S, sub, n, s, S2, MovedSub(sub, n, s))
      BY <1>0, <1>1, MovedFacts
    <2> QED BY <2>1 DEF MovesWell
  <1>4. /\ R.root = F(V.root)
        /\ \A y \in S, e \in Side : R.child[e][F(y)] = F(V.child[e][y])
    BY DEF Renamed
  <1>5. \A y \in S \cup {SENTINEL} : R.red[F(y)] <=> V.red[y]
    BY DEF SameReds
  <1>6. /\ bh \in [Places -> Nat] /\ bh[SENTINEL] = 0 /\ ~V.red[SENTINEL] /\ ~V.red[V.root]
        /\ p \in S /\ d \in Side /\ V.child[d][p] = z /\ V.parent[z] = p
        /\ \A y \in S, e \in Side :
              /\ bh[y] = bh[V.child[e][y]] + (IF y = p /\ e = d THEN 1 ELSE 0)
                           + (IF V.red[y] THEN 0 ELSE 1)
              /\ V.red[y] /\ V.red[V.child[e][y]] => z \in {y, V.child[e][y]}
    BY DEF IsShort
  <1>7. b \in [Places -> Nat] /\ \A x \in Places : b[x] = IF x = s THEN bh[n] ELSE bh[x]
    BY <1>0, <1>2, <1>6 DEF MovedBh
  <1>8. \A y \in S \cup {SENTINEL} : b[F(y)] = bh[y]
    BY <1>0, <1>7 DEF Moved
  <1>a. R.parent[F(z)] = F(p)
    OBVIOUS
  <1> HIDE DEF F
  <1>9. b[SENTINEL] = 0 /\ ~R.red[SENTINEL] /\ ~R.red[R.root]
    BY <1>0, <1>3, <1>4, <1>5, <1>6, <1>8
  <1>10. ASSUME NEW x \in S2, NEW e \in Side
         PROVE  /\ b[x] = b[R.child[e][x]] + (IF x = F(p) /\ e = d THEN 1 ELSE 0)
                            + (IF R.red[x] THEN 0 ELSE 1)
                /\ R.red[x] /\ R.red[R.child[e][x]] => F(z) \in {x, R.child[e][x]}
    <2>1. PICK y \in S : x = F(y)
      BY <1>3
    <2>2. PICK c : c = V.child[e][y]
      OBVIOUS
    <2>3. c \in S \cup {SENTINEL} /\ R.child[e][x] = F(c)
      BY <1>0, <1>4, <2>1, <2>2
    <2>4. /\ bh[y] = bh[c] + (IF y = p /\ e = d THEN 1 ELSE 0)
                           + (IF V.red[y] THEN 0 ELSE 1)
          /\ V.red[y] /\ V.red[c] => z \in {y, c}
      BY <1>6, <2>2
    <2>5. b[x] = bh[y] /\ b[F(c)] = bh[c] /\ (R.red[x] <=> V.red[y]) /\ (R.red[F(c)] <=> V.red[c])
      BY <1>5, <1>8, <2>1, <2>3
    <2>6. x = F(p) <=> y = p
      BY <1>3, <1>6, <2>1
    <2>7. b[x] = b[R.child[e][x]] + (IF x = F(p) /\ e = d THEN 1 ELSE 0)
                   + (IF R.red[x] THEN 0 ELSE 1)
      BY <2>3, <2>4, <2>5, <2>6
    <2>8. R.red[x] /\ R.red[R.child[e][x]] => F(z) \in {x, R.child[e][x]}
      BY <2>1, <2>3, <2>4, <2>5
    <2> QED BY <2>7, <2>8
  <1>11. F(p) \in S2 /\ R.child[d][F(p)] = F(z)
    BY <1>3, <1>4, <1>6
  <1>12. IsShort(R, S2, b, F(z), F(p), d)
    BY <1>6, <1>7, <1>9, <1>10, <1>11, <1>a DEF IsShort
  <1> QED BY <1>1, <1>2, <1>12 DEF F

\* A red node that is taken out lacks no one; below the parent of a black one, one black
\* node is lacking.
LEMMA SpliceColors ==
    ASSUME NEW T, NEW S, NEW sub, IsTree(T, S, sub), NEW bh, IsColored(T, S, bh, NULL),
           NEW s \in S, s # T.root, NEW k \in Side, T.child[k][s] = SENTINEL,
           NEW z, z = T.child[Other(k)][s],
           NEW R, Spliced(T, S, s, z, R), R.red = T.red, R.parent[z] = T.parent[s]
    PROVE  /\ T.red[s] => IsColored(R, S \ {s}, bh, NULL)
           /\ ~T.red[s] => IsShort(R, S \ {s}, bh, z, T.parent[s], SideOf(T, s))
  <1> DEFINE q == T.parent[s]
             f == SideOf(T, s)
  <1>1. /\ S \subseteq Places /\ SENTINEL \in Places /\ SENTINEL \notin S /\ NULL \notin Places
        /\ T.root \in S \cup {SENTINEL}
        /\ \A y \in S, e \in Side : T.child[e][y] \in S \cup {SENTINEL}
        /\ Other(k) \in Side
    BY RbTreeAssumption DEF IsTree, Places, Side, Other
  <1>2. /\ bh \in [Places -> Nat] /\ bh[SENTINEL] = 0 /\ ~T.red[SENTINEL]
        /\ \A y \in S, e \in Side :
              /\ bh[y] = bh[T.child[e][y]] + (IF T.red[y] THEN 0 ELSE 1)
              /\ T.red[y] /\ T.red[T.child[e][y]] => T.child[e][y] = NULL
        /\ T.red[T.root] => T.root = NULL
    BY DEF IsColored
  <1>3. q \in S \ {s} /\ f \in Side /\ T.child[f][q] = s
    BY ParentFacts
  <1>4. \A y \in S, e \in Side : T.child[e][y] = s <=> y = q /\ e = f
    <2> TAKE y \in S, e \in Side
    <2>1. T.child[e][y] # SENTINEL => T.parent[T.child[e][y]] = y /\ SideOf(T, T.child[e][y]) = e
      BY ChildFacts
    <2> QED BY <1>1, <1>3, <2>1
  <1>5. /\ R.root = T.root
        /\ \A x \in S \ {s}, e \in Side :
              R.child[e][x] = IF T.child[e][x] = s THEN z ELSE T.child[e][x]
    BY DEF Spliced
  <1>6. z \in S \cup {SENTINEL} /\ bh[z] \in Nat /\ bh[s] \in Nat
        /\ bh[s] = bh[z] + (IF T.red[s] THEN 0 ELSE 1)
        /\ ~(T.red[s] /\ T.red[z])
    BY <1>1, <1>2
  <1> HIDE DEF q, f
  <1>7. ~T.red[T.root]
    BY <1>1, <1>2
  <1>8. ASSUME NEW x \in S \ {s}, NEW e \in Side
        PROVE  /\ bh[x] = bh[R.child[e][x]] + (IF x = q /\ e = f /\ ~T.red[s] THEN 1 ELSE 0)
                            + (IF T.red[x] THEN 0 ELSE 1)
               /\ T.red[x] /\ T.red[R.child[e][x]] => R.child[e][x] = z /\ ~T.red[s]
    <2>1. PICK c : c = T.child[e][x]
      OBVIOUS
    <2>2. /\ c \in S \cup {SENTINEL} /\ c # NULL /\ bh[c] \in Nat
          /\ bh[x] = bh[c] + (IF T.red[x] THEN 0 ELSE 1)
          /\ ~(T.red[x] /\ T.red[c])
      BY <1>1, <1>2, <2>1
    <2>3. R.child[e][x] = (IF c = s THEN z ELSE c) /\ (c = s <=> x = q /\ e = f)
      BY <1>4, <1>5, <2>1
    <2>4. CASE c = s
      <3>1. R.child[e][x] = z /\ x = q /\ e = f
        BY <2>3, <2>4
      <3>2. bh[x] = bh[z] + (IF T.red[s] THEN 0 ELSE 1) + (IF T.red[x] THEN 0 ELSE 1)
        BY <1>6, <2>2, <2>4
      <3>3. bh[x] = bh[z] + (IF ~T.red[s] THEN 1 ELSE 0) + (IF T.red[x] THEN 0 ELSE 1)
        BY <3>2
      <3>4. T.red[x] => ~T.red[s]
        BY <2>2, <2>4
      <3> QED BY <3>1, <3>3, <3>4
    <2>5. CASE c # s
      BY <2>2, <2>3, <2>5
    <2> QED BY <2>4, <2>5
  <1>9. ASSUME T.red[s] PROVE IsColored(R, S \ {s}, bh, NULL)
    <2>1. \A x \in S \ {s}, e \in Side :
             /\ bh[x] = bh[R.child[e][x]] + (IF R.red[x] THEN 0 ELSE 1)
             /\ ~(R.red[x] /\ R.red[R.child[e][x]])
      <3> TAKE x \in S \ {s}, e \in Side
      <3>1. /\ bh[x] = bh[R.child[e][x]] + 0 + (IF T.red[x] THEN 0 ELSE 1)
            /\ ~(T.red[x] /\ T.red[R.child[e][x]])
        BY <1>8, <1>9
      <3>2. bh[R.child[e][x]] \in Nat
        BY <1>1, <1>2, <1>5, <1>6
      <3> QED BY <3>1, <3>2
    <2> QED BY <1>2, <1>5, <1>7, <2>1 DEF IsColored
  <1>10. ASSUME ~T.red[s] PROVE IsShort(R, S \ {s}, bh, z, q, f)
    <2>1. \A x \in S \ {s}, e \in Side :
             /\ bh[x] = bh[R.child[e][x]] + (IF x = q /\ e = f THEN 1 ELSE 0)
                         + (IF R.red[x] THEN 0 ELSE 1)
             /\ R.red[x] /\ R.red[R.child[e][x]] => z \in {x, R.child[e][x]}
      BY <1>8, <1>10
    <2>2. R.child[f][q] = z /\ R.parent[z] = q
      BY <1>3, <1>5 DEF q
    <2> QED BY <1>2, <1>3, <1>5, <1>7, <2>1, <2>2 DEF IsShort
  <1> QED BY <1>9, <1>10 DEF q, f

-----------------------------------------------------------------------------
(* The assignments of a deletion *)

\* The node n is where its parent has it, and nowhere else.
Hangs(T, n) ==
    /\ n # T.root => T.parent[n] \in Nodes
    /\ \A e \in Side, x \in Nodes :
          T.child[e][x] = n <=> n # T.root /\ x = T.parent[n] /\ e = SideOf(T, n)

\* Every node of a tree is so.
LEMMA TreeHangs ==
    ASSUME NEW T, NEW S, NEW sub, IsTree(T, S, sub), NEW n \in S
    PROVE  Hangs(T, n)
  <1>1. S \subseteq Nodes /\ SENTINEL \notin Nodes /\ NULL \notin Nodes
    BY RbTreeAssumption DEF IsTree
  <1>2. ASSUME NEW e \in Side, NEW x \in Nodes, T.child[e][x] = n
        PROVE  n # T.root /\ x = T.parent[n] /\ e = SideOf(T, n)
    <2>1. x \in S
      BY <1>1, <1>2 DEF IsTree, NoChildren
    <2> QED BY <1>1, <1>2, <2>1, ChildFacts
  <1>3. n # T.root => /\ T.parent[n] \in S /\ SideOf(T, n) \in Side
                      /\ T.child[SideOf(T, n)][T.parent[n]] = n
    BY ParentFacts
  <1> QED BY <1>1, <1>2, <1>3 DEF Hangs

\* The fields of Replace where n hangs.
LEMMA ReplaceHanging ==
    ASSUME NEW T \in Trees, NEW n \in Nodes, Hangs(T, n), NEW up \in Nodes, up # n
    PROVE  /\ Replace(T, n, up) \in Trees
           /\ Replace(T, n, up).red = T.red
           /\ Replace(T, n, up).root = IF n = T.root THEN up ELSE T.root
           /\ Replace(T, n, up).parent = [T.parent EXCEPT ![up] = T.parent[n]]
           /\ \A e \in Side, x \in Nodes : Replace(T, n, up).child[e][x] =
                 IF T.child[e][x] = n THEN up ELSE T.child[e][x]
  <1> DEFINE s == SideOf(T, n)
             q == T.parent[n]
             T1 == WithParent(T, up, q)
  <1>1. up \in Places /\ n \in Places
    BY DEF Places
  <1>2. q \in Nodes \cup {NULL} /\ s \in Side
    BY <1>1 DEF Trees, SideOf, Side
  <1>3. /\ T1 \in Trees /\ T1.parent = [T.parent EXCEPT ![up] = q] /\ T1.child = T.child
        /\ T1.root = T.root /\ T1.red = T.red
    <2> HIDE DEF q
    <2> QED BY <1>1, <1>2, ParentSet
  <1>4. CASE n = T.root
    <2>1. Replace(T, n, up) = WithRoot(T1, up)
      BY <1>4 DEF Replace, WithRoot, WithParent
    <2>2. \A e \in Side, x \in Nodes : T.child[e][x] # n
      BY <1>4 DEF Hangs
    <2> HIDE DEF T1, s
    <2> QED BY <1>1, <1>3, <1>4, <2>1, <2>2, RootSet
  <1>5. CASE n # T.root
    <2>1. q \in Nodes /\ \A e \in Side, x \in Nodes : T.child[e][x] = n <=> (e = s /\ x = q)
      BY <1>5 DEF Hangs
    <2>2. Replace(T, n, up) = WithChild(T1, s, q, up)
      BY <1>5 DEF Replace, WithChild, WithParent
    <2> HIDE DEF T1, s
    <2>3. up \in Places \cup {NULL}
      BY <1>1
    <2>4. /\ Replace(T, n, up) \in Trees
          /\ Replace(T, n, up).root = T1.root
          /\ Replace(T, n, up).parent = T1.parent
          /\ Replace(T, n, up).red = T1.red
          /\ \A e \in Side, x \in Nodes : Replace(T, n, up).child[e][x] =
                IF e = s /\ x = q THEN up ELSE T1.child[e][x]
      BY <1>2, <1>3, <2>1, <2>2, <2>3, ChildSet, SMTT(60)
    <2> HIDE DEF q
    <2> QED BY <1>3, <1>5, <2>1, <2>4 DEF q
  <1> QED BY <1>4, <1>5

\* The node s is out, and z where it was, with the parent q.
Cut(T, s, z, q) == [T EXCEPT !.child[SideOf(T, s)][T.parent[s]] = z, !.parent[z] = q]

\* The fields of the tree then.
LEMMA CutFields ==
    ASSUME NEW T \in Trees, NEW s \in Nodes, s # T.root, Hangs(T, s),
           NEW z \in Places, NEW q \in Nodes \cup {NULL}
    PROVE  /\ Cut(T, s, z, q) \in Trees
           /\ Cut(T, s, z, q).root = T.root
           /\ Cut(T, s, z, q).red = T.red
           /\ Cut(T, s, z, q).parent = [T.parent EXCEPT ![z] = q]
           /\ \A e \in Side, x \in Nodes : Cut(T, s, z, q).child[e][x] =
                 IF T.child[e][x] = s THEN z ELSE T.child[e][x]
  <1>1. PICK p, f : p = T.parent[s] /\ f = SideOf(T, s)
    OBVIOUS
  <1>2. /\ p \in Nodes /\ f \in Side
        /\ \A e \in Side, x \in Nodes : T.child[e][x] = s <=> (e = f /\ x = p)
    BY <1>1 DEF Hangs, SideOf, Side
  <1>3. Cut(T, s, z, q) = WithParent(WithChild(T, f, p, z), z, q)
    BY <1>1 DEF Cut, WithParent, WithChild
  <1>4. PICK T1 : T1 = WithChild(T, f, p, z)
    OBVIOUS
  <1>5. z \in Places \cup {NULL}
    OBVIOUS
  <1>6. /\ T1 \in Trees /\ T1.root = T.root /\ T1.parent = T.parent /\ T1.red = T.red
        /\ \A e \in Side, x \in Nodes : T1.child[e][x] =
              IF e = f /\ x = p THEN z ELSE T.child[e][x]
    BY <1>2, <1>4, <1>5, ChildSet
  <1>7. PICK T2 : T2 = WithParent(T1, z, q)
    OBVIOUS
  <1>8. /\ T2 \in Trees /\ T2.parent = [T1.parent EXCEPT ![z] = q]
        /\ T2.child = T1.child /\ T2.root = T1.root /\ T2.red = T1.red
    BY <1>6, <1>7, ParentSet
  <1>9. Cut(T, s, z, q) = T2
    BY <1>3, <1>4, <1>7
  <1> QED BY <1>2, <1>6, <1>8, <1>9

\* A deleted node has no fields.
LEMMA ClearFields ==
    ASSUME NEW T \in Trees, NEW n \in Nodes
    PROVE  /\ Clear(T, n) \in Trees
           /\ Clear(T, n).root = T.root
           /\ Clear(T, n).red = T.red
           /\ Clear(T, n).parent = [T.parent EXCEPT ![n] = NULL]
           /\ \A e \in Side, x \in Nodes : Clear(T, n).child[e][x] =
                 IF x = n THEN NULL ELSE T.child[e][x]
  <1>1. Clear(T, n) = WithParent(WithChild(WithChild(T, "left", n, NULL), "right", n, NULL), n, NULL)
    BY DEF Clear, WithParent, WithChild
  <1>2. PICK T1 : T1 = WithChild(T, "left", n, NULL)
    OBVIOUS
  <1>3. /\ "left" \in Side /\ "right" \in Side /\ \A e \in Side : e = "left" \/ e = "right"
        /\ n \in Places /\ NULL \in Places \cup {NULL} /\ NULL \in Nodes \cup {NULL}
    BY DEF Side, Places
  <1>4. /\ T1 \in Trees /\ T1.root = T.root /\ T1.parent = T.parent /\ T1.red = T.red
        /\ \A e \in Side, x \in Nodes : T1.child[e][x] =
              IF e = "left" /\ x = n THEN NULL ELSE T.child[e][x]
    BY <1>2, <1>3, ChildSet
  <1>5. PICK T2 : T2 = WithChild(T1, "right", n, NULL)
    OBVIOUS
  <1>6. /\ T2 \in Trees /\ T2.root = T1.root /\ T2.parent = T1.parent /\ T2.red = T1.red
        /\ \A e \in Side, x \in Nodes : T2.child[e][x] =
              IF e = "right" /\ x = n THEN NULL ELSE T1.child[e][x]
    BY <1>3, <1>4, <1>5, ChildSet, SMTT(60)
  <1>7. PICK T3 : T3 = WithParent(T2, n, NULL)
    OBVIOUS
  <1>8. /\ T3 \in Trees /\ T3.parent = [T2.parent EXCEPT ![n] = NULL]
        /\ T3.child = T2.child /\ T3.root = T2.root /\ T3.red = T2.red
    BY <1>3, <1>6, <1>7, ParentSet, SMTT(60)
  <1>9. Clear(T, n) = T3
    BY <1>1, <1>2, <1>5, <1>7
  <1>10. \A e \in Side, x \in Nodes : T3.child[e][x] = IF x = n THEN NULL ELSE T.child[e][x]
    <2> TAKE e \in Side, x \in Nodes
    <2>1. T3.child[e][x] = T2.child[e][x]
      BY <1>8
    <2>2. CASE e = "left"
      BY <1>4, <1>6, <2>1, <2>2
    <2>3. CASE e = "right"
      BY <1>4, <1>6, <2>1, <2>3
    <2> QED BY <1>3, <2>2, <2>3
  <1> QED BY <1>4, <1>6, <1>8, <1>9, <1>10

\* A node gets children and a colour.
Endowed(T, s, a, b, c) ==
    [T EXCEPT !.child["left"][s] = a, !.child["right"][s] = b, !.red[s] = c]

\* The fields of the tree then.
LEMMA EndowedFields ==
    ASSUME NEW T \in Trees, NEW s \in Nodes, NEW a \in Places \cup {NULL},
           NEW b \in Places \cup {NULL}, NEW c \in BOOLEAN
    PROVE  /\ Endowed(T, s, a, b, c) \in Trees
           /\ Endowed(T, s, a, b, c).root = T.root
           /\ Endowed(T, s, a, b, c).red = [T.red EXCEPT ![s] = c]
           /\ Endowed(T, s, a, b, c).parent = T.parent
           /\ \A e \in Side, x \in Nodes : Endowed(T, s, a, b, c).child[e][x] =
                 IF x = s THEN IF e = "left" THEN a ELSE b ELSE T.child[e][x]
  <1>1. Endowed(T, s, a, b, c) = WithRed(WithChild(WithChild(T, "left", s, a), "right", s, b), s, c)
    BY DEF Endowed, WithRed, WithChild
  <1>2. PICK T1 : T1 = WithChild(T, "left", s, a)
    OBVIOUS
  <1>3. /\ "left" \in Side /\ "right" \in Side /\ \A e \in Side : e = "left" \/ e = "right"
        /\ s \in Places
    BY DEF Side, Places
  <1>4. /\ T1 \in Trees /\ T1.root = T.root /\ T1.parent = T.parent /\ T1.red = T.red
        /\ \A e \in Side, x \in Nodes : T1.child[e][x] =
              IF e = "left" /\ x = s THEN a ELSE T.child[e][x]
    <2>1. WithChild(T, "left", s, a) \in Trees /\ WithChild(T, "left", s, a).root = T.root
          /\ WithChild(T, "left", s, a).parent = T.parent /\ WithChild(T, "left", s, a).red = T.red
      BY <1>3, ChildSet
    <2>2. \A e \in Side, x \in Nodes : WithChild(T, "left", s, a).child[e][x] =
              IF e = "left" /\ x = s THEN a ELSE T.child[e][x]
      BY <1>3 DEF Trees, WithChild
    <2> QED BY <1>2, <2>1, <2>2
  <1>5. PICK T2 : T2 = WithChild(T1, "right", s, b)
    OBVIOUS
  <1>6. /\ T2 \in Trees /\ T2.root = T1.root /\ T2.parent = T1.parent /\ T2.red = T1.red
        /\ \A e \in Side, x \in Nodes : T2.child[e][x] =
              IF e = "right" /\ x = s THEN b ELSE T1.child[e][x]
    <2>1. WithChild(T1, "right", s, b) \in Trees /\ WithChild(T1, "right", s, b).root = T1.root
          /\ WithChild(T1, "right", s, b).parent = T1.parent /\ WithChild(T1, "right", s, b).red = T1.red
      BY <1>3, <1>4, ChildSet
    <2>2. \A e \in Side, x \in Nodes : WithChild(T1, "right", s, b).child[e][x] =
              IF e = "right" /\ x = s THEN b ELSE T1.child[e][x]
      BY <1>3, <1>4 DEF Trees, WithChild
    <2> QED BY <1>5, <2>1, <2>2
  <1>7. PICK T3 : T3 = WithRed(T2, s, c)
    OBVIOUS
  <1>8. /\ T3 \in Trees /\ T3.red = [T2.red EXCEPT ![s] = c]
        /\ T3.child = T2.child /\ T3.root = T2.root /\ T3.parent = T2.parent
    BY <1>3, <1>6, <1>7, RedSet
  <1>9. Endowed(T, s, a, b, c) = T3
    BY <1>1, <1>2, <1>5, <1>7
  <1>10. \A e \in Side, x \in Nodes : T3.child[e][x] =
            IF x = s THEN IF e = "left" THEN a ELSE b ELSE T.child[e][x]
    <2> TAKE e \in Side, x \in Nodes
    <2>1. T3.child[e][x] = T2.child[e][x]
      BY <1>8
    <2>2. CASE e = "left"
      BY <1>4, <1>6, <2>1, <2>2
    <2>3. CASE e = "right"
      BY <1>4, <1>6, <2>1, <2>3
    <2> QED BY <1>3, <2>2, <2>3
  <1> QED BY <1>4, <1>6, <1>8, <1>9, <1>10

\* The fields of a tree in which s took the place of n.
TakesPlace(U, W, n, s) ==
    /\ W \in Trees
    /\ W.root = IF n = U.root THEN s ELSE U.root
    /\ W.red = [U.red EXCEPT ![s] = U.red[n]]
    /\ \A e \in Side, x \in Nodes : W.child[e][x] =
          IF x = s THEN U.child[e][n]
          ELSE IF U.child[e][x] = n THEN s ELSE U.child[e][x]
    /\ \A m \in Places : W.parent[m] =
          IF m # SENTINEL /\ \E e \in Side : U.child[e][n] = m THEN s
          ELSE IF m = s THEN U.parent[n] ELSE U.parent[m]

\* TakePlace does that.
LEMMA TakePlaceFields ==
    ASSUME NEW U \in Trees, NEW n \in Nodes, Hangs(U, n), NEW s \in Nodes, s # n,
           \A e \in Side : U.child[e][n] # s /\ U.child[e][n] # n
    PROVE  TakesPlace(U, TakePlace(U, n, s), n, s)
  <1>1. PICK R1 : R1 = Replace(U, n, s)
    OBVIOUS
  <1>2. /\ R1 \in Trees /\ R1.red = U.red
        /\ R1.root = IF n = U.root THEN s ELSE U.root
        /\ R1.parent = [U.parent EXCEPT ![s] = U.parent[n]]
        /\ \A e \in Side, x \in Nodes : R1.child[e][x] =
              IF U.child[e][x] = n THEN s ELSE U.child[e][x]
    BY <1>1, ReplaceHanging
  <1>3. PICK a, b, c : a = U.child["left"][n] /\ b = U.child["right"][n] /\ c = U.red[n]
    OBVIOUS
  <1>4. /\ a \in Places \cup {NULL} /\ b \in Places \cup {NULL} /\ c \in BOOLEAN
        /\ "left" \in Side /\ "right" \in Side
        /\ \A e \in Side : e # "left" => e = "right"
    BY <1>3 DEF Trees, Side, Places
  <1>5. PICK E : E = Endowed(R1, s, a, b, c)
    OBVIOUS
  <1>6. /\ E \in Trees /\ E.root = R1.root /\ E.red = [R1.red EXCEPT ![s] = c]
        /\ E.parent = R1.parent
        /\ \A e \in Side, x \in Nodes : E.child[e][x] =
              IF x = s THEN IF e = "left" THEN a ELSE b ELSE R1.child[e][x]
    BY <1>2, <1>4, <1>5, EndowedFields, SMTT(60)
  <1>7. \A e \in Side : E.child[e][s] = U.child[e][n]
    BY <1>3, <1>4, <1>6
  <1> DEFINE ps == [m \in Places |->
                      IF m # SENTINEL /\ \E d \in Side : E.child[d][s] = m
                      THEN s ELSE E.parent[m]]
  <1>8. TakePlace(U, n, s) = [E EXCEPT !.parent = ps]
    BY <1>1, <1>3, <1>5 DEF TakePlace, Endowed
  <1>9. ps \in [Places -> Nodes \cup {NULL}]
    <2>1. \A m \in Places : E.parent[m] \in Nodes \cup {NULL}
      BY <1>6 DEF Trees
    <2> QED BY <2>1
  <1>10. \A m \in Places : ps[m] =
            IF m # SENTINEL /\ \E e \in Side : U.child[e][n] = m THEN s
            ELSE IF m = s THEN U.parent[n] ELSE U.parent[m]
    <2> TAKE m \in Places
    <2>1. E.parent[m] = IF m = s THEN U.parent[n] ELSE U.parent[m]
      BY <1>2, <1>6 DEF Trees
    <2>2. (\E d \in Side : E.child[d][s] = m) <=> (\E e \in Side : U.child[e][n] = m)
      BY <1>7
    <2>3. ps[m] = IF m # SENTINEL /\ \E d \in Side : E.child[d][s] = m
                  THEN s ELSE E.parent[m]
      OBVIOUS
    <2> HIDE DEF ps
    <2> QED BY <2>1, <2>2, <2>3
  <1> HIDE DEF ps
  <1>11. PICK R : R = TakePlace(U, n, s)
    OBVIOUS
  <1>12. R \in Trees /\ R.root = E.root /\ R.red = E.red /\ R.child = E.child /\ R.parent = ps
    BY <1>6, <1>8, <1>9, <1>11 DEF Trees
  <1>13. \A e \in Side, x \in Nodes : R.child[e][x] =
            IF x = s THEN U.child[e][n]
            ELSE IF U.child[e][x] = n THEN s ELSE U.child[e][x]
    BY <1>2, <1>6, <1>7, <1>12
  <1>14. TakesPlace(U, R, n, s)
    BY <1>2, <1>3, <1>6, <1>10, <1>12, <1>13 DEF TakesPlace
  <1> QED BY <1>11, <1>14

-----------------------------------------------------------------------------
(* Deletion *)

\* What rbtree_delete takes out of its place has at most one child; with two children it
\* is the next key that is taken out.
LEMMA SubstFacts ==
    ASSUME NEW T, NEW S, NEW sub, IsTree(T, S, sub), NEW n \in S,
           NEW s, s = Subst(T, n)
    PROVE  /\ s \in S
           /\ \E k \in Side : T.child[k][s] = SENTINEL /\ Riser(T, s) = T.child[Other(k)][s]
           /\ s # n => /\ T.child["right"][n] \in S /\ s \in sub[T.child["right"][n]]
                       /\ IsLeast(s, sub[T.child["right"][n]])
  <1>1. /\ "left" \in Side /\ "right" \in Side /\ Other("left") = "right" /\ Other("right") = "left"
        /\ \A d \in Side : d = "left" \/ d = "right"
        /\ \A d \in Side, y \in S : T.child[d][y] \in S \cup {SENTINEL}
        /\ sub \in [Places -> SUBSET S] /\ S \subseteq Places
    BY DEF IsTree, Side, Other, Places
  <1>2. CASE SENTINEL \in {T.child[d][n] : d \in Side}
    <2>1. s = n
      BY <1>2 DEF Subst
    <2>2. T.child["left"][n] = SENTINEL \/ T.child["right"][n] = SENTINEL
      BY <1>1, <1>2
    <2>3. \E k \in Side : T.child[k][n] = SENTINEL /\ Riser(T, n) = T.child[Other(k)][n]
      <3>1. CASE T.child["left"][n] = SENTINEL
        <4>1. Riser(T, n) = T.child["right"][n]
          BY <3>1 DEF Riser
        <4> QED BY <1>1, <3>1, <4>1
      <3>2. CASE T.child["left"][n] # SENTINEL
        <4>1. Riser(T, n) = T.child["left"][n]
          BY <3>2 DEF Riser
        <4> QED BY <1>1, <2>2, <3>2, <4>1
      <3> QED BY <3>1, <3>2
    <2> QED BY <2>1, <2>3
  <1>3. CASE SENTINEL \notin {T.child[d][n] : d \in Side}
    <2>1. s = Leftmost(T, T.child["right"][n])
      BY <1>3 DEF Subst
    <2>2. T.child["right"][n] # SENTINEL
      BY <1>1, <1>3
    <2>3. T.child["right"][n] \in S
      BY <1>1, <2>2
    <2>4. IsLeast(s, sub[T.child["right"][n]]) /\ T.child["left"][s] = SENTINEL
      BY <2>1, <2>3, LeftmostFacts
    <2>5. s \in sub[T.child["right"][n]]
      BY <2>4 DEF IsLeast
    <2>6. s \in S
      BY <1>1, <2>3, <2>5
    <2>7. Riser(T, s) = T.child["right"][s]
      BY <2>4 DEF Riser
    <2> QED BY <1>1, <2>3, <2>4, <2>5, <2>6, <2>7
  <1> QED BY <1>2, <1>3

\* A red-black tree.
IsBalanced(T, S) == \E sub, bh : IsTree(T, S, sub) /\ IsColored(T, S, bh, NULL)

\* The tree without s.
CutOut(T, s, z) == Clear(Cut(T, s, z, T.parent[s]), s)

\* What the cut leaves.
CutsOut(T, S, s, z, V) ==
    /\ Spliced(T, S, s, z, V) /\ V.red = T.red /\ V.parent[z] = T.parent[s]
    /\ V.root = T.root
    /\ \A e \in Side, x \in Nodes \ {s} :
          V.child[e][x] = IF T.child[e][x] = s THEN z ELSE T.child[e][x]
    /\ \A m \in Places \ {s} : V.parent[m] = IF m = z THEN T.parent[s] ELSE T.parent[m]

\* The cut is a splice.
LEMMA CutSplices ==
    ASSUME NEW T, NEW S, NEW sub, IsTree(T, S, sub), NEW s \in S, s # T.root,
           NEW k \in Side, NEW z, z = T.child[k][s]
    PROVE  CutsOut(T, S, s, z, CutOut(T, s, z))
  <1>1. /\ T \in Trees /\ S \subseteq Nodes /\ SENTINEL \notin Nodes /\ Nodes \subseteq Places
        /\ SENTINEL \in Places /\ NULL \notin Places
        /\ z \in S \cup {SENTINEL}
    BY RbTreeAssumption DEF IsTree, Places
  <1>2. z # s /\ z \in Places
    <2>1. z # SENTINEL => z # s
      BY ChildFacts
    <2> QED BY <1>1, <2>1
  <1>3. PICK q : q = T.parent[s]
    OBVIOUS
  <1>4. q \in Nodes
    BY <1>1, <1>3, ParentFacts
  <1>5. Hangs(T, s) /\ s \in Nodes
    BY <1>1, TreeHangs
  <1>6. PICK U : U = Cut(T, s, z, q)
    OBVIOUS
  <1>7. /\ U \in Trees /\ U.root = T.root /\ U.red = T.red
        /\ U.parent = [T.parent EXCEPT ![z] = q]
        /\ \A e \in Side, x \in Nodes : U.child[e][x] = IF T.child[e][x] = s THEN z ELSE T.child[e][x]
    BY <1>1, <1>2, <1>4, <1>5, <1>6, CutFields
  <1>8. PICK V : V = Clear(U, s)
    OBVIOUS
  <1>9. /\ V \in Trees /\ V.root = U.root /\ V.red = U.red
        /\ V.parent = [U.parent EXCEPT ![s] = NULL]
        /\ \A e \in Side, x \in Nodes : V.child[e][x] = IF x = s THEN NULL ELSE U.child[e][x]
    BY <1>5, <1>7, <1>8, ClearFields
  <1>10. \A m \in Places \ {s} : V.parent[m] = IF m = z THEN q ELSE T.parent[m]
    BY <1>1, <1>7, <1>9 DEF Trees
  <1>11. \A e \in Side, x \in Nodes \ {s} :
            V.child[e][x] = IF T.child[e][x] = s THEN z ELSE T.child[e][x]
    BY <1>7, <1>9
  <1>12. NoChildren(V, S \ {s})
    <2> SUFFICES ASSUME NEW x \in Nodes \ (S \ {s}), NEW e \in Side
                 PROVE  V.child[e][x] \in {SENTINEL, NULL}
      BY DEF NoChildren
    <2>1. CASE x = s
      BY <1>5, <1>9, <2>1
    <2>2. CASE x # s
      <3>1. T.child[e][x] \in {SENTINEL, NULL}
        BY <2>2 DEF IsTree, NoChildren
      <3> QED BY <1>1, <1>5, <1>11, <2>2, <3>1
    <2> QED BY <2>1, <2>2
  <1>13. Spliced(T, S, s, z, V)
    <2>1. \A x \in S \ {s} : V.parent[x] = IF x = z /\ s # T.root THEN T.parent[s] ELSE T.parent[x]
      BY <1>1, <1>3, <1>10
    <2>2. \A x \in S \ {s}, e \in Side :
             V.child[e][x] = IF T.child[e][x] = s THEN z ELSE T.child[e][x]
      BY <1>1, <1>11
    <2> QED BY <1>7, <1>9, <1>12, <2>1, <2>2 DEF Spliced
  <1>14. V.parent[z] = q
    BY <1>2, <1>10
  <1>15. CutsOut(T, S, s, z, V)
    BY <1>3, <1>7, <1>9, <1>10, <1>11, <1>13, <1>14 DEF CutsOut
  <1> QED BY <1>3, <1>6, <1>8, <1>15 DEF CutOut

\* The root goes, and the one node that was under it turns black.
RootGone(T, z) == [T EXCEPT !.root = z, !.red[z] = FALSE]

\* What is left is a red-black tree.
LEMMA RootDeleted ==
    ASSUME NEW T, NEW S, NEW sub, IsTree(T, S, sub), NEW bh, IsColored(T, S, bh, NULL),
           NEW s \in S, s = T.root, NEW k \in Side, T.child[k][s] = SENTINEL,
           NEW z, z = T.child[Other(k)][s]
    PROVE  IsBalanced(Clear(RootGone(T, z), s), S \ {s})
  <1>1. /\ T \in Trees /\ S \subseteq Nodes /\ SENTINEL \notin Nodes /\ Nodes \subseteq Places
        /\ SENTINEL \in Places /\ NULL \notin Places /\ s \in Nodes
        /\ Other(k) \in Side /\ Other(Other(k)) = k
        /\ \A y \in S, e \in Side : T.child[e][y] \in S \cup {SENTINEL}
    BY RbTreeAssumption DEF IsTree, Places, Side, Other
  <1>2. z \in S \cup {SENTINEL} /\ z # s /\ z \in Places
    <2>1. z # SENTINEL => z # s
      BY <1>1, ChildFacts
    <2> QED BY <1>1, <2>1
  <1>3. \A y \in S, e \in Side : T.child[e][y] # SENTINEL =>
           T.child[e][y] # s /\ T.parent[T.child[e][y]] = y
    BY ChildFacts
  <1>4. PICK U : U = RootGone(T, z)
    OBVIOUS
  <1>5. /\ U \in Trees /\ U.root = z /\ U.child = T.child /\ U.parent = T.parent
        /\ \A x \in Places : U.red[x] <=> (x # z /\ T.red[x])
    BY <1>1, <1>2, <1>4 DEF Trees, RootGone
  <1>6. PICK R : R = Clear(U, s)
    OBVIOUS
  <1>7. /\ R \in Trees /\ R.root = U.root /\ R.red = U.red
        /\ R.parent = [U.parent EXCEPT ![s] = NULL]
        /\ \A e \in Side, x \in Nodes : R.child[e][x] = IF x = s THEN NULL ELSE U.child[e][x]
    <2>1. /\ Clear(U, s) \in Trees
          /\ Clear(U, s).root = U.root
          /\ Clear(U, s).red = U.red
          /\ Clear(U, s).parent = [U.parent EXCEPT ![s] = NULL]
      <3>1. U \in Trees /\ s \in Nodes
        BY <1>1, <1>5
      <3> QED BY <3>1, ClearFields, Zenon
    <2>2. \A e \in Side, x \in Nodes :
             Clear(U, s).child[e][x] = IF x = s THEN NULL ELSE U.child[e][x]
      <3>1. U \in Trees /\ s \in Nodes
        BY <1>1, <1>5
      <3> QED BY <3>1, ClearFields, Zenon
    <2> QED BY <1>6, <2>1, <2>2
  <1>8. Spliced(T, S, s, z, R)
    <2>1. NoChildren(R, S \ {s})
      <3> SUFFICES ASSUME NEW x \in Nodes \ (S \ {s}), NEW e \in Side
                   PROVE  R.child[e][x] \in {SENTINEL, NULL}
        BY DEF NoChildren
      <3>1. x # s => T.child[e][x] \in {SENTINEL, NULL}
        BY DEF IsTree, NoChildren
      <3> QED BY <1>5, <1>7, <3>1
    <2>2. \A x \in S \ {s}, e \in Side :
             R.child[e][x] = IF T.child[e][x] = s THEN z ELSE T.child[e][x]
      BY <1>1, <1>3, <1>5, <1>7
    <2>3. \A x \in S \ {s} : R.parent[x] = IF x = z /\ s # T.root THEN T.parent[s] ELSE T.parent[x]
      BY <1>1, <1>5, <1>7 DEF Trees
    <2> QED BY <1>5, <1>7, <2>1, <2>2, <2>3 DEF Spliced
  <1>9. IsTree(R, S \ {s}, Pruned(sub, s))
    BY <1>8, SpliceShape
  <1> DEFINE b == [bh EXCEPT ![z] = IF T.red[z] THEN bh[z] + 1 ELSE bh[z]]
  <1>10. /\ bh \in [Places -> Nat] /\ bh[SENTINEL] = 0 /\ ~T.red[SENTINEL]
         /\ \A y \in S, e \in Side :
               /\ bh[y] = bh[T.child[e][y]] + (IF T.red[y] THEN 0 ELSE 1)
               /\ T.red[y] /\ T.red[T.child[e][y]] => T.child[e][y] = NULL
    BY SMTT(60) DEF IsColored
  <1>11. b \in [Places -> Nat] /\ \A x \in Places :
            b[x] = IF x = z /\ T.red[z] THEN bh[z] + 1 ELSE bh[x]
    BY <1>1, <1>2, <1>10
  <1> HIDE DEF b
  <1>12. \A x \in Places : R.red[x] <=> (x # z /\ T.red[x])
    BY <1>5, <1>7
  <1>13. ASSUME NEW x \in S \ {s}, NEW e \in Side
         PROVE  /\ b[x] = b[R.child[e][x]] + (IF R.red[x] THEN 0 ELSE 1)
                /\ ~(R.red[x] /\ R.red[R.child[e][x]])
    <2>1. PICK c : c = T.child[e][x]
      OBVIOUS
    <2>2. /\ c \in S \cup {SENTINEL} /\ c \in Places /\ x \in Places /\ R.child[e][x] = c
          /\ c # NULL
      BY <1>1, <1>5, <1>7, <2>1
    <2>3. c = z => ~T.red[z]
      <3>1. z # SENTINEL => T.parent[z] = s
        BY <1>1, <1>3
      <3>2. c # SENTINEL => T.parent[c] = x
        BY <1>3, <2>1
      <3> QED BY <1>10, <2>2, <3>1, <3>2
    <2>4. /\ bh[x] = bh[c] + (IF T.red[x] THEN 0 ELSE 1) /\ bh[c] \in Nat /\ bh[x] \in Nat
          /\ ~(T.red[x] /\ T.red[c])
      BY <1>10, <2>1, <2>2
    <2>5. b[c] = bh[c] /\ (R.red[c] <=> T.red[c])
      BY <1>11, <1>12, <2>2, <2>3
    <2>6. CASE x = z /\ T.red[z]
      <3>1. b[x] = bh[x] + 1 /\ ~R.red[x] /\ T.red[x]
        BY <1>11, <1>12, <2>2, <2>6
      <3>2. b[x] = b[c] + 1
        BY <2>4, <2>5, <3>1
      <3> QED BY <2>2, <3>1, <3>2
    <2>7. CASE ~(x = z /\ T.red[z])
      <3>1. b[x] = bh[x] /\ (R.red[x] <=> T.red[x])
        BY <1>11, <1>12, <2>2, <2>7
      <3>2. b[x] = b[c] + (IF R.red[x] THEN 0 ELSE 1)
        BY <2>4, <2>5, <3>1, SMTT(60)
      <3> QED BY <2>2, <2>4, <2>5, <3>1, <3>2
    <2> QED BY <2>6, <2>7
  <1>14. b[SENTINEL] = 0 /\ ~R.red[SENTINEL] /\ ~R.red[R.root]
    BY <1>1, <1>2, <1>5, <1>7, <1>10, <1>11, <1>12
  <1>15. IsColored(R, S \ {s}, b, NULL)
    BY <1>11, <1>13, <1>14 DEF IsColored
  <1> QED BY <1>4, <1>6, <1>9, <1>15 DEF IsBalanced

\* A node with at most one child goes.
LEMMA CutKeeps ==
    ASSUME NEW T, NEW S, NEW sub, IsTree(T, S, sub), NEW bh, IsColored(T, S, bh, NULL),
           NEW s \in S, s # T.root, NEW k \in Side, T.child[k][s] = SENTINEL,
           NEW z, z = T.child[Other(k)][s]
    PROVE  /\ CutsOut(T, S, s, z, CutOut(T, s, z))
           /\ IsTree(CutOut(T, s, z), S \ {s}, Pruned(sub, s))
           /\ ChildrenPruned(T, CutOut(T, s, z), S, sub, s)
           /\ T.red[s] => IsColored(CutOut(T, s, z), S \ {s}, bh, NULL)
           /\ ~T.red[s] => IsShort(CutOut(T, s, z), S \ {s}, bh, z, T.parent[s], SideOf(T, s))
  <1>1. Other(k) \in Side
    BY DEF Other, Side
  <1>2. PICK V : V = CutOut(T, s, z)
    OBVIOUS
  <1>3. CutsOut(T, S, s, z, V)
    BY <1>1, <1>2, CutSplices
  <1>4. Spliced(T, S, s, z, V) /\ V.red = T.red /\ V.parent[z] = T.parent[s]
    BY <1>3 DEF CutsOut
  <1>5. IsTree(V, S \ {s}, Pruned(sub, s)) /\ ChildrenPruned(T, V, S, sub, s)
    <2>1. Spliced(T, S, s, T.child[Other(k)][s], V)
      BY <1>4
    <2> QED BY <2>1, SpliceShape
  <1>6. T.red[s] => IsColored(V, S \ {s}, bh, NULL)
    BY <1>4, SpliceColors
  <1>7. ~T.red[s] => IsShort(V, S \ {s}, bh, z, T.parent[s], SideOf(T, s))
    BY <1>4, SpliceColors
  <1> QED BY <1>2, <1>3, <1>5, <1>6, <1>7

\* With two children, the next key s is cut out and takes the place of n.
Succeeded(T, n, s, z) ==
    Clear(TakePlace(Cut(T, s, z, IF T.parent[s] = n THEN s ELSE T.parent[s]), n, s), n)

\* What that changes in the tree V that is left when s is cut out.
Succeeds(T, S, n, s, z, V, R) ==
    /\ Renamed(V, R, S \ {s}, n, s) /\ SameReds(V, R, S \ {s}, n, s)
    /\ R.parent[Moved(z, n, s)] = Moved(T.parent[s], n, s)
    /\ Moved(z, n, s) = z

\* It is the tree without s, with s for n.
LEMMA SuccessorFields ==
    ASSUME NEW T, NEW S, NEW sub, IsTree(T, S, sub), NEW n \in S, NEW s \in S, s # n,
           s # T.root, n \notin sub[s],
           NEW k \in Side, NEW z, z = T.child[k][s],
           NEW V, CutsOut(T, S, s, z, V), IsTree(V, S \ {s}, Pruned(sub, s)),
           NEW R, R = Succeeded(T, n, s, z)
    PROVE  Succeeds(T, S, n, s, z, V, R)
  <1>1. /\ T \in Trees /\ S \subseteq Nodes /\ SENTINEL \notin Nodes /\ Nodes \subseteq Places
        /\ SENTINEL \in Places /\ NULL \notin Places /\ n \in Nodes /\ s \in Nodes
        /\ z \in S \cup {SENTINEL}
        /\ \A y \in S, e \in Side : T.child[e][y] \in S \cup {SENTINEL}
        /\ T.root \in S
        /\ T.parent[T.root] \notin S
        /\ \A y \in S : T.parent[y] \in Nodes \cup {NULL}
    BY RbTreeAssumption DEF IsTree, Places, Trees
  <1>2. \A y \in S, e \in Side : T.child[e][y] # SENTINEL =>
           /\ T.child[e][y] # T.root /\ T.child[e][y] # y /\ T.child[e][y] \in sub[y]
           /\ T.parent[T.child[e][y]] = y
    BY ChildFacts
  <1>3. z # s /\ z # n /\ z \in Places /\ z # T.root
    BY <1>1, <1>2
  <1>4. PICK p : p = T.parent[s]
    OBVIOUS
  <1>5. p \in S
    BY <1>4, ParentFacts
  <1>6. PICK q : q = IF p = n THEN s ELSE p
    OBVIOUS
  <1>7. q \in Nodes
    BY <1>1, <1>5, <1>6
  <1>8. PICK U : U = Cut(T, s, z, q)
    OBVIOUS
  <1>9. /\ U \in Trees /\ U.root = T.root /\ U.red = T.red
        /\ U.parent = [T.parent EXCEPT ![z] = q]
        /\ \A e \in Side, x \in Nodes : U.child[e][x] = IF T.child[e][x] = s THEN z ELSE T.child[e][x]
    <2>1. Hangs(T, s)
      BY TreeHangs
    <2> QED BY <1>1, <1>3, <1>7, <1>8, <2>1, CutFields
  <1>10. \A m \in Places : U.parent[m] = IF m = z THEN q ELSE T.parent[m]
    BY <1>1, <1>3, <1>9 DEF Trees
  <1>11. Hangs(U, n)
    <2>1. Hangs(T, n)
      BY TreeHangs
    <2>2. U.parent[n] = T.parent[n]
      BY <1>1, <1>3, <1>10
    <2>3. \A e \in Side, x \in Nodes : U.child[e][x] = n <=> T.child[e][x] = n
      BY <1>3, <1>9
    <2>4. n # T.root => SideOf(U, n) = SideOf(T, n)
      <3> SUFFICES ASSUME n # T.root PROVE SideOf(U, n) = SideOf(T, n)
        OBVIOUS
      <3>1. T.parent[n] \in Nodes
        BY <2>1 DEF Hangs
      <3>2. U.child["left"][T.parent[n]] = n <=> T.child["left"][T.parent[n]] = n
        BY <2>3, <3>1 DEF Side
      <3> QED BY <2>2, <3>2 DEF SideOf
    <2> QED BY <1>9, <2>1, <2>2, <2>3, <2>4 DEF Hangs
  <1>12. \A e \in Side : U.child[e][n] # s /\ U.child[e][n] # n
    BY <1>1, <1>2, <1>3, <1>9
  <1>13. PICK W : W = TakePlace(U, n, s)
    OBVIOUS
  <1>14. TakesPlace(U, W, n, s)
    <2>1. U \in Trees /\ n \in Nodes /\ s \in Nodes /\ s # n
      BY <1>1, <1>9
    <2> QED BY <1>11, <1>12, <1>13, <2>1, TakePlaceFields
  <1>15. /\ W \in Trees /\ W.root = (IF n = U.root THEN s ELSE U.root)
         /\ W.red = [U.red EXCEPT ![s] = U.red[n]]
         /\ \A e \in Side, x \in Nodes : W.child[e][x] =
               IF x = s THEN U.child[e][n]
               ELSE IF U.child[e][x] = n THEN s ELSE U.child[e][x]
    BY <1>14 DEF TakesPlace
  <1>16. \A m \in Places : W.parent[m] =
            IF m # SENTINEL /\ \E e \in Side : U.child[e][n] = m THEN s
            ELSE IF m = s THEN U.parent[n] ELSE U.parent[m]
    BY <1>14 DEF TakesPlace
  <1>17. R = Clear(W, n)
    BY <1>4, <1>6, <1>8, <1>13 DEF Succeeded
  <1>18. /\ R \in Trees /\ R.root = W.root /\ R.red = W.red
         /\ R.parent = [W.parent EXCEPT ![n] = NULL]
         /\ \A e \in Side, x \in Nodes : R.child[e][x] = IF x = n THEN NULL ELSE W.child[e][x]
    <2>1. W \in Trees /\ n \in Nodes
      BY <1>1, <1>15
    <2> QED BY <1>17, <2>1, ClearFields
  <1>19. \A m \in Places : m # n => R.parent[m] = W.parent[m]
    BY <1>1, <1>15, <1>18 DEF Trees
  <1>20. /\ V.red = T.red /\ V.root = T.root
         /\ \A e \in Side, x \in Nodes \ {s} : V.child[e][x] = U.child[e][x]
         /\ \A m \in Places \ {s} : V.parent[m] = IF m = z THEN p ELSE T.parent[m]
    BY <1>4, <1>9 DEF CutsOut
  <1>21. MovedSet(S \ {s}, n, s) = S \ {n}
    BY DEF MovedSet, Moved
  <1>22. \A y : Moved(y, n, s) = IF y = n THEN s ELSE y
    BY DEF Moved
  <1>23. NoChildren(R, S \ {n})
    <2> SUFFICES ASSUME NEW x \in Nodes \ (S \ {n}), NEW e \in Side
                 PROVE  R.child[e][x] \in {SENTINEL, NULL}
      BY DEF NoChildren
    <2>1. CASE x = n
      BY <1>1, <1>18, <2>1
    <2>2. CASE x # n
      <3>1. T.child[e][x] \in {SENTINEL, NULL} /\ x \notin S
        BY <2>2 DEF IsTree, NoChildren
      <3>2. U.child[e][x] = T.child[e][x]
        BY <1>1, <1>9, <3>1
      <3>3. W.child[e][x] = U.child[e][x]
        BY <1>1, <1>15, <3>1, <3>2
      <3> QED BY <1>18, <2>2, <3>1, <3>2, <3>3
    <2> QED BY <2>1, <2>2
  <1>24. R.root = Moved(V.root, n, s)
    BY <1>9, <1>15, <1>18, <1>20, <1>22
  <1>25. R.parent[R.root] \notin S
    <2>1. CASE n = T.root
      <3>1. R.root = s
        BY <1>9, <1>15, <1>18, <2>1
      <3>2. R.parent[s] = W.parent[s]
        BY <1>1, <1>19
      <3>3. W.parent[s] = U.parent[n]
        BY <1>1, <1>12, <1>16
      <3>4. U.parent[n] = T.parent[n]
        BY <1>1, <1>3, <1>10
      <3> QED BY <1>1, <2>1, <3>1, <3>2, <3>3, <3>4
    <2>2. CASE n # T.root
      <3>1. R.root = T.root
        BY <1>9, <1>15, <1>18, <2>2
      <3>2. \A e \in Side : U.child[e][n] # T.root
        BY <1>1, <1>2, <1>3, <1>9
      <3>3. R.parent[T.root] = W.parent[T.root]
        BY <1>1, <1>19, <2>2
      <3>4. W.parent[T.root] = U.parent[T.root]
        BY <1>1, <1>16, <3>2
      <3>5. U.parent[T.root] = T.parent[T.root]
        BY <1>1, <1>3, <1>10
      <3> QED BY <1>1, <3>1, <3>3, <3>4, <3>5
    <2> QED BY <2>1, <2>2
  <1>26. ASSUME NEW y \in S \ {s}, NEW e \in Side
         PROVE  R.child[e][Moved(y, n, s)] = Moved(V.child[e][y], n, s)
    <2>1. V.child[e][y] = U.child[e][y] /\ y \in Nodes
      BY <1>1, <1>20
    <2>2. CASE y = n
      <3>1. R.child[e][s] = U.child[e][n]
        BY <1>1, <1>15, <1>18
      <3> QED BY <1>12, <1>22, <2>1, <2>2, <3>1
    <2>3. CASE y # n
      <3>1. R.child[e][y] = IF U.child[e][y] = n THEN s ELSE U.child[e][y]
        BY <1>1, <1>15, <1>18, <2>3
      <3> QED BY <1>22, <2>1, <2>3, <3>1
    <2> QED BY <2>2, <2>3
  <1>27. ASSUME NEW y \in (S \ {s}) \ {V.root}
         PROVE  R.parent[Moved(y, n, s)] = Moved(V.parent[y], n, s)
    <2>0. y \in Places /\ y # s /\ y # SENTINEL /\ y # T.root
      BY <1>1, <1>20
    <2>1. CASE y = n
      <3>1. R.parent[s] = W.parent[s]
        BY <1>1, <1>19
      <3>2. W.parent[s] = U.parent[n]
        BY <1>1, <1>12, <1>16
      <3>3. U.parent[n] = T.parent[n] /\ V.parent[n] = T.parent[n]
        BY <1>1, <1>3, <1>10, <1>20
      <3>4. T.parent[n] # n
        BY <2>0, <2>1, ParentFacts
      <3> QED BY <1>22, <2>1, <3>1, <3>2, <3>3, <3>4
    <2>2. CASE y # n
      <3>1. R.parent[y] = IF \E e \in Side : U.child[e][n] = y THEN s ELSE U.parent[y]
        BY <1>16, <1>19, <2>0, <2>2
      <3>2. (\E e \in Side : U.child[e][n] = y) <=> V.parent[y] = n
        <4>1. ASSUME NEW e \in Side, U.child[e][n] = y PROVE V.parent[y] = n
          <5>1. n \in S \ {s} /\ V.child[e][n] = y
            BY <1>1, <1>20, <4>1
          <5> QED BY <2>0, <5>1, ChildFacts
        <4>2. ASSUME V.parent[y] = n PROVE \E e \in Side : U.child[e][n] = y
          <5>1. \E e \in Side : V.child[e][V.parent[y]] = y
            BY DEF IsTree
          <5> QED BY <1>1, <1>20, <4>2, <5>1
        <4> QED BY <4>1, <4>2
      <3>3. V.parent[y] # n => U.parent[y] = V.parent[y]
        BY <1>6, <1>10, <1>20, <2>0, SMTT(60)
      <3> QED BY <1>22, <2>2, <3>1, <3>2, <3>3
    <2> QED BY <2>1, <2>2
  <1>28. Renamed(V, R, S \ {s}, n, s)
    BY <1>18, <1>21, <1>23, <1>24, <1>25, <1>26, <1>27, ZenonT(60) DEF Renamed
  <1>29. SameReds(V, R, S \ {s}, n, s)
    <2> SUFFICES ASSUME NEW y \in (S \ {s}) \cup {SENTINEL}
                 PROVE  R.red[Moved(y, n, s)] <=> V.red[y]
      BY SMTT(60) DEF SameReds
    <2>1. \A m \in Places : R.red[m] <=> IF m = s THEN T.red[n] ELSE T.red[m]
      BY <1>1, <1>9, <1>15, <1>18 DEF Trees
    <2>2. y \in Places /\ y # s /\ s \in Places
      BY <1>1
    <2> QED BY <1>20, <1>22, <2>1, <2>2
  <1>30. Moved(z, n, s) = z
    BY <1>3, <1>22
  <1>31. R.parent[z] = Moved(p, n, s)
    <2>1. CASE z = SENTINEL
      <3>1. R.parent[z] = W.parent[z] /\ W.parent[z] = U.parent[z]
        BY <1>1, <1>3, <1>16, <1>19, <2>1
      <3>2. U.parent[z] = q
        BY <1>3, <1>10
      <3> QED BY <1>6, <1>22, <3>1, <3>2
    <2>2. CASE z # SENTINEL
      <3>1. z \in (S \ {s}) \ {V.root} /\ V.parent[z] = p
        BY <1>1, <1>3, <1>20, <2>2
      <3> QED BY <1>27, <1>30, <3>1
    <2> QED BY <2>1, <2>2
  <1> QED BY <1>4, <1>28, <1>29, <1>30, <1>31 DEF Succeeds

\* The next key is in the order where n was.
LEMMA SuccessorIsNext ==
    ASSUME NEW T, NEW S, NEW sub, IsTree(T, S, sub), NEW n \in S,
           NEW c, c = T.child["right"][n], c \in S,
           NEW s, s \in sub[c], IsLeast(s, sub[c])
    PROVE  /\ s \in S /\ s # n /\ s # T.root /\ n \notin sub[s]
           /\ \A e \in Side : \A m \in sub[T.child[e][n]] \ {s} : Toward(m, s) = e
           /\ \A x \in S \ {n}, e \in Side :
                 n \in sub[T.child[e][x]] => s # x /\ Toward(s, x) = e
  <1>1. /\ S \subseteq Int /\ S \subseteq Places /\ SENTINEL \in Places /\ SENTINEL \notin S
        /\ "right" \in Side /\ "left" \in Side /\ \A e \in Side : e = "left" \/ e = "right"
        /\ sub \in [Places -> SUBSET S] /\ sub[T.root] = S
        /\ \A y \in S, e \in Side : T.child[e][y] \in S \cup {SENTINEL}
    BY RbTreeAssumption DEF IsTree, Places, Side
  <1>2. \A y \in S, e \in Side : \A m \in sub[T.child[e][y]] : m # y /\ Toward(m, y) = e
    BY DEF IsTree
  <1>3. \A y \in S : \A m \in sub[y] : sub[m] \subseteq sub[y]
    BY DEF IsTree
  <1>4. n \notin sub[c] /\ c \in sub[n]
    BY <1>1, ChildFacts
  <1>5. s \in S
    BY <1>1
  <1>6. sub[s] \subseteq sub[c] /\ s \in sub[n]
    BY <1>3, <1>4
  <1>7. n \notin sub[s] /\ s # n /\ s # T.root
    BY <1>1, <1>4, <1>6
  <1>8. s > n
    <2>1. Toward(s, n) = "right"
      BY <1>1, <1>2
    <2> QED BY <2>1 DEF Toward
  <1>9. ASSUME NEW e \in Side, NEW m \in sub[T.child[e][n]] \ {s} PROVE Toward(m, s) = e
    <2>1. m \in S /\ m \in Int /\ s \in Int /\ n \in Int
      BY <1>1, <1>5
    <2>2. m # n /\ Toward(m, n) = e
      BY <1>2
    <2>3. CASE e = "left"
      <3>1. m < n
        BY <2>1, <2>2, <2>3 DEF Toward
      <3>2. ~(m > s)
        BY <1>8, <2>1, <3>1
      <3> QED BY <2>3, <3>2 DEF Toward
    <2>4. CASE e = "right"
      <3>1. s <= m
        BY <2>4 DEF IsLeast
      <3>2. m > s
        BY <2>1, <3>1
      <3> QED BY <2>4, <3>2 DEF Toward
    <2> QED BY <1>1, <2>3, <2>4
  <1>10. ASSUME NEW x \in S \ {n}, NEW e \in Side, n \in sub[T.child[e][x]]
         PROVE  s # x /\ Toward(s, x) = e
    <2>1. T.child[e][x] \in S
      <3>1. sub[SENTINEL] = {}
        BY DEF IsTree
      <3> QED BY <1>1, <1>10, <3>1
    <2>2. sub[n] \subseteq sub[T.child[e][x]]
      BY <1>3, <1>10, <2>1
    <2> QED BY <1>2, <1>6, <2>2
  <1> QED BY <1>5, <1>7, <1>9, <1>10

\* With n's place taken by the next key the tree is a red-black tree of the others,
\* or one black node short where that key was.
LEMMA SuccessorKeeps ==
    ASSUME NEW T, NEW S, NEW sub, IsTree(T, S, sub), NEW bh, IsColored(T, S, bh, NULL),
           NEW n \in S, NEW c, c = T.child["right"][n], c \in S,
           NEW s, s \in sub[c], IsLeast(s, sub[c]),
           NEW k \in Side, T.child[k][s] = SENTINEL,
           NEW z, z = T.child[Other(k)][s],
           NEW R, R = Succeeded(T, n, s, z)
    PROVE  /\ T.red[s] => IsBalanced(R, S \ {n})
           /\ ~T.red[s] => IsBalanced(Fixup(R, z), S \ {n})
  <1>1. s \in S /\ s # n /\ s # T.root /\ n \notin sub[s]
    BY SuccessorIsNext
  <1>2. \A e \in Side : \A m \in sub[T.child[e][n]] \ {s} : Toward(m, s) = e
    BY SuccessorIsNext
  <1>3. \A x \in S \ {n}, e \in Side :
           n \in sub[T.child[e][x]] => s # x /\ Toward(s, x) = e
    BY SuccessorIsNext, SMTT(60)
  <1>4. PICK V : V = CutOut(T, s, z)
    OBVIOUS
  <1>5. CutsOut(T, S, s, z, V)
    BY <1>1, <1>4, CutKeeps
  <1>6. IsTree(V, S \ {s}, Pruned(sub, s)) /\ ChildrenPruned(T, V, S, sub, s)
    BY <1>1, <1>4, CutKeeps
  <1>7. T.red[s] => IsColored(V, S \ {s}, bh, NULL)
    BY <1>1, <1>4, CutKeeps
  <1>8. ~T.red[s] => IsShort(V, S \ {s}, bh, z, T.parent[s], SideOf(T, s))
    BY <1>1, <1>4, CutKeeps
  <1>9. PICK S1 : S1 = S \ {s}
    OBVIOUS
  <1>10. PICK sub1 : sub1 = Pruned(sub, s)
    OBVIOUS
  <1>11. Other(k) \in Side
    BY DEF Other, Side
  <1>12. /\ Renamed(V, R, S \ {s}, n, s) /\ SameReds(V, R, S \ {s}, n, s)
         /\ R.parent[Moved(z, n, s)] = Moved(T.parent[s], n, s)
         /\ Moved(z, n, s) = z
    <2>1. PICK j : j = Other(k)
      OBVIOUS
    <2>2. j \in Side /\ z = T.child[j][s]
      BY <1>11, <2>1
    <2>3. Succeeds(T, S, n, s, z, V, R)
      BY <1>1, <1>5, <1>6, <2>2, SuccessorFields
    <2> QED BY <2>3 DEF Succeeds
  <1>13. n \in S1 /\ s \in Nodes \ S1 /\ S \subseteq Nodes
    BY <1>1, <1>9 DEF IsTree
  <1>14. \A x \in S1, e \in Side : sub1[V.child[e][x]] = sub[T.child[e][x]] \ {s}
    BY <1>6, <1>9, <1>10 DEF ChildrenPruned
  <1>15. \A e \in Side : \A m \in sub1[V.child[e][n]] : m # s /\ Toward(m, s) = e
    BY <1>2, <1>13, <1>14
  <1>16. \A x \in S1 \ {n}, e \in Side : n \in sub1[V.child[e][x]] => s # x /\ Toward(s, x) = e
    BY <1>1, <1>3, <1>9, <1>14
  <1>17. IsTree(V, S1, sub1) /\ Renamed(V, R, S1, n, s) /\ SameReds(V, R, S1, n, s)
    BY <1>6, <1>9, <1>10, <1>12
  <1>18. MovedSet(S1, n, s) = S \ {n}
    BY <1>1, <1>9 DEF MovedSet, Moved
  <1>19. IsTree(R, S \ {n}, MovedSub(sub1, n, s))
    <2>1. IsTree(R, MovedSet(S1, n, s), MovedSub(sub1, n, s))
      BY <1>13, <1>15, <1>16, <1>17, RenameShape
    <2> QED BY <1>18, <2>1
  <1>20. ASSUME T.red[s] PROVE IsBalanced(R, S \ {n})
    <2>1. IsColored(V, S1, bh, NULL)
      BY <1>7, <1>9, <1>20
    <2>2. IsColored(R, MovedSet(S1, n, s), MovedBh(bh, n, s), NULL)
      BY <1>13, <1>17, <2>1, RenameColors
    <2>3. IsColored(R, S \ {n}, MovedBh(bh, n, s), NULL)
      BY <1>18, <2>2
    <2> QED BY <1>19, <2>3 DEF IsBalanced
  <1>21. ASSUME ~T.red[s] PROVE IsBalanced(Fixup(R, z), S \ {n})
    <2>1. IsShort(V, S1, bh, z, T.parent[s], SideOf(T, s))
      BY <1>8, <1>9, <1>21
    <2>2. IsShort(R, MovedSet(S1, n, s), MovedBh(bh, n, s), Moved(z, n, s),
                  Moved(T.parent[s], n, s), SideOf(T, s))
      BY <1>12, <1>13, <1>17, <2>1, RenameShort
    <2>3. IsShort(R, S \ {n}, MovedBh(bh, n, s), z, Moved(T.parent[s], n, s), SideOf(T, s))
      BY <1>12, <1>18, <2>2
    <2> QED BY <1>19, <2>3, FixupKeeps DEF IsBalanced
  <1> QED BY <1>20, <1>21

\* Deletion leaves a red-black tree of the other keys.
THEOREM DeleteKeeps ==
    ASSUME NEW T, NEW S, IsBalanced(T, S), NEW n \in S
    PROVE  IsBalanced(rbtree_delete(T, n), S \ {n})
  <1>1. PICK sub, bh : IsTree(T, S, sub) /\ IsColored(T, S, bh, NULL)
    BY DEF IsBalanced
  <1>2. PICK s : s = Subst(T, n)
    OBVIOUS
  <1>3. PICK z : z = Riser(T, s)
    OBVIOUS
  <1>4. /\ s \in S
        /\ \E k \in Side : T.child[k][s] = SENTINEL /\ z = T.child[Other(k)][s]
        /\ s # n => /\ T.child["right"][n] \in S /\ s \in sub[T.child["right"][n]]
                    /\ IsLeast(s, sub[T.child["right"][n]])
    BY <1>1, <1>2, <1>3, SubstFacts
  <1>5. PICK k \in Side : T.child[k][s] = SENTINEL /\ z = T.child[Other(k)][s]
    BY <1>4
  <1>6. PICK D : D = rbtree_delete(T, n)
    OBVIOUS
  <1>7. CASE s = T.root
    <2>1. s = n
      BY <1>1, <1>4, <1>7, SuccessorIsNext
    <2>2. D = Clear(RootGone(T, z), s)
      BY <1>2, <1>3, <1>6, <1>7, <2>1 DEF rbtree_delete, RootGone
    <2>3. IsBalanced(Clear(RootGone(T, z), s), S \ {s})
      BY <1>1, <1>4, <1>5, <1>7, RootDeleted
    <2> QED BY <1>6, <2>1, <2>2, <2>3
  <1>8. CASE s # T.root /\ s = n
    <2>1. Clear(Unlink(T, n), n) = CutOut(T, s, z)
      BY <1>2, <1>3, <1>8 DEF Unlink, CutOut, Cut
    <2>2. D = IF T.red[s] THEN CutOut(T, s, z) ELSE Fixup(CutOut(T, s, z), z)
      BY <1>2, <1>3, <1>6, <1>8, <2>1 DEF rbtree_delete
    <2>3. PICK V : V = CutOut(T, s, z)
      OBVIOUS
    <2>4. IsTree(V, S \ {n}, Pruned(sub, n))
      BY <1>1, <1>4, <1>5, <1>8, <2>3, CutKeeps
    <2>5. T.red[s] => IsColored(V, S \ {n}, bh, NULL)
      BY <1>1, <1>4, <1>5, <1>8, <2>3, CutKeeps
    <2>6. ~T.red[s] => IsShort(V, S \ {n}, bh, z, T.parent[s], SideOf(T, s))
      BY <1>1, <1>4, <1>5, <1>8, <2>3, CutKeeps
    <2>7. CASE T.red[s]
      BY <1>6, <2>2, <2>3, <2>4, <2>5, <2>7 DEF IsBalanced
    <2>8. CASE ~T.red[s]
      <3>1. IsBalanced(Fixup(V, z), S \ {n})
        BY <2>4, <2>6, <2>8, FixupKeeps DEF IsBalanced
      <3> QED BY <1>6, <2>2, <2>3, <2>8, <3>1
    <2> QED BY <2>7, <2>8
  <1>9. CASE s # T.root /\ s # n
    <2>1. Clear(Unlink(T, n), n) = Succeeded(T, n, s, z)
      BY <1>2, <1>3, <1>9 DEF Unlink, Succeeded, Cut
    <2>2. PICK R : R = Succeeded(T, n, s, z)
      OBVIOUS
    <2>3. D = IF T.red[s] THEN R ELSE Fixup(R, z)
      BY <1>2, <1>3, <1>6, <1>9, <2>1, <2>2 DEF rbtree_delete
    <2>4. /\ T.red[s] => IsBalanced(R, S \ {n})
          /\ ~T.red[s] => IsBalanced(Fixup(R, z), S \ {n})
      BY <1>1, <1>4, <1>5, <1>9, <2>2, SuccessorKeeps
    <2> QED BY <1>6, <2>3, <2>4
  <1> QED BY <1>7, <1>8, <1>9

\* A red-black tree is one by the walks too.
LEMMA BalancedIs ==
    ASSUME NEW T, NEW S, IsBalanced(T, S)
    PROVE  Members(T) = S /\ IsSearchTree(T) /\ IsRedBlack(T)
  <1>1. PICK sub, bh : IsTree(T, S, sub) /\ IsColored(T, S, bh, NULL)
    BY DEF IsBalanced
  <1> QED BY <1>1, MembersAre, TreeIsSearchTree, ColoredIsRedBlack

-----------------------------------------------------------------------------
(* What a client knows of a tree *)

HasShape(T, S)       == RootHasNoParent(T) /\ \E sub : IsTree(T, S, sub)
\* T's nodes have black heights, and no red node but odd is under a red one.
HasColors(T, S, odd) == \E bh : IsColored(T, S, bh, odd)

\* A walk for h from the root has come to cur, and met h nowhere above.
HasPath(T, S, h, cur) ==
    /\ RootHasNoParent(T)
    /\ \E sub : /\ IsTree(T, S, sub) /\ Path(T, S, sub, h, cur)
                /\ \A m \in S \ {cur} : cur \in sub[m] => m # h

\* A tree of S is one by the walks too.
LEMMA ShapeFacts ==
    ASSUME NEW T, NEW S, HasShape(T, S)
    PROVE  /\ T \in Trees /\ S \subseteq Nodes /\ IsFiniteSet(S)
           /\ T.root \in S \cup {SENTINEL}
           /\ T.root = SENTINEL => S = {}
           /\ Members(T) = S /\ IsSearchTree(T) /\ RootHasNoParent(T)
  <1>1. PICK sub : IsTree(T, S, sub)
    BY DEF HasShape
  <1>2. Members(T) = S /\ IsSearchTree(T) /\ RootHasNoParent(T)
    BY <1>1, MembersAre, TreeIsSearchTree DEF HasShape
  <1> QED BY <1>1, <1>2 DEF IsTree

\* What rbtree_init makes is a tree, of no nodes.
LEMMA EmptyTree ==
    HasShape(Empty, {}) /\ HasColors(Empty, {}, NULL)
  <1> DEFINE sub == [x \in Places |-> {}]
             bh == [x \in Places |-> 0]
  <1>1. Empty \in Trees
    BY RbTreeAssumption DEF Empty, Trees, Places, Side
  <1>2. SENTINEL \in Places /\ IsFiniteSet({})
    BY FS_EmptySet DEF Places
  <1>3. /\ Empty.root = SENTINEL
        /\ \A n \in Nodes, d \in Side : Empty.child[d][n] = SENTINEL
        /\ ~Empty.red[SENTINEL]
    BY <1>2 DEF Empty
  <1>4. IsTree(Empty, {}, sub)
    <2>1. sub \in [Places -> SUBSET {}] /\ sub[SENTINEL] = {}
      BY <1>2
    <2> HIDE DEF sub
    <2> QED BY <1>1, <1>2, <1>3, <2>1 DEF IsTree, NoChildren
  <1>5. IsColored(Empty, {}, bh, NULL)
    <2>1. bh \in [Places -> Nat] /\ bh[SENTINEL] = 0
      BY <1>2
    <2> HIDE DEF bh
    <2> QED BY <1>3, <2>1 DEF IsColored
  <1> QED BY <1>3, <1>4, <1>5 DEF HasShape, HasColors, RootHasNoParent

\* rbtree_insert into an empty tree.
LEMMA PlantTree ==
    ASSUME NEW T, NEW S, HasShape(T, S), HasColors(T, S, NULL),
           T.root = SENTINEL, NEW h \in Nodes
    PROVE  /\ S = {}
           /\ HasShape(PlantRoot(T, h), {h}) /\ HasColors(PlantRoot(T, h), {h}, NULL)
  <1>1. S = {} /\ T \in Trees
    BY ShapeFacts
  <1>2. PICK sub : IsTree(T, {}, sub)
    BY <1>1 DEF HasShape
  <1>3. ~T.red[SENTINEL]
    BY DEF HasColors, IsColored
  <1>4. HasShape(PlantRoot(T, h), {h})
    <2>1. PlantRoot(T, h).root = h /\ PlantRoot(T, h).parent = [T.parent EXCEPT ![h] = NULL]
      BY <1>1, PlantFields
    <2>2. T.parent \in [Places -> Nodes \cup {NULL}] /\ h \in Places
      BY <1>1 DEF Trees, Places
    <2>3. RootHasNoParent(PlantRoot(T, h))
      BY <2>1, <2>2 DEF RootHasNoParent
    <2> QED BY <1>2, <2>3, PlantShape DEF HasShape
  <1>5. IsColored(PlantRoot(T, h), {h}, [x \in Places |-> IF x = h THEN 1 ELSE 0], NULL)
    BY <1>1, <1>2, <1>3, PlantColors
  <1> QED BY <1>1, <1>4, <1>5 DEF HasColors

\* The walk of rbtree_insert starts at the root.
LEMMA WalkStarts ==
    ASSUME NEW T, NEW S, HasShape(T, S), T.root # SENTINEL, NEW h
    PROVE  T.root \in S /\ HasPath(T, S, h, T.root)
  <1>1. PICK sub : IsTree(T, S, sub)
    BY DEF HasShape
  <1>2. T.root \in S
    BY <1>1 DEF IsTree
  <1>3. ASSUME NEW m \in S, T.root \in sub[m] PROVE m = T.root
    <2>1. sub[T.root] \subseteq sub[m] /\ T.parent[T.root] \notin S
      BY <1>1, <1>2, <1>3, RbTreeAssumption DEF IsTree
    <2>2. m # T.root => T.parent[T.root] \in sub[m]
      BY <1>1, <1>3 DEF IsTree
    <2>3. sub[m] \subseteq S
      BY <1>1 DEF IsTree, Places
    <2> QED BY <2>1, <2>2, <2>3
  <1>4. Path(T, S, sub, h, T.root)
    BY <1>3 DEF Path
  <1> QED BY <1>1, <1>2, <1>3, <1>4 DEF HasPath, HasShape

\* It goes on to a node of the tree.
LEMMA WalkGoesOn ==
    ASSUME NEW T, NEW S, NEW h \in Nodes, NEW cur \in S, HasPath(T, S, h, cur), cur # h,
           T.child[Toward(h, cur)][cur] # SENTINEL
    PROVE  /\ T.child[Toward(h, cur)][cur] \in S
           /\ HasPath(T, S, h, T.child[Toward(h, cur)][cur])
  <1> DEFINE d == Toward(h, cur)
             c == T.child[d][cur]
  <1>1. PICK sub : /\ IsTree(T, S, sub) /\ Path(T, S, sub, h, cur)
                   /\ \A m \in S \ {cur} : cur \in sub[m] => m # h
    BY DEF HasPath
  <1>2. d \in Side
    BY DEF Toward, Side
  <1>3. c \in S /\ T.parent[c] = cur /\ c \in sub[c] /\ c # cur
    <2>0. T.child[d][cur] # SENTINEL
      OBVIOUS
    <2> HIDE DEF d
    <2>1. c \in S /\ T.parent[c] = cur /\ c # cur
      BY <1>1, <1>2, <2>0, ChildFacts
    <2> QED BY <1>1, <2>1 DEF IsTree
  <1>4. ASSUME NEW m \in S, c \in sub[m], m # c
        PROVE  cur \in sub[m]
    BY <1>1, <1>3, <1>4 DEF IsTree
  <1>5. ASSUME NEW m \in S, c \in sub[m], m # c
        PROVE  c \in sub[T.child[Toward(h, m)][m]]
    <2>1. CASE m = cur
      BY <1>3, <2>1
    <2>2. CASE m # cur
      <3> DEFINE e == Toward(h, m)
                 k == T.child[e][m]
      <3>1. cur \in sub[k]
        BY <1>1, <1>4, <1>5, <2>2 DEF Path
      <3>2. e \in Side
        BY DEF Toward, Side
      <3> HIDE DEF c, e, d
      <3>3. k \in S
        BY <1>1, <3>1, <3>2 DEF IsTree
      <3>4. sub[cur] \subseteq sub[k]
        BY <1>1, <3>1, <3>3 DEF IsTree
      <3>5. c \in sub[cur]
        BY <1>1, <1>2, <1>3 DEF IsTree, Side, c
      <3> QED BY <3>4, <3>5 DEF e
    <2> QED BY <2>1, <2>2
  <1>6. Path(T, S, sub, h, c)
    BY <1>5 DEF Path
  <1>7. \A m \in S \ {c} : c \in sub[m] => m # h
    BY <1>1, <1>4
  <1> QED BY <1>1, <1>3, <1>6, <1>7 DEF HasPath

\* A walk that can go no further has shown that h is not in the tree.
LEMMA WalkMisses ==
    ASSUME NEW T, NEW S, NEW sub, IsTree(T, S, sub), NEW h \in Nodes, NEW cur \in S,
           Path(T, S, sub, h, cur), \A m \in S \ {cur} : cur \in sub[m] => m # h,
           cur # h, T.child[Toward(h, cur)][cur] = SENTINEL
    PROVE  h \notin S
  <1> SUFFICES ASSUME h \in S PROVE FALSE
    OBVIOUS
  <1> DEFINE Bad == {m \in S : cur \in sub[m] /\ h \in sub[m]}
  <1>1. T.root \in Bad
    BY DEF IsTree
  <1>2. PICK m \in Bad : \A d \in Side : sub[T.child[d][m]] \cap Bad = {}
    <2>1. Bad \in SUBSET S /\ Bad # {}
      BY <1>1
    <2> HIDE DEF Bad
    <2> QED BY <2>1, LowestNode
  <1>3. m \in S /\ cur \in sub[m] /\ h \in sub[m]
    OBVIOUS
  <1>4. PICK d : d = Toward(h, m)
    OBVIOUS
  <1>5. d \in Side
    BY <1>4 DEF Toward, Side
  <1>6. m # h
    BY <1>3
  <1>7. h \in sub[T.child[d][m]]
    <2>1. sub[m] = {m} \cup sub[T.child["left"][m]] \cup sub[T.child["right"][m]]
      BY <1>3 DEF IsTree
    <2>2. PICK e \in Side : h \in sub[T.child[e][m]]
      BY <1>3, <1>6, <2>1 DEF Side
    <2>3. Toward(h, m) = e
      BY <1>3, <2>2 DEF IsTree
    <2> QED BY <1>4, <2>2, <2>3
  <1>8. T.child[d][m] \in S
    BY <1>3, <1>5, <1>7 DEF IsTree
  <1>9. m # cur
    BY <1>4, <1>8, RbTreeAssumption DEF IsTree
  <1>10. cur \in sub[T.child[d][m]]
    BY <1>3, <1>4, <1>9 DEF Path
  <1>11. T.child[d][m] \in sub[T.child[d][m]]
    BY <1>8 DEF IsTree
  <1> QED BY <1>2, <1>5, <1>7, <1>8, <1>10, <1>11

\* Where it can go no further the node is attached, and is the one that may be amiss.
LEMMA AttachTree ==
    ASSUME NEW T, NEW S, NEW h \in Nodes, NEW cur \in S, HasPath(T, S, h, cur), cur # h,
           T.child[Toward(h, cur)][cur] = SENTINEL, HasColors(T, S, NULL)
    PROVE  /\ h \notin S
           /\ HasShape(Attach(T, h, cur), S \cup {h})
           /\ HasColors(Attach(T, h, cur), S \cup {h}, h)
           /\ IsRed(Attach(T, h, cur), h)
  <1>1. PICK sub : /\ IsTree(T, S, sub) /\ Path(T, S, sub, h, cur)
                   /\ \A m \in S \ {cur} : cur \in sub[m] => m # h
    BY DEF HasPath
  <1>2. h \notin S
    BY <1>1, WalkMisses
  <1>3. PICK bh : IsColored(T, S, bh, NULL)
    BY DEF HasColors
  <1>4. T \in Trees /\ S \subseteq Nodes /\ h \in Places
    BY <1>1 DEF IsTree, Places
  <1>5. HasShape(Attach(T, h, cur), S \cup {h})
    <2>1. RootHasNoParent(T) /\ T.root \in S /\ NULL \notin Nodes
      BY <1>1, RbTreeAssumption DEF HasPath, IsTree
    <2>2. /\ Attach(T, h, cur).root = T.root
          /\ Attach(T, h, cur).parent = [T.parent EXCEPT ![h] = cur]
      BY <1>4, AttachFields
    <2>3. T.parent \in [Places -> Nodes \cup {NULL}] /\ T.root \in Places
      BY <1>4 DEF Trees
    <2>4. T.parent[T.root] # h
      BY <1>1, <2>1, RbTreeAssumption DEF RootHasNoParent, IsTree
    <2>5. RootHasNoParent(Attach(T, h, cur))
      BY <1>2, <2>1, <2>2, <2>3 DEF RootHasNoParent
    <2> QED BY <1>1, <1>2, <2>4, <2>5, AttachShape DEF HasShape
  <1>6. IsColored(Attach(T, h, cur), S \cup {h}, [bh EXCEPT ![h] = 0], h)
    BY <1>1, <1>2, <1>3, <1>4, AttachColors
  <1>7. Attach(T, h, cur).red[h]
    BY <1>4, AttachReds
  <1> QED BY <1>2, <1>5, <1>6, <1>7 DEF HasColors, IsRed

\* A round with a red uncle leaves a tree in which only the grandparent may be amiss.
LEMMA RecolorTree ==
    ASSUME NEW T, NEW S, HasShape(T, S), NEW n \in S, HasColors(T, S, n), IsRed(T, n),
           Unbalanced(T, n), IsRed(T, Uncle(T, n))
    PROVE  /\ HasShape(Recolor(T, n), S)
           /\ HasColors(Recolor(T, n), S, Grandparent(T, n))
           /\ Grandparent(T, n) \in S /\ IsRed(Recolor(T, n), Grandparent(T, n))
  <1>1. PICK sub : IsTree(T, S, sub)
    BY DEF HasShape
  <1>2. PICK bh : IsColored(T, S, bh, n)
    BY DEF HasColors
  <1>3. T \in Trees
    BY ShapeFacts
  <1>4. RootHasNoParent(Recolor(T, n))
    BY <1>1, <1>2, <1>3, RecolorKeeps DEF HasShape, RootHasNoParent
  <1> QED BY <1>1, <1>2, <1>3, <1>4, RecolorKeeps DEF HasShape, HasColors

\* Without a round left to do, blackening the root makes the tree red-black.
LEMMA BlackenTree ==
    ASSUME NEW T, NEW S, HasShape(T, S), NEW odd, HasColors(T, S, odd),
           odd \in S => ~Unbalanced(T, odd)
    PROVE  HasShape(BlackenRoot(T), S) /\ HasColors(BlackenRoot(T), S, NULL)
  <1>1. PICK sub : IsTree(T, S, sub)
    BY DEF HasShape
  <1>2. PICK bh : IsColored(T, S, bh, odd)
    BY DEF HasColors
  <1>3. T \in Trees
    BY ShapeFacts
  <1>4. RootHasNoParent(BlackenRoot(T))
    BY <1>3, BlackenFields DEF HasShape, RootHasNoParent
  <1> QED BY <1>1, <1>2, <1>3, <1>4, BlackenKeeps DEF HasShape, HasColors

\* With a black uncle the rotations do, and the loop ends.
LEMMA StraightenTree ==
    ASSUME NEW T, NEW S, HasShape(T, S), NEW n \in S, HasColors(T, S, n), IsRed(T, n),
           Unbalanced(T, n), ~IsRed(T, Uncle(T, n))
    PROVE  /\ HasShape(BlackenRoot(Straighten(T, n)), S)
           /\ HasColors(BlackenRoot(Straighten(T, n)), S, NULL)
  <1>1. PICK sub : IsTree(T, S, sub)
    BY DEF HasShape
  <1>2. PICK bh : IsColored(T, S, bh, n)
    BY DEF HasColors
  <1>3. T \in Trees /\ NULL \notin S
    BY ShapeFacts, RbTreeAssumption
  <1>4. HasShape(Straighten(T, n), S) /\ HasColors(Straighten(T, n), S, NULL)
    <2>1. RootHasNoParent(T)
      BY DEF HasShape
    <2> QED BY <1>1, <1>2, <1>3, <2>1, StraightenKeeps DEF HasShape, HasColors
  <1> QED BY <1>3, <1>4, BlackenTree

\* rbtree_destroy: the pointer of the parent to a leaf is cleared.
CutOff(T, n) == [T EXCEPT !.child[SideOf(T, n)][T.parent[n]] = SENTINEL]

\* A leaf is cut off: the tree of the others, or no node is left.
LEMMA CutLeaf ==
    ASSUME NEW T, NEW S, HasShape(T, S), NEW n \in S,
           \A d \in Side : T.child[d][n] = SENTINEL
    PROVE  /\ T.parent[n] = NULL => S = {n}
           /\ T.parent[n] # NULL =>
                 /\ T.parent[n] \in S \ {n}
                 /\ HasShape(CutOff(T, n), S \ {n})
  <1>1. PICK sub : IsTree(T, S, sub)
    BY DEF HasShape
  <1>2. S \subseteq Nodes /\ NULL \notin Nodes /\ SENTINEL \notin Nodes /\ T \in Trees /\ SENTINEL \in Places
    BY <1>1, RbTreeAssumption DEF IsTree, Places
  <1>3. sub[n] = {n}
    BY <1>1 DEF IsTree, Side
  <1>4. ASSUME T.parent[n] = NULL PROVE S = {n}
    <2>1. n = T.root
      BY <1>1, <1>2, <1>4 DEF IsTree
    <2> QED BY <1>1, <1>3, <2>1 DEF IsTree
  <1>5. ASSUME T.parent[n] # NULL
        PROVE  /\ T.parent[n] \in S \ {n}
               /\ HasShape(CutOff(T, n), S \ {n})
    <2>1. n # T.root
      BY <1>1, <1>2, <1>5 DEF HasShape, RootHasNoParent
    <2>2. PICK p, d : p = T.parent[n] /\ d = SideOf(T, n)
      OBVIOUS
    <2>3. p \in S /\ p # n /\ d \in Side /\ T.child[d][p] = n
      BY <1>1, <2>1, <2>2, ParentFacts
    <2>4. PICK R : R = WithChild(T, d, p, SENTINEL)
      OBVIOUS
    <2>5. R = CutOff(T, n)
      BY <2>2, <2>4 DEF WithChild, CutOff
    <2>6. /\ R \in Trees /\ R.root = T.root /\ R.parent = T.parent
          /\ \A e \in Side, x \in Nodes : R.child[e][x] =
                IF e = d /\ x = p THEN SENTINEL ELSE T.child[e][x]
      BY <1>2, <2>3, <2>4, ChildSet
    <2>7. \A x \in S, e \in Side : T.child[e][x] = n <=> e = d /\ x = p
      <3>1. \A x \in S, e \in Side : T.child[e][x] = n => T.parent[n] = x /\ SideOf(T, n) = e
        BY <1>1, <1>2, ChildFacts
      <3> QED BY <2>2, <2>3, <3>1
    <2>8. NoChildren(R, S \ {n})
      <3>1. NoChildren(T, S)
        BY <1>1 DEF IsTree
      <3> QED BY <2>6, <3>1 DEF NoChildren
    <2>9. Spliced(T, S, n, SENTINEL, R)
      BY <1>2, <2>1, <2>6, <2>7, <2>8 DEF Spliced
    <2>10. PICK k \in Side, o \in Side : o = Other(k)
      BY DEF Side, Other
    <2>11. T.child[k][n] = SENTINEL /\ T.child[Other(k)][n] = SENTINEL
      BY <2>10
    <2>12. IsTree(R, S \ {n}, Pruned(sub, n))
      <3>1. Spliced(T, S, n, T.child[Other(k)][n], R)
        BY <2>9, <2>11
      <3> QED BY <1>1, <2>11, <3>1, SpliceShape
    <2>13. RootHasNoParent(R)
      BY <2>6 DEF HasShape, RootHasNoParent
    <2> QED BY <2>2, <2>3, <2>5, <2>12, <2>13 DEF HasShape
  <1> QED BY <1>4, <1>5
=============================================================================
