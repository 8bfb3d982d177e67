----------------------------- MODULE EntryCache -----------------------------
(***************************************************************************)
(* The red-black tree of name hashes (src/src/ecache.c).  A tree is the    *)
(* function from the addresses of its nodes to what they hold, and the     *)
(* root the running function works on.  The code is written twice, left    *)
(* and right; here the side is a parameter.  Whether an entry is a         *)
(* directory, and its data cluster, travel with the node and are left out. *)
(***************************************************************************)
EXTENDS Integers, FiniteSets, Heap

Sides    == {"l", "r"}
Other(s) == IF s = "l" THEN "r" ELSE "l"

\* A new node: z->l = z->r = z->p = NULL, red.
Leaf(h) == [p |-> NIL, l |-> NIL, r |-> NIL, black |-> FALSE, hash |-> h]

Red(T, a)   == a # NIL /\ ~T.n[a].black
Black(T, a) == ~Red(T, a)

\* The side of its parent a node hangs on.
SideOf(T, a) == IF T.n[T.n[a].p].l = a THEN "l" ELSE "r"

\* The child in which a hash is looked for.
Child(T, a, h) == IF h < T.n[a].hash THEN T.n[a].l ELSE T.n[a].r

Paint(T, S, black) ==
  [T EXCEPT !.n = [a \in DOMAIN T.n |->
                     IF a \in S THEN [T.n[a] EXCEPT !.black = black] ELSE T.n[a]]]

\* The pointer f of node a, "p", "l" or "r", is made to lead to b.
Point(T, a, f, b) == [T EXCEPT !.n[a][f] = b]

\* The link to u, of its parent or of the root, is made to lead to v.
Relink(T, u, v) ==
  IF T.n[u].p = NIL THEN [T EXCEPT !.root = v]
                    ELSE Point(T, T.n[u].p, SideOf(T, u), v)

\* _transplant: v takes the place of u below the parent of u.
Transplant(T, u, v) ==
  LET L == Relink(T, u, v)
  IN IF v = NIL THEN L ELSE Point(L, v, "p", T.n[u].p)

\* Mutant: the inner grandchild is not handed over.
Rotate_LoseInner(T, x, s) ==
  LET y == T.n[x][Other(s)]
      L == Transplant(T, x, y)
  IN Point(Point(Point(L, x, Other(s), NIL), x, "p", y), y, s, x)

\* _rotate_left for s = "l", _rotate_right for s = "r".
Rotate(T, x, s) ==
  LET y == T.n[x][Other(s)]
      c == T.n[y][s]
      L == Transplant(T, x, y)
      M == Point(Point(Point(L, x, Other(s), c), x, "p", y), y, s, x)
  IN IF c = NIL THEN M ELSE Point(M, c, "p", x)

\* The nodes below a, itself included, along some sides.
Reach(T, a, S) ==
  {x \in DOMAIN T.n :
     \A C \in SUBSET DOMAIN T.n :
       (a \in C /\ \A y \in C, s \in S : T.n[y][s] # NIL => T.n[y][s] \in C) => x \in C}

Below(T, a) == IF a = NIL THEN {} ELSE Reach(T, a, Sides)

\* _minimum
Minimum(T, a) == CHOOSE m \in Reach(T, a, {"l"}) : T.n[m].l = NIL
-----------------------------------------------------------------------------
(* ecache_insert: node z with the hash h becomes a child of y.             *)
Attach(T, z, y, h) ==
  LET A == Point(T, z, "p", y)
  IN IF y = NIL THEN [A EXCEPT !.root = z]
     ELSE Point(A, y, IF h < T.n[y].hash THEN "l" ELSE "r", z)

Uncle(T, z) ==
  LET p == T.n[z].p IN T.n[T.n[p].p][Other(SideOf(T, p))]

\* _fix_insert, the uncle is red.
PushUp(T, z) ==
  LET p == T.n[z].p IN
  Paint(Paint(T, {p, Uncle(T, z)}, TRUE), {T.n[p].p}, FALSE)

(* _fix_insert, the uncle is black: an inner grandchild is first rotated   *)
(* outwards, then the parent takes the grandparent's place.                *)
RotateUp(T, z) ==
  LET p  == T.n[z].p
      g  == T.n[p].p
      s  == SideOf(T, p)
      in == SideOf(T, z) # s
      R  == IF in THEN Rotate(T, p, s) ELSE T
      q  == IF in THEN z ELSE p
  IN [tree |-> Rotate(Paint(Paint(R, {q}, TRUE), {g}, FALSE), g, Other(s)),
      z    |-> IF in THEN p ELSE z]
-----------------------------------------------------------------------------
(* ecache_delete: the node z is taken out.  x is what took the place of    *)
(* the node y that went, xp its parent; fix says that y, as it is now, is  *)
(* black.  With two children y has been given the colour of z by then.     *)
Unlink(T, z) ==
  LET l == T.n[z].l
      r == T.n[z].r
      Without(U) == [U EXCEPT !.n = [a \in DOMAIN U.n \ {z} |-> U.n[a]]]
  IN IF l = NIL \/ r = NIL
     THEN LET x == IF l = NIL THEN r ELSE l IN
          [tree |-> Without(Transplant(T, z, x)), x |-> x, xp |-> T.n[z].p,
           fix |-> T.n[z].black]
     ELSE LET y == Minimum(T, r)
              x == T.n[y].r
              near == T.n[y].p = z
              A == IF near THEN T
                   ELSE LET U == Transplant(T, y, x)
                            V == Point(U, y, "r", U.n[z].r)
                        IN IF V.n[y].r = NIL THEN V ELSE Point(V, V.n[y].r, "p", y)
              B == Point(Point(Transplant(A, z, y), y, "l", l), l, "p", y)
              C == Paint(B, {y}, T.n[z].black)
          IN [tree |-> Without(C), x |-> x,
              xp   |-> IF near THEN y ELSE A.n[y].p,
              fix  |-> T.n[z].black]
=============================================================================
