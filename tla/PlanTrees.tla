----------------------------- MODULE PlanTrees -----------------------------
(***************************************************************************)
(* The trees that plans are made of, and the surgery that the rewriting    *)
(* passes do on them (structs/tree_node.ts, tree_helper.ts).  A tree is a  *)
(* root, the operation of every node ("op") and its children in order      *)
(* ("kids"); nodes are numbers in the order in which they were created,    *)
(* the next of which is "next", and a node that was cut off is in neither. *)
(***************************************************************************)
EXTENDS Integers, Sequences, FiniteSets, TLC, SequencesExt

Tree(root, op, kids) == [root |-> root, op |-> op, kids |-> kids, next |-> Cardinality(DOMAIN op) + 1]
NodesOf(t) == DOMAIN t.op

Parents(t, n) == {m \in NodesOf(t) : n \in ToSet(t.kids[m])}
ParentOf(t, n) == CHOOSE m \in Parents(t, n) : TRUE
IsRoot(t, n) == n = t.root
PlaceOf(t, n) == CHOOSE i \in 1..Len(t.kids[ParentOf(t, n)]) : t.kids[ParentOf(t, n)][i] = n

\* traverse(), and find() with a function that says where not to go on.
RECURSIVE PreorderUntil(_, _, _)
PreorderUntil(t, n, stop) ==
  << n >> \o (IF n \in stop THEN <<>>
              ELSE FlattenSeq([i \in 1..Len(t.kids[n]) |-> PreorderUntil(t, t.kids[n][i], stop)]))
Preorder(t, n) == PreorderUntil(t, n, {})
Find(t, n, Wanted(_)) == SelectSeq(Preorder(t, n), Wanted)
LeafNodes(t, n) == Find(t, n, LAMBDA m : t.kids[m] = <<>>)

RECURSIVE Ancestors(_, _)
Ancestors(t, n) ==
  IF IsRoot(t, n) THEN <<>> ELSE << ParentOf(t, n) >> \o Ancestors(t, ParentOf(t, n))

\* Drop what the root no longer leads to.
Prune(t) ==
  LET reached == ToSet(Preorder(t, t.root)) IN
  [t EXCEPT !.op = [n \in reached |-> @[n]], !.kids = [n \in reached |-> @[n]]]

AddNode(t, op, kids) ==
  [t EXCEPT !.op = (t.next :> op) @@ @, !.kids = (t.next :> kids) @@ @, !.next = @ + 1]

\* Put the nodes of a sequence where n was, under the parent of n.
InPlaceOf(t, n, nodes) ==
  IF IsRoot(t, n) THEN [t EXCEPT !.root = nodes[1]]
  ELSE LET m == ParentOf(t, n)
           i == PlaceOf(t, n)
           new == SubSeq(t.kids[m], 1, i - 1) \o nodes \o SubSeq(t.kids[m], i + 1, Len(t.kids[m]))
       IN  [t EXCEPT !.kids = (m :> new) @@ @]

\* removeNode(): its children take its place.
RemoveNode(t, n) == Prune(InPlaceOf(t, n, t.kids[n]))

\* insertNodeAt(): a new only child, which takes over the children.
InsertNodeAt(t, existing, node) ==
  [t EXCEPT !.kids = (existing :> <<node>>) @@ (node :> t.kids[existing]) @@ @]

\* swapNodeWithChild()
SwapNodeWithChild(t, n) ==
  LET child == t.kids[n][1] IN InsertNodeAt(InPlaceOf(t, n, <<child>>), child, n)

\* pushNodeBelowChild(): the node is cut out and a copy of it is put above each of
\* the grandchildren named; returned with the copies.
PushNodeBelowChild(t, n, chosen) ==
  LET child == t.kids[n][1]
      grand == t.kids[child]
      picked == SelectSeq([i \in 1..Len(grand) |-> i], LAMBDA i : grand[i] \in chosen)
      Copy(acc, i) ==
        LET t1 == AddNode(acc.tree, t.op[n], << grand[i] >>)
            new == acc.tree.next
        IN  [tree |-> [t1 EXCEPT !.kids = (child :> ReplaceAt(t1.kids[child], i, new)) @@ @],
             copies |-> Append(acc.copies, new)]
      done == FoldLeft(Copy, [tree |-> InPlaceOf(t, n, <<child>>), copies |-> <<>>], picked)
  IN  [tree |-> Prune(done.tree), copies |-> done.copies]

\* replaceChainWithChain(), and its forms for a single node: new nodes take the
\* place of a chain, and the last of them its children.
ReplaceChain(t, head, tail, ops) ==
  LET first == t.next
      n == Len(ops)
      news == first..(first + n - 1)
      op == [m \in news |-> ops[m - first + 1]]
      kids == [m \in news |-> IF m = first + n - 1 THEN t.kids[tail] ELSE << m + 1 >>]
      t1 == [t EXCEPT !.op = op @@ @, !.kids = kids @@ @, !.next = @ + n]
  IN  Prune(InPlaceOf(t1, head, << first >>))
ReplaceNodeWithChain(t, n, ops) == ReplaceChain(t, n, n, ops)

\* map(): the same tree, of other nodes.
MapTree(t, Op(_)) == [t EXCEPT !.op = [n \in DOMAIN @ |-> Op(@[n])]]

=============================================================================
