---------------------------- MODULE SidebarTree ----------------------------
(***************************************************************************)
(* The sidebar drawn from the nested sessions: arrangeSessionTree lists    *)
(* the visible ones, each descendant directly below its top-level session. *)
(***************************************************************************)
EXTENDS SessionNesting, SequencesExt

Listed == SelectSeq([i \in SidebarIds |-> i], LAMBDA s : s \in visible)
ParentOf(s) == IF parent[s] \in visible \ {s} THEN parent[s] ELSE Root
ChildrenOf(s) == SelectSeq(Listed, LAMBDA c : ParentOf(c) = s)
RowIds(rows) == {rows[i].id : i \in DOMAIN rows}

\* Depth-first: the descendants of the sessions in kids that have no row yet.
RECURSIVE CollectDescendants(_, _)
CollectDescendants(rows, kids) ==
  IF kids = <<>> THEN rows
  ELSE LET kid == Head(kids)
           with == IF kid \in RowIds(rows) THEN rows
                   ELSE CollectDescendants(Append(rows, [id |-> kid, depth |-> 1]), ChildrenOf(kid))
       IN CollectDescendants(with, Tail(kids))

EmitRoot(rows, s) ==
  IF s \in RowIds(rows) THEN rows
  ELSE CollectDescendants(Append(rows, [id |-> s, depth |-> 0]), ChildrenOf(s))

\* Mutant: the rows trapped in a cycle are left out.
ArrangeSessionTree_RootsOnly == FoldLeft(EmitRoot, <<>>, ChildrenOf(Root))
\* The real roots, then whatever is trapped in a cycle.
ArrangeSessionTree == FoldLeft(EmitRoot, FoldLeft(EmitRoot, <<>>, ChildrenOf(Root)), Listed)
-----------------------------------------------------------------------------
\* "Every input session appears exactly once in the output, even under malformed lineage":
\* the cycles two moves can leave behind hide no session from the sidebar.
EveryRowOnce ==
  LET rows == ArrangeSessionTree
  IN RowIds(rows) = visible /\ Len(rows) = Cardinality(visible)

\* A session is grouped under its top-level ancestor, however deep it is: the last root row
\* before it is above it, and has no visible parent itself unless its chain leads into a cycle.
GroupedUnderAncestor ==
  LET rows == ArrangeSessionTree
      shown == [s \in SidebarIds |-> IF s \in visible THEN ParentOf(s) ELSE Root]
  IN \A i \in DOMAIN rows :
       LET s == rows[i].id
           r == rows[CHOOSE j \in 1 .. i : rows[j].depth = 0 /\ \A k \in j + 1 .. i : rows[k].depth = 1].id
       IN /\ s # r => r \in Above(s, shown)
          /\ shown[r] # Root => \A u \in Above(r, shown) : shown[u] # Root

\* The sidebar's rows, whatever cycles overtaken checks have left (sessionTree.ts:131).
SidebarSafe == EveryRowOnce /\ GroupedUnderAncestor
=============================================================================
