---------------------------- MODULE DesignDocument ----------------------------
(***************************************************************************)
(* The document of a design and the operations on it (packages/core:        *)
(* tree.ts, applyOperations.ts, validation.ts, responsive-frame-variants.ts) *)
(* as operators.  A document is a forest: pages and containers list their    *)
(* children, a record is archived and never removed.  Frames of one page may *)
(* be linked into a group of responsive variants, each for a range of        *)
(* widths; an instance names a component; a prototype link leads from a node *)
(* to a page or a node on it.                                                *)
(*                                                                         *)
(* Of the content of nodes one style is kept; names, positions, metadata,    *)
(* assets and tokens are left out.                                           *)
(***************************************************************************)
EXTENDS Naturals, FiniteSets, Sequences, SequencesExt

CONSTANTS
    MaxPages,   \* bound: pages a document may have
    MaxNodes,   \* bound: nodes a document may have, archived ones included
    LinkIds     \* prototype links it may have

ASSUME DocumentAssumption == {MaxPages, MaxNodes} \subseteq Nat \ {0}

\* Ids of nodes; ids are compared as the code does where it orders nodes by id,
\* and the width of a frame is its id, so that frames differ in width.
Nodes == 1..MaxNodes
Pages == MaxNodes + 1 .. MaxNodes + MaxPages
NoNode == 0
Width(n) == n
Ascending(S) == SelectSeq([n \in Nodes |-> n], LAMBDA n : n \in S)

Unlinked == [group |-> NoNode, frames |-> <<>>, min |-> 0, max |-> 0]
Unbounded == 0      \* a range of widths without a maximum
NoLink == [source |-> NoNode, page |-> NoNode, node |-> NoNode]
Plain == "plain"    \* the style of a node nothing is set on

Containers == {"frame", "component"}
Kinds == Containers \cup {"layer", "instance"}

OnRecord(d, n) == d.kind[n] \in Kinds
Active(d, n) == OnRecord(d, n) /\ n \notin d.archived
ActiveNodes(d) == {n \in Nodes : Active(d, n)}
OpenPages(d) == {p \in Pages : d.page[p] = "active"}

ChildrenOf(d, h) == ToSet(d.children[h])
Holders(d, n) == {h \in Pages \cup Nodes : n \in ChildrenOf(d, h)}

\* findNodeParent; a node without a parent has none in an archived subtree only.
HasParent(d, n) == Holders(d, n) # {}
ParentOf(d, n) == CHOOSE h \in Holders(d, n) : TRUE

\* getDescendantIds with the archived ones, of several roots, roots included.
Below(d, roots) ==
    LET down[k \in 0..MaxNodes] ==
            IF k = 0 THEN roots
            ELSE LET above == down[k - 1] IN above \cup UNION {ChildrenOf(d, n) : n \in above}
    IN  down[MaxNodes]

Ancestors(d, n) == {a \in Nodes \ {n} : n \in Below(d, {a})}

\* walkPage: the nodes of a page in the order they are drawn, parents first.
WalkPage(d, p) ==
    LET walk[k \in 0..MaxNodes] ==
            [h \in Pages \cup Nodes |->
                IF k = 0 THEN <<>>
                ELSE FoldLeft(LAMBDA seen, n : seen \o <<n>> \o walk[k - 1][n], <<>>, d.children[h])]
    IN  SelectSeq(walk[MaxNodes][p], LAMBDA n : n \notin d.archived)

-----------------------------------------------------------------------------
(* What makes a document valid: lintDesignDocument, its errors.              *)

\* Definitions of components and what is below them need no page.
ComponentSource(d) == Below(d, {n \in Nodes : OnRecord(d, n) /\ d.kind[n] = "component"})
Reachable(d) == Below(d, UNION {ChildrenOf(d, p) : p \in OpenPages(d)})

\* A node is listed once, by one page or container, archived ones included.
ListedOnce(d) ==
    /\ \A h \in Pages \cup Nodes : Cardinality(ChildrenOf(d, h)) = Len(d.children[h])
    /\ \A n \in Nodes : Cardinality(Holders(d, n)) <= 1

ValidTree(d) ==
    /\ \A h \in Pages \cup Nodes : \A n \in ChildrenOf(d, h) :
          /\ OnRecord(d, n)
          /\ h \in OpenPages(d) \cup ActiveNodes(d) => Active(d, n)
    /\ ListedOnce(d)
    /\ \A n \in Nodes : n \notin Below(d, ChildrenOf(d, n))
    /\ ActiveNodes(d) \subseteq Reachable(d) \cup ComponentSource(d)
    /\ d.archived \cap Reachable(d) = {}

ValidReferences(d) ==
    /\ \A n \in ActiveNodes(d) \cup d.archived : d.kind[n] = "instance" =>
          /\ d.component[n] \in ActiveNodes(d)
          /\ d.kind[d.component[n]] = "component"
    /\ \A l \in LinkIds : d.link[l] # NoLink =>
          /\ Active(d, d.link[l].source)
          /\ d.link[l].page \in OpenPages(d)
          /\ d.link[l].node = NoNode \/ Active(d, d.link[l].node)

\* validateResponsiveFrameVariants: who is linked names everyone who is, in one
\* order, on one page, and the ranges follow that order.
Linked(d, n) == Active(d, n) /\ d.kind[n] = "frame" /\ d.variant[n] # Unlinked
Members(d, group) == {n \in Nodes : Linked(d, n) /\ d.variant[n].group = group}
PagesOf(d, n) == {p \in OpenPages(d) : n \in Below(d, ChildrenOf(d, p))}

WellRanged(v) == v.max = Unbounded \/ v.min < v.max
InOrder(v, w) == v.max # Unbounded /\ v.max <= w.min

ValidVariants(d) ==
    \A n \in {m \in Nodes : Linked(d, m)} :
        LET v == d.variant[n]
        IN  /\ Cardinality(PagesOf(d, n)) = 1
            /\ Len(v.frames) >= 2
            /\ Cardinality(ToSet(v.frames)) = Len(v.frames)
            /\ ToSet(v.frames) = Members(d, v.group)
            /\ \A m \in ToSet(v.frames) :
                  /\ PagesOf(d, m) = PagesOf(d, n)
                  /\ d.variant[m].frames = v.frames
            /\ WellRanged(v)
            /\ \A i \in 1..Len(v.frames) - 1 :
                  InOrder(d.variant[v.frames[i]], d.variant[v.frames[i + 1]])

Valid(d) == ValidTree(d) /\ ValidReferences(d) /\ ValidVariants(d)

-----------------------------------------------------------------------------
(* The operations.  Each gives a document or is refused; a refusal, or a     *)
(* result that is not valid, refuses the whole batch.                        *)

Refused == [ok |-> FALSE]
Gives(d) == [ok |-> TRUE, document |-> d]
When(guard, result) == IF guard THEN result ELSE Refused

\* parentChildren: an open page or an active container.
CanHold(d, h) ==
    IF h \in Pages THEN h \in OpenPages(d)
    ELSE h \in Nodes /\ Active(d, h) /\ d.kind[h] \in Containers

Insert(s, n, index) == InsertAt(s, index + 1, n)

CreatePage(d, op) ==
    When(d.page[op.page] = "absent",
         Gives([d EXCEPT !.page[op.page] = "active"]))

\* validateNewTree: new records that form trees with the given roots.
NewForest(d, op) ==
    LET new == DOMAIN op.nodes
        lists(n) == op.nodes[n].children
        times(n) == Cardinality({place \in new \X Nodes :
                                    /\ place[2] \in DOMAIN lists(place[1])
                                    /\ lists(place[1])[place[2]] = n})
        below[k \in 0..MaxNodes] ==
            IF k = 0 THEN ToSet(op.roots)
            ELSE LET above == below[k - 1] IN above \cup UNION {ToSet(lists(n)) : n \in above}
    IN  /\ \A n \in new : ~OnRecord(d, n)
        /\ Cardinality(ToSet(op.roots)) = Len(op.roots)
        /\ ToSet(op.roots) \subseteq new
        /\ \A n \in new : ToSet(lists(n)) \subseteq new
        /\ \A n \in new : times(n) = (IF n \in ToSet(op.roots) THEN 0 ELSE 1)
        /\ below[MaxNodes] = new

CreateTree(d, op) ==
    LET new == DOMAIN op.nodes
        made(field, old) == [n \in Nodes |-> IF n \in new THEN op.nodes[n][field] ELSE old[n]]
        placed == [h \in Pages \cup Nodes |->
                      IF h \in new THEN op.nodes[h].children
                      ELSE IF h = op.parent THEN d.children[h] \o op.roots
                      ELSE d.children[h]]
    IN  When(NewForest(d, op) /\ CanHold(d, op.parent),
             Gives([d EXCEPT !.kind = made("kind", @), !.style = made("style", @),
                             !.variant = made("variant", @), !.component = made("component", @),
                             !.children = placed]))

\* updateNode, by the field that is patched.
Restyle(d, op) ==
    When(Active(d, op.node), Gives([d EXCEPT !.style[op.node] = op.style]))
Relink(d, op) ==
    When(Active(d, op.node) /\ d.kind[op.node] = "frame",
         Gives([d EXCEPT !.variant[op.node] = op.variant]))

Detached(d, n) == [d EXCEPT !.children[ParentOf(d, n)] = Remove(@, n)]

\* removeFromCurrentParent, before the index is looked at.
MoveNode(d, op) ==
    LET out == Detached(d, op.node)
    IN  When(/\ Active(d, op.node)
             /\ op.parent \notin Below(d, {op.node})
             /\ CanHold(d, op.parent)
             /\ HasParent(d, op.node) /\ CanHold(d, ParentOf(d, op.node))
             /\ op.index <= Len(out.children[op.parent]),
             Gives([out EXCEPT !.children[op.parent] = Insert(@, op.node, op.index)]))

\* reconcileResponsiveFrameVariantsAfterArchive: groups that lose members close
\* ranks in the order of their first member by id; the last one is unlinked.
Reconciled(d, gone) ==
    LET hit == {d.variant[n].group : n \in
                   {m \in Nodes : d.variant[m] # Unlinked /\ (m \in gone \/ ToSet(d.variant[m].frames) \cap gone # {})}}
        left(group) == Members(d, group)
        kept(group) ==
            LET all == Ascending(left(group))
                first == SelectSeq(d.variant[all[1]].frames, LAMBDA n : n \in left(group))
            IN  first \o SelectSeq(all, LAMBDA n : n \notin ToSet(first))
        after(n) ==
            IF ~Linked(d, n) \/ d.variant[n].group \notin hit THEN d.variant[n]
            ELSE IF Cardinality(left(d.variant[n].group)) < 2 THEN Unlinked
            ELSE [d.variant[n] EXCEPT !.frames = kept(d.variant[n].group)]
    IN  [d EXCEPT !.variant = [n \in Nodes |-> after(n)]]

\* Mutant: links that lead to what is archived stay.
WithoutLinks_TargetsKept(d, gone, page) ==
    [d EXCEPT !.link = [l \in LinkIds |->
        IF d.link[l].source \in gone \/ d.link[l].page = page THEN NoLink ELSE d.link[l]]]

\* The links that start at, or lead to, what is archived go with it.
WithoutLinks(d, gone, page) ==
    [d EXCEPT !.link = [l \in LinkIds |->
        IF d.link[l].source \in gone \/ d.link[l].node \in gone \/ d.link[l].page = page
        THEN NoLink ELSE d.link[l]]]

Archived(d, gone, page) ==
    WithoutLinks(Reconciled([d EXCEPT !.archived = @ \cup gone], gone), gone, page)

ArchiveNodes(d, op) ==
    LET roots == {n \in op.nodes : Ancestors(d, n) \cap op.nodes = {}}
        out == [d EXCEPT !.children = [h \in Pages \cup Nodes |->
                   SelectSeq(@[h], LAMBDA n : n \notin roots)]]
    IN  When(/\ op.nodes \subseteq ActiveNodes(d)
             /\ \A n \in roots : HasParent(d, n) /\ CanHold(d, ParentOf(d, n)),
             Gives(Archived(out, Below(d, roots), NoNode)))

ArchivePage(d, op) ==
    When(op.page \in OpenPages(d) /\ OpenPages(d) # {op.page},
         Gives(Archived([d EXCEPT !.page[op.page] = "archived"],
                        Below(d, ChildrenOf(d, op.page)), op.page)))

SetLink(d, op) == Gives([d EXCEPT !.link[op.id] = op.link])

Applied(d, op) ==
    CASE op.type = "create_page" -> CreatePage(d, op)
      [] op.type = "create_tree" -> CreateTree(d, op)
      [] op.type = "restyle" -> Restyle(d, op)
      [] op.type = "relink" -> Relink(d, op)
      [] op.type = "move_node" -> MoveNode(d, op)
      [] op.type = "archive_nodes" -> ArchiveNodes(d, op)
      [] op.type = "archive_page" -> ArchivePage(d, op)
      [] op.type = "set_prototype_link" -> SetLink(d, op)

\* applyOperations: one operation after the other, then the result is validated.
Apply(d, operations) ==
    LET result == FoldLeft(LAMBDA r, op : IF r.ok THEN Applied(r.document, op) ELSE r,
                           Gives(d), operations)
    IN  When(result.ok /\ Valid(result.document), result)
==============================================================================
