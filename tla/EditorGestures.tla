---------------------------- MODULE EditorGestures ----------------------------
(***************************************************************************)
(* What an Edit of EditorStore is: the gestures of the editor on the         *)
(* document it shows, each a batch of operations and, where it can be taken   *)
(* back, the batch that does so, and undo and redo (designer-store.ts).       *)
(* Gestures that cannot be taken back leave the batches before them where    *)
(* they are.  A refused batch changes nothing but a message.                 *)
(***************************************************************************)
EXTENDS EditorStore, DesignDocument

CONSTANTS
    FirstDocuments,  \* documents the editor may open
    Styles,          \* values of the style of a node
    UndoLimit,       \* batches that can be taken back
    MaxGestures,     \* bound: gestures, and revisions of others
    MaxUndone        \* bound: of them taken back or made again

ASSUME GestureAssumption ==
    /\ UndoLimit \in Nat \ {0} /\ {MaxGestures, MaxUndone} \subseteq Nat
    /\ Plain \in Styles
    /\ \A d \in FirstDocuments : Valid(d)

VARIABLES
    canvas,      \* the document with its pending operations applied
    undoStack,   \* batches [operations, inverse, redoable, before, after];
    redoStack,   \* before and after are history: what was shown
    gestures,    \* bounds: how many there were,
    undone       \* and how often one was undone or redone

gestureVars == <<canvas, undoStack, redoStack, gestures, undone>>

\* What is shown of a document: everything but archived records.
Visible(d) ==
    [page |-> OpenPages(d),
     children |-> [h \in OpenPages(d) \cup ActiveNodes(d) |-> d.children[h]],
     node |-> [n \in ActiveNodes(d) |-> <<d.kind[n], d.style[n], d.variant[n], d.component[n]>>],
     link |-> d.link]

\* Ids are drawn at random; here they are the next ones.
Unused == Ascending({n \in Nodes : ~OnRecord(canvas, n)})
CanCreate(k) == Len(Unused) >= k
NextNodes(k) == SubSeq(Unused, 1, k)

\* What is drawn can be selected; a detached component is not drawn.
Selectable == UNION {ToSet(WalkPage(canvas, p)) : p \in OpenPages(canvas)}

NewNode(kind, children) ==
    [kind |-> kind, children |-> children, style |-> Plain, variant |-> Unlinked, component |-> NoNode]
Create(parent, root, nodes) ==
    [type |-> "create_tree", parent |-> parent, roots |-> <<root>>, nodes |-> nodes]
Archive(nodes) == [type |-> "archive_nodes", nodes |-> nodes]
SetStyle(n, style) == [type |-> "restyle", node |-> n, style |-> style]
SetVariant(n, v) == [type |-> "relink", node |-> n, variant |-> v]
Move(n, parent, index) == [type |-> "move_node", node |-> n, parent |-> parent, index |-> index]
PutLink(id, link) == [type |-> "set_prototype_link", id |-> id, link |-> link]

-----------------------------------------------------------------------------
(* Batches.                                                                 *)

\* executeBatch
Execute(operations, inverse, redoable) ==
    LET result == Apply(canvas, operations)
        batch == [operations |-> operations, inverse |-> inverse, redoable |-> redoable,
                  before |-> Visible(canvas), after |-> Visible(result.document)]
        kept == SubSeq(undoStack, Len(undoStack) - UndoLimit + 2, Len(undoStack))
    IN  /\ result.ok
        /\ canvas' = result.document
        /\ undoStack' = IF inverse = <<>> THEN undoStack
                        ELSE Append(IF Len(undoStack) < UndoLimit THEN undoStack ELSE kept, batch)
        /\ redoStack' = <<>>

Undo ==
    /\ undoStack # <<>>
    /\ LET batch == Last(undoStack)
           result == Apply(canvas, batch.inverse)
       IN  /\ result.ok
           /\ canvas' = result.document
           /\ redoStack' = IF batch.redoable THEN Append(redoStack, batch) ELSE redoStack
    /\ undoStack' = Front(undoStack)

Redo ==
    /\ redoStack # <<>>
    /\ LET batch == Last(redoStack)
           result == Apply(canvas, batch.operations)
       IN  /\ result.ok
           /\ canvas' = result.document
           /\ undoStack' = Append(undoStack, batch)
    /\ redoStack' = Front(redoStack)

\* A revision of someone else is shown: nothing is left to undo.
OthersRevise(operations) ==
    LET result == Apply(canvas, operations)
    IN  /\ result.ok
        /\ canvas' = result.document
        /\ undoStack' = <<>> /\ redoStack' = <<>>

-----------------------------------------------------------------------------
(* Gestures.                                                                *)

Repaint(n, style) ==
    /\ n \in Selectable /\ style # canvas.style[n]
    /\ Execute(<<SetStyle(n, style)>>, <<SetStyle(n, canvas.style[n])>>, TRUE)

\* defaultParent: the container that is selected, else the first frame of the
\* page, else the page; a frame for a device goes to the page.
FirstFrame(p) ==
    SelectInSeq(canvas.children[p], LAMBDA n : canvas.kind[n] = "frame" /\ Active(canvas, n))
Places(kind) ==
    {n \in Selectable : canvas.kind[n] \in Containers}
        \cup {p \in OpenPages(canvas) : kind = "frame" \/ FirstFrame(p) = 0}

AddNode(kind, parent) ==
    /\ CanCreate(1) /\ parent \in Places(kind)
    /\ LET n == NextNodes(1)[1]
       IN  Execute(<<Create(parent, n, n :> NewNode(kind, <<>>))>>, <<Archive({n})>>, FALSE)

\* A button: a frame with a label in it.
InsertTemplate(parent) ==
    /\ CanCreate(2) /\ parent \in Places("layer")
    /\ LET n == NextNodes(2)
       IN  Execute(<<Create(parent, n[1], n[1] :> NewNode("frame", <<n[2]>>)
                                          @@ n[2] :> NewNode("layer", <<>>))>>,
                   <<Archive({n[1]})>>, FALSE)

\* cloneSubtree: everything but the ids is copied.
DuplicateSelection(n) ==
    LET old == Ascending(Below(canvas, {n}))
        new == NextNodes(Len(old))
        copy(m) == new[SelectInSeq(old, LAMBDA o : o = m)]
        record(m) == [kind |-> canvas.kind[m], style |-> canvas.style[m],
                      variant |-> canvas.variant[m], component |-> canvas.component[m],
                      children |-> [i \in DOMAIN canvas.children[m] |-> copy(canvas.children[m][i])]]
    IN  /\ n \in Selectable
        /\ CanCreate(Len(old))
        /\ Execute(<<Create(ParentOf(canvas, n), copy(n),
                            [m \in ToSet(new) |-> record(old[SelectInSeq(new, LAMBDA o : o = m)])])>>,
                   <<Archive({copy(n)})>>, FALSE)

\* moveNodeByGesture, moveSelection and reparentSelection: another place among
\* the siblings, or any place of another parent.
MoveSelection(n, parent, index) ==
    LET from == ParentOf(canvas, n)
        at == SelectInSeq(canvas.children[from], LAMBDA m : m = n) - 1
        room == Len(canvas.children[parent]) - (IF parent = from THEN 1 ELSE 0)
    IN  /\ n \in Selectable
        /\ index <= room
        /\ parent # from \/ index # at
        /\ Execute(<<Move(n, parent, index)>>, <<Move(n, from, at)>>, TRUE)

\* A node has one link that a click follows, to a page or a node; a first one
\* cannot be taken back.
SetNodePrototype(n, page, target) ==
    LET mine == {l \in LinkIds : canvas.link[l].source = n}
        free == {l \in LinkIds : canvas.link[l] = NoLink}
        link == [source |-> n, page |-> page, node |-> target]
    IN  /\ n \in Selectable
        /\ \/ \E l \in mine :
                /\ canvas.link[l] # link
                /\ Execute(<<PutLink(l, link)>>, <<PutLink(l, canvas.link[l])>>, TRUE)
           \/ /\ mine = {} /\ free # {}
              /\ Execute(<<PutLink(CHOOSE l \in free : TRUE, link)>>, <<>>, TRUE)

-----------------------------------------------------------------------------
(* Responsive variants (responsive-variants.ts).                            *)

\* calculatedBreakpoints: half way between one width and the next, rounded up.
Minimums(frames) ==
    LET least[i \in 1..Len(frames)] ==
            IF i = 1 THEN 0
            ELSE LET middle == (Width(frames[i - 1]) + Width(frames[i]) + 1) \div 2
                     after == least[i - 1] + 1
                 IN  IF middle > after THEN middle ELSE after
    IN  least

\* buildPlan: the frames in the order of their widths.
VariantPlan(frames, group) ==
    LET ordered == Ascending(frames)
        least == Minimums(ordered)
        range(i) == [group |-> group, frames |-> ordered, min |-> least[i],
                     max |-> IF i < Len(ordered) THEN least[i + 1] ELSE Unbounded]
    IN  [i \in DOMAIN ordered |-> SetVariant(ordered[i], range(i))]

Undone(operations) ==
    [i \in DOMAIN operations |-> SetVariant(operations[i].node, canvas.variant[operations[i].node])]

Planned(frames) ==
    /\ Cardinality(frames) >= 2
    /\ \A n \in frames : Active(canvas, n) /\ canvas.kind[n] = "frame"
    /\ \E p \in Pages : \A n \in frames : PagesOf(canvas, n) = {p}

\* A new group has an id no frame's group has; ids are drawn at random.
FreshGroup == CHOOSE g \in 1..MaxNodes : \A n \in Nodes : canvas.variant[n].group # g

LinkFrames(frames) ==
    /\ Planned(frames)
    /\ \A n \in frames : canvas.variant[n] = Unlinked
    /\ LET plan == VariantPlan(frames, FreshGroup) IN Execute(plan, Undone(plan), TRUE)

RecalculateFrames(group) ==
    LET plan == VariantPlan(Members(canvas, group), group)
    IN  Planned(Members(canvas, group)) /\ Execute(plan, Undone(plan), TRUE)

UnlinkFrames(group) ==
    LET members == Ascending(Members(canvas, group))
        operations == [i \in DOMAIN members |-> SetVariant(members[i], Unlinked)]
    IN  members # <<>> /\ Execute(operations, Undone(operations), TRUE)

-----------------------------------------------------------------------------
(* Gestures that cannot be taken back.                                      *)

DeleteSelection(nodes) ==
    /\ nodes # {} /\ nodes \subseteq Selectable
    /\ Execute(<<Archive({n \in nodes : ~(\E m \in nodes : n \in ChildrenOf(canvas, m))})>>, <<>>, TRUE)

AddPage(p) == Execute(<<[type |-> "create_page", page |-> p]>>, <<>>, TRUE)

DeletePage(p) == Execute(<<[type |-> "archive_page", page |-> p]>>, <<>>, TRUE)

-----------------------------------------------------------------------------
(* Others' revisions: what the editor has no gesture for.                    *)

DefineComponent(p) ==
    /\ p \in OpenPages(canvas) /\ CanCreate(2)
    /\ LET n == NextNodes(2)
       IN  OthersRevise(<<Create(p, n[1], n[1] :> NewNode("component", <<n[2]>>)
                                          @@ n[2] :> NewNode("layer", <<>>))>>)

PlaceInstance(c, parent) ==
    /\ Active(canvas, c) /\ canvas.kind[c] = "component" /\ CanCreate(1)
    /\ CanHold(canvas, parent)
    /\ LET n == NextNodes(1)[1]
       IN  OthersRevise(<<Create(parent, n, n :> [NewNode("instance", <<>>) EXCEPT !.component = c])>>)

\* Two frames are linked for ranges of the writer's own choice.
LinkForRanges(m, n, r, s) ==
    LET variant(range) == [group |-> FreshGroup, frames |-> <<m, n>>, min |-> range[1], max |-> range[2]]
    IN  OthersRevise(<<SetVariant(m, variant(r)), SetVariant(n, variant(s))>>)

-----------------------------------------------------------------------------
Indices == 0..MaxNodes - 1
SomeRanges == {<<0, 2>>, <<1, 3>>, <<2, Unbounded>>, <<0, Unbounded>>}

EditorInit ==
    /\ StoreInit
    /\ canvas \in FirstDocuments
    /\ undoStack = <<>> /\ redoStack = <<>>
    /\ gestures = 0 /\ undone = 0

Gesture ==
    \/ \E n \in Nodes, s \in Styles : Repaint(n, s)
    \/ \E kind \in {"frame", "layer"}, h \in Pages \cup Nodes : AddNode(kind, h)
    \/ \E h \in Pages \cup Nodes : InsertTemplate(h)
    \/ \E n \in Nodes : DuplicateSelection(n)
    \/ \E n \in Nodes, h \in Pages \cup Nodes, i \in Indices : MoveSelection(n, h, i)
    \/ \E n \in Nodes, p \in Pages, m \in Nodes \cup {NoNode} : SetNodePrototype(n, p, m)
    \/ \E frames \in SUBSET Nodes : LinkFrames(frames)
    \/ \E group \in Nodes : RecalculateFrames(group) \/ UnlinkFrames(group)
    \/ \E nodes \in SUBSET Nodes : DeleteSelection(nodes)
    \/ \E p \in Pages : AddPage(p) \/ DeletePage(p)

Others ==
    \/ \E p \in Pages : DefineComponent(p)
    \/ \E c \in Nodes, h \in Pages \cup Nodes : PlaceInstance(c, h)
    \/ \E m, n \in Nodes, r, s \in SomeRanges : LinkForRanges(m, n, r, s)

\* Gestures are made while the design is shown and no recovery is protected.
GestureNext ==
    /\ Shown /\ conflictRecovery = None
    /\ \/ /\ gestures < MaxGestures /\ gestures' = gestures + 1
          /\ Gesture \/ Others
          /\ UNCHANGED undone
       \/ /\ undone < MaxUndone /\ undone' = undone + 1
          /\ Undo \/ Redo
          /\ UNCHANGED gestures
    /\ UNCHANGED storeVars

EditorNext == (StoreNext /\ UNCHANGED gestureVars) \/ GestureNext

EditorSpec == EditorInit /\ [][EditorNext]_<<storeVars, gestureVars>>

-----------------------------------------------------------------------------
(* Properties.                                                              *)

Variants == [group : Nodes \cup {NoNode}, frames : Seq(Nodes), min : Nat, max : Nat]

DocumentTypeOK(d) ==
    /\ d.page \in [Pages -> {"absent", "active", "archived"}]
    /\ d.children \in [Pages \cup Nodes -> Seq(Nodes)]
    /\ d.kind \in [Nodes -> Kinds \cup {"absent"}]
    /\ d.archived \subseteq Nodes
    /\ d.style \in [Nodes -> Styles]
    /\ d.variant \in [Nodes -> Variants]
    /\ d.component \in [Nodes -> Nodes \cup {NoNode}]
    /\ DOMAIN d.link = LinkIds

\* Every variable of the store and of its gestures has its type.
EditorTypeOK ==
    /\ StoreTypeOK
    /\ DocumentTypeOK(canvas)
    /\ Len(undoStack) <= UndoLimit
    /\ gestures \in 0..MaxGestures /\ undone \in 0..MaxUndone

\* What is drawn (walkPage) is what is there: every active node that is no part
\* of a detached component is met once, on one page, after all it lies in; and
\* of a group of variants at most one is shown at any width.
DrawnOnce ==
    /\ \A n \in ActiveNodes(canvas) :
          LET places == {at \in OpenPages(canvas) \X Nodes :
                            /\ at[2] \in DOMAIN WalkPage(canvas, at[1])
                            /\ WalkPage(canvas, at[1])[at[2]] = n}
          IN  /\ Cardinality(places) <= 1
              /\ places = {} => n \in ComponentSource(canvas)
              /\ \A place \in places : \A a \in Ancestors(canvas, n) :
                    \E i \in 1..place[2] - 1 : WalkPage(canvas, place[1])[i] = a
    /\ \A width \in 0..MaxNodes, m, n \in {l \in Nodes : Linked(canvas, l)} :
          LET shown(l) == /\ canvas.variant[l].min <= width
                          /\ canvas.variant[l].max = Unbounded \/ width < canvas.variant[l].max
          IN  m # n /\ canvas.variant[m].group = canvas.variant[n].group => ~(shown(m) /\ shown(n))

\* Whatever is selected can be archived, and any page but the last: groups,
\* links and trees are mended.  Only the definition of a component cannot while
\* an instance of it is on record, an archived one too.
InstanceOf(gone) == \E n \in Nodes : OnRecord(canvas, n) /\ canvas.component[n] \in gone
ArchivesClean ==
    /\ \A nodes \in {s \in SUBSET Selectable : Cardinality(s) \in 1..2} :
          Apply(canvas, <<Archive(nodes)>>).ok <=> ~InstanceOf(Below(canvas, nodes))
    /\ \A p \in OpenPages(canvas) :
          Apply(canvas, <<[type |-> "archive_page", page |-> p]>>).ok
              <=> OpenPages(canvas) # {p} /\ ~InstanceOf(Below(canvas, ChildrenOf(canvas, p)))

\* As long as what is shown is what a gesture left, it can be taken back, and
\* what is shown then is what was shown before it; and the same of redoing.
Restores(batch, operations, from, to) ==
    Visible(canvas) = from =>
        LET result == Apply(canvas, operations)
        IN  result.ok /\ Visible(result.document) = to
UndoRestores ==
    /\ undoStack # <<>> =>
          LET b == Last(undoStack) IN Restores(b, b.inverse, b.after, b.before)
    /\ redoStack # <<>> =>
          LET b == Last(redoStack) IN Restores(b, b.operations, b.before, b.after)

\* However much was deleted, linked or saved since: undoing archives, brings back,
\* moves and changes nothing but what its gesture named.
Named(operations) ==
    UNION {CASE operations[i].type = "create_tree" -> DOMAIN operations[i].nodes
             [] operations[i].type = "set_prototype_link" -> {}
             [] OTHER -> {operations[i].node} : i \in DOMAIN operations}
UndoKeepsRest ==
    Undo => \A n \in Nodes \ Named(Last(undoStack).operations) :
        /\ Active(canvas, n) <=> Active(canvas', n)
        /\ Active(canvas, n) => /\ Holders(canvas, n) = Holders(canvas', n)
                                /\ canvas.style[n] = canvas'.style[n]
                                /\ canvas.variant[n] = canvas'.variant[n]

GesturesSound ==
    /\ [](gestures > 0 => DrawnOnce /\ ArchivesClean /\ UndoRestores)
    /\ [][UndoKeepsRest]_gestureVars
==============================================================================
