---------------------------- MODULE MCEditorStore ----------------------------
(* Instances of EditorGestures. *)
EXTENDS EditorGestures, TLC

\* Pages 1 and 2 follow the nodes.
FirstPage == MaxNodes + 1

Drawn(children, kinds) ==
    [page |-> [p \in Pages |-> IF p = FirstPage THEN "active" ELSE "absent"],
     children |-> [h \in Pages \cup Nodes |-> IF h \in DOMAIN children THEN children[h] ELSE <<>>],
     kind |-> [n \in Nodes |-> IF n \in DOMAIN kinds THEN kinds[n] ELSE "absent"],
     archived |-> {}, style |-> [n \in Nodes |-> Plain],
     variant |-> [n \in Nodes |-> Unlinked], component |-> [n \in Nodes |-> NoNode],
     link |-> [l \in LinkIds |-> NoLink]]

Linking(d, frames) ==
    LET plan == VariantPlan(frames, 1) IN Apply(d, plan).document

\* A frame beside one with a layer, as variants.
TwoVariants ==
    Linking(Drawn(FirstPage :> <<2, 1>> @@ 2 :> <<3>>, 1 :> "frame" @@ 2 :> "frame" @@ 3 :> "layer"),
            {1, 2})

\* Three variants, one of them with a link to another.
ThreeVariants ==
    [Linking(Drawn(FirstPage :> <<1, 3, 2>>, 1 :> "frame" @@ 2 :> "frame" @@ 3 :> "frame"),
             {1, 2, 3})
       EXCEPT !.link = [l \in LinkIds |-> [source |-> 3, page |-> FirstPage, node |-> 1]]]

\* A component no page lists, and a frame with an instance of it.
Componentised ==
    [Drawn(FirstPage :> <<3>> @@ 1 :> <<2>> @@ 3 :> <<4>>,
           1 :> "component" @@ 2 :> "layer" @@ 3 :> "frame" @@ 4 :> "instance")
       EXCEPT !.component[4] = 1]

\* Two frames that are not linked, and a second page.
Apart ==
    [Drawn(FirstPage :> <<1, 2>> @@ 2 :> <<3>>, 1 :> "frame" @@ 2 :> "frame" @@ 3 :> "layer")
       EXCEPT !.page[FirstPage + 1] = "active"]

MCFirstDocuments == {Apart, TwoVariants, ThreeVariants, Componentised}

\* Requests to the server and gestures on the document do not read each other's
\* variables: a behaviour has one or the other.  The gestures are made on each of
\* the documents, the requests on the first.
Requests ==
    /\ gestures + undone = 0 /\ canvas = Apart
    /\ StoreNext
    /\ UNCHANGED gestureVars

Gestures ==
    /\ Latest = 1 /\ made = 0 /\ nextKey = 1 /\ ~left /\ ~crossed
    /\ saveState = "saved" /\ refreshes = {} /\ \A c \in Calls : calls[c] = Idle
    /\ GestureNext

\* The third edit is one made beside a request or a review of the others: it is
\* followed while no read runs, nothing crosses another thing and the user is there.
ThirdEdit == made <= 2 \/ (refreshes = {} /\ ~crossed /\ ~left)

MCSpec == EditorInit /\ [][Requests \/ Gestures]_<<storeVars, gestureVars>>
==============================================================================
