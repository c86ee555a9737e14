---------------------------- MODULE ProductCatalog ----------------------------
(***************************************************************************)
(* Products and the designs they own (product-service.ts, the archival and *)
(* creation of designs in service.ts): which design is the canonical       *)
(* specification of its product, archival of both, the move of a design to *)
(* another product through a preview, and the editor contexts that point   *)
(* at designs.                                                             *)
(*                                                                         *)
(* The triggers of db/database.ts that abort a transaction which breaks    *)
(* the catalogue are left out on purpose: the properties say the services  *)
(* never need them.  The replay of an idempotent request changes nothing   *)
(* here.  An action is a transaction; a refused request is not enabled.    *)
(***************************************************************************)
EXTENDS Naturals

CONSTANTS
    Products, Designs, Contexts,
    Clients,       \* product managers, who read a product before they change it
    Moves,         \* ids of move previews: bounds how many are created
    Names,         \* names a product can have
    None,          \* SQL's NULL
    MoveTTL,       \* expiresInSeconds of a move preview
    MaxVersion,    \* bound of the versions of a design
    MaxTime        \* bound of the clock, which counts milliseconds

ASSUME NoneAssumption == None \notin Designs \cup Products /\ MoveTTL \in Nat

VARIABLES
    products,   \* products[p]: the row, or that it is not there yet
    designs,    \* designs[d]: its product, version, and whether it is archived
    contexts,   \* contexts[x]: the design an editor has open, or None
    moves,      \* product_move_previews
    seen,       \* seen[c]: the product's row as client c last read it
    clock

catalogueVars == <<products, designs, contexts, moves, seen, clock>>

-----------------------------------------------------------------------------
\* CHECK((status = 'active' AND archived_at IS NULL) OR ...).
ProductRows ==
    [status : {"unused"}]
    \cup [status : {"active"}, name : Names, canonical : Designs \cup {None},
          updated : Nat, archivedAt : {None}]
    \cup [status : {"archived"}, name : Names, canonical : Designs \cup {None},
          updated : Nat, archivedAt : Nat]

DesignRows ==
    [status : {"unused"}]
    \cup [status : {"active", "archived"}, product : Products, version : Nat]

MoveRows ==
    [status : {"unused"}]
    \cup [status : {"ready", "expired", "committed"}, design : Designs,
          source : Products, target : Products, version : Nat, expires : Nat]

IsActive(p) == products[p].status = "active"     \* requireProduct
IsReadable(d) == designs[d].status = "active"    \* requireDesign

\* requireDesignInProduct
ActiveDesigns(p) == {d \in Designs : IsReadable(d) /\ designs[d].product = p}

\* The canonical design that replaces d in p: the one updated last of those left.
Replacements(p, d) ==
    IF ActiveDesigns(p) \subseteq {d} THEN {None} ELSE ActiveDesigns(p) \ {d}

NewProduct(name, canonical) ==
    [status |-> "active", name |-> name, canonical |-> canonical,
     updated |-> clock, archivedAt |-> None]

-----------------------------------------------------------------------------
(* Products.                                                               *)

ReadProduct(c, p) ==
    /\ products[p].status # "unused"
    /\ seen' = [seen EXCEPT ![c] = [product |-> p, row |-> products[p]]]
    /\ UNCHANGED <<products, designs, contexts, moves, clock>>

CreateProduct(p, name) ==
    /\ products[p].status = "unused"
    /\ products' = [products EXCEPT ![p] = NewProduct(name, None)]
    /\ UNCHANGED <<designs, contexts, moves, seen, clock>>

\* The client sends the updated_at it saw as expectedUpdatedAt.
Current(c) ==
    /\ seen[c] # None
    /\ products[seen[c].product].updated = seen[c].row.updated

UpdateProduct(c, name) ==
    /\ Current(c)
    /\ IsActive(seen[c].product)
    /\ \E canonical \in ActiveDesigns(seen[c].product) \cup {None} :
          products' = [products EXCEPT
              ![seen[c].product].name = name,
              ![seen[c].product].canonical = canonical,
              ![seen[c].product].updated = clock]
    /\ UNCHANGED <<designs, contexts, moves, seen, clock>>

ArchiveProduct(c) ==
    /\ Current(c)
    /\ IsActive(seen[c].product)
    /\ products[seen[c].product].name = seen[c].row.name    \* confirmationName
    /\ ActiveDesigns(seen[c].product) = {}
    /\ products' = [products EXCEPT
          ![seen[c].product].status = "archived",
          ![seen[c].product].archivedAt = clock,
          ![seen[c].product].updated = clock]
    /\ UNCHANGED <<designs, contexts, moves, seen, clock>>

\* Mutant: archived_at is left.
RestoreProduct_KeepsArchivedAt(c) ==
    /\ Current(c)
    /\ products[seen[c].product].status = "archived"
    /\ products[seen[c].product].archivedAt = seen[c].row.archivedAt
    /\ products' = [products EXCEPT
          ![seen[c].product].status = "active",
          ![seen[c].product].updated = clock]
    /\ UNCHANGED <<designs, contexts, moves, seen, clock>>

RestoreProduct(c) ==
    /\ Current(c)
    /\ products[seen[c].product].status = "archived"
    /\ products[seen[c].product].archivedAt = seen[c].row.archivedAt
    /\ products' = [products EXCEPT
          ![seen[c].product].status = "active",
          ![seen[c].product].archivedAt = None,
          ![seen[c].product].updated = clock]
    /\ UNCHANGED <<designs, contexts, moves, seen, clock>>

-----------------------------------------------------------------------------
(* Designs.                                                                *)

\* createDesign with a productId: COALESCE keeps the canonical design there is.
CreateDesign(d, p) ==
    /\ designs[d].status = "unused"
    /\ IsActive(p)
    /\ designs' = [designs EXCEPT
          ![d] = [status |-> "active", product |-> p, version |-> 1]]
    /\ products' = [products EXCEPT
          ![p].canonical = IF @ = None THEN d ELSE @,
          ![p].updated = clock]
    /\ UNCHANGED <<contexts, moves, seen, clock>>

\* Without one the trigger designs_product_default makes it a product.
CreateDesignAndProduct(d, p, name) ==
    /\ designs[d].status = "unused"
    /\ products[p].status = "unused"
    /\ designs' = [designs EXCEPT
          ![d] = [status |-> "active", product |-> p, version |-> 1]]
    /\ products' = [products EXCEPT ![p] = NewProduct(name, d)]
    /\ UNCHANGED <<contexts, moves, seen, clock>>

\* Any commit of a revision.
CommitRevision(d) ==
    /\ IsReadable(d)
    /\ designs[d].version < MaxVersion
    /\ designs' = [designs EXCEPT ![d].version = @ + 1]
    /\ UNCHANGED <<products, contexts, moves, seen, clock>>

ArchiveDesign(d) ==
    LET p == designs[d].product
    IN  /\ IsReadable(d)
        /\ designs' = [designs EXCEPT ![d].status = "archived"]
        /\ IF products[p].canonical = d
           THEN \E replacement \in Replacements(p, d) :
                   products' = [products EXCEPT ![p].canonical = replacement,
                                                ![p].updated = clock]
           ELSE UNCHANGED products
        /\ contexts' = [x \in Contexts |->
                          IF contexts[x] = d THEN None ELSE contexts[x]]
        /\ UNCHANGED <<moves, seen, clock>>

RestoreArchivedDesign(d) ==
    LET p == designs[d].product
    IN  /\ designs[d].status = "archived"
        /\ IsActive(p)
        /\ designs' = [designs EXCEPT ![d].status = "active"]
        /\ IF products[p].canonical = None
           THEN products' = [products EXCEPT ![p].canonical = d,
                                             ![p].updated = clock]
           ELSE UNCHANGED products
        /\ UNCHANGED <<contexts, moves, seen, clock>>

\* setContext
SetContext(x, d) ==
    /\ IsReadable(d)
    /\ contexts' = [contexts EXCEPT ![x] = d]
    /\ UNCHANGED <<products, designs, moves, seen, clock>>

\* setContext with no design, or getContext that finds the row out of date.
ClearContext(x) ==
    /\ contexts' = [contexts EXCEPT ![x] = None]
    /\ UNCHANGED <<products, designs, moves, seen, clock>>

-----------------------------------------------------------------------------
(* The move of a design to another product.                                *)

PreviewDesignMove(m, d, target) ==
    LET source == designs[d].product
    IN  /\ moves[m].status = "unused"
        /\ IsReadable(d)
        /\ source # target
        /\ IsActive(source)
        /\ IsActive(target)
        /\ moves' = [moves EXCEPT ![m] =
              [status |-> "ready", design |-> d, source |-> source,
               target |-> target, version |-> designs[d].version,
               expires |-> clock + MoveTTL]]
        /\ UNCHANGED <<products, designs, contexts, seen, clock>>

\* A read marks an expired preview.
ReadDesignMovePreview(m) ==
    /\ moves[m].status = "ready"
    /\ moves[m].expires <= clock
    /\ moves' = [moves EXCEPT ![m].status = "expired"]
    /\ UNCHANGED <<products, designs, contexts, seen, clock>>

\* Mutant: the target was active when the move was previewed.
MoveCommittable_AnyTarget(m) ==
    LET move == moves[m]
    IN  /\ move.status = "ready"
        /\ move.expires > clock
        /\ IsReadable(move.design)
        /\ designs[move.design].product = move.source
        /\ designs[move.design].version = move.version
        /\ IsActive(move.source)

\* A commit that finds it expired marks it and throws, which undoes the mark.
MoveCommittable(m) ==
    LET move == moves[m]
    IN  /\ move.status = "ready"
        /\ move.expires > clock
        /\ IsActive(move.target)
        /\ IsReadable(move.design)
        /\ designs[move.design].product = move.source
        /\ designs[move.design].version = move.version
        /\ IsActive(move.source)

CommitDesignMovePreview(m) ==
    LET move == moves[m]
        d == move.design
    IN  /\ MoveCommittable(m)
        /\ \E left \in IF products[move.source].canonical = d
                       THEN Replacements(move.source, d)
                       ELSE {products[move.source].canonical} :
              products' = [products EXCEPT
                  ![move.source].canonical = left,
                  ![move.source].updated = clock,
                  ![move.target].canonical = IF @ = None THEN d ELSE @,
                  ![move.target].updated = clock]
        /\ designs' = [designs EXCEPT ![d].product = move.target]
        /\ moves' = [moves EXCEPT ![m].status = "committed"]
        /\ UNCHANGED <<contexts, seen, clock>>

-----------------------------------------------------------------------------
TimePasses ==
    /\ clock < MaxTime
    /\ clock' = clock + 1
    /\ UNCHANGED <<products, designs, contexts, moves, seen>>

CatalogueInit ==
    /\ products = [p \in Products |-> [status |-> "unused"]]
    /\ designs = [d \in Designs |-> [status |-> "unused"]]
    /\ contexts = [x \in Contexts |-> None]
    /\ moves = [m \in Moves |-> [status |-> "unused"]]
    /\ seen = [c \in Clients |-> None]
    /\ clock = 0

ProductNext ==
    \/ \E p \in Products, name \in Names : CreateProduct(p, name)
    \/ \E c \in Clients :
          \/ \E p \in Products : ReadProduct(c, p)
          \/ \E name \in Names : UpdateProduct(c, name)
          \/ ArchiveProduct(c)
          \/ RestoreProduct(c)

DesignNext ==
    \E d \in Designs :
        \/ \E p \in Products : CreateDesign(d, p)
        \/ \E p \in Products, name \in Names : CreateDesignAndProduct(d, p, name)
        \/ CommitRevision(d)
        \/ ArchiveDesign(d)
        \/ RestoreArchivedDesign(d)
        \/ \E x \in Contexts : SetContext(x, d)

MoveNext ==
    \E m \in Moves :
        \/ \E d \in Designs, p \in Products : PreviewDesignMove(m, d, p)
        \/ ReadDesignMovePreview(m)
        \/ CommitDesignMovePreview(m)

CatalogueNext ==
    \/ ProductNext
    \/ DesignNext
    \/ MoveNext
    \/ \E x \in Contexts : ClearContext(x)
    \/ TimePasses

CatalogueSpec == CatalogueInit /\ [][CatalogueNext]_catalogueVars

-----------------------------------------------------------------------------
(* Properties.                                                             *)

\* Every variable has its type; a product has an archived_at exactly while it
\* is archived.
CatalogueTypeOK ==
    /\ products \in [Products -> ProductRows]
    /\ designs \in [Designs -> DesignRows]
    /\ contexts \in [Contexts -> Designs \cup {None}]
    /\ moves \in [Moves -> MoveRows]
    /\ seen \in [Clients -> {None} \cup [product : Products, row : ProductRows]]
    /\ clock \in Nat

\* The canonical specification of a product is an active design of that very
\* product, whatever is archived, restored or moved away; an archived product
\* has none.  The triggers of db/database.ts:2125-2217 never have to fire.
CanonicalIntegrity ==
    \A p \in Products :
        products[p].status # "unused" /\ products[p].canonical # None
            => IsActive(p) /\ products[p].canonical \in ActiveDesigns(p)

\* An archived product owns no active design, so no design can be edited under
\* a product nobody sees: not by a late move, a restore or a creation.
ArchivedProductEmpty ==
    \A d \in Designs : IsReadable(d) => IsActive(designs[d].product)

\* A design changes its product only by a move that was previewed, is not past
\* its time, and meets the design in the product and at the version previewed;
\* and no move is made twice.
MovedExactly ==
    [][/\ \A d \in Designs :
             designs[d].status # "unused" /\ designs'[d].product # designs[d].product
               => \E m \in Moves :
                     /\ moves[m].status = "ready"
                     /\ moves'[m].status = "committed"
                     /\ moves[m].expires > clock
                     /\ moves[m].design = d
                     /\ moves[m].source = designs[d].product
                     /\ moves[m].target = designs'[d].product
                     /\ moves[m].version = designs[d].version
       /\ \A m \in Moves :
             moves[m].status \in {"expired", "committed"}
               => moves'[m] = moves[m]]_catalogueVars

\* No editor is left with an archived design open: getContext would throw on
\* it (service.ts:2161), for every design the actor has open.
ContextsReadable ==
    \A x \in Contexts : contexts[x] # None => IsReadable(contexts[x])

\* The catalogue is sound in every state without the triggers that guard it, and
\* designs change their product only as a previewed move said or with their
\* archival.
CatalogueKept ==
    [](CanonicalIntegrity /\ ArchivedProductEmpty /\ ContextsReadable) /\ MovedExactly
=============================================================================
