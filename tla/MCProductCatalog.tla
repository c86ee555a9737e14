--------------------------- MODULE MCProductCatalog ---------------------------
(***************************************************************************)
(* Instances of ProductCatalog with ProductPlanning.  Products, designs    *)
(* and names are model values nothing tells apart.                         *)
(***************************************************************************)
EXTENDS ProductPlanning, FiniteSets, TLC

CONSTANTS b1, b2, full

OneProposal == {[brief |-> b2, body |-> full]}

CatalogSymmetry == Permutations(Products) \cup Permutations(Designs)

\* The catalogue, the specification of a design and its interview read nothing of
\* each other: a behaviour has the traffic of one of them.
NoCatalogue == products = [p \in Products |-> [status |-> "unused"]]
NoSpecification == started + proposed = 0 /\ panels = [c \in Clients |-> None]
NoInterview == records = [c \in Writers |-> None]

\* Time passes beside one move; two compete within one instant.
Catalogue ==
    /\ NoSpecification /\ NoInterview
    /\ clock = 0 \/ \E m \in Moves : moves[m].status = "unused"

\* Two calls of the panel are under way at most, and only one beside an agent's
\* proposal when time passes.
Specification ==
    /\ NoCatalogue /\ NoInterview /\ seen = [c \in Clients |-> None]
    /\ Cardinality(calls) <= 2
    /\ proposed = 0 \/ clock = 0 \/ Cardinality(calls) <= 1

Interview == NoCatalogue /\ NoSpecification /\ clock = 0

OneKindOfTraffic == Catalogue \/ Specification \/ Interview
===============================================================================
