----------------------------- MODULE MCHandoff -----------------------------
(* One handoff and one assessment, inventories of one repository taken under *)
(* the first of two policies.                                               *)
EXTENDS RedesignStudio, TLC

CONSTANTS i1, i2, p1, p2, d1, d2

MCPolicies == {p1, p2}
MCRepositoryOf == [i \in {i1, i2} |-> "repository"]
MCPolicyOf == [i \in {i1, i2} |-> p1]
Symmetry == Permutations({d1, d2})

\* Handoffs and assessments only share the design and the inventories, and only
\* read them: either a handoff on one inventory, or an assessment under one
\* policy with one mapping that asks for approval where nothing less will do.
OneKindOfTraffic ==
    \/ /\ \A a \in Assessments : phase[a] = "none"
       /\ mapped = {} /\ inventory[i2] = "absent"
    \/ /\ \A h \in Handoffs : status[h] = "none"
       /\ policy = p1 /\ Cardinality(mapped) <= 1
       /\ \A a \in Assessments, s \in Stages :
            artifacts[a][s] \in {"draft", IF "reviewed" \in Required(s) THEN "reviewed" ELSE "approved"}
=============================================================================
