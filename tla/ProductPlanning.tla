---------------------------- MODULE ProductPlanning ----------------------------
(***************************************************************************)
(* The product specification of one design and its planning interviews     *)
(* (enterprise-service.ts), as the editor's brief panel and interview      *)
(* dialog use them (ProductBriefPanel.tsx, PlanningInterview.tsx), beside  *)
(* the catalogue of ProductCatalog.  An archived design, under which every *)
(* request is refused, is left to DesignStore.                             *)
(*                                                                         *)
(* A specification is saved by two calls, a preview and its commit.  The   *)
(* panel gives a call thirty seconds; a call it no longer waits for may    *)
(* still reach the server, before or after the retry of the same save.  A  *)
(* panel that is closed leaves its save running.  The day after which an   *)
(* idempotency key is forgotten is longer than any behaviour here.         *)
(***************************************************************************)
EXTENDS ProductCatalog, Sequences

CONSTANTS
    Agents,      \* principals of agent connections
    Briefs,      \* natural-language briefs
    Bodies,      \* the structured rest of a specification
    Blank,       \* the body of a specification that has only a brief
    Sections,    \* the sections of the interview
    FirstSection,
    Sessions,    \* ids: bounds the interviews ever begun
    Proposals,   \* the specifications agents propose
    SpecTTL,     \* productSpecPreviewTtlSeconds
    MaxSaves,    \* bound of the saves ever started from a panel
    MaxProposals, \* bound of the specifications agents ever propose
    MaxSteps     \* bound of the versions of an interview

ASSUME PlanningAssumption ==
    /\ Blank \in Bodies
    /\ Proposals \subseteq [brief : Briefs, body : Bodies]
    /\ Agents \cap Clients = {}
    /\ None \notin Briefs \cup Bodies
    /\ {SpecTTL, MaxSaves, MaxProposals, MaxSteps} \subseteq Nat
    /\ FirstSection \in Sections

VARIABLES
    specs,         \* product_specifications, by version; "key", "base" and "asked"
                   \* are history: the save that made the version
    specPreviews,  \* product_spec_previews
    replies,       \* the idempotency rows: replies[key] is the version committed
    panels,        \* panels[c]: the state of c's brief panel, or None when closed
    calls,         \* the requests under way
    started,       \* the saves started
    proposed,      \* the specifications agents proposed
    sessions,      \* planning_sessions with planning_answers
    records        \* records[c]: the interview as c's dialog last got it, or None

planningVars ==
    <<specs, specPreviews, replies, panels, calls, started, proposed, sessions, records>>
allVars == <<catalogueVars, planningVars>>

Writers == Clients \cup Agents    \* product managers and agents
CurrentSpec == Len(specs)
NextKey == started + proposed + 1    \* createClientKey

-----------------------------------------------------------------------------
(* The service: previewProductSpecification and its commit.                *)

\* expireProductSpecificationPreviews: the caller's own.
SpecPreviewDue(row, c) ==
    row.status = "ready" /\ row.actor = c /\ row.expires <= clock

ExpiredSpecPreviews(c, P) ==
    [p \in DOMAIN specPreviews |->
        IF p \in P /\ SpecPreviewDue(specPreviews[p], c)
        THEN [specPreviews[p] EXCEPT !.status = "expired"] ELSE specPreviews[p]]

\* specificationWithNaturalLanguageBrief: a brief alone keeps the rest of its base.
BodyOf(call) ==
    IF call.structured # None THEN call.structured
    ELSE IF call.base = 0 THEN Blank ELSE specs[call.base].body

\* The answer goes to whoever still waits for it.
Reply(call, code, preview, version) ==
    calls' = (calls \ {call})
        \cup IF call.waited
             THEN {[call EXCEPT !.answer =
                       [code |-> code, preview |-> preview, version |-> version]]}
             ELSE {}

PreviewProductSpecification(call) ==
    /\ call.answer = None /\ call.preview = 0
    /\ \/ /\ CurrentSpec # call.base
          /\ Reply(call, "VERSION_CONFLICT", 0, 0)
          /\ UNCHANGED specPreviews
       \/ /\ CurrentSpec = call.base
          /\ Reply(call, "ok", Len(specPreviews) + 1, 0)
          /\ specPreviews' =
                Append(ExpiredSpecPreviews(call.from, DOMAIN specPreviews),
                    [status |-> "ready", actor |-> call.from, base |-> call.base,
                     brief |-> call.brief, body |-> BodyOf(call),
                     expires |-> clock + SpecTTL])
    /\ UNCHANGED <<specs, replies, panels, started, proposed, sessions, records>>

\* Mutant: the version the specification has by now is not compared.
SpecCommitRefusal_AnyVersion(call) ==
    LET preview == specPreviews[call.preview]
    IN  CASE preview.status = "committed" -> "PREVIEW_ALREADY_COMMITTED"
          [] preview.status # "committed" /\ preview.expires <= clock -> "PREVIEW_EXPIRED"
          [] OTHER -> "none"

SpecCommitRefusal(call) ==
    LET preview == specPreviews[call.preview]
    IN  CASE preview.status = "committed" -> "PREVIEW_ALREADY_COMMITTED"
          [] preview.status # "committed" /\ preview.expires <= clock -> "PREVIEW_EXPIRED"
          [] /\ preview.status # "committed" /\ preview.expires > clock
             /\ CurrentSpec # call.base -> "VERSION_CONFLICT"
          [] OTHER -> "none"

\* A key that was answered is answered alike; a refusal leaves no key.
CommitProductSpecificationPreview(call) ==
    LET preview == specPreviews[call.preview]
        settled == ExpiredSpecPreviews(call.from, {call.preview})
    IN  /\ call.answer = None /\ call.preview # 0
        /\ \/ /\ call.key \in DOMAIN replies
              /\ Reply(call, "ok", call.preview, replies[call.key])
              /\ specPreviews' = settled
              /\ UNCHANGED <<specs, replies>>
           \/ /\ call.key \notin DOMAIN replies
              /\ SpecCommitRefusal(call) # "none"
              /\ Reply(call, SpecCommitRefusal(call), 0, 0)
              /\ specPreviews' = settled
              /\ UNCHANGED <<specs, replies>>
           \/ /\ call.key \notin DOMAIN replies
              /\ SpecCommitRefusal(call) = "none"
              /\ specs' = Append(specs, [brief |-> preview.brief, body |-> preview.body,
                    key |-> call.key, base |-> call.base,
                    asked |-> [brief |-> call.brief, structured |-> call.structured]])
              /\ specPreviews' = [settled EXCEPT ![call.preview].status = "committed"]
              /\ replies' = [k \in DOMAIN replies \cup {call.key} |->
                    IF k = call.key THEN CurrentSpec + 1 ELSE replies[k]]
              /\ Reply(call, "ok", call.preview, CurrentSpec + 1)
        /\ UNCHANGED <<panels, started, proposed, sessions, records>>

-----------------------------------------------------------------------------
(* The brief panel.  Its draft is the brief and a structured copy, if any; *)
(* "loaded" is the version it holds, 0 for none.                           *)

PanelClosed(c) == panels[c] = None
Saving(c) == panels[c].saving # 0
Dirty(panel) == panel.brief # panel.loadedBrief \/ panel.structured # None

Loaded(version) ==
    [loaded |-> version,
     brief |-> IF version = 0 THEN None ELSE specs[version].brief,
     loadedBrief |-> IF version = 0 THEN None ELSE specs[version].brief,
     structured |-> None, attempt |-> None, saving |-> 0]

OpenPanel(c) ==
    /\ PanelClosed(c)
    /\ panels' = [panels EXCEPT ![c] = Loaded(CurrentSpec)]
    /\ UNCHANGED <<specs, specPreviews, replies, calls, started, proposed, sessions, records>>

\* The text area is disabled during a save.
EditBrief(c, brief) ==
    /\ ~PanelClosed(c)
    /\ ~Saving(c)
    /\ panels' = [panels EXCEPT ![c].brief = brief]
    /\ UNCHANGED <<specs, specPreviews, replies, calls, started, proposed, sessions, records>>

\* appendAction: the buttons below the text area add a request to the brief.  They
\* are not disabled, so the draft may change under a save.
AppendAction(c, brief) ==
    /\ ~PanelClosed(c)
    /\ brief # panels[c].brief
    /\ panels' = [panels EXCEPT ![c].brief = brief]
    /\ UNCHANGED <<specs, specPreviews, replies, calls, started, proposed, sessions, records>>

\* editHistoricalSpecification, which a save does not disable either.
EditHistoricalSpecification(c, version) ==
    /\ ~PanelClosed(c)
    /\ panels' = [panels EXCEPT ![c].brief = specs[version].brief,
                                ![c].structured = specs[version].body]
    /\ UNCHANGED <<specs, specPreviews, replies, calls, started, proposed, sessions, records>>

\* The fingerprint of specificationCommitAttempt.
SameAttempt(panel) ==
    /\ panel.attempt # None
    /\ panel.attempt.base = panel.loaded
    /\ panel.attempt.brief = panel.brief
    /\ panel.attempt.structured = panel.structured

AttemptOf(c) ==
    IF SameAttempt(panels[c]) THEN panels[c].attempt
    ELSE [base |-> panels[c].loaded, brief |-> panels[c].brief,
          structured |-> panels[c].structured, preview |-> 0,
          key |-> NextKey]

\* persistBrief, to its first request: the preview, or the commit of the preview
\* an earlier try of the same save already has.
PersistBrief(c) ==
    /\ ~PanelClosed(c)
    /\ ~Saving(c)
    /\ panels[c].brief # None
    /\ Dirty(panels[c]) \/ panels[c].loaded = 0
    /\ started < MaxSaves
    /\ started' = started + 1
    /\ panels' = [panels EXCEPT ![c].attempt = AttemptOf(c),
                                ![c].saving = NextKey]
    /\ calls' = calls \cup
          {[from |-> c, n |-> NextKey, base |-> AttemptOf(c).base,
            brief |-> AttemptOf(c).brief, structured |-> AttemptOf(c).structured,
            key |-> AttemptOf(c).key, preview |-> AttemptOf(c).preview,
            answer |-> None, waited |-> TRUE]}
    /\ UNCHANGED <<specs, specPreviews, replies, proposed, sessions, records>>

\* product_spec_preview and product_spec_commit_preview: an agent proposes a whole
\* specification on the version it has read.  It has no panel to show the answer.
ProposeSpecification(a, proposal) ==
    /\ proposed < MaxProposals
    /\ proposed' = proposed + 1
    /\ calls' = calls \cup
          {[from |-> a, n |-> NextKey, base |-> CurrentSpec,
            brief |-> proposal.brief, structured |-> proposal.body, key |-> NextKey, preview |-> 0,
            answer |-> None, waited |-> TRUE]}
    /\ UNCHANGED <<specs, specPreviews, replies, panels, started, sessions, records>>

\* The panel that made the call is still there; it may have been closed and
\* another one opened since.
Shown(call) ==
    /\ call.from \in Clients
    /\ ~PanelClosed(call.from)
    /\ panels[call.from].saving = call.n

\* The preview is there: its commit is requested.
ReceivePreview(call) ==
    /\ call.preview = 0
    /\ call.answer # None /\ call.answer.code = "ok"
    /\ calls' = (calls \ {call})
          \cup {[call EXCEPT !.preview = call.answer.preview, !.answer = None]}
    /\ panels' = IF Shown(call)
                 THEN [panels EXCEPT ![call.from].attempt.preview = call.answer.preview]
                 ELSE panels
    /\ UNCHANGED <<specs, specPreviews, replies, started, proposed, sessions, records>>

ReceiveCommit(call) ==
    /\ call.preview # 0
    /\ call.answer # None /\ call.answer.code = "ok"
    /\ calls' = calls \ {call}
    /\ panels' = IF Shown(call)
                 THEN [panels EXCEPT ![call.from] = Loaded(call.answer.version)]
                 ELSE panels
    /\ UNCHANGED <<specs, specPreviews, replies, started, proposed, sessions, records>>

\* A refusal ends the attempt, except one nobody foresaw; after a conflict the
\* panel reads the current version, if it can, and leaves the draft alone.
ReceiveRefusal(call) ==
    LET panel == [panels[call.from] EXCEPT !.saving = 0,
                     !.attempt = IF call.answer.code = "PREVIEW_ALREADY_COMMITTED"
                                 THEN @ ELSE None]
        refreshed == [panel EXCEPT !.loaded = CurrentSpec,
                         !.loadedBrief = specs[CurrentSpec].brief]
    IN  /\ call.answer # None /\ call.answer.code # "ok"
        /\ calls' = calls \ {call}
        /\ IF Shown(call)
           THEN \E shown \in {panel} \cup IF call.answer.code = "VERSION_CONFLICT"
                                          THEN {refreshed} ELSE {} :
                   panels' = [panels EXCEPT ![call.from] = shown]
           ELSE UNCHANGED panels
        /\ UNCHANGED <<specs, specPreviews, replies, started, proposed, sessions, records>>

\* withSubmissionTimeout, or a connection that breaks: the request may be served
\* all the same.
GiveUpCall(call) ==
    /\ call.waited
    /\ calls' = (calls \ {call})
          \cup IF call.answer = None THEN {[call EXCEPT !.waited = FALSE]} ELSE {}
    /\ panels' = IF Shown(call) THEN [panels EXCEPT ![call.from].saving = 0] ELSE panels
    /\ UNCHANGED <<specs, specPreviews, replies, started, proposed, sessions, records>>

\* The design is left, with the draft saved or discarded.
ClosePanel(c) ==
    /\ ~PanelClosed(c)
    /\ panels' = [panels EXCEPT ![c] = None]
    /\ UNCHANGED <<specs, specPreviews, replies, calls, started, proposed, sessions, records>>

-----------------------------------------------------------------------------
(* The interview.  An answer is kept as what its author saw of the section. *)

PlanningGraph ==
    [draft |-> {"draft", "in_progress", "cancelled"},
     in_progress |-> {"in_progress", "ready_for_review", "cancelled"},
     ready_for_review |-> {"in_progress", "ready_for_review", "completed", "cancelled"},
     completed |-> {}, cancelled |-> {}]

\* assertPlanningComplete
Answered(row) == {section \in Sections : row.answers[section] # <<>>}
PlanningComplete(row) == Sections \subseteq Answered(row)

CreatePlanningSession(c, s) ==
    LET row == [status |-> "draft", version |-> 1, section |-> FirstSection,
                answers |-> [section \in Sections |-> <<>>]]
    IN  /\ sessions[s].status = "unused"
        /\ sessions' = [sessions EXCEPT ![s] = row]
        /\ records' = [records EXCEPT ![c] = [session |-> s, row |-> row]]
        /\ UNCHANGED <<specs, specPreviews, replies, panels, calls, started, proposed>>

\* readPlanningSession, listPlanningSessions
ReadPlanningSession(c, s) ==
    /\ sessions[s].status # "unused"
    /\ records' = [records EXCEPT ![c] = [session |-> s, row |-> sessions[s]]]
    /\ UNCHANGED <<specs, specPreviews, replies, panels, calls, started, proposed, sessions>>

\* expectedVersion, and the graph.
MaySave(c, status) ==
    /\ records[c] # None
    /\ sessions[records[c].session].version = records[c].row.version
    /\ status \in PlanningGraph[sessions[records[c].session].status]

\* The answer of the server may be lost: the dialog keeps the record it had.
Saved(c, row) ==
    /\ sessions' = [sessions EXCEPT ![records[c].session] = row]
    /\ \/ records' = [records EXCEPT ![c].row = row]
       \/ UNCHANGED records
    /\ UNCHANGED <<specs, specPreviews, replies, panels, calls, started, proposed>>

SavePlanningAnswer(c, section, next, status) ==
    LET row == sessions[records[c].session]
        saved == [row EXCEPT
                    !.version = @ + 1, !.status = status, !.section = next,
                    !.answers[section] = Append(@, Len(records[c].row.answers[section]))]
    IN  /\ MaySave(c, status)
        /\ row.version < MaxSteps
        /\ status = "ready_for_review" => PlanningComplete(saved)
        /\ Saved(c, saved)

TransitionPlanningSession(c, section, status) ==
    LET row == sessions[records[c].session]
    IN  /\ MaySave(c, status)
        /\ row.version < MaxSteps
        /\ status \in {"ready_for_review", "completed"} => PlanningComplete(row)
        /\ Saved(c, [row EXCEPT !.version = @ + 1, !.status = status,
                                !.section = section])

-----------------------------------------------------------------------------
PlanningInit ==
    /\ CatalogueInit
    /\ specs = <<>>
    /\ specPreviews = <<>>
    /\ replies = <<>>
    /\ panels = [c \in Clients |-> None]
    /\ calls = {}
    /\ started = 0 /\ proposed = 0
    /\ sessions = [s \in Sessions |-> [status |-> "unused"]]
    /\ records = [c \in Writers |-> None]

SpecificationStep ==
    \/ \E c \in Clients :
          \/ OpenPanel(c)
          \/ \E brief \in Briefs : EditBrief(c, brief) \/ AppendAction(c, brief)
          \/ \E version \in 1..CurrentSpec : EditHistoricalSpecification(c, version)
          \/ PersistBrief(c)
          \/ ClosePanel(c)
    \/ \E a \in Agents, proposal \in Proposals : ProposeSpecification(a, proposal)
    \/ \E call \in calls :
          \/ PreviewProductSpecification(call)
          \/ CommitProductSpecificationPreview(call)
          \/ ReceivePreview(call)
          \/ ReceiveCommit(call)
          \/ ReceiveRefusal(call)
          \/ GiveUpCall(call)

InterviewStep ==
    \E c \in Writers :
        \/ \E s \in Sessions : CreatePlanningSession(c, s) \/ ReadPlanningSession(c, s)
        \/ \E section \in Sections :
              \/ \E next \in Sections, status \in {"in_progress", "ready_for_review"} :
                    SavePlanningAnswer(c, section, next, status)
              \/ \E status \in DOMAIN PlanningGraph :
                    TransitionPlanningSession(c, section, status)

PlanningStep == (SpecificationStep \/ InterviewStep) /\ UNCHANGED catalogueVars

PlanningNext == (CatalogueNext /\ UNCHANGED planningVars) \/ PlanningStep

PlanningSpec == PlanningInit /\ [][PlanningNext]_allVars

-----------------------------------------------------------------------------
(* Properties.                                                             *)

Replies == [code : {"ok", "VERSION_CONFLICT", "PREVIEW_EXPIRED",
                    "PREVIEW_ALREADY_COMMITTED"},
            preview : Nat, version : Nat]
Keys == 1..MaxSaves + MaxProposals

Draft == [base : Nat, brief : Briefs, structured : Bodies \cup {None},
          preview : Nat, key : Keys]

Panels ==
    [loaded : Nat, brief : Briefs \cup {None},
     loadedBrief : Briefs \cup {None}, structured : Bodies \cup {None},
     attempt : Draft \cup {None}, saving : Nat]

\* null is neither an attempt nor a panel.
ASSUME DraftAssumption == None \notin Draft /\ None \notin Panels

\* Every variable has its type.
PlanningTypeOK ==
    /\ CatalogueTypeOK
    /\ specs \in Seq([brief : Briefs, body : Bodies, key : Keys, base : Nat,
                      asked : [brief : Briefs, structured : Bodies \cup {None}]])
    /\ specPreviews \in Seq(
          [status : {"ready", "expired", "committed"}, actor : Writers,
           base : Nat, brief : Briefs, body : Bodies, expires : Nat])
    /\ DOMAIN replies \subseteq Keys
    /\ \A key \in DOMAIN replies : replies[key] \in 1..CurrentSpec
    /\ panels \in [Clients -> Panels \cup {None}]
    /\ \A call \in calls :
          /\ call.key \in Keys
          /\ call.answer \in Replies \cup {None}
    /\ started \in 0..MaxSaves /\ proposed \in 0..MaxProposals
    /\ \A s \in Sessions : sessions[s].status \in {"unused"} \cup DOMAIN PlanningGraph
    /\ \A c \in Writers : records[c] # None => records[c].session \in Sessions

\* Every version is what one save asked for, on the version that save had seen: a
\* brief saved by itself never takes back the structure somebody else gave the
\* specification (specificationWithNaturalLanguageBrief), and however often a
\* save is tried again after a timeout, it makes one version
\* (enterprise-service.ts:533-615).
SavesExact ==
    /\ \A v \in 1..CurrentSpec :
          /\ specs[v].base = v - 1
          /\ specs[v].brief = specs[v].asked.brief
          /\ specs[v].body =
                IF specs[v].asked.structured # None THEN specs[v].asked.structured
                ELSE IF v = 1 THEN Blank ELSE specs[v - 1].body
    /\ \A v, w \in 1..CurrentSpec : specs[v].key = specs[w].key => v = w

\* A save that is refused was not made, not even by an earlier try of it; and a
\* panel that shows no unsaved draft shows the brief of the version it names.
PanelsTruthful ==
    /\ \A call \in calls :
          call.answer # None /\ call.answer.code # "ok" => call.key \notin DOMAIN replies
    /\ \A c \in Clients :
          ~PanelClosed(c) /\ ~Dirty(panels[c]) /\ panels[c].loaded > 0
             => panels[c].brief = specs[panels[c].loaded].brief

\* When a save ends, the panel either still has its draft, what was changed since
\* the save began included, or says that the draft the save began with is saved,
\* as the version that very save made.  In the second case what was changed since
\* (appendAction and editHistoricalSpecification are not disabled by a save) is
\* neither in the panel nor in a version: the commit's answer overwrites it
\* (ProductBriefPanel.tsx:505-509), and nothing here says otherwise.
DraftOrVersion ==
    \A c \in Clients :
        ~PanelClosed(c) /\ Saving(c) /\ panels'[c] # None /\ panels'[c].saving = 0
        => LET old == panels[c]
               new == panels'[c]
           IN  \/ new.brief = old.brief /\ new.structured = old.structured
               \/ /\ specs[new.loaded].key = old.attempt.key
                  /\ specs[new.loaded].asked.brief = old.attempt.brief
                  /\ specs[new.loaded].asked.structured = old.attempt.structured

\* No answer of an interview is given without having seen the one it takes the
\* place of, even when the reply to a save was lost; and an interview is reviewed
\* or completed only with an answer in every section.
AnswersSeen ==
    \A s \in Sessions : sessions[s].status # "unused" =>
        /\ \A section \in Sections :
              \A i \in 1..Len(sessions[s].answers[section]) :
                 sessions[s].answers[section][i] = i - 1
        /\ sessions[s].status \in {"ready_for_review", "completed"}
              => PlanningComplete(sessions[s])

\* Specifications are saved exactly and answers seen; an interview that is over
\* does not change.
PlanningSound ==
    /\ [](SavesExact /\ PanelsTruthful /\ AnswersSeen)
    /\ [][/\ DraftOrVersion
          /\ \A s \in Sessions : sessions[s].status \in {"completed", "cancelled"}
                => sessions'[s] = sessions[s]]_allVars
===============================================================================
