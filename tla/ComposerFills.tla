--------------------------- MODULE ComposerFills ----------------------------
(* Fill plans of Composer: values for a typed template, proposed from what  *)
(* is known of an author, edited and approved by the owner of the draft,    *)
(* and published as a revision. The plan, the revision and the link between *)
(* them are written by separate transactions, while the draft moves on, the *)
(* author is edited, and access to author and template is taken away.       *)
EXTENDS Integers, FiniteSets

CONSTANTS
    Plans,          \* fill plans
    Clients,        \* requests
    Keys,           \* idempotency keys
    None,
    Asked,          \* subset of {"update", "approve", "publish", "regenerate"}
    Changes,        \* subset of {"draft", "author", "grant", "template", "crash"}
    MaxVersion,     \* bound: versions of the draft, a plan and the author
    MaxRevision     \* bound: revision rows

VARIABLES
    draft,          \* version and current_revision_id
    plans,          \* plans[p]: ComposerFillPlanRow
    decisions,      \* ComposerFillPlanDecisionRow
    revisions,      \* revisions[r]: ComposerRevisionRow with its typed_fill_snapshot
    author,         \* the author the plans cite: version, and access to it
    template,       \* access to the version of the typed template
    client          \* client[c]: a request in progress

fillVars == <<draft, plans, decisions, revisions, author, template, client>>

Revisions == 1 .. MaxRevision

Versions == 0 .. MaxVersion

\* The current revision: the first one, a fill, or another one.
First == 0

Other == MaxRevision + 1

Current == Revisions \cup {First, Other}

\* Values are told apart by the version of the plan that brought them.
PlanRow ==
    [state : {"none", "pending", "approved", "published"}, version : Versions, on : Versions,
     source : Current, values : Versions, cites : Versions, open : BOOLEAN,
     result : Revisions \cup {None}]

NoPlan == [state |-> "none", version |-> 0, on |-> 0, source |-> First, values |-> 0,
           cites |-> 0, open |-> FALSE, result |-> None]

\* typed_fill_snapshot
Frozen == [plan : Plans \cup {None}, version : Versions, values : Versions, cites : Versions,
           source : Current, parent : Revisions \cup {None}]

NothingFrozen == [plan |-> None, version |-> 0, values |-> 0, cites |-> 0, source |-> First,
                  parent |-> None]

RevisionRow ==
    [state : {"none", "pending", "published", "removed"}, expected : Versions,
     key : Keys \cup {None}, frozen : Frozen]

NoRevision == [state |-> "none", expected |-> 0, key |-> None, frozen |-> NothingFrozen]

Idle == [pc |-> "idle", what |-> "publish", plan |-> None, key |-> None, match |-> 0,
         values |-> 0, open |-> FALSE, frozen |-> NothingFrozen, revision |-> None,
         outcome |-> "none"]

Client ==
    [pc : {"idle", "create", "read", "decide", "render", "reserve", "finalize", "mark"},
     what : {"update", "approve", "publish", "regenerate"}, plan : Plans \cup {None},
     key : Keys \cup {None}, match : Versions, values : Versions, open : BOOLEAN,
     frozen : Frozen, revision : Revisions \cup {None},
     outcome : {"none", "answered", "refused"}]

FillInit ==
    /\ draft = [version |-> 1, current |-> First]
    /\ plans = [p \in Plans |-> NoPlan]
    /\ decisions = {}
    /\ revisions = [r \in Revisions |-> NoRevision]
    /\ author = [version |-> 1, access |-> TRUE]
    /\ template = TRUE
    /\ client = [c \in Clients |-> Idle]

----------------------------------------------------------------------------

Answer(c, outcome) == client' = [client EXCEPT ![c] = [Idle EXCEPT !.outcome = outcome]]

To(c, pc) == client' = [client EXCEPT ![c].pc = pc]

\* require_access: the author as cited, and the template.
MayUse(p) == author.access /\ author.version = plans[p].cites /\ template

\* create_plan reads the author's record and the template, and proposes values
\* from them; some may be missing or ambiguous.
ProposedValues(open) == [NothingFrozen EXCEPT !.cites = author.version, !.values = IF open THEN 0 ELSE 1]

create_plan(c, p, open) ==
    /\ client[c].pc = "idle" /\ template /\ author.access
    /\ client' = [client EXCEPT ![c] = [Idle EXCEPT !.pc = "create", !.plan = p, !.open = open,
                     !.match = draft.version, !.frozen = ProposedValues(open)]]
    /\ UNCHANGED <<draft, plans, decisions, revisions, author, template>>

\* A plan stands for the key it is created with: a second request with it finds
\* the row, and is answered or refused without a change.
create(c) ==
    LET p == client[c].plan
    IN  /\ client[c].pc = "create" /\ draft.version < MaxVersion
        /\ IF /\ plans[p].state = "none" /\ client[c].match = draft.version /\ template
              /\ author.access /\ author.version = client[c].frozen.cites
           THEN /\ draft' = [draft EXCEPT !.version = @ + 1]
                /\ plans' = [plans EXCEPT ![p] =
                      [state |-> "pending", version |-> 1, on |-> draft.version + 1,
                       source |-> draft.current, values |-> client[c].frozen.values,
                       cites |-> author.version, open |-> client[c].open, result |-> None]]
                /\ Answer(c, "answered")
           ELSE Answer(c, "refused") /\ UNCHANGED <<draft, plans>>
        /\ UNCHANGED <<decisions, revisions, author, template>>

\* A client sends an entity tag that it has been given, the last one or an old
\* one: of the plan, or of the draft.
Ask(c, what, p, k, version) ==
    /\ client[c].pc = "idle" /\ plans[p].state # "none"
    /\ version \in 1 .. (IF what = "regenerate" THEN draft.version ELSE plans[p].version)
    /\ version < MaxVersion
    /\ client' = [client EXCEPT ![c] = [Idle EXCEPT !.pc = "read", !.what = what, !.plan = p,
                                                    !.key = k, !.match = version]]
    /\ UNCHANGED <<draft, plans, decisions, revisions, author, template>>

\* update_plan reads the plan to check the values that come with the request.
update_plan(c) ==
    /\ client[c].pc = "read" /\ client[c].what = "update"
    /\ IF MayUse(client[c].plan)
       THEN client' = [client EXCEPT ![c].pc = "decide", ![c].values = client[c].match + 1,
                                     ![c].open = FALSE]
       ELSE Answer(c, "refused")
    /\ UNCHANGED <<draft, plans, decisions, revisions, author, template>>

\* approve_plan approves the values it reads.
approve_plan(c) ==
    LET p == client[c].plan
    IN  /\ client[c].pc = "read" /\ client[c].what = "approve"
        /\ IF MayUse(p) /\ ~plans[p].open
           THEN client' = [client EXCEPT ![c].pc = "decide", ![c].values = plans[p].values]
           ELSE Answer(c, "refused")
        /\ UNCHANGED <<draft, plans, decisions, revisions, author, template>>

Digest(c) == [what |-> client[c].what, match |-> client[c].match, values |-> client[c].values]

Prior(c) == {x \in decisions : x.plan = client[c].plan /\ x.key = client[c].key}

Decidable(c) ==
    LET row == plans[client[c].plan]
    IN  /\ client[c].match = row.version /\ row.state = "pending"
        /\ draft.version = row.on /\ draft.current = row.source
        /\ MayUse(client[c].plan)

decide(c) ==
    LET p == client[c].plan
        row == plans[p]
        decided == [row EXCEPT !.values = client[c].values, !.open = client[c].open,
                        !.version = @ + 1,
                        !.state = IF client[c].what = "approve" THEN "approved" ELSE @]
    IN  /\ client[c].pc = "decide"
        /\ IF Prior(c) # {}
           THEN /\ Answer(c, IF /\ \A x \in Prior(c) : x.digest = Digest(c)
                                                       /\ x.version = row.version
                                /\ MayUse(p)
                             THEN "answered" ELSE "refused")
                /\ UNCHANGED <<plans, decisions>>
           ELSE IF Decidable(c)
           THEN /\ row.version < MaxVersion
                /\ plans' = [plans EXCEPT ![p] = decided]
                /\ decisions' = decisions \cup {[plan |-> p, key |-> client[c].key,
                                     digest |-> Digest(c), version |-> row.version + 1]}
                /\ Answer(c, "answered")
           ELSE Answer(c, "refused") /\ UNCHANGED <<plans, decisions>>
        /\ UNCHANGED <<draft, revisions, author, template>>

----------------------------------------------------------------------------
(* publish_plan and regenerate                                              *)

Rows(state) == {r \in Revisions : revisions[r].state = state}

\* committed_receipt: what the key has published for this version of the plan.
Receipt(c) ==
    {r \in Rows("published") : /\ revisions[r].key = client[c].key
                               /\ revisions[r].frozen.plan = client[c].plan
                               /\ revisions[r].frozen.parent = None
                               /\ revisions[r].frozen.version = client[c].match}

AnswerReceipt(c) ==
    IF Receipt(c) = {} THEN Answer(c, "refused")
    ELSE \E r \in Receipt(c) : client' = [client EXCEPT ![c].pc = "mark", ![c].revision = r]

FrozenPlan(p) ==
    [plan |-> p, version |-> plans[p].version, values |-> plans[p].values,
     cites |-> plans[p].cites, source |-> plans[p].source, parent |-> None]

publish_plan(c) ==
    LET p == client[c].plan
    IN  /\ client[c].pc = "read" /\ client[c].what = "publish"
        /\ IF ~MayUse(p) \/ plans[p].state = "published" THEN AnswerReceipt(c)
           ELSE IF client[c].match = plans[p].version /\ plans[p].state = "approved"
           THEN client' = [client EXCEPT ![c].pc = "render", ![c].frozen = FrozenPlan(p)]
           ELSE Answer(c, "refused")
        /\ UNCHANGED <<draft, plans, decisions, revisions, author, template>>

\* The document of an earlier fill is rendered again, from what it froze.
regenerate(c) ==
    /\ client[c].pc = "read" /\ client[c].what = "regenerate"
    /\ \/ Answer(c, "refused")
       \/ \E r \in Rows("published") :
             /\ revisions[r].frozen.plan = client[c].plan
             /\ client' = [client EXCEPT ![c].pc = "render",
                              ![c].frozen = [revisions[r].frozen EXCEPT !.parent = r]]
    /\ UNCHANGED <<draft, plans, decisions, revisions, author, template>>

\* _template and fill_docx
Render(c) ==
    /\ client[c].pc = "render"
    /\ IF template THEN To(c, "reserve") ELSE Answer(c, "refused")
    /\ UNCHANGED <<draft, plans, decisions, revisions, author, template>>

\* _validate_typed_fill. A regeneration needs access to the author, not to the
\* version that it has frozen.
ValidFill(frozen) ==
    /\ template /\ author.access
    /\ frozen.parent = None =>
          /\ author.version = frozen.cites
          /\ plans[frozen.plan].state = "approved"
          /\ FrozenPlan(frozen.plan) = frozen
          /\ plans[frozen.plan].on = draft.version /\ draft.current = frozen.source
          /\ ~plans[frozen.plan].open

\* The draft version that the request is for: the plan's own, or the client's.
Expected(c) == IF client[c].what = "publish" THEN plans[client[c].plan].on ELSE client[c].match

InProgress == Rows("pending")

ReserveFill(c) ==
    LET existing == {r \in Revisions : /\ revisions[r].state \in {"pending", "published"}
                                       /\ revisions[r].key = client[c].key}
    IN  /\ client[c].pc = "reserve"
        /\ IF existing # {}
           THEN /\ IF \A r \in existing : revisions[r].frozen = client[c].frozen
                                          /\ revisions[r].state = "published"
                   THEN \E r \in existing :
                           client' = [client EXCEPT ![c].pc = "mark", ![c].revision = r]
                   ELSE Answer(c, "refused")
                /\ UNCHANGED revisions
           ELSE IF Expected(c) = draft.version /\ ValidFill(client[c].frozen) /\ InProgress = {}
           THEN \E r \in Revisions :
                   /\ revisions[r].state = "none" /\ \A q \in 1 .. r - 1 : revisions[q].state # "none"
                   /\ revisions' = [revisions EXCEPT ![r] =
                         [state |-> "pending", expected |-> draft.version, key |-> client[c].key,
                          frozen |-> client[c].frozen]]
                   /\ client' = [client EXCEPT ![c].pc = "finalize", ![c].revision = r]
           ELSE Answer(c, "refused") /\ UNCHANGED revisions
        /\ UNCHANGED <<draft, plans, decisions, author, template>>

\* Mutant: the fill was validated when its revision was reserved.
HeldReservation(r) == revisions[r].state = "pending" /\ draft.version = revisions[r].expected

Publishable(r) ==
    /\ revisions[r].state = "pending" /\ draft.version = revisions[r].expected
    /\ ValidFill(revisions[r].frozen)

FinalizeFill(c) ==
    LET r == client[c].revision
    IN  /\ client[c].pc = "finalize" /\ draft.version < MaxVersion
        /\ IF Publishable(r)
           THEN /\ revisions' = [revisions EXCEPT ![r].state = "published"]
                /\ draft' = [version |-> draft.version + 1, current |-> r]
                /\ IF client[c].what = "publish" THEN To(c, "mark") ELSE Answer(c, "answered")
           ELSE Answer(c, "refused") /\ UNCHANGED <<draft, revisions>>
        /\ UNCHANGED <<plans, decisions, author, template>>

\* mark_published is the last step of a publication, and of every retry of it.
mark_published(c) ==
    LET p == client[c].plan
        row == plans[p]
        r == client[c].revision
    IN  /\ client[c].pc = "mark"
        /\ IF client[c].what # "publish" \/ (row.state = "published" /\ row.result = r)
           THEN Answer(c, "answered") /\ UNCHANGED plans
           ELSE IF /\ row.state = "approved" /\ revisions[r].state = "published"
                   /\ revisions[r].expected = row.on /\ revisions[r].frozen = FrozenPlan(p)
           THEN /\ row.version < MaxVersion
                /\ plans' = [plans EXCEPT ![p].state = "published", ![p].version = @ + 1,
                                          ![p].result = r]
                /\ Answer(c, "answered")
           ELSE Answer(c, "refused") /\ UNCHANGED plans
        /\ UNCHANGED <<draft, decisions, revisions, author, template>>

----------------------------------------------------------------------------
(* What else happens to the rows that a fill depends on.                    *)

\* Another request saves the draft or publishes a revision of it.
ChangeDraft ==
    /\ "draft" \in Changes /\ draft.version < MaxVersion
    /\ \E current \in {draft.current, Other} :
          draft' = [version |-> draft.version + 1, current |-> current]
    /\ UNCHANGED <<plans, decisions, revisions, author, template, client>>

UpdateAuthor ==
    /\ "author" \in Changes /\ author.version < MaxVersion
    /\ author' = [author EXCEPT !.version = @ + 1]
    /\ UNCHANGED <<draft, plans, decisions, revisions, template, client>>

\* A grant that is given or taken is a new version of the author.
ChangeGrant ==
    /\ "grant" \in Changes /\ author.version < MaxVersion
    /\ author' = [version |-> author.version + 1, access |-> ~author.access]
    /\ UNCHANGED <<draft, plans, decisions, revisions, template, client>>

ChangeTemplate ==
    /\ "template" \in Changes
    /\ template' = ~template
    /\ UNCHANGED <<draft, plans, decisions, revisions, author, client>>

\* Recovery removes a publication whose lease has ended, whoever is at it.
RecoverStale(r) ==
    /\ "crash" \in Changes
    /\ revisions[r].state = "pending"
    /\ revisions' = [revisions EXCEPT ![r] = [NoRevision EXCEPT !.state = "removed"]]
    /\ UNCHANGED <<draft, plans, decisions, author, template, client>>

Crash(c) ==
    /\ "crash" \in Changes /\ client[c].pc # "idle"
    /\ client' = [client EXCEPT ![c] = Idle]
    /\ UNCHANGED <<draft, plans, decisions, revisions, author, template>>

FillNext ==
    \/ \E c \in Clients :
          \/ \E p \in Plans, open \in BOOLEAN : create_plan(c, p, open)
          \/ create(c)
          \/ \E what \in Asked, p \in Plans, k \in Keys, v \in Versions : Ask(c, what, p, k, v)
          \/ update_plan(c) \/ approve_plan(c) \/ decide(c) \/ publish_plan(c) \/ regenerate(c)
          \/ Render(c) \/ ReserveFill(c) \/ FinalizeFill(c) \/ mark_published(c) \/ Crash(c)
    \/ ChangeDraft \/ UpdateAuthor \/ ChangeGrant \/ ChangeTemplate
    \/ \E r \in Revisions : RecoverStale(r)

FillSpec == FillInit /\ [][FillNext]_fillVars

----------------------------------------------------------------------------

\* Types, and at most one publication of the draft in progress.
FillTypeOK ==
    /\ draft \in [version : Versions, current : Current]
    /\ plans \in [Plans -> PlanRow]
    /\ \A x \in decisions : x.plan \in Plans /\ x.key \in Keys /\ x.version \in Versions
    /\ revisions \in [Revisions -> RevisionRow]
    /\ author \in [version : Versions, access : BOOLEAN]
    /\ template \in BOOLEAN
    /\ client \in [Clients -> Client]
    /\ Cardinality(Rows("pending")) <= 1

\* The first publications of a plan, as opposed to later regenerations of one.
Fills(p) == {r \in Rows("published") : revisions[r].frozen.plan = p
                                       /\ revisions[r].frozen.parent = None}

\* A plan is published at most once, whatever keys it is tried with; it is linked
\* to the revision that holds the values as they were approved, once.
PlanLinked ==
    \A p \in Plans :
        /\ Cardinality(Fills(p)) <= 1
        /\ plans[p].state = "published" =>
              \E r \in Fills(p) : /\ plans[p].result = r
                                  /\ revisions[r].frozen.values = plans[p].values
                                  /\ revisions[r].frozen.version = plans[p].version - 1

\* A document is published while its owner may use the author and the template,
\* and a first one with the author as reviewed, on the revision it was made for.
FilledAsReviewed ==
    \A r \in Revisions :
        revisions[r].state = "pending" /\ revisions'[r].state = "published" =>
            LET frozen == revisions[r].frozen
            IN  /\ template /\ author.access
                /\ frozen.parent = None =>
                      author.version = frozen.cites /\ draft.current = frozen.source

\* An approval approves what was there to be seen: it changes no value, also
\* when an edit comes between its reading and its decision.
ApprovedAsShown ==
    \A p \in Plans :
        plans[p].state = "pending" /\ plans'[p].state = "approved" =>
            plans'[p].values = plans[p].values

\* A retry that starts after the publication it repeats has been committed is
\* answered with it, also when access has been taken away since, or the plan is
\* not linked yet.
CommittedIsAnswered ==
    \A c \in Clients :
        /\ client[c].pc \in {"read", "mark"} /\ client[c].what = "publish"
        /\ client'[c].pc = "idle" /\ client'[c].outcome = "refused"
        => Receipt(c) = {}

=============================================================================
