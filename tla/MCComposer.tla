----------------------------- MODULE MCComposer -----------------------------
(* The parts of Composer, each in the instances that bring out its own      *)
(* races; a behaviour stays in the instance that it starts in.              *)
EXTENDS ComposerModelSteps, TLC

CONSTANTS k1, k2, k3, c1, c2, m1, m2, d1, p1, p2

VARIABLES
    instance,
    drafts, sources, revisions, proposals, generation, objects, access, client, cleaner,
    document, versions, bytes, cleanup, writer, keeper,
    plans, decisions, template, fillDraft, fillAuthor

draftVars == <<drafts, sources, revisions, proposals, generation, objects, access, client,
               cleaner>>

catalogVars == <<document, versions, bytes, cleanup, writer, keeper>>

\* A fill uses revisions and requests like those of drafts.
planVars == <<plans, decisions, template, fillDraft, fillAuthor>>

vars == <<instance, stepVars, draftVars, catalogVars, planVars>>

\* A behaviour in an instance of one part has no state of the others, and no model step.
NoDrafts ==
    /\ drafts = None /\ sources = None /\ revisions = None /\ proposals = None
    /\ generation = None /\ objects = None /\ access = None /\ client = None
    /\ cleaner = None

NoCatalogs ==
    /\ document = None /\ versions = None /\ bytes = None /\ cleanup = None
    /\ writer = None /\ keeper = None

NoPlans ==
    /\ plans = None /\ decisions = None /\ template = None /\ fillDraft = None
    /\ fillAuthor = None

----------------------------------------------------------------------------
(* Model steps: two requests with one key while the draft and the author    *)
(* change; a connection that is replaced; cancellation; stopped processes.  *)

\* The instance "repeated" has the constants of the cfg.
Replaced == INSTANCE ComposerModelSteps WITH
    Keys <- {k1}, Clients <- {c1}, None <- None, MaxActive <- 1, Lease <- 1,
    Changes <- {"connection", "policy"}, Intents <- {"office_edit"}, Cites <- {FALSE},
    MaxTime <- 1, MaxVersion <- 4, MaxChange <- 2

Cancelled == INSTANCE ComposerModelSteps WITH
    Keys <- {k1, k2}, Clients <- {c1}, None <- None, MaxActive <- 1, Lease <- 1,
    Changes <- {"cancel"}, Intents <- {"question"}, Cites <- {FALSE},
    MaxTime <- 1, MaxVersion <- 5, MaxChange <- 2

Stopped == INSTANCE ComposerModelSteps WITH
    Keys <- {k1, k2}, Clients <- {c1}, None <- None, MaxActive <- 1, Lease <- 1,
    Changes <- {"crash", "hide"}, Intents <- {"proposal"}, Cites <- {FALSE},
    MaxTime <- 1, MaxVersion <- 4, MaxChange <- 2

ModelInit ==
    /\ \/ instance = "repeated" /\ StepsInit
       \/ instance = "replaced" /\ Replaced!StepsInit
       \/ instance = "cancelled" /\ Cancelled!StepsInit
       \/ instance = "stopped" /\ Stopped!StepsInit
    /\ NoDrafts /\ NoCatalogs /\ NoPlans

ModelNext ==
    /\ \/ instance = "repeated" /\ StepsNext
       \/ instance = "replaced" /\ Replaced!StepsNext
       \/ instance = "cancelled" /\ Cancelled!StepsNext
       \/ instance = "stopped" /\ Stopped!StepsNext
    /\ UNCHANGED <<draftVars, catalogVars, planVars>>

----------------------------------------------------------------------------
(* Drafts: a person edits while two requests publish; a generation; the     *)
(* creation and the end of a draft; Office edits; restored revisions.       *)

Edited == INSTANCE ComposerDrafts WITH
    Drafts <- {d1}, Clients <- {c1, c2}, Cleaners <- {}, Keys <- {k1}, None <- None,
    Operations <- {"draft", "proposal"}, Others <- {"save"},
    MaxRevision <- 2, MaxProposal <- 1, MaxVersion <- 4

Generated == INSTANCE ComposerDrafts WITH
    Drafts <- {d1}, Clients <- {c1, c2}, Cleaners <- {}, Keys <- {k1, k2, k3}, None <- None,
    Operations <- {"draft", "generate"}, Others <- {},
    MaxRevision <- 3, MaxProposal <- 1, MaxVersion <- 4

Created == INSTANCE ComposerDrafts WITH
    Drafts <- {d1}, Clients <- {c1}, Cleaners <- {m1, m2}, Keys <- {k1}, None <- None,
    Operations <- {"capture"}, Others <- {"create", "hide", "crash"},
    MaxRevision <- 2, MaxProposal <- 1, MaxVersion <- 3

Office == INSTANCE ComposerDrafts WITH
    Drafts <- {d1}, Clients <- {c1, c2}, Cleaners <- {}, Keys <- {k1, k2}, None <- None,
    Operations <- {"capture", "office", "edit"}, Others <- {"author"},
    MaxRevision <- 2, MaxProposal <- 1, MaxVersion <- 5

Restored == INSTANCE ComposerDrafts WITH
    Drafts <- {d1}, Clients <- {c1, c2}, Cleaners <- {m1}, Keys <- {k1, k2}, None <- None,
    Operations <- {"capture", "restore"}, Others <- {"crash"},
    MaxRevision <- 3, MaxProposal <- 1, MaxVersion <- 4

OfDrafts(edited, generated, created, office, restored) ==
    CASE instance = "edited" -> edited
      [] instance = "generated" -> generated
      [] instance = "created" -> created
      [] instance = "office" -> office
      [] instance = "restored" -> restored
      [] OTHER -> TRUE

DraftsInit ==
    /\ \/ instance = "edited" /\ Edited!DraftsInit
       \/ instance = "generated" /\ Generated!DraftsInit
       \/ instance = "created" /\ Created!DraftsInit
       \/ instance = "office" /\ Office!DraftsInit
       \/ instance = "restored" /\ Restored!DraftsInit
    /\ StepsInit /\ NoCatalogs /\ NoPlans

DraftsNext ==
    /\ \/ instance = "edited" /\ Edited!DraftsNext
       \/ instance = "generated" /\ Generated!DraftsNext
       \/ instance = "created" /\ Created!DraftsNext
       \/ instance = "office" /\ Office!DraftsNext
       \/ instance = "restored" /\ Restored!DraftsNext
    /\ UNCHANGED <<stepVars, catalogVars, planVars>>

\* Rows of drafts have their types, and a draft has one publication in progress.
DraftTypeOK ==
    OfDrafts(Edited!DraftTypeOK, Generated!DraftTypeOK, Created!DraftTypeOK,
             Office!DraftTypeOK, Restored!DraftTypeOK)

\* The artifacts of every published revision are stored.
RevisionsReadable ==
    OfDrafts(Edited!RevisionsReadable, Generated!RevisionsReadable, Created!RevisionsReadable,
             Office!RevisionsReadable, Restored!RevisionsReadable)

\* A draft that can be opened has its source.
SourceReadable ==
    OfDrafts(Edited!SourceReadable, Generated!SourceReadable, Created!SourceReadable,
             Office!SourceReadable, Restored!SourceReadable)

\* The current revision is the last published one.
CurrentIsLast ==
    OfDrafts(Edited!CurrentIsLast, Generated!CurrentIsLast, Created!CurrentIsLast,
             Office!CurrentIsLast, Restored!CurrentIsLast)

\* A revision is published on what it was made from.
PublishedOnBase ==
    OfDrafts(Edited!PublishedInPlace, Generated!PublishedInPlace, Created!PublishedInPlace,
             Office!PublishedInPlace, Restored!PublishedInPlace)

----------------------------------------------------------------------------
(* The library and the typed templates.                                     *)

Books == INSTANCE ComposerCatalogs WITH
    Library <- TRUE, Writers <- {c1, c2}, Keepers <- {m1}, None <- None,
    MaxVersion <- 3, MaxRevision <- 3

Typed == INSTANCE ComposerCatalogs WITH
    Library <- FALSE, Writers <- {c1, c2}, Keepers <- {m1}, None <- None,
    MaxVersion <- 3, MaxRevision <- 3

OfCatalogs(property) == instance \in {"library", "typed"} => property

CatalogsInit ==
    /\ instance \in {"library", "typed"} /\ Books!CatalogInit
    /\ StepsInit /\ NoDrafts /\ NoPlans

CatalogsNext ==
    /\ \/ instance = "library" /\ Books!CatalogNext
       \/ instance = "typed" /\ Typed!CatalogNext
    /\ UNCHANGED <<stepVars, draftVars, planVars>>

\* Rows of both catalogs have their types, and version numbers are not used twice.
CatalogTypeOK == OfCatalogs(Books!CatalogTypeOK)

\* Every published version has its bytes.
VersionsReadable == OfCatalogs(Books!VersionsReadable)

\* The current version is the published one with the highest number.
CurrentIsHighest == OfCatalogs(Books!CurrentIsHighest)

\* A published document has a published current version.
PublishedHasVersion == OfCatalogs(Books!PublishedHasVersion)

\* A draft that can be opened has its source and the artifacts of every published
\* revision, the last of which is the current one. A published document has a current
\* version, the highest of the published ones, and all of these have their bytes.
StoredReadable ==
    /\ instance = "repeated" => StepTypeOK
    /\ DraftTypeOK /\ RevisionsReadable /\ SourceReadable /\ CurrentIsLast
    /\ CatalogTypeOK /\ VersionsReadable /\ CurrentIsHighest /\ PublishedHasVersion

----------------------------------------------------------------------------
(* Fill plans: edits that meet approvals and publications; access that is   *)
(* taken away; two plans of one draft.                                      *)

Reviewed == INSTANCE ComposerFills WITH
    Plans <- {p1}, Clients <- {c1, c2}, Keys <- {k1, k2}, None <- None,
    Asked <- {"update", "approve", "publish"}, Changes <- {"draft"},
    MaxVersion <- 4, MaxRevision <- 2, draft <- fillDraft, author <- fillAuthor

Revoked == INSTANCE ComposerFills WITH
    Plans <- {p1}, Clients <- {c1, c2}, Keys <- {k1}, None <- None,
    Asked <- {"approve", "publish", "regenerate"}, Changes <- {"author", "grant", "template"},
    MaxVersion <- 4, MaxRevision <- 2, draft <- fillDraft, author <- fillAuthor

Rivals == INSTANCE ComposerFills WITH
    Plans <- {p1, p2}, Clients <- {c1, c2}, Keys <- {k1}, None <- None,
    Asked <- {"approve", "publish"}, Changes <- {"crash"},
    MaxVersion <- 4, MaxRevision <- 3, draft <- fillDraft, author <- fillAuthor

OfFills(reviewed, revoked, rivals) ==
    CASE instance = "reviewed" -> reviewed
      [] instance = "revoked" -> revoked
      [] instance = "rivals" -> rivals
      [] OTHER -> TRUE

NotFills == <<drafts, sources, proposals, generation, objects, access, cleaner>>

OnlyFills ==
    /\ drafts = None /\ sources = None /\ proposals = None /\ generation = None
    /\ objects = None /\ access = None /\ cleaner = None

FillsInit ==
    /\ \/ instance = "reviewed" /\ Reviewed!FillInit
       \/ instance = "revoked" /\ Revoked!FillInit
       \/ instance = "rivals" /\ Rivals!FillInit
    /\ StepsInit /\ OnlyFills /\ NoCatalogs

FillsNext ==
    /\ \/ instance = "reviewed" /\ Reviewed!FillNext
       \/ instance = "revoked" /\ Revoked!FillNext
       \/ instance = "rivals" /\ Rivals!FillNext
    /\ UNCHANGED <<stepVars, NotFills, catalogVars>>

\* Rows of fill plans have their types, and one publication is in progress.
FillTypeOK == OfFills(Reviewed!FillTypeOK, Revoked!FillTypeOK, Rivals!FillTypeOK)

\* A plan is published once, and linked to the revision with the approved values.
PlanLinked == OfFills(Reviewed!PlanLinked, Revoked!PlanLinked, Rivals!PlanLinked)

\* A fill is published with access to author and template, as they were reviewed.
PublishedAsReviewed ==
    OfFills(Reviewed!FilledAsReviewed, Revoked!FilledAsReviewed, Rivals!FilledAsReviewed)

\* An approval changes no value of its plan.
ApprovedUnchanged ==
    OfFills(Reviewed!ApprovedAsShown, Revoked!ApprovedAsShown, Rivals!ApprovedAsShown)

\* A retry of a committed publication of a plan is answered with it.
FillAnswered ==
    OfFills(Reviewed!CommittedIsAnswered, Revoked!CommittedIsAnswered,
            Rivals!CommittedIsAnswered)

\* A revision is published on the base it was made from, and that of a fill with the
\* values and the access that were reviewed; the plan is linked to it once, and a retry is
\* answered with it.
RevisionsAsReviewed ==
    /\ [](FillTypeOK /\ PlanLinked)
    /\ [][PublishedOnBase /\ PublishedAsReviewed /\ ApprovedUnchanged /\ FillAnswered]_vars

----------------------------------------------------------------------------

Init == ModelInit \/ DraftsInit \/ CatalogsInit \/ FillsInit

Next == UNCHANGED instance /\ (ModelNext \/ DraftsNext \/ CatalogsNext \/ FillsNext)

Spec == Init /\ [][Next]_vars

Interchangeable ==
    Permutations({k1, k2}) \cup Permutations({c1, c2}) \cup Permutations({m1, m2})
=============================================================================
