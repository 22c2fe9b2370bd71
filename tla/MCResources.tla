---------------------------- MODULE MCResources ----------------------------
(* What the API keeps beside the job queues. The template catalog: on       *)
(* SQLite with publishers that outlive their lease ("slow"), with crashes   *)
(* and storage failures ("failing"), on PostgreSQL, where a check does not  *)
(* lock what it read ("unlocked"), and with a commit of unknown outcome     *)
(* ("undecided"). Accounts and sessions: under changes of an account        *)
(* ("accounts"), in time ("time") and under administration ("admin").       *)
(* A behaviour stays in its instance.                                       *)
EXTENDS Authentication, TemplateCatalog, TLC

CONSTANTS t1, v1, v2, v3, p1, p2, j1, a1, u1, s1, s2, r1, r2

VARIABLE instance

vars == <<instance, catalogVars, authVars>>

\* The instances "slow" and "accounts" have the constants of the cfg.
Failing == INSTANCE TemplateCatalog WITH
    PostgreSQL <- FALSE, CatalogEvents <- {"storage", "crash"},
    Offered <- {"replace", "archive", "delete"}

Unlocked == INSTANCE TemplateCatalog WITH
    PostgreSQL <- TRUE, CatalogEvents <- {"storage"},
    Offered <- {"replace", "archive", "delete", "prefer"}

Undecided == INSTANCE TemplateCatalog WITH
    PostgreSQL <- FALSE, CatalogEvents <- {"ambiguous"}, MaxETag <- 3,
    Offered <- {"replace", "update"}

Time == INSTANCE Authentication WITH
    Users <- {a1}, Admin <- a1, Tokens <- {s1},
    Absolute <- 2, Minutes <- {1, 2}, MaxTime <- 2, MaxVersion <- 0, MaxRevision <- 2,
    Asked <- {"use", "policy"}

Admins == INSTANCE Authentication WITH
    Users <- {a1, u1}, Admin <- a1, Tokens <- {s1},
    Absolute <- 2, Minutes <- {1}, MaxTime <- 0, MaxVersion <- 1, MaxRevision <- 0,
    Asked <- {"create", "deactivate", "reactivate", "use", "provision"}

----------------------------------------------------------------------------
TemplateInstances == {"slow", "failing", "unlocked", "undecided"}

Init ==
    /\ CatalogInit
    /\ \/ instance \in TemplateInstances \cup {"accounts"} /\ AuthInit
       \/ instance = "time" /\ Time!AuthInit
       \/ instance = "admin" /\ Admins!AuthInit

Next ==
    \/ /\ \/ instance = "slow" /\ CatalogNext
          \/ instance = "failing" /\ Failing!CatalogNext
          \/ instance = "unlocked" /\ Unlocked!CatalogNext
          \/ instance = "undecided" /\ Undecided!CatalogNext
       /\ UNCHANGED <<instance, authVars>>
    \/ /\ \/ instance = "accounts" /\ AuthNext
          \/ instance = "time" /\ Time!AuthNext
          \/ instance = "admin" /\ Admins!AuthNext
       /\ UNCHANGED <<instance, catalogVars>>

Spec == Init /\ [][Next]_vars

Interchangeable ==
    Permutations({p1, p2}) \cup Permutations({v1, v2, v3}) \cup Permutations({s1, s2})
    \cup Permutations(Requests)

----------------------------------------------------------------------------
\* Rows and requests have their types; a pending version has a token; no session is kept
\* past its absolute end. (The types are those of the cfg's accounts.) What a user prefers
\* is not deleted, except on PostgreSQL.
ResourcesTypeOK ==
    /\ instance = "slow" => CatalogTypeOK
    /\ instance = "accounts" => AuthTypeOK
    /\ IF instance = "unlocked" THEN Unlocked!DeletingUnreferenced ELSE DeletingUnreferenced
=============================================================================
