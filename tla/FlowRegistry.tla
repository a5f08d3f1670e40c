---------------------------- MODULE FlowRegistry ----------------------------
(***************************************************************************)
(* The engine's registry of flow packages (flows/service.py): one flow key *)
(* of one tenant, under which there may be a GLOBAL flow and one of the    *)
(* TENANT, each with numbered versions.  A package is put into object      *)
(* storage before the row that names it is inserted; rows are never        *)
(* deleted, and only their status changes, under the row's lock and past a *)
(* trigger of the database.                                                *)
(***************************************************************************)
EXTENDS Naturals, FiniteSets

CONSTANTS
    Numbers,        \* bound: the version numbers
    Offered,        \* bound: the versions that somebody uploads
    Uploads,        \* bound: calls of upload_package, each with its object key
    Publishers,     \* bound: calls of publish_version under way at once
    None

Scopes == {"GLOBAL", "TENANT"}

Versions == Scopes \X Numbers

ASSUME OfferedAssumption == Offered \subseteq Versions
ASSUME NoneAssumption == None \notin Versions /\ None \notin Uploads

VARIABLES
    flowStatus,     \* rpa_flows.status by scope
    versionStatus,  \* rpa_flow_versions.status
    packageKey,     \* rpa_flow_versions.package_object_key
    stored,         \* the objects in storage
    damaged,        \* those of them whose content changed behind the engine's back
    upload,         \* the version each upload brings, and how far it is
    publishing,     \* what each publisher read and found before it locks the row
    checked,        \* history: the versions that passed a check to be published
    refused         \* history: the trigger had to stop a change of status

registryVars == <<flowStatus, versionStatus, packageKey, stored, damaged,
                  upload, publishing, checked, refused>>

rowVars == <<flowStatus, versionStatus, packageKey, checked, refused>>

RegistryInit ==
    /\ flowStatus = [s \in Scopes |-> "NONE"]
    /\ versionStatus = [v \in Versions |-> "NONE"]
    /\ packageKey = [v \in Versions |-> None]
    /\ stored = {}
    /\ damaged = {}
    /\ upload = [u \in Uploads |-> [version |-> None, at |-> "IDLE"]]
    /\ publishing = [p \in Publishers |-> None]
    /\ checked = {}
    /\ refused = FALSE

-----------------------------------------------------------------------------
(* upload_package                                                          *)

FaultyObjectKey(u, v) == v

\* A key of its own for every upload, also of the same version.
ObjectKey(u, v) == u

\* The package is put first. The put may fail, or be cancelled, on either side.
PutPackage(u, v) ==
    /\ upload[u].at = "IDLE"
    /\ \E at \in {"PUT", "CLEANUP"} : upload' = [upload EXCEPT ![u] = [version |-> v, at |-> at]]
    /\ \/ stored' = stored \cup {ObjectKey(u, v)}
       \/ upload'[u].at = "CLEANUP" /\ UNCHANGED stored
    /\ UNCHANGED <<rowVars, damaged, publishing>>

FaultyAfterFailure(prepared) == "CLEANUP"

\* The object is deleted again, unless only the COMMIT was left: its failure
\* does not tell whether the row exists.
AfterFailure(prepared) == IF prepared THEN "ENDED" ELSE "CLEANUP"

EndUpload(u, at) ==
    upload' = [upload EXCEPT ![u] =
        [version |-> IF at = "ENDED" THEN None ELSE @.version, at |-> at]]

FaultyFirstStatus == "VALIDATING"
FirstStatus == "DRAFT"

Accepted(v) == flowStatus[v[1]] \in {"NONE", "ACTIVE"} /\ versionStatus[v] = "NONE"

\* The transaction commits; the answer to the COMMIT may be lost.
InsertVersion(u) ==
    LET v == upload[u].version IN
    /\ upload[u].at = "PUT"
    /\ Accepted(v)
    /\ flowStatus' = [flowStatus EXCEPT ![v[1]] = "ACTIVE"]
    /\ versionStatus' = [versionStatus EXCEPT ![v] = FirstStatus]
    /\ \E answered \in BOOLEAN : EndUpload(u, IF answered THEN "ENDED" ELSE AfterFailure(TRUE))
    /\ packageKey' = [packageKey EXCEPT ![v] = ObjectKey(u, v)]
    /\ UNCHANGED <<stored, damaged, publishing, checked, refused>>

\* It fails, is cancelled, or is refused: the flow is disabled, the version there.
UploadFails(u) ==
    /\ upload[u].at = "PUT"
    /\ \E prepared \in BOOLEAN :
          /\ prepared => Accepted(upload[u].version)
          /\ EndUpload(u, AfterFailure(prepared))
    /\ UNCHANGED <<rowVars, stored, damaged, publishing>>

DeleteFailedUpload(u) ==
    /\ upload[u].at = "CLEANUP"
    /\ EndUpload(u, "ENDED")
    /\ stored' \in {stored, stored \ {ObjectKey(u, upload[u].version)}}
    /\ UNCHANGED <<rowVars, damaged, publishing>>

-----------------------------------------------------------------------------
(* Status changes                                                          *)

\* guard_flow_version, the trigger on every update of a row.
GuardFlowVersion(old, new) ==
    \/ old = new
    \/ old = "DRAFT" /\ new \in {"VALIDATING", "DISABLED"}
    \/ old = "VALIDATING" /\ new \in {"DRAFT", "PUBLISHED", "DISABLED"}
    \/ old = "PUBLISHED" /\ new \in {"DEPRECATED", "DISABLED"}
    \/ old = "DEPRECATED" /\ new \in {"PUBLISHED", "DISABLED"}
    \/ old = "DISABLED" /\ new = "DRAFT"

\* A draft that is published is flushed as VALIDATING on its way.
MayStep(old, new) ==
    IF old = "DRAFT" /\ new = "PUBLISHED"
    THEN GuardFlowVersion("DRAFT", "VALIDATING") /\ GuardFlowVersion("VALIDATING", "PUBLISHED")
    ELSE GuardFlowVersion(old, new)

\* Each of the versions gets its new status, unless the trigger stops one.
SetStatus(status) ==
    IF \A v \in DOMAIN status : MayStep(versionStatus[v], status[v])
    THEN versionStatus' = [v \in Versions |->
                              IF v \in DOMAIN status THEN status[v] ELSE versionStatus[v]]
         /\ UNCHANGED refused
    ELSE refused' = TRUE /\ UNCHANGED versionStatus

\* publish_version first fetches the package and validates it, without a lock.
CheckPackage(p, v) ==
    /\ publishing[p] = None
    /\ versionStatus[v] # "NONE" /\ packageKey[v] \in stored
    /\ publishing' = [publishing EXCEPT ![p] =
          [version |-> v, intact |-> packageKey[v] \notin damaged]]
    /\ UNCHANGED <<rowVars, stored, damaged, upload>>

FaultyUnchecked(check, status) == status \in {"DRAFT", "VALIDATING", "DEPRECATED"}

FaultyUnread(check, status) == check.intact

\* What was found before, and the status that is read once the row is locked.
Publishes(check, status) ==
    check.intact /\ status \in {"DRAFT", "VALIDATING", "DEPRECATED"}

PublishVersion(p) ==
    LET check == publishing[p]
        v == check.version
    IN
    /\ check # None
    /\ publishing' = [publishing EXCEPT ![p] = None]
    /\ IF Publishes(check, versionStatus[v])
       THEN /\ SetStatus([w \in {v} |-> "PUBLISHED"])
            /\ checked' = IF check.intact THEN checked \cup {v} ELSE checked
       ELSE UNCHANGED <<versionStatus, refused, checked>>
    /\ UNCHANGED <<flowStatus, packageKey, stored, damaged, upload>>

\* deprecate_version, disable_version: read, checked and written under the lock.
ChangeVersionStatus(v) ==
    /\ \/ versionStatus[v] = "PUBLISHED" /\ SetStatus([w \in {v} |-> "DEPRECATED"])
       \/ /\ versionStatus[v] \in {"DRAFT", "VALIDATING", "PUBLISHED", "DEPRECATED"}
          /\ SetStatus([w \in {v} |-> "DISABLED"])
    /\ UNCHANGED <<flowStatus, packageKey, stored, damaged, upload, publishing, checked>>

\* Nothing enables a flow again.
DisableFlow(s) ==
    /\ flowStatus[s] = "ACTIVE"
    /\ flowStatus' = [flowStatus EXCEPT ![s] = "DISABLED"]
    /\ UNCHANGED <<versionStatus, packageKey, stored, damaged, upload, publishing,
                   checked, refused>>

\* The other published versions of the flow are deprecated, this one comes back.
RollbackFlow(v) ==
    /\ versionStatus[v] \in {"DEPRECATED", "PUBLISHED"}
    /\ SetStatus([w \in {v} \cup {x \in Versions : x[1] = v[1] /\ versionStatus[x] = "PUBLISHED"} |->
                     IF w = v THEN "PUBLISHED" ELSE "DEPRECATED"])
    /\ UNCHANGED <<flowStatus, packageKey, stored, damaged, upload, publishing, checked>>

-----------------------------------------------------------------------------
(* What the registry is asked for                                          *)

FaultyResolved(n) ==
    IF versionStatus[<<"TENANT", n>>] = "PUBLISHED" THEN <<"TENANT", n>> ELSE <<"GLOBAL", n>>

\* get_version_by_key: the tenant's own version before the global one.
Resolved(n) ==
    IF versionStatus[<<"TENANT", n>>] # "NONE" THEN <<"TENANT", n>> ELSE <<"GLOBAL", n>>

\* FlowVersionResolver and validate_binding ask the same of it.
Executable(v) == flowStatus[v[1]] = "ACTIVE" /\ versionStatus[v] = "PUBLISHED"

\* Object storage returns something else than what was put.
Damage(v) ==
    /\ packageKey[v] \in stored
    /\ damaged' = damaged \cup {packageKey[v]}
    /\ UNCHANGED <<rowVars, stored, upload, publishing>>

\* The engine dies: uploads and publications under way are forgotten.
RegistryCrash ==
    /\ upload' = [u \in Uploads |->
          IF upload[u].at = "IDLE" THEN upload[u] ELSE [version |-> None, at |-> "ENDED"]]
    /\ publishing' = [p \in Publishers |-> None]
    /\ UNCHANGED <<rowVars, stored, damaged>>

RegistryStep ==
    \/ \E u \in Uploads :
          \/ InsertVersion(u) \/ UploadFails(u) \/ DeleteFailedUpload(u)
          \/ \E v \in Offered : PutPackage(u, v)
    \/ \E p \in Publishers : PublishVersion(p) \/ \E v \in Versions : CheckPackage(p, v)
    \/ \E v \in Versions : ChangeVersionStatus(v) \/ RollbackFlow(v) \/ Damage(v)
    \/ \E s \in Scopes : DisableFlow(s)

RegistrySpec == RegistryInit /\ [][RegistryStep \/ RegistryCrash]_registryVars

-----------------------------------------------------------------------------
(* Correctness                                                             *)

VersionStatuses == {"NONE", "DRAFT", "VALIDATING", "PUBLISHED", "DEPRECATED", "DISABLED"}

\* Types; a version exists only in a flow, a VALIDATING one in no committed state.
RegistryTypeOK ==
    /\ flowStatus \in [Scopes -> {"NONE", "ACTIVE", "DISABLED"}]
    /\ versionStatus \in [Versions -> VersionStatuses \ {"VALIDATING"}]
    /\ \A v \in Versions :
          /\ versionStatus[v] # "NONE" => flowStatus[v[1]] # "NONE"
          /\ packageKey[v] = None <=> versionStatus[v] = "NONE"
    /\ upload \in [Uploads -> [version : Versions \cup {None},
                               at : {"IDLE", "PUT", "CLEANUP", "ENDED"}]]
    /\ publishing \in [Publishers -> [version : Versions, intact : BOOLEAN] \cup {None}]

\* Whatever uploads of the same version do at once, and wherever their
\* transactions break off, the package of every version stays in storage.
VersionHasPackage ==
    \A v \in Versions : versionStatus[v] # "NONE" => packageKey[v] \in stored

\* Whatever is published, or was and can be rolled back to, was found intact
\* when it was first published.
PublishedWasChecked ==
    \A v \in Versions : versionStatus[v] \in {"PUBLISHED", "DEPRECATED"} => v \in checked

\* The service never has to be stopped by the trigger: it decides on the status
\* under the row's lock, whatever happened since it looked at the package.
TriggerNeverRaises == ~refused

\* What the number of a binding, once validated, stands for stays the same: no
\* other version replaces one that is deprecated or disabled. Only a version of
\* the tenant's own, uploaded under the same number, takes the place of a global
\* one.
SameResolution ==
    [][\A n \in Numbers :
          \/ Resolved(n)' = Resolved(n)
          \/ versionStatus[<<"TENANT", n>>] = "NONE" /\ versionStatus'[<<"TENANT", n>>] = "DRAFT"
      ]_registryVars
=============================================================================
