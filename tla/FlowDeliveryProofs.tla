------------------------- MODULE FlowDeliveryProofs -------------------------
(***************************************************************************)
(* Proofs about FlowDelivery, for any number of versions, uploads,         *)
(* publishers and loads.                                                   *)
(***************************************************************************)
EXTENDS FlowDelivery, TLAPS

-----------------------------------------------------------------------------
(* The registry                                                            *)

\* The key in a row is that of an upload that is over, and will not delete its
\* object any more; one that has still to insert its row has put its object.
PackagesKept ==
    /\ \A v \in Versions : versionStatus[v] # "NONE" =>
          /\ packageKey[v] \in Uploads \cap stored
          /\ upload[packageKey[v]].at = "ENDED"
    /\ \A u \in Uploads : upload[u].at = "PUT" => u \in stored /\ upload[u].version \in Versions
    /\ packageKey \in [Versions -> Uploads \cup {None}]

RegistryInv ==
    /\ RegistryTypeOK /\ PackagesKept /\ PublishedWasChecked /\ TriggerNeverRaises

LEMMA InitRegistryInv == RegistryInit => RegistryInv
BY NoneAssumption
   DEF RegistryInit, RegistryInv, RegistryTypeOK, PackagesKept, PublishedWasChecked,
       TriggerNeverRaises, VersionStatuses, Versions

\* An upload on its way moves to its next place and nothing else changes, but
\* that its object may appear in storage, or disappear when it gives up.
LEMMA UploadMoves ==
    ASSUME RegistryInv, NEW u \in Uploads, upload[u].at # "ENDED",
           NEW v \in Versions \cup {None}, NEW at \in {"PUT", "CLEANUP", "ENDED"},
           upload' = [upload EXCEPT ![u] = [version |-> v, at |-> at]],
           at = "PUT" => v \in Versions /\ u \in stored',
           stored \ {u} \subseteq stored',
           UNCHANGED <<rowVars, damaged, publishing>>
    PROVE  RegistryInv'
<1> USE DEF RegistryInv, rowVars
<1>1. RegistryTypeOK'
    BY DEF RegistryTypeOK
<1>2. PackagesKept'
    BY DEF PackagesKept, RegistryTypeOK
<1>3. PublishedWasChecked' /\ TriggerNeverRaises'
    BY DEF PublishedWasChecked, TriggerNeverRaises
<1>4. QED
    BY <1>1, <1>2, <1>3

LEMMA PutStep ==
    ASSUME RegistryInv, NEW u \in Uploads, NEW v \in Offered, PutPackage(u, v)
    PROVE  RegistryInv'
<1>1. PICK at \in {"PUT", "CLEANUP"} : upload' = [upload EXCEPT ![u] = [version |-> v, at |-> at]]
    BY DEF PutPackage
<1>2. upload'[u].at = at
    BY <1>1 DEF RegistryInv, RegistryTypeOK
<1>3. /\ stored \ {u} \subseteq stored'
      /\ at = "PUT" => u \in stored'
      /\ upload[u].at = "IDLE"
      /\ UNCHANGED <<rowVars, damaged, publishing>>
    BY <1>2 DEF PutPackage, ObjectKey
<1>4. v \in Versions
    BY OfferedAssumption
<1>5. QED
    BY <1>1, <1>3, <1>4, UploadMoves

\* EndUpload, as an assignment to the whole record.
LEMMA EndUploadFact ==
    ASSUME RegistryTypeOK, NEW u \in Uploads, NEW at \in {"CLEANUP", "ENDED"}, EndUpload(u, at)
    PROVE  \E v \in Versions \cup {None} :
              upload' = [upload EXCEPT ![u] = [version |-> v, at |-> at]]
<1> DEFINE v == IF at = "ENDED" THEN None ELSE upload[u].version
<1>1. upload[u] \in [version : Versions \cup {None}, at : {"IDLE", "PUT", "CLEANUP", "ENDED"}]
    BY DEF RegistryTypeOK
<1>2. v \in Versions \cup {None}
    BY <1>1
<1>3. upload' = [upload EXCEPT ![u] = [version |-> v, at |-> at]]
    BY <1>1 DEF EndUpload
<1>4. QED
    BY <1>2, <1>3

LEMMA FailStep ==
    ASSUME RegistryInv, NEW u \in Uploads, UploadFails(u) \/ DeleteFailedUpload(u)
    PROVE  RegistryInv'
<1>1. PICK at \in {"CLEANUP", "ENDED"} : EndUpload(u, at)
    BY DEF UploadFails, DeleteFailedUpload, AfterFailure
<1>2. PICK v \in Versions \cup {None} :
         upload' = [upload EXCEPT ![u] = [version |-> v, at |-> at]]
    BY <1>1, EndUploadFact DEF RegistryInv
<1>3. /\ upload[u].at # "ENDED"
      /\ stored \ {u} \subseteq stored'
      /\ UNCHANGED <<rowVars, damaged, publishing>>
    BY DEF UploadFails, DeleteFailedUpload, ObjectKey
<1>4. QED
    BY <1>1, <1>2, <1>3, UploadMoves

\* A lost answer to the COMMIT leaves the object where the row needs it.
LEMMA InsertStep ==
    ASSUME RegistryInv, NEW u \in Uploads, InsertVersion(u)
    PROVE  RegistryInv'
<1> DEFINE v == upload[u].version
<1> USE DEF RegistryInv
<1>1. /\ v \in Versions /\ u \in stored
      /\ upload[u].at = "PUT"
      /\ versionStatus[v] = "NONE"
      /\ flowStatus' = [flowStatus EXCEPT ![v[1]] = "ACTIVE"]
      /\ versionStatus' = [versionStatus EXCEPT ![v] = "DRAFT"]
      /\ packageKey' = [packageKey EXCEPT ![v] = u]
      /\ UNCHANGED <<stored, damaged, publishing, checked, refused>>
    BY DEF InsertVersion, PackagesKept, Accepted, FirstStatus, ObjectKey
<1>2. EndUpload(u, "ENDED")
    BY DEF InsertVersion, AfterFailure
<1>3. PICK w \in Versions \cup {None} :
         upload' = [upload EXCEPT ![u] = [version |-> w, at |-> "ENDED"]]
    BY <1>2, EndUploadFact
<1> HIDE DEF v
<1>4. RegistryTypeOK'
  <2>1. v[1] \in Scopes
      BY <1>1 DEF Versions
  <2>2. u # None
      BY NoneAssumption
  <2>3. /\ flowStatus' \in [Scopes -> {"NONE", "ACTIVE", "DISABLED"}]
        /\ versionStatus' \in [Versions -> VersionStatuses \ {"VALIDATING"}]
      BY <1>1, <2>1 DEF RegistryTypeOK, VersionStatuses
  <2>4. ASSUME NEW x \in Versions
        PROVE  /\ versionStatus'[x] # "NONE" => flowStatus'[x[1]] # "NONE"
               /\ packageKey'[x] = None <=> versionStatus'[x] = "NONE"
    <3>1. x[1] \in Scopes
        BY DEF Versions
    <3>2. CASE x = v
        BY <1>1, <2>1, <2>2, <3>2 DEF RegistryTypeOK, PackagesKept
    <3>3. CASE x # v
        BY <1>1, <2>1, <3>1, <3>3 DEF RegistryTypeOK, PackagesKept
    <3>4. QED
        BY <3>2, <3>3
  <2>5. upload' \in [Uploads -> [version : Versions \cup {None},
                                 at : {"IDLE", "PUT", "CLEANUP", "ENDED"}]]
      BY <1>3 DEF RegistryTypeOK
  <2>6. QED
      BY <1>1, <2>3, <2>4, <2>5 DEF RegistryTypeOK
<1>5. PackagesKept'
    BY <1>1, <1>3 DEF PackagesKept, RegistryTypeOK
<1>6. PublishedWasChecked' /\ TriggerNeverRaises'
    BY <1>1 DEF PublishedWasChecked, TriggerNeverRaises, RegistryTypeOK
<1>7. QED
    BY <1>4, <1>5, <1>6

\* A change of statuses the trigger has nothing against: no version appears,
\* and one that becomes PUBLISHED or DEPRECATED was checked.
LEMMA StatusStep ==
    ASSUME RegistryInv,
           versionStatus' \in [Versions -> VersionStatuses \ {"VALIDATING"}],
           \A v \in Versions : versionStatus'[v] = "NONE" <=> versionStatus[v] = "NONE",
           \A v \in Versions : versionStatus'[v] \in {"PUBLISHED", "DEPRECATED"} => v \in checked',
           publishing' \in [Publishers -> [version : Versions, intact : BOOLEAN] \cup {None}],
           UNCHANGED <<flowStatus, packageKey, stored, upload, refused>>
    PROVE  RegistryInv'
BY DEF RegistryInv, RegistryTypeOK, PackagesKept, PublishedWasChecked, TriggerNeverRaises

LEMMA CheckStep ==
    ASSUME RegistryInv, NEW p \in Publishers, NEW v \in Versions, CheckPackage(p, v)
    PROVE  RegistryInv'
<1>1. publishing' \in [Publishers -> [version : Versions, intact : BOOLEAN] \cup {None}]
    BY DEF CheckPackage, RegistryInv, RegistryTypeOK
<1>2. QED
    BY <1>1, StatusStep
       DEF CheckPackage, rowVars, RegistryInv, RegistryTypeOK, PublishedWasChecked

\* What the service decides on is the status under the lock, so the trigger has
\* no objection, however old the check of the package is.
LEMMA PublishStep ==
    ASSUME RegistryInv, NEW p \in Publishers, PublishVersion(p)
    PROVE  RegistryInv'
<1> DEFINE check == publishing[p]
           v == check.version
<1> USE DEF RegistryInv
<1>1. /\ check # None
      /\ publishing' = [publishing EXCEPT ![p] = None]
      /\ UNCHANGED <<flowStatus, packageKey, stored, damaged, upload>>
      /\ IF Publishes(check, versionStatus[v])
         THEN /\ SetStatus([w \in {v} |-> "PUBLISHED"])
              /\ checked' = IF check.intact THEN checked \cup {v} ELSE checked
         ELSE UNCHANGED <<versionStatus, refused, checked>>
    BY DEF PublishVersion
<1>2. check \in [version : Versions, intact : BOOLEAN]
    BY <1>1 DEF RegistryTypeOK
<1>3. v \in Versions
    BY <1>2
<1>4. publishing' \in [Publishers -> [version : Versions, intact : BOOLEAN] \cup {None}]
    BY <1>1 DEF RegistryTypeOK
<1> HIDE DEF v, check
<1>5. CASE Publishes(check, versionStatus[v])
  <2>1. check.intact /\ versionStatus[v] \in {"DRAFT", "VALIDATING", "DEPRECATED"}
      BY <1>5 DEF Publishes
  <2>2. MayStep(versionStatus[v], "PUBLISHED")
      BY <2>1 DEF MayStep, GuardFlowVersion
  <2>3. versionStatus' = [versionStatus EXCEPT ![v] = "PUBLISHED"] /\ UNCHANGED refused
    <3>1. /\ SetStatus([w \in {v} |-> "PUBLISHED"])
          /\ RegistryTypeOK
        BY <1>1, <1>5
    <3>2. QED
        BY <1>3, <2>2, <3>1 DEF SetStatus, RegistryTypeOK
  <2>4. checked' = checked \cup {v}
      BY <1>1, <1>5, <2>1
  <2>5. /\ versionStatus' \in [Versions -> VersionStatuses \ {"VALIDATING"}]
        /\ \A w \in Versions : versionStatus'[w] = "NONE" <=> versionStatus[w] = "NONE"
        /\ \A w \in Versions : versionStatus'[w] \in {"PUBLISHED", "DEPRECATED"} => w \in checked'
      BY <1>3, <2>1, <2>3, <2>4 DEF RegistryTypeOK, VersionStatuses, PublishedWasChecked
  <2>6. QED
      BY <1>1, <1>4, <2>3, <2>5, StatusStep
<1>6. CASE ~Publishes(check, versionStatus[v])
    BY <1>1, <1>4, <1>6, StatusStep DEF RegistryTypeOK, PublishedWasChecked
<1>7. QED
    BY <1>5, <1>6

LEMMA ChangeStep ==
    ASSUME RegistryInv, NEW v \in Versions, ChangeVersionStatus(v)
    PROVE  RegistryInv'
<1> USE DEF RegistryInv
<1>1. PICK s \in {"DEPRECATED", "DISABLED"} :
         /\ versionStatus[v] \in {"DRAFT", "VALIDATING", "PUBLISHED", "DEPRECATED"}
         /\ s = "DEPRECATED" => versionStatus[v] = "PUBLISHED"
         /\ SetStatus([w \in {v} |-> s])
    BY DEF ChangeVersionStatus
<1>2. MayStep(versionStatus[v], s)
    BY <1>1 DEF MayStep, GuardFlowVersion
<1>3. versionStatus' = [versionStatus EXCEPT ![v] = s] /\ UNCHANGED refused
    BY <1>1, <1>2 DEF SetStatus, RegistryTypeOK
<1>4. UNCHANGED <<flowStatus, packageKey, stored, upload, publishing, checked>>
    BY DEF ChangeVersionStatus
<1>5. /\ versionStatus' \in [Versions -> VersionStatuses \ {"VALIDATING"}]
      /\ \A w \in Versions : versionStatus'[w] = "NONE" <=> versionStatus[w] = "NONE"
      /\ \A w \in Versions : versionStatus'[w] \in {"PUBLISHED", "DEPRECATED"} => w \in checked'
    BY <1>1, <1>3, <1>4 DEF RegistryTypeOK, VersionStatuses, PublishedWasChecked
<1>6. QED
    BY <1>3, <1>4, <1>5, StatusStep DEF RegistryTypeOK

LEMMA RollbackStep ==
    ASSUME RegistryInv, NEW v \in Versions, RollbackFlow(v)
    PROVE  RegistryInv'
<1> DEFINE W == {v} \cup {x \in Versions : x[1] = v[1] /\ versionStatus[x] = "PUBLISHED"}
           status == [w \in W |-> IF w = v THEN "PUBLISHED" ELSE "DEPRECATED"]
<1> USE DEF RegistryInv
<1>1. /\ versionStatus[v] \in {"DEPRECATED", "PUBLISHED"}
      /\ SetStatus(status)
      /\ UNCHANGED <<flowStatus, packageKey, stored, upload, publishing, checked>>
    BY DEF RollbackFlow
<1>2. \A w \in W : /\ versionStatus[w] \in {"DEPRECATED", "PUBLISHED"}
                   /\ w # v => versionStatus[w] = "PUBLISHED"
    BY <1>1
<1>3. \A w \in DOMAIN status : MayStep(versionStatus[w], status[w])
    BY <1>2 DEF MayStep, GuardFlowVersion
<1>4. /\ UNCHANGED refused
      /\ versionStatus' = [w \in Versions |-> IF w \in W THEN status[w] ELSE versionStatus[w]]
    BY <1>1, <1>3 DEF SetStatus
<1>5. \A w \in W : status[w] \in {"PUBLISHED", "DEPRECATED"}
    OBVIOUS
<1> HIDE DEF W, status
<1>6. /\ versionStatus' \in [Versions -> VersionStatuses \ {"VALIDATING"}]
      /\ \A w \in Versions : versionStatus'[w] = "NONE" <=> versionStatus[w] = "NONE"
      /\ \A w \in Versions : versionStatus'[w] \in {"PUBLISHED", "DEPRECATED"} => w \in checked'
    BY <1>1, <1>2, <1>4, <1>5 DEF RegistryTypeOK, VersionStatuses, PublishedWasChecked
<1>7. QED
    BY <1>1, <1>4, <1>6, StatusStep DEF RegistryTypeOK

LEMMA RegistryStepInv == RegistryInv /\ RegistryStep => RegistryInv'
<1> SUFFICES ASSUME RegistryInv, RegistryStep PROVE RegistryInv'
    OBVIOUS
<1>1. ASSUME NEW s \in Scopes, DisableFlow(s) PROVE RegistryInv'
  <2>1. /\ flowStatus[s] = "ACTIVE"
        /\ flowStatus' = [flowStatus EXCEPT ![s] = "DISABLED"]
        /\ UNCHANGED <<versionStatus, packageKey, stored, upload, publishing, checked, refused>>
      BY <1>1 DEF DisableFlow
  <2>2. RegistryTypeOK'
      BY <2>1 DEF RegistryInv, RegistryTypeOK, Versions
  <2>3. QED
      BY <2>1, <2>2 DEF RegistryInv, PackagesKept, PublishedWasChecked, TriggerNeverRaises
<1>2. ASSUME NEW v \in Versions, Damage(v) PROVE RegistryInv'
    BY <1>2 DEF Damage, rowVars, RegistryInv, RegistryTypeOK, PackagesKept, PublishedWasChecked,
       TriggerNeverRaises
<1>3. QED
    BY <1>1, <1>2, PutStep, InsertStep, FailStep, CheckStep, PublishStep, ChangeStep, RollbackStep
       DEF RegistryStep

\* A crash forgets uploads that had not committed, and harms no committed one.
LEMMA CrashRegistryInv == RegistryInv /\ RegistryCrash => RegistryInv'
<1> SUFFICES ASSUME RegistryInv, RegistryCrash PROVE RegistryInv'
    OBVIOUS
<1>1. \A u \in Uploads : upload'[u] = IF upload[u].at = "IDLE" THEN upload[u]
                                      ELSE [version |-> None, at |-> "ENDED"]
    BY DEF RegistryCrash
<1>2. RegistryTypeOK'
    BY DEF RegistryCrash, RegistryInv, RegistryTypeOK, rowVars
<1>3. QED
    BY <1>1, <1>2
       DEF RegistryCrash, rowVars, RegistryInv, PackagesKept, PublishedWasChecked, TriggerNeverRaises

LEMMA InitFlow == Init => RegistryInv
BY InitRegistryInv DEF Init

LEMMA NextRegistryInv == RegistryInv /\ [Next]_vars => RegistryInv'
<1> SUFFICES ASSUME RegistryInv, [Next]_vars PROVE RegistryInv'
    OBVIOUS
<1>1. CASE UNCHANGED registryVars
    BY <1>1 DEF registryVars, RegistryInv, RegistryTypeOK, PackagesKept, PublishedWasChecked,
       TriggerNeverRaises
<1>2. QED
    BY <1>1, RegistryStepInv, CrashRegistryInv DEF Next, Crash, Resolve, Fetch, vars

\* The package of a version is never lost, whatever uploads, their failures and
\* the lost answers of their COMMITs do to each other (upload_package).
THEOREM PackagesAreKept == Spec => []VersionHasPackage
<1>1. RegistryInv => VersionHasPackage
    BY DEF RegistryInv, PackagesKept, VersionHasPackage
<1>2. QED
    BY <1>1, InitFlow, NextRegistryInv, PTL DEF Spec

\* What runs execute was checked before it was first published (publish_version,
\* rollback_flow).
THEOREM PublishedVersionsWereChecked == Spec => []PublishedWasChecked
<1>1. RegistryInv => PublishedWasChecked
    BY DEF RegistryInv
<1>2. QED
    BY <1>1, InitFlow, NextRegistryInv, PTL DEF Spec

\* The service decides on what it reads under the lock, and never asks the
\* trigger for a transition it refuses (guard_flow_version).
THEOREM TriggerIsNeverNeeded == Spec => []TriggerNeverRaises
<1>1. RegistryInv => TriggerNeverRaises
    BY DEF RegistryInv
<1>2. QED
    BY <1>1, InitFlow, NextRegistryInv, PTL DEF Spec

-----------------------------------------------------------------------------
(* Resolution                                                              *)

\* Rows are not deleted, and appear as drafts only.
LEMMA RowStep ==
    ASSUME RegistryInv, [Next]_vars
    PROVE  \/ \A v \in Versions : versionStatus'[v] = "NONE" <=> versionStatus[v] = "NONE"
           \/ \E v \in Versions :
                 versionStatus[v] = "NONE" /\ versionStatus' = [versionStatus EXCEPT ![v] = "DRAFT"]
<1> DEFINE SameRows == \A v \in Versions : versionStatus'[v] = "NONE" <=> versionStatus[v] = "NONE"
           NewRow == \E v \in Versions :
              versionStatus[v] = "NONE" /\ versionStatus' = [versionStatus EXCEPT ![v] = "DRAFT"]
<1>1. ASSUME UNCHANGED versionStatus PROVE SameRows
    BY <1>1
<1>2. ASSUME NEW u \in Uploads, InsertVersion(u) PROVE NewRow
  <2>1. upload[u].version \in Versions
      BY <1>2 DEF InsertVersion, RegistryInv, PackagesKept
  <2>2. QED
      BY <1>2, <2>1 DEF InsertVersion, Accepted, FirstStatus
<1>3. ASSUME NEW p \in Publishers, PublishVersion(p) PROVE SameRows
  <2> DEFINE v == publishing[p].version
  <2>1. \/ UNCHANGED versionStatus
        \/ /\ versionStatus[v] \in {"DRAFT", "VALIDATING", "DEPRECATED"}
           /\ SetStatus([w \in {v} |-> "PUBLISHED"])
      BY <1>3 DEF PublishVersion, Publishes
  <2> HIDE DEF v
  <2>2. QED
      BY <2>1 DEF SetStatus
<1>4. ASSUME NEW v \in Versions, ChangeVersionStatus(v) PROVE SameRows
    BY <1>4 DEF ChangeVersionStatus, SetStatus
<1>5. ASSUME NEW v \in Versions, RollbackFlow(v) PROVE SameRows
  <2> DEFINE W == {v} \cup {x \in Versions : x[1] = v[1] /\ versionStatus[x] = "PUBLISHED"}
             status == [w \in W |-> IF w = v THEN "PUBLISHED" ELSE "DEPRECATED"]
  <2>1. SetStatus(status) /\ versionStatus[v] \in {"DEPRECATED", "PUBLISHED"}
      BY <1>5 DEF RollbackFlow
  <2>2. \A w \in W : versionStatus[w] # "NONE" /\ status[w] # "NONE"
      BY <2>1
  <2>3. DOMAIN status = W
      OBVIOUS
  <2> HIDE DEF W, status
  <2>4. QED
      BY <2>1, <2>2, <2>3 DEF SetStatus
<1>6. ASSUME RegistryStep PROVE SameRows \/ NewRow
    BY <1>1, <1>2, <1>3, <1>4, <1>5, <1>6
       DEF RegistryStep, PutPackage, UploadFails, DeleteFailedUpload, CheckPackage, DisableFlow, Damage,
           rowVars
<1>7. CASE UNCHANGED registryVars \/ RegistryCrash
    BY <1>1, <1>7 DEF registryVars, RegistryCrash, rowVars
<1>8. QED
    BY <1>6, <1>7 DEF Next, Crash, Resolve, Fetch, vars

\* A number that a binding names keeps standing for the same version, but for a
\* version of the tenant's own that is uploaded under it (get_version_by_key).
THEOREM ResolutionIsStable == Spec => SameResolution
<1>1. RegistryInv /\ [Next]_vars =>
        [\A n \in Numbers :
            \/ Resolved(n)' = Resolved(n)
            \/ versionStatus[<<"TENANT", n>>] = "NONE" /\ versionStatus'[<<"TENANT", n>>] = "DRAFT"
        ]_registryVars
  <2> SUFFICES ASSUME RegistryInv, [Next]_vars, NEW n \in Numbers
               PROVE  \/ Resolved(n)' = Resolved(n)
                      \/ /\ versionStatus[<<"TENANT", n>>] = "NONE"
                         /\ versionStatus'[<<"TENANT", n>>] = "DRAFT"
      OBVIOUS
  <2>1. <<"TENANT", n>> \in Versions
      BY DEF Versions, Scopes
  <2>2. versionStatus \in [Versions -> VersionStatuses \ {"VALIDATING"}]
      BY DEF RegistryInv, RegistryTypeOK
  <2>3. QED
      BY <2>1, <2>2, RowStep DEF Resolved
<1>2. QED
    BY <1>1, InitFlow, NextRegistryInv, PTL DEF Spec, SameResolution

-----------------------------------------------------------------------------
(* The cache                                                               *)

Orphans == "orphan" \in faults

\* While no thread has outlived its load, the lock does what it is for: one load
\* at a time replaces a directory, and only one without the marker.
Orderly ==
    /\ \A l \in Loads :
          /\ thread[l] # "NONE" => load[l].at = "REPLACE"
          /\ thread[l] # "LOST"
          /\ thread[l] = "RENAME" => files[load[l].dir] = {}
          /\ load[l].at \in {"FETCH", "REPLACE"} => "marker" \notin files[load[l].dir]
    /\ \A l, k \in Loads :
          /\ load[l].at \in {"FETCH", "REPLACE"} /\ load[k].at \in {"FETCH", "REPLACE"}
          /\ load[l].dir = load[k].dir
          => l = k
    /\ "rot" \notin faults => \A d \in Versions : "marker" \in files[d] => files[d] = C!Files

\* A load that may still need the package is about a version with a row.
LoadsHaveRows ==
    \A l \in Loads : load[l].dir # None => versionStatus[load[l].dir] # "NONE"

CacheInv ==
    /\ C!CacheTypeOK
    /\ \A l \in Loads : thread[l] # "NONE" => load[l].at \in {"REPLACE", "ENDED"}
    /\ ~Orphans => Orderly
    /\ LoadsHaveRows
    /\ C!ValidIsWhole /\ C!ReadersUndisturbed /\ RunsCanLoad

LEMMA InitCacheInv == Init => CacheInv
BY NoneAssumption
   DEF Init, C!CacheInit, CacheInv, C!CacheTypeOK, Orderly, LoadsHaveRows, C!ValidIsWhole, C!CacheIsValid,
       C!ReadersUndisturbed, RunsCanLoad, C!Files

\* A load gets the lock when no other has it, and reads only what has the marker.
LEMMA CheckCacheStep ==
    ASSUME RegistryInv, CacheInv, UNCHANGED registryVars, NEW l \in Loads, C!CheckCache(l)
    PROVE  CacheInv'
<1> USE NoneAssumption DEF CacheInv, C!CacheTypeOK, registryVars, Orphans, C!At, C!Placed, C!EndThread, C!CheckCache, C!CacheIsValid, C!Locked, C!Files
<1>1. C!CacheTypeOK' /\ \A k \in Loads : thread'[k] # "NONE" => load'[k].at \in {"REPLACE", "ENDED"}
    OBVIOUS
<1>2. ~Orphans' => Orderly'
    BY <1>1 DEF Orderly
<1>3. LoadsHaveRows'
    BY <1>1 DEF LoadsHaveRows
<1>4. C!ValidIsWhole'
    BY <1>1 DEF C!ValidIsWhole, C!CacheIsValid, Orderly
<1>5. C!ReadersUndisturbed'
    BY <1>1 DEF C!ReadersUndisturbed, Orderly
<1>6. RunsCanLoad'
    BY <1>1 DEF RunsCanLoad, Orderly
<1>7. QED
    BY <1>1, <1>2, <1>3, <1>4, <1>5, <1>6

\* ReadFlow touches neither threads nor files.
LEMMA ReadStep ==
    ASSUME RegistryInv, CacheInv, UNCHANGED registryVars, NEW l \in Loads, C!ReadFlow(l)
    PROVE  CacheInv'
<1> USE NoneAssumption DEF CacheInv, C!CacheTypeOK, registryVars, Orphans, C!At, C!Placed, C!EndThread, C!ReadFlow, C!Files
<1>1. C!CacheTypeOK' /\ \A k \in Loads : thread'[k] # "NONE" => load'[k].at \in {"REPLACE", "ENDED"}
    OBVIOUS
<1>2. ~Orphans' => Orderly'
    BY <1>1 DEF Orderly
<1>3. LoadsHaveRows'
    BY <1>1 DEF LoadsHaveRows
<1>4. C!ValidIsWhole'
    BY <1>1 DEF C!ValidIsWhole, C!CacheIsValid, Orderly
<1>5. C!ReadersUndisturbed'
    BY <1>1 DEF C!ReadersUndisturbed, Orderly
<1>6. RunsCanLoad'
    BY <1>1 DEF RunsCanLoad, C!ReadersUndisturbed
<1>7. QED
    BY <1>1, <1>2, <1>3, <1>4, <1>5, <1>6

\* CancelLoad leaves its thread at work, on record as an orphan.
LEMMA CancelStep ==
    ASSUME RegistryInv, CacheInv, UNCHANGED registryVars, NEW l \in Loads, C!CancelLoad(l)
    PROVE  CacheInv'
<1> USE NoneAssumption DEF CacheInv, C!CacheTypeOK, registryVars, Orphans, C!At, C!Placed, C!EndThread, C!CancelLoad
<1>1. C!CacheTypeOK' /\ \A k \in Loads : thread'[k] # "NONE" => load'[k].at \in {"REPLACE", "ENDED"}
    OBVIOUS
<1>2. ~Orphans' => Orderly'
    BY <1>1 DEF Orderly
<1>3. LoadsHaveRows'
    BY <1>1 DEF LoadsHaveRows
<1>4. C!ValidIsWhole'
    BY <1>1 DEF C!ValidIsWhole, C!CacheIsValid, Orderly
<1>5. C!ReadersUndisturbed'
    BY <1>1 DEF C!ReadersUndisturbed, Orderly
<1>6. RunsCanLoad'
    BY <1>1 DEF RunsCanLoad, Orderly
<1>7. QED
    BY <1>1, <1>2, <1>3, <1>4, <1>5, <1>6

\* Unavailable gives up the lock and touches neither threads nor files.
LEMMA UnavailableStep ==
    ASSUME RegistryInv, CacheInv, UNCHANGED registryVars, NEW l \in Loads, C!Unavailable(l)
    PROVE  CacheInv'
<1> USE NoneAssumption DEF CacheInv, C!CacheTypeOK, registryVars, Orphans, C!At, C!Placed, C!EndThread, C!Unavailable
<1>1. C!CacheTypeOK' /\ \A k \in Loads : thread'[k] # "NONE" => load'[k].at \in {"REPLACE", "ENDED"}
    OBVIOUS
<1>2. ~Orphans' => Orderly'
    BY <1>1 DEF Orderly
<1>3. LoadsHaveRows'
    BY <1>1 DEF LoadsHaveRows
<1>4. C!ValidIsWhole'
    BY <1>1 DEF C!ValidIsWhole, C!CacheIsValid, Orderly
<1>5. C!ReadersUndisturbed'
    BY <1>1 DEF C!ReadersUndisturbed, Orderly
<1>6. RunsCanLoad'
    BY <1>1 DEF RunsCanLoad, Orderly
<1>7. QED
    BY <1>1, <1>2, <1>3, <1>4, <1>5, <1>6

\* LookForOld: a thread that goes to RENAME has seen no directory.
LEMMA LookStep ==
    ASSUME RegistryInv, CacheInv, UNCHANGED registryVars, NEW l \in Loads, C!LookForOld(l)
    PROVE  CacheInv'
<1> USE NoneAssumption DEF CacheInv, C!CacheTypeOK, registryVars, Orphans, C!At, C!Placed, C!EndThread, C!LookForOld
<1>1. C!CacheTypeOK' /\ \A k \in Loads : thread'[k] # "NONE" => load'[k].at \in {"REPLACE", "ENDED"}
    OBVIOUS
<1>2. ~Orphans' => Orderly'
    BY <1>1 DEF Orderly
<1>3. LoadsHaveRows'
    BY <1>1 DEF LoadsHaveRows
<1>4. C!ValidIsWhole'
    BY <1>1 DEF C!ValidIsWhole, C!CacheIsValid, Orderly
<1>5. C!ReadersUndisturbed'
    BY <1>1 DEF C!ReadersUndisturbed, Orderly
<1>6. RunsCanLoad'
    BY <1>1 DEF RunsCanLoad, Orderly
<1>7. QED
    BY <1>1, <1>2, <1>3, <1>4, <1>5, <1>6

\* RemoveFails only ends a thread that found nothing left to remove.
LEMMA LostStep ==
    ASSUME RegistryInv, CacheInv, UNCHANGED registryVars, NEW l \in Loads, C!RemoveFails(l)
    PROVE  CacheInv'
<1> USE NoneAssumption DEF CacheInv, C!CacheTypeOK, registryVars, Orphans, C!At, C!Placed, C!EndThread, C!RemoveFails
<1>1. C!CacheTypeOK' /\ \A k \in Loads : thread'[k] # "NONE" => load'[k].at \in {"REPLACE", "ENDED"}
    OBVIOUS
<1>2. ~Orphans' => Orderly'
    BY <1>1 DEF Orderly
<1>3. LoadsHaveRows'
    BY <1>1 DEF LoadsHaveRows
<1>4. C!ValidIsWhole'
    BY <1>1 DEF C!ValidIsWhole, C!CacheIsValid, Orderly
<1>5. C!ReadersUndisturbed'
    BY <1>1 DEF C!ReadersUndisturbed, Orderly
<1>6. RunsCanLoad'
    BY <1>1 DEF RunsCanLoad, Orderly
<1>7. QED
    BY <1>1, <1>2, <1>3, <1>4, <1>5, <1>6

\* Rename puts a whole directory where there was none, or fails.
LEMMA RenameStep ==
    ASSUME RegistryInv, CacheInv, UNCHANGED registryVars, NEW l \in Loads, C!Rename(l)
    PROVE  CacheInv'
<1> USE NoneAssumption DEF CacheInv, C!CacheTypeOK, registryVars, Orphans, C!At, C!Placed, C!EndThread, C!Rename, C!Installed, C!Files
<1>0. /\ thread[l] = "RENAME" /\ load[l].at \in {"REPLACE", "ENDED"} /\ load[l].dir \in Versions
      /\ thread' = [thread EXCEPT ![l] = "NONE"]
      /\ load' \in {[load EXCEPT ![l] = [dir |-> load[l].dir, at |-> "READ"]],
                   [load EXCEPT ![l] = [dir |-> load[l].dir, at |-> "FAILED"]],
                   [load EXCEPT ![l] = [dir |-> None, at |-> load[l].at]]}
      /\ load[l].at # "REPLACE" => load' = [load EXCEPT ![l] = [dir |-> None, at |-> load[l].at]]
      /\ files' \in {files, [files EXCEPT ![load[l].dir] = {"marker", "flow"}]}
      /\ UNCHANGED faults
    OBVIOUS
<1>1. C!CacheTypeOK' /\ \A k \in Loads : thread'[k] # "NONE" => load'[k].at \in {"REPLACE", "ENDED"}
    BY <1>0
<1>2. ~Orphans' => Orderly'
  <2> SUFFICES ASSUME ~Orphans PROVE Orderly'
      OBVIOUS
  <2> DEFINE d == load[l].dir
  <2>1. /\ load[l].at = "REPLACE" /\ d \in Versions /\ files[d] = {}
        /\ \A k \in Loads \ {l} : load[k].at \in {"FETCH", "REPLACE"} => load[k].dir # d
      BY DEF Orderly
  <2>2. /\ load' = [load EXCEPT ![l].at = "READ"]
        /\ thread' = [thread EXCEPT ![l] = "NONE"]
        /\ files' = [files EXCEPT ![d] = {"marker", "flow"}]
      BY <2>1
  <2> HIDE DEF d
  <2>3. \A k \in Loads : thread[k] = "RENAME" => load[k].at = "REPLACE"
      BY DEF Orderly
  <2>4. QED
      BY <2>1, <2>2, <2>3 DEF Orderly, d
<1>3. LoadsHaveRows'
    BY <1>1 DEF LoadsHaveRows
<1>4. C!ValidIsWhole'
  <2>1. \A k \in Loads : thread[k] = "REMOVE" => thread'[k] = "REMOVE" /\ load'[k] = load[k]
      BY <1>0
  <2>2. \A d \in Versions : files'[d] = files[d] \/ files'[d] = {"marker", "flow"}
      BY <1>0
  <2>3. UNCHANGED faults
      BY <1>0
  <2>4. C!ValidIsWhole
      OBVIOUS
  <2>5. QED
      BY ONLY <2>1, <2>2, <2>3, <2>4 DEF C!ValidIsWhole, C!CacheIsValid, C!Files
<1>5. C!ReadersUndisturbed'
    BY <1>1 DEF C!ReadersUndisturbed, Orderly
<1>6. RunsCanLoad'
    BY <1>1 DEF RunsCanLoad, Orderly
<1>7. QED
    BY <1>1, <1>2, <1>3, <1>4, <1>5, <1>6

\* A removal that breaks off, of a directory without the marker, leaves no other.
LEMMA ThreadBreaksStep ==
    ASSUME RegistryInv, CacheInv, UNCHANGED registryVars, NEW l \in Loads, C!ThreadBreaks(l)
    PROVE  CacheInv'
<1> USE NoneAssumption DEF CacheInv, C!CacheTypeOK, registryVars, Orphans, C!At, C!Placed, C!EndThread, C!ThreadBreaks
<1>1. C!CacheTypeOK' /\ \A k \in Loads : thread'[k] # "NONE" => load'[k].at \in {"REPLACE", "ENDED"}
    OBVIOUS
<1>2. ~Orphans' => Orderly'
    BY <1>1 DEF Orderly
<1>3. LoadsHaveRows'
    BY <1>1 DEF LoadsHaveRows
<1>4. C!ValidIsWhole'
    BY <1>1 DEF C!ValidIsWhole, C!CacheIsValid, Orderly
<1>5. C!ReadersUndisturbed'
    BY <1>1 DEF C!ReadersUndisturbed, Orderly
<1>6. RunsCanLoad'
    BY <1>1 DEF RunsCanLoad, Orderly
<1>7. QED
    BY <1>1, <1>2, <1>3, <1>4, <1>5, <1>6

\* Decay is on record: as rot, when what was extracted goes and the marker stays.
LEMMA DecayStep ==
    ASSUME RegistryInv, CacheInv, UNCHANGED registryVars, NEW d \in Versions, NEW f \in C!Files, C!Decay(d, f)
    PROVE  CacheInv'
<1> USE NoneAssumption DEF CacheInv, C!CacheTypeOK, registryVars, Orphans, C!At, C!Placed, C!EndThread, C!Decay, C!Files
<1>1. C!CacheTypeOK' /\ \A k \in Loads : thread'[k] # "NONE" => load'[k].at \in {"REPLACE", "ENDED"}
    OBVIOUS
<1>2. ~Orphans' => Orderly'
    BY <1>1 DEF Orderly
<1>3. LoadsHaveRows'
    BY <1>1 DEF LoadsHaveRows
<1>4. C!ValidIsWhole'
    BY <1>1 DEF C!ValidIsWhole, C!CacheIsValid, Orderly
<1>5. C!ReadersUndisturbed'
    BY <1>1 DEF C!ReadersUndisturbed, Orderly
<1>6. RunsCanLoad'
    BY <1>1 DEF RunsCanLoad, Orderly
<1>7. QED
    BY <1>1, <1>2, <1>3, <1>4, <1>5, <1>6

\* Fetch starts a thread beside a directory that was found invalid.
LEMMA FetchStep ==
    ASSUME RegistryInv, CacheInv, UNCHANGED registryVars, NEW l \in Loads, Fetch(l)
    PROVE  CacheInv'
<1> USE NoneAssumption DEF CacheInv, C!CacheTypeOK, registryVars, Orphans, C!At, C!Placed, C!EndThread, Fetch, C!Fetch
<1>1. C!CacheTypeOK' /\ \A k \in Loads : thread'[k] # "NONE" => load'[k].at \in {"REPLACE", "ENDED"}
    OBVIOUS
<1>2. ~Orphans' => Orderly'
  <2> SUFFICES ASSUME ~Orphans PROVE Orderly'
      OBVIOUS
  <2>1. /\ load[l].at = "FETCH" /\ UNCHANGED files /\ load'[l].dir = load[l].dir
        /\ \/ load'[l].at = "REPLACE" /\ thread'[l] = "UNPACKED"
           \/ load'[l].at = "FAILED" /\ thread'[l] = thread[l]
        /\ \A k \in Loads \ {l} : load'[k] = load[k] /\ thread'[k] = thread[k]
      OBVIOUS
  <2>2. \A k \in Loads : load'[k].dir = load[k].dir
      BY <2>1
  <2>3. \A k \in Loads : load'[k].at \in {"FETCH", "REPLACE"} => load[k].at \in {"FETCH", "REPLACE"}
      BY <2>1
  <2>4. QED
      BY <2>1, <2>2, <2>3 DEF Orderly
<1>3. LoadsHaveRows'
    BY <1>1 DEF LoadsHaveRows
<1>4. C!ValidIsWhole'
    BY <1>1 DEF C!ValidIsWhole, C!CacheIsValid, Orderly
<1>5. C!ReadersUndisturbed'
    BY <1>1 DEF C!ReadersUndisturbed, Orderly
<1>6. RunsCanLoad'
  <2>1. /\ packageKey[load[l].dir] \in stored
        /\ load'[l].at = "FAILED" => packageKey[load[l].dir] \notin stored \ damaged
        /\ load'[l].dir = load[l].dir /\ \A k \in Loads \ {l} : load'[k] = load[k]
      BY DEF LoadsHaveRows, RegistryInv, PackagesKept
  <2>2. QED
      BY <2>1 DEF RunsCanLoad
<1>7. QED
    BY <1>1, <1>2, <1>3, <1>4, <1>5, <1>6

\* Resolve begins a load and leaves the directories alone.
LEMMA ResolveStep ==
    ASSUME RegistryInv, CacheInv, UNCHANGED registryVars, NEW l \in Loads, NEW n \in Numbers, Resolve(l, n)
    PROVE  CacheInv'
<1> USE NoneAssumption DEF CacheInv, C!CacheTypeOK, registryVars, Orphans, C!At, C!Placed, C!EndThread, Resolve, C!BeginLoad
<1>0. Resolved(n) \in Versions /\ versionStatus[Resolved(n)] # "NONE"
    BY DEF Resolved, Versions, Scopes, Executable
<1>1. C!CacheTypeOK' /\ \A k \in Loads : thread'[k] # "NONE" => load'[k].at \in {"REPLACE", "ENDED"}
    BY <1>0
<1>2. ~Orphans' => Orderly'
    BY <1>1 DEF Orderly
<1>3. LoadsHaveRows'
    BY <1>0, <1>1 DEF LoadsHaveRows
<1>4. C!ValidIsWhole'
    BY <1>1 DEF C!ValidIsWhole, C!CacheIsValid, Orderly
<1>5. C!ReadersUndisturbed'
    BY <1>1 DEF C!ReadersUndisturbed, Orderly
<1>6. RunsCanLoad'
    BY <1>1 DEF RunsCanLoad, Orderly
<1>7. QED
    BY <1>1, <1>2, <1>3, <1>4, <1>5, <1>6

\* A thread removes a directory alone, unless one outlived its load.
LEMMA RemoveStep ==
    ASSUME RegistryInv, CacheInv, UNCHANGED registryVars, NEW l \in Loads, C!RemoveOld(l)
    PROVE  CacheInv'
<1> DEFINE d == load[l].dir
           Others == {k \in Loads \ {l} : thread[k] = "REMOVE" /\ load[k].dir = d}
<1> USE NoneAssumption DEF CacheInv, C!CacheTypeOK, registryVars, Orphans
<1>1. /\ thread[l] = "REMOVE" /\ load[l].at \in {"REPLACE", "ENDED"} /\ d \in Versions
      /\ UNCHANGED faults
    BY DEF C!RemoveOld
<1>2. ASSUME NEW f \in files[d],
             files' = [files EXCEPT ![d] = @ \ {f}],
             thread' = IF files'[d] # {} THEN thread
                       ELSE [k \in Loads |-> IF k = l THEN "RENAME"
                                             ELSE IF k \in Others THEN "LOST" ELSE thread[k]],
             UNCHANGED load
      PROVE  CacheInv'
  <2>1. /\ files'[d] \subseteq files[d] /\ \A e \in Versions \ {d} : files'[e] = files[e]
        /\ files' \in [Versions -> SUBSET C!Files]
      BY <1>1, <1>2
  <2>2. \A k \in Loads : \/ thread'[k] = thread[k]
                         \/ /\ files'[d] = {} /\ load[k].dir = d /\ thread[k] = "REMOVE"
                            /\ thread'[k] = IF k = l THEN "RENAME" ELSE "LOST"
      BY <1>1, <1>2
  <2>3. thread' \in [Loads -> {"NONE", "UNPACKED", "REMOVE", "LOST", "RENAME"}]
      BY <1>2
  <2> HIDE DEF d, Others
  <2>4. C!CacheTypeOK' /\ \A k \in Loads : thread'[k] # "NONE" => load'[k].at \in {"REPLACE", "ENDED"}
      BY <1>1, <1>2, <2>1, <2>2, <2>3
  <2>5. ~Orphans' => Orderly'
    <3> SUFFICES ASSUME ~Orphans PROVE Orderly'
        BY <1>1
    <3>1. \A k \in Loads : thread[k] # "NONE" /\ load[k].dir = d => k = l
        BY <1>1 DEF Orderly, d
    <3>2. "marker" \notin files[d]
        BY <1>1 DEF Orderly, d
    <3>3. \A k \in Loads : thread'[k] # "LOST" /\ (thread'[k] # "NONE" => thread[k] # "NONE")
        BY <2>2, <3>1 DEF Orderly
    <3>4. \A k \in Loads : thread'[k] = "RENAME" => files'[load[k].dir] = {}
      <4> SUFFICES ASSUME NEW k \in Loads, thread'[k] = "RENAME" PROVE files'[load[k].dir] = {}
          OBVIOUS
      <4>1. CASE thread'[k] = thread[k]
        <5>1. files[load[k].dir] = {} /\ load[k].dir \in Versions
            BY <4>1 DEF Orderly
        <5>2. QED
            BY <2>1, <5>1
      <4>2. CASE thread'[k] # thread[k]
          BY <2>2, <4>2
      <4>3. QED
          BY <4>1, <4>2
    <3>5. \A k \in Loads : load[k].at \in {"FETCH", "REPLACE"} =>
              load[k].dir \in Versions /\ "marker" \notin files'[load[k].dir]
        BY <2>1 DEF Orderly
    <3>6. "rot" \notin faults => \A e \in Versions : "marker" \in files'[e] => files'[e] = C!Files
        BY <2>1, <3>2 DEF Orderly
    <3>7. QED
        BY <1>1, <1>2, <3>3, <3>4, <3>5, <3>6 DEF Orderly
  <2>6. LoadsHaveRows'
      BY <1>2 DEF LoadsHaveRows
  <2>7. C!ValidIsWhole'
    <3> SUFFICES ASSUME "rot" \notin faults, ~({"orphan", "torn"} \subseteq faults),
                        NEW e \in Versions, "marker" \in files'[e]
                 PROVE  \/ files'[e] = C!Files
                        \/ \E k \in Loads : load[k].dir = e /\ thread'[k] = "REMOVE"
        BY <1>1, <1>2 DEF C!ValidIsWhole, C!CacheIsValid
    <3>1. CASE e = d
        BY <1>1, <1>2, <3>1 DEF d
    <3>2. CASE e # d
        BY <1>1, <2>1, <2>2, <3>2 DEF C!ValidIsWhole, C!CacheIsValid
    <3>3. QED
        BY <3>1, <3>2
  <2>8. C!ReadersUndisturbed'
      BY <1>1, <1>2, <2>1 DEF C!ReadersUndisturbed, Orderly, C!Files, d
  <2>9. RunsCanLoad'
      BY <1>1, <1>2 DEF RunsCanLoad
  <2>10. QED
      BY <2>4, <2>5, <2>6, <2>7, <2>8, <2>9
<1>3. ASSUME Others # {}, C!EndThread(l, "FAILED"), UNCHANGED files
      PROVE  CacheInv'
  <2>1. Orphans
      BY <1>1, <1>3 DEF Orderly
  <2>2. /\ thread' = [thread EXCEPT ![l] = "NONE"]
        /\ load' \in {[load EXCEPT ![l] = [dir |-> @.dir, at |-> "FAILED"]], [load EXCEPT ![l].dir = None]}
        /\ load[l].at # "REPLACE" => load' = [load EXCEPT ![l].dir = None]
        /\ load[l].at = "REPLACE" => load' = [load EXCEPT ![l] = [dir |-> @.dir, at |-> "FAILED"]]
      BY <1>3 DEF C!EndThread, C!Placed
  <2> HIDE DEF d, Others
  <2>3. C!CacheTypeOK' /\ \A k \in Loads : thread'[k] # "NONE" => load'[k].at \in {"REPLACE", "ENDED"}
      BY <1>1, <1>3, <2>2
  <2>4. LoadsHaveRows'
      BY <1>1, <2>2 DEF LoadsHaveRows
  <2>5. C!ValidIsWhole'
    <3>1. PICK k \in Loads : k # l /\ thread[k] = "REMOVE" /\ load[k].dir = d
        BY <1>3 DEF Others
    <3>2. k # l /\ thread'[k] = "REMOVE" /\ load'[k].dir = d
        BY <2>2, <3>1
    <3>3. \A j \in Loads \ {l} : thread'[j] = thread[j] /\ load'[j].dir = load[j].dir
        BY <2>2
    <3>4. QED
        BY <1>1, <1>3, <3>2, <3>3 DEF C!ValidIsWhole, C!CacheIsValid, d
  <2>6. C!ReadersUndisturbed' /\ RunsCanLoad' /\ (~Orphans' => Orderly')
      BY <1>1, <2>1 DEF C!ReadersUndisturbed, RunsCanLoad
  <2>7. QED
      BY <2>3, <2>4, <2>5, <2>6
<1>4. QED
    BY <1>2, <1>3 DEF C!RemoveOld

\* A crash ends loads and threads alike, and leaves what is in the directories.
LEMMA CrashCacheInv ==
    ASSUME RegistryInv, CacheInv, Crash
    PROVE  CacheInv'
<1> USE NoneAssumption DEF CacheInv, C!CacheTypeOK, Orphans
<1>1. /\ \A l \in Loads : thread'[l] = "NONE"
      /\ \A l \in Loads : \/ load'[l] = load[l] /\ load[l].at \in {"IDLE", "FAILED", "UNAVAILABLE"}
                          \/ load'[l] = [dir |-> None, at |-> "ENDED"]
      /\ UNCHANGED <<files, versionStatus, packageKey, damaged>>
      /\ faults \subseteq faults' /\ faults' \subseteq faults \cup {"torn"}
      /\ (\E l \in Loads : thread[l] = "REMOVE") => "torn" \in faults'
    BY DEF Crash, C!CacheCrash, RegistryCrash, rowVars
<1>2. C!CacheTypeOK'
    BY <1>1 DEF Crash, C!CacheCrash
<1>3. ~Orphans' => Orderly'
    BY <1>1 DEF Orderly
<1>4. LoadsHaveRows'
    BY <1>1 DEF LoadsHaveRows
<1>5. C!ValidIsWhole'
    BY <1>1 DEF C!ValidIsWhole, C!CacheIsValid, Orderly
<1>6. C!ReadersUndisturbed' /\ RunsCanLoad'
    BY <1>1 DEF C!ReadersUndisturbed, RunsCanLoad
<1>7. QED
    BY <1>1, <1>2, <1>3, <1>4, <1>5, <1>6

\* What the registry does behind a load's back: rows get no other package, and
\* what is damaged stays so.
LEMMA RegistryKeepsLoads ==
    ASSUME RegistryInv, CacheInv, RegistryStep, UNCHANGED cacheVars
    PROVE  CacheInv'
<1>1. \A v \in Versions : versionStatus[v] # "NONE" => versionStatus'[v] # "NONE"
  <2>1. [Next]_vars
      BY DEF Next
  <2>2. versionStatus \in [Versions -> VersionStatuses \ {"VALIDATING"}]
      BY DEF RegistryInv, RegistryTypeOK
  <2>3. QED
      BY <2>1, <2>2, RowStep
<1>2. \A v \in Versions : versionStatus[v] # "NONE" => packageKey'[v] = packageKey[v]
  <2>1. ASSUME NEW u \in Uploads, InsertVersion(u), NEW v \in Versions, versionStatus[v] # "NONE"
        PROVE  packageKey'[v] = packageKey[v]
      BY <2>1 DEF InsertVersion, Accepted, RegistryInv, PackagesKept
  <2>2. (\E u \in Uploads : InsertVersion(u)) \/ UNCHANGED packageKey
      BY DEF RegistryStep, PutPackage, UploadFails, DeleteFailedUpload, CheckPackage, PublishVersion,
         ChangeVersionStatus, RollbackFlow, DisableFlow, Damage, rowVars
  <2>3. QED
      BY <2>1, <2>2
<1>3. damaged \subseteq damaged'
    BY DEF RegistryStep, PutPackage, InsertVersion, UploadFails, DeleteFailedUpload, CheckPackage,
       PublishVersion, ChangeVersionStatus, RollbackFlow, DisableFlow, Damage, rowVars
<1>4. \A l \in Loads : load[l].dir \in Versions \cup {None}
    BY DEF CacheInv, C!CacheTypeOK
<1>5. LoadsHaveRows'
    BY <1>1, <1>4 DEF CacheInv, LoadsHaveRows, cacheVars
<1>6. RunsCanLoad'
  <2>1. ASSUME NEW l \in Loads, load[l].at = "FAILED" PROVE packageKey'[load[l].dir] = packageKey[load[l].dir]
      BY <1>2, <2>1, NoneAssumption DEF CacheInv, LoadsHaveRows, C!CacheTypeOK
  <2>2. QED
      BY <1>3, <2>1 DEF CacheInv, RunsCanLoad, cacheVars
<1>7. C!CacheTypeOK' /\ C!ValidIsWhole' /\ C!ReadersUndisturbed' /\ (~Orphans' => Orderly')
    BY DEF CacheInv, C!CacheTypeOK, C!ValidIsWhole, C!CacheIsValid, C!ReadersUndisturbed, Orderly,
       Orphans, cacheVars
<1>8. QED
    BY <1>5, <1>6, <1>7 DEF CacheInv, cacheVars

LEMMA NextCacheInv == RegistryInv /\ CacheInv /\ [Next]_vars => CacheInv'
<1> SUFFICES ASSUME RegistryInv, CacheInv, [Next]_vars PROVE CacheInv'
    OBVIOUS
<1>1. CASE C!CacheStep /\ UNCHANGED registryVars
    BY <1>1, CheckCacheStep, ReadStep, UnavailableStep, CancelStep, LookStep, RemoveStep, LostStep,
       RenameStep, ThreadBreaksStep, DecayStep
       DEF C!CacheStep
<1>2. ASSUME NEW l \in Loads, Fetch(l) PROVE CacheInv'
    BY <1>2, FetchStep DEF Fetch
<1>3. ASSUME NEW l \in Loads, NEW n \in Numbers, Resolve(l, n) PROVE CacheInv'
    BY <1>3, ResolveStep DEF Resolve
<1>4. CASE UNCHANGED vars
    BY <1>4 DEF vars, registryVars, cacheVars, CacheInv, C!CacheTypeOK, C!ValidIsWhole, C!CacheIsValid,
       C!ReadersUndisturbed, RunsCanLoad, LoadsHaveRows, Orderly, Orphans
<1>5. QED
    BY <1>1, <1>2, <1>3, <1>4, RegistryKeepsLoads, CrashCacheInv DEF Next

\* Every reachable state is well typed, whatever the constants are.
THEOREM FlowTypeCorrect == Spec => []TypeOK
<1>1. RegistryInv /\ CacheInv => TypeOK
    BY DEF RegistryInv, CacheInv, TypeOK
<1>2. QED
    BY <1>1, InitFlow, InitCacheInv, NextRegistryInv, NextCacheInv, PTL DEF Spec

\* Neither racing loads nor crashes nor failing disk calls leave a cache that
\* passes for valid and is not whole (_cache_is_valid, _replace_cache); only a
\* removal broken off by a thread that outlived its load does, or a disk that
\* loses what was extracted, for any number of loads and directories.
THEOREM ValidCachesAreWhole == Spec => []ValidIsWhole
<1>1. CacheInv => ValidIsWhole
    BY DEF CacheInv, ValidIsWhole
<1>2. QED
    BY <1>1, InitFlow, InitCacheInv, NextRegistryInv, NextCacheInv, PTL DEF Spec

\* The lock of a directory keeps those who replace it from those who read it,
\* although reading is outside the lock (load, _ensure_cached).
THEOREM ReadersAreUndisturbed == Spec => []ReadersUndisturbed
<1>1. CacheInv => ReadersUndisturbed
    BY DEF CacheInv, ReadersUndisturbed
<1>2. QED
    BY <1>1, InitFlow, InitCacheInv, NextRegistryInv, NextCacheInv, PTL DEF Spec

\* A load finds its version's content wrong or gone only after damage or by a
\* thread that outlived its load, whatever the registry does after the version
\* was resolved (FlowVersionResolver, load). Of an outage it says nothing.
THEOREM RunsLoadTheirVersion == Spec => []RunsCanLoad
<1>1. CacheInv => RunsCanLoad
    BY DEF CacheInv
<1>2. QED
    BY <1>1, InitFlow, InitCacheInv, NextRegistryInv, NextCacheInv, PTL DEF Spec
=============================================================================
