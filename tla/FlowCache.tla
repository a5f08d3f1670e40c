------------------------------ MODULE FlowCache ------------------------------
(***************************************************************************)
(* The engine's cache of unpacked packages (runtime/loader.py).  A load    *)
(* holds the lock of its directory while it checks it and, if need be,     *)
(* fetches the package and has a thread replace the directory.  Cancelling *)
(* a load releases the lock but does not stop its thread; a crash stops    *)
(* everything and leaves the directories as they are.                      *)
(***************************************************************************)
EXTENDS Naturals, FiniteSets

CONSTANTS
    Loads,          \* bound: calls of load
    Directories,    \* one for each flow, version and checksum
    Nowhere

VARIABLES
    load,           \* the directory each load is about, and how far it is
    thread,         \* how far the thread that replaces the directory for it is
    files,          \* what is in each directory; {}: it does not exist
    faults          \* history: "orphan" once a load was cancelled while its thread
                    \* was at work, "torn" once a removal broke off half way,
                    \* "decay" once a marker was lost, "rot" once what was
                    \* extracted was lost beneath its marker

cacheVars == <<load, thread, files, faults>>

\* The marker is package.zip and .ready, of which both are needed.
Files == {"marker", "flow"}

CacheInit ==
    /\ load = [l \in Loads |-> [dir |-> Nowhere, at |-> "IDLE"]]
    /\ thread = [l \in Loads |-> "NONE"]
    /\ files = [d \in Directories |-> {}]
    /\ faults = {}

\* A load that is over forgets its directory, unless what it found there failed it.
Placed(l, place) ==
    [dir |-> IF place \in {"ENDED", "UNAVAILABLE"} THEN Nowhere ELSE load[l].dir, at |-> place]

At(l, place) == load' = [load EXCEPT ![l] = Placed(l, place)]

\* _cache_is_valid looks at the archive and the marker, not at what is extracted.
CacheIsValid(d) == "marker" \in files[d]

FaultyLocked(d) == FALSE

Locked(d) == \E l \in Loads : load[l].dir = d /\ load[l].at \in {"FETCH", "REPLACE"}

-----------------------------------------------------------------------------
(* load                                                                    *)

BeginLoad(l, d) ==
    /\ load[l].at = "IDLE"
    /\ load' = [load EXCEPT ![l] = [dir |-> d, at |-> "WAIT"]]
    /\ UNCHANGED <<thread, files, faults>>

\* A valid directory is used once the lock is released.
CheckCache(l) ==
    /\ load[l].at = "WAIT" /\ ~Locked(load[l].dir)
    /\ At(l, IF CacheIsValid(load[l].dir) THEN "READ" ELSE "FETCH")
    /\ UNCHANGED <<thread, files, faults>>

\* The package arrives and its checksum, content and identity are checked; then
\* a thread unpacks it beside the directory. No package may arrive at all, or
\* not one for this engine: Unavailable.
Fetch(l, intact) ==
    /\ load[l].at = "FETCH"
    /\ IF intact
       THEN At(l, "REPLACE") /\ thread' = [thread EXCEPT ![l] = "UNPACKED"]
       ELSE At(l, "FAILED") /\ UNCHANGED thread
    /\ UNCHANGED <<files, faults>>

\* manifest, selectors and flow.py are read outside the lock.
ReadFlow(l) ==
    /\ load[l].at = "READ"
    /\ At(l, IF "flow" \in files[load[l].dir] THEN "ENDED" ELSE "FAILED")
    /\ UNCHANGED <<thread, files, faults>>

\* The cache cannot be read, the download of an intact package fails, the
\* package asks for a newer engine, or its flow.py does not import.
Unavailable(l) ==
    /\ load[l].at \in {"WAIT", "FETCH", "READ"}
    /\ load[l].at = "WAIT" => ~Locked(load[l].dir)
    /\ At(l, "UNAVAILABLE")
    /\ UNCHANGED <<thread, files, faults>>

\* A run is cancelled, when it overruns its time or loses its lease.
CancelLoad(l) ==
    /\ load[l].at \in {"WAIT", "FETCH", "REPLACE", "READ"}
    /\ load' = [load EXCEPT ![l] = [dir |-> IF thread[l] = "NONE" THEN Nowhere ELSE @.dir,
                                    at |-> "ENDED"]]
    /\ faults' = IF thread[l] = "NONE" THEN faults ELSE faults \cup {"orphan"}
    /\ UNCHANGED <<thread, files>>

-----------------------------------------------------------------------------
(* _replace_cache, in the thread of a load                                 *)

\* The thread ends; its load, if it still waits for it, goes on.
EndThread(l, place) ==
    /\ thread' = [thread EXCEPT ![l] = "NONE"]
    /\ load' = IF load[l].at = "REPLACE" THEN [load EXCEPT ![l] = Placed(l, place)]
               ELSE [load EXCEPT ![l].dir = Nowhere]

\* Does the directory exist?
LookForOld(l) ==
    /\ thread[l] = "UNPACKED"
    /\ thread' = [thread EXCEPT ![l] = IF files[load[l].dir] = {} THEN "RENAME" ELSE "REMOVE"]
    /\ UNCHANGED <<load, files, faults>>

\* It is removed file by file, in no particular order. Two threads that remove
\* the same one get in each other's way: all but the last to touch it fail.
RemoveOld(l) ==
    LET d == load[l].dir
        Others == {k \in Loads \ {l} : thread[k] = "REMOVE" /\ load[k].dir = d}
    IN
    /\ thread[l] = "REMOVE"
    /\ \/ \E f \in files[d] :
             /\ files' = [files EXCEPT ![d] = @ \ {f}]
             /\ thread' = IF files'[d] # {} THEN thread
                          ELSE [k \in Loads |-> IF k = l THEN "RENAME"
                                                ELSE IF k \in Others THEN "LOST" ELSE thread[k]]
             /\ UNCHANGED load
       \/ Others # {} /\ EndThread(l, "FAILED") /\ UNCHANGED files
    /\ UNCHANGED faults

RemoveFails(l) ==
    /\ thread[l] = "LOST"
    /\ EndThread(l, "FAILED")
    /\ UNCHANGED <<files, faults>>

FaultyInstalled == {Files, {"marker"}}
\* os.replace: the new directory appears as a whole.
Installed == {Files}

\* ... and is an error if another directory appeared meanwhile.
Rename(l) ==
    LET d == load[l].dir IN
    /\ thread[l] = "RENAME"
    /\ IF files[d] = {}
       THEN (\E new \in Installed : files' = [files EXCEPT ![d] = new]) /\ EndThread(l, "READ")
       ELSE EndThread(l, "FAILED") /\ UNCHANGED files
    /\ UNCHANGED faults

\* The disk is full or denies access. A removal that breaks off leaves what is
\* left of the directory.
ThreadBreaks(l) ==
    /\ thread[l] \in {"UNPACKED", "REMOVE", "RENAME"}
    /\ EndThread(l, "UNAVAILABLE")
    /\ faults' = IF thread[l] = "REMOVE" THEN faults \cup {"torn"} ELSE faults
    /\ UNCHANGED files

-----------------------------------------------------------------------------
\* The disk loses or spoils the marker, or what was extracted beneath it.
Decay(d, f) ==
    /\ files[d] = Files
    /\ files' = [files EXCEPT ![d] = Files \ {f}]
    /\ faults' = faults \cup {IF f = "marker" THEN "decay" ELSE "rot"}
    /\ UNCHANGED <<load, thread>>

CacheCrash ==
    /\ load' = [l \in Loads |->
          IF load[l].at \in {"IDLE", "FAILED", "UNAVAILABLE"} THEN load[l]
          ELSE [dir |-> Nowhere, at |-> "ENDED"]]
    /\ thread' = [l \in Loads |-> "NONE"]
    /\ faults' = IF \E l \in Loads : thread[l] = "REMOVE"
                 THEN faults \cup {"torn"} ELSE faults
    /\ UNCHANGED files

CacheStep ==
    \/ \E l \in Loads :
          \/ CheckCache(l) \/ ReadFlow(l) \/ Unavailable(l) \/ CancelLoad(l)
          \/ LookForOld(l) \/ RemoveOld(l) \/ RemoveFails(l) \/ Rename(l) \/ ThreadBreaks(l)
    \/ \E d \in Directories, f \in Files : Decay(d, f)

CacheSpec ==
    /\ CacheInit
    /\ [][\/ CacheStep \/ CacheCrash
          \/ \E l \in Loads : (\E d \in Directories : BeginLoad(l, d))
                              \/ \E intact \in BOOLEAN : Fetch(l, intact)]_cacheVars

-----------------------------------------------------------------------------
(* Correctness                                                             *)

CacheTypeOK ==
    /\ load \in [Loads -> [dir : Directories \cup {Nowhere},
                           at : {"IDLE", "WAIT", "FETCH", "REPLACE", "READ",
                                 "FAILED", "UNAVAILABLE", "ENDED"}]]
    /\ \A l \in Loads :
          load[l].at \notin {"IDLE", "UNAVAILABLE", "ENDED"} \/ thread[l] # "NONE" => load[l].dir \in Directories
    /\ thread \in [Loads -> {"NONE", "UNPACKED", "REMOVE", "LOST", "RENAME"}]
    /\ files \in [Directories -> SUBSET Files]
    /\ faults \subseteq {"orphan", "torn", "decay", "rot"}

\* Nothing the engine does leaves a directory that passes for valid without
\* what was extracted, except while it is about to be replaced. Two things do: a
\* thread that outlived its load, removes what another has just installed and
\* breaks off in the middle; and a disk that loses what was extracted but not
\* the marker, where CacheIsValid does not look. Such a cache fails every load
\* and is never replaced.
ValidIsWhole ==
    ("rot" \in faults \/ {"orphan", "torn"} \subseteq faults) \/
        \A d \in Directories :
            CacheIsValid(d) =>
                \/ files[d] = Files
                \/ \E l \in Loads : load[l].dir = d /\ thread[l] = "REMOVE"

\* Nothing replaces a directory while a load reads from it, unless a thread
\* outlived its load or a file went bad.
ReadersUndisturbed ==
    faults \cap {"orphan", "decay", "rot"} = {} =>
        \A l \in Loads : load[l].at = "READ" => files[load[l].dir] = Files
=============================================================================
