----------------------------- MODULE DatasetFiles -----------------------------
(***************************************************************************)
(* The managed files of one dataset, and the requests that work on them:   *)
(* import, schema upload, delete and rebuild (internal/datasetimport/      *)
(* importer.go, internal/schemas/registry.go).  No request takes a lock,   *)
(* and HTTP handlers and create_dataset workflows run concurrently, so the *)
(* unit of atomicity is one call of the file system.                       *)
(*                                                                         *)
(* A request is a program: the sequence of file system calls its code      *)
(* makes, one action each.  Files are written to <path>.tmp, the same name *)
(* for every request, and renamed into place.  Two requests that open the  *)
(* same .tmp share one file: the second truncates it, both write into it,  *)
(* whichever renames it first takes the other's open file along, and the   *)
(* second rename finds nothing.                                            *)
(*                                                                         *)
(* Abstractions.  A file's content is who wrote it and, for the schema     *)
(* metadata, the version it records; "partial" is a truncated or half      *)
(* written file, "mixed" one with bytes of two writers.  Inputs are valid: *)
(* a request with a bad name, corpus or schema is refused before it        *)
(* touches anything.  One graph and one chunks file stand for all outputs. *)
(* The build job a rebuild submits is module GraphWal's subject.           *)
(***************************************************************************)
EXTENDS Naturals, Sequences, FiniteSets

CONSTANTS
  Requests,     \* the requests, each made once
  Kinds,        \* what they may ask for, see Program
  MaxInFlight,  \* bound: requests handled at the same time
  IoMayFail,    \* file system calls may fail
  MayCrash      \* the process may die

Core    == {"corpus", "schema", "schema_meta", "metadata"}
Outputs == {"graph", "chunks"}
Paths   == Core \cup Outputs

AllKinds == {"import", "import_over", "put", "put_over", "delete",
             "delete_keep", "delete_force", "rebuild", "rebuild_keep"}

ASSUME DatasetFilesAssumption ==
  /\ Kinds \subseteq AllKinds
  /\ Requests \cap {"none", "partial", "mixed", "before"} = {}
  /\ IsFiniteSet(Requests)
  /\ MaxInFlight \in Nat \ {0}
  /\ IoMayFail \in BOOLEAN
  /\ MayCrash \in BOOLEAN

VARIABLES
  files,    \* the managed paths
  tmps,     \* their .tmp siblings
  kind,     \* what a request asks for
  at,       \* the next call of its program, 0 when it is not in flight
  handle,   \* where the file it is about to write into now is
  version,  \* the schema version it is going to record
  result,   \* how it ended
  spoiled,  \* delete: some artifact could not be removed
  alone,    \* no other request has been in flight with it
  wrote     \* it has changed a managed path

request == <<kind, at, handle, version, result, spoiled, alone, wrote>>
vars    == <<files, tmps, request>>

File == [by      : {"none", "partial", "mixed", "before"} \cup Requests,
         version : Nat]

NoFile  == [by |-> "none",    version |-> 0]
Partial == [by |-> "partial", version |-> 0]
Mixed   == [by |-> "mixed",   version |-> 0]

Exists(p) == files[p] # NoFile

-----------------------------------------------------------------------------
(* Programs.                                                               *)

Call(do, p) == [do |-> do, path |-> p]
All(do, s)  == [i \in DOMAIN s |-> Call(do, s[i])]

\* copyFile and writeMetadata: create or truncate the .tmp, write, rename.
Copy(p) == <<Call("open", p), Call("write", p), Call("rename", p)>>

\* schemas.Put with writeSchemaAndMetadata.
PutSteps(overwrite) ==
  (IF overwrite THEN <<>> ELSE <<Call("absent", "schema")>>) \o
  <<Call("version", "schema_meta"),
    Call("open", "schema"), Call("write", "schema"),
    Call("open", "schema_meta"), Call("write", "schema_meta"),
    Call("rename", "schema"), Call("rename", "schema_meta")>>

\* Mutant: Import leaves the conflict check to schemas.Put.
ImportSteps_NoCheck(overwrite) ==
  Copy("corpus") \o PutSteps(overwrite) \o Copy("metadata")

\* Import.
ImportSteps(overwrite) ==
  (IF overwrite THEN <<>>
   ELSE All("absent", <<"corpus", "schema", "schema_meta", "metadata">>)) \o
  Copy("corpus") \o PutSteps(overwrite) \o Copy("metadata")

\* Mutant: the schema metadata is missing from the managed set.
DeleteSteps_KeepsSchemaMeta(force, outputs) ==
  (IF force THEN <<>> ELSE <<Call("present", "metadata")>>) \o
  All("remove", <<"corpus", "schema", "metadata">>) \o
  (IF outputs THEN All("remove", <<"graph", "chunks">>) ELSE <<>>)

\* Delete, over managedDeleteArtifacts in its order.
DeleteSteps(force, outputs) ==
  (IF force THEN <<>> ELSE <<Call("present", "metadata")>>) \o
  All("remove", <<"corpus", "schema", "schema_meta", "metadata">>) \o
  (IF outputs THEN All("remove", <<"graph", "chunks">>) ELSE <<>>)

\* PlanRebuild, then cleanupRebuildOutputs when outputs are overwritten.
RebuildSteps(overwrite) ==
  All("present", <<"metadata", "corpus", "schema">>) \o
  All(IF overwrite THEN "remove" ELSE "absent", <<"graph", "chunks">>)

Program == [k \in AllKinds |->
  CASE k = "import"       -> ImportSteps(FALSE)
    [] k = "import_over"  -> ImportSteps(TRUE)
    [] k = "put"          -> PutSteps(FALSE)
    [] k = "put_over"     -> PutSteps(TRUE)
    [] k = "delete"       -> DeleteSteps(FALSE, TRUE)
    [] k = "delete_keep"  -> DeleteSteps(FALSE, FALSE)
    [] k = "delete_force" -> DeleteSteps(TRUE, TRUE)
    [] k = "rebuild"      -> RebuildSteps(TRUE)
    [] k = "rebuild_keep" -> RebuildSteps(FALSE)]

Deletes  == {"delete", "delete_keep", "delete_force"}
Rebuilds == {"rebuild", "rebuild_keep"}

-----------------------------------------------------------------------------
(* A dataset nobody has heard of, or one imported and built before.        *)

Init ==
  /\ \/ files = [p \in Paths |-> NoFile]
     \/ files = [p \in Paths |->
                   [by |-> "before",
                    version |-> IF p = "schema_meta" THEN 1 ELSE 0]]
  /\ tmps = [p \in Paths |-> NoFile]
  /\ kind = [r \in Requests |-> "none"]
  /\ at = [r \in Requests |-> 0]
  /\ handle = [r \in Requests |-> "none"]
  /\ version = [r \in Requests |-> 0]
  /\ result = [r \in Requests |-> "none"]
  /\ spoiled = [r \in Requests |-> FALSE]
  /\ alone = [r \in Requests |-> TRUE]
  /\ wrote = [r \in Requests |-> FALSE]

InFlight == {r \in Requests : at[r] # 0}

Start(r) ==
  /\ kind[r] = "none"
  /\ Cardinality(InFlight) < MaxInFlight
  /\ \E k \in Kinds : kind' = [kind EXCEPT ![r] = k]
  /\ at' = [at EXCEPT ![r] = 1]
  /\ alone' = [q \in Requests |->
                 alone[q] /\ (q \in InFlight \cup {r} => InFlight = {})]
  /\ UNCHANGED <<files, tmps, handle, version, result, spoiled, wrote>>

Doing(r, do, p) ==
  /\ at[r] # 0
  /\ Program[kind[r]][at[r]] = Call(do, p)

Last(r) == at[r] = Len(Program[kind[r]])

\* The request ends here, with a response.
Ends(r, outcome) ==
  /\ at' = [at EXCEPT ![r] = 0]
  /\ result' = [result EXCEPT ![r] = outcome]

\* The call succeeded: on to the next one, or the request is done.
Advances(r) ==
  IF Last(r)
  THEN Ends(r, IF spoiled[r] THEN "failed" ELSE "ok")
  ELSE /\ at' = [at EXCEPT ![r] = @ + 1]
       /\ UNCHANGED result

\* os.Stat before anything is done: a conflict, or a missing artifact.
Check(r) ==
  \E p \in Paths :
    /\ \/ Doing(r, "absent", p)  /\ IF Exists(p) THEN Ends(r, "refused")
                                                 ELSE Advances(r)
       \/ Doing(r, "present", p) /\ IF Exists(p) THEN Advances(r)
                                                 ELSE Ends(r, "refused")
    /\ UNCHANGED <<files, tmps, kind, handle, version, spoiled, alone, wrote>>

\* previousMetadataVersion + 1: nothing readable counts as version 0.
NextVersion(file) == file.version + 1

ReadVersion(r) ==
  /\ Doing(r, "version", "schema_meta")
  /\ version' = [version EXCEPT ![r] = NextVersion(files["schema_meta"])]
  /\ Advances(r)
  /\ UNCHANGED <<files, tmps, kind, handle, spoiled, alone, wrote>>

\* Mutant: the file itself is opened, not its .tmp.
Open_InPlace(r) ==
  \E p \in Paths :
    /\ Doing(r, "open", p)
    /\ files' = [files EXCEPT ![p] = Partial]
    /\ handle' = [handle EXCEPT ![r] = "file"]
    /\ Advances(r)
    /\ UNCHANGED <<tmps, kind, version, spoiled, alone, wrote>>

\* os.Create or os.WriteFile's open: create the .tmp or truncate it.
Open(r) ==
  \E p \in Paths :
    /\ Doing(r, "open", p)
    /\ tmps' = [tmps EXCEPT ![p] = Partial]
    /\ handle' = [handle EXCEPT ![r] = "tmp"]
    /\ Advances(r)
    /\ UNCHANGED <<files, kind, version, spoiled, alone, wrote>>

\* Write into the open file, wherever it is by now.  If another request has
\* written into it meanwhile, the longer of the two contents shows through.
Written(r, p, old) ==
  LET mine == [by |-> r,
               version |-> IF p = "schema_meta" THEN version[r] ELSE 0]
  IN {mine} \cup (IF old = Partial THEN {} ELSE {Mixed})

Write(r) ==
  \E p \in Paths :
    /\ Doing(r, "write", p)
    /\ \/ /\ handle[r] = "tmp"
          /\ \E f \in Written(r, p, tmps[p]) : tmps' = [tmps EXCEPT ![p] = f]
          /\ UNCHANGED <<files, wrote>>
       \/ /\ handle[r] = "file"
          /\ \E f \in Written(r, p, files[p]) : files' = [files EXCEPT ![p] = f]
          /\ wrote' = [wrote EXCEPT ![r] = TRUE]
          /\ UNCHANGED tmps
       \/ /\ handle[r] = "gone"
          /\ UNCHANGED <<files, tmps, wrote>>
    /\ handle' = [handle EXCEPT ![r] = "none"]
    /\ Advances(r)
    /\ UNCHANGED <<kind, version, spoiled, alone>>

\* Requests that have p open, and where their file is once p's .tmp has been
\* renamed over p, or p, or its .tmp, been unlinked.
Opened(r, p) == Doing(r, "write", p)

Moved(p) ==
  [r \in Requests |->
     IF ~Opened(r, p) THEN handle[r]
     ELSE IF handle[r] = "tmp" THEN "file" ELSE "gone"]

Unlinked(p, where) ==
  [r \in Requests |->
     IF Opened(r, p) /\ handle[r] = where THEN "gone" ELSE handle[r]]

Rename(r) ==
  \E p \in Paths :
    /\ Doing(r, "rename", p)
    /\ tmps[p] # NoFile
    /\ files' = [files EXCEPT ![p] = tmps[p]]
    /\ tmps' = [tmps EXCEPT ![p] = NoFile]
    /\ handle' = Moved(p)
    /\ wrote' = [wrote EXCEPT ![r] = TRUE]
    /\ Advances(r)
    /\ UNCHANGED <<kind, version, spoiled, alone>>

\* The .tmp files writeSchemaAndMetadata removes when a call of it fails.
Discarded(call) ==
  CASE call = Call("rename", "schema")      -> {"schema", "schema_meta"}
    [] call = Call("rename", "schema_meta") -> {"schema_meta"}
    [] call \in {Call("open", "schema_meta"), Call("write", "schema_meta")} ->
         {"schema"}
    [] OTHER -> {}

\* A call fails and with it the request: the .tmp to rename is gone, or the
\* file system refuses.
CallFails(r) ==
  \E p \in Paths :
    /\ \/ Doing(r, "rename", p) /\ (tmps[p] = NoFile \/ IoMayFail)
       \/ (Doing(r, "open", p) \/ Doing(r, "write", p)) /\ IoMayFail
       \/ Doing(r, "remove", p) /\ kind[r] \in Rebuilds /\ Exists(p) /\ IoMayFail
    /\ LET gone == Discarded(Program[kind[r]][at[r]])
       IN /\ tmps' = [q \in Paths |-> IF q \in gone THEN NoFile ELSE tmps[q]]
          /\ handle' = [q \in Requests |->
               IF q = r THEN "none"
               ELSE IF \E d \in gone : Opened(q, d) /\ handle[q] = "tmp"
                    THEN "gone" ELSE handle[q]]
    /\ Ends(r, "failed")
    /\ UNCHANGED <<files, kind, version, spoiled, alone, wrote>>

\* os.RemoveAll of what os.Stat found.
Remove(r) ==
  \E p \in Paths :
    /\ Doing(r, "remove", p)
    /\ files' = [files EXCEPT ![p] = NoFile]
    /\ handle' = Unlinked(p, "file")
    /\ wrote' = [wrote EXCEPT ![r] = @ \/ Exists(p)]
    /\ Advances(r)
    /\ UNCHANGED <<tmps, kind, version, spoiled, alone>>

\* A delete that cannot remove an artifact goes on with the next one.
RemoveFails(r) ==
  \E p \in Paths :
    /\ Doing(r, "remove", p)
    /\ kind[r] \in Deletes /\ Exists(p) /\ IoMayFail
    /\ spoiled' = [spoiled EXCEPT ![r] = TRUE]
    /\ IF Last(r)
       THEN Ends(r, "failed")
       ELSE /\ at' = [at EXCEPT ![r] = @ + 1]
            /\ UNCHANGED result
    /\ UNCHANGED <<files, tmps, kind, handle, version, alone, wrote>>

\* The process dies: its requests are lost, the files stay as they are.
Crash ==
  /\ MayCrash
  /\ InFlight # {}
  /\ at' = [r \in Requests |-> 0]
  /\ handle' = [r \in Requests |-> "none"]
  /\ result' = [r \in Requests |-> IF r \in InFlight THEN "lost" ELSE result[r]]
  /\ UNCHANGED <<files, tmps, kind, version, spoiled, alone, wrote>>

Next ==
  \/ \E r \in Requests :
       \/ Start(r) \/ Check(r) \/ ReadVersion(r) \/ Open(r) \/ Write(r)
       \/ Rename(r) \/ CallFails(r) \/ Remove(r) \/ RemoveFails(r)
  \/ Crash

Spec == Init /\ [][Next]_vars

-----------------------------------------------------------------------------
(* Properties.                                                             *)

\* What a request of kind k by r, answered with success, promises.
Promise(k, r) ==
  CASE k \in {"import", "import_over"} ->
         /\ \A p \in Core : files[p].by = r
         /\ files["schema_meta"].version = version[r]
    [] k \in {"put", "put_over"} ->
         /\ \A p \in {"schema", "schema_meta"} : files[p].by = r
         /\ files["schema_meta"].version = version[r]
    [] k = "delete_keep" -> \A p \in Core : ~Exists(p)
    [] k \in {"delete", "delete_force"} -> \A p \in Paths : ~Exists(p)
    [] k \in Rebuilds ->
         /\ \A p \in {"metadata", "corpus", "schema"} : Exists(p)
         /\ \A p \in Outputs : ~Exists(p)

\* A request that had the dataset for itself and is answered with success
\* has done all it promises, whatever crashed, failed or overlapped before
\* it: no leftover of another request, stale .tmp or half a dataset, is left
\* in its way or in its result.
SoloTakesEffect ==
  [][\A r \in Requests :
       result[r] # "ok" /\ result'[r] = "ok" /\ alone[r]
         => Promise(kind[r], r)']_vars

\* A request refused for a conflict or a missing artifact has changed
\* nothing, if it had the dataset for itself: Import checks all its targets
\* before it copies, though schemas.Put checks one of them again afterwards.
RefusalIsClean ==
  \A r \in Requests : result[r] = "refused" /\ alone[r] => ~wrote[r]

\* As long as no two requests overlapped, no managed file is ever seen half
\* written, at any moment and after any crash or failure.
TornOnlyByOverlap ==
  (\A r \in Requests : alone[r]) =>
    \A p \in Paths : files[p] \notin {Partial, Mixed}

=============================================================================
