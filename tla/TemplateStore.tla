---------------------------- MODULE TemplateStore ----------------------------
(***************************************************************************)
(* Loading one template (handler.go load, readCached) while the operator   *)
(* publishes new template directories, and what applyStorage makes of the  *)
(* shared cached template (storage.go).                                    *)
(*                                                                         *)
(* Requests run concurrently.  load stats <name>.yaml, then <name>.json;   *)
(* readCached holds the mutex from the look into the cache to the end of   *)
(* the read.  The mounted directory is replaced as a whole.                *)
(***************************************************************************)
EXTENDS Integers, Sequences, FiniteSets

CONSTANTS
  Requests,     \* concurrent requests for the template, of different owners
  Contents,     \* template contents
  Bad,          \* the content of a file that does not parse
  Absent,       \* no such file, nothing cached
  MaxPublished  \* directories the operator publishes: bounds the model

Paths == <<"yaml", "json">>
Names == {"yaml", "json"}

ASSUME StoreAssumption ==
  /\ Bad \notin Contents
  /\ Absent \notin [stamp : Nat, content : Contents \cup {Bad}]
  /\ Absent \notin [stamp : Nat, content : Contents, volumes : {"declared"} \cup Requests]
  /\ "declared" \notin Requests
  /\ MaxPublished \in Nat

VARIABLES
  disk,       \* the mounted directory: the template's two files
  published,  \* number of directories published so far
  cache,      \* configHandler.cache
  holder,     \* the requests inside mu
  req,        \* the requests
  moments     \* history: the directories that were mounted during each request

vars == <<disk, published, cache, holder, req, moments>>

Stamps == 0..MaxPublished
\* <stamp> is size and modification time: a new one whenever a file is written.
OnDisk == [stamp : Stamps, content : Contents \cup {Bad}]
\* <volumes>: claim references as declared, or rewritten for one request's owner.
Cached == [stamp : Stamps, content : Contents, volumes : {"declared"} \cup Requests]
Directories == [Names -> OnDisk \cup {Absent}]

NoRequest == [pc |-> "idle", path |-> 1, stamp |-> 0, content |-> Bad,
              volumes |-> "declared", why |-> "none"]
Working == {"stat", "lock", "read", "storage"}

TypeOK ==
  /\ disk \in Directories
  /\ published \in Stamps
  /\ cache \in [Names -> Cached \cup {Absent}]
  /\ holder \subseteq Requests
  /\ req \in [Requests -> [pc : Working \cup {"idle", "answered", "denied"}, path : 1..2,
                           stamp : Stamps, content : Contents \cup {Bad},
                           volumes : {"declared"} \cup Requests,
                           why : {"none", "nomatch", "file"}]]
  /\ moments \in [Requests -> SUBSET Directories]

\* A directory as it is published: every file in it is new.
Fresh(stamp) == [Names -> [stamp : {stamp}, content : Contents \cup {Bad}] \cup {Absent}]

Init ==
  /\ disk \in Fresh(0) /\ published = 0
  /\ cache = [p \in Names |-> Absent]
  /\ holder = {}
  /\ req = [r \in Requests |-> NoRequest]
  /\ moments = [r \in Requests |-> {}]

-----------------------------------------------------------------------------
Path(r) == Paths[req[r].path]
Set(r, q) == req' = [req EXCEPT ![r] = q]
Deny(r, reason) == Set(r, [req[r] EXCEPT !.pc = "denied", !.why = reason])
\* What load returns: a copy of the entry, its volumes shared with the cache.
Loaded(r, content, volumes) ==
  Set(r, [req[r] EXCEPT !.pc = "storage", !.content = content, !.volumes = volumes])

Arrive(r) ==
  /\ req[r].pc = "idle"
  /\ Set(r, [NoRequest EXCEPT !.pc = "stat"])
  /\ moments' = [moments EXCEPT ![r] = {disk}]
  /\ UNCHANGED <<disk, published, cache, holder>>

\* Mutant: the extensions are counted from zero.
NoPathLeftOffByOne(r) == req[r].path > Len(Paths)
\* Mutant: a missing yaml file ends the search.
NoPathLeftAtOnce(r) == TRUE
NoPathLeft(r) == req[r].path = Len(Paths)

\* load: the first of the two files that is there, never a different template.
Stat(r) ==
  /\ req[r].pc = "stat"
  /\ CASE disk[Path(r)] # Absent ->
            Set(r, [req[r] EXCEPT !.pc = "lock", !.stamp = disk[Path(r)].stamp])
       [] disk[Path(r)] = Absent /\ ~NoPathLeft(r) ->
            Set(r, [req[r] EXCEPT !.path = req[r].path + 1])
       [] OTHER -> Deny(r, "nomatch")
  /\ UNCHANGED <<disk, published, cache, holder, moments>>

\* Mutant: any entry will do.
HitWhateverStamp(entry, stamp) == entry # Absent
Hit(entry, stamp) == entry # Absent /\ entry.stamp = stamp

\* readCached up to the read: the lock, then the look into the cache.
Acquire(r) ==
  /\ req[r].pc = "lock" /\ holder = {}
  /\ LET entry == cache[Path(r)] IN
       IF Hit(entry, req[r].stamp)
       THEN Loaded(r, entry.content, entry.volumes) /\ UNCHANGED holder
       ELSE Set(r, [req[r] EXCEPT !.pc = "read"]) /\ holder' = {r}
  /\ UNCHANGED <<disk, published, cache, moments>>

\* Mutant: the lock is kept when the file cannot be used.
UnlockOnSuccess(r) == IF req'[r].pc = "denied" THEN UNCHANGED holder ELSE holder' = holder \ {r}
Unlock(r) == holder' = holder \ {r}

\* readCached: the file is read now, whatever the stat said, parsed and kept
\* under the stamp of the earlier stat.
Read(r) ==
  /\ req[r].pc = "read"
  /\ LET file == disk[Path(r)] IN
       IF file = Absent \/ file.content = Bad
       THEN Deny(r, "file") /\ UNCHANGED cache
       ELSE /\ Loaded(r, file.content, "declared")
            /\ cache' = [cache EXCEPT ![Path(r)] =
                 [stamp |-> req[r].stamp, content |-> file.content, volumes |-> "declared"]]
  /\ Unlock(r)
  /\ UNCHANGED <<disk, published, moments>>

\* A stat or a read fails.
FileFails(r) ==
  /\ req[r].pc \in {"stat", "read"}
  /\ Deny(r, "file")
  /\ Unlock(r)
  /\ UNCHANGED <<disk, published, cache, moments>>

\* Only references that are as declared are rewritten.
Rewritten(volumes, r) == IF volumes = "declared" THEN r ELSE volumes

\* Mutant: no deep copy, so the cached volumes are rewritten as well.
InCacheToo(r) ==
  cache' = [cache EXCEPT ![Path(r)].volumes = Rewritten(cache[Path(r)].volumes, r)]
\* applyStorage works on a deep copy.
OnCopy(r) == UNCHANGED cache

RewriteVolumes(r) ==
  /\ req[r].pc = "storage"
  /\ Set(r, [req[r] EXCEPT !.pc = "answered", !.volumes = Rewritten(req[r].volumes, r)])
  /\ OnCopy(r)
  /\ UNCHANGED <<disk, published, holder, moments>>

Serve(r) == Stat(r) \/ Acquire(r) \/ Read(r) \/ FileFails(r) \/ RewriteVolumes(r)

Leave(r) ==
  /\ req[r].pc \in {"answered", "denied"}
  /\ Set(r, NoRequest)
  /\ moments' = [moments EXCEPT ![r] = {}]
  /\ UNCHANGED <<disk, published, cache, holder>>

\* The operator's new directory is mounted in one step, external.
Publish ==
  /\ published < MaxPublished
  /\ published' = published + 1
  /\ disk' \in Fresh(published + 1)
  /\ moments' = [r \in Requests |-> IF req[r].pc = "idle" THEN {} ELSE moments[r] \cup {disk'}]
  /\ UNCHANGED <<cache, holder, req>>

Next == Publish \/ \E r \in Requests : Arrive(r) \/ Serve(r) \/ Leave(r)

Spec == Init /\ [][Next]_vars

\* Every handler keeps running, and the mutex is handed to whoever waits for it.
FairSpec == Spec /\ \A r \in Requests : WF_vars(Serve(r)) /\ SF_vars(Acquire(r))

-----------------------------------------------------------------------------
(* Properties. *)

\* A request is served what the file held at some moment of the request, never
\* an earlier content; from the second file only if the first was missing.
ServedWasCurrent ==
  \A r \in Requests : req[r].pc \in {"storage", "answered"} =>
    /\ \E d \in moments[r] : d[Path(r)] # Absent /\ d[Path(r)].content = req[r].content
    /\ \A i \in 1..(req[r].path - 1) : \E d \in moments[r] : d[Paths[i]] = Absent

\* "No matching template" is said only of a template of which each file was missing
\* at some moment of the request; the two moments need not be the same.
NoMatchWasJustified ==
  \A r \in Requests : req[r].pc = "denied" /\ req[r].why = "nomatch" =>
    \A p \in Names : \E d \in moments[r] : d[p] = Absent

\* The mutex is held by exactly the request that reads a file, and by one at a
\* time: none of the ways out of readCached keeps it.
MutexHeldByReader ==
  /\ holder = {r \in Requests : req[r].pc = "read"}
  /\ \A r, s \in holder : r = s

\* An entry that the next request will take for the mounted file is that file's
\* content, although stat and read may straddle a publication.
CacheMatchesFile ==
  \A p \in Names : disk[p] # Absent /\ Hit(cache[p], disk[p].stamp) =>
    cache[p].content = disk[p].content

\* An answer mounts the claims of its own owner: no request ever changes the
\* template that the others share with it.
OwnVolumesOnly ==
  \A r \in Requests : req[r].pc = "answered" => req[r].volumes = r

\* Every request gets through: the mutex is given back on each way out.
EveryLoadEnds == \A r \in Requests : req[r].pc \in Working ~> req[r].pc \notin Working
=============================================================================
