------------------------- MODULE TemplateStore_proofs -------------------------
(***************************************************************************)
(* The template cache is never stale and never shared by mistake, for any  *)
(* number of concurrent requests, contents and publications.     *)
(*                                                                         *)
(* A read may straddle a publication, so an entry can hold a newer content *)
(* than its stamp says.  The invariant says why this is harmless: nobody   *)
(* can find that entry but a request that looked at the older directory    *)
(* and was there when the newer one was mounted.                           *)
(***************************************************************************)
EXTENDS TemplateStore, TLAPS

RequestStates == [pc : Working \cup {"idle", "answered", "denied"}, path : 1..2,
                  stamp : Stamps, content : Contents \cup {Bad},
                  volumes : {"declared"} \cup Requests,
                  why : {"none", "nomatch", "file"}]

\* The file that r looks at held this at some moment of r.
Held(r, content) ==
  \E d \in moments[r] : d[Path(r)] # Absent /\ d[Path(r)].content = content

RequestInv(r) ==
  /\ req[r].pc # "idle" => disk \in moments[r]
  /\ req[r].pc # "idle" /\ req[r].path = 2 => \E d \in moments[r] : d["yaml"] = Absent
  /\ req[r].pc \in {"lock", "read"} => req[r].stamp <= published
  /\ req[r].pc = "lock" /\ Hit(cache[Path(r)], req[r].stamp) =>
       Held(r, cache[Path(r)].content)
  /\ req[r].pc \in {"storage", "answered"} => Held(r, req[r].content)
  /\ req[r].pc = "storage" => req[r].volumes = "declared"
  /\ req[r].pc = "answered" => req[r].volumes = r

DiskInv == \A p \in Names : disk[p] # Absent => disk[p].stamp <= published
CacheInv == \A p \in Names : cache[p] # Absent =>
              cache[p].stamp <= published /\ cache[p].volumes = "declared"

Inv == /\ TypeOK /\ DiskInv /\ CacheInv /\ CacheMatchesFile
       /\ \A r \in Requests : RequestInv(r)

-----------------------------------------------------------------------------
LEMMA PathsAreNames ==
  ASSUME TypeOK, NEW r \in Requests
  PROVE  /\ Path(r) \in Names /\ Paths[1] = "yaml" /\ Len(Paths) = 2
         /\ req[r] \in RequestStates
<1>1. req[r] \in RequestStates
  BY DEF TypeOK, RequestStates
<1>2. req[r].path \in {1, 2}
  BY <1>1 DEF RequestStates
<1>3. Paths[1] = "yaml" /\ Paths[2] = "json" /\ Len(Paths) = 2
  BY DEF Paths
<1> QED
  BY <1>1, <1>2, <1>3 DEF Path, Names

\* What is mounted, and what is cached, is a file or Absent, never both.
LEMMA FilesTyped ==
  ASSUME TypeOK, NEW p \in Names
  PROVE  /\ disk[p] # Absent => disk[p] \in OnDisk
         /\ cache[p] # Absent => cache[p] \in Cached
BY DEF TypeOK, Directories

\* A step of one request that leaves disk and cache alone disturbs no other.
LEMMA OneRequest ==
  ASSUME Inv, NEW r \in Requests, NEW q \in RequestStates, Set(r, q),
         UNCHANGED <<disk, published, cache>>, holder' \subseteq Requests,
         moments' \in [Requests -> SUBSET Directories],
         \A x \in Requests \ {r} : moments'[x] = moments[x],
         RequestInv(r)'
  PROVE  Inv'
<1>1. req' \in [Requests -> RequestStates]
  BY DEF Set, Inv, TypeOK, RequestStates
<1>2. TypeOK'
  BY <1>1 DEF Inv, TypeOK, RequestStates
<1>3. DiskInv' /\ CacheInv' /\ CacheMatchesFile'
  BY DEF Inv, DiskInv, CacheInv, CacheMatchesFile
<1>4. ASSUME NEW x \in Requests PROVE RequestInv(x)'
  <2>1. CASE x # r
    <3>1. req'[x] = req[x] /\ moments'[x] = moments[x]
      BY <2>1 DEF Set, Inv, TypeOK
    <3> QED
      BY <3>1 DEF Inv, RequestInv, Held, Path
  <2> QED
    BY <2>1
<1> QED
  BY <1>2, <1>3, <1>4 DEF Inv

\* The new state of the request that takes the step.
LEMMA SetGives ==
  ASSUME TypeOK, NEW r \in Requests, NEW q, Set(r, q)
  PROVE  req'[r] = q
BY DEF Set, TypeOK

LEMMA Initial == Init => Inv
<1> SUFFICES ASSUME Init PROVE Inv
  OBVIOUS
<1>1. NoRequest \in RequestStates
  BY StoreAssumption DEF NoRequest, RequestStates, Stamps, StoreAssumption
<1>2. req \in [Requests -> RequestStates]
  BY <1>1 DEF Init
<1>3. disk \in Directories
  BY StoreAssumption DEF Init, Fresh, Directories, OnDisk, Stamps, StoreAssumption
<1>4. TypeOK
  BY <1>2, <1>3, StoreAssumption DEF Init, TypeOK, RequestStates, Stamps, StoreAssumption
<1>5. DiskInv
  BY DEF Init, Fresh, DiskInv, Names
<1>6. CacheInv /\ CacheMatchesFile
  BY DEF Init, CacheInv, CacheMatchesFile, Hit
<1>7. \A r \in Requests : RequestInv(r)
  BY DEF Init, RequestInv, NoRequest
<1> QED
  BY <1>4, <1>5, <1>6, <1>7 DEF Inv

LEMMA ArriveKeeps ==
  ASSUME Inv, NEW r \in Requests, Arrive(r)
  PROVE  Inv'
<1> DEFINE q == [NoRequest EXCEPT !.pc = "stat"]
<1>1. q \in RequestStates /\ q.pc = "stat" /\ q.path = 1
  BY StoreAssumption DEF NoRequest, RequestStates, Stamps, StoreAssumption, Working
<1>2. Set(r, q) /\ req'[r] = q
  BY SetGives DEF Arrive, Inv
<1>3. moments' \in [Requests -> SUBSET Directories] /\ moments'[r] = {disk}
      /\ \A x \in Requests \ {r} : moments'[x] = moments[x]
  BY DEF Arrive, Inv, TypeOK
<1>4. UNCHANGED <<disk, published, cache, holder>> /\ holder \subseteq Requests
  BY DEF Arrive, Inv, TypeOK
<1> HIDE DEF q
<1>5. RequestInv(r)'
  BY <1>1, <1>2, <1>3, <1>4 DEF RequestInv
<1> QED
  BY <1>1, <1>2, <1>3, <1>4, <1>5, OneRequest

LEMMA LeaveKeeps ==
  ASSUME Inv, NEW r \in Requests, Leave(r)
  PROVE  Inv'
<1>1. NoRequest \in RequestStates /\ NoRequest.pc = "idle"
  BY StoreAssumption DEF NoRequest, RequestStates, Stamps, StoreAssumption
<1>2. Set(r, NoRequest) /\ req'[r] = NoRequest
  BY SetGives DEF Leave, Inv
<1>3. moments' \in [Requests -> SUBSET Directories]
      /\ \A x \in Requests \ {r} : moments'[x] = moments[x]
  BY DEF Leave, Inv, TypeOK
<1>4. UNCHANGED <<disk, published, cache, holder>> /\ holder \subseteq Requests
  BY DEF Leave, Inv, TypeOK
<1>5. RequestInv(r)'
  BY <1>1, <1>2 DEF RequestInv
<1> QED
  BY <1>1, <1>2, <1>3, <1>4, <1>5, OneRequest

\* Whatever is denied is denied safely.
LEMMA DenyKeeps ==
  ASSUME Inv, NEW r \in Requests, req[r].pc # "idle", NEW reason \in {"nomatch", "file"},
         Deny(r, reason), UNCHANGED <<disk, published, cache, moments>>, holder' \subseteq Requests
  PROVE  Inv'
<1> DEFINE q == [req[r] EXCEPT !.pc = "denied", !.why = reason]
<1>1. q \in RequestStates /\ q.pc = "denied" /\ q.path = req[r].path
  BY PathsAreNames DEF Inv, RequestStates
<1>2. Set(r, q) /\ req'[r] = q
  BY SetGives DEF Deny, Inv
<1>3. moments' \in [Requests -> SUBSET Directories]
      /\ \A x \in Requests : moments'[x] = moments[x]
  BY DEF Inv, TypeOK
<1> HIDE DEF q
<1>4. RequestInv(r)'
  BY <1>1, <1>2, <1>3 DEF RequestInv, Inv
<1> QED
  BY <1>1, <1>2, <1>3, <1>4, OneRequest

LEMMA StatKeeps ==
  ASSUME Inv, NEW r \in Requests, Stat(r)
  PROVE  Inv'
<1>1. /\ req[r] \in RequestStates /\ Path(r) \in Names /\ TypeOK /\ RequestInv(r)
      /\ Paths[1] = "yaml" /\ Len(Paths) = 2
  BY PathsAreNames DEF Inv
<1>2. req[r].pc = "stat" /\ UNCHANGED <<disk, published, cache, holder, moments>>
  BY DEF Stat
<1>3. moments' \in [Requests -> SUBSET Directories] /\ holder' \subseteq Requests
  BY <1>1, <1>2 DEF TypeOK
<1>4. disk \in moments[r]
  BY <1>1, <1>2 DEF RequestInv
<1>5. CASE disk[Path(r)] # Absent
  <2> DEFINE q == [req[r] EXCEPT !.pc = "lock", !.stamp = disk[Path(r)].stamp]
  <2>1. disk[Path(r)] \in OnDisk
    BY <1>1, <1>5, FilesTyped
  <2>2. q \in RequestStates
    BY <1>1, <2>1 DEF RequestStates, OnDisk, Working
  <2>3. q.pc = "lock" /\ q.path = req[r].path /\ q.stamp = disk[Path(r)].stamp
    BY <1>1 DEF RequestStates
  <2>4. Set(r, q) /\ req'[r] = q
    BY <1>1, <1>5, SetGives DEF Stat
  <2> HIDE DEF q
  <2>5. Path(r)' = Path(r)
    BY <2>3, <2>4 DEF Path
  <2>6. disk[Path(r)].stamp <= published
    BY <1>1, <1>5 DEF Inv, DiskInv
  <2>7. Hit(cache[Path(r)], disk[Path(r)].stamp) => Held(r, cache[Path(r)].content)
    BY <1>1, <1>4, <1>5 DEF Inv, CacheMatchesFile, Held
  <2>8. Held(r, cache[Path(r)].content) => Held(r, cache[Path(r)].content)'
    BY <1>2, <2>5 DEF Held
  <2>9. RequestInv(r)'
    BY <1>1, <1>2, <2>3, <2>4, <2>5, <2>6, <2>7, <2>8 DEF RequestInv, Hit
  <2> QED
    BY <1>2, <1>3, <2>2, <2>4, <2>9, OneRequest
<1>6. CASE disk[Path(r)] = Absent /\ ~NoPathLeft(r)
  <2> DEFINE q == [req[r] EXCEPT !.path = req[r].path + 1]
  <2>1. req[r].path = 1
    BY <1>1, <1>6 DEF NoPathLeft, RequestStates
  <2>2. q \in RequestStates /\ q.pc = "stat"
    BY <1>1, <1>2, <2>1 DEF RequestStates
  <2>3. Set(r, q) /\ req'[r] = q
    BY <1>1, <1>6, SetGives DEF Stat
  <2>4. disk["yaml"] = Absent
    BY <1>1, <1>6, <2>1 DEF Path
  <2> HIDE DEF q
  <2>5. RequestInv(r)'
    BY <1>2, <1>4, <2>2, <2>3, <2>4 DEF RequestInv
  <2> QED
    BY <1>2, <1>3, <2>2, <2>3, <2>5, OneRequest
<1>7. CASE disk[Path(r)] = Absent /\ NoPathLeft(r)
  BY <1>2, <1>3, <1>7, DenyKeeps DEF Stat
<1> QED
  BY <1>5, <1>6, <1>7

\* What load returns is kept for the rest of the request.
LEMMA LoadedKeeps ==
  ASSUME Inv, NEW r \in Requests, req[r].pc # "idle", NEW content \in Contents,
         Loaded(r, content, "declared"), Held(r, content),
         UNCHANGED <<disk, published, moments>>
  PROVE  /\ req' \in [Requests -> RequestStates]
         /\ \A x \in Requests \ {r} : req'[x] = req[x]
         /\ req'[r].pc = "storage" /\ req'[r].path = req[r].path
         /\ RequestInv(r)'
<1> DEFINE q == [req[r] EXCEPT !.pc = "storage", !.content = content, !.volumes = "declared"]
<1>1. req[r] \in RequestStates /\ req \in [Requests -> RequestStates]
  BY PathsAreNames DEF Inv, TypeOK, RequestStates
<1>2. q \in RequestStates
  BY <1>1 DEF RequestStates, Working
<1>3. q.pc = "storage" /\ q.path = req[r].path /\ q.content = content /\ q.volumes = "declared"
  BY <1>1 DEF RequestStates
<1>4. req' = [req EXCEPT ![r] = q]
  BY DEF Loaded, Set
<1> HIDE DEF q
<1>5. req' \in [Requests -> RequestStates] /\ req'[r] = q
      /\ \A x \in Requests \ {r} : req'[x] = req[x]
  BY <1>1, <1>2, <1>4
<1>6. Path(r)' = Path(r)
  BY <1>3, <1>5 DEF Path
<1>7. Held(r, req[r].content)'
  BY <1>3, <1>5, <1>6 DEF Held
<1>8. RequestInv(r)'
  BY <1>3, <1>5, <1>7 DEF RequestInv, Inv
<1> QED
  BY <1>3, <1>5, <1>8

LEMMA AcquireKeeps ==
  ASSUME Inv, NEW r \in Requests, Acquire(r)
  PROVE  Inv'
<1>1. /\ req[r] \in RequestStates /\ Path(r) \in Names /\ TypeOK /\ RequestInv(r)
  BY PathsAreNames DEF Inv
<1>2. req[r].pc = "lock" /\ UNCHANGED <<disk, published, cache, moments>>
  BY DEF Acquire
<1>3. moments' \in [Requests -> SUBSET Directories]
  BY <1>1, <1>2 DEF TypeOK
<1>4. CASE Hit(cache[Path(r)], req[r].stamp)
  <2> DEFINE entry == cache[Path(r)]
  <2>1. entry \in Cached /\ entry.volumes = "declared"
    BY <1>1, <1>4, FilesTyped DEF Hit, Inv, CacheInv
  <2>2. Held(r, entry.content)
    BY <1>1, <1>2, <1>4 DEF RequestInv
  <2>3. Loaded(r, entry.content, "declared") /\ UNCHANGED holder
    BY <1>4, <2>1 DEF Acquire
  <2>4. entry.content \in Contents
    BY <2>1 DEF Cached
  <2>5. /\ req' \in [Requests -> RequestStates] /\ RequestInv(r)'
        /\ \A x \in Requests \ {r} : req'[x] = req[x]
    BY <1>2, <2>2, <2>3, <2>4, LoadedKeeps
  <2>6. req' = [req EXCEPT ![r] = req'[r]] /\ req'[r] \in RequestStates
    <3>1. req \in [Requests -> RequestStates]
      BY <1>1 DEF TypeOK, RequestStates
    <3> QED
      BY <2>5, <3>1
  <2>7. Set(r, req'[r])
    BY <2>6 DEF Set
  <2>8. holder' \subseteq Requests
    BY <1>1, <2>3 DEF TypeOK
  <2> QED
    BY <1>2, <1>3, <2>5, <2>6, <2>7, <2>8, OneRequest
<1>5. CASE ~Hit(cache[Path(r)], req[r].stamp)
  <2> DEFINE q == [req[r] EXCEPT !.pc = "read"]
  <2>1. Set(r, q) /\ holder' = {r}
    BY <1>5 DEF Acquire
  <2>2. q \in RequestStates /\ q.pc = "read" /\ q.path = req[r].path /\ q.stamp = req[r].stamp
    BY <1>1 DEF RequestStates, Working
  <2>3. req'[r] = q
    BY <1>1, <2>1, SetGives
  <2> HIDE DEF q
  <2>4. RequestInv(r)'
    BY <1>1, <1>2, <2>2, <2>3 DEF RequestInv
  <2> QED
    BY <1>2, <1>3, <2>1, <2>2, <2>4, OneRequest
<1> QED
  BY <1>4, <1>5

\* The one place that writes the cache: the entry may be newer than its stamp,
\* and everybody who can still find it is there while it is written.
LEMMA ReadKeeps ==
  ASSUME Inv, NEW r \in Requests, Read(r)
  PROVE  Inv'
<1> DEFINE file == disk[Path(r)]
           entry == [stamp |-> req[r].stamp, content |-> file.content, volumes |-> "declared"]
<1>1. /\ req[r] \in RequestStates /\ Path(r) \in Names /\ TypeOK /\ RequestInv(r)
  BY PathsAreNames DEF Inv
<1>2. req[r].pc = "read" /\ UNCHANGED <<disk, published, moments>> /\ holder' = holder \ {r}
  BY DEF Read, Unlock
<1>3. holder' \subseteq Requests
  BY <1>1, <1>2 DEF TypeOK
<1>4. CASE file = Absent \/ file.content = Bad
  BY <1>2, <1>3, <1>4, DenyKeeps DEF Read
<1>5. CASE ~(file = Absent \/ file.content = Bad)
  <2>1. Loaded(r, file.content, "declared") /\ cache' = [cache EXCEPT ![Path(r)] = entry]
    BY <1>5 DEF Read
  <2>2. file \in OnDisk /\ file.content \in Contents
    BY <1>1, <1>5, FilesTyped DEF OnDisk
  <2>3. disk \in moments[r] /\ req[r].stamp <= published
    BY <1>1, <1>2 DEF RequestInv
  <2>4. Held(r, file.content)
    BY <1>5, <2>3 DEF Held
  <2>5. /\ req' \in [Requests -> RequestStates] /\ RequestInv(r)'
        /\ \A x \in Requests \ {r} : req'[x] = req[x]
    BY <1>2, <2>1, <2>2, <2>4, LoadedKeeps
  <2>6. entry \in Cached /\ entry.stamp = req[r].stamp /\ entry.content = file.content
        /\ entry.volumes = "declared"
    BY <1>1, <2>2 DEF RequestStates, Cached
  <2> HIDE DEF entry
  <2>7. /\ cache' \in [Names -> Cached \cup {Absent}] /\ cache'[Path(r)] = entry
        /\ \A p \in Names \ {Path(r)} : cache'[p] = cache[p]
    BY <1>1, <2>1, <2>6 DEF TypeOK
  <2>8. TypeOK'
    BY <1>1, <1>2, <1>3, <2>5, <2>7 DEF TypeOK, RequestStates
  <2>9. DiskInv' /\ CacheInv'
    BY <1>2, <2>3, <2>6, <2>7 DEF Inv, DiskInv, CacheInv
  <2>10. CacheMatchesFile'
    BY <1>2, <2>6, <2>7 DEF Inv, CacheMatchesFile, Hit
  <2>11. ASSUME NEW x \in Requests PROVE RequestInv(x)'
    <3>1. CASE x = r
      BY <2>5, <3>1
    <3>2. CASE x # r /\ Path(x) # Path(r)
      <4>1. req'[x] = req[x] /\ Path(x)' = Path(x) /\ Path(x) \in Names
        BY <1>1, <2>5, <3>2, PathsAreNames DEF Path
      <4>2. cache'[Path(x)] = cache[Path(x)]
        BY <2>7, <3>2, <4>1
      <4> QED
        BY <1>2, <4>1, <4>2 DEF Inv, RequestInv, Held
    <3>3. CASE x # r /\ Path(x) = Path(r)
      <4>1. req'[x] = req[x] /\ Path(x)' = Path(x)
        BY <2>5, <3>3 DEF Path
      <4>2. RequestInv(x)
        BY DEF Inv
      <4>3. req[x].pc = "lock" => Held(x, entry.content)
        BY <1>5, <2>6, <3>3, <4>2 DEF Held, RequestInv
      <4>4. cache'[Path(x)] = entry /\ moments'[x] = moments[x]
        BY <1>2, <2>7, <3>3
      <4>5. req[x].pc = "lock" => Held(x, cache[Path(x)].content)'
        BY <4>1, <4>3, <4>4 DEF Held
      <4>6. Held(x, req[x].content)' <=> Held(x, req[x].content)
        BY <4>1, <4>4 DEF Held
      <4> QED
        BY <1>2, <4>1, <4>2, <4>4, <4>5, <4>6 DEF RequestInv
    <3> QED
      BY <3>1, <3>2, <3>3
  <2> QED
    BY <2>8, <2>9, <2>10, <2>11 DEF Inv
<1> QED
  BY <1>4, <1>5

LEMMA RewriteKeeps ==
  ASSUME Inv, NEW r \in Requests, RewriteVolumes(r)
  PROVE  Inv'
<1> DEFINE q == [req[r] EXCEPT !.pc = "answered", !.volumes = Rewritten(req[r].volumes, r)]
<1>1. /\ req[r] \in RequestStates /\ TypeOK /\ RequestInv(r)
  BY PathsAreNames DEF Inv
<1>2. req[r].pc = "storage" /\ UNCHANGED <<disk, published, cache, holder, moments>> /\ Set(r, q)
  BY DEF RewriteVolumes, OnCopy
<1>3. Rewritten(req[r].volumes, r) = r
  BY <1>1, <1>2 DEF RequestInv, Rewritten
<1>4. q \in RequestStates /\ q.pc = "answered" /\ q.path = req[r].path
      /\ q.content = req[r].content /\ q.volumes = r
  BY <1>1, <1>3 DEF RequestStates
<1>5. req'[r] = q
  BY <1>1, <1>2, SetGives
<1> HIDE DEF q
<1>6. Held(r, req[r].content)'
  BY <1>1, <1>2, <1>4, <1>5 DEF RequestInv, Held, Path
<1>7. RequestInv(r)'
  BY <1>1, <1>2, <1>4, <1>5, <1>6 DEF RequestInv
<1>8. moments' \in [Requests -> SUBSET Directories] /\ holder' \subseteq Requests
  BY <1>1, <1>2 DEF TypeOK
<1> QED
  BY <1>2, <1>4, <1>7, <1>8, OneRequest

\* A publication outdates every entry at once.
LEMMA PublishKeeps ==
  ASSUME Inv, Publish
  PROVE  Inv'
<1>1. /\ published < MaxPublished /\ published' = published + 1 /\ disk' \in Fresh(published + 1)
      /\ moments' = [r \in Requests |-> IF req[r].pc = "idle" THEN {} ELSE moments[r] \cup {disk'}]
      /\ UNCHANGED <<cache, holder, req>>
  BY DEF Publish
<1>2. published \in Nat /\ published' \in Stamps /\ published < published'
  BY <1>1, StoreAssumption DEF Inv, TypeOK, Stamps, StoreAssumption
<1>3. disk' \in Directories
  BY <1>1, <1>2, StoreAssumption DEF Fresh, Directories, OnDisk
<1>4. moments' \in [Requests -> SUBSET Directories]
  BY <1>1, <1>3 DEF Inv, TypeOK
<1>5. TypeOK'
  BY <1>1, <1>2, <1>3, <1>4 DEF Inv, TypeOK
<1>6. ASSUME NEW p \in Names, disk'[p] # Absent PROVE disk'[p].stamp = published'
  BY <1>1, <1>6 DEF Fresh
<1>7. DiskInv'
  BY <1>2, <1>6 DEF DiskInv, Stamps
<1>8. ASSUME NEW p \in Names, cache[p] # Absent
      PROVE  cache[p].stamp \in Nat /\ cache[p].stamp <= published
  BY <1>8, FilesTyped DEF Inv, CacheInv, Cached, Stamps
<1>9. CacheInv'
  BY <1>1, <1>2, <1>8 DEF Inv, CacheInv, Stamps
<1>10. CacheMatchesFile'
  BY <1>1, <1>2, <1>6, <1>8 DEF CacheMatchesFile, Hit, Stamps
<1>11. ASSUME NEW r \in Requests PROVE RequestInv(r)'
  <2>1. RequestInv(r) /\ req[r] \in RequestStates /\ req'[r] = req[r]
    BY <1>1, PathsAreNames DEF Inv
  <2>2. Path(r)' = Path(r)
    BY <2>1 DEF Path
  <2>3. req[r].pc # "idle" => moments'[r] = moments[r] \cup {disk'}
    BY <1>1
  <2>4. ASSUME NEW content, req[r].pc # "idle", Held(r, content) PROVE Held(r, content)'
    BY <2>2, <2>3, <2>4 DEF Held
  <2>5. req[r].pc \in {"lock", "read"} => req'[r].stamp <= published'
    BY <1>2, <2>1 DEF RequestInv, RequestStates, Stamps
  <2> QED
    BY <1>1, <2>1, <2>2, <2>3, <2>4, <2>5 DEF RequestInv
<1> QED
  BY <1>5, <1>7, <1>9, <1>10, <1>11 DEF Inv

LEMMA Step == Inv /\ [Next]_vars => Inv'
<1> SUFFICES ASSUME Inv, [Next]_vars PROVE Inv'
  OBVIOUS
<1>1. CASE Publish
  BY <1>1, PublishKeeps
<1>2. ASSUME NEW r \in Requests, Arrive(r) \/ Leave(r) PROVE Inv'
  BY <1>2, ArriveKeeps, LeaveKeeps
<1>3. ASSUME NEW r \in Requests, Serve(r) PROVE Inv'
  <2>1. FileFails(r) => Inv'
    <3> SUFFICES ASSUME FileFails(r) PROVE Inv'
      OBVIOUS
    <3>1. req[r].pc # "idle" /\ holder' \subseteq Requests
      BY DEF FileFails, Unlock, Inv, TypeOK
    <3> QED
      BY <3>1, DenyKeeps DEF FileFails
  <2> QED
    BY <1>3, <2>1, StatKeeps, AcquireKeeps, ReadKeeps, RewriteKeeps DEF Serve
<1>4. CASE UNCHANGED vars
  BY <1>4 DEF vars, Inv, TypeOK, DiskInv, CacheInv, CacheMatchesFile, RequestInv, Held, Path
<1> QED
  BY <1>1, <1>2, <1>3, <1>4 DEF Next

LEMMA Invariant == Spec => []Inv
BY Initial, Step, PTL DEF Spec

-----------------------------------------------------------------------------
(* What a denial says, and the mutex. *)

\* Where a request is after each of its steps.
LEMMA AfterStep ==
  ASSUME TypeOK, NEW r \in Requests
  PROVE  /\ Arrive(r) => req'[r].pc = "stat"
         /\ Leave(r) => req'[r].pc = "idle"
         /\ Stat(r) => req'[r].pc \in {"lock", "stat", "denied"}
         /\ Acquire(r) => req'[r].pc = IF Hit(cache[Path(r)], req[r].stamp) THEN "storage" ELSE "read"
         /\ Read(r) \/ FileFails(r) =>
              req'[r].pc = "storage" \/ (req'[r].pc = "denied" /\ req'[r].why = "file")
         /\ RewriteVolumes(r) => req'[r].pc = "answered"
         /\ Arrive(r) \/ Leave(r) \/ Serve(r) => req' = [req EXCEPT ![r] = req'[r]]
<1>0. req[r] \in RequestStates /\ req \in [Requests -> RequestStates]
  BY PathsAreNames DEF TypeOK, RequestStates
<1>1. ASSUME NEW q, Set(r, q) PROVE req'[r] = q /\ req' = [req EXCEPT ![r] = req'[r]]
  BY <1>0, <1>1 DEF Set
<1>denied. ASSUME NEW why, Deny(r, why) PROVE req'[r].pc = "denied" /\ req'[r].why = why
  BY <1>0, <1>denied DEF Deny, Set, RequestStates
<1>2. Arrive(r) => req'[r].pc = "stat"
  BY <1>1 DEF Arrive, NoRequest
<1>3. Leave(r) => req'[r].pc = "idle"
  BY <1>1 DEF Leave, NoRequest
<1>4. Stat(r) => req'[r].pc \in {"lock", "stat", "denied"}
  <2>1. ASSUME NEW stamp, Set(r, [req[r] EXCEPT !.pc = "lock", !.stamp = stamp])
        PROVE  req'[r].pc = "lock"
    BY <1>0, <2>1 DEF Set, RequestStates
  <2>2. ASSUME NEW path, Set(r, [req[r] EXCEPT !.path = path])
        PROVE  req'[r].pc = req[r].pc
    BY <1>0, <2>2 DEF Set, RequestStates
  <2> QED
    BY <1>denied, <2>1, <2>2 DEF Stat
<1>5. Acquire(r) => req'[r].pc = IF Hit(cache[Path(r)], req[r].stamp) THEN "storage" ELSE "read"
  <2>1. ASSUME NEW c, NEW v, Loaded(r, c, v) PROVE req'[r].pc = "storage"
    BY <1>0, <2>1 DEF Loaded, Set, RequestStates
  <2>2. ASSUME Set(r, [req[r] EXCEPT !.pc = "read"]) PROVE req'[r].pc = "read"
    BY <1>0, <2>2 DEF Set, RequestStates
  <2> QED
    BY <2>1, <2>2 DEF Acquire
<1>6. Read(r) => req'[r].pc = "storage" \/ (req'[r].pc = "denied" /\ req'[r].why = "file")
  <2>1. ASSUME NEW c, NEW v, Loaded(r, c, v) PROVE req'[r].pc = "storage"
    BY <1>0, <2>1 DEF Loaded, Set, RequestStates
  <2> QED
    BY <1>denied, <2>1 DEF Read
<1>7. FileFails(r) => req'[r].pc = "denied" /\ req'[r].why = "file"
  BY <1>denied DEF FileFails
<1>8. RewriteVolumes(r) => req'[r].pc = "answered"
  BY <1>0 DEF RewriteVolumes, Set, RequestStates
<1>9. Arrive(r) \/ Leave(r) => req' = [req EXCEPT ![r] = req'[r]]
  BY <1>1 DEF Arrive, Leave
<1>10. Stat(r) \/ Acquire(r) \/ FileFails(r) \/ Read(r) \/ RewriteVolumes(r) =>
         req' = [req EXCEPT ![r] = req'[r]]
  BY <1>1 DEF Stat, Acquire, FileFails, Read, RewriteVolumes, Deny, Loaded
<1> QED
  BY <1>2, <1>3, <1>4, <1>5, <1>6, <1>7, <1>8, <1>9, <1>10 DEF Serve

\* A step of one request changes no other, and only a stat of the second file
\* denies for want of a match.
LEMMA NoMatchStep ==
  ASSUME Inv, NoMatchWasJustified, [Next]_vars
  PROVE  NoMatchWasJustified'
<1> SUFFICES ASSUME NEW r \in Requests, req'[r].pc = "denied", req'[r].why = "nomatch", NEW p \in Names
             PROVE  \E d \in moments'[r] : d[p] = Absent
  BY DEF NoMatchWasJustified
<1>1. /\ TypeOK /\ RequestInv(r) /\ req[r] \in RequestStates /\ Path(r) \in Names
      /\ req \in [Requests -> RequestStates]
      /\ Paths = <<"yaml", "json">> /\ Len(Paths) = 2
  BY PathsAreNames DEF Inv, TypeOK, RequestStates, Paths
<1>2. CASE req'[r] = req[r] /\ moments[r] \subseteq moments'[r]
  BY <1>2 DEF NoMatchWasJustified
<1>3. CASE Publish \/ UNCHANGED vars
  BY <1>1, <1>2, <1>3 DEF Publish, vars, TypeOK
<1>4. ASSUME NEW x \in Requests, x # r, Arrive(x) \/ Serve(x) \/ Leave(x)
      PROVE  req'[r] = req[r] /\ moments[r] \subseteq moments'[r]
  BY <1>1, <1>4 DEF Arrive, Serve, Leave, Stat, Acquire, Read, FileFails, RewriteVolumes,
     Set, Deny, Loaded, TypeOK
<1>5. CASE Stat(r)
  <2>1. req[r].pc = "stat" /\ UNCHANGED <<disk, moments>>
    BY <1>5 DEF Stat
  <2>2. disk[Path(r)] = Absent /\ NoPathLeft(r)
    BY <1>1, <1>5, <2>1, SetGives DEF Stat, RequestStates
  <2>3. req[r].path = 2 /\ Path(r) = "json"
    BY <1>1, <2>2 DEF NoPathLeft, Path, Paths
  <2>4. disk \in moments[r] /\ \E d \in moments[r] : d["yaml"] = Absent
    BY <1>1, <2>1, <2>3 DEF RequestInv
  <2> QED
    BY <2>1, <2>2, <2>3, <2>4 DEF Names
<1>6. CASE Arrive(r) \/ Leave(r) \/ Acquire(r) \/ Read(r) \/ FileFails(r) \/ RewriteVolumes(r)
  BY <1>1, <1>6, AfterStep
<1> QED
  BY <1>2, <1>3, <1>4, <1>5, <1>6 DEF Next, Serve

\* One request takes the mutex, when nobody has it, and gives it back on leaving.
LEMMA MutexStep ==
  ASSUME TypeOK, MutexHeldByReader, [Next]_vars
  PROVE  MutexHeldByReader'
<1>1. req \in [Requests -> RequestStates] /\ holder \subseteq Requests
  BY DEF TypeOK, RequestStates
<1>2. CASE UNCHANGED <<req, holder>>
  BY <1>2 DEF MutexHeldByReader
<1>3. ASSUME NEW r \in Requests, req' = [req EXCEPT ![r] = req'[r]], req'[r].pc # "read",
             holder' = holder \ {r}
      PROVE  MutexHeldByReader'
  BY <1>1, <1>3 DEF MutexHeldByReader
<1>4. ASSUME NEW r \in Requests, req' = [req EXCEPT ![r] = req'[r]], req'[r].pc = "read",
             holder = {}, holder' = {r}
      PROVE  MutexHeldByReader'
  BY <1>1, <1>4 DEF MutexHeldByReader
<1>5. ASSUME NEW r \in Requests, req[r].pc # "read", holder' = holder
      PROVE  holder' = holder \ {r}
  BY <1>5 DEF MutexHeldByReader
<1>6. ASSUME NEW r \in Requests, Arrive(r) \/ Leave(r) \/ RewriteVolumes(r) \/ Stat(r)
      PROVE  MutexHeldByReader'
  <2>1. req[r].pc # "read" /\ holder' = holder
    BY <1>6 DEF Arrive, Leave, RewriteVolumes, Stat
  <2>2. req' = [req EXCEPT ![r] = req'[r]] /\ req'[r].pc # "read"
    BY <1>6, AfterStep DEF Serve
  <2> QED
    BY <1>3, <1>5, <2>1, <2>2
<1>7. ASSUME NEW r \in Requests, Read(r) \/ FileFails(r)
      PROVE  MutexHeldByReader'
  <2>1. req' = [req EXCEPT ![r] = req'[r]] /\ req'[r].pc # "read"
    BY <1>7, AfterStep DEF Serve
  <2> QED
    BY <1>3, <1>7, <2>1 DEF Read, FileFails, Unlock
<1>8. ASSUME NEW r \in Requests, Acquire(r)
      PROVE  MutexHeldByReader'
  <2>1. /\ req' = [req EXCEPT ![r] = req'[r]]
        /\ req'[r].pc = IF Hit(cache[Path(r)], req[r].stamp) THEN "storage" ELSE "read"
    BY <1>8, AfterStep DEF Serve
  <2>2. /\ req[r].pc = "lock" /\ holder = {}
        /\ IF Hit(cache[Path(r)], req[r].stamp) THEN holder' = holder ELSE holder' = {r}
    BY <1>8 DEF Acquire
  <2> QED
    BY <1>3, <1>4, <2>1, <2>2
<1> QED
  BY <1>2, <1>6, <1>7, <1>8 DEF Next, Serve, Publish, vars

-----------------------------------------------------------------------------
\* Disk, cache and requests are typed: the search for a template never runs past
\* the second file (handler.go load).
THEOREM TypeCorrect == Spec => []TypeOK
<1>1. Inv => TypeOK
  BY DEF Inv
<1> QED
  BY Invariant, <1>1, PTL

\* A request is served what its file held while it was served (handler.go load,
\* readCached), however requests and publications interleave.
THEOREM ServesCurrent == Spec => []ServedWasCurrent
<1>1. Inv => ServedWasCurrent
  <2> SUFFICES ASSUME Inv, NEW r \in Requests, req[r].pc \in {"storage", "answered"}
               PROVE  /\ Held(r, req[r].content)
                      /\ \A i \in 1..(req[r].path - 1) : \E d \in moments[r] : d[Paths[i]] = Absent
    BY DEF ServedWasCurrent, Held
  <2>1. RequestInv(r) /\ req[r] \in RequestStates /\ Paths[1] = "yaml"
    BY PathsAreNames DEF Inv
  <2>2. req[r].path \in {1, 2}
    BY <2>1 DEF RequestStates
  <2>3. ASSUME NEW i \in 1..(req[r].path - 1) PROVE i = 1 /\ req[r].path = 2
    BY <2>2
  <2> QED
    BY <2>1, <2>3 DEF RequestInv
<1> QED
  BY Invariant, <1>1, PTL

\* An entry that the next request takes for the mounted file is that file
\* (handler.go readCached).
THEOREM CacheIsCurrent == Spec => []CacheMatchesFile
<1>1. Inv => CacheMatchesFile
  BY DEF Inv
<1> QED
  BY Invariant, <1>1, PTL

\* No request ever gets the claims of another (storage.go applyStorage, which
\* works on a copy of the shared template).
THEOREM VolumesAreOwn == Spec => []OwnVolumesOnly
<1>1. Inv => OwnVolumesOnly
  BY DEF Inv, RequestInv, OwnVolumesOnly
<1> QED
  BY Invariant, <1>1, PTL
\* Nobody is told "no matching template" while both files were there throughout
\* (handler.go load, which never tries another name).
THEOREM NoMatchIsTrue == Spec => []NoMatchWasJustified
<1>1. Init => NoMatchWasJustified
  BY DEF Init, NoMatchWasJustified, NoRequest
<1>2. Inv /\ NoMatchWasJustified /\ [Next]_vars => NoMatchWasJustified'
  BY NoMatchStep
<1> QED
  BY Invariant, <1>1, <1>2, PTL DEF Spec

\* The mutex is held by the one request that reads and by nobody else: no way out
\* of a read, failures included, keeps it (handler.go readCached).
THEOREM MutexIsFreed == Spec => []MutexHeldByReader
<1>1. Init => MutexHeldByReader
  BY DEF Init, MutexHeldByReader, NoRequest
<1>2. TypeOK /\ MutexHeldByReader /\ [Next]_vars => MutexHeldByReader'
  BY MutexStep
<1> QED
  BY TypeCorrect, <1>1, <1>2, PTL DEF Spec
=============================================================================
