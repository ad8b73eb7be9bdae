----------------------------- MODULE OwnerAccess -----------------------------
(***************************************************************************)
(* The config server's answer to a settings login (settings.go,            *)
(* owner_access.go), for one owner: walk the template directory, then      *)
(* reconcile the owner's ServiceAccount, Role and RoleBinding, each by     *)
(* get, create or update, retried on a conflict.  Concurrent requests of   *)
(* the owner share the three objects; updates are optimistic, so a write   *)
(* outdates what the other requests have got.                              *)
(***************************************************************************)
EXTENDS Integers, Sequences, FiniteSets, Functions

CONSTANTS
  Requests,     \* settings requests and the sessions they grant
  Templates,    \* template names, ordered as ReadDir lists them
  Catalogs,     \* the template directories the operator may publish
  BoxPodName,   \* template to the owner's pod name
  PodNames,     \* pods of the session namespace, other owners' included
  Absent,       \* no such object
  Foreign,      \* per kind, what an operator may make of the object
  Tries         \* steps of retry.DefaultRetry: 5

Kinds == <<"account", "role", "binding">>
Files == [Templates -> {"persistent", "other", "bad", "absent"}]
\* A Role has no rule, or one rule with the names of its pods.
RuleSets == {<<>>} \cup {<<names>> : names \in SUBSET PodNames}
\* "ok": as the server writes it; "ref": bound to another role, "subjects": to
\* other subjects; "mounts": an account whose token is mounted.
Values == [account |-> {"ok", "mounts"}, role |-> RuleSets, binding |-> {"ok", "subjects", "ref"}]

ASSUME AccessAssumption ==
  /\ Requests # {}
  /\ \A k \in Range(Kinds) : Absent \notin Values[k]
  /\ Templates \subseteq Nat
  /\ Catalogs \subseteq Files /\ Catalogs # {}
  /\ BoxPodName \in [Templates -> PodNames]
  /\ DOMAIN Foreign = Range(Kinds)
  /\ \A k \in Range(Kinds) : Foreign[k] \subseteq Values[k] \cup {Absent}
  /\ Tries \in Nat \ {0}

VARIABLES
  files,    \* the mounted template directory
  objects,  \* the owner's three objects
  fresh,    \* requests about to update the very version they got
  req,      \* the requests
  newest,   \* history: the request that arrived last
  alone,    \* history: requests that have met no other and no tampering
  stable,   \* history: no change of files or objects met the present requests
  seen      \* history: the directories that were mounted during each walk

vars == <<files, objects, fresh, req, newest, alone, stable, seen>>

Walking == {"readdir", "walk"}
Working == {"readdir", "walk", "get", "create", "update"}
NoRequest == [pc |-> "idle", todo |-> {}, list |-> {}, stage |-> 1, tries |-> 1, why |-> "none"]

RequestStates ==
  [pc : Working \cup {"idle", "granted", "denied"}, todo : SUBSET Templates, list : SUBSET Templates,
   stage : 1..3, tries : 1..Tries, why : {"none", "template", "conflict", "ref", "api"}]

TypeOK ==
  /\ files \in Files
  /\ DOMAIN objects = Range(Kinds)
  /\ \A k \in Range(Kinds) : objects[k] \in Values[k] \cup {Absent}
  /\ fresh \subseteq Requests
  /\ req \in [Requests -> RequestStates]
  /\ newest \in Requests
  /\ alone \subseteq Requests
  /\ stable \in BOOLEAN
  /\ seen \in [Requests -> SUBSET Files]

Init ==
  /\ files \in Catalogs
  /\ objects = [k \in Range(Kinds) |-> Absent]
  /\ fresh = {}
  /\ req = [r \in Requests |-> NoRequest]
  /\ newest \in Requests
  /\ alone = {}
  /\ stable = TRUE
  /\ seen = [r \in Requests |-> {}]

-----------------------------------------------------------------------------
(* What a request wants. *)

\* Mutant: a rule is made for an empty list, too.
RulesAlways(list) == <<{BoxPodName[t] : t \in list}>>
Rules(list) == IF list = {} THEN <<>> ELSE <<{BoxPodName[t] : t \in list}>>

\* RBAC: a rule without resource names is for every name.
Grants(rules) == UNION {IF rules[i] = {} THEN PodNames ELSE rules[i] : i \in DOMAIN rules}

Kind(r) == Kinds[req[r].stage]
Desired(r, k) == IF k = "role" THEN Rules(req[r].list) ELSE "ok"

Busy == {r \in Requests : req[r].pc \in Working}

Set(r, q) == req' = [req EXCEPT ![r] = q]
Deny(r, reason) == Set(r, [NoRequest EXCEPT !.pc = "denied", !.why = reason])
Goto(r, step) == Set(r, [req[r] EXCEPT !.pc = step])

\* Mutant: an object that exists is left as it is.
AsWantedIfThere(r, k) == objects[k] # Absent
AsWanted(r, k) == objects[k] = Desired(r, k)

\* On to the next object, or answer.
Ensured(r) ==
  IF req[r].stage = Len(Kinds) THEN Set(r, [NoRequest EXCEPT !.pc = "granted", !.list = req[r].list])
  ELSE Set(r, [req[r] EXCEPT !.pc = "get", !.stage = req[r].stage + 1, !.tries = 1])

\* Mutant: only conflicts are retried, not AlreadyExists.
RetriableOnlyConflict(cause) == cause = "conflict"
\* reconcileConflict.
Retriable(cause) == cause \in {"conflict", "exists"}

\* Mutant: one try more than Tries.
AgainOnceMore(r, cause) ==
  IF Retriable(cause) /\ req[r].tries <= Tries
  THEN Set(r, [req[r] EXCEPT !.pc = "get", !.tries = req[r].tries + 1])
  ELSE Deny(r, "conflict")

\* Mutant: the tries are not counted.
AgainForEver(r, cause) == IF Retriable(cause) THEN Goto(r, "get") ELSE Deny(r, "conflict")

\* retry.OnError: once more, up to Tries times in all.
Again(r, cause) ==
  IF Retriable(cause) /\ req[r].tries < Tries
  THEN Set(r, [req[r] EXCEPT !.pc = "get", !.tries = req[r].tries + 1])
  ELSE Deny(r, "conflict")

-----------------------------------------------------------------------------
(* Handling a request. *)

Watch == seen' = [r \in Requests |-> IF req'[r].pc \in Walking THEN seen[r] \cup {files'} ELSE {}]

Arrive(r) ==
  /\ req[r].pc = "idle"
  /\ Set(r, [NoRequest EXCEPT !.pc = "readdir"])
  /\ newest' = r
  /\ alone' = IF Busy = {} THEN {r} ELSE {}
  /\ stable' = (stable \/ Busy = {})
  /\ UNCHANGED <<files, objects, fresh>>
  /\ Watch

\* persistentTemplates: first the names in the directory ...
ReadDir(r) ==
  /\ req[r].pc = "readdir"
  /\ Set(r, [req[r] EXCEPT !.pc = "walk", !.todo = {t \in Templates : files[t] # "absent"}])
  /\ UNCHANGED <<files, objects, fresh, newest, alone, stable>>
  /\ Watch

\* ... then each file in order; one that is gone or does not parse denies.
LoadTemplate(r) ==
  /\ req[r].pc = "walk"
  /\ \E t \in req[r].todo :
       /\ \A u \in req[r].todo : t <= u
       /\ IF files[t] \in {"bad", "absent"} THEN Deny(r, "template")
          ELSE Set(r, [req[r] EXCEPT !.todo = req[r].todo \ {t},
                 !.list = IF files[t] = "persistent" THEN req[r].list \cup {t} ELSE req[r].list])
  /\ UNCHANGED <<files, objects, fresh, newest, alone, stable>>
  /\ Watch

\* Mutant: the walk may stop before its end.
WalkedEnough(r) == TRUE
WalkedAll(r) == req[r].todo = {}

WalkDone(r) ==
  /\ req[r].pc = "walk" /\ WalkedAll(r)
  /\ Goto(r, "get")
  /\ UNCHANGED <<files, objects, fresh, newest, alone, stable>>
  /\ Watch

\* The three ensureOwner functions have one shape.
Get(r) ==
  /\ req[r].pc = "get"
  /\ LET k == Kind(r) IN
       /\ CASE objects[k] = Absent -> Goto(r, "create")
            [] AsWanted(r, k) -> Ensured(r)
            [] k = "binding" /\ objects[k] = "ref" -> Deny(r, "ref")
            [] OTHER -> Goto(r, "update")
       /\ fresh' = IF req'[r].pc = "update" THEN fresh \cup {r} ELSE fresh
  /\ UNCHANGED <<files, objects, newest, alone, stable, seen>>

\* The write that outdates every other get of the object.
Write(k, value) ==
  /\ objects' = [objects EXCEPT ![k] = value]
  /\ fresh' = {q \in fresh : Kind(q) # k}

Create(r) ==
  /\ req[r].pc = "create"
  /\ IF objects[Kind(r)] = Absent
     THEN Write(Kind(r), Desired(r, Kind(r))) /\ Ensured(r)
     ELSE Again(r, "exists") /\ UNCHANGED <<objects, fresh>>
  /\ UNCHANGED <<files, newest, alone, stable, seen>>

\* An update of an object that is gone again is answered NotFound or Conflict.
Update(r) ==
  /\ req[r].pc = "update"
  /\ IF r \in fresh THEN Write(Kind(r), Desired(r, Kind(r))) /\ Ensured(r)
     ELSE /\ Again(r, "conflict") \/ (objects[Kind(r)] = Absent /\ Deny(r, "api"))
          /\ UNCHANGED <<objects, fresh>>
  /\ UNCHANGED <<files, newest, alone, stable, seen>>

\* A call fails or the request's capListTimeout is over.
CallFails(r) ==
  /\ req[r].pc \in Working
  /\ Deny(r, "api")
  /\ fresh' = fresh \ {r}
  /\ UNCHANGED <<files, objects, newest, alone, stable>>
  /\ Watch

\* A write was made but its answer never arrived.
WriteAnswerLost(r) ==
  /\ \/ req[r].pc = "create" /\ objects[Kind(r)] = Absent
     \/ req[r].pc = "update" /\ r \in fresh
  /\ Write(Kind(r), Desired(r, Kind(r)))
  /\ Deny(r, "api")
  /\ UNCHANGED <<files, newest, alone, stable, seen>>

Serve(r) ==
  ReadDir(r) \/ LoadTemplate(r) \/ WalkDone(r) \/ Get(r) \/ Create(r) \/ Update(r)
    \/ CallFails(r) \/ WriteAnswerLost(r)

-----------------------------------------------------------------------------
(* Gateway and operator, external. *)

\* The session ends, or the denied login is given up.
Leave(r) ==
  /\ req[r].pc \in {"granted", "denied"}
  /\ Set(r, NoRequest)
  /\ alone' = alone \ {r}
  /\ UNCHANGED <<files, objects, fresh, newest, stable, seen>>

Publish ==
  /\ files' \in Catalogs
  /\ stable' = (Busy = {})
  /\ UNCHANGED <<objects, fresh, req, newest, alone>>
  /\ Watch

\* An operator deletes or edits an object.
Tamper(k) ==
  /\ \E value \in Foreign[k] : Write(k, value)
  /\ alone' = {}
  /\ stable' = (Busy = {})
  /\ UNCHANGED <<files, req, newest, seen>>

Next ==
  \/ \E r \in Requests : Arrive(r) \/ Serve(r) \/ Leave(r)
  \/ Publish
  \/ \E k \in DOMAIN Foreign : Tamper(k)

Spec == Init /\ [][Next]_vars

-----------------------------------------------------------------------------
(* Properties. *)

\* The Role never grants a pod that is not a box of this owner for a template
\* the operator has published as persistent; an empty rule would grant all.
OwnBoxes == {BoxPodName[t] : t \in {u \in Templates : \E c \in Catalogs : c[u] = "persistent"}}
RoleGrantsOwnBoxes == objects["role"] # Absent => Grants(objects["role"]) \subseteq OwnBoxes

\* A request that met no other leaves exactly what it answers in force, whatever
\* earlier requests, lost answers and edits have left behind.
AloneGrantInForce ==
  \A r \in alone : req[r].pc = "granted" =>
    \A k \in Range(Kinds) : objects[k] = Desired(r, k)

\* Though directory and files are read one by one, the list that a walk ends with is
\* not invented: every template on it was published as persistent at a moment of
\* the walk, and every other was missing or not persistent at one.
Accounts(list, t) ==
  {f \in Files : f[t] \in IF t \in list THEN {"persistent"} ELSE {"other", "absent"}}
ListWasPublished ==
  [][\A r \in Requests : req[r].pc = "walk" /\ req'[r].pc = "get" =>
       \A t \in Templates : seen[r] \cap Accounts(req'[r].list, t) # {}]_vars

\* Reconciling comes to an end whoever interferes: an object costs at most two calls
\* for each try, and each call leaves fewer to be made.
CallsLeft(r) ==
  2 * Tries * (Len(Kinds) - req[r].stage) + 2 * (Tries - req[r].tries)
    + IF req[r].pc = "get" THEN 2 ELSE 1
Reconciling == {"get", "create", "update"}
RunsOn(r) ==
  \/ req'[r] = req[r]
  \/ req'[r].pc \notin Working
  \/ req'[r].pc \in Reconciling /\ CallsLeft(r)' \in 1..(CallsLeft(r) - 1)
ReconcilingEnds == [][\A r \in Requests : req[r].pc \in Reconciling => RunsOn(r)]_vars

\* Requests over unchanged templates never deny one another: whoever loses a
\* race finds at the next get what it wanted to write.
NoMutualDenial ==
  [][stable => \A r \in Requests : req'[r].why = "conflict" => req[r].why = "conflict"]_vars

\* With every request granted, the Role is for the very templates that the newest
\* session was given, if those are still the published ones (owner_access.go: "so
\* the two can never diverge").
RoleMatchesNewestSession ==
  /\ \A r \in Requests : req[r].pc = "granted"
  /\ req[newest].list = {t \in Templates : files[t] = "persistent"}
  => objects["role"] = Rules(req[newest].list)
=============================================================================
