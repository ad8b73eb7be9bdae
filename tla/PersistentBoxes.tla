-------------------------- MODULE PersistentBoxes --------------------------
(***************************************************************************)
(* The config server's answer to an ordinary SSH login in persistent mode  *)
(* (handler.go OnConfig, persistent.go, storage.go) and the cluster it     *)
(* acts on.                                                                *)
(*                                                                         *)
(* A request loads the template named like the SSH user, derives the box   *)
(* from the authenticated identity, checks the per-owner cap against one   *)
(* pod listing, ensures the template's retained claims one API call at a   *)
(* time and answers.  The gateway then attaches to the named pod or        *)
(* creates it.  Every API call is a step of its own, so the requests, the  *)
(* gateway, the management UI's deletes and the operator interleave at     *)
(* every point where the code waits for the API server.                    *)
(***************************************************************************)
EXTENDS Integers, Sequences, FiniteSets

CONSTANTS
  Requests,         \* config requests that can be in flight at once
  Owners,           \* authenticated identities, trimmed
  Blank,            \* an empty identity, a missing label, an absent object
  Templates,        \* ordinary template names
  Contents,         \* the template contents the operator may publish
  Unusable,         \* a template file that is missing or does not parse
  ClaimNames,       \* names of volumeClaimTemplates
  Preexisting,      \* claim objects the server may find but did not make
  PodNames, Labels,
  BoxPodName,       \* boxPodName: (owner, template) to pod name, a short hash
  OwnerLabelValue,  \* ownerLabelValue: owner to label value
  MaxPods           \* CONTAINERSSH_MAX_PODS_PER_USER; no cap when <= 0

Identities == Owners \X Templates \X ClaimNames
ClaimIds == PodNames \X ClaimNames
ClaimObjects == [ident : Identities \cup {Blank}, terminating : BOOLEAN, owned : BOOLEAN]

(***************************************************************************)
(* readClaims rejects duplicate claims and claims outside persistent mode, *)
(* so such files are Unusable, never Contents.  BoxPodName and             *)
(* OwnerLabelValue need not be injective: both are truncated hashes.       *)
(***************************************************************************)
ASSUME ConstantsAssumption ==
  /\ IsFiniteSet(Requests) /\ Requests # {}
  /\ IsFiniteSet(PodNames)
  /\ Blank \notin Owners \cup Templates \cup Labels \cup ClaimObjects
  /\ \A c \in Contents :
       /\ c.persistent \in BOOLEAN
       /\ c.claims \in Seq(ClaimNames)
       /\ ~c.persistent => c.claims = <<>>
  /\ Unusable \notin Contents
  /\ Preexisting \subseteq ClaimObjects
  /\ BoxPodName \in [Owners \X Templates -> PodNames]
  /\ OwnerLabelValue \in [Owners -> Labels]
  /\ MaxPods \in Int

VARIABLES
  files,    \* the mounted template directory
  pods,     \* the session namespace's pods, by name
  claims,   \* the session namespace's PersistentVolumeClaims, by name
  req,      \* the requests being served
  steady,   \* history: requests whose box has been live ever since they arrived
  vouched   \* history: claims each request verified and that still are that object

vars == <<files, pods, claims, req, steady, vouched>>

Ensuring == {"get", "create", "reget"}   \* in ensureClaim, between two API calls
Granting == Ensuring \cup {"granted"}     \* the cap check is behind the request
Working == Ensuring \cup {"load", "cap"}
Phases == {"absent", "live", "ended", "terminating"}
Reasons == {"none", "template", "identity", "cap", "api", "claim"}

NoPod == [phase |-> "absent", label |-> Blank, mounts |-> {}]
NoRequest == [pc |-> "idle", owner |-> Blank, template |-> Blank,
              content |-> Unusable, next |-> 1, why |-> "none"]

\* A request in the middle of the handler is placed where the code can be: past
\* the identity check it has a box, inside ensureClaim a claim of its template.
RequestStates ==
  {q \in [pc : Working \cup {"idle", "granted", "plain", "denied"},
          owner : Owners \cup {Blank}, template : Templates \cup {Blank},
          content : Contents \cup {Unusable}, next : Nat, why : Reasons] :
     /\ q.pc # "idle" => q.template # Blank
     /\ q.pc \in {"load", "cap"} => q.next = 1
     /\ q.pc \in {"cap"} \cup Granting => q.owner # Blank /\ q.content # Unusable
     /\ q.pc \in Ensuring => q.next \in DOMAIN q.content.claims}

TypeOK ==
  /\ files \in [Templates -> Contents \cup {Unusable}]
  /\ pods \in [PodNames -> [phase : Phases, label : Labels \cup {Blank},
                            mounts : SUBSET ClaimIds]]
  /\ claims \in [ClaimIds -> ClaimObjects \cup {Blank}]
  /\ req \in [Requests -> RequestStates]
  /\ steady \subseteq Requests
  /\ vouched \in [Requests -> SUBSET ClaimIds]

Init ==
  /\ files \in [Templates -> Contents \cup {Unusable}]
  /\ pods = [n \in PodNames |-> NoPod]
  /\ claims \in [ClaimIds -> Preexisting \cup {Blank}]
  /\ req = [r \in Requests |-> NoRequest]
  /\ steady = {}
  /\ vouched = [r \in Requests |-> {}]

-----------------------------------------------------------------------------
(* The request's view. *)

Box(r) == BoxPodName[req[r].owner, req[r].template]
Label(r) == OwnerLabelValue[req[r].owner]

\* The claim a request is ensuring and the identity it must carry.
Claim(r) == req[r].content.claims[req[r].next]
ClaimId(r) == <<Box(r), Claim(r)>>
Identity(r) == <<req[r].owner, req[r].template, Claim(r)>>

\* The claims an answered request refers to.
Mounts(r) == {<<Box(r), req[r].content.claims[i]>> : i \in DOMAIN req[r].content.claims}

\* LivePodNamesForOwner: pods neither terminating nor in a terminal phase.
LivePodNames(l) == {n \in PodNames : pods[n].phase = "live" /\ pods[n].label = l}

\* Mutant: an off-by-one in the cap.
CapAllowsOneMore(names, n) ==
  MaxPods <= 0 \/ n \in names \/ Cardinality(names) <= MaxPods
\* Mutant: the count is compared before the name is looked up.
CapAllowsByCountOnly(names, n) ==
  MaxPods <= 0 \/ Cardinality(names) < MaxPods

\* enforceCap: reconnects pass, new boxes need a free place.
CapAllows(names, n) ==
  MaxPods <= 0 \/ n \in names \/ Cardinality(names) < MaxPods

\* ensureClaim's verdict on an existing claim.
ClaimUsable(obj, ident) == ~obj.terminating /\ ~obj.owned /\ obj.ident = ident

Deny(r, reason) == req' = [req EXCEPT ![r] = [@ EXCEPT !.pc = "denied", !.why = reason]]
Goto(r, step) == req' = [req EXCEPT ![r] = [@ EXCEPT !.pc = step]]

\* Mutant: the loop runs once too often.
NextClaimOffByOne(r) ==
  IF req[r].next > Len(req[r].content.claims)
  THEN Goto(r, "granted")
  ELSE req' = [req EXCEPT ![r] = [@ EXCEPT !.pc = "get", !.next = req[r].next + 1]]

\* applyStorage's loop: on to the next claim, or answer.
NextClaim(r) ==
  IF req[r].next = Len(req[r].content.claims)
  THEN Goto(r, "granted")
  ELSE req' = [req EXCEPT ![r] = [@ EXCEPT !.pc = "get", !.next = req[r].next + 1]]

Verified(r) ==
  /\ vouched' = [vouched EXCEPT ![r] = @ \cup {ClaimId(r)}]
  /\ NextClaim(r)

Verify(r) ==
  IF ClaimUsable(claims[ClaimId(r)], Identity(r))
  THEN Verified(r)
  ELSE Deny(r, "claim") /\ UNCHANGED vouched

-----------------------------------------------------------------------------
(* The config server, one action per call that leaves the process. *)

\* The gateway asks for the configuration of <who> logging in as t@host.
Arrive(r, who, t) ==
  /\ req[r].pc = "idle"
  /\ req' = [req EXCEPT ![r] = [NoRequest EXCEPT !.pc = "load", !.owner = who, !.template = t]]
  /\ steady' = IF who # Blank /\ BoxPodName[who, t] \in LivePodNames(OwnerLabelValue[who])
               THEN steady \cup {r} ELSE steady
  /\ UNCHANGED <<files, pods, claims, vouched>>

\* load, the mode gate and the identity check; nothing but the file is read.
Load(r) ==
  /\ req[r].pc = "load"
  /\ LET content == files[req[r].template] IN
     CASE content = Unusable -> Deny(r, "template")
       [] content # Unusable /\ ~content.persistent -> Goto(r, "plain")
       [] content # Unusable /\ content.persistent /\ req[r].owner = Blank -> Deny(r, "identity")
       [] OTHER -> req' = [req EXCEPT ![r] = [@ EXCEPT !.pc = "cap", !.content = content]]
  /\ UNCHANGED <<files, pods, claims, steady, vouched>>

\* enforceCap: one listing serves both the existence test and the count.
CheckCap(r) ==
  /\ req[r].pc = "cap"
  /\ IF ~CapAllows(LivePodNames(Label(r)), Box(r)) THEN Deny(r, "cap")
     ELSE Goto(r, IF req[r].content.claims = <<>> THEN "granted" ELSE "get")
  /\ UNCHANGED <<files, pods, claims, steady, vouched>>

\* ensureClaim's first Get.
GetClaim(r) ==
  /\ req[r].pc = "get"
  /\ IF claims[ClaimId(r)] = Blank
     THEN Goto(r, "create") /\ UNCHANGED vouched
     ELSE Verify(r)
  /\ UNCHANGED <<files, pods, claims, steady>>

\* ensureClaim's Create: fresh metadata, no owner references.
NewClaim(r) == [ident |-> Identity(r), terminating |-> FALSE, owned |-> FALSE]

CreateClaim(r) ==
  /\ req[r].pc = "create"
  /\ claims[ClaimId(r)] = Blank
  /\ claims' = [claims EXCEPT ![ClaimId(r)] = NewClaim(r)]
  /\ Verified(r)
  /\ UNCHANGED <<files, pods, steady>>

\* Mutant: AlreadyExists is taken for success.
AlreadyExistsIsSuccess(r) == Verified(r)
\* Create answered AlreadyExists: get the object that won.
AlreadyExists(r) == Goto(r, "reget") /\ UNCHANGED vouched

LoseCreateRace(r) ==
  /\ req[r].pc = "create"
  /\ claims[ClaimId(r)] # Blank
  /\ AlreadyExists(r)
  /\ UNCHANGED <<files, pods, claims, steady>>

\* Mutant: a claim that vanished again sends the request back to the start.
ClaimVanishedLoops(r) == Goto(r, "get")
\* The claim that won the race is gone again: NotFound denies.
ClaimVanished(r) == Deny(r, "api")

\* ensureClaim's second Get, after a lost create race.
RegetClaim(r) ==
  /\ req[r].pc = "reget"
  /\ IF claims[ClaimId(r)] = Blank
     THEN ClaimVanished(r) /\ UNCHANGED vouched
     ELSE Verify(r)
  /\ UNCHANGED <<files, pods, claims, steady>>

\* Mutant: claims made by a request that fails are rolled back.
RollBackClaims(r) == claims' = [id \in ClaimIds |-> IF id \in vouched[r] THEN Blank ELSE claims[id]]
\* No rollback: claims made before a failure stay.
KeepClaims(r) == UNCHANGED claims

\* A file or API call fails, a call exceeds capListTimeout, or the server dies.
CallFails(r) ==
  /\ req[r].pc \in Working
  /\ Deny(r, "api")
  /\ KeepClaims(r)
  /\ UNCHANGED <<files, pods, steady, vouched>>

\* The claim was created but the answer never arrived.
CreateAnswerLost(r) ==
  /\ req[r].pc = "create"
  /\ claims[ClaimId(r)] = Blank
  /\ claims' = [claims EXCEPT ![ClaimId(r)] = NewClaim(r)]
  /\ Deny(r, "api")
  /\ UNCHANGED <<files, pods, steady, vouched>>

Serve(r) ==
  Load(r) \/ CheckCap(r) \/ GetClaim(r) \/ CreateClaim(r) \/ LoseCreateRace(r)
    \/ RegetClaim(r) \/ CallFails(r) \/ CreateAnswerLost(r)

-----------------------------------------------------------------------------
(* The gateway, external: it acts on an answer, retries a denial or gives up. *)

Forget(r) ==
  /\ req' = [req EXCEPT ![r] = NoRequest]
  /\ vouched' = [vouched EXCEPT ![r] = {}]
  /\ steady' = steady \ {r}

\* createMissingPods: no pod of that name, so it is created as injected.
CreatePod(r) ==
  /\ req[r].pc = "granted"
  /\ pods[Box(r)].phase = "absent"
  /\ pods' = [pods EXCEPT ![Box(r)] = [phase |-> "live", label |-> Label(r), mounts |-> Mounts(r)]]
  /\ Forget(r)
  /\ UNCHANGED <<files, claims>>

\* The connection is done with its answer: it attached to the existing pod,
\* got a per-connection pod, or the client went away.
Leave(r) ==
  /\ req[r].pc \in {"granted", "plain", "denied"}
  /\ Forget(r)
  /\ UNCHANGED <<files, pods, claims>>

\* A failed webhook is asked again, with the same identity and user name.
Retry(r) ==
  /\ req[r].pc = "denied"
  /\ req' = [req EXCEPT ![r] = [NoRequest EXCEPT !.pc = "load", !.owner = req[r].owner,
                                                 !.template = req[r].template]]
  /\ vouched' = [vouched EXCEPT ![r] = {}]
  /\ UNCHANGED <<files, pods, claims, steady>>

Gateway(r) == CreatePod(r) \/ Leave(r) \/ Retry(r)

-----------------------------------------------------------------------------
(* The cluster and its operators, external. *)

Disturb(n) == steady' = {r \in steady : Box(r) # n}

\* The pod reaches Succeeded or Failed.
PodEnds(n) ==
  /\ pods[n].phase = "live"
  /\ pods' = [pods EXCEPT ![n].phase = "ended"]
  /\ Disturb(n)
  /\ UNCHANGED <<files, claims, req, vouched>>

\* The management UI or an operator deletes the pod.
PodDeleted(n) ==
  /\ pods[n].phase \in {"live", "ended"}
  /\ pods' = [pods EXCEPT ![n].phase = "terminating"]
  /\ Disturb(n)
  /\ UNCHANGED <<files, claims, req, vouched>>

PodGone(n) ==
  /\ pods[n].phase = "terminating"
  /\ pods' = [pods EXCEPT ![n] = NoPod]
  /\ UNCHANGED <<files, claims, req, steady, vouched>>

\* An operator deletes a claim: it terminates, and goes once no pod mounts it.
ClaimDeleted(id) ==
  /\ claims[id] # Blank
  /\ ~claims[id].terminating
  /\ claims' = [claims EXCEPT ![id].terminating = TRUE]
  /\ UNCHANGED <<files, pods, req, steady, vouched>>

Drop(id) ==
  /\ claims' = [claims EXCEPT ![id] = Blank]
  /\ vouched' = [r \in Requests |-> vouched[r] \ {id}]
  /\ UNCHANGED <<files, pods, req, steady>>

ClaimGone(id) ==
  /\ claims[id] # Blank
  /\ claims[id].terminating
  /\ \A n \in PodNames : id \notin pods[n].mounts
  /\ Drop(id)

\* The garbage collector removes a claim together with its owner.
ClaimCollected(id) ==
  /\ claims[id] # Blank
  /\ claims[id].owned
  /\ Drop(id)

\* The operator publishes, changes or removes a template.
Publish(t, content) ==
  /\ files' = [files EXCEPT ![t] = content]
  /\ UNCHANGED <<pods, claims, req, steady, vouched>>

Environment ==
  \/ \E n \in PodNames : PodEnds(n) \/ PodDeleted(n) \/ PodGone(n)
  \/ \E id \in ClaimIds : ClaimDeleted(id) \/ ClaimGone(id) \/ ClaimCollected(id)
  \/ \E t \in Templates, content \in Contents \cup {Unusable} : Publish(t, content)

-----------------------------------------------------------------------------
Next ==
  \/ \E r \in Requests :
       \/ \E who \in Owners \cup {Blank}, t \in Templates : Arrive(r, who, t)
       \/ Serve(r)
       \/ Gateway(r)
  \/ Environment

Spec == Init /\ [][Next]_vars

\* Every handler keeps running: its goroutine is scheduled and each API call
\* ends within capListTimeout, with an answer or an error.
FairSpec == Spec /\ \A r \in Requests : WF_vars(Serve(r))

-----------------------------------------------------------------------------
(* Properties. *)

\* Places taken under a label: its live pods and the boxes granted to requests
\* that have passed the cap check and whose pod may still be created.
Holders(l) == {r \in Requests : req[r].pc \in Granting /\ Label(r) = l}
Occupied(l) == LivePodNames(l) \cup {Box(r) : r \in Holders(l)}

Slack == Cardinality(Requests) - 1

\* The list-then-create race lets an owner exceed the cap, but by less than
\* the number of requests in flight; with one request at a time, not at all.
CapOvershootBounded ==
  MaxPods > 0 => \A l \in Labels : Cardinality(Occupied(l)) <= MaxPods + Slack

\* One owner's race is that owner's alone: whoever takes a place found one free, up
\* to the logins under the same label that were between their own check and pod.
OvershootByOwnLogins ==
  [][MaxPods > 0 =>
       \A l \in Labels :
         \/ Occupied(l)' \subseteq Occupied(l)
         \/ Cardinality(Occupied(l)') <= MaxPods + Cardinality(Holders(l))]_vars

\* Reconnects always pass: an owner whose box has been live since the request
\* arrived is never told that the cap is reached (persistent.go enforceCap).
ReconnectNeverCapped ==
  \A r \in steady : ~(req[r].pc = "denied" /\ req[r].why = "cap")

\* A request refers only to claims carrying its own exact identity, although
\* claim names are short hashes and the create race may be lost to another box.
VerifiedClaimsMatch ==
  \A r \in Requests : req[r].pc \in Granting =>
    \A id \in vouched[r] :
      claims[id] # Blank /\ claims[id].ident = <<req[r].owner, req[r].template, id[2]>>

\* Retained means retained: a claim a box uses, or an answer refers to, never
\* disappears without an operator having deleted it first, whatever fails.
ClaimsInUse == UNION ({vouched[r] : r \in Requests} \cup {pods[n].mounts : n \in PodNames})
ClaimsRetained ==
  [][\A id \in ClaimsInUse :
       claims[id] # Blank /\ ~claims[id].terminating => claims'[id] # Blank]_vars

\* A login costs one listing and at most three calls for each claim, whatever
\* appears and vanishes under it: each call leaves fewer to be made.
CallsLeft(r) ==
  LET claimsLeft == Len(req[r].content.claims) - req[r].next + 1 IN
  CASE req[r].pc = "cap"    -> 3 * claimsLeft + 1
    [] req[r].pc = "get"    -> 3 * claimsLeft
    [] req[r].pc = "create" -> 3 * claimsLeft - 1
    [] req[r].pc = "reget"  -> 3 * claimsLeft - 2
RunsOn(r) ==
  \/ req'[r] = req[r]
  \/ req'[r].pc \notin Working
  \/ req'[r].pc \in Ensuring /\ CallsLeft(r)' \in 1..(CallsLeft(r) - 1)
CallsRunOut == [][\A r \in Requests : req[r].pc \in {"cap"} \cup Ensuring => RunsOn(r)]_vars

\* Every request is answered, with a configuration or a denial.
EveryRequestAnswered ==
  \A r \in Requests : req[r].pc \in Working ~> req[r].pc \notin Working

\* The quota an owner is promised, as an abstract specification.
Quota == INSTANCE BoxQuota WITH
  Names <- PodNames, Bound <- MaxPods + Slack, used <- [l \in Labels |-> Occupied(l)]
QuotaSpec == Quota!Spec
=============================================================================
