----------------------- MODULE PersistentBoxes_proofs -----------------------
(* What holds of PersistentBoxes for every value of its constants.         *)
EXTENDS PersistentBoxes, FiniteSetTheorems, TLAPS

-----------------------------------------------------------------------------
(* Moving one request on. *)

LEMMA DenyState ==
  ASSUME NEW q \in RequestStates, q.pc # "idle", NEW reason \in Reasons
  PROVE  [q EXCEPT !.pc = "denied", !.why = reason] \in RequestStates
BY DEF RequestStates, Ensuring, Granting

LEMMA GotoState ==
  ASSUME NEW q \in RequestStates, NEW step,
         \/ step = "plain" /\ q.pc = "load"
         \/ step = "granted" /\ q.pc \in {"cap"} \cup Granting
         \/ step \in {"create", "reget"} /\ q.pc \in Ensuring
         \/ step = "get" /\ q.pc = "cap" /\ q.next \in DOMAIN q.content.claims
  PROVE  [q EXCEPT !.pc = step] \in RequestStates
BY DEF RequestStates, Ensuring, Granting, Working

LEMMA DenyType ==
  ASSUME TypeOK, NEW r \in Requests, req[r].pc # "idle", NEW reason \in Reasons, Deny(r, reason)
  PROVE  req' \in [Requests -> RequestStates]
BY DenyState DEF TypeOK, Deny

LEMMA NextClaimType ==
  ASSUME TypeOK, NEW r \in Requests, req[r].pc \in Ensuring, NextClaim(r)
  PROVE  req' \in [Requests -> RequestStates]
<1>. DEFINE q == req[r]
            last == Len(q.content.claims)
<1>1. q \in RequestStates /\ q.content \in Contents
  BY DEF TypeOK, RequestStates, Ensuring, Granting
<1>2. q.content.claims \in Seq(ClaimNames) /\ q.next \in 1 .. last
  BY <1>1, ConstantsAssumption DEF ConstantsAssumption, RequestStates
<1>3. CASE q.next = last
  <2>1. [q EXCEPT !.pc = "granted"] \in RequestStates
    BY <1>1, GotoState DEF Ensuring, Granting
  <2>. QED
    BY <1>3, <2>1 DEF TypeOK, NextClaim, Goto
<1>4. CASE q.next # last
  <2>1. q.next + 1 \in DOMAIN q.content.claims /\ q.next + 1 \in Nat
    BY <1>2, <1>4
  <2>2. [q EXCEPT !.pc = "get", !.next = q.next + 1] \in RequestStates
    BY <1>1, <2>1 DEF RequestStates, Ensuring, Granting, Working
  <2>3. req' = [req EXCEPT ![r] = [q EXCEPT !.pc = "get", !.next = q.next + 1]]
    BY <1>4 DEF NextClaim
  <2>. QED
    BY <2>2, <2>3 DEF TypeOK
<1>. QED
  BY <1>3, <1>4

-----------------------------------------------------------------------------
(* The box, the label and the claim of a request past the identity check. *)

LEMMA BoxType ==
  ASSUME TypeOK, NEW r \in Requests, req[r].pc \in {"cap"} \cup Granting
  PROVE  /\ req[r].owner \in Owners /\ req[r].template \in Templates
         /\ req[r].content \in Contents
         /\ Box(r) \in PodNames /\ Label(r) \in Labels
         /\ Mounts(r) \subseteq ClaimIds
<1>1. req[r].owner \in Owners /\ req[r].template \in Templates /\ req[r].content \in Contents
  BY DEF TypeOK, RequestStates, Ensuring, Granting
<1>2. Box(r) \in PodNames /\ Label(r) \in Labels
  BY <1>1, ConstantsAssumption DEF ConstantsAssumption, Box, Label
<1>3. \A i \in DOMAIN req[r].content.claims : req[r].content.claims[i] \in ClaimNames
  BY <1>1, ConstantsAssumption DEF ConstantsAssumption
<1>. QED
  BY <1>1, <1>2, <1>3 DEF Mounts, ClaimIds

LEMMA ClaimType ==
  ASSUME TypeOK, NEW r \in Requests, req[r].pc \in Ensuring
  PROVE  /\ Claim(r) \in ClaimNames
         /\ ClaimId(r) \in ClaimIds
         /\ NewClaim(r) \in ClaimObjects
<1>1. req[r].pc \in {"cap"} \cup Granting
  BY DEF Ensuring, Granting
<1>2. req[r].content.claims \in Seq(ClaimNames) /\ req[r].next \in DOMAIN req[r].content.claims
  BY <1>1, BoxType, ConstantsAssumption DEF ConstantsAssumption, TypeOK, RequestStates
<1>3. Claim(r) \in ClaimNames
  BY <1>2 DEF Claim
<1>. QED
  BY <1>1, <1>3, BoxType DEF ClaimId, ClaimIds, Identity, Identities, NewClaim, ClaimObjects

LEMMA VerifyType ==
  ASSUME TypeOK, NEW r \in Requests, req[r].pc \in Ensuring, Verify(r)
  PROVE  req' \in [Requests -> RequestStates] /\ vouched' \in [Requests -> SUBSET ClaimIds]
<1>1. CASE Verified(r)
  BY <1>1, NextClaimType, ClaimType DEF Verified, TypeOK
<1>2. CASE Deny(r, "claim") /\ UNCHANGED vouched
  BY <1>2, DenyType DEF TypeOK, Reasons, Ensuring
<1>. QED
  BY <1>1, <1>2 DEF Verify

-----------------------------------------------------------------------------
(* Type correctness. *)

LEMMA InitType == Init => TypeOK
BY ConstantsAssumption DEF ConstantsAssumption, Init, TypeOK, RequestStates, NoPod, NoRequest,
   Ensuring, Granting, Working, Phases, Reasons

LEMMA NextType == TypeOK /\ [Next]_vars => TypeOK'
<1>. SUFFICES ASSUME TypeOK, [Next]_vars PROVE TypeOK'
  OBVIOUS
<1>1. ASSUME NEW r \in Requests, NEW who \in Owners \cup {Blank}, NEW t \in Templates,
             Arrive(r, who, t)
      PROVE  TypeOK'
  <2>1. [NoRequest EXCEPT !.pc = "load", !.owner = who, !.template = t] \in RequestStates
    BY ConstantsAssumption DEF ConstantsAssumption, NoRequest, RequestStates,
       Ensuring, Granting, Working, Reasons
  <2>. QED
    BY <1>1, <2>1 DEF Arrive, TypeOK
<1>2. ASSUME NEW r \in Requests, Load(r) PROVE TypeOK'
  <2>. DEFINE content == files[req[r].template]
  <2>1. req[r] \in RequestStates /\ req[r].pc = "load" /\ content \in Contents \cup {Unusable}
    BY <1>2, ConstantsAssumption DEF ConstantsAssumption, Load, TypeOK, RequestStates
  <2>2. req' \in [Requests -> RequestStates]
    <3>1. CASE Deny(r, "template") \/ Deny(r, "identity")
      BY <2>1, <3>1, DenyType DEF Reasons
    <3>2. CASE Goto(r, "plain")
      BY <2>1, <3>2, GotoState DEF TypeOK, Goto
    <3>3. CASE /\ content # Unusable /\ req[r].owner # Blank
               /\ req' = [req EXCEPT ![r] = [@ EXCEPT !.pc = "cap", !.content = content]]
      <4>1. [req[r] EXCEPT !.pc = "cap", !.content = content] \in RequestStates
        BY <2>1, <3>3 DEF RequestStates, Ensuring, Granting, Working
      <4>. QED
        BY <3>3, <4>1 DEF TypeOK
    <3>. QED
      BY <1>2, <2>1, <3>1, <3>2, <3>3, ConstantsAssumption DEF ConstantsAssumption, Load
  <2>. QED
    BY <1>2, <2>2 DEF Load, TypeOK
<1>3. ASSUME NEW r \in Requests, CheckCap(r) PROVE TypeOK'
  <2>1. req[r] \in RequestStates /\ req[r].pc = "cap" /\ req[r].content.claims \in Seq(ClaimNames)
    BY <1>3, BoxType, ConstantsAssumption DEF ConstantsAssumption, CheckCap, TypeOK
  <2>2. req' \in [Requests -> RequestStates]
    <3>1. CASE Deny(r, "cap")
      BY <2>1, <3>1, DenyType DEF Reasons
    <3>2. CASE Goto(r, "granted")
      BY <2>1, <3>2, GotoState DEF TypeOK, Goto
    <3>3. CASE Goto(r, "get") /\ req[r].content.claims # <<>>
      <4>1. req[r].next \in DOMAIN req[r].content.claims
        BY <2>1, <3>3 DEF RequestStates
      <4>. QED
        BY <2>1, <3>3, <4>1, GotoState DEF TypeOK, Goto
    <3>. QED
      BY <1>3, <3>1, <3>2, <3>3 DEF CheckCap
  <2>. QED
    BY <1>3, <2>2 DEF CheckCap, TypeOK
<1>4. ASSUME NEW r \in Requests, GetClaim(r) PROVE TypeOK'
  <2>1. req[r].pc \in Ensuring
    BY <1>4 DEF GetClaim, Ensuring
  <2>2. CASE Goto(r, "create") /\ UNCHANGED vouched
    BY <1>4, <2>1, <2>2, GotoState DEF GetClaim, TypeOK, Goto
  <2>3. CASE Verify(r)
    BY <1>4, <2>1, <2>3, VerifyType DEF GetClaim, TypeOK
  <2>. QED
    BY <1>4, <2>2, <2>3 DEF GetClaim
<1>5. ASSUME NEW r \in Requests, CreateClaim(r) PROVE TypeOK'
  <2>1. req[r].pc \in Ensuring
    BY <1>5 DEF CreateClaim, Ensuring
  <2>2. claims' \in [ClaimIds -> ClaimObjects \cup {Blank}]
    BY <1>5, <2>1, ClaimType DEF CreateClaim, TypeOK
  <2>3. req' \in [Requests -> RequestStates] /\ vouched' \in [Requests -> SUBSET ClaimIds]
    BY <1>5, <2>1, ClaimType, NextClaimType DEF CreateClaim, Verified, TypeOK
  <2>. QED
    BY <1>5, <2>2, <2>3 DEF CreateClaim, TypeOK
<1>6. ASSUME NEW r \in Requests, LoseCreateRace(r) PROVE TypeOK'
  BY <1>6, GotoState DEF LoseCreateRace, AlreadyExists, Goto, TypeOK, Ensuring
<1>7. ASSUME NEW r \in Requests, RegetClaim(r) PROVE TypeOK'
  <2>1. req[r].pc \in Ensuring
    BY <1>7 DEF RegetClaim, Ensuring
  <2>2. CASE Deny(r, "api") /\ UNCHANGED vouched
    BY <1>7, <2>1, <2>2, DenyType DEF RegetClaim, TypeOK, Ensuring, Reasons
  <2>3. CASE Verify(r)
    BY <1>7, <2>1, <2>3, VerifyType DEF RegetClaim, TypeOK
  <2>. QED
    BY <1>7, <2>2, <2>3 DEF RegetClaim, ClaimVanished
<1>8. ASSUME NEW r \in Requests, CallFails(r) PROVE TypeOK'
  BY <1>8, DenyType DEF CallFails, KeepClaims, TypeOK, Working, Ensuring, Reasons
<1>9. ASSUME NEW r \in Requests, CreateAnswerLost(r) PROVE TypeOK'
  <2>1. req' \in [Requests -> RequestStates]
    BY <1>9, DenyType DEF CreateAnswerLost, Reasons
  <2>2. claims' \in [ClaimIds -> ClaimObjects \cup {Blank}]
    BY <1>9, ClaimType DEF CreateAnswerLost, TypeOK, Ensuring
  <2>. QED
    BY <1>9, <2>1, <2>2 DEF CreateAnswerLost, TypeOK
<1>10. ASSUME NEW r \in Requests, Gateway(r) PROVE TypeOK'
  <2>1. NoRequest \in RequestStates
    BY DEF NoRequest, RequestStates, Ensuring, Granting, Working, Reasons
  <2>2. CASE CreatePod(r)
    <3>1. [phase |-> "live", label |-> Label(r), mounts |-> Mounts(r)]
            \in [phase : Phases, label : Labels \cup {Blank}, mounts : SUBSET ClaimIds]
      BY <2>2, BoxType DEF CreatePod, Granting, Phases
    <3>. QED
      BY <2>1, <2>2, <3>1 DEF CreatePod, Forget, TypeOK
  <2>3. CASE Leave(r)
    BY <2>1, <2>3 DEF Leave, Forget, TypeOK
  <2>4. CASE Retry(r)
    <3>. DEFINE q == [NoRequest EXCEPT !.pc = "load", !.owner = req[r].owner,
                                       !.template = req[r].template]
    <3>1. req[r] \in RequestStates /\ req[r].pc = "denied"
      BY <2>4 DEF Retry, TypeOK
    <3>2. q \in RequestStates
      BY <3>1 DEF NoRequest, RequestStates, Ensuring, Granting, Working, Reasons
    <3>. QED
      BY <2>4, <3>2 DEF Retry, TypeOK
  <2>. QED
    BY <1>10, <2>2, <2>3, <2>4 DEF Gateway
<1>11. CASE Environment
  <2>1. ASSUME NEW n \in PodNames, PodEnds(n) \/ PodDeleted(n) \/ PodGone(n)
        PROVE  TypeOK'
    BY <2>1 DEF PodEnds, PodDeleted, PodGone, Disturb, NoPod, Phases, TypeOK
  <2>2. ASSUME NEW id \in ClaimIds, ClaimDeleted(id) \/ ClaimGone(id) \/ ClaimCollected(id)
        PROVE  TypeOK'
    <3>1. CASE ClaimDeleted(id)
      <4>1. claims[id] \in ClaimObjects
        BY <3>1 DEF ClaimDeleted, TypeOK
      <4>2. [claims[id] EXCEPT !.terminating = TRUE] \in ClaimObjects
        BY <4>1 DEF ClaimObjects
      <4>. QED
        BY <3>1, <4>2 DEF ClaimDeleted, TypeOK
    <3>2. CASE Drop(id)
      BY <3>2 DEF Drop, TypeOK
    <3>. QED
      BY <2>2, <3>1, <3>2 DEF ClaimGone, ClaimCollected
  <2>3. ASSUME NEW t \in Templates, NEW content \in Contents \cup {Unusable}, Publish(t, content)
        PROVE  TypeOK'
    BY <2>3 DEF Publish, TypeOK
  <2>. QED
    BY <1>11, <2>1, <2>2, <2>3 DEF Environment
<1>12. CASE UNCHANGED vars
  BY <1>12 DEF vars, TypeOK
<1>. QED
  BY <1>1, <1>2, <1>3, <1>4, <1>5, <1>6, <1>7, <1>8, <1>9, <1>10, <1>11, <1>12 DEF Next, Serve

\* The state space is the one described: in particular a request inside
\* ensureClaim always stands at a claim of the template it loaded.
THEOREM TypeCorrect == Spec => []TypeOK
BY InitType, NextType, PTL DEF Spec

-----------------------------------------------------------------------------
(* The cap.  Every step either takes no place under any label, or is the    *)
(* cap check of one request whose listing showed a free place.              *)

\* A set of names indexed by requests is no larger than the set of requests.
LEMMA BoxesOfRequests ==
  ASSUME NEW S \in SUBSET Requests
  PROVE  /\ IsFiniteSet({Box(r) : r \in S})
         /\ Cardinality({Box(r) : r \in S}) <= Cardinality(S)
<1>. DEFINE T == {Box(r) : r \in S}
            f == [r \in S |-> Box(r)]
<1>1. IsFiniteSet(S)
  BY FS_Subset, ConstantsAssumption DEF ConstantsAssumption
<1>2. f \in Surjection(S, T)
  BY DEF Surjection
<1>. QED
  BY <1>1, <1>2, FS_Surjection

LEMMA UnionSize ==
  ASSUME NEW S, IsFiniteSet(S), NEW T, IsFiniteSet(T)
  PROVE  IsFiniteSet(S \cup T) /\ Cardinality(S \cup T) <= Cardinality(S) + Cardinality(T)
<1>1. IsFiniteSet(S \cap T)
  BY FS_Subset, S \cap T \in SUBSET S
<1>2. Cardinality(S) \in Nat /\ Cardinality(T) \in Nat /\ Cardinality(S \cap T) \in Nat
  BY <1>1, FS_CardinalityType
<1>3. /\ IsFiniteSet(S \cup T)
      /\ Cardinality(S \cup T) = Cardinality(S) + Cardinality(T) - Cardinality(S \cap T)
  BY FS_Union
<1>. QED
  BY <1>2, <1>3

LEMMA OccupiedSize ==
  ASSUME NEW l \in Labels
  PROVE  /\ IsFiniteSet(LivePodNames(l)) /\ IsFiniteSet(Occupied(l))
         /\ Cardinality(Occupied(l)) <= Cardinality(LivePodNames(l)) + Cardinality(Holders(l))
<1>. DEFINE B == {Box(r) : r \in Holders(l)}
<1>1. IsFiniteSet(LivePodNames(l))
  BY FS_Subset, ConstantsAssumption DEF ConstantsAssumption, LivePodNames
<1>2. IsFiniteSet(B) /\ Cardinality(B) <= Cardinality(Holders(l))
  BY BoxesOfRequests DEF Holders
<1>3. IsFiniteSet(Holders(l))
  BY FS_Subset, ConstantsAssumption DEF ConstantsAssumption, Holders
<1>4. /\ IsFiniteSet(LivePodNames(l) \cup B)
      /\ Cardinality(LivePodNames(l) \cup B) <= Cardinality(LivePodNames(l)) + Cardinality(B)
  BY <1>1, <1>2, UnionSize
<1>5. /\ Cardinality(LivePodNames(l)) \in Nat /\ Cardinality(B) \in Nat
      /\ Cardinality(Holders(l)) \in Nat /\ Cardinality(LivePodNames(l) \cup B) \in Nat
  BY <1>1, <1>2, <1>3, <1>4, FS_CardinalityType
<1>6. Occupied(l) = LivePodNames(l) \cup B
  BY DEF Occupied
<1>. HIDE DEF B
<1>. QED
  BY <1>1, <1>2, <1>4, <1>5, <1>6

\* No request gets past its cap check, or changes its box behind it.
Stays == \A q \in Requests : req'[q].pc \in Granting =>
           /\ req[q].pc \in Granting
           /\ req'[q].owner = req[q].owner /\ req'[q].template = req[q].template

\* A step that makes no pod live and takes no request past its cap check.
LEMMA QuietStep ==
  ASSUME \A l \in Labels : LivePodNames(l)' \subseteq LivePodNames(l),
         Stays
  PROVE  \A l \in Labels : Occupied(l)' \subseteq Occupied(l)
BY DEF Stays, Occupied, Holders, Box, Label

\* The ways a request moves on without getting past the cap check.
LEMMA MovesStay ==
  ASSUME TypeOK, NEW r \in Requests,
         \/ \E reason \in Reasons : Deny(r, reason)
         \/ Goto(r, "plain")
         \/ req[r].pc \in Granting /\ NextClaim(r)
         \/ req[r].pc \in Granting /\ \E step \in Working : Goto(r, step)
         \/ \E q \in RequestStates : q.pc \notin Granting /\ req' = [req EXCEPT ![r] = q]
  PROVE  Stays
<1>1. CASE \E q \in RequestStates : q.pc \notin Granting /\ req' = [req EXCEPT ![r] = q]
  BY <1>1 DEF TypeOK, Stays
<1>2. CASE (\E reason \in Reasons : Deny(r, reason)) \/ Goto(r, "plain")
  <2>1. req'[r].pc \notin Granting
    <3>1. DOMAIN req[r] = {"pc", "owner", "template", "content", "next", "why"} /\ req = [q \in Requests |-> req[q]]
      BY DEF TypeOK, RequestStates
    <3>2. ASSUME NEW reason \in Reasons, Deny(r, reason) PROVE req'[r].pc = "denied"
      BY <3>1, <3>2 DEF Deny
    <3>3. ASSUME Goto(r, "plain") PROVE req'[r].pc = "plain"
      BY <3>1, <3>3 DEF Goto
    <3>. QED
      BY <1>2, <3>2, <3>3 DEF Granting, Ensuring
  <2>2. \A q \in Requests \ {r} : req'[q] = req[q]
    BY <1>2 DEF TypeOK, Deny, Goto
  <2>. QED
    BY <2>1, <2>2 DEF Stays
<1>3. CASE req[r].pc \in Granting /\ (NextClaim(r) \/ \E step \in Working : Goto(r, step))
  <2>1. req'[r].owner = req[r].owner /\ req'[r].template = req[r].template
    <3>1. DOMAIN req[r] = {"pc", "owner", "template", "content", "next", "why"} /\ req = [q \in Requests |-> req[q]]
      BY DEF TypeOK, RequestStates
    <3>2. CASE \E step \in Working : Goto(r, step)
      BY <3>1, <3>2 DEF Goto
    <3>3. CASE req' = [req EXCEPT ![r] = [req[r] EXCEPT !.pc = "get", !.next = req[r].next + 1]]
      BY <3>1, <3>3
    <3>4. CASE Goto(r, "granted")
      BY <3>1, <3>4 DEF Goto
    <3>. QED
      BY <1>3, <3>2, <3>3, <3>4 DEF NextClaim
  <2>2. \A q \in Requests \ {r} : req'[q] = req[q]
    BY <1>3 DEF TypeOK, NextClaim, Goto
  <2>. QED
    BY <1>3, <2>1, <2>2 DEF Stays
<1>. QED
  BY <1>1, <1>2, <1>3

\* The only step that takes a place.
Takes(r) ==
  /\ req[r].pc = "cap"
  /\ CapAllows(LivePodNames(Label(r)), Box(r))
  /\ \A l \in Labels :
       Occupied(l)' = IF l = Label(r) THEN Occupied(l) \cup {Box(r)} ELSE Occupied(l)

LEMMA StepTakesOrNot ==
  ASSUME TypeOK, [Next]_vars
  PROVE  \/ \A l \in Labels : Occupied(l)' \subseteq Occupied(l)
         \/ \E r \in Requests : Takes(r)
<1>. DEFINE Quiet == \A l \in Labels : Occupied(l)' \subseteq Occupied(l)
<1>. DEFINE LiveKept == \A l \in Labels : LivePodNames(l)' = LivePodNames(l)
<1>0. UNCHANGED pods => LiveKept
  BY DEF LivePodNames
<1>1. ASSUME NEW r \in Requests, NEW who \in Owners \cup {Blank}, NEW t \in Templates,
             Arrive(r, who, t)
      PROVE  Quiet
  <2>. DEFINE q == [NoRequest EXCEPT !.pc = "load", !.owner = who, !.template = t]
  <2>1. q \in RequestStates /\ q.pc \notin Granting
    BY ConstantsAssumption DEF ConstantsAssumption, NoRequest, RequestStates,
       Ensuring, Granting, Working, Reasons
  <2>. QED
    BY <1>0, <1>1, <2>1, MovesStay, QuietStep DEF Arrive
<1>2. ASSUME NEW r \in Requests, Load(r) PROVE Quiet
  <2>. DEFINE content == files[req[r].template]
              q == [req[r] EXCEPT !.pc = "cap", !.content = content]
  <2>1. CASE Deny(r, "template") \/ Deny(r, "identity") \/ Goto(r, "plain")
    BY <1>0, <1>2, <2>1, MovesStay, QuietStep DEF Load, Reasons
  <2>2. CASE req' = [req EXCEPT ![r] = q]
    <3>1. q.pc = "cap" /\ \A p \in Requests \ {r} : req'[p] = req[p]
      BY <2>2 DEF TypeOK, RequestStates
    <3>2. Stays
      BY <2>2, <3>1 DEF Stays, TypeOK, Granting, Ensuring
    <3>. QED
      BY <1>0, <1>2, <3>2, QuietStep DEF Load
  <2>. QED
    BY <1>2, <2>1, <2>2 DEF Load
<1>3. ASSUME NEW r \in Requests, CheckCap(r) PROVE Quiet \/ Takes(r)
  <2>1. CASE Deny(r, "cap")
    BY <1>0, <1>3, <2>1, MovesStay, QuietStep DEF CheckCap, Reasons
  <2>2. CASE CapAllows(LivePodNames(Label(r)), Box(r)) /\ (Goto(r, "granted") \/ Goto(r, "get"))
    <3>1. LiveKept
      BY <1>0, <1>3 DEF CheckCap
    <3>0. DOMAIN req[r] = {"pc", "owner", "template", "content", "next", "why"} /\ req = [q \in Requests |-> req[q]]
      BY DEF TypeOK, RequestStates
    <3>a. /\ req'[r].owner = req[r].owner /\ req'[r].template = req[r].template
          /\ req'[r].pc \in {"granted", "get"}
          /\ \A q \in Requests \ {r} : req'[q] = req[q]
      BY <2>2, <3>0 DEF Goto
    <3>2. /\ req'[r].owner = req[r].owner /\ req'[r].template = req[r].template
          /\ req'[r].pc \in Granting /\ req[r].pc \notin Granting
          /\ \A q \in Requests \ {r} : req'[q] = req[q]
      BY <1>3, <3>a DEF CheckCap, Granting, Ensuring
    <3>3. \A q \in Requests : Box(q)' = Box(q) /\ Label(q)' = Label(q)
      BY <3>2 DEF Box, Label
    <3>4. \A l \in Labels : Holders(l)' = IF l = Label(r) THEN Holders(l) \cup {r} ELSE Holders(l)
      BY <3>2, <3>3 DEF Holders
    <3>5. \A l \in Labels : Holders(l) \subseteq Requests
      BY DEF Holders
    <3>. QED
      BY <1>3, <2>2, <3>1, <3>3, <3>4, <3>5 DEF CheckCap, Takes, Occupied
  <2>. QED
    BY <1>3, <2>1, <2>2 DEF CheckCap
<1>4. ASSUME NEW r \in Requests, req[r].pc \in Ensuring, UNCHANGED pods,
             NextClaim(r) \/ Deny(r, "api") \/ Deny(r, "claim") \/ Goto(r, "create") \/ Goto(r, "reget")
      PROVE  Quiet
  <2>1. Stays
    BY <1>4, MovesStay DEF Granting, Working, Ensuring, Reasons
  <2>. QED
    BY <1>0, <1>4, <2>1, QuietStep
<1>5. ASSUME NEW r \in Requests, GetClaim(r) \/ CreateClaim(r) \/ LoseCreateRace(r) \/ RegetClaim(r)
                                  \/ CreateAnswerLost(r)
      PROVE  Quiet
  BY <1>4, <1>5 DEF GetClaim, CreateClaim, LoseCreateRace, RegetClaim, CreateAnswerLost, AlreadyExists,
     ClaimVanished, Verify, Verified, Ensuring
<1>6. ASSUME NEW r \in Requests, CallFails(r) PROVE Quiet
  BY <1>0, <1>6, MovesStay, QuietStep DEF CallFails, Reasons
<1>7. ASSUME NEW r \in Requests, CreatePod(r) PROVE Quiet
  <2>1. r \in Holders(Label(r)) /\ Box(r) \in PodNames /\ Label(r) \in Labels
    BY <1>7, BoxType DEF CreatePod, Holders, Granting
  <2>2. \A l \in Labels :
          LivePodNames(l)' \subseteq LivePodNames(l) \cup (IF l = Label(r) THEN {Box(r)} ELSE {})
    BY <1>7, <2>1 DEF CreatePod, LivePodNames, TypeOK
  <2>3. Stays
    <3>1. NoRequest \in RequestStates /\ NoRequest.pc \notin Granting
      BY DEF NoRequest, RequestStates, Ensuring, Granting, Working, Reasons
    <3>. QED
      BY <1>7, <3>1, MovesStay DEF CreatePod, Forget
  <2>4. \A l \in Labels : /\ Holders(l)' \subseteq Holders(l)
                          /\ \A q \in Holders(l)' : Box(q)' = Box(q)
    BY <2>3 DEF Stays, Holders, Box, Label
  <2>5. \A l \in Labels : l = Label(r) => Box(r) \in Occupied(l)
    BY <2>1 DEF Occupied
  <2>. QED
    BY <2>2, <2>4, <2>5 DEF Occupied
<1>8. ASSUME NEW r \in Requests, Leave(r) \/ Retry(r) PROVE Quiet
  <2>1. \E q \in RequestStates : q.pc \notin Granting /\ req' = [req EXCEPT ![r] = q]
    <3>1. NoRequest \in RequestStates /\ NoRequest.pc \notin Granting
      BY DEF NoRequest, RequestStates, Ensuring, Granting, Working, Reasons
    <3>2. ASSUME Retry(r)
          PROVE  [NoRequest EXCEPT !.pc = "load", !.owner = req[r].owner,
                                   !.template = req[r].template] \in {q \in RequestStates : q.pc \notin Granting}
      <4>1. req[r] \in RequestStates /\ req[r].pc = "denied"
        BY <3>2 DEF Retry, TypeOK
      <4>. QED
        BY <4>1 DEF NoRequest, RequestStates, Ensuring, Granting, Working, Reasons
    <3>. QED
      BY <1>8, <3>1, <3>2 DEF Leave, Retry, Forget
  <2>. QED
    BY <1>0, <1>8, <2>1, MovesStay, QuietStep DEF Leave, Retry
<1>9. CASE Environment
  <2>1. ASSUME NEW n \in PodNames, PodEnds(n) \/ PodDeleted(n) \/ PodGone(n) PROVE Quiet
    <3>1. \A l \in Labels : LivePodNames(l)' \subseteq LivePodNames(l)
      BY <2>1 DEF PodEnds, PodDeleted, PodGone, NoPod, LivePodNames, TypeOK
    <3>. QED
      BY <2>1, <3>1, QuietStep DEF PodEnds, PodDeleted, PodGone, Stays
  <2>2. CASE UNCHANGED <<pods, req>>
    BY <1>0, <2>2, QuietStep DEF Stays
  <2>. QED
    BY <1>9, <2>1, <2>2
       DEF Environment, ClaimDeleted, ClaimGone, ClaimCollected, Drop, Publish
<1>10. CASE UNCHANGED vars
  BY <1>0, <1>10, QuietStep DEF vars, Stays
<1>. QED
  BY <1>1, <1>2, <1>3, <1>5, <1>6, <1>7, <1>8, <1>9, <1>10 DEF Next, Serve, Gateway

\* The listing showed a free place, so with the other requests in flight fewer
\* than MaxPods + Slack places were taken.
LEMMA RoomWhenTaken ==
  ASSUME TypeOK, MaxPods > 0, NEW r \in Requests, Takes(r), Box(r) \notin LivePodNames(Label(r))
  PROVE  /\ Label(r) \in Labels
         /\ Cardinality(Occupied(Label(r))) \in Nat
         /\ Cardinality(Occupied(Label(r))) < MaxPods + Slack
<1>. DEFINE l == Label(r)
<1>1. l \in Labels
  BY BoxType DEF Takes
<1>2. MaxPods \in Int /\ IsFiniteSet(Requests)
  BY ConstantsAssumption DEF ConstantsAssumption
<1>3. Cardinality(LivePodNames(l)) < MaxPods
  BY <1>2 DEF Takes, CapAllows
<1>4. /\ IsFiniteSet(Requests \ {r}) /\ Cardinality(Requests) \in Nat
      /\ Cardinality(Requests \ {r}) = Slack
  BY <1>2, FS_RemoveElement, FS_CardinalityType DEF Slack
<1>5. Holders(l) \in SUBSET (Requests \ {r})
  BY DEF Holders, Takes, Granting, Ensuring
<1>6. IsFiniteSet(Holders(l)) /\ Cardinality(Holders(l)) <= Slack
  BY <1>4, <1>5, FS_Subset
<1>7. /\ IsFiniteSet(LivePodNames(l)) /\ IsFiniteSet(Occupied(l))
      /\ Cardinality(Occupied(l)) <= Cardinality(LivePodNames(l)) + Cardinality(Holders(l))
  BY <1>1, OccupiedSize
<1>8. /\ Cardinality(LivePodNames(l)) \in Nat /\ Cardinality(Occupied(l)) \in Nat
      /\ Cardinality(Holders(l)) \in Nat /\ Slack \in Int
  BY <1>4, <1>6, <1>7, FS_CardinalityType DEF Slack
<1>. HIDE DEF l
<1>9. Cardinality(Occupied(l)) < MaxPods + Slack
  BY <1>2, <1>3, <1>6, <1>7, <1>8
<1>. QED
  BY <1>1, <1>8, <1>9 DEF l

-----------------------------------------------------------------------------
(* The promise of the cap. *)

LEMMA CapInit == Init => CapOvershootBounded
<1>. SUFFICES ASSUME Init, MaxPods > 0, NEW l \in Labels
              PROVE  Cardinality(Occupied(l)) <= MaxPods + Slack
  BY DEF CapOvershootBounded
<1>1. Occupied(l) = {}
  BY DEF Init, Occupied, LivePodNames, Holders, NoPod, NoRequest, Granting, Ensuring
<1>2. Cardinality({}) = 0
  BY FS_EmptySet
<1>3. Cardinality(Requests) \in Nat /\ Cardinality(Requests) # 0 /\ MaxPods \in Int
  BY ConstantsAssumption, FS_CardinalityType, FS_EmptySet DEF ConstantsAssumption
<1>. QED
  BY <1>1, <1>2, <1>3 DEF Slack

LEMMA CapNext == TypeOK /\ CapOvershootBounded /\ [Next]_vars => CapOvershootBounded'
<1>. SUFFICES ASSUME TypeOK, CapOvershootBounded, [Next]_vars, MaxPods > 0, NEW l \in Labels
              PROVE  Cardinality(Occupied(l)') <= MaxPods + Slack
  BY DEF CapOvershootBounded, Slack
<1>0. /\ MaxPods \in Int /\ Slack \in Int
      /\ IsFiniteSet(Occupied(l)) /\ Cardinality(Occupied(l)) \in Nat
      /\ Cardinality(Occupied(l)) <= MaxPods + Slack
  BY OccupiedSize, ConstantsAssumption, FS_CardinalityType
     DEF ConstantsAssumption, Slack, CapOvershootBounded
<1>1. ASSUME Occupied(l)' \subseteq Occupied(l)
      PROVE  Cardinality(Occupied(l)') <= MaxPods + Slack
  <2>. DEFINE S == Occupied(l)
              T == Occupied(l)'
  <2>1. T \in SUBSET S
    BY <1>1
  <2>. HIDE DEF S, T
  <2>2. IsFiniteSet(T) /\ Cardinality(T) <= Cardinality(S)
    BY <1>0, <2>1, FS_Subset DEF S
  <2>3. Cardinality(T) \in Nat
    BY <2>2, FS_CardinalityType
  <2>. QED
    BY <1>0, <2>2, <2>3 DEF S, T
<1>2. ASSUME NEW r \in Requests, Takes(r)
      PROVE  Cardinality(Occupied(l)') <= MaxPods + Slack
  <2>1. CASE l = Label(r) /\ Box(r) \notin LivePodNames(l)
    <3>1. Cardinality(Occupied(l)) < MaxPods + Slack
      BY <1>2, <2>1, RoomWhenTaken
    <3>2. Occupied(l)' = Occupied(l) \cup {Box(r)}
      BY <1>2, <2>1 DEF Takes
    <3>3. Cardinality(Occupied(l) \cup {Box(r)}) <= Cardinality(Occupied(l)) + 1
      BY <1>0, FS_AddElement
    <3>4. Cardinality(Occupied(l) \cup {Box(r)}) \in Nat
      BY <1>0, FS_AddElement, FS_CardinalityType
    <3>. QED
      BY <1>0, <3>1, <3>2, <3>3, <3>4
  <2>2. CASE l # Label(r) \/ Box(r) \in LivePodNames(l)
    <3>1. Occupied(l)' = Occupied(l)
      BY <1>2, <2>2 DEF Takes, Occupied
    <3>. QED
      BY <1>1, <3>1
  <2>. QED
    BY <2>1, <2>2
<1>. QED
  BY <1>1, <1>2, StepTakesOrNot

\* For any number of owners, templates and requests: an owner's live boxes and
\* the boxes granted but not yet created never exceed the cap by as much as the
\* number of requests in flight (persistent.go enforceCap).
THEOREM CapBound == Spec => []CapOvershootBounded
<1>1. Init => TypeOK /\ CapOvershootBounded
  BY InitType, CapInit
<1>2. TypeOK /\ CapOvershootBounded /\ [Next]_vars => TypeOK' /\ CapOvershootBounded'
  BY NextType, CapNext
<1>. QED
  BY <1>1, <1>2, PTL DEF Spec

\* What a step that takes a place has seen of the owner's other logins.
LEMMA OwnRoomWhenTaken ==
  ASSUME TypeOK, MaxPods > 0, NEW r \in Requests, Takes(r), NEW l \in Labels
  PROVE  \/ Occupied(l)' \subseteq Occupied(l)
         \/ Cardinality(Occupied(l)') <= MaxPods + Cardinality(Holders(l))
<1>1. CASE l # Label(r) \/ Box(r) \in LivePodNames(l)
  BY <1>1 DEF Takes, Occupied
<1>2. CASE l = Label(r) /\ Box(r) \notin LivePodNames(l)
  <2>1. MaxPods \in Int
    BY ConstantsAssumption DEF ConstantsAssumption
  <2>2. Cardinality(LivePodNames(l)) < MaxPods
    BY <1>2, <2>1 DEF Takes, CapAllows
  <2>3. /\ IsFiniteSet(LivePodNames(l)) /\ IsFiniteSet(Occupied(l)) /\ IsFiniteSet(Holders(l))
        /\ Cardinality(Occupied(l)) <= Cardinality(LivePodNames(l)) + Cardinality(Holders(l))
    BY OccupiedSize, FS_Subset, ConstantsAssumption DEF ConstantsAssumption, Holders
  <2>4. /\ IsFiniteSet(Occupied(l) \cup {Box(r)})
        /\ Cardinality(Occupied(l) \cup {Box(r)}) <= Cardinality(Occupied(l)) + 1
    <3>1. Cardinality(Occupied(l)) \in Nat
      BY <2>3, FS_CardinalityType
    <3>2. IsFiniteSet(Occupied(l) \cup {Box(r)})
      BY <2>3, FS_AddElement
    <3>3. Cardinality(Occupied(l) \cup {Box(r)}) =
            IF Box(r) \in Occupied(l) THEN Cardinality(Occupied(l)) ELSE Cardinality(Occupied(l)) + 1
      BY <2>3, FS_AddElement
    <3>. QED
      BY <3>1, <3>2, <3>3
  <2>5. Occupied(l)' = Occupied(l) \cup {Box(r)}
    BY <1>2 DEF Takes
  <2>6. /\ Cardinality(LivePodNames(l)) \in Nat /\ Cardinality(Occupied(l)) \in Nat
        /\ Cardinality(Holders(l)) \in Nat /\ Cardinality(Occupied(l) \cup {Box(r)}) \in Nat
    BY <2>3, <2>4, FS_CardinalityType
  <2>. QED
    BY <2>1, <2>2, <2>3, <2>4, <2>5, <2>6
<1>. QED
  BY <1>1, <1>2

\* Whoever exceeds the cap is in a race with logins of the same owner: the logins of
\* other owners count for nothing (persistent.go enforceCap lists by owner label).
THEOREM OvershootIsOwn == Spec => OvershootByOwnLogins
<1>1. TypeOK /\ [Next]_vars =>
        (MaxPods > 0 =>
           \A l \in Labels :
             \/ Occupied(l)' \subseteq Occupied(l)
             \/ Cardinality(Occupied(l)') <= MaxPods + Cardinality(Holders(l)))
  BY StepTakesOrNot, OwnRoomWhenTaken
<1>. QED
  BY <1>1, TypeCorrect, PTL DEF Spec, OvershootByOwnLogins

-----------------------------------------------------------------------------
(* The calls of a login run out. *)

LEMMA CallsNext ==
  ASSUME TypeOK, [Next]_vars, NEW q \in Requests, req[q].pc \in {"cap"} \cup Ensuring
  PROVE  RunsOn(q)
<1>. DEFINE n == Len(req[q].content.claims)
<1>1. /\ DOMAIN req[q] = {"pc", "owner", "template", "content", "next", "why"}
      /\ req = [r \in Requests |-> req[r]]
      /\ req[q].pc # "idle"
  BY DEF TypeOK, RequestStates, Ensuring
<1>2. /\ n \in Nat /\ req[q].next \in Nat
      /\ DOMAIN req[q].content.claims = 1..n
      /\ req[q].pc = "cap" => req[q].next = 1
      /\ req[q].pc \in Ensuring => req[q].next \in 1..n
  <2>1. req[q] \in RequestStates /\ req[q].content.claims \in Seq(ClaimNames)
    BY BoxType, ConstantsAssumption DEF ConstantsAssumption, TypeOK, Granting, Ensuring
  <2>. QED
    BY <2>1 DEF RequestStates
<1>now. /\ req[q].pc = "cap" => CallsLeft(q) = 3 * (n - req[q].next + 1) + 1
        /\ req[q].pc = "get" => CallsLeft(q) = 3 * (n - req[q].next + 1)
        /\ req[q].pc = "create" => CallsLeft(q) = 3 * (n - req[q].next + 1) - 1
        /\ req[q].pc = "reget" => CallsLeft(q) = 3 * (n - req[q].next + 1) - 2
  BY DEF CallsLeft
<1>3. ASSUME NEW reason, Deny(q, reason)
      PROVE  RunsOn(q)
  BY <1>1, <1>3 DEF Deny, RunsOn, Working, Ensuring
<1>4. ASSUME NEW step, Goto(q, step),
             \/ step = "granted"
             \/ req[q].pc = "cap" /\ step = "get" /\ n # 0
             \/ req[q].pc = "get" /\ step = "create"
             \/ req[q].pc = "create" /\ step = "reget"
      PROVE  RunsOn(q)
  <2>1. req'[q].pc = step /\ req'[q].next = req[q].next /\ req'[q].content = req[q].content
    BY <1>1, <1>4 DEF Goto
  <2>2. /\ step = "get" => CallsLeft(q)' = 3 * (n - req[q].next + 1)
        /\ step = "create" => CallsLeft(q)' = 3 * (n - req[q].next + 1) - 1
        /\ step = "reget" => CallsLeft(q)' = 3 * (n - req[q].next + 1) - 2
    BY <2>1 DEF CallsLeft
  <2>. QED
    <3>. HIDE DEF n
    <3>1. step # "granted" => CallsLeft(q)' \in 1..(CallsLeft(q) - 1)
      BY <1>2, <1>4, <1>now, <2>2 DEF Ensuring
    <3>. QED
      BY <1>4, <2>1, <3>1 DEF RunsOn, Working, Ensuring
<1>5. ASSUME NextClaim(q), req[q].pc \in Ensuring
      PROVE  RunsOn(q)
  <2>1. CASE req[q].next = n
    BY <1>4, <1>5, <2>1 DEF NextClaim
  <2>2. CASE req[q].next # n
    <3>1. /\ req'[q].pc = "get" /\ req'[q].next = req[q].next + 1
          /\ req'[q].content = req[q].content
      BY <1>1, <1>5, <2>2 DEF NextClaim
    <3>2. CallsLeft(q)' = 3 * (n - (req[q].next + 1) + 1)
      BY <3>1 DEF CallsLeft
    <3>. QED
      <4>. HIDE DEF n
      <4>0. n \in Nat /\ req[q].next \in Nat /\ 1 <= req[q].next /\ req[q].next < n
        BY <1>2, <1>5, <2>2
      <4>1. CallsLeft(q)' \in 1..(CallsLeft(q) - 1)
        BY <1>5, <1>now, <3>2, <4>0 DEF Ensuring
      <4>. QED
        BY <3>1, <4>1 DEF RunsOn, Ensuring
  <2>. QED
    BY <2>1, <2>2
<1>6. ASSUME NEW r \in Requests, r # q,
             (\E who \in Owners \cup {Blank}, t \in Templates : Arrive(r, who, t)) \/ Serve(r) \/ Gateway(r)
      PROVE  req'[q] = req[q]
  BY <1>1, <1>6 DEF Arrive, Serve, Load, CheckCap, GetClaim, CreateClaim, LoseCreateRace, RegetClaim,
     CallFails, CreateAnswerLost, Gateway, CreatePod, Leave, Retry, Forget, Verify, Verified,
     NextClaim, AlreadyExists, ClaimVanished, Deny, Goto
<1>7. CASE CheckCap(q)
  <2>1. CASE req[q].content.claims = <<>>
    BY <1>3, <1>4, <1>7, <2>1 DEF CheckCap
  <2>2. CASE req[q].content.claims # <<>>
    <3>1. n # 0
      BY <2>2, BoxType, ConstantsAssumption DEF ConstantsAssumption, Granting
    <3>. QED
      BY <1>3, <1>4, <1>7, <2>2, <3>1 DEF CheckCap
  <2>. QED
    BY <2>1, <2>2
<1>8. CASE GetClaim(q) \/ CreateClaim(q) \/ LoseCreateRace(q) \/ RegetClaim(q)
  BY <1>3, <1>4, <1>5, <1>8 DEF GetClaim, CreateClaim, LoseCreateRace, RegetClaim, Verify, Verified,
     AlreadyExists, ClaimVanished, Ensuring
<1>9. CASE CallFails(q) \/ CreateAnswerLost(q)
  BY <1>3, <1>9 DEF CallFails, CreateAnswerLost
<1>10. ~Gateway(q) /\ ~Load(q) /\ \A who, t : ~Arrive(q, who, t)
  BY DEF Gateway, CreatePod, Leave, Retry, Load, Arrive, Ensuring
<1>11. CASE Environment \/ UNCHANGED vars
  <2>1. req' = req
    BY <1>11 DEF Environment, PodEnds, PodDeleted, PodGone, ClaimDeleted, ClaimGone, ClaimCollected,
       Drop, Publish, vars
  <2>. QED
    BY <2>1 DEF RunsOn
<1>. QED
  BY <1>6, <1>7, <1>8, <1>9, <1>10, <1>11 DEF Next, Serve, RunsOn

\* However claims appear and vanish, an ordinary login makes at most one listing and
\* three calls for each claim of its template (storage.go ensureClaim retries once).
THEOREM LoginsRunOut == Spec => CallsRunOut
<1>1. TypeOK /\ [Next]_vars => \A r \in Requests : req[r].pc \in {"cap"} \cup Ensuring => RunsOn(r)
  BY CallsNext
<1>. QED
  BY <1>1, TypeCorrect, PTL DEF Spec, CallsRunOut

-----------------------------------------------------------------------------
(* The handler implements the abstract quota. *)

\* The abstract specification counts with the same Cardinality.
LEMMA QuotaCounts == ASSUME NEW S PROVE Quota!Cardinality(S) = Cardinality(S)
BY DEF Quota!Cardinality, Cardinality

LEMMA QuotaInit == Init => Quota!Init
<1>. SUFFICES ASSUME Init, NEW l \in Labels PROVE Occupied(l) = {}
  BY DEF Quota!Init
<1>. QED
  BY DEF Init, Occupied, LivePodNames, Holders, NoPod, NoRequest, Granting, Ensuring

LEMMA QuotaNext ==
  ASSUME MaxPods > 0, TypeOK, TypeOK', [Next]_vars
  PROVE  [Quota!Next]_([l \in Labels |-> Occupied(l)])
<1>0. \A l \in Labels : Occupied(l)' \subseteq PodNames
  <2>. SUFFICES ASSUME NEW l \in Labels, NEW r \in Requests, req'[r].pc \in Granting
                PROVE  Box(r)' \in PodNames
    BY DEF Occupied, LivePodNames, Holders
  <2>1. req'[r].owner \in Owners /\ req'[r].template \in Templates
    BY DEF TypeOK, RequestStates, Granting, Ensuring
  <2>. QED
    BY <2>1, ConstantsAssumption DEF ConstantsAssumption, Box
<1>1. CASE \A l \in Labels : Occupied(l)' \subseteq Occupied(l)
  BY <1>0, <1>1 DEF Quota!Next, Quota!Release
<1>2. ASSUME NEW r \in Requests, Takes(r)
      PROVE  [Quota!Next]_([l \in Labels |-> Occupied(l)])
  <2>1. CASE Box(r) \notin LivePodNames(Label(r))
    <3>1. Label(r) \in Labels /\ Box(r) \in PodNames
      BY <1>2, BoxType DEF Takes
    <3>2. Quota!Cardinality(Occupied(Label(r))) < MaxPods + Slack
      BY <1>2, <2>1, RoomWhenTaken, QuotaCounts
    <3>3. Quota!Reserve(Label(r), Box(r))
      BY <1>2, <3>1, <3>2 DEF Takes, Quota!Reserve
    <3>. QED
      BY <3>1, <3>3 DEF Quota!Next
  <2>2. CASE Box(r) \in LivePodNames(Label(r))
    BY <1>2, <2>2 DEF Takes, Occupied
  <2>. QED
    BY <2>1, <2>2
<1>. QED
  BY <1>1, <1>2, StepTakesOrNot

\* Seen from the places taken under each label, serving requests is nothing but
\* reserving a free place or giving places back.
THEOREM ImplementsQuota == ASSUME MaxPods > 0 PROVE Spec => QuotaSpec
<1>1. TypeOK /\ TypeOK' /\ [Next]_vars => [Quota!Next]_([l \in Labels |-> Occupied(l)])
  BY QuotaNext
<1>. QED
  BY <1>1, QuotaInit, TypeCorrect, PTL DEF Spec, QuotaSpec, Quota!Spec

-----------------------------------------------------------------------------
(* The claims a box lives on.                                              *)
(*                                                                         *)
(* A claim that the garbage collector could take away (one with an owner)  *)
(* is never made by the server and never accepted; so whatever a request   *)
(* has verified, or a pod mounts, can only go by an operator's hand.       *)

Clean(id) == claims[id] = Blank \/ ~claims[id].owned

\* What a request vouches for is there, has no owner, and is its own.
VouchedMatch ==
  \A r \in Requests : \A id \in vouched[r] :
    /\ claims[id] # Blank /\ ~claims[id].owned
    /\ claims[id].ident = <<req[r].owner, req[r].template, id[2]>>

IdleVouchNothing == \A r \in Requests : req[r].pc = "idle" => vouched[r] = {}

\* The claims behind the loop's position have been verified.
Behind(r, i) == req[r].pc = "granted" \/ i < req[r].next
EnsuredClean ==
  \A r \in Requests : req[r].pc \in Granting =>
    \A i \in DOMAIN req[r].content.claims :
      Behind(r, i) => Clean(<<Box(r), req[r].content.claims[i]>>)

MountsClean == \A n \in PodNames : \A id \in pods[n].mounts : Clean(id)

ClaimInv == VouchedMatch /\ IdleVouchNothing /\ EnsuredClean /\ MountsClean

-----------------------------------------------------------------------------
(* How one step changes a claim. *)

\* A claim comes without an owner, keeps what it is, or goes; when it goes, no
\* request vouches for it any more, and it was given up or had an owner.
ClaimChange(id) ==
  /\ \/ claims'[id] = Blank
     \/ claims[id] = Blank /\ ~claims'[id].owned
     \/ /\ claims[id] # Blank
        /\ claims'[id].ident = claims[id].ident /\ claims'[id].owned = claims[id].owned
  /\ claims[id] # Blank /\ claims'[id] = Blank =>
       /\ claims[id].owned \/ claims[id].terminating
       /\ \A r \in Requests : id \notin vouched'[r]

LEMMA ClaimStep ==
  ASSUME TypeOK, [Next]_vars, NEW id \in ClaimIds
  PROVE  ClaimChange(id)
<1>1. CASE UNCHANGED claims
  BY <1>1 DEF ClaimChange
<1>2. ASSUME NEW r \in Requests, req[r].pc = "create", claims[ClaimId(r)] = Blank,
             claims' = [claims EXCEPT ![ClaimId(r)] = NewClaim(r)]
      PROVE  ClaimChange(id)
  BY <1>2, ClaimType DEF TypeOK, Ensuring, NewClaim, ClaimChange
<1>3. ASSUME NEW other \in ClaimIds, ClaimDeleted(other)
      PROVE  ClaimChange(id)
  <2>1. CASE id # other
    BY <1>3, <2>1 DEF ClaimDeleted, TypeOK, ClaimChange
  <2>2. CASE id = other
    <3>1. claims[id] \in ClaimObjects /\ claims'[id] = [claims[id] EXCEPT !.terminating = TRUE]
      BY <1>3, <2>2 DEF ClaimDeleted, TypeOK
    <3>2. /\ claims'[id].ident = claims[id].ident /\ claims'[id].owned = claims[id].owned
          /\ claims'[id] \in ClaimObjects /\ claims[id] # Blank
      BY <1>3, <2>2, <3>1 DEF ClaimObjects, ClaimDeleted
    <3>3. claims'[id] # Blank
      BY <3>2, ConstantsAssumption DEF ConstantsAssumption
    <3>. QED
      BY <3>2, <3>3 DEF ClaimChange
  <2>. QED
    BY <2>1, <2>2
<1>4. ASSUME NEW other \in ClaimIds, ClaimGone(other) \/ ClaimCollected(other)
      PROVE  ClaimChange(id)
  <2>1. claims' = [claims EXCEPT ![other] = Blank] /\ \A r \in Requests : vouched'[r] = vouched[r] \ {other}
    BY <1>4 DEF ClaimGone, ClaimCollected, Drop
  <2>2. claims[other].owned \/ claims[other].terminating
    BY <1>4 DEF ClaimGone, ClaimCollected
  <2>. QED
    BY <2>1, <2>2 DEF ClaimChange, TypeOK
<1>5. ASSUME NEW r \in Requests, Serve(r)
      PROVE  ClaimChange(id)
  BY <1>1, <1>2, <1>5 DEF Serve, Load, CheckCap, GetClaim, CreateClaim, LoseCreateRace, RegetClaim,
     CallFails, KeepClaims, CreateAnswerLost
<1>6. CASE \E r \in Requests : Gateway(r) \/ \E who \in Owners \cup {Blank}, t \in Templates : Arrive(r, who, t)
  BY <1>1, <1>6 DEF Gateway, CreatePod, Leave, Retry, Arrive
<1>7. CASE Environment
  BY <1>1, <1>3, <1>4, <1>7 DEF Environment, PodEnds, PodDeleted, PodGone, Publish
<1>. QED
  BY <1>1, <1>5, <1>6, <1>7 DEF Next, vars

LEMMA CleanStays ==
  ASSUME TypeOK, [Next]_vars, NEW id \in ClaimIds, Clean(id)
  PROVE  Clean(id)'
BY ClaimStep DEF ClaimChange, Clean

-----------------------------------------------------------------------------
(* How one step changes a request and what it vouches for. *)

SameLogin(r) ==
  req'[r].owner = req[r].owner /\ req'[r].template = req[r].template

\* The request stands as it was, or starts or ends, vouching for nothing ...
Rests(r) == req'[r] = req[r] /\ vouched'[r] \subseteq vouched[r]
Starts(r) == req'[r].pc \in {"idle", "load"} /\ vouched'[r] = {}
\* ... or it moves in the handler without having verified a claim ...
Moves(r) ==
  /\ SameLogin(r) /\ vouched'[r] = vouched[r]
  /\ req[r].pc # "idle" /\ req'[r].pc # "idle"
  /\ req'[r].pc \in Granting =>
       /\ req'[r].content = req[r].content /\ req'[r].next = req[r].next
       /\ \/ req[r].pc = "cap" /\ req'[r].pc = "granted" /\ req[r].content.claims = <<>>
          \/ req[r].pc = "cap" /\ req'[r].pc = "get" /\ req[r].next = 1
          \/ req[r].pc \in Ensuring /\ req'[r].pc \in Ensuring
\* ... or it has verified the claim it stood at.
Verifies(r) ==
  /\ SameLogin(r) /\ vouched'[r] = vouched[r] \cup {ClaimId(r)}
  /\ req[r].pc \in Ensuring /\ req'[r].pc \in Granting
  /\ claims'[ClaimId(r)] # Blank /\ ~claims'[ClaimId(r)].owned
  /\ claims'[ClaimId(r)].ident = Identity(r)
  /\ req'[r].content = req[r].content
  /\ \/ req'[r].next = req[r].next + 1 /\ req'[r].pc = "get"
     \/ req[r].next = Len(req[r].content.claims) /\ req'[r].pc = "granted"

RequestChange(r) == Rests(r) \/ Starts(r) \/ Moves(r) \/ Verifies(r)

LEMMA DenyMoves ==
  ASSUME TypeOK, NEW r \in Requests, NEW reason, Deny(r, reason), UNCHANGED vouched, req[r].pc # "idle"
  PROVE  Moves(r) /\ \A q \in Requests \ {r} : Rests(q)
<1>1. DOMAIN req[r] = {"pc", "owner", "template", "content", "next", "why"} /\ req = [q \in Requests |-> req[q]]
  BY DEF TypeOK, RequestStates
<1>2. SameLogin(r) /\ req'[r].pc = "denied"
  BY <1>1 DEF Deny, SameLogin
<1>3. \A q \in Requests \ {r} : Rests(q)
  BY DEF TypeOK, Deny, Rests
<1>. QED
  BY <1>2, <1>3 DEF Moves, Granting, Ensuring

LEMMA GotoMoves ==
  ASSUME TypeOK, NEW r \in Requests, NEW step, Goto(r, step), UNCHANGED vouched, req[r].pc # "idle",
         \/ step = "plain"
         \/ req[r].pc = "cap" /\ step = "granted" /\ req[r].content.claims = <<>>
         \/ req[r].pc = "cap" /\ step = "get" /\ req[r].next = 1
         \/ req[r].pc \in Ensuring /\ step \in Ensuring
  PROVE  Moves(r) /\ \A q \in Requests \ {r} : Rests(q)
<1>1. DOMAIN req[r] = {"pc", "owner", "template", "content", "next", "why"} /\ req = [q \in Requests |-> req[q]]
  BY DEF TypeOK, RequestStates
<1>2. /\ SameLogin(r) /\ req'[r].pc = step
      /\ req'[r].content = req[r].content /\ req'[r].next = req[r].next
  BY <1>1 DEF Goto, SameLogin
<1>3. \A q \in Requests \ {r} : Rests(q)
  BY DEF TypeOK, Goto, Rests
<1>. QED
  BY <1>2, <1>3 DEF Moves, Granting, Ensuring

LEMMA VerifiedVerifies ==
  ASSUME TypeOK, NEW r \in Requests, req[r].pc \in Ensuring, Verified(r),
         claims'[ClaimId(r)] # Blank, ~claims'[ClaimId(r)].owned,
         claims'[ClaimId(r)].ident = Identity(r)
  PROVE  Verifies(r) /\ \A q \in Requests \ {r} : Rests(q)
<1>1. DOMAIN req[r] = {"pc", "owner", "template", "content", "next", "why"} /\ req = [q \in Requests |-> req[q]]
  BY DEF TypeOK, RequestStates
<1>2. CASE req[r].next = Len(req[r].content.claims) /\ Goto(r, "granted")
  <2>1. SameLogin(r) /\ req'[r].pc = "granted" /\ req'[r].content = req[r].content
    BY <1>1, <1>2 DEF Goto, SameLogin
  <2>2. vouched'[r] = vouched[r] \cup {ClaimId(r)}
    BY DEF Verified, TypeOK
  <2>3. \A q \in Requests \ {r} : Rests(q)
    BY <1>2 DEF TypeOK, Goto, Verified, Rests
  <2>. QED
    BY <1>2, <2>1, <2>2, <2>3 DEF Verifies, Granting
<1>3. CASE req' = [req EXCEPT ![r] = [req[r] EXCEPT !.pc = "get", !.next = req[r].next + 1]]
  <2>1. SameLogin(r) /\ req'[r].pc = "get" /\ req'[r].content = req[r].content /\ req'[r].next = req[r].next + 1
    BY <1>1, <1>3 DEF SameLogin
  <2>2. vouched'[r] = vouched[r] \cup {ClaimId(r)}
    BY DEF Verified, TypeOK
  <2>3. \A q \in Requests \ {r} : Rests(q)
    BY <1>3 DEF TypeOK, Verified, Rests
  <2>. QED
    BY <2>1, <2>2, <2>3 DEF Verifies, Granting, Ensuring
<1>. QED
  BY <1>2, <1>3 DEF Verified, NextClaim

LEMMA VerifyMoves ==
  ASSUME TypeOK, NEW r \in Requests, req[r].pc \in Ensuring, claims[ClaimId(r)] # Blank,
         Verify(r), UNCHANGED claims
  PROVE  (Moves(r) \/ Verifies(r)) /\ \A q \in Requests \ {r} : Rests(q)
<1>1. CASE Deny(r, "claim") /\ UNCHANGED vouched
  BY <1>1, DenyMoves DEF Ensuring
<1>2. CASE ClaimUsable(claims[ClaimId(r)], Identity(r)) /\ Verified(r)
  BY <1>2, VerifiedVerifies DEF ClaimUsable
<1>. QED
  BY <1>1, <1>2 DEF Verify

LEMMA RequestStep ==
  ASSUME TypeOK, IdleVouchNothing, [Next]_vars
  PROVE  \A q \in Requests : RequestChange(q)
<1>1. CASE UNCHANGED req /\ \A q \in Requests : vouched'[q] \subseteq vouched[q]
  BY <1>1 DEF RequestChange, Rests
<1>2. ASSUME NEW r \in Requests, req'[r].pc \in {"idle", "load"}, vouched'[r] = {},
             \A q \in Requests \ {r} : req'[q] = req[q] /\ vouched'[q] = vouched[q]
      PROVE  \A p \in Requests : RequestChange(p)
  BY <1>2 DEF RequestChange, Starts, Rests
<1>3. ASSUME NEW r \in Requests, NEW who \in Owners \cup {Blank}, NEW t \in Templates,
             Arrive(r, who, t)
      PROVE  \A p \in Requests : RequestChange(p)
  <2>. DEFINE q == [NoRequest EXCEPT !.pc = "load", !.owner = who, !.template = t]
  <2>1. q.pc = "load"
    BY DEF NoRequest
  <2>2. req' = [req EXCEPT ![r] = q] /\ UNCHANGED vouched /\ vouched[r] = {}
    BY <1>3 DEF Arrive, IdleVouchNothing
  <2>. HIDE DEF q
  <2>3. /\ req'[r].pc \in {"idle", "load"} /\ vouched'[r] = {}
        /\ \A p \in Requests \ {r} : req'[p] = req[p] /\ vouched'[p] = vouched[p]
    BY <2>1, <2>2 DEF TypeOK
  <2>. QED
    BY <1>2, <2>3
<1>4. ASSUME NEW r \in Requests, Gateway(r)
      PROVE  \A p \in Requests : RequestChange(p)
  <2>. DEFINE q == [NoRequest EXCEPT !.pc = "load", !.owner = req[r].owner,
                                     !.template = req[r].template]
  <2>1. NoRequest.pc = "idle" /\ q.pc = "load"
    BY DEF NoRequest
  <2>2. /\ req' = [req EXCEPT ![r] = NoRequest] \/ req' = [req EXCEPT ![r] = q]
        /\ vouched' = [vouched EXCEPT ![r] = {}]
    BY <1>4 DEF Gateway, CreatePod, Leave, Retry, Forget
  <2>. HIDE DEF q
  <2>3. /\ req'[r].pc \in {"idle", "load"} /\ vouched'[r] = {}
        /\ \A p \in Requests \ {r} : req'[p] = req[p] /\ vouched'[p] = vouched[p]
    BY <2>1, <2>2 DEF TypeOK
  <2>. QED
    BY <1>2, <2>3
<1>5. ASSUME NEW r \in Requests, (Moves(r) \/ Verifies(r)) /\ \A q \in Requests \ {r} : Rests(q)
      PROVE  \A p \in Requests : RequestChange(p)
  BY <1>5 DEF RequestChange
<1>6. ASSUME NEW r \in Requests, Load(r)
      PROVE  \A p \in Requests : RequestChange(p)
  <2>. DEFINE content == files[req[r].template]
              q == [req[r] EXCEPT !.pc = "cap", !.content = content]
  <2>1. CASE Deny(r, "template") \/ Deny(r, "identity")
    BY <1>5, <1>6, <2>1, DenyMoves DEF Load
  <2>2. CASE Goto(r, "plain")
    BY <1>5, <1>6, <2>2, GotoMoves DEF Load
  <2>3. CASE req' = [req EXCEPT ![r] = q]
    <3>1. q.pc = "cap" /\ q.owner = req[r].owner /\ q.template = req[r].template
      BY DEF TypeOK, RequestStates
    <3>2. \A p \in Requests \ {r} : Rests(p)
      BY <1>6, <2>3 DEF Load, TypeOK, Rests
    <3>3. req'[r] = q /\ vouched'[r] = vouched[r]
      BY <1>6, <2>3 DEF Load, TypeOK
    <3>4. Moves(r)
      BY <1>6, <3>1, <3>3 DEF Load, Moves, SameLogin, Granting, Ensuring
    <3>. QED
      BY <1>5, <3>2, <3>4
  <2>. QED
    BY <1>6, <2>1, <2>2, <2>3 DEF Load
<1>7. ASSUME NEW r \in Requests, CheckCap(r)
      PROVE  \A p \in Requests : RequestChange(p)
  <2>1. req[r].next = 1
    BY <1>7 DEF CheckCap, TypeOK, RequestStates
  <2>2. CASE Deny(r, "cap")
    BY <1>5, <1>7, <2>2, DenyMoves DEF CheckCap
  <2>3. CASE Goto(r, IF req[r].content.claims = <<>> THEN "granted" ELSE "get")
    BY <1>5, <1>7, <2>1, <2>3, GotoMoves DEF CheckCap
  <2>. QED
    BY <1>7, <2>2, <2>3 DEF CheckCap
<1>8. ASSUME NEW r \in Requests, GetClaim(r) \/ RegetClaim(r)
      PROVE  \A p \in Requests : RequestChange(p)
  <2>1. req[r].pc \in Ensuring /\ UNCHANGED claims
    BY <1>8 DEF GetClaim, RegetClaim, Ensuring
  <2>2. CASE claims[ClaimId(r)] # Blank /\ Verify(r)
    BY <1>5, <2>1, <2>2, VerifyMoves
  <2>3. CASE Goto(r, "create") /\ UNCHANGED vouched
    BY <1>5, <2>1, <2>3, GotoMoves DEF Ensuring
  <2>4. CASE Deny(r, "api") /\ UNCHANGED vouched
    BY <1>5, <2>1, <2>4, DenyMoves DEF Ensuring
  <2>. QED
    BY <1>8, <2>2, <2>3, <2>4 DEF GetClaim, RegetClaim, ClaimVanished
<1>9. ASSUME NEW r \in Requests, CreateClaim(r)
      PROVE  \A p \in Requests : RequestChange(p)
  <2>1. req[r].pc \in Ensuring
    BY <1>9 DEF CreateClaim, Ensuring
  <2>2. claims'[ClaimId(r)] = NewClaim(r) /\ NewClaim(r) # Blank
    BY <1>9, <2>1, ClaimType, ConstantsAssumption DEF ConstantsAssumption, CreateClaim, TypeOK
  <2>. QED
    BY <1>5, <1>9, <2>1, <2>2, VerifiedVerifies DEF CreateClaim, NewClaim
<1>10. ASSUME NEW r \in Requests, LoseCreateRace(r) \/ CallFails(r) \/ CreateAnswerLost(r)
       PROVE  \A p \in Requests : RequestChange(p)
  <2>1. CASE LoseCreateRace(r)
    BY <1>5, <2>1, GotoMoves DEF LoseCreateRace, AlreadyExists, Ensuring
  <2>2. CASE CallFails(r) \/ CreateAnswerLost(r)
    BY <1>5, <2>2, DenyMoves DEF CallFails, CreateAnswerLost, Working, Ensuring
  <2>. QED
    BY <1>10, <2>1, <2>2
<1>11. CASE Environment
  <2>1. UNCHANGED req /\ \A q \in Requests : vouched'[q] \subseteq vouched[q]
    BY <1>11 DEF Environment, PodEnds, PodDeleted, PodGone, ClaimDeleted, ClaimGone, ClaimCollected,
       Drop, Publish
  <2>. QED
    BY <1>1, <2>1
<1>12. CASE UNCHANGED vars
  BY <1>1, <1>12 DEF vars
<1>. QED
  BY <1>3, <1>4, <1>6, <1>7, <1>8, <1>9, <1>10, <1>11, <1>12 DEF Next, Serve

\* The claims of a box are claim objects' names.
LEMMA MountType ==
  ASSUME TypeOK, NEW r \in Requests, req[r].pc \in Granting, NEW i \in DOMAIN req[r].content.claims
  PROVE  /\ <<Box(r), req[r].content.claims[i]>> \in ClaimIds
         /\ <<Box(r), req[r].content.claims[i]>> \in Mounts(r)
         /\ req[r].content.claims \in Seq(ClaimNames)
BY BoxType, ConstantsAssumption DEF ConstantsAssumption, Mounts

-----------------------------------------------------------------------------
(* The invariant holds. *)

LEMMA ClaimInit == Init => ClaimInv
BY DEF Init, ClaimInv, VouchedMatch, IdleVouchNothing, EnsuredClean, MountsClean, NoPod, NoRequest,
   Granting, Ensuring

LEMMA ClaimNext == TypeOK /\ TypeOK' /\ ClaimInv /\ [Next]_vars => ClaimInv'
<1>. SUFFICES ASSUME TypeOK, TypeOK', ClaimInv, [Next]_vars PROVE ClaimInv'
  OBVIOUS
<1>1. \A r \in Requests : RequestChange(r)
  BY RequestStep DEF ClaimInv
<1>2. \A id \in ClaimIds : ClaimChange(id)
  BY ClaimStep
<1>3. \A id \in ClaimIds : Clean(id) => Clean(id)'
  BY CleanStays
<1>4. VouchedMatch'
  <2>. SUFFICES ASSUME NEW r \in Requests, NEW id \in vouched'[r]
                PROVE  /\ claims'[id] # Blank /\ ~claims'[id].owned
                       /\ claims'[id].ident = <<req'[r].owner, req'[r].template, id[2]>>
    BY DEF VouchedMatch
  <2>1. id \in ClaimIds
    BY DEF TypeOK
  <2>2. CASE id \in vouched[r] /\ SameLogin(r)
    BY <1>2, <2>1, <2>2 DEF ClaimInv, VouchedMatch, ClaimChange, SameLogin
  <2>3. CASE Verifies(r) /\ id = ClaimId(r)
    BY <2>3 DEF Verifies, SameLogin, ClaimId, Identity
  <2>4. vouched'[r] # {} /\ (Rests(r) => SameLogin(r))
    BY DEF Rests, SameLogin
  <2>. QED
    BY <1>1, <2>2, <2>3, <2>4 DEF RequestChange, Rests, Starts, Moves, Verifies
<1>5. IdleVouchNothing'
  <2>. SUFFICES ASSUME NEW r \in Requests, req'[r].pc = "idle" PROVE vouched'[r] = {}
    BY DEF IdleVouchNothing
  <2>. QED
    BY <1>1 DEF ClaimInv, IdleVouchNothing, RequestChange, Rests, Starts, Moves, Verifies, Granting, Ensuring
<1>6. EnsuredClean'
  <2>. SUFFICES ASSUME NEW r \in Requests, req'[r].pc \in Granting,
                       NEW i \in DOMAIN req'[r].content.claims, Behind(r, i)'
                PROVE  Clean(<<Box(r), req[r].content.claims[i]>>)'
    BY DEF EnsuredClean
  <2>. DEFINE id == <<Box(r), req[r].content.claims[i]>>
  <2>1. SUFFICES /\ SameLogin(r) /\ req'[r].content = req[r].content
                 /\ claims'[id] = Blank \/ ~claims'[id].owned
    BY DEF Clean, Box, SameLogin
  <2>2. SameLogin(r) /\ req'[r].content = req[r].content
    BY <1>1 DEF RequestChange, Rests, Starts, Moves, Verifies, SameLogin, Granting, Ensuring
  <2>3. ASSUME req[r].pc \in Granting, Behind(r, i)
        PROVE  claims'[id] = Blank \/ ~claims'[id].owned
    <3>1. id \in ClaimIds /\ Clean(id)
      BY <2>2, <2>3, MountType DEF ClaimInv, EnsuredClean
    <3>. QED
      BY <1>2, <3>1 DEF ClaimChange, Clean
  <2>4. CASE Rests(r)
    BY <2>2, <2>3, <2>4 DEF Rests, Behind
  <2>5. CASE Moves(r)
    <3>1. req[r].pc \in {"cap"} \cup Granting
      BY <2>5 DEF Moves, Granting
    <3>2. req[r].content.claims \in Seq(ClaimNames)
      BY <3>1, BoxType, ConstantsAssumption DEF ConstantsAssumption
    <3>3. req[r].pc \in Ensuring /\ req'[r].pc \in Ensuring /\ req'[r].next = req[r].next
      BY <2>2, <2>5, <3>2 DEF Moves, Behind
    <3>. QED
      BY <2>2, <2>3, <3>3 DEF Behind, Ensuring, Granting
  <2>6. CASE Verifies(r)
    <3>1. /\ req[r].pc \in Granting /\ req[r].content.claims \in Seq(ClaimNames)
          /\ i \in DOMAIN req[r].content.claims
          /\ req[r].next \in DOMAIN req[r].content.claims
      <4>1. req[r].pc \in Ensuring /\ req[r].pc \in {"cap"} \cup Granting
        BY <2>6 DEF Verifies, Granting
      <4>. QED
        BY <2>2, <4>1, BoxType, ConstantsAssumption
           DEF ConstantsAssumption, TypeOK, RequestStates, Granting
    <3>2. i <= req[r].next
      BY <2>6, <3>1 DEF Verifies, Behind
    <3>3. CASE i = req[r].next
      BY <2>2, <2>6, <3>3 DEF Verifies, ClaimId, Claim
    <3>4. CASE i < req[r].next
      BY <2>2, <2>3, <3>1, <3>4 DEF Behind
    <3>. QED
      BY <3>1, <3>2, <3>3, <3>4
  <2>. QED
    BY <1>1, <2>1, <2>2, <2>4, <2>5, <2>6 DEF RequestChange, Starts, Granting, Ensuring
<1>7. MountsClean'
  <2>. SUFFICES ASSUME NEW n \in PodNames, NEW id \in pods'[n].mounts PROVE Clean(id)'
    BY DEF MountsClean
  <2>1. id \in ClaimIds
    BY DEF TypeOK
  <2>2. CASE id \in pods[n].mounts
    BY <1>3, <2>1, <2>2 DEF ClaimInv, MountsClean
  <2>3. ASSUME NEW r \in Requests, CreatePod(r) PROVE Clean(id)'
    <3>1. req[r].pc \in Granting /\ req[r].pc = "granted"
      BY <2>3 DEF CreatePod, Granting
    <3>2. CASE id \in Mounts(r)
      BY <1>3, <2>1, <3>1, <3>2 DEF Mounts, ClaimInv, EnsuredClean, Behind
    <3>3. CASE id \notin Mounts(r)
      <4>1. pods' = [pods EXCEPT ![Box(r)] = [phase |-> "live", label |-> Label(r), mounts |-> Mounts(r)]]
        BY <2>3 DEF CreatePod
      <4>2. id \in pods[n].mounts
        BY <3>3, <4>1 DEF TypeOK
      <4>. QED
        BY <2>2, <4>2
    <3>. QED
      BY <3>2, <3>3
  <2>4. ASSUME NEW q \in PodNames, PodEnds(q) \/ PodDeleted(q) \/ PodGone(q)
        PROVE  id \in pods[n].mounts
    BY <2>4 DEF PodEnds, PodDeleted, PodGone, NoPod, TypeOK
  <2>5. UNCHANGED pods \/ (\E r \in Requests : CreatePod(r))
          \/ \E q \in PodNames : PodEnds(q) \/ PodDeleted(q) \/ PodGone(q)
    BY DEF Next, vars, Serve, Gateway, Arrive, Load, CheckCap, GetClaim, CreateClaim, LoseCreateRace,
       RegetClaim, CallFails, CreateAnswerLost, Leave, Retry, Environment, ClaimDeleted, ClaimGone,
       ClaimCollected, Drop, Publish
  <2>. QED
    BY <2>2, <2>3, <2>4, <2>5
<1>. QED
  BY <1>4, <1>5, <1>6, <1>7 DEF ClaimInv

\* Whatever names and hashes collide: the claims a request has verified carry
\* its own exact identity for as long as it relies on them (ensureClaim).
THEOREM ClaimsMatch == Spec => []VerifiedClaimsMatch
<1>1. ClaimInv => VerifiedClaimsMatch
  BY DEF ClaimInv, VouchedMatch, VerifiedClaimsMatch
<1>. QED
  BY <1>1, ClaimInit, ClaimNext, TypeCorrect, PTL DEF Spec

\* No failure, crash or race takes away a claim that a box mounts or an answer
\* refers to: only an operator's delete does, and only once nobody mounts it.
THEOREM ClaimsStay == Spec => ClaimsRetained
<1>1. ASSUME TypeOK, ClaimInv, [Next]_vars
      PROVE  [\A id \in ClaimsInUse : claims[id] # Blank /\ ~claims[id].terminating
                 => claims'[id] # Blank]_vars
  <2>. SUFFICES ASSUME NEW id \in ClaimsInUse, claims[id] # Blank, ~claims[id].terminating
                PROVE  claims'[id] # Blank
    OBVIOUS
  <2>1. CASE \E r \in Requests : id \in vouched[r]
    BY <1>1, <2>1, ClaimStep DEF TypeOK, ClaimInv, VouchedMatch, ClaimChange
  <2>2. CASE \E n \in PodNames : id \in pods[n].mounts
    BY <1>1, <2>2, ClaimStep DEF TypeOK, ClaimInv, MountsClean, Clean, ClaimChange
  <2>. QED
    BY <2>1, <2>2 DEF ClaimsInUse
<1>. QED
  BY <1>1, ClaimInit, ClaimNext, TypeCorrect, PTL DEF Spec, ClaimsRetained

-----------------------------------------------------------------------------
(* Logins that return to a live box. *)

\* A request whose box has been live since it arrived finds it in any listing.
Returns(r) ==
  /\ req[r].pc # "idle"
  /\ req[r].owner \in Owners /\ req[r].template \in Templates
  /\ Box(r) \in LivePodNames(Label(r))
  /\ ~(req[r].pc = "denied" /\ req[r].why = "cap")

SteadyInv == \A r \in steady : Returns(r)

\* The server's steps take a request on in the same login; only a listing
\* without the box ends in a denial for the cap.
LEMMA ServeKeepsLogin ==
  ASSUME TypeOK, NEW r \in Requests, NEW q \in Requests, Serve(q), Returns(r)
  PROVE  /\ SameLogin(r) /\ req'[r].pc # "idle"
         /\ ~(req'[r].pc = "denied" /\ req'[r].why = "cap")
<1>0. /\ DOMAIN req[r] = {"pc", "owner", "template", "content", "next", "why"}
      /\ req = [p \in Requests |-> req[p]]
  BY DEF TypeOK, RequestStates
<1>. DEFINE Goal == /\ SameLogin(r) /\ req'[r].pc # "idle"
                    /\ ~(req'[r].pc = "denied" /\ req'[r].why = "cap")
<1>1. CASE req'[r] = req[r]
  BY <1>1 DEF Returns, SameLogin
<1>2. ASSUME NEW reason, reason # "cap", q = r, Deny(r, reason) PROVE Goal
  BY <1>0, <1>2 DEF Deny, SameLogin
<1>3. ASSUME NEW step, step \notin {"idle", "denied"}, q = r, Goto(r, step) PROVE Goal
  BY <1>0, <1>3 DEF Goto, SameLogin
<1>4. CASE q = r /\ NextClaim(r)
  <2>1. CASE req' = [req EXCEPT ![r] = [req[r] EXCEPT !.pc = "get", !.next = req[r].next + 1]]
    BY <1>0, <2>1 DEF SameLogin
  <2>. QED
    BY <1>3, <1>4, <2>1 DEF NextClaim
<1>5. CASE q = r /\ Load(r)
  <2>. DEFINE content == files[req[r].template]
  <2>1. CASE req' = [req EXCEPT ![r] = [req[r] EXCEPT !.pc = "cap", !.content = content]]
    BY <1>0, <2>1 DEF SameLogin
  <2>. QED
    BY <1>2, <1>3, <1>5, <2>1 DEF Load
<1>6. CASE q = r /\ CheckCap(r)
  <2>1. CapAllows(LivePodNames(Label(r)), Box(r))
    BY DEF Returns, CapAllows
  <2>2. Goto(r, "granted") \/ Goto(r, "get")
    BY <1>6, <2>1 DEF CheckCap
  <2>. QED
    BY <1>3, <1>6, <2>2
<1>7. CASE q = r /\ (GetClaim(r) \/ CreateClaim(r) \/ LoseCreateRace(r) \/ RegetClaim(r))
  BY <1>2, <1>3, <1>4, <1>7 DEF GetClaim, CreateClaim, LoseCreateRace, RegetClaim, AlreadyExists,
     ClaimVanished, Verify, Verified
<1>8. CASE q = r /\ (CallFails(r) \/ CreateAnswerLost(r))
  BY <1>2, <1>8 DEF CallFails, CreateAnswerLost
<1>9. CASE q # r
  <2>1. req'[r] = req[r]
    <3>1. ASSUME NEW reason, Deny(q, reason) PROVE req'[r] = req[r]
      BY <1>9, <3>1 DEF Deny, TypeOK
    <3>2. ASSUME NEW step, Goto(q, step) PROVE req'[r] = req[r]
      BY <1>9, <3>2 DEF Goto, TypeOK
    <3>3. NextClaim(q) => req'[r] = req[r]
      BY <1>9, <3>2 DEF NextClaim, TypeOK
    <3>4. Load(q) => req'[r] = req[r]
      BY <1>9, <3>1, <3>2 DEF Load, TypeOK
    <3>. QED
      BY <3>1, <3>2, <3>3, <3>4 DEF Serve, CheckCap, GetClaim, CreateClaim, LoseCreateRace, RegetClaim,
         AlreadyExists, ClaimVanished, Verify, Verified, CallFails, CreateAnswerLost
  <2>. QED
    BY <1>1, <2>1
<1>. QED
  BY <1>5, <1>6, <1>7, <1>8, <1>9 DEF Serve

\* The rest: what a request is and whether its box is in the listing.
LEMMA ReturnsStays ==
  ASSUME TypeOK, NEW r \in Requests, Returns(r), SameLogin(r), req'[r].pc # "idle",
         ~(req'[r].pc = "denied" /\ req'[r].why = "cap"),
         pods'[Box(r)] = pods[Box(r)]
  PROVE  Returns(r)'
BY DEF Returns, SameLogin, Box, Label, LivePodNames

LEMMA SteadyNext == TypeOK /\ SteadyInv /\ [Next]_vars => SteadyInv'
<1>. SUFFICES ASSUME TypeOK, SteadyInv, [Next]_vars, NEW r \in steady'
              PROVE  Returns(r)'
  BY DEF SteadyInv
<1>1. ASSUME r \in steady, req'[r] = req[r], pods'[Box(r)] = pods[Box(r)]
      PROVE  Returns(r)'
  BY <1>1 DEF SteadyInv, Returns, TypeOK, Box, Label, LivePodNames
<1>2. ASSUME NEW q \in Requests, NEW who \in Owners \cup {Blank}, NEW t \in Templates,
             Arrive(q, who, t)
      PROVE  Returns(r)'
  <2>. DEFINE p == [NoRequest EXCEPT !.pc = "load", !.owner = who, !.template = t]
  <2>1. p.pc = "load" /\ p.owner = who /\ p.template = t
    BY DEF NoRequest
  <2>2. req' = [req EXCEPT ![q] = p] /\ UNCHANGED pods
    BY <1>2 DEF Arrive
  <2>. HIDE DEF p
  <2>3. CASE r = q
    <3>1. req'[r] = p
      BY <2>2, <2>3 DEF TypeOK
    <3>2. q \notin steady
      BY <1>2 DEF Arrive, SteadyInv, Returns
    <3>3. who # Blank /\ BoxPodName[who, t] \in LivePodNames(OwnerLabelValue[who])
      BY <1>2, <2>3, <3>2 DEF Arrive
    <3>. QED
      BY <2>1, <2>2, <3>1, <3>3 DEF Returns, Box, Label, LivePodNames
  <2>4. CASE r # q
    <3>1. r \in steady
      BY <1>2, <2>4 DEF Arrive
    <3>. QED
      BY <1>1, <2>2, <2>4, <3>1 DEF TypeOK
  <2>. QED
    BY <2>3, <2>4
<1>3. ASSUME NEW q \in Requests, Serve(q) PROVE Returns(r)'
  <2>1. UNCHANGED <<pods, steady>>
    BY <1>3 DEF Serve, Load, CheckCap, GetClaim, CreateClaim, LoseCreateRace, RegetClaim, CallFails,
       CreateAnswerLost
  <2>2. r \in Requests /\ Returns(r)
    BY <2>1 DEF SteadyInv, TypeOK
  <2>. QED
    BY <1>3, <2>1, <2>2, ServeKeepsLogin, ReturnsStays
<1>4. ASSUME NEW q \in Requests, CreatePod(q) \/ Leave(q) PROVE Returns(r)'
  <2>1. r \in steady /\ r # q /\ req'[r] = req[r]
    BY <1>4 DEF CreatePod, Leave, Forget, TypeOK
  <2>2. pods'[Box(r)] = pods[Box(r)]
    <3>1. Box(r) \in PodNames /\ pods[Box(r)].phase = "live"
      BY <2>1 DEF SteadyInv, Returns, LivePodNames
    <3>. QED
      BY <1>4, <3>1 DEF CreatePod, Leave, TypeOK
  <2>. QED
    BY <1>1, <2>1, <2>2
<1>5. ASSUME NEW q \in Requests, Retry(q) PROVE Returns(r)'
  <2>. DEFINE p == [NoRequest EXCEPT !.pc = "load", !.owner = req[q].owner,
                                     !.template = req[q].template]
  <2>1. p.pc = "load" /\ p.owner = req[q].owner /\ p.template = req[q].template
    BY DEF NoRequest
  <2>2. req' = [req EXCEPT ![q] = p] /\ UNCHANGED <<pods, steady>>
    BY <1>5 DEF Retry
  <2>. HIDE DEF p
  <2>3. r \in Requests /\ Returns(r)
    BY <2>2 DEF SteadyInv, TypeOK
  <2>4. CASE r = q
    BY <2>1, <2>2, <2>3, <2>4, ReturnsStays DEF SameLogin, TypeOK
  <2>5. CASE r # q
    BY <1>1, <2>2, <2>5 DEF TypeOK
  <2>. QED
    BY <2>4, <2>5
<1>6. CASE Environment
  <2>1. ASSUME NEW n \in PodNames, PodEnds(n) \/ PodDeleted(n)
        PROVE  Returns(r)'
    <3>1. r \in steady /\ Box(r) # n /\ UNCHANGED req
      BY <2>1 DEF PodEnds, PodDeleted, Disturb
    <3>2. Box(r) \in PodNames
      BY <3>1 DEF SteadyInv, Returns, LivePodNames
    <3>3. pods'[Box(r)] = pods[Box(r)]
      BY <2>1, <3>1, <3>2 DEF PodEnds, PodDeleted, TypeOK
    <3>. QED
      BY <1>1, <3>1, <3>3
  <2>2. ASSUME NEW n \in PodNames, PodGone(n)
        PROVE  Returns(r)'
    <3>1. r \in steady /\ UNCHANGED req
      BY <2>2 DEF PodGone
    <3>2. Box(r) \in PodNames /\ pods[Box(r)].phase = "live"
      BY <3>1 DEF SteadyInv, Returns, LivePodNames
    <3>3. pods'[Box(r)] = pods[Box(r)]
      BY <2>2, <3>2 DEF PodGone, TypeOK
    <3>. QED
      BY <1>1, <3>1, <3>3
  <2>3. CASE UNCHANGED <<pods, req, steady>>
    BY <1>1, <2>3
  <2>. QED
    BY <1>6, <2>1, <2>2, <2>3
       DEF Environment, ClaimDeleted, ClaimGone, ClaimCollected, Drop, Publish
<1>7. CASE UNCHANGED vars
  BY <1>1, <1>7 DEF vars
<1>. QED
  BY <1>2, <1>3, <1>4, <1>5, <1>6, <1>7 DEF Next, Gateway

\* A login that returns to a box that has been live since it came is never told
\* that the cap is reached, however many boxes its owner has (enforceCap).
THEOREM ReconnectsPass == Spec => []ReconnectNeverCapped
<1>1. Init => SteadyInv
  BY DEF Init, SteadyInv
<1>2. SteadyInv => ReconnectNeverCapped
  BY DEF SteadyInv, Returns, ReconnectNeverCapped
<1>. QED
  BY <1>1, <1>2, SteadyNext, TypeCorrect, PTL DEF Spec
=============================================================================
