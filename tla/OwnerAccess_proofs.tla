------------------------- MODULE OwnerAccess_proofs -------------------------
(* What holds of OwnerAccess for every value of its constants.             *)
EXTENDS OwnerAccess, TLAPS

-----------------------------------------------------------------------------
(* The three kinds of objects. *)

LEMMA KindsAre ==
  /\ Range(Kinds) = {"account", "role", "binding"} /\ Len(Kinds) = 3
  /\ Kinds[1] = "account" /\ Kinds[2] = "role" /\ Kinds[3] = "binding"
  /\ \A i \in 1..3 : Kinds[i] \in Range(Kinds)
  /\ \A i, j \in 1..3 : Kinds[i] = Kinds[j] => i = j
<1>1. DOMAIN Kinds = 1..3 /\ Len(Kinds) = 3
  BY DEF Kinds
<1>2. Kinds[1] = "account" /\ Kinds[2] = "role" /\ Kinds[3] = "binding"
  BY DEF Kinds
<1>3. Range(Kinds) = {Kinds[i] : i \in 1..3}
  BY <1>1 DEF Range
<1>4. 1..3 = {1, 2, 3}
  OBVIOUS
<1>. QED
  BY <1>1, <1>2, <1>3, <1>4

-----------------------------------------------------------------------------
(* The invariant. *)

Persistent == {t \in Templates : \E c \in Catalogs : c[t] = "persistent"}
Published == {t \in Templates : files[t] = "persistent"}

\* The type invariant, and where a request is when it begins.
TypeInv ==
  /\ TypeOK
  /\ files \in Catalogs
  /\ objects = [k \in Range(Kinds) |-> objects[k]]
  /\ \A r \in Requests :
       /\ req[r].pc = "readdir" => req[r].list = {} /\ req[r].todo = {}
       /\ req[r].pc \in {"readdir", "walk"} => req[r].stage = 1 /\ req[r].tries = 1
       /\ req[r].list \subseteq Persistent

-----------------------------------------------------------------------------
(* How a request moves on. *)

\* The request's six fields.
Is(q, pc, todo, list, stage, tries, why) ==
  /\ q.pc = pc /\ q.todo = todo /\ q.list = list
  /\ q.stage = stage /\ q.tries = tries /\ q.why = why

Others(r) == \A q \in Requests \ {r} : req'[q] = req[q]

LEMMA SetIs ==
  ASSUME TypeOK, NEW r \in Requests, NEW q, Set(r, q)
  PROVE  /\ req'[r] = q /\ Others(r)
         /\ q \in RequestStates => req' \in [Requests -> RequestStates]
BY DEF TypeOK, Set, Others

LEMMA NoRequestIs == NoRequest \in RequestStates
<1>1. 1 \in 1..3 /\ 1 \in 1..Tries
  BY AccessAssumption DEF AccessAssumption
<1>. QED
  BY <1>1 DEF NoRequest, RequestStates, Working

LEMMA DenyIs ==
  ASSUME TypeOK, NEW r \in Requests, NEW reason \in {"template", "conflict", "ref", "api"},
         Deny(r, reason)
  PROVE  /\ Is(req'[r], "denied", {}, {}, 1, 1, reason)
         /\ Others(r) /\ req' \in [Requests -> RequestStates]
<1>. DEFINE q == [NoRequest EXCEPT !.pc = "denied", !.why = reason]
<1>1. Is(q, "denied", {}, {}, 1, 1, reason)
  BY DEF NoRequest, Is
<1>2. q \in RequestStates
  BY NoRequestIs DEF RequestStates, NoRequest
<1>3. Set(r, q)
  BY DEF Deny
<1>. HIDE DEF q
<1>. QED
  BY <1>1, <1>2, <1>3, SetIs

LEMMA GotoIs ==
  ASSUME TypeOK, NEW r \in Requests, NEW step \in Working, Goto(r, step)
  PROVE  /\ Is(req'[r], step, req[r].todo, req[r].list, req[r].stage, req[r].tries, req[r].why)
         /\ Others(r) /\ req' \in [Requests -> RequestStates]
<1>. DEFINE q == [req[r] EXCEPT !.pc = step]
<1>1. req[r] \in RequestStates
  BY DEF TypeOK
<1>2. Is(q, step, req[r].todo, req[r].list, req[r].stage, req[r].tries, req[r].why)
  BY <1>1 DEF RequestStates, Is
<1>3. q \in RequestStates
  BY <1>1 DEF RequestStates
<1>4. Set(r, q)
  BY DEF Goto
<1>. HIDE DEF q
<1>. QED
  BY <1>2, <1>3, <1>4, SetIs

LEMMA EnsuredIs ==
  ASSUME TypeOK, NEW r \in Requests, Ensured(r)
  PROVE  /\ \/ /\ req[r].stage = 3
               /\ Is(req'[r], "granted", {}, req[r].list, 1, 1, "none")
            \/ /\ req[r].stage \in 1..2
               /\ Is(req'[r], "get", req[r].todo, req[r].list, req[r].stage + 1, 1, req[r].why)
         /\ Others(r) /\ req' \in [Requests -> RequestStates]
<1>1. req[r] \in RequestStates
  BY DEF TypeOK
<1>2. CASE req[r].stage = 3
  <2>. DEFINE q == [NoRequest EXCEPT !.pc = "granted", !.list = req[r].list]
  <2>1. Is(q, "granted", {}, req[r].list, 1, 1, "none")
    BY DEF NoRequest, Is
  <2>2. q \in RequestStates
    BY <1>1, NoRequestIs DEF RequestStates, NoRequest
  <2>3. Set(r, q)
    BY <1>2, KindsAre DEF Ensured
  <2>. HIDE DEF q
  <2>4. req'[r] = q /\ Others(r) /\ req' \in [Requests -> RequestStates]
    BY <2>2, <2>3, SetIs
  <2>. QED
    BY <1>2, <2>1, <2>4
<1>3. CASE req[r].stage # 3
  <2>. DEFINE q == [req[r] EXCEPT !.pc = "get", !.stage = req[r].stage + 1, !.tries = 1]
  <2>1. Is(q, "get", req[r].todo, req[r].list, req[r].stage + 1, 1, req[r].why)
    BY <1>1 DEF RequestStates, Is
  <2>2. req[r].stage \in 1..2 /\ 1 \in 1..Tries
    BY <1>1, <1>3, AccessAssumption DEF AccessAssumption, RequestStates
  <2>3. q \in RequestStates
    <3>1. req[r].stage + 1 \in 1..3
      BY <2>2
    <3>. QED
      BY <1>1, <2>2, <3>1 DEF RequestStates, Working
  <2>4. Set(r, q)
    BY <1>3, KindsAre DEF Ensured
  <2>. HIDE DEF q
  <2>5. req'[r] = q /\ Others(r) /\ req' \in [Requests -> RequestStates]
    BY <2>3, <2>4, SetIs
  <2>. QED
    BY <2>1, <2>2, <2>5
<1>. QED
  BY <1>2, <1>3

LEMMA AgainIs ==
  ASSUME TypeOK, NEW r \in Requests, NEW cause \in {"exists", "conflict"}, Again(r, cause)
  PROVE  /\ \/ /\ req[r].tries < Tries
               /\ Is(req'[r], "get", req[r].todo, req[r].list, req[r].stage, req[r].tries + 1, req[r].why)
            \/ req[r].tries = Tries /\ Deny(r, "conflict")
         /\ Others(r) /\ req' \in [Requests -> RequestStates]
<1>1. req[r] \in RequestStates /\ Tries \in Nat /\ req[r].tries \in 1..Tries
  BY AccessAssumption DEF AccessAssumption, TypeOK, RequestStates
<1>2. CASE req[r].tries < Tries
  <2>. DEFINE q == [req[r] EXCEPT !.pc = "get", !.tries = req[r].tries + 1]
  <2>1. Is(q, "get", req[r].todo, req[r].list, req[r].stage, req[r].tries + 1, req[r].why)
    BY <1>1 DEF RequestStates, Is
  <2>2. q \in RequestStates
    <3>1. req[r].tries + 1 \in 1..Tries
      BY <1>1, <1>2
    <3>. QED
      BY <1>1, <3>1 DEF RequestStates, Working
  <2>3. Set(r, q)
    BY <1>2 DEF Again, Retriable
  <2>. HIDE DEF q
  <2>4. req'[r] = q /\ Others(r) /\ req' \in [Requests -> RequestStates]
    BY <2>2, <2>3, SetIs
  <2>. QED
    BY <1>2, <2>1, <2>4
<1>3. CASE req[r].tries = Tries
  <2>1. Deny(r, "conflict")
    BY <1>1, <1>3 DEF Again
  <2>. QED
    BY <1>3, <2>1, DenyIs
<1>. QED
  BY <1>1, <1>2, <1>3

-----------------------------------------------------------------------------
(* One step of the server, seen from the request that makes it. *)

\* The object the request stands at is written as it wants it.
Writes(r) ==
  /\ objects' = [objects EXCEPT ![Kind(r)] = Desired(r, Kind(r))]
  /\ fresh' = {q \in fresh : Kind(q) # Kind(r)}

Keeps(r) == req'[r].list = req[r].list

\* The request moves on in its walk ...
WalkStep(r) ==
  \/ /\ req[r].pc = "readdir" /\ Is(req'[r], "walk", {t \in Templates : files[t] # "absent"}, req[r].list,
                                    req[r].stage, req[r].tries, req[r].why)
  \/ \E t \in req[r].todo :
       /\ req[r].pc = "walk" /\ files[t] \notin {"bad", "absent"}
       /\ Is(req'[r], "walk", req[r].todo \ {t},
             IF files[t] = "persistent" THEN req[r].list \cup {t} ELSE req[r].list,
             req[r].stage, req[r].tries, req[r].why)
  \/ /\ req[r].pc = "walk" /\ req[r].todo = {}
     /\ Is(req'[r], "get", req[r].todo, req[r].list, req[r].stage, req[r].tries, req[r].why)
\* ... decides to write ...
WriteStep(r) ==
  /\ req[r].pc = "get"
  /\ \E step \in {"create", "update"} :
       /\ Is(req'[r], step, req[r].todo, req[r].list, req[r].stage, req[r].tries, req[r].why)
       /\ step = "create" => objects[Kind(r)] = Absent
       /\ step = "update" => r \in fresh' /\ objects[Kind(r)] # Desired(r, Kind(r))
\* ... finds or makes the object as it wants it ...
EnsuredStep(r) ==
  /\ req[r].pc \in {"get", "create", "update"}
  /\ objects'[Kind(r)] = Desired(r, Kind(r))
  /\ \/ /\ req[r].stage = 3
        /\ Is(req'[r], "granted", {}, req[r].list, 1, 1, "none")
     \/ /\ req[r].stage \in 1..2
        /\ Is(req'[r], "get", req[r].todo, req[r].list, req[r].stage + 1, 1, req[r].why)
\* ... has met another writer ...
Lost(r) ==
  \/ req[r].pc = "create" /\ objects[Kind(r)] # Absent
  \/ req[r].pc = "update" /\ r \notin fresh
AgainStep(r) ==
  /\ Lost(r)
  /\ Is(req'[r], "get", req[r].todo, req[r].list, req[r].stage, req[r].tries + 1, req[r].why)
\* ... or denies.
DenyStep(r) ==
  \E reason \in {"template", "conflict", "ref", "api"} :
    /\ Is(req'[r], "denied", {}, {}, 1, 1, reason)
    /\ reason = "conflict" => Lost(r) /\ req[r].tries = Tries

ServeStep(r) ==
  /\ req[r].pc \in Working
  /\ Others(r) /\ req' \in [Requests -> RequestStates]
  /\ \/ UNCHANGED objects /\ fresh' \subseteq fresh \cup {r} /\ fresh \subseteq fresh' \cup {r}
     \/ req[r].pc \in {"create", "update"} /\ Writes(r)
  /\ WalkStep(r) \/ WriteStep(r) \/ EnsuredStep(r) \/ AgainStep(r) \/ DenyStep(r)

LEMMA ServeIs ==
  ASSUME TypeInv, NEW r \in Requests, Serve(r)
  PROVE  ServeStep(r)
<1>0. TypeOK /\ req[r] \in RequestStates /\ Kind(r) \in Range(Kinds) /\ objects = [k \in Range(Kinds) |-> objects[k]]
  <2>1. TypeOK /\ req[r] \in RequestStates /\ objects = [k \in Range(Kinds) |-> objects[k]]
    BY DEF TypeInv, TypeOK
  <2>. QED
    BY <2>1, KindsAre DEF Kind, RequestStates
<1>. DEFINE Untouched == UNCHANGED objects /\ fresh' \subseteq fresh \cup {r} /\ fresh \subseteq fresh' \cup {r}
<1>1. CASE ReadDir(r)
  <2>. DEFINE names == {t \in Templates : files[t] # "absent"}
              q == [req[r] EXCEPT !.pc = "walk", !.todo = names]
  <2>1. Is(q, "walk", names, req[r].list, req[r].stage, req[r].tries, req[r].why)
    BY <1>0 DEF RequestStates, Is
  <2>2. q \in RequestStates
    BY <1>0 DEF RequestStates, Working
  <2>3. Set(r, q) /\ Untouched /\ req[r].pc = "readdir"
    BY <1>1 DEF ReadDir
  <2>. HIDE DEF q
  <2>4. req'[r] = q /\ Others(r) /\ req' \in [Requests -> RequestStates]
    BY <1>0, <2>2, <2>3, SetIs
  <2>5. WalkStep(r)
    BY <2>1, <2>3, <2>4 DEF WalkStep
  <2>. QED
    BY <2>3, <2>4, <2>5 DEF ServeStep, Working
<1>2. CASE LoadTemplate(r)
  <2>1. Untouched /\ req[r].pc = "walk" /\ req[r].pc \in Working
    BY <1>2 DEF LoadTemplate, Working
  <2>2. CASE Deny(r, "template")
    <3>1. DenyStep(r) /\ Others(r) /\ req' \in [Requests -> RequestStates]
      BY <1>0, <2>2, DenyIs DEF DenyStep
    <3>. QED
      BY <2>1, <3>1 DEF ServeStep
  <2>3. ASSUME NEW t \in req[r].todo, files[t] \notin {"bad", "absent"},
               Set(r, [req[r] EXCEPT !.todo = req[r].todo \ {t},
                         !.list = IF files[t] = "persistent" THEN req[r].list \cup {t} ELSE req[r].list])
        PROVE  ServeStep(r)
    <3>. DEFINE list == IF files[t] = "persistent" THEN req[r].list \cup {t} ELSE req[r].list
                q == [req[r] EXCEPT !.todo = req[r].todo \ {t}, !.list = list]
    <3>1. list \in SUBSET Templates /\ req[r].todo \ {t} \in SUBSET Templates
      BY <1>0 DEF RequestStates
    <3>. HIDE DEF list
    <3>2. Is(q, "walk", req[r].todo \ {t}, list, req[r].stage, req[r].tries, req[r].why)
      BY <1>0, <2>1 DEF RequestStates, Is
    <3>3. q \in RequestStates
      BY <1>0, <2>1, <3>1 DEF RequestStates, Working
    <3>4. Set(r, q)
      BY <2>3 DEF list
    <3>. HIDE DEF q
    <3>5. req'[r] = q /\ Others(r) /\ req' \in [Requests -> RequestStates]
      BY <1>0, <3>3, <3>4, SetIs
    <3>6. WalkStep(r)
      BY <2>1, <2>3, <3>2, <3>5 DEF WalkStep, list
    <3>. QED
      BY <2>1, <3>5, <3>6 DEF ServeStep
  <2>. QED
    BY <1>2, <2>2, <2>3 DEF LoadTemplate
<1>3. CASE WalkDone(r)
  <2>1. Goto(r, "get") /\ req[r].pc \in Working /\ Untouched
    BY <1>3 DEF WalkDone, Working
  <2>2. WalkStep(r) /\ Others(r) /\ req' \in [Requests -> RequestStates]
    BY <1>0, <1>3, <2>1, GotoIs DEF WalkDone, WalkedAll, WalkStep, Working
  <2>. QED
    BY <2>1, <2>2 DEF ServeStep
<1>4. CASE Get(r)
  <2>. DEFINE k == Kind(r)
  <2>1. req[r].pc \in Working /\ Untouched
    BY <1>4 DEF Get, Working
  <2>2. CASE objects[k] = Absent /\ Goto(r, "create")
    <3>1. WriteStep(r) /\ Others(r) /\ req' \in [Requests -> RequestStates]
      BY <1>0, <1>4, <2>2, GotoIs DEF Get, WriteStep, Working
    <3>. QED
      BY <2>1, <3>1 DEF ServeStep
  <2>3. CASE AsWanted(r, k) /\ Ensured(r)
    <3>1. EnsuredStep(r) /\ Others(r) /\ req' \in [Requests -> RequestStates]
      BY <1>0, <1>4, <2>3, EnsuredIs DEF Get, EnsuredStep, AsWanted
    <3>. QED
      BY <2>1, <3>1 DEF ServeStep
  <2>4. CASE Deny(r, "ref")
    <3>1. DenyStep(r) /\ Others(r) /\ req' \in [Requests -> RequestStates]
      BY <1>0, <2>4, DenyIs DEF DenyStep
    <3>. QED
      BY <2>1, <3>1 DEF ServeStep
  <2>5. CASE Goto(r, "update") /\ ~AsWanted(r, k)
    <3>1. /\ Is(req'[r], "update", req[r].todo, req[r].list, req[r].stage, req[r].tries, req[r].why)
          /\ Others(r) /\ req' \in [Requests -> RequestStates]
      BY <1>0, <2>5, GotoIs DEF Working
    <3>2. r \in fresh'
      BY <1>4, <3>1 DEF Get, Is
    <3>3. WriteStep(r)
      BY <1>4, <2>5, <3>1, <3>2 DEF Get, WriteStep, AsWanted
    <3>. QED
      BY <2>1, <3>1, <3>3 DEF ServeStep
  <2>. QED
    BY <1>4, <2>2, <2>3, <2>4, <2>5 DEF Get
<1>5. ASSUME req[r].pc \in {"create", "update"}, Write(Kind(r), Desired(r, Kind(r)))
      PROVE  Writes(r) /\ objects'[Kind(r)] = Desired(r, Kind(r)) /\ req[r].pc \in Working
  BY <1>0, <1>5 DEF Write, Writes, Working
<1>6. ASSUME req[r].pc \in {"create", "update"}, Write(Kind(r), Desired(r, Kind(r))), Ensured(r)
      PROVE  ServeStep(r)
  <2>1. EnsuredStep(r) /\ Others(r) /\ req' \in [Requests -> RequestStates]
    BY <1>0, <1>5, <1>6, EnsuredIs DEF EnsuredStep
  <2>. QED
    BY <1>5, <1>6, <2>1 DEF ServeStep
<1>7. ASSUME NEW cause \in {"exists", "conflict"}, Again(r, cause), Lost(r), UNCHANGED <<objects, fresh>>
      PROVE  ServeStep(r)
  <2>1. Others(r) /\ req' \in [Requests -> RequestStates]
    BY <1>0, <1>7, AgainIs
  <2>2. AgainStep(r) \/ DenyStep(r)
    <3>1. CASE req[r].tries = Tries /\ Deny(r, "conflict")
      BY <1>0, <1>7, <3>1, DenyIs DEF DenyStep
    <3>2. CASE Is(req'[r], "get", req[r].todo, req[r].list, req[r].stage, req[r].tries + 1, req[r].why)
      BY <1>7, <3>2 DEF AgainStep
    <3>. QED
      BY <1>0, <1>7, <3>1, <3>2, AgainIs
  <2>. QED
    BY <1>7, <2>1, <2>2 DEF ServeStep, Lost, Working
<1>8. CASE Create(r) \/ Update(r)
  <2>1. CASE Write(Kind(r), Desired(r, Kind(r))) /\ Ensured(r)
    BY <1>6, <1>8, <2>1 DEF Create, Update
  <2>2. CASE Create(r) /\ objects[Kind(r)] # Absent
    <3>1. Again(r, "exists") /\ UNCHANGED <<objects, fresh>> /\ req[r].pc = "create"
      BY <2>2 DEF Create
    <3>2. Lost(r)
      BY <2>2, <3>1 DEF Lost
    <3>. QED
      BY <1>7, <3>1, <3>2
  <2>3. CASE Update(r) /\ r \notin fresh /\ Again(r, "conflict") /\ UNCHANGED <<objects, fresh>>
    BY <1>7, <2>3 DEF Update, Lost
  <2>4. CASE Update(r) /\ r \notin fresh /\ Deny(r, "api") /\ UNCHANGED <<objects, fresh>>
    <3>1. DenyStep(r) /\ Others(r) /\ req' \in [Requests -> RequestStates]
      BY <1>0, <2>4, DenyIs DEF DenyStep
    <3>. QED
      BY <2>4, <3>1 DEF ServeStep, Update, Working
  <2>. QED
    BY <1>8, <2>1, <2>2, <2>3, <2>4 DEF Create, Update
<1>9. CASE CallFails(r) \/ WriteAnswerLost(r)
  <2>1. DenyStep(r) /\ Others(r) /\ req' \in [Requests -> RequestStates]
    BY <1>0, <1>9, DenyIs DEF DenyStep, CallFails, WriteAnswerLost
  <2>2. CASE CallFails(r)
    BY <2>1, <2>2 DEF ServeStep, CallFails
  <2>3. CASE WriteAnswerLost(r)
    BY <1>5, <2>1, <2>3 DEF ServeStep, WriteAnswerLost
  <2>. QED
    BY <1>9, <2>2, <2>3
<1>. QED
  BY <1>1, <1>2, <1>3, <1>4, <1>8, <1>9 DEF Serve

-----------------------------------------------------------------------------
(* The other steps. *)

LEMMA ArriveIs ==
  ASSUME TypeOK, NEW r \in Requests, Arrive(r)
  PROVE  /\ Is(req'[r], "readdir", {}, {}, 1, 1, "none")
         /\ Others(r) /\ req' \in [Requests -> RequestStates]
<1>. DEFINE q == [NoRequest EXCEPT !.pc = "readdir"]
<1>1. Is(q, "readdir", {}, {}, 1, 1, "none") /\ q \in RequestStates
  BY NoRequestIs DEF NoRequest, Is, RequestStates, Working
<1>2. Set(r, q)
  BY DEF Arrive
<1>. HIDE DEF q
<1>. QED
  BY <1>1, <1>2, SetIs

LEMMA LeaveIs ==
  ASSUME TypeOK, NEW r \in Requests, Leave(r)
  PROVE  /\ Is(req'[r], "idle", {}, {}, 1, 1, "none")
         /\ Others(r) /\ req' \in [Requests -> RequestStates]
<1>1. Is(NoRequest, "idle", {}, {}, 1, 1, "none")
  BY DEF NoRequest, Is
<1>. QED
  BY <1>1, SetIs, NoRequestIs DEF Leave

\* What a request wants is a value its object can have.
LEMMA DesiredType ==
  ASSUME TypeOK, NEW r \in Requests
  PROVE  /\ Kind(r) \in Range(Kinds)
         /\ \A k \in Range(Kinds) : Desired(r, k) \in Values[k] /\ Desired(r, k) # Absent
<1>1. req[r].stage \in 1..3 /\ req[r].list \in SUBSET Templates
  BY DEF TypeOK, RequestStates
<1>2. \A t \in Templates : BoxPodName[t] \in PodNames
  BY AccessAssumption DEF AccessAssumption
<1>3. Rules(req[r].list) \in RuleSets
  <2>1. {BoxPodName[t] : t \in req[r].list} \in SUBSET PodNames
    BY <1>1, <1>2
  <2>. QED
    BY <2>1 DEF Rules, RuleSets
<1>4. \A k \in Range(Kinds) : Desired(r, k) \in Values[k]
  BY <1>3, KindsAre DEF Desired, Values
<1>. QED
  BY <1>1, <1>4, KindsAre, AccessAssumption DEF AccessAssumption, Kind

-----------------------------------------------------------------------------
(* Types, and the templates a request can come to list. *)

LEMMA InitInv == Init => TypeInv
<1>. SUFFICES ASSUME Init PROVE TypeInv
  OBVIOUS
<1>1. req \in [Requests -> RequestStates]
  BY NoRequestIs DEF Init
<1>2. objects = [k \in Range(Kinds) |-> Absent]
  BY DEF Init
<1>3. TypeOK
  BY <1>1, <1>2, AccessAssumption DEF AccessAssumption, Init, TypeOK
<1>. QED
  BY <1>2, <1>3 DEF Init, TypeInv, NoRequest

\* What TypeInv says of one request.
RequestInv(r) ==
  /\ req[r].pc = "readdir" => req[r].list = {} /\ req[r].todo = {}
  /\ req[r].pc \in {"readdir", "walk"} => req[r].stage = 1 /\ req[r].tries = 1
  /\ req[r].list \subseteq Persistent

LEMMA RequestsStay ==
  ASSUME TypeInv, [Next]_vars, NEW q \in Requests
  PROVE  RequestInv(q)' /\ req' \in [Requests -> RequestStates]
<1>1. TypeOK /\ RequestInv(q)
  BY DEF TypeInv, RequestInv
<1>2. CASE UNCHANGED req
  BY <1>1, <1>2 DEF RequestInv, TypeOK
<1>3. ASSUME NEW r \in Requests, Others(r), r # q, req' \in [Requests -> RequestStates]
      PROVE  RequestInv(q)' /\ req' \in [Requests -> RequestStates]
  BY <1>1, <1>3 DEF RequestInv, Others
<1>4. ASSUME NEW r \in Requests, Arrive(r) PROVE RequestInv(q)' /\ req' \in [Requests -> RequestStates]
  BY <1>1, <1>3, <1>4, ArriveIs DEF RequestInv, Is
<1>5. ASSUME NEW r \in Requests, Leave(r) PROVE RequestInv(q)' /\ req' \in [Requests -> RequestStates]
  BY <1>1, <1>3, <1>5, LeaveIs DEF RequestInv, Is
<1>6. ASSUME NEW r \in Requests, Serve(r) PROVE RequestInv(q)' /\ req' \in [Requests -> RequestStates]
  <2>1. ServeStep(r)
    BY <1>6, ServeIs
  <2>2. CASE r # q
    BY <1>3, <2>1, <2>2 DEF ServeStep
  <2>3. CASE r = q /\ WalkStep(q)
    <3>1. CASE \E t \in req[q].todo :
                 /\ req[q].pc = "walk" /\ req'[q].pc = "walk"
                 /\ req'[q].stage = req[q].stage /\ req'[q].tries = req[q].tries
                 /\ req'[q].list = IF files[t] = "persistent" THEN req[q].list \cup {t} ELSE req[q].list
      <4>1. files \in Catalogs /\ req[q].todo \subseteq Templates
        BY <1>1 DEF TypeInv, TypeOK, RequestStates
      <4>2. req'[q].list \subseteq Persistent
        BY <1>1, <3>1, <4>1 DEF RequestInv, Persistent
      <4>. QED
        BY <1>1, <2>1, <2>3, <3>1, <4>2 DEF RequestInv, ServeStep
    <3>. QED
      BY <1>1, <2>1, <2>3, <3>1 DEF WalkStep, RequestInv, Is, ServeStep
  <2>4. CASE r = q /\ (WriteStep(q) \/ EnsuredStep(q) \/ AgainStep(q) \/ DenyStep(q))
    BY <1>1, <2>1, <2>4 DEF WriteStep, EnsuredStep, AgainStep, DenyStep, RequestInv, Is, ServeStep
  <2>. QED
    BY <2>1, <2>2, <2>3, <2>4 DEF ServeStep
<1>. QED
  BY <1>2, <1>4, <1>5, <1>6 DEF Next, Publish, Tamper, vars

\* How one step changes the objects: a request writes what it wants, or an
\* operator what it may.
ObjectStep ==
  \/ UNCHANGED objects
  \/ \E r \in Requests : Serve(r) /\ req[r].pc \in {"create", "update"} /\ Writes(r)
  \/ \E k \in Range(Kinds) : Tamper(k) /\ \E value \in Foreign[k] : objects' = [objects EXCEPT ![k] = value]

LEMMA ObjectsStep == ASSUME TypeInv, [Next]_vars PROVE ObjectStep
<1>1. ASSUME NEW r \in Requests, Serve(r) PROVE ObjectStep
  BY <1>1, ServeIs DEF ServeStep, ObjectStep
<1>2. ASSUME NEW k \in DOMAIN Foreign, Tamper(k) PROVE ObjectStep
  BY <1>2, AccessAssumption DEF AccessAssumption, Tamper, Write, ObjectStep
<1>. QED
  BY <1>1, <1>2 DEF Next, Arrive, Leave, Publish, vars, ObjectStep

\* Once it reconciles, or has failed, a request does not walk again.
LEMMA WalksNoMore ==
  ASSUME TypeInv, NEW r \in Requests,
         Get(r) \/ Create(r) \/ Update(r) \/ WriteAnswerLost(r) \/ CallFails(r)
  PROVE  req'[r].pc \notin Walking
<1>1. CASE CallFails(r)
  BY <1>1, DenyIs DEF CallFails, TypeInv, Is, Walking
<1>2. CASE ~CallFails(r)
  <2>1. req[r].pc \notin Walking
    BY <1>2 DEF Get, Create, Update, WriteAnswerLost, Walking
  <2>2. ServeStep(r)
    BY ServeIs DEF Serve
  <2>. QED
    BY <2>1, <2>2 DEF ServeStep, WalkStep, WriteStep, EnsuredStep, AgainStep, DenyStep, Is, Walking
<1>. QED
  BY <1>1, <1>2

\* What the walks have seen grows with each step of a walk and each publication.
LEMMA SeenStep ==
  ASSUME TypeInv, [Next]_vars
  PROVE  \/ Watch
         \/ /\ UNCHANGED <<seen, files>>
            /\ \A r \in Requests : req'[r].pc \in Walking => req'[r] = req[r]
<1>. DEFINE Still == /\ UNCHANGED <<seen, files>>
                    /\ \A r \in Requests : req'[r].pc \in Walking => req'[r] = req[r]
<1>1. ASSUME NEW p \in Requests, Get(p) \/ Create(p) \/ Update(p) \/ WriteAnswerLost(p) PROVE Still
  <2>1. UNCHANGED <<seen, files>>
    BY <1>1 DEF Get, Create, Update, WriteAnswerLost
  <2>2. req'[p].pc \notin Walking /\ Others(p)
    BY <1>1, WalksNoMore, ServeIs DEF Serve, ServeStep
  <2>. QED
    BY <2>1, <2>2 DEF Others
<1>2. ASSUME NEW p \in Requests, Leave(p) PROVE Still
  BY <1>2, LeaveIs DEF Leave, TypeInv, Is, Others, Walking
<1>3. ASSUME NEW k \in DOMAIN Foreign, Tamper(k) PROVE Still
  BY <1>3 DEF Tamper
<1>4. CASE UNCHANGED vars
  BY <1>4 DEF vars
<1>. QED
  BY <1>1, <1>2, <1>3, <1>4 DEF Next, Serve, Arrive, ReadDir, LoadTemplate, WalkDone, CallFails, Publish

LEMMA NextInv == TypeInv /\ [Next]_vars => TypeInv'
<1>. SUFFICES ASSUME TypeInv, [Next]_vars PROVE TypeInv'
  OBVIOUS
<1>1. \A r \in Requests : RequestInv(r)'
  BY RequestsStay
<1>2. req' \in [Requests -> RequestStates]
  BY RequestsStay, AccessAssumption DEF AccessAssumption
<1>3. /\ files' \in Catalogs /\ newest' \in Requests /\ alone' \subseteq Requests
      /\ stable' \in BOOLEAN /\ fresh' \subseteq Requests
  <2>1. ASSUME NEW r \in Requests, Serve(r)
        PROVE  UNCHANGED <<files, newest, alone, stable>> /\ fresh' \subseteq Requests
    <3>1. UNCHANGED <<files, newest, alone, stable>>
      BY <2>1 DEF Serve, ReadDir, LoadTemplate, WalkDone, Get, Create, Update, CallFails, WriteAnswerLost
    <3>2. fresh' \subseteq Requests
      BY <2>1, ServeIs DEF TypeInv, TypeOK, ServeStep, Writes
    <3>. QED
      BY <3>1, <3>2
  <2>2. ASSUME NEW k \in DOMAIN Foreign, Tamper(k)
        PROVE  UNCHANGED <<files, newest>> /\ alone' = {} /\ stable' \in BOOLEAN /\ fresh' \subseteq Requests
    BY <2>2 DEF Tamper, Write, TypeInv, TypeOK
  <2>3. ASSUME NEW r \in Requests, Arrive(r) \/ Leave(r)
        PROVE  /\ UNCHANGED <<files, fresh>> /\ newest' \in Requests /\ alone' \subseteq Requests
               /\ stable' \in BOOLEAN
    BY <2>3 DEF Arrive, Leave, TypeInv, TypeOK
  <2>4. Publish => UNCHANGED <<newest, alone, fresh>> /\ files' \in Catalogs /\ stable' \in BOOLEAN
    BY DEF Publish
  <2>. QED
    BY <2>1, <2>2, <2>3, <2>4 DEF Next, vars, TypeInv, TypeOK
<1>4. /\ objects' = [k \in Range(Kinds) |-> objects'[k]]
      /\ \A k \in Range(Kinds) : objects'[k] \in Values[k] \cup {Absent}
  <2>1. /\ objects = [k \in Range(Kinds) |-> objects[k]] /\ TypeOK
        /\ \A k \in Range(Kinds) : objects[k] \in Values[k] \cup {Absent}
    BY DEF TypeInv, TypeOK
  <2>2. ASSUME NEW k \in Range(Kinds), NEW value \in Values[k] \cup {Absent},
               objects' = [objects EXCEPT ![k] = value]
        PROVE  /\ objects' = [j \in Range(Kinds) |-> objects'[j]]
               /\ \A j \in Range(Kinds) : objects'[j] \in Values[j] \cup {Absent}
    BY <2>1, <2>2
  <2>3. ASSUME NEW r \in Requests, Writes(r)
        PROVE  Kind(r) \in Range(Kinds) /\ Desired(r, Kind(r)) \in Values[Kind(r)]
    BY <2>1, DesiredType
  <2>4. \A k \in Range(Kinds) : Foreign[k] \subseteq Values[k] \cup {Absent}
    BY AccessAssumption DEF AccessAssumption
  <2>. QED
    BY <2>1, <2>2, <2>3, <2>4, ObjectsStep DEF ObjectStep, Writes
<1>seen. seen' \in [Requests -> SUBSET Files]
  BY <1>3, SeenStep, AccessAssumption DEF AccessAssumption, Watch, TypeInv, TypeOK
<1>5. TypeOK'
  BY <1>2, <1>3, <1>4, <1>seen, AccessAssumption DEF AccessAssumption, TypeOK
<1>. QED
  BY <1>1, <1>3, <1>4, <1>5 DEF TypeInv, RequestInv

\* The state space is the one described; the retry count never runs over.
THEOREM TypeCorrect == Spec => []TypeOK
<1>1. TypeInv => TypeOK
  BY DEF TypeInv
<1>. QED
  BY <1>1, InitInv, NextInv, PTL DEF Spec

-----------------------------------------------------------------------------
(* What the Role grants. *)

\* An operator's hand gives the owner no more than the server would.
ModestEdits == \A rules \in Foreign["role"] \ {Absent} : Grants(rules) \subseteq OwnBoxes

LEMMA RulesGrant ==
  ASSUME NEW list \in SUBSET Persistent
  PROVE  Grants(Rules(list)) \subseteq OwnBoxes
<1>. DEFINE names == {BoxPodName[t] : t \in list}
<1>1. names \subseteq OwnBoxes /\ (list # {} => names # {})
  BY DEF OwnBoxes, Persistent
<1>2. CASE list = {}
  BY <1>2 DEF Rules, Grants
<1>3. CASE list # {}
  <2>1. Rules(list) = <<names>> /\ names # {}
    BY <1>1, <1>3 DEF Rules
  <2>. HIDE DEF names
  <2>2. DOMAIN <<names>> = {1} /\ <<names>>[1] = names
    OBVIOUS
  <2>3. Grants(<<names>>) = names
    BY <2>1, <2>2 DEF Grants
  <2>. QED
    BY <1>1, <2>1, <2>3
<1>. QED
  BY <1>2, <1>3

\* Whatever races, failures and lost answers do: unless an operator grants more
\* by hand, the Role never covers a pod that is not one of the owner's boxes, and
\* never all pods by an empty list of names (rulesForBoxes).
THEOREM RoleIsModest == ASSUME ModestEdits PROVE Spec => []RoleGrantsOwnBoxes
<1>1. Init => RoleGrantsOwnBoxes
  BY KindsAre DEF Init, RoleGrantsOwnBoxes
<1>2. TypeInv /\ RoleGrantsOwnBoxes /\ [Next]_vars => RoleGrantsOwnBoxes'
  <2>. SUFFICES ASSUME TypeInv, RoleGrantsOwnBoxes, [Next]_vars, objects'["role"] # Absent
                PROVE  Grants(objects'["role"]) \subseteq OwnBoxes
    BY DEF RoleGrantsOwnBoxes
  <2>0. objects = [k \in Range(Kinds) |-> objects[k]] /\ "role" \in Range(Kinds)
    BY KindsAre DEF TypeInv
  <2>1. CASE objects'["role"] = objects["role"]
    BY <2>1 DEF RoleGrantsOwnBoxes
  <2>2. ASSUME NEW r \in Requests, Writes(r) PROVE Grants(objects'["role"]) \subseteq OwnBoxes
    <3>1. CASE Kind(r) = "role"
      <4>1. objects'["role"] = Rules(req[r].list)
        BY <2>0, <2>2, <3>1 DEF Writes, Desired
      <4>2. req[r].list \in SUBSET Persistent
        BY DEF TypeInv
      <4>. QED
        BY <4>1, <4>2, RulesGrant
    <3>2. CASE Kind(r) # "role"
      BY <2>0, <2>1, <2>2, <3>2 DEF Writes
    <3>. QED
      BY <3>1, <3>2
  <2>3. ASSUME NEW k \in Range(Kinds), NEW value \in Foreign[k],
               objects' = [objects EXCEPT ![k] = value]
        PROVE  Grants(objects'["role"]) \subseteq OwnBoxes
    <3>1. CASE k = "role"
      BY <2>0, <2>3, <3>1 DEF ModestEdits
    <3>2. CASE k # "role"
      BY <2>0, <2>1, <2>3, <3>2
    <3>. QED
      BY <3>1, <3>2
  <2>. QED
    BY <2>1, <2>2, <2>3, ObjectsStep DEF ObjectStep
<1>. QED
  BY <1>1, <1>2, InitInv, NextInv, PTL DEF Spec

-----------------------------------------------------------------------------
(* A request that meets no other. *)

\* While it is at work nobody else is, and what it has passed is in force.
Done(r, i) ==
  \/ req[r].pc = "granted"
  \/ req[r].pc \in {"get", "create", "update"} /\ i < req[r].stage

AloneInv ==
  \A r \in alone :
    /\ \A q \in alone : q = r
    /\ Busy \subseteq {r}
    /\ req[r].pc # "idle"
    /\ \A i \in 1..3 : Done(r, i) => objects[Kinds[i]] = Desired(r, Kinds[i])

LEMMA AloneNext == TypeInv /\ TypeInv' /\ AloneInv /\ [Next]_vars => AloneInv'
<1>. SUFFICES ASSUME TypeInv, TypeInv', AloneInv, [Next]_vars, NEW r \in alone'
              PROVE  /\ \A q \in alone' : q = r
                     /\ Busy' \subseteq {r}
                     /\ req'[r].pc # "idle"
                     /\ \A i \in 1..3 : Done(r, i)' => objects'[Kinds[i]] = Desired(r, Kinds[i])'
  BY DEF AloneInv
<1>. DEFINE Goal == /\ \A q \in alone' : q = r
                    /\ Busy' \subseteq {r}
                    /\ req'[r].pc # "idle"
                    /\ \A i \in 1..3 : Done(r, i)' => objects'[Kinds[i]] = Desired(r, Kinds[i])'
<1>0. TypeOK /\ r \in Requests
  BY DEF TypeInv, TypeOK
<1>1. CASE UNCHANGED <<req, alone, objects>>
  BY <1>1 DEF AloneInv, Busy, Done, Desired
<1>2. ASSUME NEW p \in Requests, Arrive(p) PROVE Goal
  <2>1. Is(req'[p], "readdir", {}, {}, 1, 1, "none") /\ Others(p)
    BY <1>0, <1>2, ArriveIs
  <2>2. Busy = {} /\ r = p /\ alone' = {p}
    BY <1>2 DEF Arrive
  <2>3. Busy' \subseteq {p}
    BY <2>1, <2>2 DEF Busy, Others
  <2>. QED
    BY <2>1, <2>2, <2>3 DEF Is, Done
<1>3. ASSUME NEW p \in Requests, Leave(p) PROVE Goal
  <2>1. Is(req'[p], "idle", {}, {}, 1, 1, "none") /\ Others(p)
    BY <1>0, <1>3, LeaveIs
  <2>2. r \in alone /\ r # p /\ UNCHANGED objects /\ alone' \subseteq alone
    BY <1>3 DEF Leave
  <2>3. req'[r] = req[r]
    BY <1>0, <2>1, <2>2 DEF Others
  <2>4. Busy' \subseteq Busy
    BY <2>1 DEF Busy, Others, Is, Working
  <2>. QED
    BY <2>2, <2>3, <2>4 DEF AloneInv, Done, Desired
<1>4. ASSUME NEW p \in Requests, Serve(p) PROVE Goal
  <2>1. ServeStep(p)
    BY <1>4, ServeIs
  <2>2. UNCHANGED alone
    BY <1>4 DEF Serve, ReadDir, LoadTemplate, WalkDone, Get, Create, Update, CallFails, WriteAnswerLost
  <2>3. p = r
    BY <2>1, <2>2 DEF ServeStep, AloneInv, Busy
  <2>4. Busy' \subseteq {r}
    BY <2>1, <2>2, <2>3 DEF ServeStep, AloneInv, Busy, Others
  <2>5. /\ req[r].stage \in 1..3 /\ Kind(r) = Kinds[req[r].stage]
        /\ objects = [k \in Range(Kinds) |-> objects[k]]
    BY <1>0 DEF TypeInv, TypeOK, RequestStates, Kind
  <2>6. \A i \in 1..3 : \/ objects'[Kinds[i]] = objects[Kinds[i]]
                        \/ i = req[r].stage /\ objects'[Kinds[i]] = Desired(r, Kinds[i])
    BY <2>1, <2>3, <2>5, KindsAre DEF ServeStep, Writes
  <2>7. CASE WalkStep(r)
    <3>1. req[r].pc \in {"readdir", "walk"}
      BY <2>7 DEF WalkStep
    <3>2. req[r].stage = 1
      BY <1>0, <3>1 DEF TypeInv
    <3>3. req'[r].stage = 1 /\ req'[r].pc \in {"walk", "get"}
      BY <2>7, <3>2 DEF WalkStep, Is
    <3>4. \A i \in 1..3 : ~Done(r, i)'
      BY <3>3 DEF Done
    <3>. QED
      BY <2>2, <2>4, <3>3, <3>4 DEF AloneInv
  <2>8. CASE WriteStep(r) \/ AgainStep(r)
    <3>1. /\ req[r].pc \in {"get", "create", "update"} /\ req'[r].pc \in {"get", "create", "update"}
          /\ req'[r].stage = req[r].stage /\ req'[r].list = req[r].list
      BY <2>8 DEF WriteStep, AgainStep, Lost, Is
    <3>2. ASSUME NEW i \in 1..3, Done(r, i)' PROVE objects'[Kinds[i]] = Desired(r, Kinds[i])'
      <4>1. Done(r, i) /\ i # req[r].stage
        BY <2>5, <3>1, <3>2 DEF Done
      <4>. QED
        BY <2>2, <2>6, <3>1, <4>1 DEF AloneInv, Desired
    <3>. QED
      BY <2>2, <2>4, <3>1, <3>2 DEF AloneInv
  <2>9. CASE EnsuredStep(r)
    <3>1. /\ req[r].pc \in {"get", "create", "update"} /\ req'[r].list = req[r].list
          /\ req'[r].pc \in {"get", "granted"}
          /\ objects'[Kind(r)] = Desired(r, Kind(r))
          /\ req'[r].pc = "granted" => req[r].stage = 3
          /\ req'[r].pc = "get" => req'[r].stage = req[r].stage + 1
      BY <2>9 DEF EnsuredStep, Is
    <3>2. ASSUME NEW i \in 1..3, Done(r, i)' PROVE objects'[Kinds[i]] = Desired(r, Kinds[i])'
      <4>1. i = req[r].stage \/ (i < req[r].stage /\ Done(r, i))
        BY <2>5, <3>1, <3>2 DEF Done
      <4>2. objects'[Kinds[i]] = Desired(r, Kinds[i])
        BY <2>2, <2>5, <2>6, <3>1, <4>1 DEF AloneInv
      <4>. QED
        BY <3>1, <4>2 DEF Desired
    <3>. QED
      BY <2>2, <2>4, <3>1, <3>2 DEF AloneInv
  <2>10. CASE DenyStep(r)
    BY <2>2, <2>4, <2>10 DEF DenyStep, AloneInv, Done, Is
  <2>. QED
    BY <2>1, <2>3, <2>7, <2>8, <2>9, <2>10 DEF ServeStep
<1>5. CASE Publish
  BY <1>1, <1>5 DEF Publish
<1>6. ASSUME NEW k \in DOMAIN Foreign, Tamper(k) PROVE Goal
  BY <1>6 DEF Tamper
<1>. QED
  BY <1>1, <1>2, <1>3, <1>4, <1>5, <1>6 DEF Next, vars

\* A request that met no other leaves all three objects as it answers, however
\* it found them (owner_access.go ensureOwnerAccess).
THEOREM GrantIsInForce == Spec => []AloneGrantInForce
<1>1. Init => AloneInv
  BY DEF Init, AloneInv
<1>2. AloneInv => AloneGrantInForce
  <2>. SUFFICES ASSUME AloneInv, NEW r \in alone, req[r].pc = "granted", NEW k \in Range(Kinds)
                PROVE  objects[k] = Desired(r, k)
    BY DEF AloneGrantInForce
  <2>1. \E i \in 1..3 : k = Kinds[i]
    BY KindsAre
  <2>. QED
    BY <2>1 DEF AloneInv, Done
<1>. QED
  BY <1>1, <1>2, InitInv, NextInv, AloneNext, PTL DEF Spec

-----------------------------------------------------------------------------
(* Requests over unchanged templates. *)

\* They all want the same: so an object that one of them has written is as the
\* others want it, and whoever lost a race to it is at its first try.
AtOne(r) ==
  /\ req[r].pc = "walk" =>
       req[r].list \cup {t \in req[r].todo : files[t] = "persistent"} = Published
  /\ req[r].pc \in {"get", "create", "update"} => req[r].list = Published
  /\ req[r].pc = "create" => objects[Kind(r)] \in {Absent, Desired(r, Kind(r))}
  /\ req[r].pc = "update" /\ r \notin fresh => objects[Kind(r)] = Desired(r, Kind(r))
  /\ req[r].pc = "get" /\ req[r].tries > 1 => objects[Kind(r)] = Desired(r, Kind(r))
  /\ req[r].pc \in {"create", "update"} => req[r].tries = 1

StableInv == stable => \A r \in Busy : AtOne(r)

\* Another request's step leaves it so.
LEMMA OtherStep ==
  ASSUME TypeInv, NEW r \in Requests, NEW p \in Requests, p # r, AtOne(p), AtOne(r), ServeStep(p),
         UNCHANGED files
  PROVE  AtOne(r)'
<1>1. req'[r] = req[r] /\ req[r].stage \in 1..3 /\ req[p].stage \in 1..3
  BY DEF ServeStep, Others, TypeInv, TypeOK, RequestStates
<1>2. CASE UNCHANGED objects /\ (r \in fresh <=> r \in fresh')
  BY <1>1, <1>2 DEF AtOne, Published, Kind, Desired
<1>3. CASE req[p].pc \in {"create", "update"} /\ Writes(p) /\ Kind(p) # Kind(r)
  <2>1. r \in fresh <=> r \in fresh'
    BY <1>3 DEF Writes
  <2>2. objects'[Kind(r)] = objects[Kind(r)]
    BY <1>1, <1>3, KindsAre DEF Writes, TypeInv, Kind
  <2>. QED
    BY <1>1, <2>1, <2>2 DEF AtOne, Published, Kind, Desired
<1>4. CASE req[p].pc \in {"create", "update"} /\ Writes(p) /\ Kind(p) = Kind(r)
  <2>1. objects'[Kind(r)] = Desired(p, Kind(r))
    BY <1>1, <1>4, KindsAre DEF Writes, TypeInv, Kind
  <2>2. CASE req[r].pc \in {"get", "create", "update"}
    <3>1. req[p].list = Published /\ req[r].list = Published
      BY <1>4, <2>2 DEF AtOne
    <3>2. objects'[Kind(r)] = Desired(r, Kind(r))
      BY <2>1, <3>1 DEF Desired
    <3>3. Kind(r)' = Kind(r) /\ Desired(r, Kind(r))' = Desired(r, Kind(r)) /\ Published' = Published
      BY <1>1 DEF Kind, Desired, Published
    <3>. QED
      BY <1>1, <2>2, <3>2, <3>3 DEF AtOne
  <2>3. CASE req[r].pc \notin {"get", "create", "update"}
    BY <1>1, <2>3 DEF AtOne, Published
  <2>. QED
    BY <2>2, <2>3
<1>. QED
  BY <1>2, <1>3, <1>4 DEF ServeStep

\* So does its own.
LEMMA OwnStep ==
  ASSUME TypeInv, NEW r \in Requests, AtOne(r), ServeStep(r), UNCHANGED files
  PROVE  AtOne(r)'
<1>0. /\ req[r] \in RequestStates /\ req[r].stage \in 1..3 /\ req[r].tries \in Nat
      /\ Published' = Published
  BY AccessAssumption DEF AccessAssumption, TypeInv, TypeOK, RequestStates, Published
<1>1. CASE req[r].pc = "readdir" /\ WalkStep(r)
  <2>1. req[r].list = {}
    BY <1>1 DEF TypeInv
  <2>2. req'[r].pc = "walk" /\ req'[r].list = {} /\ req'[r].todo = {t \in Templates : files[t] # "absent"}
    BY <1>1, <2>1 DEF WalkStep, Is
  <2>. QED
    BY <2>2 DEF AtOne, Published
<1>2. CASE req[r].pc = "walk" /\ WalkStep(r)
  <2>1. req[r].tries = 1
    BY <1>2 DEF TypeInv
  <2>2. CASE \E t \in req[r].todo :
               Is(req'[r], "walk", req[r].todo \ {t},
                  IF files[t] = "persistent" THEN req[r].list \cup {t} ELSE req[r].list,
                  req[r].stage, req[r].tries, req[r].why)
    <3>1. PICK t \in req[r].todo :
             /\ req'[r].pc = "walk" /\ req'[r].todo = req[r].todo \ {t}
             /\ req'[r].list = IF files[t] = "persistent" THEN req[r].list \cup {t} ELSE req[r].list
      BY <2>2 DEF Is
    <3>. QED
      BY <1>2, <3>1 DEF AtOne, Published
  <2>3. CASE req[r].todo = {} /\ Is(req'[r], "get", req[r].todo, req[r].list, req[r].stage,
                                    req[r].tries, req[r].why)
    <3>1. req[r].list = Published
      BY <1>2, <2>3 DEF AtOne
    <3>2. req'[r].pc = "get" /\ req'[r].list = req[r].list /\ req'[r].tries = 1
      BY <2>1, <2>3 DEF Is
    <3>. QED
      BY <1>0, <3>1, <3>2 DEF AtOne
  <2>. QED
    BY <1>2, <2>2, <2>3 DEF WalkStep
<1>3. CASE WriteStep(r)
  <2>1. /\ req[r].pc = "get" /\ req'[r].pc \in {"create", "update"}
        /\ req'[r].list = req[r].list /\ req'[r].stage = req[r].stage /\ req'[r].tries = req[r].tries
        /\ req'[r].pc = "create" => objects[Kind(r)] = Absent
        /\ req'[r].pc = "update" => r \in fresh' /\ objects[Kind(r)] # Desired(r, Kind(r))
    BY <1>3 DEF WriteStep, Is
  <2>2. objects[Kind(r)] # Desired(r, Kind(r))
    BY <2>1, DesiredType DEF TypeInv
  <2>3. req[r].tries = 1 /\ req[r].list = Published
    <3>1. 1 <= req[r].tries
      BY <1>0 DEF RequestStates
    <3>. QED
      BY <1>0, <2>1, <2>2, <3>1 DEF AtOne
  <2>4. objects' = objects
    BY <2>1 DEF ServeStep
  <2>. QED
    BY <1>0, <2>1, <2>3, <2>4 DEF AtOne, Kind, Desired
<1>4. CASE EnsuredStep(r)
  <2>1. req'[r].pc \in {"get", "granted"} /\ req'[r].list = req[r].list /\ req'[r].tries = 1
    BY <1>4 DEF EnsuredStep, Is
  <2>2. req[r].list = Published
    BY <1>4 DEF EnsuredStep, AtOne
  <2>. QED
    BY <1>0, <2>1, <2>2 DEF AtOne
<1>5. CASE AgainStep(r)
  <2>1. /\ req[r].pc \in {"create", "update"} /\ objects[Kind(r)] = Desired(r, Kind(r))
        /\ req[r].list = Published
    BY <1>5 DEF AgainStep, Lost, AtOne
  <2>2. /\ req'[r].pc = "get" /\ req'[r].list = req[r].list /\ req'[r].stage = req[r].stage
    BY <1>5 DEF AgainStep, Is
  <2>3. objects'[Kind(r)] = Desired(r, Kind(r))
    BY <1>0, <2>1, KindsAre DEF ServeStep, Writes, TypeInv, Kind
  <2>. QED
    BY <1>0, <2>1, <2>2, <2>3 DEF AtOne, Kind, Desired
<1>6. CASE DenyStep(r)
  BY <1>6 DEF DenyStep, AtOne, Is
<1>. QED
  BY <1>1, <1>2, <1>3, <1>4, <1>5, <1>6 DEF ServeStep, WalkStep

LEMMA StableNext == TypeInv /\ StableInv /\ [Next]_vars => StableInv'
<1>. SUFFICES ASSUME TypeInv, StableInv, [Next]_vars, stable', NEW r \in Busy'
              PROVE  AtOne(r)'
  BY DEF StableInv
<1>0. TypeOK /\ r \in Requests /\ req'[r].pc \in Working
  BY DEF TypeInv, Busy
<1>1. ASSUME stable, UNCHANGED <<files, objects, fresh>>, req'[r] = req[r]
      PROVE  AtOne(r)'
  <2>1. AtOne(r)
    BY <1>0, <1>1 DEF StableInv, Busy
  <2>. QED
    BY <1>1, <2>1 DEF AtOne, Published, Kind, Desired
<1>2. ASSUME NEW p \in Requests, Arrive(p) PROVE AtOne(r)'
  <2>1. Is(req'[p], "readdir", {}, {}, 1, 1, "none") /\ Others(p)
    BY <1>0, <1>2, ArriveIs
  <2>2. CASE r = p
    BY <2>1, <2>2 DEF Is, AtOne
  <2>3. CASE r # p
    <3>1. req'[r] = req[r]
      BY <1>0, <2>1, <2>3 DEF Others
    <3>2. r \in Busy /\ stable
      BY <1>0, <1>2, <3>1 DEF Arrive, Busy
    <3>. QED
      BY <1>1, <1>2, <3>1, <3>2 DEF Arrive
  <2>. QED
    BY <2>2, <2>3
<1>3. ASSUME NEW p \in Requests, Leave(p) PROVE AtOne(r)'
  <2>1. Is(req'[p], "idle", {}, {}, 1, 1, "none") /\ Others(p)
    BY <1>0, <1>3, LeaveIs
  <2>2. r # p
    BY <1>0, <2>1 DEF Is, Working
  <2>. QED
    BY <1>0, <1>1, <1>3, <2>1, <2>2 DEF Leave, Others
<1>4. ASSUME NEW p \in Requests, Serve(p) PROVE AtOne(r)'
  <2>1. ServeStep(p)
    BY <1>4, ServeIs
  <2>2. UNCHANGED <<files, stable>>
    BY <1>4 DEF Serve, ReadDir, LoadTemplate, WalkDone, Get, Create, Update, CallFails, WriteAnswerLost
  <2>3. AtOne(p)
    BY <2>1, <2>2 DEF StableInv, Busy, ServeStep
  <2>4. CASE r = p
    BY <2>1, <2>2, <2>3, <2>4, OwnStep
  <2>5. CASE r # p
    <3>1. AtOne(r)
      BY <1>0, <2>1, <2>2, <2>5 DEF StableInv, Busy, ServeStep, Others
    <3>. QED
      BY <1>0, <2>1, <2>2, <2>3, <2>5, <3>1, OtherStep
  <2>. QED
    BY <2>4, <2>5
<1>5. ASSUME Publish \/ \E k \in DOMAIN Foreign : Tamper(k) PROVE AtOne(r)'
  BY <1>0, <1>5 DEF Publish, Tamper, Busy
<1>6. CASE UNCHANGED vars
  <2>1. stable /\ UNCHANGED <<files, objects, fresh, req>>
    BY <1>6 DEF vars
  <2>. QED
    BY <1>1, <2>1
<1>. QED
  BY <1>2, <1>3, <1>4, <1>5, <1>6 DEF Next

\* While the published templates stay as they are, any number of concurrent
\* settings requests of one owner never use up each other's tries: two are
\* enough, of the five that retry.DefaultRetry makes.
THEOREM NobodyIsDenied == ASSUME Tries >= 2 PROVE Spec => NoMutualDenial
<1>1. Init => StableInv
  BY DEF Init, StableInv, Busy, NoRequest, Working
<1>2. TypeInv /\ StableInv /\ [Next]_vars =>
        [stable => \A r \in Requests : req'[r].why = "conflict" => req[r].why = "conflict"]_vars
  <2>. SUFFICES ASSUME TypeInv, StableInv, [Next]_vars, stable, NEW r \in Requests,
                       req'[r].why = "conflict", req[r].why # "conflict"
                PROVE  FALSE
    OBVIOUS
  <2>0. TypeOK /\ Tries \in Nat /\ req'[r] # req[r]
    BY AccessAssumption DEF AccessAssumption, TypeInv
  <2>1. ASSUME NEW p \in Requests, Arrive(p) \/ Leave(p) PROVE FALSE
    BY <2>0, <2>1, ArriveIs, LeaveIs DEF Is, Others
  <2>2. ASSUME NEW p \in Requests, Serve(p) PROVE FALSE
    <3>1. ServeStep(p) /\ p = r
      BY <2>0, <2>2, ServeIs DEF ServeStep, Others
    <3>2. DenyStep(r)
      BY <3>1 DEF ServeStep, WalkStep, WriteStep, EnsuredStep, AgainStep, Is
    <3>3. Lost(r) /\ req[r].tries = Tries
      BY <3>2 DEF DenyStep, Is
    <3>4. req[r].tries = 1
      BY <3>1, <3>3 DEF StableInv, Busy, ServeStep, Lost, AtOne
    <3>. QED
      BY <2>0, <3>3, <3>4
  <2>3. CASE UNCHANGED req
    BY <2>0, <2>3
  <2>. QED
    BY <2>1, <2>2, <2>3 DEF Next, Publish, Tamper, vars
<1>. QED
  BY <1>1, <1>2, InitInv, NextInv, StableNext, PTL DEF Spec, NoMutualDenial

-----------------------------------------------------------------------------
(* The walk over the directory. *)

\* A request that works on is served.
LEMMA OnlyServed ==
  ASSUME TypeInv, [Next]_vars, NEW r \in Requests, req[r].pc \in Working, req'[r] # req[r]
  PROVE  Serve(r)
<1>1. ASSUME NEW p \in Requests, Leave(p) \/ Arrive(p) PROVE FALSE
  BY <1>1, LeaveIs, ArriveIs DEF Others, Leave, Arrive, Working, TypeInv
<1>2. ASSUME NEW p \in Requests, Serve(p) PROVE p = r
  BY <1>2, ServeIs DEF ServeStep, Others
<1>. QED
  BY <1>1, <1>2 DEF Next, Publish, Tamper, vars

\* Every template that the walk has dealt with is accounted for by a directory that
\* was mounted while it went on.
WalkInv(r) ==
  req[r].pc \in Walking =>
    /\ files \in seen[r]
    /\ req[r].list \cap req[r].todo = {}
    /\ req[r].pc = "walk" =>
         \A t \in Templates \ req[r].todo : seen[r] \cap Accounts(req[r].list, t) # {}

LEMMA WalkNext ==
  ASSUME TypeInv, TypeInv', [Next]_vars, NEW r \in Requests, WalkInv(r)
  PROVE  WalkInv(r)'
<1>. SUFFICES ASSUME req'[r].pc \in Walking PROVE WalkInv(r)'
  BY DEF WalkInv
<1>0. TypeOK /\ files \in Files /\ files' \in Files /\ req[r] \in RequestStates
  BY DEF TypeInv, TypeOK
<1>1. CASE UNCHANGED <<seen, files>> /\ req'[r] = req[r]
  BY <1>1 DEF WalkInv, Accounts
<1>2. CASE Watch /\ req'[r] = req[r]
  <2>1. seen'[r] = seen[r] \cup {files'}
    BY <1>2 DEF Watch
  <2>. QED
    BY <1>2, <2>1 DEF WalkInv, Accounts
<1>3. CASE Arrive(r)
  <2>1. seen'[r] = seen[r] \cup {files'}
    BY <1>3 DEF Arrive, Watch
  <2>2. Is(req'[r], "readdir", {}, {}, 1, 1, "none")
    BY <1>0, <1>3, ArriveIs
  <2>. QED
    BY <2>1, <2>2 DEF Is, WalkInv
<1>4. CASE ReadDir(r) \/ LoadTemplate(r) \/ WalkDone(r)
  <2>1. seen'[r] = seen[r] \cup {files} /\ files' = files /\ req[r].pc \in Walking
    BY <1>4 DEF ReadDir, LoadTemplate, WalkDone, Watch, Walking
  <2>2. files \in seen[r] /\ seen'[r] = seen[r] /\ req[r].list \cap req[r].todo = {}
    BY <2>1 DEF WalkInv
  <2>3. ServeStep(r)
    BY <1>4, ServeIs DEF Serve
  <2>4. WalkStep(r)
    BY <2>3 DEF ServeStep, WriteStep, EnsuredStep, AgainStep, DenyStep, Is, Walking
  <2>5. CASE req[r].pc = "readdir"
    <3>1. req[r].list = {}
      BY <2>5 DEF TypeInv
    <3>2. req'[r].pc = "walk" /\ req'[r].list = {} /\ req'[r].todo = {t \in Templates : files[t] # "absent"}
      BY <2>4, <2>5, <3>1 DEF WalkStep, Is
    <3>3. ASSUME NEW t \in Templates \ req'[r].todo PROVE files \in Accounts({}, t)
      BY <1>0, <3>2, <3>3 DEF Accounts
    <3>. QED
      BY <2>1, <2>2, <3>2, <3>3 DEF WalkInv
  <2>6. CASE req[r].pc = "walk"
    <3>1. PICK t \in req[r].todo :
            /\ files[t] \notin {"bad", "absent"}
            /\ req'[r].pc = "walk" /\ req'[r].todo = req[r].todo \ {t}
            /\ req'[r].list = IF files[t] = "persistent" THEN req[r].list \cup {t} ELSE req[r].list
      BY <2>4, <2>6 DEF WalkStep, Is, Walking
    <3>2. t \in Templates /\ t \notin req[r].list /\ files[t] \in {"persistent", "other"}
      BY <1>0, <2>2, <3>1 DEF RequestStates, Files
    <3>3. files \in Accounts(req'[r].list, t)
      BY <1>0, <3>1, <3>2 DEF Accounts
    <3>4. ASSUME NEW u \in Templates \ req[r].todo
          PROVE  seen[r] \cap Accounts(req'[r].list, u) # {}
      <4>1. u # t /\ (u \in req'[r].list <=> u \in req[r].list)
        BY <3>1
      <4>2. Accounts(req'[r].list, u) = Accounts(req[r].list, u)
        BY <4>1 DEF Accounts
      <4>. QED
        BY <2>6, <4>2 DEF WalkInv, Walking
    <3>5. \A u \in Templates \ req'[r].todo : seen[r] \cap Accounts(req'[r].list, u) # {}
      BY <2>2, <3>1, <3>3, <3>4
    <3>6. req'[r].list \cap req'[r].todo = {}
      BY <2>2, <3>1
    <3>. QED
      BY <2>1, <2>2, <3>1, <3>5, <3>6 DEF WalkInv
  <2>. QED
    BY <2>1, <2>5, <2>6 DEF Walking
<1>5. ASSUME req'[r] # req[r]
      PROVE  Arrive(r) \/ ReadDir(r) \/ LoadTemplate(r) \/ WalkDone(r)
  <2>1. ASSUME NEW p \in Requests, Leave(p) PROVE FALSE
    BY <1>0, <1>5, <2>1, LeaveIs DEF Is, Others, Walking
  <2>2. ASSUME NEW p \in Requests, Arrive(p) PROVE p = r
    BY <1>0, <1>5, <2>2, ArriveIs DEF Others
  <2>3. ASSUME NEW p \in Requests, Serve(p) PROVE p = r
    BY <1>5, <2>3, ServeIs DEF ServeStep, Others
  <2>4. ASSUME Get(r) \/ Create(r) \/ Update(r) \/ CallFails(r) \/ WriteAnswerLost(r) PROVE FALSE
    BY <2>4, WalksNoMore
  <2>. QED
    BY <1>5, <2>1, <2>2, <2>3, <2>4 DEF Next, Serve, Publish, Tamper, vars
<1>. QED
  BY <1>1, <1>2, <1>3, <1>4, <1>5, SeenStep

\* A settings list may mix two directories, but it lists nothing and leaves out
\* nothing that no directory of the walk accounts for (persistentTemplates).
THEOREM ListIsAccountedFor == Spec => ListWasPublished
<1>. DEFINE Walks == \A r \in Requests : WalkInv(r)
<1>1. Init => Walks
  BY DEF Init, WalkInv, NoRequest, Walking
<1>2. TypeInv /\ TypeInv' /\ Walks /\ [Next]_vars => Walks'
  BY WalkNext
<1>3. TypeInv /\ Walks /\ [Next]_vars =>
        \A r \in Requests : req[r].pc = "walk" /\ req'[r].pc = "get" =>
          \A t \in Templates : seen[r] \cap Accounts(req'[r].list, t) # {}
  <2>. SUFFICES ASSUME TypeInv, Walks, [Next]_vars, NEW r \in Requests,
                       req[r].pc = "walk", req'[r].pc = "get"
                PROVE  \A t \in Templates : seen[r] \cap Accounts(req'[r].list, t) # {}
    OBVIOUS
  <2>1. Serve(r)
    BY OnlyServed DEF Working
  <2>2. WalkStep(r)
    BY <2>1, ServeIs DEF ServeStep, WriteStep, EnsuredStep, AgainStep, Lost, DenyStep, Is
  <2>3. req[r].todo = {} /\ req'[r].list = req[r].list
    BY <2>2 DEF WalkStep, Is
  <2>. QED
    BY <2>3 DEF WalkInv, Walking
<1>. QED
  BY <1>1, <1>2, <1>3, InitInv, NextInv, PTL DEF Spec, ListWasPublished

-----------------------------------------------------------------------------
(* Reconciling ends. *)

LEMMA CallsNext ==
  ASSUME TypeInv, TypeInv', [Next]_vars, NEW r \in Requests, req[r].pc \in Reconciling
  PROVE  RunsOn(r)
<1>0. /\ req[r].stage \in {1, 2, 3} /\ req[r].tries \in 1..Tries /\ Tries \in Nat
      /\ req'[r].stage \in {1, 2, 3} /\ req'[r].tries \in 1..Tries /\ Len(Kinds) = 3
  BY AccessAssumption, KindsAre DEF AccessAssumption, TypeInv, TypeOK, RequestStates
<1>. DEFINE Base(stage) == 2 * Tries * (3 - stage)
<1>1. Base(1) = 4 * Tries /\ Base(2) = 2 * Tries /\ Base(3) = 0
  BY <1>0
<1>2. CallsLeft(r) = Base(req[r].stage) + 2 * (Tries - req[r].tries) + IF req[r].pc = "get" THEN 2 ELSE 1
  BY <1>0 DEF CallsLeft
<1>3. CallsLeft(r)' = Base(req'[r].stage) + 2 * (Tries - req'[r].tries) + IF req'[r].pc = "get" THEN 2 ELSE 1
  BY <1>0 DEF CallsLeft
<1>. HIDE DEF Base
<1>4. CASE req'[r] = req[r] \/ req'[r].pc \notin Working
  BY <1>4 DEF RunsOn
<1>5. CASE req'[r] # req[r] /\ req'[r].pc \in Working
  <2>1. ServeStep(r)
    BY <1>5, OnlyServed, ServeIs DEF Reconciling, Working
  <2>2. CASE WriteStep(r)
    <3>1. /\ req[r].pc = "get" /\ req'[r].pc \in {"create", "update"}
          /\ req'[r].stage = req[r].stage /\ req'[r].tries = req[r].tries
      BY <2>2 DEF WriteStep, Is
    <3>2. CallsLeft(r)' \in 1..(CallsLeft(r) - 1)
      BY <1>0, <1>1, <1>2, <1>3, <3>1
    <3>. QED
      BY <3>1, <3>2 DEF RunsOn, Reconciling
  <2>3. CASE EnsuredStep(r)
    <3>1. /\ req[r].stage \in {1, 2} /\ req'[r].pc = "get"
          /\ req'[r].stage = req[r].stage + 1 /\ req'[r].tries = 1
      BY <1>5, <2>3 DEF EnsuredStep, Is, Working
    <3>2. CallsLeft(r)' \in 1..(CallsLeft(r) - 1)
      BY <1>0, <1>1, <1>2, <1>3, <3>1
    <3>. QED
      BY <3>1, <3>2 DEF RunsOn, Reconciling
  <2>4. CASE AgainStep(r)
    <3>1. /\ req[r].pc \in {"create", "update"} /\ req'[r].pc = "get"
          /\ req'[r].stage = req[r].stage /\ req'[r].tries = req[r].tries + 1
      BY <2>4 DEF AgainStep, Lost, Is
    <3>2. CallsLeft(r)' \in 1..(CallsLeft(r) - 1)
      BY <1>0, <1>1, <1>2, <1>3, <3>1
    <3>. QED
      BY <3>1, <3>2 DEF RunsOn, Reconciling
  <2>5. ~DenyStep(r) /\ ~WalkStep(r)
    BY <1>5 DEF DenyStep, WalkStep, Is, Working, Reconciling
  <2>. QED
    BY <2>1, <2>2, <2>3, <2>4, <2>5 DEF ServeStep
<1>. QED
  BY <1>4, <1>5

\* The reconciliation of the three objects makes at most two calls for each try of
\* each, whoever interferes (retry.OnError in the ensureOwner functions).
THEOREM ReconcilingRunsOut == Spec => ReconcilingEnds
<1>1. TypeInv /\ TypeInv' /\ [Next]_vars => \A r \in Requests : req[r].pc \in Reconciling => RunsOn(r)
  BY CallsNext
<1>. QED
  BY <1>1, InitInv, NextInv, PTL DEF Spec, ReconcilingEnds
=============================================================================
