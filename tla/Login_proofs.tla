---------------------------- MODULE Login_proofs ----------------------------
(***************************************************************************)
(* Who gets in was entitled to, and who is denied had it coming, for any   *)
(* number of accounts, keys, templates and policies.                       *)
(*                                                                         *)
(* The invariant follows the evidence: while a request is handled, what is *)
(* true now is among what was true of it, and what a handler has found out *)
(* so far is among it too.                                                 *)
(***************************************************************************)
EXTENDS Login, FiniteSetTheorems, TLAPS

Logins == [at : Places, ask : Questions, template : Templates, key : Keys \cup {NoKey},
           owner : Names \cup {Blank}, count : 0..Cardinality(Names),
           server : Policies, answer : Answers]

\* The key question was answered for this owner; and so was the other.
Keyholder(name) == <<"owner", name>> \in verdicts.key
Entitled(name) ==
  /\ Keyholder(name)
  /\ TemplateAllowed(login.server, login.template)
  /\ login.server.group => "member" \in verdicts.group

Evidence ==
  /\ login.at \in {"count", "list"} =>
       login.ask = "pubkey" /\ KeyVerdict(users, login.key) \in verdicts.key
  /\ login.at = "list" /\ login.count # 1 => <<"nobody", Blank>> \in verdicts.key
  /\ login.at \in {"authz", "member"} =>
       /\ login.ask = "authz" /\ Keyholder(login.owner)
       /\ GroupVerdict(users, login.owner) \in verdicts.group
  /\ login.at = "member" =>
       login.server.group /\ TemplateAllowed(login.server, login.template)

Answered ==
  login.at = "answer" =>
    /\ login.ask \in {"password", "pubkey", "authz"}
    /\ login.ask = "password" => ~login.answer.success
    /\ login.ask = "authz" => login.owner # Blank /\ Keyholder(login.owner)
    /\ login.answer.success /\ login.ask = "pubkey" => Keyholder(login.answer.owner)
    /\ login.answer.success /\ login.ask = "authz" => Entitled(login.answer.owner)

Admitted == login.at = "config" => Entitled(login.owner)

Inv == TypeOK /\ Evidence /\ Answered /\ Admitted /\ DeniedWasJustified

-----------------------------------------------------------------------------
\* What one glance at the accounts says of a key.
LEMMA Verdicts ==
  ASSUME NEW accounts, NEW key
  PROVE  /\ KeyVerdict(accounts, key) \in {"owner", "inactive", "nobody"} \X (Names \cup {Blank})
         /\ Cardinality(Matches(accounts, key)) # 1 =>
              KeyVerdict(accounts, key) = <<"nobody", Blank>>
         /\ \A user \in Matches(accounts, key) : Cardinality(Matches(accounts, key)) = 1 =>
              KeyVerdict(accounts, key) =
                <<IF accounts[user].active THEN "owner" ELSE "inactive", user>>
<1> DEFINE found == Matches(accounts, key)
<1>1. found \subseteq Names /\ IsFiniteSet(found)
  BY LoginAssumption, FS_Subset DEF Matches, LoginAssumption
<1>2. CASE Cardinality(found) # 1
  BY <1>2 DEF KeyVerdict
<1>3. CASE Cardinality(found) = 1
  <2>1. PICK name : found = {name}
    BY <1>1, <1>3, FS_Singleton
  <2>2. (CHOOSE n \in found : TRUE) = name
    BY <2>1
  <2>3. KeyVerdict(accounts, key) = <<IF accounts[name].active THEN "owner" ELSE "inactive", name>>
    BY <1>3, <2>2 DEF KeyVerdict
  <2> QED
    BY <1>1, <1>3, <2>1, <2>3
<1> QED
  BY <1>2, <1>3

LEMMA Counts ==
  ASSUME NEW accounts, NEW key
  PROVE  Cardinality(Matches(accounts, key)) \in 0..Cardinality(Names)
<1>1. Matches(accounts, key) \in SUBSET Names /\ IsFiniteSet(Names)
  BY LoginAssumption DEF Matches, LoginAssumption
<1> HIDE DEF Matches
<1> QED
  BY <1>1, FS_Subset, FS_CardinalityType

\* Each answer is one that goes over the wire.
LEMMA AnswersTyped ==
  /\ NoAnswer \in Answers
  /\ \A owner \in Names \cup {Blank}, reason \in Messages \ {"none"} :
       /\ WriteDecision(DenyWith(owner, reason), FALSE) \in Answers
       /\ WriteDecision(DenyWith(owner, reason), FALSE) =
            [status |-> 200, success |-> FALSE, owner |-> owner, message |-> reason]
  /\ \A owner \in Names :
       /\ WriteDecision(Allow(owner), FALSE) \in Answers
       /\ WriteDecision(Allow(owner), FALSE) =
            [status |-> 200, success |-> TRUE, owner |-> owner, message |-> "none"]
<1>1. NoAnswer \in Answers
  BY DEF NoAnswer, Answers, Messages
<1>2. ASSUME NEW owner \in Names \cup {Blank}, NEW reason \in Messages \ {"none"}
      PROVE  /\ WriteDecision(DenyWith(owner, reason), FALSE) \in Answers
             /\ WriteDecision(DenyWith(owner, reason), FALSE) =
                  [status |-> 200, success |-> FALSE, owner |-> owner, message |-> reason]
  BY DEF WriteDecision, DenyWith, Answers
<1>3. ASSUME NEW owner \in Names
      PROVE  /\ WriteDecision(Allow(owner), FALSE) \in Answers
             /\ WriteDecision(Allow(owner), FALSE) =
                  [status |-> 200, success |-> TRUE, owner |-> owner, message |-> "none"]
  BY LoginAssumption DEF WriteDecision, Allow, Answers, Messages, LoginAssumption
<1> QED
  BY <1>1, <1>2, <1>3

LEMMA FailuresTyped ==
  ASSUME NEW owner
  PROVE  WriteDecision([Allow(AuthFailed(owner)) EXCEPT !.success = FALSE], TRUE) = NoAnswer
BY DEF NoAnswer, WriteDecision, Allow, AuthFailed

LEMMA Initial == Init => Inv
<1> SUFFICES ASSUME Init PROVE Inv
  OBVIOUS
<1>1. Cardinality(Names) \in Nat
  BY LoginAssumption, FS_CardinalityType DEF LoginAssumption
<1>2. TypeOK
  <2>1. PICK t \in Templates, p \in Policies :
       login = [at |-> "client", ask |-> "none", template |-> t, key |-> NoKey, owner |-> Blank,
                count |-> 0, server |-> p, answer |-> NoAnswer]
    BY DEF Init
  <2>2. NoAnswer \in Answers
    BY AnswersTyped
  <2>3. login \in Logins /\ login.at = "client"
    BY <1>1, <2>1, <2>2 DEF Logins, Places, Questions
  <2> QED
    BY <2>3 DEF Init, TypeOK, Logins
<1>3. login.at = "client"
  BY DEF Init
<1> QED
  BY <1>2, <1>3 DEF Inv, Evidence, Answered, Admitted, DeniedWasJustified

\* TypeOK, taken apart.
LEMMA Typed ==
  ASSUME TypeOK
  PROVE  /\ login \in Logins /\ login.owner \in Names \cup {Blank} /\ login.answer \in Answers
         /\ login.server \in Policies /\ login.key \in Keys \cup {NoKey}
         /\ policy \in Policies
         /\ login.at \in Places /\ login.ask \in Questions
         /\ verdicts.key \in SUBSET ({"owner", "inactive", "nobody"} \X (Names \cup {Blank}))
         /\ verdicts.group \in SUBSET {"member", "outsider"}
BY DEF TypeOK, Logins

\* A handler answers: what has to be shown of the answer.
LEMMA AnswerKeeps ==
  ASSUME Inv, UNCHANGED <<users, policy, verdicts>>,
         NEW ask \in {"password", "pubkey", "authz"}, NEW answer \in Answers,
         login' = [login EXCEPT !.at = "answer", !.ask = ask, !.answer = answer],
         ask = "password" => ~answer.success,
         ask = "authz" => login.owner # Blank /\ Keyholder(login.owner),
         answer.success /\ ask = "pubkey" => Keyholder(answer.owner),
         answer.success /\ ask = "authz" => Entitled(answer.owner),
         DeniedWasJustified'
  PROVE  Inv'
<1>1. login \in Logins
  BY Typed DEF Inv
<1>2. login' \in Logins
  BY <1>1 DEF Logins, Places, Questions
<1>3. /\ login'.at = "answer" /\ login'.ask = ask /\ login'.answer = answer
      /\ login'.owner = login.owner /\ login'.server = login.server
      /\ login'.template = login.template /\ login'.key = login.key
  BY <1>1 DEF Logins
<1>4. TypeOK'
  BY <1>2, <1>3 DEF Inv, TypeOK, Logins
<1>5. Answered'
  BY <1>3 DEF Answered, Keyholder, Entitled, TemplateAllowed
<1> QED
  BY <1>3, <1>4, <1>5 DEF Inv, Evidence, Admitted

LEMMA PasswordKeeps ==
  ASSUME Inv, OfferPassword
  PROVE  Inv'
<1> DEFINE answer == [status |-> 200, success |-> FALSE, owner |-> Blank, message |-> "password"]
<1>1. answer \in Answers /\ WriteDecision(DenyWith(Blank, "password"), FALSE) = answer
  BY AnswersTyped DEF Messages
<1>2. login' = [login EXCEPT !.at = "answer", !.ask = "password", !.answer = answer]
      /\ UNCHANGED <<users, policy, verdicts>>
  BY <1>1 DEF OfferPassword
<1>3. login \in Logins
  BY Typed DEF Inv
<1>4. login'.ask = "password" /\ login'.answer.message = "password"
  BY <1>2, <1>3 DEF Logins
<1>5. DeniedWasJustified'
  BY <1>4 DEF DeniedWasJustified
<1>6. ~answer.success
  OBVIOUS
<1> HIDE DEF answer
<1> QED
  BY <1>1, <1>2, <1>5, <1>6, AnswerKeeps

LEMMA CountKeeps ==
  ASSUME Inv, CountUsers
  PROVE  Inv'
<1> DEFINE n == Cardinality(Matches(users, login.key))
<1>1. login \in Logins /\ n \in 0..Cardinality(Names)
  BY Typed, Counts DEF Inv
<1>2. login.at = "count" /\ login' = [login EXCEPT !.at = "list", !.count = n]
      /\ UNCHANGED <<users, policy, verdicts>>
  BY DEF CountUsers
<1>3. n # 1 => KeyVerdict(users, login.key) = <<"nobody", Blank>>
  BY Verdicts
<1> HIDE DEF n
<1>4. /\ login'.at = "list" /\ login'.count = n /\ login'.key = login.key
      /\ login'.ask = login.ask /\ login' \in Logins
  BY <1>1, <1>2 DEF Logins, Places
<1>5. TypeOK'
  BY <1>2, <1>4 DEF Inv, TypeOK, Logins
<1> QED
  BY <1>2, <1>3, <1>4, <1>5 DEF Inv, Evidence, Answered, Admitted, DeniedWasJustified

LEMMA ListKeeps ==
  ASSUME Inv, ListUsers
  PROVE  Inv'
<1> DEFINE found == Matches(users, login.key)
<1>1. login \in Logins /\ login.at = "list" /\ login.ask = "pubkey"
      /\ KeyVerdict(users, login.key) \in verdicts.key
      /\ UNCHANGED <<users, policy, verdicts>>
  BY Typed DEF Inv, ListUsers, Evidence
<1>2. ASSUME NEW answer \in Answers,
             login' = [login EXCEPT !.at = "answer", !.answer = answer]
      PROVE  /\ login' = [login EXCEPT !.at = "answer", !.ask = "pubkey", !.answer = answer]
             /\ login'.at = "answer" /\ login'.ask = "pubkey" /\ login'.answer = answer
  BY <1>1, <1>2 DEF Logins
<1>3. CASE ~Unique(login.count, found) /\ Reply(DenyWith(Blank, "notEnrolled"))
  <2> DEFINE answer == [status |-> 200, success |-> FALSE, owner |-> Blank, message |-> "notEnrolled"]
  <2>1. answer \in Answers /\ WriteDecision(DenyWith(Blank, "notEnrolled"), FALSE) = answer
    BY AnswersTyped DEF Messages
  <2>2. <<"nobody", Blank>> \in verdicts.key
    <3>1. CASE login.count # 1
      BY <1>1, <3>1 DEF Inv, Evidence
    <3>2. CASE Cardinality(found) # 1
      BY <1>1, <3>2, Verdicts
    <3> QED
      BY <1>3, <3>1, <3>2 DEF Unique
  <2>3. login' = [login EXCEPT !.at = "answer", !.answer = answer]
    BY <1>3, <2>1 DEF Reply
  <2>4. ~answer.success /\ answer.message = "notEnrolled"
    OBVIOUS
  <2> HIDE DEF answer
  <2>5. DeniedWasJustified'
    BY <1>1, <1>2, <2>1, <2>2, <2>3, <2>4 DEF DeniedWasJustified
  <2> QED
    BY <1>1, <1>2, <2>1, <2>3, <2>4, <2>5, AnswerKeeps
<1>4. ASSUME NEW user \in found, Unique(login.count, found)
      PROVE  /\ user \in Names
             /\ <<IF users[user].active THEN "owner" ELSE "inactive", user>> \in verdicts.key
  BY <1>1, <1>4, Verdicts DEF Unique, Matches
<1>5. ASSUME NEW user \in found, Unique(login.count, found), users[user].active, Reply(Allow(user))
      PROVE  Inv'
  <2> DEFINE answer == [status |-> 200, success |-> TRUE, owner |-> user, message |-> "none"]
  <2>1. answer \in Answers /\ WriteDecision(Allow(user), FALSE) = answer
    BY <1>4, <1>5, AnswersTyped
  <2>2. login' = [login EXCEPT !.at = "answer", !.answer = answer]
    BY <1>5, <2>1 DEF Reply
  <2>3. answer.success /\ answer.owner = user
    OBVIOUS
  <2>4. Keyholder(user)
    BY <1>4, <1>5 DEF Keyholder
  <2> HIDE DEF answer
  <2>5. DeniedWasJustified'
    BY <1>2, <2>1, <2>2, <2>3 DEF DeniedWasJustified
  <2> QED
    BY <1>1, <1>2, <2>1, <2>2, <2>3, <2>4, <2>5, AnswerKeeps
<1>6. ASSUME NEW user \in found, Unique(login.count, found), ~users[user].active,
             Reply(DenyWith(Blank, "inactive"))
      PROVE  Inv'
  <2> DEFINE answer == [status |-> 200, success |-> FALSE, owner |-> Blank, message |-> "inactive"]
  <2>1. answer \in Answers /\ WriteDecision(DenyWith(Blank, "inactive"), FALSE) = answer
    BY AnswersTyped DEF Messages
  <2>2. login' = [login EXCEPT !.at = "answer", !.answer = answer]
    BY <1>6, <2>1 DEF Reply
  <2>3. ~answer.success /\ answer.message = "inactive"
    OBVIOUS
  <2>4. \E n \in Names : <<"inactive", n>> \in verdicts.key
    BY <1>4, <1>6
  <2> HIDE DEF answer
  <2>5. DeniedWasJustified'
    BY <1>1, <1>2, <2>1, <2>2, <2>3, <2>4 DEF DeniedWasJustified
  <2> QED
    BY <1>1, <1>2, <2>1, <2>2, <2>3, <2>5, AnswerKeeps
<1> HIDE DEF found
<1>7. \/ ~Unique(login.count, found) /\ Reply(DenyWith(Blank, "notEnrolled"))
      \/ \E user \in found :
           /\ Unique(login.count, found)
           /\ Reply(IF users[user].active THEN Allow(user) ELSE DenyWith(Blank, "inactive"))
  BY DEF ListUsers, found
<1> QED
  BY <1>3, <1>5, <1>6, <1>7

\* The two questions of OnAuthorization end in an answer, unless both are asked.
LEMMA AuthzAnswers ==
  ASSUME Inv, login.ask = "authz", login.owner # Blank, Keyholder(login.owner),
         UNCHANGED <<users, policy, verdicts>>
  PROVE  /\ Entitled(login.owner) /\ Reply(Allow(login.owner)) => Inv'
         /\ /\ login.server.gate /\ login.template \notin login.server.allowed
            /\ Reply(DenyWith(login.owner, "template"))
            => Inv'
         /\ /\ login.server.group /\ "outsider" \in verdicts.group
            /\ Reply(DenyWith(login.owner, "group"))
            => Inv'
<1>1. login \in Logins /\ login.owner \in Names
  BY Typed DEF Inv
<1>2. ASSUME NEW answer \in Answers,
             login' = [login EXCEPT !.at = "answer", !.answer = answer]
      PROVE  /\ login' = [login EXCEPT !.at = "answer", !.ask = "authz", !.answer = answer]
             /\ login'.at = "answer" /\ login'.ask = "authz" /\ login'.answer = answer
             /\ login'.server = login.server /\ login'.template = login.template
  BY <1>1, <1>2 DEF Logins
<1>3. ASSUME Entitled(login.owner), Reply(Allow(login.owner)) PROVE Inv'
  <2> DEFINE answer == [status |-> 200, success |-> TRUE, owner |-> login.owner, message |-> "none"]
  <2>1. answer \in Answers /\ WriteDecision(Allow(login.owner), FALSE) = answer
    BY <1>1, AnswersTyped
  <2>2. login' = [login EXCEPT !.at = "answer", !.answer = answer]
    BY <1>3, <2>1 DEF Reply
  <2>3. answer.success /\ answer.owner = login.owner
    OBVIOUS
  <2> HIDE DEF answer
  <2>4. DeniedWasJustified'
    BY <1>2, <2>1, <2>2, <2>3 DEF DeniedWasJustified
  <2> QED
    BY <1>2, <1>3, <2>1, <2>2, <2>3, <2>4, AnswerKeeps
<1>4. ASSUME login.server.gate, login.template \notin login.server.allowed,
             Reply(DenyWith(login.owner, "template"))
      PROVE  Inv'
  <2> DEFINE answer == [status |-> 200, success |-> FALSE, owner |-> login.owner, message |-> "template"]
  <2>1. answer \in Answers /\ WriteDecision(DenyWith(login.owner, "template"), FALSE) = answer
    BY <1>1, AnswersTyped DEF Messages
  <2>2. login' = [login EXCEPT !.at = "answer", !.answer = answer]
    BY <1>4, <2>1 DEF Reply
  <2>3. ~answer.success /\ answer.message = "template"
    OBVIOUS
  <2> HIDE DEF answer
  <2>4. DeniedWasJustified'
    BY <1>2, <1>4, <2>1, <2>2, <2>3 DEF DeniedWasJustified
  <2> QED
    BY <1>2, <2>1, <2>2, <2>3, <2>4, AnswerKeeps
<1>5. ASSUME login.server.group, "outsider" \in verdicts.group,
             Reply(DenyWith(login.owner, "group"))
      PROVE  Inv'
  <2> DEFINE answer == [status |-> 200, success |-> FALSE, owner |-> login.owner, message |-> "group"]
  <2>1. answer \in Answers /\ WriteDecision(DenyWith(login.owner, "group"), FALSE) = answer
    BY <1>1, AnswersTyped DEF Messages
  <2>2. login' = [login EXCEPT !.at = "answer", !.answer = answer]
    BY <1>5, <2>1 DEF Reply
  <2>3. ~answer.success /\ answer.message = "group"
    OBVIOUS
  <2> HIDE DEF answer
  <2>4. DeniedWasJustified'
    BY <1>2, <1>5, <2>1, <2>2, <2>3 DEF DeniedWasJustified
  <2> QED
    BY <1>2, <2>1, <2>2, <2>3, <2>4, AnswerKeeps
<1> QED
  BY <1>3, <1>4, <1>5

LEMMA AuthorizeKeeps ==
  ASSUME Inv, Authorize
  PROVE  Inv'
<1>1. /\ login \in Logins /\ login.owner # Blank /\ login.ask = "authz" /\ login.at = "authz"
      /\ Keyholder(login.owner) /\ GroupVerdict(users, login.owner) \in verdicts.group
      /\ UNCHANGED <<users, policy, verdicts>>
  BY Typed DEF Inv, Authorize, Evidence, TypeOK
<1> DEFINE allowed == TemplateAllowed(login.server, login.template)
<1>2. CASE ~allowed /\ Reply(DenyWith(login.owner, "template"))
  BY <1>1, <1>2, AuthzAnswers DEF TemplateAllowed
<1>3. CASE allowed /\ ~login.server.group /\ Reply(Allow(login.owner))
  BY <1>1, <1>3, AuthzAnswers DEF Entitled
<1>4. CASE allowed /\ login.server.group /\ login' = [login EXCEPT !.at = "member"]
  <2>1. /\ login'.at = "member" /\ login'.ask = login.ask /\ login'.owner = login.owner
        /\ login'.server = login.server /\ login'.template = login.template /\ login' \in Logins
    BY <1>1, <1>4 DEF Logins, Places
  <2>2. TypeOK'
    BY <1>1, <2>1 DEF Inv, TypeOK, Logins
  <2>3. Keyholder(login.owner)'
    BY <1>1, <2>1 DEF Keyholder
  <2> QED
    BY <1>1, <1>4, <2>1, <2>2, <2>3 DEF Inv, Evidence, Answered, Admitted, DeniedWasJustified
<1> QED
  BY <1>2, <1>3, <1>4 DEF Authorize

LEMMA MemberKeeps ==
  ASSUME Inv, CheckMember
  PROVE  Inv'
<1>1. /\ login.owner # Blank /\ login.ask = "authz"
      /\ Keyholder(login.owner) /\ GroupVerdict(users, login.owner) \in verdicts.group
      /\ login.server.group /\ TemplateAllowed(login.server, login.template)
      /\ UNCHANGED <<users, policy, verdicts>>
  BY DEF Inv, CheckMember, Evidence, TypeOK
<1>2. CASE Member(users, login.owner)
  <2>1. Entitled(login.owner)
    BY <1>1, <1>2 DEF Entitled, GroupVerdict
  <2> QED
    BY <1>1, <1>2, <2>1, AuthzAnswers DEF CheckMember
<1>3. CASE ~Member(users, login.owner)
  <2>1. "outsider" \in verdicts.group
    BY <1>1, <1>3 DEF GroupVerdict
  <2> QED
    BY <1>1, <1>3, <2>1, AuthzAnswers DEF CheckMember
<1> QED
  BY <1>2, <1>3

LEMMA FailKeeps ==
  ASSUME Inv, LookupFails
  PROVE  Inv'
<1>1. /\ login \in Logins /\ login.at \in {"count", "list", "member"}
      /\ UNCHANGED <<users, policy, verdicts>>
  BY Typed DEF Inv, LookupFails
<1>2. login' = [login EXCEPT !.at = "answer", !.answer = NoAnswer]
  BY FailuresTyped DEF LookupFails, Failure
<1>3. login.ask \in {"pubkey", "authz"}
  BY <1>1 DEF Inv, Evidence
<1>4. login' = [login EXCEPT !.at = "answer", !.ask = login.ask, !.answer = NoAnswer]
  BY <1>1, <1>2 DEF Logins
<1>5. NoAnswer \in Answers /\ ~NoAnswer.success /\ NoAnswer.status # 200
  BY AnswersTyped DEF NoAnswer
<1>6. login'.answer = NoAnswer
  BY <1>1, <1>2 DEF Logins
<1>7. DeniedWasJustified'
  BY <1>5, <1>6 DEF DeniedWasJustified
<1>8. login.ask = "authz" => login.owner # Blank /\ Keyholder(login.owner)
  BY <1>1 DEF Inv, TypeOK, Evidence
<1> QED
  BY <1>1, <1>3, <1>4, <1>5, <1>7, <1>8, AnswerKeeps

-----------------------------------------------------------------------------
\* A question is asked: the evidence of a key question starts anew, that of an
\* authorization is added.
LEMMA SendKeeps ==
  ASSUME Inv, NEW key \in Keys \cup {NoKey}, NEW owner \in Names \cup {Blank}
  PROVE  /\ Send("pubkey", key, owner) => Inv'
         /\ Send("authz", key, owner) /\ owner # Blank /\ Keyholder(owner) => Inv'
<1>1. login \in Logins /\ policy \in Policies /\ NoAnswer \in Answers /\ Cardinality(Names) \in Nat
      /\ verdicts.key \in SUBSET ({"owner", "inactive", "nobody"} \X (Names \cup {Blank}))
  BY Typed, AnswersTyped, LoginAssumption, FS_CardinalityType DEF Inv, LoginAssumption
<1>2. ASSUME NEW at \in {"count", "authz"}, NEW question \in {"pubkey", "authz"},
             UNCHANGED <<users, policy>>,
             login' = [login EXCEPT !.at = at, !.ask = question, !.key = key, !.owner = owner,
                                    !.count = 0, !.server = policy, !.answer = NoAnswer]
      PROVE  /\ login' \in Logins /\ login'.at = at /\ login'.ask = question
             /\ login'.key = key /\ login'.owner = owner
  <2>1. login' = [at |-> at, ask |-> question, template |-> login.template, key |-> key,
                  owner |-> owner, count |-> 0, server |-> policy, answer |-> NoAnswer]
    BY <1>1, <1>2 DEF Logins
  <2>2. login.template \in Templates /\ 0 \in 0..Cardinality(Names)
    BY <1>1 DEF Logins
  <2>3. login' \in Logins
    BY <1>1, <2>1, <2>2 DEF Logins, Places, Questions
  <2> QED
    BY <2>1, <2>3
<1>3. ASSUME Send("pubkey", key, owner) PROVE Inv'
  <2>1. /\ login' = [login EXCEPT !.at = "count", !.ask = "pubkey", !.key = key, !.owner = owner,
                                  !.count = 0, !.server = policy, !.answer = NoAnswer]
        /\ verdicts' = [key |-> {KeyVerdict(users, key)}, group |-> {}]
        /\ UNCHANGED <<users, policy>>
    BY <1>3 DEF Send
  <2>2. login' \in Logins /\ login'.at = "count" /\ login'.ask = "pubkey" /\ login'.key = key
    BY <1>2, <2>1
  <2>3. TypeOK'
    BY <2>1, <2>2, Verdicts DEF Inv, TypeOK, Logins
  <2>4. Evidence'
    BY <2>1, <2>2 DEF Evidence
  <2> QED
    BY <2>2, <2>3, <2>4 DEF Inv, Answered, Admitted, DeniedWasJustified
<1>4. ASSUME Send("authz", key, owner), owner # Blank, Keyholder(owner) PROVE Inv'
  <2>1. /\ login' = [login EXCEPT !.at = "authz", !.ask = "authz", !.key = key, !.owner = owner,
                                  !.count = 0, !.server = policy, !.answer = NoAnswer]
        /\ verdicts' = [verdicts EXCEPT !.group = {GroupVerdict(users, owner)}]
        /\ UNCHANGED <<users, policy>>
    BY <1>4 DEF Send
  <2>2. login' \in Logins /\ login'.at = "authz" /\ login'.ask = "authz" /\ login'.owner = owner
    BY <1>2, <2>1
  <2>3. /\ verdicts' = [key |-> verdicts.key, group |-> {GroupVerdict(users, owner)}]
        /\ verdicts'.key = verdicts.key /\ verdicts'.group = {GroupVerdict(users, owner)}
    <3>1. verdicts = [key |-> verdicts.key, group |-> verdicts.group]
      BY DEF Inv, TypeOK
    <3> QED
      BY <2>1, <3>1
  <2>4. GroupVerdict(users, owner) \in {"member", "outsider"}
    BY DEF GroupVerdict
  <2>5. TypeOK'
    BY <1>1, <1>4, <2>1, <2>2, <2>3, <2>4 DEF Inv, TypeOK, Logins
  <2>6. Evidence'
    BY <1>4, <2>1, <2>2, <2>3 DEF Evidence, Keyholder
  <2> QED
    BY <2>2, <2>5, <2>6 DEF Inv, Answered, Admitted, DeniedWasJustified
<1> QED
  BY <1>3, <1>4

LEMMA GatewayKeeps ==
  ASSUME Inv, Gateway
  PROVE  Inv'
<1>1. /\ login \in Logins /\ login.answer \in Answers /\ login.owner \in Names \cup {Blank}
      /\ login.key \in Keys \cup {NoKey} /\ NoAnswer \in Answers
  BY Typed, AnswersTyped DEF Inv
<1>2. ASSUME NEW key \in Keys, OfferKey(key) PROVE Inv'
  BY <1>2, SendKeeps DEF OfferKey
<1>3. CASE Authenticated
  <2>1. login.answer.owner \in Names /\ Keyholder(login.answer.owner)
    BY <1>1, <1>3 DEF Authenticated, Answers, Inv, Answered
  <2> QED
    BY <1>1, <1>3, <2>1, SendKeeps, LoginAssumption DEF Authenticated, LoginAssumption
<1>4. CASE Authorized
  <2>1. login.answer.owner \in Names /\ Entitled(login.answer.owner)
    BY <1>1, <1>4 DEF Authorized, Answers, Inv, Answered
  <2>2. /\ login' = [login EXCEPT !.at = "config", !.owner = login.answer.owner]
        /\ UNCHANGED <<users, policy, verdicts>>
    BY <1>4 DEF Authorized
  <2>3. /\ login' \in Logins /\ login'.at = "config" /\ login'.owner = login.answer.owner
        /\ login'.server = login.server /\ login'.template = login.template
    BY <1>1, <2>1, <2>2 DEF Logins, Places
  <2>4. TypeOK'
    BY <2>1, <2>2, <2>3, LoginAssumption DEF Inv, TypeOK, Logins, LoginAssumption
  <2>5. Entitled(login.owner)'
    BY <2>1, <2>2, <2>3 DEF Entitled, Keyholder
  <2> QED
    BY <2>3, <2>4, <2>5 DEF Inv, Evidence, Answered, Admitted, DeniedWasJustified
<1>5. CASE AskAgain
  <2>1. CASE login.ask = "pubkey"
    BY <1>1, <1>5, <2>1, SendKeeps DEF AskAgain
  <2>2. CASE login.ask = "authz"
    BY <1>1, <1>5, <2>2, SendKeeps DEF AskAgain, Inv, Answered
  <2> QED
    BY <1>5, <2>1, <2>2 DEF AskAgain
<1>6. CASE AttemptFails
  <2>1. /\ login' = [login EXCEPT !.at = "client", !.ask = "none", !.key = NoKey, !.owner = Blank,
                                  !.count = 0, !.answer = NoAnswer]
        /\ verdicts' = [key |-> {}, group |-> {}] /\ UNCHANGED <<users, policy>>
    BY <1>6 DEF AttemptFails
  <2>2. Cardinality(Names) \in Nat
    BY LoginAssumption, FS_CardinalityType DEF LoginAssumption
  <2>3. login' \in Logins /\ login'.at = "client"
    <3>1. login' = [at |-> "client", ask |-> "none", template |-> login.template, key |-> NoKey,
                    owner |-> Blank, count |-> 0, server |-> login.server, answer |-> NoAnswer]
      BY <1>1, <2>1 DEF Logins
    <3>2. login.template \in Templates /\ login.server \in Policies /\ 0 \in 0..Cardinality(Names)
      BY <1>1, <2>2 DEF Logins
    <3> QED
      BY <1>1, <3>1, <3>2 DEF Logins, Places, Questions
  <2>4. TypeOK'
    BY <2>1, <2>3 DEF Inv, TypeOK, Logins
  <2> QED
    BY <2>3, <2>4 DEF Inv, Evidence, Answered, Admitted, DeniedWasJustified
<1>7. CASE Disconnect
  <2>1. /\ login' = [login EXCEPT !.at = "closed", !.answer = NoAnswer]
        /\ UNCHANGED <<users, policy, verdicts>>
    BY <1>7 DEF Disconnect
  <2>2. login' \in Logins /\ login'.at = "closed"
    BY <1>1, <2>1 DEF Logins, Places
  <2>3. TypeOK'
    BY <2>1, <2>2 DEF Inv, TypeOK, Logins
  <2> QED
    BY <2>2, <2>3 DEF Inv, Evidence, Answered, Admitted, DeniedWasJustified
<1> QED
  BY <1>2, <1>3, <1>4, <1>5, <1>6, <1>7 DEF Gateway

-----------------------------------------------------------------------------
\* The accounts change: what was found out stays found out.
LEMMA ObserveKeeps ==
  ASSUME Inv, Observe, UNCHANGED <<policy, login>>, users' \in [Names -> Accounts \cup {Absent}]
  PROVE  Inv'
<1>1. /\ verdicts.key \in SUBSET ({"owner", "inactive", "nobody"} \X (Names \cup {Blank}))
      /\ verdicts.group \in SUBSET {"member", "outsider"}
      /\ verdicts = [key |-> verdicts.key, group |-> verdicts.group]
  BY DEF Inv, TypeOK
<1> DEFINE k == IF login.at \in {"count", "list"}
                THEN verdicts.key \cup {KeyVerdict(users', login.key)} ELSE verdicts.key
           g == IF login.at \in {"authz", "member"}
                THEN verdicts.group \cup {GroupVerdict(users', login.owner)} ELSE verdicts.group
<1>2. verdicts' = [key |-> k, group |-> g]
  BY <1>1 DEF Observe
<1>3. /\ verdicts'.key = k /\ verdicts'.group = g
  BY <1>2
<1>4. KeyVerdict(users', login.key) \in {"owner", "inactive", "nobody"} \X (Names \cup {Blank})
  BY Verdicts
<1>5. GroupVerdict(users', login.owner) \in {"member", "outsider"}
  BY DEF GroupVerdict
<1>6. TypeOK'
  BY <1>1, <1>2, <1>4, <1>5 DEF Inv, TypeOK
<1>7. /\ verdicts.key \subseteq verdicts'.key /\ verdicts.group \subseteq verdicts'.group
      /\ login.at \in {"count", "list"} => KeyVerdict(users', login.key) \in verdicts'.key
      /\ login.at \in {"authz", "member"} => GroupVerdict(users', login.owner) \in verdicts'.group
  BY <1>3
<1>8. Evidence'
  BY <1>7 DEF Inv, Evidence, Keyholder
<1>9. Answered' /\ Admitted'
  BY <1>7 DEF Inv, Answered, Admitted, Entitled, Keyholder
<1>10. DeniedWasJustified'
  BY <1>7 DEF Inv, DeniedWasJustified
<1> QED
  BY <1>6, <1>8, <1>9, <1>10 DEF Inv

LEMMA NothingFoundOut ==
  ASSUME Inv, UNCHANGED <<users, login, verdicts>>, policy' \in Policies
  PROVE  Inv'
<1>1. TypeOK'
  BY DEF Inv, TypeOK
<1>2. Evidence'
  BY DEF Inv, Evidence, Keyholder
<1>3. Answered' /\ Admitted'
  BY DEF Inv, Answered, Admitted, Entitled, Keyholder
<1>4. DeniedWasJustified'
  BY DEF Inv, DeniedWasJustified
<1> QED
  BY <1>1, <1>2, <1>3, <1>4 DEF Inv

LEMMA WorldKeeps ==
  ASSUME Inv, World
  PROVE  Inv'
<1>1. users \in [Names -> Accounts \cup {Absent}]
  BY DEF Inv, TypeOK
<1>2. ASSUME NEW name \in Names, Edit(name) PROVE Inv'
  <2>1. users' \in [Names -> Accounts \cup {Absent}]
    BY <1>1, <1>2 DEF Edit
  <2> QED
    BY <1>2, <2>1, ObserveKeeps DEF Edit
<1>3. ASSUME NEW old \in Names, NEW new \in Names, Rename(old, new) PROVE Inv'
  <2>1. users' \in [Names -> Accounts \cup {Absent}]
    BY <1>1, <1>3 DEF Rename
  <2> QED
    BY <1>3, <2>1, ObserveKeeps DEF Rename
<1>4. ASSUME NEW p \in Policies, Deploy(p) PROVE Inv'
  <2>1. UNCHANGED <<users, login, verdicts>> /\ policy' \in Policies
    BY <1>4 DEF Deploy
  <2> QED
    BY <2>1, NothingFoundOut
<1> QED
  BY <1>2, <1>3, <1>4 DEF World

LEMMA Step == Inv /\ [Next]_vars => Inv'
<1> SUFFICES ASSUME Inv, [Next]_vars PROVE Inv'
  OBVIOUS
<1>1. CASE Handle
  BY <1>1, PasswordKeeps, CountKeeps, ListKeeps, AuthorizeKeeps, MemberKeeps, FailKeeps DEF Handle
<1>2. CASE Gateway
  BY <1>2, GatewayKeeps
<1>3. CASE World
  BY <1>3, WorldKeeps
<1>4. CASE UNCHANGED vars
  BY <1>4, NothingFoundOut DEF vars, Inv, TypeOK
<1> QED
  BY <1>1, <1>2, <1>3, <1>4 DEF Next

LEMMA Invariant == Spec => []Inv
BY Initial, Step, PTL DEF Spec

-----------------------------------------------------------------------------
\* Connection, request and answers are typed: no identity leaves the server with
\* a failure, and none is blank where one is needed (webhook.go writeDecision).
THEOREM TypeCorrect == Spec => []TypeOK
<1>1. Inv => TypeOK
  BY DEF Inv
<1> QED
  BY Invariant, <1>1, PTL

\* Who gets a pod was entitled to it (auth_handler.go OnPubKey, OnAuthorization).
THEOREM AdmittedAreEntitled == Spec => []AdmittedWasEntitled
<1>1. Inv => AdmittedWasEntitled
  BY DEF Inv, Admitted, Entitled, Keyholder, TemplateAllowed, AdmittedWasEntitled
<1> QED
  BY Invariant, <1>1, PTL

\* Who is denied is told a fact (auth_handler.go, webhook.go writeDecision).
THEOREM DenialsAreJustified == Spec => []DeniedWasJustified
<1>1. Inv => DeniedWasJustified
  BY DEF Inv
<1> QED
  BY Invariant, <1>1, PTL
=============================================================================
