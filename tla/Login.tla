-------------------------------- MODULE Login --------------------------------
(***************************************************************************)
(* One SSH connection before its pod is configured: the gateway asks the   *)
(* authentication server (auth-server) who owns the offered key and, if    *)
(* someone does, whether the owner may use the template the client asks    *)
(* for.  Each question is one HTTP request that the gateway repeats when   *)
(* it fails.  Meanwhile accounts are edited in authentik and the server is *)
(* deployed with other policies.  The server keeps no state, so            *)
(* connections do not meet, and one is modelled.                           *)
(***************************************************************************)
EXTENDS Integers, FiniteSets

CONSTANTS
  Names,      \* user names in authentik
  Keys,       \* public keys a client may offer
  NoKey,      \* the attribute is missing or no list of one key: nothing finds it
  Absent,     \* no account of that name
  Blank,      \* no user name
  Templates,  \* SSH user names
  Policies    \* what the server may be deployed with: <gate> if AllowedTemplates is
              \* not nil, <allowed> what is in it, <group> if RequireGroup is set

Accounts == [active : BOOLEAN, key : Keys \cup {NoKey}, member : BOOLEAN]

ASSUME LoginAssumption ==
  /\ IsFiniteSet(Names)
  /\ Blank \notin Names
  /\ NoKey \notin Keys
  /\ Absent \notin Accounts
  /\ Policies \subseteq [gate : BOOLEAN, allowed : SUBSET Templates, group : BOOLEAN]

VARIABLES
  users,    \* authentik's accounts by name
  policy,   \* authConfig of the server that gets the next request
  login,    \* the connection and its request to the server
  verdicts  \* history: what was true of the key, and of the owner's
            \* membership, at some moment while the latest request was handled

vars == <<users, policy, login, verdicts>>

Questions == {"none", "password", "pubkey", "authz"}
\* Where a request is: the handlers between two calls of authentik, or answered.
Places == {"client", "count", "list", "authz", "member", "answer", "config", "closed"}
Messages == {"none", "password", "notEnrolled", "inactive", "template", "group"}

\* What goes over the wire: only a denial has a message (not "none"), a failure no identity.
Answers ==
  { a \in [status : {200, 500}, success : BOOLEAN, owner : Names \cup {Blank}, message : Messages] :
      /\ a.success => a.status = 200 /\ a.owner # Blank
      /\ (a.message # "none") <=> (a.status = 200 /\ ~a.success)
      /\ a.status = 500 => a.owner = Blank }

TypeOK ==
  /\ users \in [Names -> Accounts \cup {Absent}]
  /\ policy \in Policies
  /\ login \in [at : Places, ask : Questions, template : Templates, key : Keys \cup {NoKey},
                owner : Names \cup {Blank}, count : 0..Cardinality(Names),
                server : Policies, answer : Answers]
  /\ verdicts \in [key : SUBSET ({"owner", "inactive", "nobody"} \X (Names \cup {Blank})),
                   group : SUBSET {"member", "outsider"}]
  /\ login.at \in {"authz", "member", "config"} => login.owner # Blank

-----------------------------------------------------------------------------
(* What authentik knows.                                                   *)

Matches(accounts, key) == {n \in Names : accounts[n] # Absent /\ accounts[n].key = key}
Member(accounts, name) == name \in Names /\ accounts[name] # Absent /\ accounts[name].member

\* What a single glance at the accounts says of the key and of the owner.
KeyVerdict(accounts, key) ==
  IF Cardinality(Matches(accounts, key)) # 1 THEN <<"nobody", Blank>>
  ELSE LET name == CHOOSE n \in Matches(accounts, key) : TRUE
       IN <<IF accounts[name].active THEN "owner" ELSE "inactive", name>>
GroupVerdict(accounts, name) == IF Member(accounts, name) THEN "member" ELSE "outsider"

-----------------------------------------------------------------------------
(* Decisions and how they are answered.                                    *)

\* The bug of a failed authorization that leaves the identity in the metadata.
KeepIdentity(owner) == owner
\* meta.AuthFailed: no authenticated user.
AuthFailed(owner) == Blank

Allow(owner) == [success |-> TRUE, owner |-> owner, message |-> "none"]
DenyWith(owner, reason) == [success |-> FALSE, owner |-> owner, message |-> reason]

\* The bug of a writeDecision that leaves the status as it is.
WriteDecisionOnly(decision, failed) ==
  [status |-> 200, success |-> decision.success, owner |-> decision.owner,
   message |-> IF decision.success THEN "none" ELSE decision.message]

\* writeDecision: an error is status 500 whatever the decision says.
WriteDecision(decision, failed) ==
  IF failed THEN [status |-> 500, success |-> FALSE, owner |-> decision.owner, message |-> "none"]
  ELSE [status |-> 200, success |-> decision.success, owner |-> decision.owner,
        message |-> IF decision.success THEN "none" ELSE decision.message]

Reply(decision) ==
  login' = [login EXCEPT !.at = "answer", !.answer = WriteDecision(decision, FALSE)]
Failure(owner) ==
  login' = [login EXCEPT !.at = "answer",
                         !.answer = WriteDecision([Allow(AuthFailed(owner)) EXCEPT !.success = FALSE], TRUE)]

NoAnswer == [status |-> 500, success |-> FALSE, owner |-> Blank, message |-> "none"]

Init ==
  /\ users \in [Names -> Accounts \cup {Absent}]
  /\ policy \in Policies
  /\ \E t \in Templates, p \in Policies :
       login = [at |-> "client", ask |-> "none", template |-> t, key |-> NoKey, owner |-> Blank,
                count |-> 0, server |-> p, answer |-> NoAnswer]
  /\ verdicts = [key |-> {}, group |-> {}]

-----------------------------------------------------------------------------
(* The server's handlers.                                                  *)

\* OnPassword.
OfferPassword ==
  /\ login.at = "client"
  /\ login' = [login EXCEPT !.at = "answer", !.ask = "password",
                 !.answer = WriteDecision(DenyWith(Blank, "password"), FALSE)]
  /\ UNCHANGED <<users, policy, verdicts>>

\* lookupUser is one query, in which authentik counts the matches first ...
CountUsers ==
  /\ login.at = "count"
  /\ login' = [login EXCEPT !.at = "list", !.count = Cardinality(Matches(users, login.key))]
  /\ UNCHANGED <<users, policy, verdicts>>

\* The bug of a lookup that takes the first of several results.
UniqueCount(count, found) == count = 1 /\ found # {}

\* lookupUser takes a key for enrolled only if both numbers are one.
Unique(count, found) == count = 1 /\ Cardinality(found) = 1

\* ... and lists them afterwards; OnPubKey decides on the result.
ListUsers ==
  /\ login.at = "list"
  /\ LET found == Matches(users, login.key)
     IN \/ ~Unique(login.count, found) /\ Reply(DenyWith(Blank, "notEnrolled"))
        \/ \E user \in found :
             /\ Unique(login.count, found)
             /\ Reply(IF users[user].active THEN Allow(user) ELSE DenyWith(Blank, "inactive"))
  /\ UNCHANGED <<users, policy, verdicts>>

\* Does the policy name the template?  An empty list names none.
TemplateAllowed(p, template) == p.gate => template \in p.allowed

\* OnAuthorization, up to the query of the group.
Authorize ==
  /\ login.at = "authz"
  /\ LET allowed == TemplateAllowed(login.server, login.template)
     IN \/ ~allowed /\ Reply(DenyWith(login.owner, "template"))
        \/ allowed /\ ~login.server.group /\ Reply(Allow(login.owner))
        \/ allowed /\ login.server.group /\ login' = [login EXCEPT !.at = "member"]
  /\ UNCHANGED <<users, policy, verdicts>>

\* userInGroup, by name, and the rest of OnAuthorization.
CheckMember ==
  /\ login.at = "member"
  /\ Reply(IF Member(users, login.owner) THEN Allow(login.owner) ELSE DenyWith(login.owner, "group"))
  /\ UNCHANGED <<users, policy, verdicts>>

\* listUsers fails: no connection, a timeout, another status, no JSON.
LookupFails ==
  /\ login.at \in {"count", "list", "member"}
  /\ Failure(login.owner)
  /\ UNCHANGED <<users, policy, verdicts>>

-----------------------------------------------------------------------------
(* The gateway and its client.                                             *)

\* A request reaches the server, which handles it under the policy it has now.
Send(question, key, owner) ==
  LET sent == [login EXCEPT !.at = IF question = "pubkey" THEN "count" ELSE "authz",
                            !.ask = question, !.key = key, !.owner = owner, !.count = 0,
                            !.server = policy, !.answer = NoAnswer]
  IN /\ login' = sent
     /\ verdicts' = IF question = "pubkey" THEN [key |-> {KeyVerdict(users, key)}, group |-> {}]
                    ELSE [verdicts EXCEPT !.group = {GroupVerdict(users, owner)}]
     /\ UNCHANGED <<users, policy>>

OfferKey(key) == login.at = "client" /\ Send("pubkey", key, Blank)

Authenticated ==
  /\ login.at = "answer" /\ login.ask = "pubkey" /\ login.answer.success
  /\ Send("authz", login.key, login.answer.owner)

Authorized ==
  /\ login.at = "answer" /\ login.ask = "authz" /\ login.answer.success
  /\ login' = [login EXCEPT !.at = "config", !.owner = login.answer.owner]
  /\ UNCHANGED <<users, policy, verdicts>>

\* Status 500, or an answer that does not arrive: the gateway asks again.
AskAgain ==
  /\ login.at = "answer" /\ login.ask \in {"pubkey", "authz"}
  /\ Send(login.ask, login.key, login.owner)

\* A denial, or the gateway's timeout: the client may try something else.
AttemptFails ==
  /\ login.at \notin {"client", "config", "closed"}
  /\ login' = [login EXCEPT !.at = "client", !.ask = "none", !.key = NoKey, !.owner = Blank,
                            !.count = 0, !.answer = NoAnswer]
  /\ verdicts' = [key |-> {}, group |-> {}]
  /\ UNCHANGED <<users, policy>>

Disconnect ==
  /\ login.at \notin {"config", "closed"}
  /\ login' = [login EXCEPT !.at = "closed", !.answer = NoAnswer]
  /\ UNCHANGED <<users, policy, verdicts>>

-----------------------------------------------------------------------------
(* Accounts and deployments.                                               *)

\* What a request sees from now on while it is being handled.
Observe ==
  verdicts' = [verdicts EXCEPT
    !.key = IF login.at \in {"count", "list"} THEN @ \cup {KeyVerdict(users', login.key)} ELSE @,
    !.group = IF login.at \in {"authz", "member"} THEN @ \cup {GroupVerdict(users', login.owner)} ELSE @]

\* An account is created, edited or deleted.
Edit(name) ==
  /\ \E a \in (Accounts \cup {Absent}) \ {users[name]} : users' = [users EXCEPT ![name] = a]
  /\ Observe
  /\ UNCHANGED <<policy, login>>

\* An account gets another name: one that was somebody else's, perhaps.
Rename(old, new) ==
  /\ users[old] # Absent /\ users[new] = Absent
  /\ users' = [users EXCEPT ![old] = Absent, ![new] = users[old]]
  /\ Observe
  /\ UNCHANGED <<policy, login>>

\* The chart is upgraded: another server takes over.
Deploy(p) ==
  /\ policy' = p
  /\ UNCHANGED <<users, login, verdicts>>

Handle == OfferPassword \/ CountUsers \/ ListUsers \/ Authorize \/ CheckMember \/ LookupFails
Gateway ==
  \/ \E key \in Keys : OfferKey(key)
  \/ Authenticated \/ Authorized \/ AskAgain \/ AttemptFails \/ Disconnect
World ==
  \/ \E n \in Names : Edit(n)
  \/ \E old, new \in Names : Rename(old, new)
  \/ \E p \in Policies : Deploy(p)

Next == Handle \/ Gateway \/ World
Spec == Init /\ [][Next]_vars

-----------------------------------------------------------------------------
(* Properties.                                                             *)

\* A connection gets as far as its pod (auth_handler.go OnPubKey,
\* OnAuthorization) only as the one active account that was found under its key
\* at some moment of the key's last request, with a template that the deciding
\* server's policy names, and, if that policy has a group, only if the account
\* of that name was a member at some moment of the last authorization: however
\* accounts are edited and renamed between the queries and within one, whatever
\* is repeated, and whichever server answers.
AdmittedWasEntitled ==
  login.at = "config" =>
    /\ <<"owner", login.owner>> \in verdicts.key
    /\ login.server.gate => login.template \in login.server.allowed
    /\ login.server.group => "member" \in verdicts.group

\* A denial is a fact and no failure (spec.md "Errors must not be converted into
\* ordinary policy denials"): an answer that stops the gateway from asking again
\* gives a reason, and the reason was true at some moment of the request.
DeniedWasJustified ==
  login.at = "answer" /\ login.answer.status = 200 /\ ~login.answer.success =>
    \/ login.ask = "password" /\ login.answer.message = "password"
    \/ login.ask = "pubkey" /\ login.answer.message = "notEnrolled" /\ <<"nobody", Blank>> \in verdicts.key
    \/ /\ login.ask = "pubkey" /\ login.answer.message = "inactive"
       /\ \E n \in Names : <<"inactive", n>> \in verdicts.key
    \/ /\ login.ask = "authz" /\ login.answer.message = "template"
       /\ login.server.gate /\ login.template \notin login.server.allowed
    \/ /\ login.ask = "authz" /\ login.answer.message = "group"
       /\ login.server.group /\ "outsider" \in verdicts.group
=============================================================================
