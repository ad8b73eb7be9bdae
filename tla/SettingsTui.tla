----------------------------- MODULE SettingsTui -----------------------------
(***************************************************************************)
(* The management UI at work (settings-tui/model.go, kube.go): the Bubble  *)
(* Tea model of Console together with its commands, which run beside it:   *)
(* refresh rounds of parallel gets and the confirmed delete.               *)
(*                                                                         *)
(* Update runs one message at a time; the results of rounds and deletes    *)
(* come back as messages in any order.  Each get of a round reads the API  *)
(* at its own moment.  The cluster, the owner's logins and the grants      *)
(* change at any time.                                                     *)
(***************************************************************************)
EXTENDS Console

CONSTANTS
  Rounds,   \* refresh rounds that may be in flight: bounds the model
  AfterDelete,  \* the one of them kept for the round that follows a delete
  Watched   \* rows whose history is kept

ASSUME TuiAssumption ==
  /\ IsFiniteSet(Rounds)
  /\ AfterDelete \in Rounds
  /\ Watched \subseteq 1..N

VARIABLES
  pods,        \* cluster: the state of each row's box
  rounds,      \* refresh rounds in flight: the result of each get, so far
  deletes,     \* delete calls in flight and their answers
  refreshing,  \* the model's flag: a poll is not started twice
  old          \* history: rows that show what was read before their box's delete

work == <<rounds, deletes, refreshing, old>>
vars == <<ui, work, pods>>

\* <old> is history: the value was read before a delete of that box took effect.
NotRead == [got |-> "nothing", old |-> FALSE]
Results == [got : Known \cup Faults, old : BOOLEAN]
Idle == [i \in {0} |-> NotRead]     \* no round

TypeOK ==
  /\ UiTypeOK
  /\ pods \in [Rows -> Known]
  /\ rounds \in [Rounds -> {Idle} \cup [Rows -> Results \cup {NotRead}]]
  /\ deletes \subseteq [row : Rows, answer : {"pending", "ok"} \cup Faults]
  /\ refreshing \in BOOLEAN
  /\ old \subseteq Rows

NewRound == [i \in Rows |-> NotRead]

\* Init starts a round without setting the flag: its receiver is a copy.
Init ==
  /\ UiInit
  /\ pods \in [Rows -> Known]
  /\ \E k \in Rounds \ {AfterDelete} : rounds = [j \in Rounds |-> IF j = k THEN NewRound ELSE Idle]
  /\ deletes = {} /\ refreshing = FALSE /\ old = {}

-----------------------------------------------------------------------------
(* Refreshing. *)

StartRound(free) ==
  \E k \in free :
    /\ rounds[k] = Idle
    /\ rounds' = [rounds EXCEPT ![k] = NewRound]
    /\ refreshing' = TRUE

\* classify: status codes become "not found", "forbidden" or any other error;
\* so does a call without an answer, a token that cannot be read, a bad body.
Classify(code) ==
  CASE code = 404 -> "absent" [] code = 403 -> "forbidden" [] OTHER -> "failed"
Errors == Faults \cap {Classify(code) : code \in {401, 403, 500}}

\* What a get may return while the pod is in this state.
GetPod(pod) == {IF pod = "absent" THEN Classify(404) ELSE pod} \cup Errors

\* One get of a round.
Get(k, i) ==
  /\ i \in Rows
  /\ rounds[k] # Idle
  /\ rounds[k][i] = NotRead
  /\ \E got \in GetPod(pods[i]) : rounds' = [rounds EXCEPT ![k][i] = [got |-> got, old |-> FALSE]]
  /\ UNCHANGED <<ui, deletes, refreshing, old, pods>>

\* Mutant: the round does not wait for its slowest get.
CompleteEarly(k) == rounds[k] # Idle
\* wg.Wait: every get of the round has ended.
Complete(k) == rounds[k] # Idle /\ \A i \in Rows : rounds[k][i] # NotRead

RefreshDone(k) ==
  /\ Complete(k)
  /\ Refreshed([i \in Rows |-> rounds[k][i].got])
  /\ refreshing' = FALSE
  /\ rounds' = [rounds EXCEPT ![k] = Idle]
  /\ old' = {i \in Rows : IF rounds[k][i].got \in Faults THEN i \in old ELSE rounds[k][i].old}
  /\ UNCHANGED <<deletes, pods>>

\* Mutant: each tick starts a round, whatever the last one still waits for.
MayPollAtEachTick == TRUE
\* Mutant: the screen is not refreshed under an open dialog.
MayPollOutsideDialog == ~refreshing /\ dialog = "none"
MayPoll == ~refreshing

\* tickMsg, and the key r in the list.
Poll ==
  /\ Running /\ MayPoll /\ Rows # {}
  /\ StartRound(Rounds \ {AfterDelete})
  /\ UNCHANGED <<ui, deletes, old, pods>>
Tick == Poll
PressR == dialog = "none" /\ Poll

-----------------------------------------------------------------------------
(* Deleting. *)

\* y sends the delete call for the selected row.
Confirm ==
  /\ PressY
  /\ deletes' = IF dialog' = "deleting"
                THEN deletes \cup {[row |-> selected, answer |-> "pending"]} ELSE deletes
  /\ UNCHANGED <<rounds, refreshing, old, pods>>

\* QuitMsg: the rounds end with the process; a delete may still reach the API.
Quit ==
  /\ Stop
  /\ rounds' = [k \in Rounds |-> Idle]
  /\ UNCHANGED <<deletes, refreshing, old, pods>>

Answer(d, answer) == deletes' = (deletes \ {d}) \cup {[d EXCEPT !.answer = answer]}

\* What was read before is old from now on.
Outdate(i) ==
  IF i \in Watched
  THEN /\ old' = IF rows[i].state \in Known THEN old \cup {i} ELSE old \ {i}
       /\ rounds' = [k \in Rounds |->
            IF rounds[k] = Idle \/ rounds[k][i].got \notin Known THEN rounds[k]
            ELSE [rounds[k] EXCEPT ![i].old = TRUE]]
  ELSE UNCHANGED <<old, rounds>>

\* DeletePod and delete: a box that is not there is as good as deleted.
DeletePod(code) == IF code \in {200, 202} \/ Classify(code) = "absent" THEN "ok" ELSE Classify(code)

\* The API server takes the delete; the answer may get lost.
Deleted(pod) == IF pod = "new" THEN "ending" ELSE "terminating"
DeleteActs(d) ==
  /\ d.answer = "pending"
  /\ \E answer \in {DeletePod(IF pods[d.row] = "absent" THEN 404 ELSE 200)}
                       \cup (Faults \ {"forbidden"}) : Answer(d, answer)
  /\ IF pods[d.row] \in Alive
     THEN pods' = [pods EXCEPT ![d.row] = Deleted(@)] /\ Outdate(d.row)
     ELSE UNCHANGED <<pods, rounds, old>>     \* terminating already, or 404
  /\ UNCHANGED <<ui, refreshing>>

DeleteFails(d) ==
  /\ d.answer = "pending"
  /\ \E answer \in Errors : Answer(d, answer)
  /\ UNCHANGED <<ui, rounds, refreshing, old, pods>>

\* deleteDoneMsg: whatever the answer, refresh at once, refreshing or not.
DeleteDone(d) ==
  /\ d.answer # "pending"
  /\ DeleteSettled(d.answer)
  /\ deletes' = deletes \ {d}
  /\ StartRound({AfterDelete})
  /\ UNCHANGED <<old, pods>>

-----------------------------------------------------------------------------
(* The cluster, external. *)

PodChanges(i) ==
  /\ \E s \in CASE pods[i] = "absent" -> Alive
               [] pods[i] \in {"terminating", "ending"} -> {"absent"}
               [] OTHER -> (Alive \ {"new", pods[i]}) \cup {Deleted(pods[i])} :
       pods' = [pods EXCEPT ![i] = s]
  /\ UNCHANGED <<ui, work>>

-----------------------------------------------------------------------------
\* The keys that call nothing.
Keys == (Move \/ PressD \/ PressN \/ PressQ) /\ UNCHANGED <<work, pods>>

Next ==
  \/ Keys \/ Confirm \/ Quit
  \/ Tick \/ PressR
  \/ \E k \in Rounds : RefreshDone(k) \/ \E i \in Rows : Get(k, i)
  \/ \E d \in deletes : DeleteActs(d) \/ DeleteFails(d) \/ DeleteDone(d)
  \/ \E i \in Rows : PodChanges(i)

Spec == Init /\ [][Next]_vars

\* The event loop handles each message, the ticker ticks, and every call ends:
\* a get within refreshBudget, a delete within requestTimeout.
FairSpec ==
  /\ Spec
  /\ WF_vars(Tick)
  /\ \A k \in Rounds : WF_vars(RefreshDone(k)) /\ \A i \in 1..N : WF_vars(Get(k, i))
  /\ WF_vars(\E d \in deletes : DeleteActs(d) \/ DeleteFails(d))
  /\ WF_vars(\E d \in deletes : DeleteDone(d))

-----------------------------------------------------------------------------
(* Properties. *)

\* The dialog speaks for the delete calls: one while it says deleting, for the
\* row it shows, and none otherwise, whatever is typed, also after q.  A delete that
\* was confirmed between q and QuitMsg is abandoned by the program: then this is
\* the last the user saw of it.
DialogTellsDeletes ==
  /\ \A d \in deletes : dialog = "deleting" /\ d.row = selected
  /\ dialog = "deleting" => Cardinality(deletes) = 1

\* The rounds under way, and the one the flag lets a tick add to them.
Busy == {k \in Rounds : rounds[k] # Idle}
MayAdd == IF refreshing THEN 0 ELSE 1
Load == Cardinality(Busy) + MayAdd

\* However slow the API is, ticks do not pile rounds up on it, although any round
\* that ends clears the flag for the others too (model.go Update): only the end of
\* a delete raises how many may run at once, each by one over the initial two.
PollsDoNotPileUp ==
  [][ \/ Load' <= Load
      \/ Load' = Load + 1 /\ \E d \in deletes : d.answer # "pending" /\ deletes' = deletes \ {d} ]_vars

\* Whatever is in flight beside the screen, the user sees the machine of Console:
\* complete rounds only, one dialog at a time, an end to each delete.
ImplementsConsole == UiSpec

\* A confirmed delete is settled, whatever becomes of the call, unless the program
\* stops for a q typed before.
DialogSettles == dialog = "deleting" ~> dialog = "none" \/ ~Running

\* Once nothing disturbs the cluster, the API answers and no box is deleted, the
\* screen comes to show the cluster and stays so, however many rounds of before
\* are still under way.
Quiet ==
  /\ pods' = pods /\ deletes' = deletes
  /\ \A k \in Rounds : rounds[k] # Idle /\ rounds'[k] # Idle =>
       \A i \in Rows : rounds[k][i] = NotRead => rounds'[k][i].got \notin Faults
Accurate == conn = "live" /\ \A i \in Rows : rows[i].state = pods[i]
CatchesUp == <>[][Quiet]_vars => <>[](Running => Accurate)

\* Once the delete dialog is over, a refresh never takes a row back to what was
\* read before the box was deleted (model.go Update: "Never act on, or display,
\* pre-delete state").
NeverBackBeforeDelete ==
  [][dialog = "none" => \A i \in Rows : i \in old' => i \in old]_vars
=============================================================================
