# dev.box in TLA+

A verification development for [dev.box](../src/README.md): SSH logins that end in Kubernetes pods.
It models the config server, the settings UI down to the lines on its screen, and the
authentication server, checks the models with TLC on small instances and proves the safety results
with TLAPS for every instance.

## The system

| part | state it keeps | operations | what makes it correct |
| --- | --- | --- | --- |
| config server, ordinary logins (`config-server/handler.go`, `persistent.go`, `storage.go`) | none of its own but the template cache; acts on pods and claims of the session namespace | `OnConfig`: load template, check identity, check cap, ensure claims, answer | the cap holds up to the accepted race; reconnects pass; answers refer to claims of exactly this box; claims are never lost; every login is answered |
| config server, template store (`load`, `readCached`) | `cache` under `mu` | stat, look up, read, parse, keep | what is served was on disk during the request; the cache is never stale; requests do not change each other's template |
| config server, settings logins (`settings.go`, `owner_access.go`) | the owner's ServiceAccount, Role and RoleBinding | walk the templates, reconcile the three objects | the Role never grants more than the owner's boxes; answer and Role agree; concurrent requests do not deny each other |
| settings UI (`settings-tui/model.go`) | rows, connection state, dialog, message, refreshes and deletes in flight | tick, refresh, keys, delete | Live means current; one confirmed delete at a time; the screen catches up; the message line is true of a Live screen |
| settings UI, start and drawing (`main.go`, `boxes.go`, `view.go`) | the trusted cap | parse the cap, draw the model in a terminal of any size | the selected row and a complete confirmation are on the screen, what was not read is told, the cap shown is the cap enforced, nothing is taller than the terminal |
| label values (`config-server/persistent.go`) | none | `ownerLabelValue` | every name gets a label that Kubernetes takes |
| authentication server (`auth-server`) | none; reads authentik | password, public key, authorization | only entitled users get in; denials are true, failures are no denials |
| ContainerSSH gateway, Kubernetes API, kubelet, operator | pods, claims, RBAC objects, mounted templates | attach or create the pod, retry webhooks; pods end, claims go; directories are swapped; objects are edited | external: modelled from how the code uses them |

They interact as follows. The gateway asks the authentication server, then sends the config server
a request with the SSH user name (the template) and the authenticated identity (the owner). The
config server lists pods and gets or creates claims through the Kubernetes API, and answers with a
pod name; the *gateway* creates the pod later. The user name `settings` leads to the other path:
the config server reconciles the owner's Role and answers with the settings pod, whose UI gets and
deletes the owner's pods by name. The operator changes templates, claims and RBAC objects at any
time; all API calls may fail, time out, or succeed without an answer.

What is hard here: every API call is a point where other requests, the gateway, the UI and the
operator get in between; listings and stats are stale when used; claims and RBAC objects are
created by whoever comes first; nothing is rolled back; the UI applies results of overlapping
refreshes in the order in which they end. `PROJECT.json` lists these hazards line by line with the
property that covers each.

## Modules

| module | what it is | proofs |
| --- | --- | --- |
| `PersistentBoxes` | ordinary logins, the gateway's use of the answers and the cluster; one action per API call | `PersistentBoxes_proofs` |
| `BoxQuota` | the abstract quota that the cap check implements | |
| `TemplateStore` | the template cache, its mutex, and directories swapped under it | `TemplateStore_proofs` |
| `OwnerAccess` | one owner's settings requests and their three objects | `OwnerAccess_proofs` |
| `Console` | the UI as its user sees it: one action per message of `Update`, any results at any time | `Console_proofs` |
| `SettingsTui` | `Console` with the calls in flight: rounds of gets, the delete, the cluster | `SettingsTui_proofs` |
| `Screen` | `Console` from the handed-over cap to the drawn lines, in every terminal size | `Screen_proofs` |
| `OwnerLabel` | the algorithm that makes label values of names, one step per byte | `OwnerLabel_proofs` |
| `Login` | one connection's questions to the authentication server and its lookups in authentik | `Login_proofs` |
| `MC...` | values for the constants of each | |

`SettingsTui` and `Screen` both extend `Console`: the first implements it (`ImplementsConsole`), the
second draws it, so what `Screen` shows to be right of the drawing holds for what the event loop
produces.

### PersistentBoxes

State: `files` (the mounted templates), `pods` and `claims` by name, and `req`, one record per
request in flight with the point of the handler it has reached (`pc`), its owner, its template and
the loaded content, the claim it is ensuring (`next`). Two history variables serve the properties:
`steady` (the request's box has been live since it arrived) and `vouched` (claims it has verified).
Actions: `Load` is `load`, the mode gate and the identity check; `CheckCap` is `enforceCap` with its
one listing; `GetClaim`, `CreateClaim`, `LoseCreateRace`, `RegetClaim` are the calls of
`ensureClaim`; `CallFails` and `CreateAnswerLost` its errors. `CreatePod`, `Leave`, `Retry` are the
gateway's. Identities, templates and pod names are abstract; `BoxPodName` and `OwnerLabelValue` are
arbitrary functions, because both are truncated hashes: nothing is assumed about collisions.

### TemplateStore

State: `disk` (the two files a template may have), `cache`, `holder` of the mutex, `req`, and the
history `moments` (directories mounted during each request). A file's size and modification time
are one `stamp`, new whenever the file is written; this is the assumption the cache key makes.
`RewriteVolumes` is `applyStorage` on its deep copy. Two extensions, one template: requests for
different templates share nothing but the mutex.

### OwnerAccess

State: `files`, the three `objects`, `fresh` (requests that are about to update exactly the version
they got: Kubernetes' `resourceVersion` check), `req`, and histories (`newest`, `alone`, `stable`,
and `seen`, the directories that were mounted during each walk). The three `ensureOwner` functions
have one shape and are one set of actions with the `stage`. A Role's rules are a sequence of name
sets, so that no rule and a rule without names, which RBAC reads as all names, are different. An
update of an object that was deleted meanwhile may be answered NotFound, which denies, or Conflict,
which is retried. One owner: owners share no object.

### Console and SettingsTui

`Console` has `rows`, `conn`, `selected`, `dialog` and `message` as in `settingsModel`, and
`program`, Bubble Tea's event loop. `Refreshed` is `applyRefresh` as a whole: every row, the
connection and the message line in one step. The keys are one action each; `PressD` has one disjunct
per answer to `d`. `q` only asks to quit: `PressQ` makes the program "quitting", in which everything
is handled as before, `d` and `y` included, until `Stop`, the QuitMsg. `message` is the reason for
the line with the row or the connection it names, not its wording. A pod that has no phase yet
("new", or "ending" once deleted) is a box, but its row never goes stale, because the code asks
`phase != ""` (`HasPhase`).

`SettingsTui` adds `refreshing`, the refreshes in flight (`rounds`, each get reading at its own
moment), `deletes` and the cluster's `pods`. `Complete` is the wait for all gets of a round,
`DeleteDone` is `deleteDoneMsg` with the round it starts whether or not one is in flight. `old` on
rows and results is history, kept for the rows in `Watched`: read before a delete of that box took
effect. `Quit` is `Stop` with the calls of the process: its rounds end, a delete may still reach the
API.

### Screen

State: that of `Console`, and what a session is started with: the operating mode and the cap of the
config server (`persistent`, `maxPods`), the cap the UI has parsed (`maxBoxes`), and whether the
program has come up (`session`). `Handed` is what `settingsConfig` writes, `Start` is
`parseMaxBoxes` and `newModel`, `NoTerminal` the other way `run` ends.

The rest is `View` as a function: `Lines(height, width)` is `renderLines`, a sequence of lines, each
the set of things it shows (a row, the cap, the prompt, ...), with its layouts under the code's
names: `MasterPane`, `DetailPane`, `SideBySide` (`zipPanes`), `DeletePopup`, `DialogLines`,
`BodyLines`, `Scroll`, `Footer`. The widths decide which layout is drawn; the text within a line,
its colours but dim, and its clipping at the right edge are left out. A row's item is dim if the
state of its box is drawn dim: always for a row without a pod, for the others if `stale` or
`reconnect` is set. In the panes the selected row is the exception: its name is bold, and the reset
that ends the bold ends the dim around it (`styler` nests no attributes), so that its state is drawn
bright. The model draws with colours on; without them (`NO_COLOR`) nothing is dim and the words
alone tell. The terminal can be resized at any moment, so a property of the screen is one of every
size in every state, not of a size variable.

### OwnerLabel

Names are sequences of character classes (a letter or digit, dash, underscore, dot, anything else),
the hash so many alphanumeric characters. State: the name (`owner`) and the locals of
`ownerLabelValue`: the byte the loop is at, what is built so far (`b`), `prevDash`, and the `label`
returned. `KeepName` is the early return, `ReadByte` one pass of the loop, `Finish` the trims, the
cut, the fallback and the suffix. The loop is a step per byte because its invariant then is one of
the specification, and the prover has no other induction over a name. `IsValidLabelValue` is the
rule the label is held against.

### Login

State: `users` (authentik's accounts by name), `policy` (the deployed `authConfig`), `login` (the
connection: what it asks, how far the handler is, the answer), and the history `verdicts`, what was
true of the key and of the owner's membership at some moment of the latest request. `CountUsers`
and `ListUsers` are `lookupUser` and the decision of `OnPubKey`: one query, but authentik counts
and lists in two reads, which is why the code compares both. `Authorize` and `CheckMember` are
`OnAuthorization`; `WriteDecision` is the wire answer. The account is linked to the group by its
name only, so accounts may also be renamed. One connection: the server keeps no state. A request
the gateway has given up on has no effect and is dropped; undecodable requests are failures.

## Runs

| run | instance | what it shows |
| --- | --- | --- |
| `cap` | 2 requests, 2 owners whose labels collide, 3 boxes, cap 1 | `CapOvershootBounded`: the race exceeds the cap by at most the other requests in flight; `OvershootByOwnLogins`: a place is taken only where the listing showed one, up to the logins of the label that are past their check; `ReconnectNeverCapped`; `QuotaSpec`: refinement of `BoxQuota` |
| `claims` | 2 requests, 2 owners whose boxes collide, 2 claims, claims made by hand, fair | `VerifiedClaimsMatch`, `ClaimsRetained`, `TypeOK`; `CallsRunOut`: each call of a login leaves fewer to be made; `EveryRequestAnswered` |
| `store` | 2 requests, 2 contents, 1 publication, fair | `ServedWasCurrent`, `NoMatchWasJustified`, `MutexHeldByReader`, `CacheMatchesFile`, `OwnVolumesOnly`, `TypeOK`; `EveryLoadEnds` |
| `access` | 2 requests, 2 templates, 3 directories, edits, 2 tries | `RoleGrantsOwnBoxes`, `AloneGrantInForce`, `ListWasPublished`, `ReconcilingEnds`, `NoMutualDenial`, `TypeOK` |
| `tui` | 2 rows, a poll and the round after a delete, the second box never absent | `DialogTellsDeletes`, `TypeOK` |
| `tui_liveness` | 1 row, 3 rounds, all failures, fair | `DialogSettles`, `CatchesUp`; `PollsDoNotPileUp`; `ImplementsConsole`: refinement of `Console` |
| `screen` | up to 2 rows, pods with and without a phase, 3 caps, 13 heights by 8 widths | `LiveMeansCurrent`, `MessageTrueWhenLive`, `FitsTerminal`, `SelectionShown`, `ConfirmationComplete`, `DimTellsTheRound`, `CapAsEnforced` |
| `login` | 1 key, 2 accounts, 4 policies | `AdmittedWasEntitled`, `DeniedWasJustified`, `TypeOK` |
| `label_front` | all names of up to 6 characters | `WrongOnlyInFront`, `DashesCollapsed` |
| `access_diverge` | 2 requests, no edits | *violated*: `RoleMatchesNewestSession` |
| `tui_deleted` | 1 row, 3 rounds | *violated*: `NeverBackBeforeDelete` |
| `label` | all names of up to 6 characters | *violated*: `LabelValid` |

Why the bounds are enough. Two requests are the smallest number that race, and in each of these
protocols a request sees the others only through the shared objects, on each of which another one
can act once between two of its own steps; the bounds that involve the number of requests are proved
for all. Three boxes and a cap of one let the cap be exceeded and the excess be seen; that owners
with labels of their own do not pay for each other is proved, since the theorem is about each label.
The three directories of `access` are such that a walk over two of them may list both templates,
although no directory has both, or meet a broken or missing one. One publication puts a change
before, between or after stat, lock and read; that more of them change nothing is proved. Two tries
(the code has five) are enough for `NoMutualDenial` and let the last try be reached. The `tui` run
has refused gets only, since other failures do the same to the dialog; `tui_liveness` and `screen`
have them all. Its constraint `SecondBoxStays` leaves the second box running or terminating, so that
there is always another row to move to and to delete; the first box goes through every state, and
`OneDeleteAtATime` is about all. The three caps are a negative one, none, and one that two rows
reach. In `screen` heights and widths have every layout and both sides of each threshold; two rows
scroll in the windows of one line that a message and the cap leave, and `Screen_proofs` is about
lists of every length. Six characters and a limit of eight, of which the suffix takes four, let
`label` and `label_front` meet every trim and the cut. In `login` a second account is what a key or
a name can move to, and nothing is bounded: edits, retries and deployments go on for ever. `Rounds`
bounds the refreshes in flight, with one slot kept for the round after a delete so that polling
cannot hold up `DeleteDone`. It still waits while that slot holds the round of an earlier delete,
which the code never does: this is a bound of the model, and the theorems, which hold for any set
`Rounds`, share it in so far as one such round is in flight at a time; `MaxPublished` bounds the
publications. `tui`, its kind and `screen` do not check deadlock because the user may quit, `login`
because the connection ends, `label` because a name is labelled once.

Fairness. `claims`, `store`: weak fairness of each handler; its goroutine runs and each call ends
within `capListTimeout`. The mutex adds strong fairness of `Acquire`: Go's `sync.Mutex` passes
itself on to a waiter that has starved for a millisecond. `tui_liveness`: the ticker ticks, gets end
within `refreshBudget`, deletes within `requestTimeout`, and Bubble Tea delivers every message of
theirs. That a QuitMsg arrives is not assumed: `DialogSettles` and `CatchesUp` hold in a program
that is quitting for ever, and say nothing of one that has stopped. Nothing is assumed of users, the
gateway, the operator or the cluster; `CatchesUp` is conditional on the cluster coming to rest.

## Where code and text disagree

* `access_diverge`: the Role is read and written after the walk, without a check that the walk is
  the latest. The older of two concurrent settings requests can write the Role last, and the newer
  session lists a box that its Role does not grant. `owner_access.go:61` says the two can never
  diverge. The next settings login repairs it.
* `tui_deleted`: `deleteDoneMsg` starts a refresh while an older one may be in flight, and results
  are applied as they come. The older one can restore the deleted box on a Live screen, until the
  next poll, against the comment at `model.go:233`.
* `label`: `ownerLabelValue` trims dashes only. A name that starts with an underscore or a dot and
  is not a valid label as it stands, such as `_svc@x`, gets a label with that character in front,
  which Kubernetes refuses, against the comment at `persistent.go:205`. Every login of that owner
  fails. `WrongOnlyInFront` holds: this is all that can be wrong, and it is wrong for all such
  names.

What else is known and stated by no violated run:

* A 403 on a row that is not created, or was never reached, sets `reconnect` without the hint that
  the settings UI's README (line 82) promises: the detail pane asks for a reconnect only for
  existing boxes and for `forbidden` rows. `DetailPane` draws it so.
* With three rows of terminal and a message, the screen is four lines tall. `FitsTerminal` excepts
  exactly this.
* A negative cap is no cap for the config server but refuses every settings session, because
  `parseMaxBoxes` takes only natural numbers. `CapAsEnforced` speaks of sessions that come up.
* On a narrow pane layout the footer has no room for the connection. Dimming still tells, which is
  why `DimTellsTheRound` is about the rows.
* In the panes the state of the selected row is not dim when stale, because the reset after its bold
  name ends the dim (`view.go:340-355`), against the comment at `view.go:327` and README lines 81-82 of
  the settings UI. The honesty line of the detail pane says so instead, if the terminal has both
  panes and room for it.
* A box whose pod has no phase yet never becomes stale (`model.go:271`, `278`): when it cannot be
  read it stays bright, with the connection in the footer as the only sign. `DimTellsTheRound`
  excepts such boxes.
* The message line is cleared by a Live round only (`model.go:292`). Until then it may name a
  connection that is over ("unavailable while the connection is partial" on an unreachable screen) or
  call a row not created that a partial round has shown Running. `MessageTrueWhenLive` promises no
  more than that this is over once Live.
* A delete confirmed between `q` and its QuitMsg is started and then abandoned with the dialog open;
  whether it reached the API is not told.
* A delete is by name: a box deleted and created again between the last round and `y` is deleted in
  its new incarnation.

## Proofs

Everything below is proved for all values of the constants that satisfy the named assumptions of the
modules, without bounds on requests, rows, publications or terminal sizes. Each proof module has
its inductive invariant first, then one step per action.

`PersistentBoxes_proofs`, from `ConstantsAssumption` (finitely many requests and pod names; contents
have claims only in persistent mode, which `readClaims` enforces; the functions have their types):

* `TypeCorrect`. `TypeOK` is inductive because `RequestStates` says where a request can be: inside
  `ensureClaim` only with a claim of its template, past the identity check only with an owner.
* `CapBound`: `CapOvershootBounded`. The bound on live pods alone is not inductive, since a granted
  request may still create its pod. The invariant counts the places taken (`Occupied`: live pods
  and granted boxes) and is stronger in one respect: it splits at the check. When `CheckCap`
  passes, the listing shows fewer live pods than the cap, and every other taken place belongs to
  another request, of which there are at most `Slack`; all other steps only release places or turn
  a granted box into a live pod.
* `OvershootIsOwn` (`OvershootByOwnLogins`). `CapOvershootBounded` lets the logins of one label pay
  for another's. The sharper result is one of steps: a place is taken only by a passing `CheckCap`,
  whose listing was below the cap, and what is taken beyond the listing is held by other logins of
  that label. A pod that such a login has created stays, so no state invariant says this.
* `LoginsRunOut` (`CallsRunOut`): three calls for each claim and one listing bound what a login
  costs; every path of `ensureClaim`, the lost race included, lowers `CallsLeft` and keeps it
  positive until the login is answered. With fair calls this is why `EveryRequestAnswered` holds.
* `ImplementsQuota`: with a positive cap, `Spec => QuotaSpec`; each step reserves at most one place
  under one label while there is room, or releases, or stutters in `BoxQuota`.
* `ClaimsMatch` (`VerifiedClaimsMatch`) and `ClaimsStay` (`ClaimsRetained`). What is vouched for
  matches only together with three facts: idle requests vouch for nothing, what a request has
  ensured has no owner reference, and neither has a claim that a pod mounts. `ClaimInv` joins them;
  with the third, garbage collection cannot take a claim in use.
* `ReconnectsPass` (`ReconnectNeverCapped`): as long as a request is in `steady`, its pod is live
  and is its own, so that its listing holds it (`SteadyInv`).

`TemplateStore_proofs`: `TypeCorrect`, `CacheIsCurrent`, `ServesCurrent`, `VolumesAreOwn`,
`NoMatchIsTrue`, `MutexIsFreed`. A stat may be older than the read that follows, so an entry may
hold newer content than its stamp says. It is never older, and stamps only grow: then an entry under
today's stamp was read today (`CacheInv`, `DiskInv`, and `RequestInv` for each point of a request).
For `NoMatchIsTrue` it also says that a request that has gone on to the second file met a moment
without the first; the two moments differ, so no single directory is a witness. `MutexIsFreed` is
inductive with the types alone.

`OwnerAccess_proofs`:

* `TypeCorrect`. `TypeInv` adds that a walk collects persistent templates only.
* `RoleIsModest` (`RoleGrantsOwnBoxes`), provided that what operators write into the Role is within
  the owner's boxes (`ModestEdits`): every rule the handler writes is, the empty list included.
* `GrantIsInForce` (`AloneGrantInForce`): a request alone is the only one under way, and the objects
  of the stages behind it are as desired (`AloneInv`).
* `ListIsAccountedFor` (`ListWasPublished`). `WalkInv` says during a walk what `seen` holds for
  every template already decided: on the list, a directory that had it as persistent, off the list,
  one that had not. `seen` gets every directory that is mounted during the walk, read or not, so
  that both the listing and the loads have theirs in it.
* `ReconcilingRunsOut` (`ReconcilingEnds`): `CallsLeft` weighs the stages still ahead by all their
  tries, so that it falls also when a stage is done and the tries begin anew. It needs no fairness
  and holds whoever deletes or edits the objects meanwhile.
* `NobodyIsDenied` (`NoMutualDenial`), for two tries or more and any number of requests: over stable
  templates all want the same objects; whoever loses a race finds them at the next get. `AtOne`
  says at each point of a request how many tries it can have used up.

`Console_proofs`: `UiTyped`, `LiveIsHonest`, `MessagesAreTrueWhenLive`, with the addition that an
open dialog has a row (`UiInv`). For the last, only `d` names a row or an empty list, and it names
no connection on a Live screen; what rounds make of the row and the connection afterwards is
harmless because the round that brings Live back clears the line. `SettingsTui_proofs`:
`TypeCorrect`; `OneDeleteAtATime`, from the set of deletes being empty or one for the selected row;
`Implements`: every step of the event loop is a step of `Console` or leaves the screen alone, from
which `LiveStaysHonest` follows; `PollsAreBounded` (`PollsDoNotPileUp`). For the last, `Load` counts
the rounds under way and one more while the flag lets a tick start one: a tick uses up its one, a
round that ends gives back at most what it took, though it may clear a flag that another round has
set, and only `DeleteDone` starts a round without asking. `Load` is two at first, because `Init`
starts a round without the flag.

`Screen_proofs`: what the `screen` run shows in 104 sizes is proved for all. The state part is an
invariant: the caps agree once the session is open, boxes exist in persistent mode only, and once a
round has read nothing every box with a phase is stale (`UnreachableIsDim`); the rest comes from
`SessionsAreConsoles` (`Spec => UiSpec`) and the theorems of `Console`. The drawing part works on
the items of lines: what a concatenation shows is the union of what its parts show, and its length
is the sum. With this each layout has one lemma (`MasterPaneSound`, `DetailPaneSound`,
`DeletePopupSound`, `DialogLinesSound`, `BodyLinesSound`), `ItemsScroll` is the arithmetic of the
window, and `TallSound` and `ShortLines` put the layouts together for `EveryScreenFits`,
`SelectionIsShown`, `ConfirmationIsComplete`, `DimTells` and `CapIsTheEnforcedOne`.
`ConfirmationIsComplete` needs `MessageTrueWhenLive`: beside a message, seven rows would be too few for
all consequences.

`Login_proofs`: `TypeCorrect`, `AdmittedAreEntitled`, `DenialsAreJustified`. The invariant says for
each point of the handlers which verdicts the history already holds (`Evidence`).

`OwnerLabel_proofs`, from `LabelAssumption` (the suffix and the fallback fit the limit):
`LabelsAreNearlyValid` (`WrongOnlyInFront`) and `LabelsAreCollapsed` (`DashesCollapsed`), for names
of every length. `LabelInv` says of the loop that what is built has no two dashes in a row, that
`prevDash` tells whether it ends in one, and that its first character other than a dash is the first
kept character of what has been read. `TrimSound` and `TrimRightSound` are about the first and last
such character, whose existence comes from the well-foundedness of the naturals (`MinIsLeast`,
`MaxIsGreatest`); `CoreSound` and `CoreFront` carry both facts through the cut, and `LabelSound`
through the suffix.

Only model-checked: liveness (`EveryRequestAnswered`, `EveryLoadEnds`, `DialogSettles`,
`CatchesUp`), because fairness and `ENABLED` are beyond the prover. Every safety property of the
passing runs is proved.

## Plan

1. The composition of gateway, boxes and UI with pod incarnations: a confirmed delete and a login
   that recreates the box.
2. Writes that the API server applies after their caller has given up and after later requests.

## Not modelled

Text: wording, colours, sanitizing, clipping at the right edge, time and unit formats. Reading and
validating the environment at start-up beyond cap, mode and policy: one pass before serving that
fails closed. The HTTP client beneath its outcomes. `boxPodName` as text: a fixed prefix and a hash,
valid by its shape. The chart, whose values are the constants here. Test programs and CI. A write
that the API server applies after its caller has given up *and* after later requests is not
modelled; a lost answer is.
