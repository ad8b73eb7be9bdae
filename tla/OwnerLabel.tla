----------------------------- MODULE OwnerLabel -----------------------------
(***************************************************************************)
(* Label values from authenticated names (config-server/persistent.go):    *)
(* ownerLabelValue sanitizes a name for the labels dev.box/owner and       *)
(* template of a box.  A name is a sequence of character classes; the      *)
(* SHA-256 suffix is so many alphanumeric characters.  The loop over the   *)
(* bytes of the name is a step per byte, so that what it builds can be     *)
(* reasoned about for names of every length.                               *)
(***************************************************************************)
EXTENDS Integers, Sequences, FiniteSetsExt

CONSTANTS
  Limit,     \* longest label value: 63 in the code
  Digits,    \* length of the hash in the suffix: 8 in the code
  Word,      \* length of "owner", for a name of which nothing is left
  Longest    \* longest name looked at: bounds the model

ASSUME LabelAssumption ==
  /\ Limit \in Nat /\ Longest \in Nat
  /\ Digits \in Nat \ {0} /\ Word \in Nat \ {0}
  /\ Word + 1 + Digits <= Limit

VARIABLES
  owner,     \* the authenticated name
  i,         \* the next byte of the loop
  b,         \* the strings.Builder
  prevDash,  \* the last byte written is a dash
  label      \* the label of its box

vars == <<owner, i, b, prevDash, label>>

\* "alnum" a letter or digit, "other" whatever no label may hold.
Kept == {"alnum", "_", "."}
Characters == Kept \cup {"-", "other"}
Names == UNION {[1..n -> Characters] : n \in 1..Longest}     \* never empty

\* What Kubernetes takes as a label value.
IsValidLabelValue(s) ==
  /\ Len(s) \in 1..Limit
  /\ s[1] = "alnum" /\ s[Len(s)] = "alnum"
  /\ \A k \in 1..Len(s) : s[k] # "other"

TypeOK ==
  /\ owner \in Names
  /\ i \in 1..(Len(owner) + 1)
  /\ b \in Seq(Kept \cup {"-"})
  /\ prevDash \in BOOLEAN
  /\ label \in Seq(Characters)

Init == owner \in Names /\ i = 1 /\ b = <<>> /\ prevDash = FALSE /\ label = <<>>

-----------------------------------------------------------------------------
\* A valid name is its own label.
KeepName ==
  /\ label = <<>> /\ IsValidLabelValue(owner)
  /\ label' = owner
  /\ UNCHANGED <<owner, i, b, prevDash>>

\* Mutant: the flag is not taken back after another character.
AppendStaysDash(c) == b' = Append(b, c) /\ UNCHANGED prevDash
AppendKept(c) == b' = Append(b, c) /\ prevDash' = FALSE
\* Mutant: every dash is written.
AppendEveryDash == b' = Append(b, "-") /\ prevDash' = TRUE
\* A run of dashes and unusable characters becomes one dash.
AppendDash == IF prevDash THEN UNCHANGED <<b, prevDash>>
              ELSE b' = Append(b, "-") /\ prevDash' = TRUE

ReadByte ==
  /\ label = <<>> /\ ~IsValidLabelValue(owner)
  /\ i <= Len(owner)
  /\ IF owner[i] \in Kept THEN AppendKept(owner[i]) ELSE AppendDash
  /\ i' = i + 1
  /\ UNCHANGED <<owner, label>>

Letters(s) == {k \in 1..Len(s) : s[k] # "-"}
TrimRight(s) == SubSeq(s, 1, Max({0} \cup Letters(s)))
Trim(s) == IF Letters(s) = {} THEN <<>> ELSE SubSeq(TrimRight(s), Min(Letters(s)), Len(TrimRight(s)))

Suffix == [k \in 1..(1 + Digits) |-> IF k = 1 THEN "-" ELSE "alnum"]
\* Mutant: the dash of the suffix is not counted.
MaxCoreOffByOne == Limit - Digits
MaxCore == Limit - Len(Suffix)

\* Mutant: the cut may leave a dash at the end.
CutOnly(s) == IF Len(s) > MaxCore THEN SubSeq(s, 1, MaxCore) ELSE s
Cut(s) == IF Len(s) > MaxCore THEN TrimRight(SubSeq(s, 1, MaxCore)) ELSE s

Core(s) == IF Cut(Trim(s)) = <<>> THEN [k \in 1..Word |-> "alnum"] ELSE Cut(Trim(s))

\* injectPersistentPod labels the pod.
Finish ==
  /\ label = <<>> /\ ~IsValidLabelValue(owner)
  /\ i > Len(owner)
  /\ label' = Core(b) \o Suffix
  /\ UNCHANGED <<owner, i, b, prevDash>>

Next == KeepName \/ ReadByte \/ Finish
Spec == Init /\ [][Next]_vars

-----------------------------------------------------------------------------
\* The label is one that Kubernetes takes, whatever the name (persistent.go:
\* "ownerLabelValue returns a valid, deterministic owner label").
LabelValid == label # <<>> => IsValidLabelValue(label)

\* The first character of s that is written as it is.
Front(s, c) == \E f \in 1..Len(s) : s[f] = c /\ \A k \in 1..(f - 1) : s[k] \notin Kept

\* What is true of every name, however long and whatever is in it: the label is
\* valid but for its first character, and that is wrong for exactly the names whose
\* first character to be kept is a dot or an underscore.
WrongOnlyInFront ==
  label # <<>> =>
    /\ IsValidLabelValue([label EXCEPT ![1] = "alnum"])
    /\ label[1] # "alnum" <=> Front(owner, "_") \/ Front(owner, ".")

\* Sanitizing leaves no two dashes side by side: neither in the core, nor where it
\* was cut, nor before the hash.
DashesCollapsed ==
  label # <<>> /\ label # owner =>
    \A k \in 1..(Len(label) - 1) : ~(label[k] = "-" /\ label[k + 1] = "-")
=============================================================================
