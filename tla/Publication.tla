---------------------------- MODULE Publication ----------------------------
(***************************************************************************)
(* What the publishing engine promises about the children of a post, with   *)
(* no processes, locks, copies or polls in sight: a child that waits is     *)
(* taken, it appears on its platform at most once and only while it is      *)
(* taken, and it leaves as published when it has appeared, or as waiting    *)
(* or failed when it has not.  Children are taken together, one at a time   *)
(* otherwise.  PublishEngine implements it.                                 *)
(***************************************************************************)
EXTENDS Naturals

CONSTANT PlatformPosts

VARIABLES
  stage,   \* of each child
  shown    \* appearances of each child on its platform

vars == <<stage, shown>>

Stages == {"waiting", "taken", "published", "failed"}

TypeOK == stage \in [PlatformPosts -> Stages] /\ shown \in [PlatformPosts -> 0..1]

Init ==
  /\ stage = [p \in PlatformPosts |-> "waiting"]
  /\ shown = [p \in PlatformPosts |-> 0]

Take(S) ==
  /\ \A p \in S : stage[p] = "waiting"
  /\ stage' = [p \in PlatformPosts |-> IF p \in S THEN "taken" ELSE stage[p]]
  /\ UNCHANGED shown

Appear(p) ==
  /\ stage[p] = "taken" /\ shown[p] = 0
  /\ shown' = [shown EXCEPT ![p] = 1]
  /\ UNCHANGED stage

Report(p) ==
  /\ stage[p] = "taken" /\ shown[p] = 1
  /\ stage' = [stage EXCEPT ![p] = "published"]
  /\ UNCHANGED shown

\* A retry, or the end of the retries.
GiveBack(p) ==
  /\ stage[p] = "taken" /\ shown[p] = 0
  /\ \E s \in {"waiting", "failed"} : stage' = [stage EXCEPT ![p] = s]
  /\ UNCHANGED shown

Next ==
  \/ \E S \in SUBSET PlatformPosts : S # {} /\ Take(S)
  \/ \E p \in PlatformPosts : Appear(p) \/ Report(p) \/ GiveBack(p)

Spec == Init /\ [][Next]_vars
=============================================================================
