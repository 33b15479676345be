---------------------------- MODULE ProviderCall ----------------------------
(***************************************************************************)
(* What the publishing engine counts on when it calls                      *)
(* provider.publish_post: one call, one answer, and one effect that the    *)
(* answer reports unless the platform's reply was lost on the way.         *)
(***************************************************************************)
EXTENDS Integers

VARIABLES
  answers,   \* calls answered so far
  answer,    \* the last answer: none, accepted, refused (retryable), rejected
  seen,      \* posts visible on the platform
  unheard    \* posts made visible by a call that was answered "refused"

Init == answers = 0 /\ answer = "none" /\ seen = 0 /\ unheard = 0

\* The post is out and the caller is told so.
Accept == answer' = "accepted" /\ seen' = seen + 1 /\ unheard' = unheard

\* Nothing was published.
Refuse == answer' = "refused" /\ UNCHANGED <<seen, unheard>>

Reject == answer' = "rejected" /\ UNCHANGED <<seen, unheard>>

\* The post is out, but the reply that said so never arrived or named no post.
Lose == answer' = "refused" /\ seen' = seen + 1 /\ unheard' = unheard + 1

\* The caller calls again only after a retryable refusal.
Next ==
  /\ answer \in {"none", "refused"}
  /\ answers' = answers + 1
  /\ Accept \/ Refuse \/ Reject \/ Lose

Spec == Init /\ [][Next]_<<answers, answer, seen, unheard>>

=============================================================================
