-------------------------- MODULE PlatformPublish --------------------------
(***************************************************************************)
(* One PlatformPost on its way through _dispatch_to_provider of            *)
(* apps/publisher/engine.py and the publish_post of its provider.          *)
(*                                                                         *)
(* A provider publishes in a fixed sequence of HTTP exchanges: lookups,    *)
(* parts staged out of sight (containers, uploads, unpublished photos),    *)
(* waits for the platform to process them, and the one exchange that makes *)
(* the post visible.  The sequences differ per platform and are written    *)
(* down as such (the recipes); what each kind of exchange can do to the    *)
(* caller and to the platform is the same everywhere (the actions).        *)
(*                                                                         *)
(* The platform may refuse any exchange, and the reply of one it carried   *)
(* out may be lost or may name no object.                                  *)
(***************************************************************************)
EXTENDS Integers, Sequences, FiniteSets, SequencesExt

CONSTANTS
  MaxCalls    \* calls the engine makes for one PlatformPost: MAX_RETRIES + 1

-----------------------------------------------------------------------------
(* Exchanges *)

\* op    what the exchange does
\* part  the staged part it is about
\* named the caller raises when the reply names no object
Exchange(op, part, named) == [op |-> op, part |-> part, named |-> named]

Check == Exchange("check", 0, FALSE)       \* local refusal, before any effect
Ask == Exchange("ask", 0, FALSE)           \* a lookup the call depends on
Try == Exchange("try", 0, FALSE)           \* best effort: its failure is caught
Vet == Exchange("vet", 0, FALSE)           \* best effort, but its answer may forbid the post
Stage(i) == Exchange("stage", i, TRUE)     \* creates part i out of sight
Put(i) == Exchange("put", i, FALSE)        \* sends bytes into part i
Wait(i) == Exchange("wait", i, FALSE)      \* polls until part i is processed
Publish(i) == Exchange("publish", i, FALSE)      \* makes the post visible, with part i
PublishNamed(i) == Exchange("publish", i, TRUE)  \* and raises if the reply has no id

Media == 1..2      \* the attachments of a multi-media post
Whole == 3         \* the part that holds the others: a carousel container

PerMedia(S(_)) == S(1) \o S(2)

-----------------------------------------------------------------------------
(* Recipes: publish_post, publish_comment and reply_to_message *)

\* A member post derives its author from the profile; a page's is injected.
LinkedInText == <<Ask, Publish(0)>>
LinkedInCompanyText == <<Publish(0)>>
LinkedInArticle == <<Ask, Publish(0)>>
LinkedInPoll == <<Ask, Check, Publish(0)>>
LinkedInImage == <<Ask, Stage(1), Put(1), Publish(1)>>
\* initializeUpload, a PUT per chunk, finalizeUpload, poll until AVAILABLE.
\* Mutant: the post is created without polling.
LinkedInVideo_NoPoll == <<Ask, Stage(1), Put(1), Put(1), Put(1), Publish(1)>>
LinkedInVideo == <<Ask, Stage(1), Put(1), Put(1), Put(1), Wait(1), Publish(1)>>

InstagramSingle == <<Stage(1), Wait(1), Publish(1)>>
InstagramCarousel ==
  PerMedia(LAMBDA i : <<Stage(i), Wait(i)>>) \o <<Stage(Whole), Wait(Whole), Publish(Whole)>>
InstagramLoginSingle == <<Check, Stage(1), Wait(1), Publish(1)>>
InstagramLoginCarousel ==
  <<Check>> \o PerMedia(LAMBDA i : <<Stage(i), Wait(i)>>)
            \o <<Stage(Whole), Wait(Whole), Publish(Whole)>>

\* A text container is ready at once; an image of a carousel is not waited for.
ThreadsText == <<Ask, Stage(1), Publish(1)>>
ThreadsMedia == <<Ask, Stage(1), Wait(1), Publish(1)>>
ThreadsCarousel ==
  <<Ask, Stage(1), Wait(1), Stage(2), Stage(Whole), Wait(Whole), Publish(Whole)>>

FacebookText == <<Check, PublishNamed(0)>>
FacebookPhoto == <<Check, PublishNamed(0)>>
FacebookPhotos == <<Check>> \o PerMedia(LAMBDA i : <<Stage(i)>>) \o <<PublishNamed(0)>>
\* The permalink lookup follows the publication and is caught.
\* Mutant: it is not caught.
FacebookVideo_Uncaught == <<Check, PublishNamed(0), Ask>>
FacebookVideo == <<Check, PublishNamed(0), Try>>

TikTokFile == <<Check, Vet, Check, Stage(1), Publish(1)>>
TikTokPull == <<Check, Vet, Publish(0)>>

\* The upload of the bytes publishes the video; the thumbnail is best effort.
YouTubeVideo == <<Check, Stage(1), Publish(1), Try>>

PinterestImage == <<Check, Publish(0)>>
PinterestVideo == <<Check, Exchange("stage", 1, FALSE), Put(1), Publish(1)>>

\* Handles that do not resolve only lose their link.
BlueskyPost == <<Check, Ask, Try>> \o PerMedia(LAMBDA i : <<Stage(i)>>) \o <<Publish(0)>>

MastodonStatus == PerMedia(LAMBDA i : <<Stage(i)>>) \o <<PublishNamed(0)>>

DevtoArticle == <<Check, PublishNamed(0)>>

GoogleBusinessPost == <<Check, Ask, Ask, Publish(0)>>

\* Comments and replies are one exchange, or a reply container on Threads.
LinkedInComment == <<Ask, Publish(0)>>
LinkedInReply == <<Check, Ask, Publish(0)>>
ThreadsComment == <<Ask, Stage(1), Publish(1)>>
InstagramComment == <<PublishNamed(0)>>
MastodonReply == <<Ask, PublishNamed(0)>>

Recipes ==
  {LinkedInText, LinkedInCompanyText, LinkedInArticle, LinkedInPoll, LinkedInImage,
   LinkedInVideo, InstagramSingle, InstagramCarousel, InstagramLoginSingle,
   InstagramLoginCarousel, ThreadsText, ThreadsMedia, ThreadsCarousel, FacebookText,
   FacebookPhoto, FacebookPhotos, FacebookVideo, TikTokFile, TikTokPull, YouTubeVideo,
   PinterestImage, PinterestVideo, BlueskyPost, MastodonStatus, DevtoArticle,
   GoogleBusinessPost, LinkedInComment, LinkedInReply, ThreadsComment,
   InstagramComment, MastodonReply}

-----------------------------------------------------------------------------
VARIABLES
  recipe,     \* the sequence this post's provider follows
  calls,      \* calls of _dispatch_to_provider that have ended
  phase,      \* idle, fetching media, in the recipe, tidying, closing, ended
  at,         \* the exchange of the recipe that is next
  raised,     \* the error on its way out: none, refused, rejected
  known,      \* parts whose id the caller received
  staged,     \* external: parts that exist out of sight on the platform
  ready,      \* external: parts the platform has processed
  visible,    \* external: posts on the platform
  unheard,    \* history: posts whose reply was lost or named no object
  temp,       \* attachments lying in temporary files
  told        \* what the engine knows: the last answer, and the platform then

vars == <<recipe, calls, phase, at, raised, known, staged, ready, visible, unheard, temp, told>>
callerVars == <<recipe, calls, told>>
platformVars == <<staged, ready, visible, unheard>>

Phases == {"idle", "fetching", "calling", "tidying", "closing"}
Errors == {"none", "refused", "rejected"}

Init ==
  /\ recipe \in Recipes
  /\ calls = 0
  /\ phase = "idle"
  /\ at = 1
  /\ raised = "none"
  /\ known = {}
  /\ staged = {}
  /\ ready = {}
  /\ visible = 0
  /\ unheard = 0
  /\ temp = {}
  /\ told = [answer |-> "none", visible |-> 0, unheard |-> 0]

-----------------------------------------------------------------------------
(* _dispatch_to_provider *)

\* A call; the engine repeats it after a retryable error.  The token refresh
\* is best effort, and nothing of an earlier call is remembered.
\* Mutant: the engine's retries are not counted.
Dispatch_Unlimited ==
  /\ phase = "idle"
  /\ told.answer \in {"none", "refused"}
  /\ phase' = "fetching"
  /\ at' = 1
  /\ raised' = "none"
  /\ known' = {}
  /\ staged' = {}
  /\ ready' = {}
  /\ UNCHANGED <<callerVars, visible, unheard, temp>>

Dispatch ==
  /\ phase = "idle"
  /\ calls < MaxCalls
  /\ told.answer \in {"none", "refused"}
  /\ phase' = "fetching"
  /\ at' = 1
  /\ raised' = "none"
  /\ known' = {}
  /\ staged' = {}
  /\ ready' = {}
  /\ UNCHANGED <<callerVars, visible, unheard, temp>>

\* The storage copy of an attachment.  The file is registered for removal
\* before its bytes arrive, so a failing copy leaves it to the finally block.
FetchMedia ==
  /\ phase = "fetching"
  /\ \E i \in Media \ temp :
       /\ temp' = temp \cup {i}
       /\ \/ phase' = "fetching" /\ raised' = raised
          \/ phase' = "closing" /\ raised' = "refused"
  /\ UNCHANGED <<callerVars, at, known, platformVars>>

BuildContent ==
  /\ phase = "fetching"
  /\ phase' = "calling"
  /\ UNCHANGED <<callerVars, at, raised, known, platformVars, temp>>

\* The multi-photo path is the only one that undoes what it staged.
Undoes == recipe = FacebookPhotos

Step == recipe[at]

Proceed ==
  /\ at' = at + 1
  /\ phase' = IF at = Len(recipe) THEN "closing" ELSE "calling"
  /\ raised' = raised

Raise(error) ==
  /\ at' = at
  /\ phase' = IF Undoes THEN "tidying" ELSE "closing"
  /\ raised' = error

Doing(op) == phase = "calling" /\ Step.op = op

-----------------------------------------------------------------------------
(* The exchanges of a recipe *)

\* A local check raises with the default retryable=True; TikTok's privacy
\* level is refused for good.
LocalCheck ==
  /\ Doing("check")
  /\ Proceed \/ Raise("refused") \/ (recipe \in {TikTokFile, TikTokPull} /\ Raise("rejected"))
  /\ UNCHANGED <<callerVars, known, platformVars, temp>>

LookUp ==
  /\ Doing("ask")
  /\ Proceed \/ Raise("refused")
  /\ UNCHANGED <<callerVars, known, platformVars, temp>>

BestEffort ==
  /\ Doing("try")
  /\ Proceed
  /\ UNCHANGED <<callerVars, known, platformVars, temp>>

\* _check_creator_constraints: a failing query is ignored, its answer is not.
VetCreator ==
  /\ Doing("vet")
  /\ Proceed \/ Raise("rejected")
  /\ UNCHANGED <<callerVars, known, platformVars, temp>>

\* A part is created; its reply may be lost, or come without an id.
StagePart ==
  /\ Doing("stage")
  /\ \/ /\ staged' = staged \cup {Step.part}
        /\ known' = known \cup {Step.part}
        /\ Proceed
     \/ /\ staged' = staged \cup {Step.part}
        /\ known' = known
        /\ IF Step.named THEN Raise("refused") ELSE Proceed
     \/ /\ UNCHANGED <<staged, known>>
        /\ Raise("refused") \/ (recipe = TikTokFile /\ Raise("rejected"))
  /\ UNCHANGED <<callerVars, ready, visible, unheard, temp>>

PutBytes ==
  /\ Doing("put")
  /\ Proceed \/ Raise("refused")
  /\ UNCHANGED <<callerVars, known, platformVars, temp>>

\* External: the platform finishes processing a part.
Process ==
  /\ phase = "calling"
  /\ \E i \in staged \ ready : ready' = ready \cup {i}
  /\ UNCHANGED <<callerVars, phase, at, raised, known, staged, visible, unheard, temp>>

\* The poll ends when the part is ready, by its error status, or by timeout.
WaitForPart ==
  /\ Doing("wait")
  /\ (Step.part \in ready /\ Proceed) \/ Raise("refused")
  /\ UNCHANGED <<callerVars, known, platformVars, temp>>

\* The exchange that makes the post visible: carried out and answered, carried
\* out with a reply that names no post, carried out with the reply lost, or
\* refused.
PublishIt ==
  /\ Doing("publish")
  /\ \/ visible' = visible + 1 /\ unheard' = unheard /\ Proceed
     \/ /\ visible' = visible + 1
        /\ IF Step.named
             THEN unheard' = unheard + 1 /\ Raise("refused")
             ELSE unheard' = unheard /\ Proceed
     \/ visible' = visible + 1 /\ unheard' = unheard + 1 /\ Raise("refused")
     \/ /\ UNCHANGED <<visible, unheard>>
        /\ Raise("refused") \/ (recipe = TikTokPull /\ Raise("rejected"))
  /\ UNCHANGED <<callerVars, known, staged, ready, temp>>

\* _delete_staged_photos: one DELETE per known photo; one that fails is only
\* logged.
\* Mutant: the first DELETE that fails ends the clean-up.
DeleteStaged_StopsAtError ==
  /\ phase = "tidying"
  /\ IF known = {}
       THEN phase' = "closing" /\ UNCHANGED <<known, staged>>
       ELSE \E i \in known :
              \/ known' = known \ {i} /\ staged' = staged \ {i} /\ phase' = phase
              \/ known' = known \ {i} /\ staged' = staged /\ phase' = "closing"
  /\ UNCHANGED <<callerVars, at, raised, ready, visible, unheard, temp>>

DeleteStaged ==
  /\ phase = "tidying"
  /\ IF known = {}
       THEN phase' = "closing" /\ UNCHANGED <<known, staged>>
       ELSE \E i \in known :
              /\ known' = known \ {i}
              /\ staged' \in {staged, staged \ {i}}
              /\ phase' = phase
  /\ UNCHANGED <<callerVars, at, raised, ready, visible, unheard, temp>>

Answered == [answer |-> IF raised = "none" THEN "accepted" ELSE raised,
             visible |-> visible, unheard |-> unheard]

\* The finally block, then the answer.
Close ==
  /\ phase = "closing"
  /\ calls' = calls + 1
  /\ temp' = {}
  /\ told' = Answered
  /\ phase' = "idle"
  /\ UNCHANGED <<recipe, at, raised, known, platformVars>>

Next ==
  \/ Dispatch \/ FetchMedia \/ BuildContent
  \/ LocalCheck \/ LookUp \/ BestEffort \/ VetCreator
  \/ StagePart \/ PutBytes \/ Process \/ WaitForPart \/ PublishIt
  \/ DeleteStaged \/ Close

Spec == Init /\ [][Next]_vars

-----------------------------------------------------------------------------
(* Properties *)

TypeOK ==
  /\ recipe \in Recipes
  /\ calls \in 0..MaxCalls
  /\ phase \in Phases
  /\ at \in 1..(Len(recipe) + 1)
  /\ raised \in Errors
  /\ known \subseteq Media \cup {Whole}
  /\ ready \subseteq Media \cup {Whole} /\ staged \subseteq Media \cup {Whole}
  /\ visible \in 0..MaxCalls /\ unheard \in 0..visible
  /\ temp \subseteq Media
  /\ told \in [answer: Errors \cup {"accepted"}, visible: 0..MaxCalls, unheard: 0..MaxCalls]

Call == INSTANCE ProviderCall WITH
  answers <- calls, answer <- told.answer, seen <- told.visible, unheard <- told.unheard

\* Whatever sequence of exchanges a platform takes, the engine sees one call:
\* accepted means one new post, rejected none, and a retryable refusal hides
\* a post only when the platform's own reply went missing.  No step after the
\* publication may raise, or the engine would publish again.
IsOneCall == Call!Spec

\* When a call has ended, whatever way, no attachment lies in a temporary file
\* and a failed multi-photo post has tried to delete every photo it staged.
NothingLeftBehind ==
  phase = "idle" =>
    /\ temp = {}
    /\ Undoes /\ told.answer \in {"refused", "rejected"} => known = {}

\* Recipes whose published part the platform has to process first.
Processed == {LinkedInVideo, InstagramSingle, InstagramCarousel, InstagramLoginSingle,
              InstagramLoginCarousel, ThreadsMedia, ThreadsCarousel}

\* The exchange that publishes a processed part comes after the platform said
\* the part is ready.
CommitsWhatIsReady ==
  [][(recipe \in Processed /\ visible' # visible) => Step.part \in ready]_vars

=============================================================================
