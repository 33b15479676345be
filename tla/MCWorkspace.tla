---------------------------- MODULE MCWorkspace ----------------------------
(***************************************************************************)
(* The parts of a workspace that web requests and sweeps share, for TLC:   *)
(* the agents' API, its keys and uploads, the media library, the           *)
(* analytics, the members, the clients' links, the inbox, the workspaces   *)
(* themselves, and the posts and shooting sessions of the dashboard.  The  *)
(* parts share no variable here, so each behaviour is one of one part.     *)
(***************************************************************************)
EXTENDS Integers, FiniteSets, Sequences, SequencesExt

CONSTANTS
  Callers, Keys, Limit,
  Workers, MaxEdits, TTL,
  Objects, Presigned, Assets, Handlers, Quota,
  RecentDays, Interval, MaxDays,
  Requests, Users, Invitations, Links, Workspaces, First,
  Accounts, MaxTime, MaxPosted, MaxHour,
  MaxMessages, MaxReplies, MaxKills

ASSUME BoundAssumption ==
  /\ Limit \in Nat /\ MaxEdits \in Nat /\ TTL \in Nat \ {0} /\ Quota \in Nat
  /\ RecentDays \in Nat \ {0} /\ Interval \in Nat \ {0} /\ MaxDays \in Nat \ {0}
  /\ MaxTime \in Nat /\ MaxPosted \in Nat /\ MaxHour \in Nat
  /\ MaxMessages \in Nat /\ MaxReplies \in Nat /\ MaxKills \in Nat

\* What stands for the absence of a thing is none.
ASSUME NoneAssumption ==
  /\ "none" \notin Assets \cup Objects \cup Users \cup Invitations \cup Links \cup Workspaces
  /\ "nokey" \notin Keys /\ {"none", "pending"} \cap (Requests \cup Callers) = {}

ASSUME SetAssumption ==
  /\ Presigned \subseteq Objects /\ First \in Workspaces
  /\ IsFiniteSet(Objects) /\ IsFiniteSet(Callers) /\ IsFiniteSet(Users) /\ IsFiniteSet(Workspaces)
  /\ Callers # {}

VARIABLES
  part,
  call, place, reply, record, status, recent, epoch, born, granted, peak,
  key, superseded, issuer, home, cache, verifying, copy, editing, revoking,
  pending, stored, asset, work, reaping, orphans, fresh, apart,
  provider, hour, ran, figures, total, captured, flag, backfill, job, excused, missed,
  org, workspace, own, invitation, request, removed, crossed, admitted, shared,
  client, link, visit, opened, crossing,
  posted, filters, row, overdue, cycle, answer, kills, notified, silent, passed, told,
  delivered, recorded,
  space, owned, asking, torn, together,
  post, time, child, flying, doing, out, reset, left, stale,
  booked, begins, ends, read, dragged,
  upload, at, said, claim, folder, kept, queued, swept, since

Api == INSTANCE AgentApi WITH Requests <- Callers
Access == INSTANCE ApiKeys
Media == INSTANCE MediaLibrary WITH Uploads <- Objects, Calls <- Handlers, call <- work
Figures == INSTANCE Analytics WITH row <- figures
People == INSTANCE Members WITH None <- "none"
Portal == INSTANCE MagicLinks WITH None <- "none", request <- visit, crossed <- crossing
Messages == INSTANCE Inbox WITH reply <- answer
Places == INSTANCE Workspaces WITH None <- "none"
Posts == INSTANCE Dashboard WITH row <- post, posted <- out, crossed <- stale
Shooting == INSTANCE ShootingSessions WITH MaxTime <- MaxHour, copy <- read
Files == INSTANCE AgentUploads WITH reply <- said

api == <<call, place, reply, record, status, recent, epoch, born, granted, peak>>
access == <<key, superseded, issuer, home, cache, verifying, copy, editing, revoking>>
media == <<pending, stored, asset, work, reaping, orphans, fresh, apart>>
analytics == <<provider, hour, ran, figures, total, captured, flag, backfill, job, excused,
               missed>>
people == <<org, workspace, own, invitation, request, removed, crossed, admitted, shared>>
portal == <<client, link, visit, opened, crossing>>
inbox == <<posted, filters, row, overdue, cycle, answer, kills, notified, silent, passed,
           told, delivered, recorded>>
places == <<space, owned, asking, torn, together>>
posts == <<post, time, child, flying, doing, out, reset, left, stale>>
shooting == <<booked, begins, ends, read, dragged>>
files == <<upload, at, said, claim, folder, kept, queued, swept, since>>
vars == <<part, api, access, media, analytics, people, portal, inbox, places, posts, shooting,
          files>>

\* The requests of the agent are alike: only which calls are made matters.  At
\* most one of the creates comes without an idempotency key.
Order == SetToSeq(Api!Calls)
Rank(c) == CHOOSE i \in DOMAIN Order : Order[i] = c
Line == SetToSeq(Callers)
Asked == {f \in [Callers -> Api!Calls] :
            /\ \A i, j \in DOMAIN Line : i <= j => Rank(f[Line[i]]) <= Rank(f[Line[j]])
            /\ Cardinality({r \in Callers : f[r] \in Api!Creates /\ f[r].key = "nokey"}) <= 1}

\* A part that is not at work starts in one of its initial states.
Init ==
  /\ part \in {"api", "access", "media", "analytics", "people", "portal", "inbox", "places",
             "posts", "shooting", "files"}
  /\ call \in IF part = "api" THEN Asked ELSE {[r \in Callers |-> Api!ScheduleDraft]}
  /\ home \in IF part = "access" THEN [Workers -> Workers] ELSE {[w \in Workers |-> w]}
  /\ provider \in IF part = "analytics" THEN Figures!Providers
                  ELSE {CHOOSE p \in Figures!Providers : TRUE}
  /\ own \in IF part = "people" THEN SUBSET Users ELSE {{}}
  /\ filters \in IF part = "inbox" THEN BOOLEAN ELSE {TRUE}
  /\ upload \in IF part = "files" THEN [Requests -> Files!Uploads]
                ELSE {[r \in Requests |-> [key |-> "nokey", folder |-> FALSE]]}
  /\ Api!Init /\ Access!Init /\ Media!Init /\ Figures!Init /\ People!Init /\ Portal!Init
  /\ Messages!Init /\ Places!Init /\ Posts!Init /\ Shooting!Init /\ Files!Init

\* Only the part p is at work.
Only(p) ==
  /\ part = p /\ UNCHANGED part
  /\ IF p = "api" THEN TRUE ELSE UNCHANGED api
  /\ IF p = "access" THEN TRUE ELSE UNCHANGED access
  /\ IF p = "media" THEN TRUE ELSE UNCHANGED media
  /\ IF p = "analytics" THEN TRUE ELSE UNCHANGED analytics
  /\ IF p = "people" THEN TRUE ELSE UNCHANGED people
  /\ IF p = "portal" THEN TRUE ELSE UNCHANGED portal
  /\ IF p = "inbox" THEN TRUE ELSE UNCHANGED inbox
  /\ IF p = "places" THEN TRUE ELSE UNCHANGED places
  /\ IF p = "posts" THEN TRUE ELSE UNCHANGED posts
  /\ IF p = "shooting" THEN TRUE ELSE UNCHANGED shooting
  /\ IF p = "files" THEN TRUE ELSE UNCHANGED files

Next ==
  \/ Only("api") /\ Api!Next
  \/ Only("access") /\ Access!Next
  \/ Only("media") /\ Media!Next
  \/ Only("analytics") /\ Figures!Next
  \/ Only("people") /\ People!Next
  \/ Only("portal") /\ Portal!Next
  \/ Only("inbox") /\ Messages!Next
  \/ Only("places") /\ Places!Next
  \/ Only("posts") /\ Posts!Next
  \/ Only("shooting") /\ Shooting!Next
  \/ Only("files") /\ Files!Next

Spec == Init /\ [][Next]_vars

\* The type invariants of the parts.
TypeOK ==
  /\ part = "api" => Api!TypeOK
  /\ part = "access" => Access!TypeOK
  /\ part = "media" => Media!TypeOK
  /\ part = "analytics" => Figures!TypeOK
  /\ part = "people" => People!TypeOK
  /\ part = "portal" => Portal!TypeOK
  /\ part = "inbox" => Messages!TypeOK
  /\ part = "places" => Places!TypeOK
  /\ part = "posts" => Posts!TypeOK
  /\ part = "shooting" => Shooting!TypeOK
  /\ part = "files" => Files!TypeOK

\* See AgentApi and AgentUploads: retries under one idempotency key create one
\* post and store one file, a replayed answer is the answer of the same
\* request, the daily limit is exceeded only by requests that overlap, and an
\* asset an agent is told of will be processed.
CreatesAreCounted ==
  /\ part = "api" => Api!OncePerKey /\ Api!ReplayIsTheOriginal /\ Api!QuotaOvershootIsBounded
  /\ part = "files" => Files!StoredOnce /\ Files!ToldIsProcessed

\* See MediaLibrary: one living asset per object, however it is finalized, and
\* an asset has its file until its deletion begins.
FilesAreKept == part = "media" => Media!OneAssetPerObject /\ Media!AssetKeepsItsFile

\* See Analytics and Inbox: gaps were out of reach, totals are of their day,
\* posts are synced within their interval; members are told once, and replies
\* recorded are real.
WhatIsShownIsTrue ==
  /\ part = "analytics" =>
       Figures!GapsAreExcused /\ Figures!TotalsAreOfTheirDay /\ Figures!PostsAreRefreshed
  /\ part = "inbox" => Messages!ToldOnce /\ Messages!RepliesAreReal

\* See ApiKeys, Members, MagicLinks and Workspaces: a revocation reaches every
\* worker within the TTL, access stands on a membership, an invitation and a
\* link let one person in once, and a workspace is left to work in.
AccessIsAccountedFor ==
  /\ part = "access" => Access!OutdatedKeyExpires
  /\ part = "people" =>
       People!AccessIsMembership /\ People!AdmitsOnce /\ People!EverybodyIsSomewhere
  /\ part = "portal" => Portal!LinksOpenOnce /\ Portal!LinksAreClients
  /\ part = "places" => Places!LastWorkspaceStays

\* See Dashboard and ShootingSessions: an account is posted to once, what waits
\* has the time the calendar shows, and a session ends after it begins.
DashboardIsTrue ==
  /\ part = "posts" =>
       Posts!PostedOnce /\ Posts!ChildrenMoveTogether /\ Posts!ScheduledHasTime
  /\ part = "shooting" => Shooting!EndsAfterItBegins

=============================================================================
