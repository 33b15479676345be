------------------------------- MODULE Feeds -------------------------------
(***************************************************************************)
(* The news feeds a workspace follows (apps/composer/views.py).  A worker  *)
(* fetches them one after another and keeps the events in its cache for a  *)
(* time, with the subscriptions they are of: another worker's cache is not *)
(* emptied when one is added or deleted, nor is one that a request already *)
(* at work fills later.                                                    *)
(***************************************************************************)
EXTENDS Naturals, FiniteSets, Sequences, FiniteSetsExt, Functions

CONSTANTS Workers, Urls, Requests, None,
          TTL,        \* ticks the events are kept, FEED_EVENTS_CACHE_TTL_SECONDS
          MaxEvents, MaxFeeds   \* bounds: entries published, subscriptions made

VARIABLES
  feed,      \* subscribed URLs -> the row's id
  made,      \* subscriptions made so far
  entry,     \* entries published so far: their URL and age, up to the TTL
  down,      \* URLs that cannot be fetched
  outage,    \* history: ticks since each URL was down, up to the TTL
  cache,     \* the events a worker keeps, and for how long
  request,   \* requests at work
  served     \* history: the events the last step served, and the feeds it read

vars == <<feed, made, entry, down, outage, cache, request, served>>

NoCache == [feeds |-> {}, events |-> {}, left |-> 0]
Idle == [at |-> "idle", worker |-> None, url |-> None, feeds |-> {}, left |-> {}, got |-> {}]
Rows == [url : Urls, id : 1..MaxFeeds]
Events == [url : Urls, id : 1..MaxFeeds, entry : 1..MaxEvents]
NotServed == [feeds |-> {}, events |-> {}]

TypeOK ==
  /\ DOMAIN feed \subseteq Urls /\ made \in 0..MaxFeeds /\ down \subseteq Urls
  /\ Len(entry) <= MaxEvents /\ Range(entry) \subseteq [url : Urls, age : 0..TTL]
  /\ \A w \in Workers : cache[w].events \subseteq Events /\ cache[w].feeds \subseteq Rows
  /\ \A r \in Requests : request[r].feeds \subseteq Rows /\ request[r].got \subseteq Events
  /\ \A w \in Workers : cache[w].left \in 0..TTL
  /\ outage \in [Urls -> 0..TTL] /\ served.events \subseteq Events

Init ==
  /\ feed = [u \in {} |-> 0] /\ made = 0 /\ entry = <<>> /\ down = {}
  /\ outage = [u \in Urls |-> TTL] /\ cache = [w \in Workers |-> NoCache]
  /\ request = [r \in Requests |-> Idle] /\ served = NotServed

Goes(r, at) == request' = [request EXCEPT ![r].at = at]
At(r, at) == request[r].at = at
Free(r) == r = CHOOSE q \in Requests : At(q, "idle")   \* requests are alike

-----------------------------------------------------------------------------
(* Subscriptions *)

\* feed_add: the URL is fetched once, and looked up; then the row is made, and
\* the cache of this worker is emptied.
BeginAdd(r, w, u) ==
  /\ At(r, "idle") /\ Free(r) /\ made < MaxFeeds /\ u \notin down \cup DOMAIN feed
  /\ request' = [request EXCEPT ![r] = [Idle EXCEPT !.at = "add", !.worker = w, !.url = u]]
  /\ UNCHANGED <<feed, made, entry, down, outage, cache>> /\ served' = NotServed

\* A row for the URL made meanwhile refuses this one.
Add(r) ==
  /\ At(r, "add")
  /\ IF request[r].url \in DOMAIN feed \/ made = MaxFeeds
     THEN request' = [request EXCEPT ![r] = Idle] /\ UNCHANGED <<feed, made>>
     ELSE /\ made' = made + 1 /\ Goes(r, "drop")
          /\ feed' = [u \in DOMAIN feed \cup {request[r].url} |->
                        IF u = request[r].url THEN made + 1 ELSE feed[u]]
  /\ UNCHANGED <<entry, down, outage, cache>> /\ served' = NotServed

Delete(r, w, u) ==
  /\ At(r, "idle") /\ Free(r) /\ u \in DOMAIN feed
  /\ feed' = [v \in DOMAIN feed \ {u} |-> feed[v]]
  /\ request' = [request EXCEPT ![r] = [Idle EXCEPT !.at = "drop", !.worker = w]]
  /\ UNCHANGED <<made, entry, down, outage, cache>> /\ served' = NotServed

DropCache(r) ==
  /\ At(r, "drop") /\ Goes(r, "show")
  /\ cache' = [cache EXCEPT ![request[r].worker] = NoCache]
  /\ UNCHANGED <<feed, made, entry, down, outage>> /\ served' = NotServed

-----------------------------------------------------------------------------
(* Showing the events *)

Show(r, w) ==
  /\ At(r, "idle") /\ Free(r)
  /\ request' = [request EXCEPT ![r] = [Idle EXCEPT !.at = "show", !.worker = w]]
  /\ UNCHANGED <<feed, made, entry, down, outage, cache>> /\ served' = NotServed

Subscribed == {[url |-> u, id |-> feed[u]] : u \in DOMAIN feed}

\* _get_cached_workspace_feed_events: what is kept is of these feeds.
Kept(w, feeds) == cache[w].left > 0 /\ cache[w].feeds = feeds

ReadFeeds(r) ==
  /\ At(r, "show")
  /\ request' = [request EXCEPT ![r].at = "look", ![r].feeds = Subscribed]
  /\ UNCHANGED <<feed, made, entry, down, outage, cache>> /\ served' = NotServed

Serve(r, events) ==
  /\ served' = [feeds |-> request[r].feeds, events |-> events]
  /\ request' = [request EXCEPT ![r] = Idle]

Look(r) ==
  /\ At(r, "look")
  /\ IF Kept(request[r].worker, request[r].feeds)
     THEN Serve(r, cache[request[r].worker].events)
     ELSE /\ request' = [request EXCEPT ![r].at = "fetch", ![r].left = request[r].feeds]
          /\ UNCHANGED served
  /\ UNCHANGED <<feed, made, entry, down, outage, cache>>

Entries(f) == {[url |-> f.url, id |-> f.id, entry |-> n] :
                 n \in {k \in DOMAIN entry : entry[k].url = f.url}}

\* _fetch_feed_events_for_workspace: a feed that cannot be fetched is left out.
Fetch(r) ==
  /\ At(r, "fetch")
  /\ \E f \in request[r].left :
       request' = [request EXCEPT ![r].left = @ \ {f},
                     ![r].got = @ \cup IF f.url \in down THEN {} ELSE Entries(f)]
  /\ UNCHANGED <<feed, made, entry, down, outage, cache>> /\ served' = NotServed

Keep(r) ==
  /\ At(r, "fetch") /\ request[r].left = {}
  /\ cache' = [cache EXCEPT ![request[r].worker] =
       [feeds |-> request[r].feeds, events |-> request[r].got, left |-> TTL]]
  /\ Serve(r, request[r].got)
  /\ UNCHANGED <<feed, made, entry, down, outage>>

-----------------------------------------------------------------------------
(* The sites, and time *)

Publish(u) ==
  /\ Len(entry) < MaxEvents /\ entry' = Append(entry, [url |-> u, age |-> 0])
  /\ UNCHANGED <<feed, made, down, outage, cache, request>> /\ served' = NotServed

Fail(u) ==
  /\ u \notin down /\ down' = down \cup {u} /\ outage' = [outage EXCEPT ![u] = 0]
  /\ UNCHANGED <<feed, made, entry, cache, request>> /\ served' = NotServed

Recover(u) ==
  /\ u \in down /\ down' = down \ {u}
  /\ UNCHANGED <<feed, made, entry, outage, cache, request>> /\ served' = NotServed

Older(w) == IF cache[w].left <= 1 THEN NoCache ELSE [cache[w] EXCEPT !.left = @ - 1]

\* A request takes less than a tick.
Tick ==
  /\ \A r \in Requests : At(r, "idle")
  /\ outage' = [u \in Urls |-> IF u \in down THEN 0 ELSE Min({outage[u] + 1, TTL})]
  /\ entry' = [n \in DOMAIN entry |-> [entry[n] EXCEPT !.age = Min({@ + 1, TTL})]]
  /\ cache' = [w \in Workers |-> Older(w)]
  /\ UNCHANGED <<feed, made, down, request>> /\ served' = NotServed

Next ==
  \/ \E r \in Requests :
       \/ Add(r) \/ DropCache(r) \/ ReadFeeds(r) \/ Look(r) \/ Fetch(r) \/ Keep(r)
       \/ \E w \in Workers : Show(r, w) \/ \E u \in Urls : BeginAdd(r, w, u) \/ Delete(r, w, u)
  \/ \E u \in Urls : Publish(u) \/ Fail(u) \/ Recover(u)
  \/ Tick

Spec == Init /\ [][Next]_vars

-----------------------------------------------------------------------------
\* The events served are of the feeds that were subscribed to when the request
\* read them, whichever worker kept them and whoever changed the subscriptions.
EventsAreSubscribed == {[url |-> e.url, id |-> e.id] : e \in served.events} \subseteq served.feeds

\* An entry is shown at the latest a TTL after it was published; a feed that was
\* down when it was fetched is missing for no longer than that.
EventsAreRecent ==
  \A f \in served.feeds : \A n \in DOMAIN entry :
    entry[n].url = f.url /\ entry[n].age = TTL /\ outage[f.url] = TTL =>
      [url |-> f.url, id |-> f.id, entry |-> n] \in served.events
=============================================================================
