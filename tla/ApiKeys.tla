------------------------------ MODULE ApiKeys -------------------------------
(***************************************************************************)
(* One ApiKey and what the web workers know of it                           *)
(* (apps/api_keys/services.py).  verify_token answers from a cache of the   *)
(* row: Redis, one for all workers, or the memory of each process.  A       *)
(* worker that misses reads the row and then stores it, so an edit or a     *)
(* revocation can come in between; an edit also clears the cache before its *)
(* transaction commits.                                                     *)
(***************************************************************************)
EXTENDS Naturals

CONSTANTS
  Workers,   \* web workers
  MaxEdits,  \* bound: changes of the row
  TTL        \* REVOCATION_CACHE_TTL, in ticks

NoEntry == [version |-> 0, active |-> FALSE, left |-> 0]

VARIABLES
  key,        \* the row: a version for its scope, and is_active
  superseded, \* history: ticks since a version stopped being the row's
  issuer,     \* the issuer is a member of the key's workspace
  home,       \* the worker whose cache a worker uses
  cache,      \* the cached row of each cache, and its remaining ticks
  verifying,  \* where a worker's verify_token is
  copy,       \* the row it works with
  editing,    \* an edit cleared the cache and has not committed
  revoking    \* a revocation committed and has not cleared the cache

vars == <<key, superseded, issuer, home, cache, verifying, copy, editing, revoking>>
verifyVars == <<verifying, copy>>
writerVars == <<editing, revoking>>

Versions == 0..MaxEdits
Row == [version: Versions, active: BOOLEAN]

TypeOK ==
  /\ key \in Row
  /\ superseded \in [Versions -> 0..TTL + 1]
  /\ issuer \in BOOLEAN
  /\ home \in [Workers -> Workers]
  /\ cache \in [Workers -> [version: Versions, active: BOOLEAN, left: 0..TTL]]
  /\ verifying \in [Workers -> {"idle", "read", "found", "admitted"}]
  /\ copy \in [Workers -> Row]
  /\ editing \in BOOLEAN /\ revoking \in BOOLEAN

Init ==
  /\ key = [version |-> 0, active |-> TRUE]
  /\ superseded = [v \in Versions |-> 0]
  /\ issuer = TRUE
  /\ home \in {[w \in Workers |-> w]} \cup {[w \in Workers |-> c] : c \in Workers}
  /\ cache = [w \in Workers |-> NoEntry]
  /\ verifying = [w \in Workers |-> "idle"]
  /\ copy = [w \in Workers |-> key]
  /\ editing = FALSE /\ revoking = FALSE

-----------------------------------------------------------------------------
(* verify_token *)

Cached(w) == cache[home[w]]
Entry(r) == [version |-> r.version, active |-> r.active, left |-> TTL]

\* The cached row, or the database's; an inactive key is refused.
Look(w) ==
  /\ verifying[w] = "idle"
  /\ IF Cached(w).left > 0
     THEN /\ copy' = [copy EXCEPT ![w] = [version |-> Cached(w).version, active |-> TRUE]]
          /\ verifying' = [verifying EXCEPT ![w] = "found"]
     ELSE /\ copy' = [copy EXCEPT ![w] = key]
          /\ verifying' = [verifying EXCEPT ![w] = IF key.active THEN "read" ELSE "idle"]
  /\ UNCHANGED <<key, superseded, issuer, home, cache, writerVars>>

\* cache.set of the row read.
Store(w) ==
  /\ verifying[w] = "read"
  /\ cache' = [cache EXCEPT ![home[w]] = Entry(copy[w])]
  /\ verifying' = [verifying EXCEPT ![w] = "found"]
  /\ UNCHANGED <<key, superseded, issuer, home, copy, writerVars>>

\* _issuer_still_authorized asks the database on every request.
Admit(w) ==
  /\ verifying[w] = "found"
  /\ IF issuer
     THEN verifying' = [verifying EXCEPT ![w] = "admitted"] /\ UNCHANGED cache
     ELSE /\ verifying' = [verifying EXCEPT ![w] = "idle"]
          /\ cache' = [cache EXCEPT ![home[w]] = NoEntry]
  /\ UNCHANGED <<key, superseded, issuer, home, copy, writerVars>>

\* The request ends.
Serve(w) ==
  /\ verifying[w] = "admitted"
  /\ verifying' = [verifying EXCEPT ![w] = "idle"]
  /\ UNCHANGED <<key, superseded, issuer, home, cache, copy, writerVars>>

-----------------------------------------------------------------------------
(* Changes of the key *)

\* update_api_key saves inside a transaction: the signals clear the cache of
\* the worker that runs it, while others still read the old row.
Save(w) ==
  /\ key.active /\ ~editing /\ key.version < MaxEdits
  /\ cache' = [cache EXCEPT ![home[w]] = NoEntry]
  /\ editing' = TRUE
  /\ UNCHANGED <<key, superseded, issuer, home, verifyVars, revoking>>

\* The transaction commits.  The columns saved leave revoked_at alone.
Commit ==
  /\ editing /\ key.version < MaxEdits
  /\ key' = [key EXCEPT !.version = @ + 1]
  /\ editing' = FALSE
  /\ UNCHANGED <<superseded, issuer, home, cache, verifyVars, revoking>>

\* revoke_api_key saves revoked_at ...
Revoke ==
  /\ key.active /\ key.version < MaxEdits
  /\ key' = [version |-> key.version + 1, active |-> FALSE]
  /\ revoking' = TRUE
  /\ UNCHANGED <<superseded, issuer, home, cache, verifyVars, editing>>

\* ... and clears the cache.
Invalidate(w) ==
  /\ revoking
  /\ cache' = [cache EXCEPT ![home[w]] = NoEntry]
  /\ revoking' = FALSE
  /\ UNCHANGED <<key, superseded, issuer, home, verifyVars, editing>>

\* The issuer leaves the workspace or is deleted.
LoseIssuer ==
  /\ issuer
  /\ issuer' = FALSE
  /\ UNCHANGED <<key, superseded, home, cache, verifyVars, writerVars>>

\* Time passes; no request and no transaction lasts a tick.
Tick ==
  /\ \A w \in Workers : verifying[w] = "idle"
  /\ ~editing /\ ~revoking
  /\ cache' = [w \in Workers |-> IF cache[w].left <= 1 THEN NoEntry
                                  ELSE [cache[w] EXCEPT !.left = @ - 1]]
  /\ superseded' = [v \in Versions |->
                     IF v < key.version /\ superseded[v] <= TTL THEN superseded[v] + 1
                     ELSE superseded[v]]
  /\ UNCHANGED <<key, issuer, home, verifyVars, writerVars>>

Next ==
  \/ \E w \in Workers :
       Look(w) \/ Store(w) \/ Admit(w) \/ Serve(w) \/ Save(w) \/ Invalidate(w)
  \/ Commit \/ Revoke \/ LoseIssuer \/ Tick

Spec == Init /\ [][Next]_vars

-----------------------------------------------------------------------------
\* services.py, revoke_api_key: a change of a key, its revocation above all,
\* reaches every worker within the TTL.  A request is admitted on an outdated
\* row only while the change is younger than that, although rows are stored
\* after they were read and no worker clears another's cache.
OutdatedKeyExpires ==
  \A w \in Workers :
    (verifying[w] = "admitted" /\ copy[w].version # key.version) =>
      superseded[copy[w].version] < TTL
=============================================================================
