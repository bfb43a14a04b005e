----------------------------- MODULE GrantCache -----------------------------
(***************************************************************************)
(* The in-memory cache of one person's grants (src/src/backend/authz/      *)
(* cache.ts) and the permission version that keys it (bumpVersion in       *)
(* features/org/service.ts), while administrators change permissions and   *)
(* requests ask for decisions.                                             *)
(*                                                                         *)
(* What a person may do is abstracted to how many changes went into it:    *)
(* reading the grants when n changes are committed gives n.                *)
(***************************************************************************)
EXTENDS Naturals

CONSTANTS
  Writers,     \* requests that change nodes, edges or grants, one after another
  Readers,     \* requests that need a decision, one after another
  TTL,         \* TTL_MS, in ticks
  MaxTime,     \* the clock stops here
  MaxChanges,  \* bound on the permission changes
  NoEntry

ASSUME GrantCacheAssumption ==
  /\ Writers \cap Readers = {}
  /\ TTL \in Nat \ {0}
  /\ MaxTime \in Nat
  /\ MaxChanges \in Nat
  /\ NoEntry \notin Nat

VARIABLES
  changes,  \* the permission changes committed so far
  version,  \* settings.authzVersion, as committed
  base,     \* Writers -> the version bumpVersion read
  cache,    \* versions -> the entry under that key: grants, expiresAt; or NoEntry
  now,      \* the clock
  asked,    \* Readers -> the version the tenant resolver read
  since,    \* Readers -> the changes committed when the request arrived
  got,      \* Readers -> the grants the decision is made from
  step      \* Writers \cup Readers -> the next step

cacheVars == <<changes, version, base, cache, now, asked, since, got, step>>
writerVars == <<changes, version, base>>
readerVars == <<asked, since, got>>

Keys == 0..MaxChanges

CacheTypeOK ==
  /\ changes \in Keys
  /\ version \in Keys
  /\ base \in [Writers -> Keys]
  /\ cache \in [Keys -> [grants : Keys, expiresAt : 0..(MaxTime + TTL)] \cup {NoEntry}]
  /\ now \in 0..MaxTime
  /\ asked \in [Readers -> Keys]
  /\ since \in [Readers -> Keys]
  /\ got \in [Readers -> Keys]
  /\ step \in [Writers \cup Readers ->
              {"idle", "bumping", "clearing", "resolved", "missed", "collected", "decided"}]

CacheInit ==
  /\ changes = 0
  /\ version = 0
  /\ base = [w \in Writers |-> 0]
  /\ cache = [k \in Keys |-> NoEntry]
  /\ now = 0
  /\ asked = [r \in Readers |-> 0]
  /\ since = [r \in Readers |-> 0]
  /\ got = [r \in Readers |-> 0]
  /\ step = [p \in Writers \cup Readers |-> "idle"]

Goto(p, at) == step' = [step EXCEPT ![p] = at]

-----------------------------------------------------------------------------
(* A permission change: its statements, bumpVersion's SELECT, then the     *)
(* UPDATE of the organisation row and the commit, one transaction.         *)

BumpRead(w) ==
  /\ step[w] = "idle"
  /\ base' = [base EXCEPT ![w] = version]
  /\ Goto(w, "bumping")
  /\ UNCHANGED <<changes, version, cache, now, readerVars>>

\* Mutant: the change is committed and the version stays.
BumpCommitForgotten(w, after) ==
  /\ step[w] = "bumping" /\ changes < MaxChanges
  /\ changes' = changes + 1
  /\ version' = base[w]
  /\ Goto(w, after)
  /\ UNCHANGED <<base, cache, now, readerVars>>

\* The row lock is taken by the UPDATE and released by the commit at once, so
\* it orders two commits and protects neither from the other's stale read.
\* Changes to roles, grants and people go on to clear the cache; changes to
\* units do not.
BumpCommit(w, after) ==
  /\ step[w] = "bumping" /\ changes < MaxChanges
  /\ changes' = changes + 1
  /\ version' = base[w] + 1
  /\ Goto(w, after)
  /\ UNCHANGED <<base, cache, now, readerVars>>

\* The handler fails and its transaction leaves nothing.
BumpRollback(w) ==
  /\ step[w] = "bumping"
  /\ Goto(w, "idle")
  /\ UNCHANGED <<writerVars, cache, now, readerVars>>

clearGrantCache(w) ==
  /\ step[w] = "clearing"
  /\ cache' = [k \in Keys |-> NoEntry]
  /\ Goto(w, "idle")
  /\ UNCHANGED <<writerVars, now, readerVars>>

-----------------------------------------------------------------------------
(* A request: the tenant resolver, then run() in resolve.ts.               *)

ResolveTenant(r) ==
  /\ step[r] = "idle"
  /\ asked' = [asked EXCEPT ![r] = version]
  /\ since' = [since EXCEPT ![r] = changes]
  /\ Goto(r, "resolved")
  /\ UNCHANGED <<writerVars, cache, now, got>>

Fresh(k) == cache[k] # NoEntry /\ cache[k].expiresAt > now

\* An expired entry is deleted by the read that finds it.
getCachedGrants(r) ==
  /\ step[r] = "resolved"
  /\ IF Fresh(asked[r])
       THEN /\ got' = [got EXCEPT ![r] = cache[asked[r]].grants]
            /\ Goto(r, "decided")
            /\ UNCHANGED cache
       ELSE /\ cache' = [cache EXCEPT ![asked[r]] = NoEntry]
            /\ Goto(r, "missed")
            /\ UNCHANGED got
  /\ UNCHANGED <<writerVars, now, asked, since>>

collectGrants(r) ==
  /\ step[r] = "missed"
  /\ got' = [got EXCEPT ![r] = changes]
  /\ Goto(r, "collected")
  /\ UNCHANGED <<writerVars, cache, now, asked, since>>

\* Files them under the version the request arrived with.
setCachedGrants(r) ==
  /\ step[r] = "collected"
  /\ cache' = [cache EXCEPT ![asked[r]] = [grants |-> got[r], expiresAt |-> now + TTL]]
  /\ Goto(r, "decided")
  /\ UNCHANGED <<writerVars, now, readerVars>>

Answer(r) ==
  /\ step[r] = "decided"
  /\ Goto(r, "idle")
  /\ UNCHANGED <<writerVars, cache, now, readerVars>>

-----------------------------------------------------------------------------
Tick ==
  /\ now < MaxTime
  /\ now' = now + 1
  /\ UNCHANGED <<writerVars, cache, readerVars, step>>

\* A deployment or a restart empties the process's memory; requests in flight are lost.
Restart ==
  /\ cache' = [k \in Keys |-> NoEntry]
  /\ step' = [p \in Writers \cup Readers |-> "idle"]
  /\ UNCHANGED <<writerVars, now, readerVars>>

WriterStep(w) ==
  \/ BumpRead(w)
  \/ \E after \in {"idle", "clearing"} : BumpCommit(w, after)
  \/ BumpRollback(w)
  \/ clearGrantCache(w)

ReaderStep(r) ==
  \/ ResolveTenant(r) \/ getCachedGrants(r) \/ collectGrants(r) \/ setCachedGrants(r) \/ Answer(r)

CacheNext ==
  \/ \E w \in Writers : WriterStep(w)
  \/ \E r \in Readers : ReaderStep(r)
  \/ Tick
  \/ Restart

CacheSpec == CacheInit /\ [][CacheNext]_cacheVars

-----------------------------------------------------------------------------
(* Properties.                                                             *)

\* A permission that was taken away before a request arrived is not used to
\* decide it: every decision is made from grants at least as new as the changes
\* committed when the request arrived, whoever filled the cache and whenever
\* ("any permission change drops the old entries at once", cache.ts).
DecisionsAreFresh == \A r \in Readers : step[r] = "decided" => got[r] >= since[r]

\* A key stands for one set of permissions only: while a version is current,
\* what is filed under it is what the database says, so no reader that was
\* overtaken by a change can leave the older grants where the next one looks.
CurrentKeyIsCurrent ==
  cache[version] # NoEntry => cache[version].grants = changes
=============================================================================
