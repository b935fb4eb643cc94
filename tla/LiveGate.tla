------------------------------ MODULE LiveGate ------------------------------
(***************************************************************************)
(* The live gate of server/workers/streamer-live.ts for one provider id     *)
(* whose channel may be renamed.  Several processes share its row; within   *)
(* one, lookups of the same name are shared.  A lookup revokes the row      *)
(* before it awaits the platform, and its answer may be older than what     *)
(* another lookup or a rename has put there since.                          *)
(*                                                                          *)
(* A tick is the window in which an observation counts as fresh (15 s).     *)
(* The half-hour schedule is left out: a poll may find the row due at any   *)
(* time.  "aired" is the world's: the recent ticks at which the channel was *)
(* live.  A gate that close() has stopped gives no permits: its process is  *)
(* as good as dead.                                                         *)
(***************************************************************************)
EXTENDS Integers, FiniteSets

CONSTANTS
  Procs,         \* processes sharing the database
  Names,         \* names the channel is watched under
  Fresh,         \* age in ticks beyond which an observation has expired
  MaxTime,       \* bound on the clock
  MaxRevision,   \* bound on the row's revision
  None           \* nothing

ASSUME LiveGateAssumption ==
  /\ Fresh \in Nat /\ MaxTime \in Nat /\ MaxRevision \in Nat
  /\ None \notin Procs \cup Names

VARIABLES
  now,       \* the clock
  aired,     \* ticks at which the channel was live
  row,       \* worker_streamer_live
  lookup     \* pending: the lookup of each process and name

world == <<now, aired>>
gate == <<row, lookup>>

Times == 0 .. MaxTime

\* "token" is the revision at which the request that holds the row drew it.
Row == [name : Names \cup {None}, status : {"unknown", "offline", "live"},
        at : Times \cup {None}, token : Nat \cup {None}, rev : Nat]
Lookup == [started : Times, token : Nat]

NoRow == [name |-> None, status |-> "unknown", at |-> None, token |-> None, rev |-> 0]

GateTypeOK ==
  /\ now \in Times /\ aired \subseteq Times
  /\ row \in Row
  /\ \A p \in Procs, n \in Names : lookup[p][n] = None \/ lookup[p][n] \in Lookup

GateInit ==
  /\ now = 0
  /\ aired \in {{}, {0}}
  /\ row = NoRow
  /\ lookup = [p \in Procs |-> [n \in Names |-> None]]

-----------------------------------------------------------------------------
\* watch(): a new name revokes what was known and supersedes a request.
Watched(n) ==
  IF row = NoRow THEN [NoRow EXCEPT !.name = n]
  ELSE IF row.name = n THEN row
  ELSE [name |-> n, status |-> "unknown", at |-> None, token |-> None,
        rev |-> row.rev + 1]

Rename(p, n) ==
  /\ row.name # n /\ row.rev < MaxRevision
  /\ row' = Watched(n)
  /\ UNCHANGED lookup

\* The first statement of perform().
Revoked(r) ==
  [r EXCEPT !.status = "unknown", !.at = None, !.token = r.rev + 1, !.rev = r.rev + 1]

\* check(), to its await: join the lookup under way, or start one.
Check(p, n) ==
  /\ row.rev + 2 <= MaxRevision
  /\ IF lookup[p][n] # None
     THEN row' = Watched(n) /\ UNCHANGED lookup
     ELSE LET r == Revoked(Watched(n)) IN
          /\ row' = r
          /\ lookup' = [lookup EXCEPT ![p][n] = [started |-> now, token |-> r.token]]

\* An observation of the channel at t is believed: not older than the request,
\* not in the future, not expired on arrival.
Verified(l, t) == /\ t # None
                  /\ l.started <= t /\ t <= now /\ now - t <= Fresh

\* The WHERE of the last UPDATE of perform().
Current(p, n) ==
  /\ row.name = n
  /\ row.token = lookup[p][n].token /\ row.rev = lookup[p][n].token

Found(l, t) ==
  IF Verified(l, t) THEN IF t \in aired THEN "live" ELSE "offline" ELSE "unknown"

\* What the promise resolves to.
Answer(p, n, t) == IF Current(p, n) THEN Found(lookup[p][n], t) ELSE "unknown"

\* perform(), from its await: the platform tells what it saw at t, or (None)
\* fails, or names another channel.
Answered(p, n, t) ==
  /\ lookup[p][n] # None
  /\ LET s == Found(lookup[p][n], t) IN
     row' = IF Current(p, n)
            THEN [row EXCEPT !.status = s, !.at = IF s = "unknown" THEN None ELSE t,
                             !.token = None, !.rev = @ + 1]
            ELSE row
  /\ lookup' = [lookup EXCEPT ![p][n] = None]

\* assertFreshLive(), which every permit repeats synchronously.
FreshLive(n) ==
  /\ row.name = n /\ row.status = "live" /\ row.token = None
  /\ row.at <= now /\ now - row.at <= Fresh

\* pollDue() finds the row due.
Poll(p) == row.name # None /\ Check(p, row.name)

\* The death of a process: its promises are gone, the row stays.
Restarted(p) ==
  /\ lookup' = [lookup EXCEPT ![p] = [n \in Names |-> None]]
  /\ UNCHANGED row

Tick ==
  /\ now < MaxTime /\ now' = now + 1
  /\ LET recent == {t \in aired : now + 1 - t <= Fresh} IN
     aired' \in {recent, recent \cup {now + 1}}
=============================================================================
