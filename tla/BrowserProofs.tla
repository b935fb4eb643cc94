---------------------------- MODULE BrowserProofs ----------------------------
(***************************************************************************)
(* What holds of BrowserRunner for every number of jobs, accounts,          *)
(* processes, names and faults, and for any time: one browser context       *)
(* serves one purchase, a purchase is clicked and settled once, and every   *)
(* click rests on a fresh answer of the live gate.                          *)
(***************************************************************************)
EXTENDS BrowserRunner, TLAPS

-----------------------------------------------------------------------------
\* The invariant.

Run == [pc : RunPC, job : Jobs \cup {None}, a : Attempts, of : {None}]
Rec == [pc : RecPC, job : Jobs \cup {None}, a : Attempts, of : Jobs \cup {None}]

GateTypes ==
  /\ now \in Times /\ aired \subseteq Times
  /\ row \in Row
  /\ lookup \in [Procs -> [Names -> Lookup \cup {None}]]

Types ==
  /\ attempt \in [Jobs -> Attempts]
  /\ lock \in [Contexts -> Jobs \cup {None}]
  /\ evidence \in [Jobs -> Jobs \cup {None}]
  /\ run \in [Procs -> Run]
  /\ rec \in [Procs -> Rec]
  /\ attached \in [Procs -> SUBSET Jobs]
  /\ session \in [Jobs -> {"none", "running", "ended"}]
  /\ page \in [Jobs -> Pages]
  /\ clicks \in [Jobs -> Nat]
  /\ charge \in [Jobs -> Charges \cup {None}]

\* Every lookup drew a revision of its own, and a row that says "live" was
\* written after all that are still under way, from what was really seen.
GateInv ==
  /\ \A p, q \in Procs, n, m \in Names :
       /\ lookup[p][n] # None => lookup[p][n].token <= row.rev
       /\ lookup[p][n] # None /\ lookup[q][m] # None /\ <<p, n>> # <<q, m>> =>
            lookup[p][n].token # lookup[q][m].token
       /\ lookup[p][n] # None /\ row.status = "live" => lookup[p][n].token < row.rev - 1
  /\ row.status = "live" => /\ row.at \in Times
                            /\ now - row.at <= Fresh => row.at \in aired

\* An attempt that has a quote keeps one within its budget.
Affordable(a) ==
  a.phase \in {"prepared", "submitting", "observed", "settled"} =>
    a.quote \in Quotes /\ a.quote.total <= MaxSpend

Rows ==
  \A j \in Jobs :
    /\ Affordable(attempt[j])
    /\ attempt[j].phase \notin {"none", "settled"} => lock[ContextOf[j]] = j
    /\ session[j] # "none" => attempt[j].phase # "none"
    /\ attempt[j].phase = "settled" => /\ session[j] = "ended"
                                       /\ evidence[j] \in Jobs /\ charge[evidence[j]] # None
    /\ clicks[j] = 0 => charge[j] = None

\* The phase the attempt had when the runner last saved it.
SavedAt(pc) ==
  IF pc \in {"creating", "attaching", "preparing"} THEN "provisioning"
  ELSE IF pc \in {"live", "reviewing"} THEN "prepared"
  ELSE "submitting"

\* A runner has not clicked before it clicks, whatever reconcile() does to its
\* attempt meanwhile.
GoodRun(r) ==
  /\ r.job \in Jobs
  /\ attempt[r.job].phase # "none"
  /\ r.a.phase = SavedAt(r.pc) /\ Affordable(r.a)
  /\ r.pc # "waiting" => clicks[r.job] = 0
  /\ r.pc = "clicking" => attempt[r.job].phase \in {"submitting", "settled"}

\* An attempt has one runner, ever.
Runners ==
  /\ \A p \in Procs : run[p].pc # "idle" => GoodRun(run[p])
  /\ \A p, q \in Procs :
       p # q /\ run[p].pc # "idle" /\ run[q].pc # "idle" => run[p].job # run[q].job

\* What a reconciliation holds is an unsettled attempt, and a charge that fits.
GoodRec(r) ==
  /\ r.job \in Jobs
  /\ r.a.phase \notin {"none", "settled"} /\ Affordable(r.a)
  /\ r.pc # "finding" => r.a.phase \in {"submitting", "observed"}
  /\ r.pc \in {"getting", "releasing"} =>
       /\ r.of \in Jobs /\ charge[r.of] # None
       /\ charge[r.of].amount = r.a.quote.total

Recs == \A p \in Procs : rec[p].pc # "idle" => GoodRec(rec[p])

Core == Rows /\ ClickedOnce /\ SettledExactly

IInv ==
  /\ GateTypes /\ Types /\ GateInv
  /\ Core /\ Runners /\ Recs

-----------------------------------------------------------------------------
\* The gate.

LEMMA WatchedRow ==
  ASSUME GateTypes, NEW n \in Names
  PROVE  LET r == Watched(n) IN
         /\ r \in Row /\ r.name = n /\ row.rev <= r.rev
         /\ r.status = "live" => r = row
<1>1. row \in Row /\ NoRow \in Row /\ NoRow.status = "unknown" /\ NoRow.rev = 0
  BY LiveGateAssumption DEF GateTypes, NoRow, Row, Times
<1>2. CASE row = NoRow
  <2>1. /\ Watched(n) = [NoRow EXCEPT !.name = n]
    BY <1>2 DEF Watched
  <2>2. /\ [NoRow EXCEPT !.name = n] \in Row /\ [NoRow EXCEPT !.name = n].rev = 0
        /\ [NoRow EXCEPT !.name = n].name = n
        /\ [NoRow EXCEPT !.name = n].status = "unknown"
    BY <1>1 DEF Row
  <2>3. QED
    BY <1>1, <1>2, <2>1, <2>2
<1>3. CASE row # NoRow /\ row.name = n
  BY <1>1, <1>3 DEF Watched, Row
<1>4. CASE row # NoRow /\ row.name # n
  BY <1>1, <1>4 DEF Watched, Row
<1>5. QED
  BY <1>2, <1>3, <1>4

\* A row that is no longer live and whose revision did not fall keeps the facts.
LEMMA RowMoved ==
  ASSUME GateTypes, GateInv, row' \in Row, row.rev <= row'.rev,
         row'.status = "live" => row' = row,
         UNCHANGED <<lookup, world>>
  PROVE  GateTypes' /\ GateInv'
<1>1. \A p \in Procs, n \in Names : lookup[p][n] # None => lookup[p][n].token \in Nat
  BY DEF GateTypes, Lookup
<1>2. GateTypes'
  BY DEF GateTypes, world
<1>3. row.rev \in Nat /\ row'.rev \in Nat
  BY DEF GateTypes, Row
<1>4. GateInv'
  BY <1>1, <1>3 DEF GateInv, world
<1>5. QED
  BY <1>2, <1>4

LEMMA CheckKeeps ==
  ASSUME GateTypes, GateInv, NEW p \in Procs, NEW n \in Names, Check(p, n), UNCHANGED world
  PROVE  GateTypes' /\ GateInv'
<1>1. PICK r : r = Watched(n)
  OBVIOUS
<1>2. r \in Row /\ r.name = n /\ row.rev <= r.rev /\ (r.status = "live" => r = row)
  BY <1>1, WatchedRow
<1>3. CASE lookup[p][n] # None
  BY <1>1, <1>2, <1>3, RowMoved DEF Check
<1>4. CASE lookup[p][n] = None
  <2> DEFINE l == [started |-> now, token |-> r.rev + 1]
  <2>1. /\ row' = Revoked(r)
        /\ row' \in Row /\ row'.status = "unknown" /\ row'.rev = r.rev + 1
    <3>1. row' = Revoked(r)
      BY <1>1, <1>4 DEF Check
    <3>2. r.rev \in Nat /\ r.rev + 1 \in Nat
      BY <1>2 DEF Row
    <3>3. Revoked(r) \in Row /\ Revoked(r).status = "unknown" /\ Revoked(r).rev = r.rev + 1
      BY <1>2, <3>2 DEF Revoked, Row
    <3>4. QED
      BY <3>1, <3>3
  <2>2. lookup' = [lookup EXCEPT ![p][n] = l]
    <3>1. Revoked(Watched(n)).token = r.rev + 1
      BY <1>1, <1>2 DEF Revoked, Row
    <3>2. QED
      BY <1>4, <3>1 DEF Check
  <2>3. l \in Lookup /\ l.token = r.rev + 1 /\ row.rev \in Nat /\ r.rev \in Nat
    BY <1>2 DEF Lookup, GateTypes, Row
  <2> HIDE DEF l
  <2>4. /\ lookup' \in [Procs -> [Names -> Lookup \cup {None}]]
        /\ lookup'[p][n] = l
        /\ \A q \in Procs, m \in Names :
             <<q, m>> # <<p, n>> => lookup'[q][m] = lookup[q][m]
    BY <2>2, <2>3 DEF GateTypes
  <2>5. \A q \in Procs, m \in Names : lookup[q][m] # None => lookup[q][m].token \in Nat
    BY DEF GateTypes, Lookup
  <2>6. GateTypes'
    BY <2>1, <2>4 DEF GateTypes, world
  <2>7. ASSUME NEW q \in Procs, NEW m \in Names, lookup'[q][m] # None
        PROVE  lookup'[q][m].token <= row'.rev
    BY <1>2, <2>1, <2>3, <2>4, <2>5, <2>7 DEF GateInv
  <2>8. ASSUME NEW q \in Procs, NEW m \in Names, <<q, m>> # <<p, n>>, lookup'[q][m] # None
        PROVE  lookup'[q][m].token < l.token
    BY <1>2, <2>3, <2>4, <2>5, <2>8 DEF GateInv
  <2>9. ASSUME NEW q \in Procs, NEW m \in Names, NEW v \in Procs, NEW k \in Names,
               lookup'[q][m] # None, lookup'[v][k] # None, <<q, m>> # <<v, k>>
        PROVE  lookup'[q][m].token # lookup'[v][k].token
    <3>1. CASE <<q, m>> = <<p, n>>
      BY <2>3, <2>4, <2>5, <2>8, <2>9, <3>1
    <3>2. CASE <<v, k>> = <<p, n>>
      BY <2>3, <2>4, <2>5, <2>8, <2>9, <3>2
    <3>3. CASE <<q, m>> # <<p, n>> /\ <<v, k>> # <<p, n>>
      BY <2>4, <2>9, <3>3 DEF GateInv
    <3>4. QED
      BY <3>1, <3>2, <3>3
  <2>10. GateInv'
    BY <2>1, <2>7, <2>9 DEF GateInv
  <2>11. QED
    BY <2>6, <2>10
<1>5. QED
  BY <1>3, <1>4

LEMMA AnsweredKeeps ==
  ASSUME GateTypes, GateInv, NEW p \in Procs, NEW n \in Names, NEW t \in Times \cup {None},
         Answered(p, n, t), UNCHANGED world
  PROVE  GateTypes' /\ GateInv'
<1> DEFINE l == lookup[p][n]
           s == Found(l, t)
<1>1. l \in Lookup /\ l.token \in Nat /\ row \in Row /\ row.rev \in Nat /\ l # None
  BY DEF Answered, GateTypes, Lookup, Row
<1>2. /\ lookup' \in [Procs -> [Names -> Lookup \cup {None}]]
      /\ lookup'[p][n] = None
      /\ \A q \in Procs, m \in Names :
           <<q, m>> # <<p, n>> => lookup'[q][m] = lookup[q][m]
  BY DEF Answered, GateTypes
<1>3. \A q \in Procs, m \in Names : lookup[q][m] # None => lookup[q][m].token \in Nat
  BY DEF GateTypes, Lookup
<1>4. CASE ~Current(p, n)
  <2>1. row' = row
    BY <1>4 DEF Answered
  <2>2. GateTypes'
    BY <1>2, <2>1 DEF GateTypes, world
  <2>3. GateInv'
    BY <1>2, <2>1 DEF GateInv, world
  <2>4. QED
    BY <2>2, <2>3
<1>5. CASE Current(p, n)
  <2>1. row' = [row EXCEPT !.status = s, !.at = IF s = "unknown" THEN None ELSE t,
                           !.token = None, !.rev = @ + 1]
    BY <1>5 DEF Answered
  <2>2. /\ s \in {"unknown", "offline", "live"}
        /\ s # "unknown" => t \in Times
        /\ s = "live" => t \in aired
    BY DEF Found, Verified
  <2>3. row.rev = l.token
    BY <1>5 DEF Current
  <2> HIDE DEF l, s
  <2>4. /\ row' \in Row /\ row'.rev = row.rev + 1 /\ row'.status = s
        /\ row'.status = "live" => row'.at \in Times /\ row'.at \in aired
    <3>1. PICK at \in Times \cup {None} :
            /\ row' = [row EXCEPT !.status = s, !.at = at, !.token = None, !.rev = @ + 1]
            /\ s = "live" => at = t
      BY <2>1, <2>2
    <3>2. row.rev + 1 \in Nat
      BY <1>1
    <3>3. QED
      BY <1>1, <2>2, <3>1, <3>2 DEF Row
  <2>5. GateTypes'
    BY <1>2, <2>4 DEF GateTypes, world
  <2>6. ASSUME NEW q \in Procs, NEW m \in Names, lookup'[q][m] # None
        PROVE  lookup'[q][m].token < row'.rev - 1
    <3>1. <<q, m>> # <<p, n>> /\ lookup'[q][m] = lookup[q][m]
      BY <1>2, <2>6
    <3>2. lookup[q][m].token <= row.rev /\ lookup[q][m].token # l.token
      BY <1>1, <2>6, <3>1 DEF GateInv, l
    <3>3. QED
      BY <1>1, <1>3, <2>3, <2>4, <2>6, <3>1, <3>2
  <2>7. \A q \in Procs, m \in Names : lookup'[q][m] # None => lookup'[q][m].token \in Nat
    BY <1>2 DEF Lookup
  <2>8. GateInv'
    BY <1>1, <1>2, <2>4, <2>6, <2>7 DEF GateInv, world
  <2>9. QED
    BY <2>5, <2>8
<1>6. QED
  BY <1>4, <1>5

LEMMA RestartKeeps ==
  ASSUME GateTypes, GateInv, NEW p \in Procs, Restarted(p), UNCHANGED world
  PROVE  GateTypes' /\ GateInv'
<1>1. /\ lookup' \in [Procs -> [Names -> Lookup \cup {None}]] /\ row' = row
      /\ \A q \in Procs, m \in Names : lookup'[q][m] # None => lookup'[q][m] = lookup[q][m]
  BY DEF Restarted, GateTypes
<1>2. GateTypes'
  BY <1>1 DEF GateTypes, world
<1>3. GateInv'
  BY <1>1 DEF GateInv, world
<1>4. QED
  BY <1>2, <1>3

LEMMA TickKeeps ==
  ASSUME GateTypes, GateInv, Tick, UNCHANGED gate
  PROVE  GateTypes' /\ GateInv'
<1>1. now' = now + 1 /\ now' \in Times /\ now \in Nat
  BY LiveGateAssumption DEF Tick, GateTypes, Times
<1>2. /\ aired' \subseteq Times
      /\ \A t \in aired : now' - t <= Fresh => t \in aired'
  BY <1>1 DEF Tick, GateTypes
<1>3. GateTypes'
  BY <1>1, <1>2 DEF GateTypes, gate
<1>4. row.status = "live" /\ now' - row.at <= Fresh => row.at \in aired'
  <2>1. SUFFICES ASSUME row.status = "live", now' - row.at <= Fresh PROVE row.at \in aired'
    OBVIOUS
  <2>2. row.at \in Nat /\ Fresh \in Nat
    BY <2>1, LiveGateAssumption DEF GateInv, Times
  <2>3. row.at \in aired
    BY <1>1, <2>1, <2>2 DEF GateInv
  <2>4. QED
    BY <1>2, <2>1, <2>3
<1>5. GateInv'
  BY <1>4 DEF GateInv, gate
<1>6. QED
  BY <1>3, <1>5

-----------------------------------------------------------------------------
\* The tables, and who runs what.

LEMMA ContextIn ==
  ASSUME NEW j \in Jobs
  PROVE  ContextOf[j] \in Contexts
BY DEF Contexts

LEMMA InitIInv == Init => IInv
<1> SUFFICES ASSUME Init PROVE IInv
  OBVIOUS
<1> USE DEF Init
<1>1. NoAttempt \in Attempts /\ NoAttempt.phase = "none"
  BY DEF NoAttempt, Attempts, Phases
<1>2. Idle \in Run /\ Idle \in Rec /\ Idle.pc = "idle"
  BY <1>1 DEF Idle, Run, Rec, RunPC, RecPC
<1>3. GateTypes
  <2>1. NoRow \in Row
    BY DEF NoRow, Row
  <2>2. 0 \in Times
    BY LiveGateAssumption DEF Times
  <2>3. QED
    BY <2>1, <2>2 DEF GateInit, GateTypes
<1>4. GateInv
  BY DEF GateInit, GateInv, NoRow
<1>5. Types
  <2>1. page \in [Jobs -> Pages]
    BY DEF Pages
  <2>2. QED
    BY <1>1, <1>2, <2>1 DEF Types
<1>6. Core
  BY <1>1 DEF Core, Rows, ClickedOnce, SettledExactly, Affordable
<1>7. Runners /\ Recs
  BY <1>2 DEF Runners, Recs
<1>8. QED
  BY <1>3, <1>4, <1>5, <1>6, <1>7 DEF IInv

LEMMA CoreKept ==
  ASSUME Core, UNCHANGED <<attempt, lock, evidence, session, clicks, charge>>
  PROVE  Core'
BY DEF Core, Rows, Affordable, ClickedOnce, SettledExactly

\* An unsettled attempt is saved in a later form.
LEMMA AttemptMoves ==
  ASSUME Types, Core, NEW j \in Jobs, NEW b \in Attempts,
         attempt[j].phase \notin {"none", "settled"},
         b.phase \notin {"none", "settled"}, Affordable(b),
         clicks[j] = 0 \/ b.phase \in {"submitting", "observed"},
         attempt' = [attempt EXCEPT ![j] = b],
         UNCHANGED <<lock, evidence, session, clicks, charge>>
  PROVE  Core' /\ attempt' \in [Jobs -> Attempts]
<1>1. /\ attempt' \in [Jobs -> Attempts] /\ attempt'[j] = b
      /\ \A i \in Jobs : i # j => attempt'[i] = attempt[i]
  BY DEF Types
<1>2. Rows'
  BY <1>1 DEF Core, Rows, Affordable
<1>3. ClickedOnce'
  BY <1>1 DEF Core, ClickedOnce, Types
<1>4. SettledExactly'
  BY <1>1 DEF Core, SettledExactly
<1>5. QED
  BY <1>1, <1>2, <1>3, <1>4 DEF Core

\* One runner moves on, or is idle.
LEMMA RunMoves ==
  ASSUME Types, Runners, NEW p \in Procs, NEW r \in Run,
         run' = [run EXCEPT ![p] = r],
         \/ r.pc = "idle"
         \/ run[p].pc # "idle" /\ r.job = run[p].job /\ GoodRun(r)',
         \A j \in Jobs :
           run[p].pc = "idle" \/ j # run[p].job =>
             clicks'[j] = clicks[j] /\ attempt'[j] = attempt[j],
         r.pc = "idle" => \A j \in Jobs : clicks'[j] = clicks[j]
  PROVE  Runners' /\ run' \in [Procs -> Run]
<1>1. /\ run' \in [Procs -> Run] /\ run'[p] = r
      /\ \A q \in Procs : q # p => run'[q] = run[q]
  BY DEF Types
<1>2. ASSUME NEW q \in Procs, run'[q].pc # "idle" PROVE GoodRun(run[q])'
  <2>1. CASE q = p
    BY <1>1, <1>2, <2>1 DEF GoodRun, Affordable
  <2>2. CASE q # p
    <3>1. run'[q] = run[q] /\ GoodRun(run[q])
      BY <1>1, <1>2, <2>2 DEF Runners
    <3>2. clicks'[run[q].job] = clicks[run[q].job] /\ attempt'[run[q].job] = attempt[run[q].job]
      BY <1>2, <2>2, <3>1 DEF Runners, GoodRun
    <3>3. QED
      BY <3>1, <3>2 DEF GoodRun, Affordable
  <2>3. QED
    BY <2>1, <2>2
<1>3. ASSUME NEW q \in Procs, NEW v \in Procs, q # v, run'[q].pc # "idle", run'[v].pc # "idle"
      PROVE  run'[q].job # run'[v].job
  <2>1. r.pc # "idle" => run[p].pc # "idle" /\ r.job = run[p].job
    OBVIOUS
  <2>2. QED
    BY <1>1, <1>3, <2>1 DEF Runners
<1>4. QED
  BY <1>1, <1>2, <1>3 DEF Runners

\* Nobody who runs moves, and their attempts are only settled or bound.
LEMMA RunKept ==
  ASSUME Types, Runners, UNCHANGED <<run, clicks>>,
         \A j \in Jobs :
           /\ attempt[j].phase # "none" => attempt'[j].phase # "none"
           /\ attempt[j].phase \in {"submitting", "settled"} =>
                attempt'[j].phase \in {"submitting", "settled"}
  PROVE  Runners'
BY DEF Runners, GoodRun, Affordable

\* One reconciliation moves on, or is idle.
LEMMA RecMoves ==
  ASSUME Types, Recs, NEW p \in Procs, NEW r \in Rec,
         rec' = [rec EXCEPT ![p] = r],
         r.pc = "idle" \/ GoodRec(r),
         UNCHANGED charge
  PROVE  Recs' /\ rec' \in [Procs -> Rec]
<1>1. /\ rec' \in [Procs -> Rec] /\ rec'[p] = r
      /\ \A q \in Procs : q # p => rec'[q] = rec[q]
  BY DEF Types
<1>2. QED
  BY <1>1 DEF Recs, GoodRec, Affordable

LEMMA RecKept ==
  ASSUME Recs, UNCHANGED rec,
         \A j \in Jobs : charge[j] # None => charge'[j] = charge[j]
  PROVE  Recs'
BY DEF Recs, GoodRec, Affordable

\* What Types says of a runner and a reconciliation under way.
LEMMA Held ==
  ASSUME Types, NEW p \in Procs
  PROVE  /\ run[p] \in Run /\ run[p].a \in Attempts
         /\ rec[p] \in Rec /\ rec[p].a \in Attempts
         /\ Idle \in Run /\ Idle \in Rec /\ Idle.pc = "idle"
<1>1. NoAttempt \in Attempts
  BY DEF NoAttempt, Attempts, Phases
<1>2. QED
  BY <1>1 DEF Types, Run, Rec, Idle, RunPC, RecPC

LEMMA GateKept ==
  ASSUME GateTypes, GateInv, UNCHANGED <<world, gate>>
  PROVE  GateTypes' /\ GateInv'
BY DEF GateTypes, GateInv, world, gate

-----------------------------------------------------------------------------
\* The invariant is kept, action by action: submit().

\* What a stopped runner leaves.
LEMMA StoppedKeeps ==
  ASSUME IInv, NEW p \in Procs, run[p].pc # "idle",
         run' = [run EXCEPT ![p] = Idle],
         attached' = attached \/ attached' = [attached EXCEPT ![p] = @ \ {run[p].job}],
         UNCHANGED clicks,
         \A j \in Jobs : j # run[p].job => attempt'[j] = attempt[j]
  PROVE  /\ Runners' /\ run' \in [Procs -> Run]
         /\ attached' \in [Procs -> SUBSET Jobs]
<1>1. Types /\ Runners
  BY DEF IInv
<1>2. Runners' /\ run' \in [Procs -> Run]
  BY <1>1, Held, RunMoves
<1>3. attached' \in [Procs -> SUBSET Jobs]
  BY <1>1 DEF Types
<1>4. QED
  BY <1>2, <1>3

LEMMA SubmitKeeps ==
  ASSUME IInv, NEW p \in Procs, NEW j \in Jobs, Submit(p, j)
  PROVE  IInv'
<1> USE DEF IInv
<1> DEFINE a == [NoAttempt EXCEPT !.phase = "provisioning"]
           r == [pc |-> "creating", job |-> j, a |-> a, of |-> None]
<1>1. /\ run[p] = Idle /\ attempt[j].phase = "none" /\ lock[ContextOf[j]] = None
      /\ attempt' = [attempt EXCEPT ![j] = a]
      /\ lock' = [lock EXCEPT ![ContextOf[j]] = j]
      /\ run' = [run EXCEPT ![p] = r]
      /\ UNCHANGED <<evidence, rec, attached, session, page, clicks, charge>>
      /\ UNCHANGED <<world, gate>>
  BY DEF Submit, Free, shop
<1>2. /\ a \in Attempts /\ a.phase = "provisioning"
  BY DEF NoAttempt, Attempts, Phases
<1>3. r \in Run /\ r.pc = "creating" /\ r.job = j /\ r.a = a
  BY <1>2 DEF Run, RunPC
<1> HIDE DEF a, r
<1>4. /\ attempt' \in [Jobs -> Attempts] /\ attempt'[j] = a
      /\ \A i \in Jobs : i # j => attempt'[i] = attempt[i]
      /\ lock' \in [Contexts -> Jobs \cup {None}] /\ lock'[ContextOf[j]] = j
      /\ \A c \in Contexts : c # ContextOf[j] => lock'[c] = lock[c]
  BY <1>1, <1>2, ContextIn DEF Types
<1>5. /\ run' \in [Procs -> Run] /\ run'[p] = r
      /\ \A q \in Procs : q # p => run'[q] = run[q]
  BY <1>1, <1>3 DEF Types
<1>6. clicks[j] = 0
  BY <1>1 DEF Core, ClickedOnce, Types
<1>7. Types'
  BY <1>1, <1>4, <1>5 DEF Types
<1>8. Core'
  <2>1. ASSUME NEW i \in Jobs, attempt'[i].phase \notin {"none", "settled"}
        PROVE  lock'[ContextOf[i]] = i
    <3>1. CASE i = j  BY <1>4, <3>1
    <3>2. CASE i # j
      <4>1. lock[ContextOf[i]] = i
        BY <1>4, <2>1, <3>2 DEF Core, Rows
      <4>2. QED
        BY <1>1, <1>4, <3>2, <4>1, ContextIn, BrowserAssumption
    <3>3. QED  BY <3>1, <3>2
  <2>2. Rows'
    BY <1>1, <1>2, <1>4, <2>1 DEF Core, Rows, Affordable
  <2>3. ClickedOnce'
    BY <1>1, <1>4, <1>6 DEF Core, ClickedOnce
  <2>4. SettledExactly'
    BY <1>1, <1>2, <1>4 DEF Core, SettledExactly
  <2>5. QED  BY <2>2, <2>3, <2>4 DEF Core
<1>9. Runners'
  <2>1. ASSUME NEW q \in Procs, run'[q].pc # "idle"
        PROVE  GoodRun(run[q])' /\ (q # p => run'[q].job # j)
    <3>1. CASE q = p
      BY <1>1, <1>2, <1>3, <1>4, <1>5, <1>6, <3>1 DEF GoodRun, Affordable, SavedAt
    <3>2. CASE q # p
      <4>1. run'[q] = run[q] /\ GoodRun(run[q])
        BY <1>5, <2>1, <3>2 DEF Runners
      <4>2. run[q].job # j
        BY <1>1, <4>1 DEF GoodRun
      <4>3. QED
        BY <1>1, <1>4, <4>1, <4>2 DEF GoodRun, Affordable
    <3>3. QED  BY <3>1, <3>2
  <2>2. QED
    BY <1>3, <1>5, <2>1 DEF Runners
<1>10. Recs'
  BY <1>1, RecKept
<1>11. QED
  BY <1>1, <1>7, <1>8, <1>9, <1>10, GateKept

\* A runner saves its attempt and goes on, or stops.
LEMMA SaverKeeps ==
  ASSUME IInv, NEW p \in Procs, run[p].pc # "idle",
         NEW b \in Attempts, NEW r \in Run,
         Matches(run[p].job, run[p].a),
         attempt' = [attempt EXCEPT ![run[p].job] = b],
         run' = [run EXCEPT ![p] = r],
         b.phase \in {"provisioning", "prepared", "submitting", "observed"}, Affordable(b),
         run[p].pc \in {"creating", "preparing", "reviewing"} \/ b.phase \in {"submitting", "observed"},
         \/ r.pc = "idle"
         \/ /\ r.pc \in {"attaching", "live", "clicking"}
            /\ run[p].pc \in {"creating", "preparing", "reviewing"}
            /\ r.job = run[p].job /\ r.a = b /\ b.phase = SavedAt(r.pc),
         UNCHANGED <<lock, evidence, rec, session, page, clicks, charge>>
  PROVE  /\ Core' /\ Runners' /\ Recs'
         /\ attempt' \in [Jobs -> Attempts] /\ run' \in [Procs -> Run]
<1> USE DEF IInv
<1>1. GoodRun(run[p]) /\ run[p].job \in Jobs /\ attempt[run[p].job] = run[p].a
  BY DEF Runners, GoodRun, Matches
<1>2. attempt[run[p].job].phase \notin {"none", "settled"}
  BY <1>1 DEF GoodRun, SavedAt
<1>3. Core' /\ attempt' \in [Jobs -> Attempts]
  <2>1. clicks[run[p].job] = 0 \/ b.phase \in {"submitting", "observed"}
    BY <1>1 DEF GoodRun
  <2>2. QED
    BY <1>1, <1>2, <2>1, AttemptMoves
<1>4. attempt'[run[p].job] = b /\ \A i \in Jobs : i # run[p].job => attempt'[i] = attempt[i]
  BY <1>1 DEF Types
<1>5. r.pc = "idle" \/ (r.job = run[p].job /\ GoodRun(r)')
  <2>1. ASSUME r.pc # "idle" PROVE r.job = run[p].job /\ GoodRun(r)'
    <3>1. /\ r.job = run[p].job /\ r.a = b /\ b.phase = SavedAt(r.pc)
          /\ r.pc \in {"attaching", "live", "clicking"}
          /\ run[p].pc \in {"creating", "preparing", "reviewing"}
      BY <2>1
    <3>2. clicks'[run[p].job] = 0
      BY <1>1, <3>1 DEF GoodRun
    <3>3. QED
      BY <1>1, <1>4, <3>1, <3>2 DEF GoodRun, Affordable, SavedAt
  <2>2. QED
    BY <2>1
<1>6. Runners' /\ run' \in [Procs -> Run]
  BY <1>4, <1>5, RunMoves
<1>7. Recs'
  BY RecKept
<1>8. QED
  BY <1>3, <1>6, <1>7

LEMMA CreatedKeeps ==
  ASSUME IInv, NEW p \in Procs, Created(p)
  PROVE  IInv'
<1> USE DEF IInv
<1> DEFINE j == run[p].job
           b == [run[p].a EXCEPT !.expires = now + SessionLife]
           r == [run[p] EXCEPT !.pc = "attaching", !.a = b]
<1>1. /\ run[p].pc = "creating" /\ j \in Jobs /\ GoodRun(run[p])
      /\ UNCHANGED <<lock, evidence, rec, session, page, clicks, charge>>
      /\ UNCHANGED <<world, gate>>
  BY DEF Created, Runners, GoodRun, shop
<1>2. CASE Stopped(p) /\ UNCHANGED attempt
  <2>1. /\ Runners' /\ run' \in [Procs -> Run] /\ attached' \in [Procs -> SUBSET Jobs]
    BY <1>1, <1>2, StoppedKeeps DEF Stopped, Disconnected
  <2>2. QED
    BY <1>1, <1>2, <2>1, CoreKept, RecKept, GateKept DEF Types
<1>3. CASE /\ Matches(j, run[p].a)
           /\ attempt' = [attempt EXCEPT ![j] = b]
           /\ run' = [run EXCEPT ![p].pc = "attaching", ![p].a = b]
           /\ attached' = [attached EXCEPT ![p] = @ \cup {j}]
  <2>1. /\ b \in Attempts /\ b.phase = "provisioning" /\ Affordable(b)
    <3>1. run[p].a \in Attempts /\ run[p].a.phase = "provisioning"
      BY <1>1, Held DEF GoodRun, SavedAt
    <3>2. now + SessionLife \in Nat
      BY LiveGateAssumption, BrowserAssumption DEF GateTypes, Times
    <3>3. b \in Attempts /\ b.phase = run[p].a.phase
      BY <3>1, <3>2 DEF Attempts
    <3> HIDE DEF b
    <3>4. QED
      BY <3>1, <3>3 DEF Affordable
  <2> HIDE DEF b
  <2>2. r \in Run /\ r.pc = "attaching" /\ r.job = j /\ r.a = b
    BY <2>1, Held DEF Run, RunPC
  <2>3. run' = [run EXCEPT ![p] = r]
    BY <1>3 DEF Types, Run
  <2> HIDE DEF r
  <2>4. attached' \in [Procs -> SUBSET Jobs]
    BY <1>1, <1>3 DEF Types
  <2>5. /\ Core' /\ Runners' /\ Recs'
        /\ attempt' \in [Jobs -> Attempts] /\ run' \in [Procs -> Run]
    BY <1>1, <1>3, <2>1, <2>2, <2>3, SaverKeeps DEF SavedAt
  <2>6. QED
    BY <1>1, <2>4, <2>5, GateKept DEF Types
<1>4. QED
  BY <1>2, <1>3 DEF Created

LEMMA PreparedKeeps ==
  ASSUME IInv, NEW p \in Procs, Prepared(p)
  PROVE  IInv'
<1> USE DEF IInv
<1> DEFINE j == run[p].job
           b == [run[p].a EXCEPT !.phase = "prepared", !.quote = Quoted(j)]
           r == [run[p] EXCEPT !.pc = "live", !.a = b]
<1>1. /\ run[p].pc = "preparing" /\ j \in Jobs /\ Matches(j, run[p].a) /\ Read(j) # None
      /\ attempt' = [attempt EXCEPT ![j] = b]
      /\ run' = [run EXCEPT ![p].pc = "live", ![p].a = b]
      /\ UNCHANGED <<lock, evidence, rec, attached, session, page, clicks, charge>>
      /\ UNCHANGED world /\ Check(p, NameOf[j])
  BY DEF Prepared, Runners, GoodRun, shop
<1>2. Quoted(j) \in Quotes /\ Quoted(j).total <= MaxSpend
  <2>1. page[j].total \in Totals
    BY <1>1 DEF Types, Pages
  <2>2. Read(j).total \in Totals /\ Read(j).total <= MaxSpend
    BY <1>1, <2>1 DEF Read, TwitchQuote, KickQuote
  <2>3. QED
    BY <2>2 DEF Quoted, Quotes, GateTypes
<1>3. b \in Attempts /\ b.phase = "prepared" /\ Affordable(b)
  <2>1. PICK q \in Quotes : q = Quoted(j) /\ q.total <= MaxSpend
    BY <1>2
  <2>2. /\ [run[p].a EXCEPT !.phase = "prepared", !.quote = q] \in Attempts
        /\ [run[p].a EXCEPT !.phase = "prepared", !.quote = q].phase = "prepared"
        /\ [run[p].a EXCEPT !.phase = "prepared", !.quote = q].quote = q
    BY <2>1, Held DEF Attempts, Phases
  <2>3. QED
    BY <2>1, <2>2 DEF Affordable
<1> HIDE DEF b
<1>4. r \in Run /\ r.pc = "live" /\ r.job = j /\ r.a = b
  BY <1>3, Held DEF Run, RunPC
<1>5. run' = [run EXCEPT ![p] = r]
  BY <1>1 DEF Types, Run
<1> HIDE DEF r
<1>6. /\ Core' /\ Runners' /\ Recs'
      /\ attempt' \in [Jobs -> Attempts] /\ run' \in [Procs -> Run]
  BY <1>1, <1>3, <1>4, <1>5, SaverKeeps DEF SavedAt
<1>7. GateTypes' /\ GateInv'
  BY <1>1, BrowserAssumption, CheckKeeps
<1>8. QED
  BY <1>1, <1>6, <1>7 DEF Types

LEMMA PermittedKeeps ==
  ASSUME IInv, NEW p \in Procs, Permitted(p)
  PROVE  IInv'
<1> USE DEF IInv
<1> DEFINE j == run[p].job
           b == Marked(run[p].a)
           r == [run[p] EXCEPT !.pc = "clicking", !.a = b]
<1>1. /\ run[p].pc = "reviewing" /\ j \in Jobs /\ Matches(j, run[p].a) /\ GoodRun(run[p])
      /\ attempt' = [attempt EXCEPT ![j] = b]
      /\ run' = [run EXCEPT ![p].pc = "clicking", ![p].a = b]
      /\ UNCHANGED <<lock, evidence, rec, attached, session, page, clicks, charge>>
      /\ UNCHANGED <<world, gate>>
  BY DEF Permitted, Runners, GoodRun, shop
<1>2. b \in Attempts /\ b.phase = "submitting" /\ Affordable(b)
  <2>1. run[p].a \in Attempts /\ Affordable(run[p].a) /\ run[p].a.phase = "prepared"
    BY <1>1, Held DEF GoodRun, SavedAt
  <2>2. b \in Attempts /\ b.phase = "submitting" /\ b.quote = run[p].a.quote
    BY <2>1 DEF Marked, Attempts, Phases, GateTypes
  <2> HIDE DEF b
  <2>3. QED
    BY <2>1, <2>2 DEF Affordable
<1> HIDE DEF b
<1>3. r \in Run /\ r.pc = "clicking" /\ r.job = j /\ r.a = b
  BY <1>2, Held DEF Run, RunPC
<1>4. run' = [run EXCEPT ![p] = r]
  BY <1>1 DEF Types, Run
<1> HIDE DEF r
<1>5. /\ Core' /\ Runners' /\ Recs'
      /\ attempt' \in [Jobs -> Attempts] /\ run' \in [Procs -> Run]
  BY <1>1, <1>2, <1>3, <1>4, SaverKeeps DEF SavedAt
<1>6. QED
  BY <1>1, <1>5, GateKept DEF Types

LEMMA DeliveredKeeps ==
  ASSUME IInv, NEW p \in Procs, Delivered(p)
  PROVE  IInv'
<1> USE DEF IInv
<1> DEFINE j == run[p].job
           b == [run[p].a EXCEPT !.phase = "observed"]
<1>1. /\ run[p].pc = "waiting" /\ j \in Jobs /\ Matches(j, run[p].a) /\ GoodRun(run[p])
      /\ attempt' = [attempt EXCEPT ![j] = b] /\ Stopped(p)
      /\ UNCHANGED <<lock, evidence, rec, session, page, clicks, charge>>
      /\ UNCHANGED <<world, gate>>
  BY DEF Delivered, Runners, GoodRun, shop
<1>2. b \in Attempts /\ b.phase = "observed" /\ Affordable(b)
  <2>1. run[p].a \in Attempts /\ Affordable(run[p].a) /\ run[p].a.phase = "submitting"
    BY <1>1, Held DEF GoodRun, SavedAt
  <2>2. b \in Attempts /\ b.phase = "observed" /\ b.quote = run[p].a.quote
    BY <2>1 DEF Attempts, Phases
  <2> HIDE DEF b
  <2>3. QED
    BY <2>1, <2>2 DEF Affordable
<1> HIDE DEF b
<1>3. run' = [run EXCEPT ![p] = Idle]
  BY <1>1 DEF Stopped
<1>4. /\ Core' /\ Runners' /\ Recs'
      /\ attempt' \in [Jobs -> Attempts] /\ run' \in [Procs -> Run]
  BY <1>1, <1>2, <1>3, Held, SaverKeeps
<1>5. attached' \in [Procs -> SUBSET Jobs]
  BY <1>1 DEF Stopped, Disconnected, Types
<1>6. QED
  BY <1>1, <1>4, <1>5, GateKept DEF Types

\* A runner goes on without saving anything.
LEMMA OnwardKeeps ==
  ASSUME IInv, NEW p \in Procs, NEW pc \in {"preparing", "reviewing"},
         SavedAt(run[p].pc) = SavedAt(pc), run[p].pc \notin {"idle", "clicking", "waiting"},
         run' = [run EXCEPT ![p].pc = pc],
         UNCHANGED <<attempt, clicks>>
  PROVE  Runners' /\ run' \in [Procs -> Run]
<1> USE DEF IInv
<1>1. PICK r \in Run : /\ r = [run[p] EXCEPT !.pc = pc]
                      /\ r.pc = pc /\ r.job = run[p].job /\ r.a = run[p].a
  <2> DEFINE x == [run[p] EXCEPT !.pc = pc]
  <2>1. x \in Run /\ x.pc = pc /\ x.job = run[p].job /\ x.a = run[p].a
    BY Held DEF Run, RunPC
  <2> HIDE DEF x
  <2>2. QED
    BY <2>1 DEF x
<1>2. run' = [run EXCEPT ![p] = r]
  BY <1>1 DEF Types, Run
<1>3. GoodRun(r)'
  BY <1>1 DEF Runners, GoodRun, Affordable
<1>4. QED
  BY <1>1, <1>2, <1>3, RunMoves

LEMMA AttachedKeeps ==
  ASSUME IInv, NEW p \in Procs, Attached(p)
  PROVE  IInv'
<1> USE DEF IInv
<1>1. /\ run[p].pc = "attaching" /\ run' = [run EXCEPT ![p].pc = "preparing"]
      /\ UNCHANGED <<attempt, lock, evidence, rec, attached, session, page, clicks, charge>>
      /\ UNCHANGED <<world, gate>>
  BY DEF Attached, tables, shop
<1>2. Runners' /\ run' \in [Procs -> Run]
  BY <1>1, OnwardKeeps DEF SavedAt
<1>3. QED
  BY <1>1, <1>2, CoreKept, RecKept, GateKept DEF Types

LEMMA LookupAnswersKeeps ==
  ASSUME IInv, NEW p \in Procs, NEW n \in Names, NEW t \in Times \cup {None},
         LookupAnswers(p, n, t)
  PROVE  IInv'
<1> USE DEF IInv
<1>1. /\ Answered(p, n, t) /\ Heard(p, n, t) /\ UNCHANGED world
      /\ UNCHANGED <<attempt, lock, evidence, rec, session, page, clicks, charge>>
  BY DEF LookupAnswers, tables, shop
<1>2. GateTypes' /\ GateInv'
  BY <1>1, AnsweredKeeps
<1>3. /\ Runners' /\ run' \in [Procs -> Run] /\ attached' \in [Procs -> SUBSET Jobs]
  <2>1. CASE UNCHANGED <<run, attached>>
    BY <1>1, <2>1, RunKept DEF Types
  <2>2. CASE run[p].pc = "live" /\ run' = [run EXCEPT ![p].pc = "reviewing"] /\ UNCHANGED attached
    BY <1>1, <2>2, OnwardKeeps DEF SavedAt, Types
  <2>3. CASE run[p].pc = "live" /\ Stopped(p)
    BY <1>1, <2>3, StoppedKeeps DEF Stopped, Disconnected
  <2>4. QED
    BY <1>1, <2>1, <2>2, <2>3 DEF Heard
<1>4. QED
  BY <1>1, <1>2, <1>3, CoreKept, RecKept DEF Types

LEMMA ClickKeeps ==
  ASSUME IInv, NEW p \in Procs, Click(p)
  PROVE  IInv'
<1> USE DEF IInv
<1> DEFINE j == run[p].job
           c == [amount |-> page[j].total, at |-> now]
<1>1. /\ run[p].pc = "clicking" /\ j \in Jobs /\ GoodRun(run[p]) /\ session[j] = "running"
      /\ clicks' = [clicks EXCEPT ![j] = @ + 1] /\ charge' = [charge EXCEPT ![j] = c]
      /\ run' = [run EXCEPT ![p].pc = "waiting"]
      /\ UNCHANGED <<attempt, lock, evidence, rec, attached, session, page>>
      /\ UNCHANGED <<world, gate>>
  BY DEF Click, Runners, GoodRun, tables
<1>2. clicks[j] = 0 /\ charge[j] = None /\ attempt[j].phase \in {"submitting", "settled"}
  BY <1>1 DEF GoodRun, Core, Rows
<1>3. c \in Charges
  BY <1>1 DEF Types, Pages, Charges, GateTypes
<1>4. PICK r \in Run : /\ r = [run[p] EXCEPT !.pc = "waiting"]
                      /\ r.pc = "waiting" /\ r.job = j /\ r.a = run[p].a
  <2> DEFINE x == [run[p] EXCEPT !.pc = "waiting"]
  <2>1. x \in Run /\ x.pc = "waiting" /\ x.job = j /\ x.a = run[p].a
    BY Held DEF Run, RunPC
  <2> HIDE DEF x
  <2>2. QED
    BY <2>1 DEF x
<1>5. run' = [run EXCEPT ![p] = r]
  BY <1>1, <1>4 DEF Types, Run
<1> HIDE DEF c
<1>6. /\ clicks' \in [Jobs -> Nat] /\ clicks'[j] = 1
      /\ charge' \in [Jobs -> Charges \cup {None}]
      /\ \A i \in Jobs : i # j => clicks'[i] = clicks[i] /\ charge'[i] = charge[i]
  BY <1>1, <1>2, <1>3 DEF Types
<1>7. Runners' /\ run' \in [Procs -> Run]
  <2>1. GoodRun(r)'
    BY <1>1, <1>4 DEF GoodRun, Affordable, SavedAt
  <2>2. QED
    BY <1>1, <1>4, <1>5, <1>6, <2>1, RunMoves
<1>8. Recs'
  BY <1>1, <1>2, <1>6, RecKept
<1>9. Core'
  <2>1. Rows'
    BY <1>1, <1>2, <1>6 DEF Core, Rows, Affordable
  <2>2. ClickedOnce'
    BY <1>1, <1>2, <1>6 DEF Core, ClickedOnce
  <2>3. SettledExactly'
    <3>1. ASSUME NEW i \in Jobs, attempt[i].phase = "settled"
          PROVE  evidence[i] # j /\ evidence[i] \in Jobs
      BY <1>2, <3>1 DEF Core, Rows
    <3>2. QED
      BY <1>1, <1>6, <3>1 DEF Core, SettledExactly
  <2>4. QED
    BY <2>1, <2>2, <2>3 DEF Core
<1>10. QED
  BY <1>1, <1>6, <1>7, <1>8, <1>9, GateKept DEF Types

LEMMA FailsKeeps ==
  ASSUME IInv, NEW p \in Procs, Fails(p) \/ FailsAttached(p)
  PROVE  IInv'
<1> USE DEF IInv
<1>1. /\ UNCHANGED <<attempt, lock, evidence, rec, session, page, clicks, charge>>
      /\ UNCHANGED <<world, gate>>
      /\ run' = [run EXCEPT ![p] = Idle]
      /\ \/ attached' = [attached EXCEPT ![p] = @ \ {run[p].job}]
         \/ attached' = attached
  BY DEF Fails, FailsAttached, Stopped, Disconnected, tables, shop
<1>2. /\ Runners' /\ run' \in [Procs -> Run] /\ attached' \in [Procs -> SUBSET Jobs]
  <2>1. CASE run[p].pc # "idle"
    BY <1>1, <2>1, StoppedKeeps
  <2>2. CASE run[p].pc = "idle"
    BY <1>1, <2>2, Held, RunMoves DEF Types
  <2>3. QED  BY <2>1, <2>2
<1>3. QED
  BY <1>1, <1>2, CoreKept, RecKept, GateKept DEF Types

\* A process dies: nothing but the tables and the shop is left.
LEMMA CrashKeeps ==
  ASSUME IInv, NEW p \in Procs, Crash(p)
  PROVE  IInv'
<1> USE DEF IInv
<1>1. /\ Restarted(p) /\ UNCHANGED world
      /\ run' = [run EXCEPT ![p] = Idle] /\ rec' = [rec EXCEPT ![p] = Idle]
      /\ attached' = [attached EXCEPT ![p] = {}]
      /\ UNCHANGED <<attempt, lock, evidence, session, page, clicks, charge>>
  BY DEF Crash, tables, shop
<1>2. GateTypes' /\ GateInv'
  BY <1>1, RestartKeeps
<1>3. Runners' /\ run' \in [Procs -> Run]
  BY <1>1, Held, RunMoves
<1>4. Recs' /\ rec' \in [Procs -> Rec]
  BY <1>1, Held, RecMoves
<1>5. attached' \in [Procs -> SUBSET Jobs]
  BY <1>1 DEF Types
<1>6. QED
  BY <1>1, <1>2, <1>3, <1>4, <1>5, CoreKept DEF Types

-----------------------------------------------------------------------------
\* reconcile().

LEMMA RecOnlyKeeps ==
  ASSUME IInv, NEW p \in Procs, NEW r \in Rec,
         rec' = [rec EXCEPT ![p] = r], r.pc = "idle" \/ GoodRec(r),
         UNCHANGED <<attempt, lock, evidence, run, attached, session, page, clicks, charge>>,
         UNCHANGED <<world, gate>>
  PROVE  IInv'
<1> USE DEF IInv
<1>1. Recs' /\ rec' \in [Procs -> Rec]
  BY RecMoves
<1>2. Runners'
  BY RunKept
<1>3. QED
  BY <1>1, <1>2, CoreKept, GateKept DEF Types

LEMMA ReconcileKeeps ==
  ASSUME IInv, NEW p \in Procs, NEW j \in Jobs, Reconcile(p, j)
  PROVE  IInv'
<1>1. PICK pc \in {"finding", "reading"} :
        /\ attempt[j].phase \notin {"none", "settled"}
        /\ pc # "finding" => attempt[j].phase \in {"submitting", "observed"}
        /\ rec' = [rec EXCEPT ![p] = [pc |-> pc, job |-> j, a |-> attempt[j], of |-> None]]
  BY DEF Reconcile
<1> DEFINE r == [pc |-> pc, job |-> j, a |-> attempt[j], of |-> None]
<1>2. r \in Rec /\ GoodRec(r)
  BY <1>1 DEF IInv, Types, Rec, RecPC, GoodRec, Core, Rows
<1>3. /\ UNCHANGED <<attempt, lock, evidence, run, attached, session, page, clicks, charge>>
      /\ UNCHANGED <<world, gate>>
  BY DEF Reconcile, tables, shop
<1>4. QED
  BY <1>1, <1>2, <1>3, RecOnlyKeeps

LEMMA EvidenceReadKeeps ==
  ASSUME IInv, NEW p \in Procs, NEW k \in Jobs, EvidenceRead(p, k)
  PROVE  IInv'
<1>1. /\ UNCHANGED <<attempt, lock, evidence, run, attached, session, page, clicks, charge>>
      /\ UNCHANGED <<world, gate>>
      /\ rec[p].pc = "reading" /\ charge[k] # None
  BY DEF EvidenceRead, tables, shop
<1>2. Idle \in Rec /\ Idle.pc = "idle" /\ rec[p] \in Rec /\ GoodRec(rec[p])
  BY <1>1, Held DEF IInv, Recs
<1>3. CASE rec' = [rec EXCEPT ![p] = Idle]
  BY <1>1, <1>2, <1>3, RecOnlyKeeps
<1>4. CASE /\ EvidenceValid(charge[k], rec[p].a)
           /\ rec' = [rec EXCEPT ![p] = [@ EXCEPT !.pc = "getting", !.of = k]]
  <2>1. PICK r \in Rec : r = [rec[p] EXCEPT !.pc = "getting", !.of = k]
    BY <1>2 DEF Rec, RecPC
  <2>2. r.pc = "getting" /\ r.of = k /\ r.job = rec[p].job /\ r.a = rec[p].a
    BY <1>2, <2>1 DEF Rec
  <2>3. GoodRec(r)
    BY <1>1, <1>2, <1>4, <2>2 DEF GoodRec, EvidenceValid
  <2>4. rec' = [rec EXCEPT ![p] = r]
    BY <1>4, <2>1 DEF IInv, Types
  <2>5. QED
    BY <1>1, <2>3, <2>4, RecOnlyKeeps
<1>5. QED
  BY <1>3, <1>4 DEF EvidenceRead

LEMMA NotYetKeeps ==
  ASSUME IInv, NEW p \in Procs, NotYet(p)
  PROVE  IInv'
<1>1. /\ UNCHANGED <<attempt, lock, evidence, run, attached, session, page, clicks, charge>>
      /\ UNCHANGED <<world, gate>> /\ rec' = [rec EXCEPT ![p] = Idle]
  BY DEF NotYet, RecDone, tables, shop
<1>2. Idle \in Rec /\ Idle.pc = "idle"
  BY Held DEF IInv
<1>3. QED
  BY <1>1, <1>2, RecOnlyKeeps

LEMMA FoundSessionKeeps ==
  ASSUME IInv, NEW p \in Procs, FoundSession(p)
  PROVE  IInv'
<1> USE DEF IInv
<1> DEFINE j == rec[p].job
           b == [rec[p].a EXCEPT !.expires = now + SessionLife]
<1>1. /\ UNCHANGED <<lock, evidence, run, attached, session, page, clicks, charge>>
      /\ UNCHANGED <<world, gate>> /\ rec' = [rec EXCEPT ![p] = Idle]
      /\ rec[p].pc = "finding"
      /\ \/ attempt' = attempt
         \/ Matches(j, rec[p].a) /\ attempt' = [attempt EXCEPT ![j] = b]
  BY DEF FoundSession, RecDone, shop
<1>2. Idle \in Rec /\ Idle.pc = "idle" /\ rec[p] \in Rec /\ rec[p].a \in Attempts
      /\ GoodRec(rec[p])
  BY <1>1, Held DEF Recs
<1>3. CASE attempt' = attempt
  BY <1>1, <1>2, <1>3, RecOnlyKeeps
<1>4. CASE Matches(j, rec[p].a) /\ attempt' = [attempt EXCEPT ![j] = b]
  <2>1. attempt[j] = rec[p].a /\ j \in Jobs /\ attempt[j].phase \notin {"none", "settled"}
    BY <1>2, <1>4 DEF Matches, GoodRec
  <2>2. b \in Attempts /\ b.phase = attempt[j].phase /\ b.quote = attempt[j].quote
    <3>1. now + SessionLife \in Nat
      BY LiveGateAssumption, BrowserAssumption DEF GateTypes, Times
    <3>2. QED
      BY <1>2, <2>1, <3>1 DEF Attempts
  <2> HIDE DEF b
  <2>3. clicks[j] = 0 \/ b.phase \in {"submitting", "observed"}
    BY <2>1, <2>2 DEF Core, ClickedOnce, Types
  <2>4. Affordable(b)
    BY <1>2, <2>1, <2>2 DEF GoodRec, Affordable
  <2>5. Core' /\ attempt' \in [Jobs -> Attempts]
    BY <1>1, <1>4, <2>1, <2>2, <2>3, <2>4, AttemptMoves
  <2>6. \A i \in Jobs : attempt'[i].phase = attempt[i].phase
    BY <1>4, <2>1, <2>2 DEF Types
  <2>7. Runners'
    BY <1>1, <2>6, RunKept
  <2>8. Recs' /\ rec' \in [Procs -> Rec]
    BY <1>1, <1>2, RecMoves
  <2>9. QED
    BY <1>1, <2>5, <2>7, <2>8, GateKept DEF Types
<1>5. QED
  BY <1>1, <1>3, <1>4

\* The settlement: the session has ended, the charge fits and is nobody else's.
LEMMA SettleKeeps ==
  ASSUME IInv, NEW p \in Procs, rec[p].pc \in {"getting", "releasing"},
         Ended(rec[p].job), Settle(p), UNCHANGED <<run, session, clicks, charge>>
  PROVE  /\ Core' /\ Runners'
         /\ attempt' \in [Jobs -> Attempts]
         /\ lock' \in [Contexts -> Jobs \cup {None}]
         /\ evidence' \in [Jobs -> Jobs \cup {None}]
<1> USE DEF IInv
<1>1. CASE UNCHANGED tables
  <2>1. UNCHANGED <<attempt, lock, evidence>>
    BY <1>1 DEF tables
  <2>2. QED
    BY <2>1, CoreKept, RunKept DEF Types
<1> DEFINE j == rec[p].job
           k == rec[p].of
           b == [rec[p].a EXCEPT !.phase = "settled"]
<1>2. CASE /\ Matches(j, rec[p].a) /\ Unused(k, j) /\ lock[ContextOf[j]] = j
           /\ attempt' = [attempt EXCEPT ![j] = b]
           /\ evidence' = [evidence EXCEPT ![j] = k]
           /\ lock' = [lock EXCEPT ![ContextOf[j]] = None]
  <2>1. /\ j \in Jobs /\ k \in Jobs /\ attempt[j] = rec[p].a /\ rec[p].a \in Attempts
        /\ attempt[j].phase \in {"submitting", "observed"} /\ Affordable(attempt[j])
        /\ charge[k] # None /\ charge[k].amount = attempt[j].quote.total
        /\ \A i \in Jobs : evidence[i] # k
        /\ session[j] = "ended"
    BY <1>2, Held DEF Recs, GoodRec, Matches, Unused, Ended
  <2>2. b \in Attempts /\ b.phase = "settled" /\ b.quote = attempt[j].quote
    BY <2>1 DEF Attempts, Phases
  <2> HIDE DEF b
  <2>3. Affordable(b) /\ b.quote.total <= MaxSpend
    BY <2>1, <2>2 DEF Affordable
  <2> HIDE DEF j, k
  <2>4. /\ attempt' \in [Jobs -> Attempts] /\ attempt'[j] = b
        /\ evidence' \in [Jobs -> Jobs \cup {None}] /\ evidence'[j] = k
        /\ lock' \in [Contexts -> Jobs \cup {None}]
        /\ \A i \in Jobs : i # j => attempt'[i] = attempt[i] /\ evidence'[i] = evidence[i]
        /\ \A c \in Contexts : c # ContextOf[j] => lock'[c] = lock[c]
    BY <1>2, <2>1, <2>2 DEF Types
  <2>5. Rows'
    <3>1. ASSUME NEW i \in Jobs, attempt'[i].phase \notin {"none", "settled"}
          PROVE  lock'[ContextOf[i]] = i
      <4>1. i # j /\ attempt'[i] = attempt[i]
        BY <2>2, <2>4, <3>1
      <4>2. lock[ContextOf[i]] = i
        BY <3>1, <4>1 DEF Core, Rows
      <4>3. ContextOf[i] # ContextOf[j]
        BY <1>2, <4>1, <4>2
      <4>4. QED
        BY <2>4, <4>2, <4>3, ContextIn
    <3>2. QED
      BY <2>1, <2>2, <2>3, <2>4, <3>1 DEF Core, Rows, Affordable
  <2>6. ClickedOnce'
    BY <2>2, <2>4 DEF Core, ClickedOnce
  <2>7. SettledExactly'
    <3>1. ASSUME NEW i \in Jobs, attempt'[i].phase = "settled"
          PROVE  /\ evidence'[i] # None
                 /\ charge'[evidence'[i]].amount = attempt'[i].quote.total
                 /\ attempt'[i].quote.total <= MaxSpend
                 /\ \A h \in Jobs \ {i} : evidence'[h] # evidence'[i]
      <4>1. CASE i = j
        BY <2>1, <2>2, <2>3, <2>4, <4>1, BrowserAssumption
      <4>2. CASE i # j
        <5>1. /\ attempt'[i] = attempt[i] /\ evidence'[i] = evidence[i]
          BY <2>4, <4>2
        <5>2. /\ evidence[i] # None /\ charge[evidence[i]].amount = attempt[i].quote.total
              /\ attempt[i].quote.total <= MaxSpend
              /\ \A h \in Jobs \ {i} : evidence[h] # evidence[i]
          BY <3>1, <5>1 DEF Core, SettledExactly
        <5>3. \A h \in Jobs \ {i} : evidence'[h] # evidence'[i]
          BY <2>1, <2>4, <5>1, <5>2
        <5>4. QED
          BY <5>1, <5>2, <5>3
      <4>3. QED  BY <4>1, <4>2
    <3>2. QED
      BY <3>1 DEF SettledExactly
  <2>8. Runners'
    <3>1. ASSUME NEW i \in Jobs
          PROVE  /\ attempt[i].phase # "none" => attempt'[i].phase # "none"
                 /\ attempt[i].phase \in {"submitting", "settled"} =>
                      attempt'[i].phase \in {"submitting", "settled"}
      BY <2>2, <2>4
    <3>2. QED
      BY <3>1, RunKept
  <2>9. QED
    BY <2>4, <2>5, <2>6, <2>7, <2>8 DEF Core
<1>3. QED
  BY <1>1, <1>2 DEF Settle

LEMMA SessionReadKeeps ==
  ASSUME IInv, NEW p \in Procs, SessionRead(p) \/ Released(p)
  PROVE  IInv'
<1> USE DEF IInv
<1>1. /\ UNCHANGED <<run, attached, session, page, clicks, charge>>
      /\ UNCHANGED <<world, gate>>
      /\ rec[p].pc \in {"getting", "releasing"}
  BY DEF SessionRead, Released, shop
<1>2. Idle \in Rec /\ Idle.pc = "idle" /\ rec[p] \in Rec /\ GoodRec(rec[p])
  BY <1>1, Held DEF Recs
<1>3. CASE Ended(rec[p].job)
  <2>1. Settle(p) /\ rec' = [rec EXCEPT ![p] = Idle]
    BY <1>3 DEF SessionRead, Released, RecDone
  <2>2. /\ Core' /\ Runners'
        /\ attempt' \in [Jobs -> Attempts]
        /\ lock' \in [Contexts -> Jobs \cup {None}]
        /\ evidence' \in [Jobs -> Jobs \cup {None}]
    BY <1>1, <1>3, <2>1, SettleKeeps
  <2>3. Recs' /\ rec' \in [Procs -> Rec]
    BY <1>1, <1>2, <2>1, RecMoves
  <2>4. QED
    BY <1>1, <2>2, <2>3, GateKept DEF Types
<1>4. CASE ~Ended(rec[p].job)
  <2>1. /\ UNCHANGED <<attempt, lock, evidence>>
        /\ \/ rec' = [rec EXCEPT ![p] = Idle]
           \/ rec[p].pc = "getting" /\ rec' = [rec EXCEPT ![p].pc = "releasing"]
    BY <1>4 DEF SessionRead, Released, RecDone, tables
  <2>2. CASE rec' = [rec EXCEPT ![p] = Idle]
    BY <1>1, <1>2, <2>1, <2>2, RecOnlyKeeps
  <2>3. CASE rec[p].pc = "getting" /\ rec' = [rec EXCEPT ![p].pc = "releasing"]
    <3>1. PICK r \in Rec : r = [rec[p] EXCEPT !.pc = "releasing"]
      BY <1>2 DEF Rec, RecPC
    <3>2. r.pc = "releasing" /\ r.of = rec[p].of /\ r.job = rec[p].job /\ r.a = rec[p].a
      BY <1>2, <3>1 DEF Rec
    <3>3. GoodRec(r)
      BY <1>2, <2>3, <3>2 DEF GoodRec
    <3>4. rec' = [rec EXCEPT ![p] = r]
      BY <2>3, <3>1 DEF Types, Rec
    <3>5. QED
      BY <1>1, <2>1, <3>3, <3>4, RecOnlyKeeps
  <2>4. QED
    BY <2>1, <2>2, <2>3
<1>5. QED
  BY <1>3, <1>4

-----------------------------------------------------------------------------
\* The shop, the provider, the clock and other users of the gate.

LEMMA WorldKeeps ==
  ASSUME IInv, World
  PROVE  IInv'
<1> USE DEF IInv
<1>1. ASSUME NEW j \in Jobs, Opens(j) \/ Ends(j) PROVE IInv'
  <2>1. /\ UNCHANGED <<attempt, lock, evidence, run, rec, attached, page, clicks, charge>>
        /\ UNCHANGED <<world, gate>>
        /\ \/ /\ session[j] = "none" /\ attempt[j].phase # "none"
              /\ session' = [session EXCEPT ![j] = "running"]
           \/ session[j] = "running" /\ session' = [session EXCEPT ![j] = "ended"]
    BY <1>1 DEF Opens, Ends, tables, local
  <2>2. Core'
    <3>1. Rows'
      BY <2>1 DEF Core, Rows, Affordable, Types
    <3>2. ClickedOnce' /\ SettledExactly'
      BY <2>1 DEF Core, ClickedOnce, SettledExactly
    <3>3. QED
      BY <3>1, <3>2 DEF Core
  <2>3. session' \in [Jobs -> {"none", "running", "ended"}]
    BY <2>1 DEF Types
  <2>4. QED
    BY <2>1, <2>2, <2>3, RunKept, RecKept, GateKept DEF Types
<1>2. ASSUME NEW j \in Jobs, NEW new \in Pages, PageChanges(j, new) PROVE IInv'
  <2>1. /\ UNCHANGED <<attempt, lock, evidence, run, rec, attached, session, clicks, charge>>
        /\ UNCHANGED <<world, gate>> /\ page' = [page EXCEPT ![j] = new]
    BY <1>2 DEF PageChanges, tables, local
  <2>2. page' \in [Jobs -> Pages]
    BY <2>1 DEF Types
  <2>3. QED
    BY <2>1, <2>2, CoreKept, RunKept, RecKept, GateKept DEF Types
<1>3. ASSUME Clock PROVE IInv'
  <2>1. /\ UNCHANGED <<attempt, lock, evidence, run, rec, attached, session, page, clicks, charge>>
        /\ Tick /\ UNCHANGED gate
    BY <1>3 DEF Clock, tables, local, shop
  <2>2. QED
    BY <2>1, TickKeeps, CoreKept, RunKept, RecKept DEF Types
<1>4. QED
  BY <1>1, <1>2, <1>3 DEF World

LEMMA GateStepKeeps ==
  ASSUME IInv, NEW p \in Procs, GateStep(p)
  PROVE  IInv'
<1> USE DEF IInv
<1>1. /\ UNCHANGED <<attempt, lock, evidence, run, rec, attached, session, page, clicks, charge>>
      /\ UNCHANGED world
  BY DEF GateStep, GateOnly, tables, local, shop
<1>2. ASSUME Poll(p) PROVE GateTypes' /\ GateInv'
  <2>1. row.name \in Names
    BY <1>2 DEF Poll, GateTypes, Row
  <2>2. QED
    BY <1>1, <1>2, <2>1, CheckKeeps DEF Poll
<1>3. ASSUME NEW n \in Names, Rename(p, n) PROVE GateTypes' /\ GateInv'
  <2>1. row' = Watched(n) /\ UNCHANGED lookup
    BY <1>3 DEF Rename
  <2>2. QED
    BY <1>1, <2>1, WatchedRow, RowMoved
<1>4. GateTypes' /\ GateInv'
  BY <1>2, <1>3 DEF GateStep
<1>5. QED
  BY <1>1, <1>4, CoreKept, RunKept, RecKept DEF Types

LEMMA Inductive == IInv /\ [Next]_vars => IInv'
<1> SUFFICES ASSUME IInv, [Next]_vars PROVE IInv'
  OBVIOUS
<1>1. CASE UNCHANGED vars
  <2>1. /\ UNCHANGED <<attempt, lock, evidence, run, rec, attached, session, page, clicks, charge>>
        /\ UNCHANGED <<world, gate>>
    BY <1>1 DEF vars, tables, local, shop
  <2>2. QED
    BY <2>1, CoreKept, RunKept, RecKept, GateKept DEF Types, IInv
<1>2. ASSUME NEW p \in Procs, Work(p) PROVE IInv'
  BY <1>2, SubmitKeeps, ReconcileKeeps, CreatedKeeps, AttachedKeeps, PreparedKeeps,
     PermittedKeeps, ClickKeeps, DeliveredKeeps, FailsKeeps, FoundSessionKeeps, NotYetKeeps,
     SessionReadKeeps, EvidenceReadKeeps, LookupAnswersKeeps DEF Work
<1>3. QED
  BY <1>1, <1>2, GateStepKeeps, CrashKeeps, WorldKeeps DEF Next

LEMMA Invariant == Spec => []IInv
BY InitIInv, Inductive, PTL DEF Spec

-----------------------------------------------------------------------------
\* A browser that still runs belongs to the attempt that holds its context: no
\* crash, late answer or settlement lets two purchases share an account's context.
THEOREM ContextsAreHeld == Spec => []ContextExclusive
<1>1. IInv => ContextExclusive
  BY DEF IInv, Core, Rows, ContextExclusive
<1>2. QED
  BY <1>1, Invariant, PTL

\* A purchase is clicked at most once and after its row says so; it is settled
\* with a charge of what was approved, within its budget, and by no other's.
THEOREM PurchasesAreMadeOnce == Spec => []ChargedOnce
<1>1. IInv => TypeOK
  <2> SUFFICES ASSUME IInv PROVE TypeOK
    OBVIOUS
  <2>1. GateTypeOK
    BY DEF IInv, GateTypes, GateTypeOK
  <2>2. ASSUME NEW p \in Procs
        PROVE  /\ run[p].pc \in RunPC /\ rec[p].pc \in RecPC
               /\ run[p].pc # "idle" => run[p].job \in Jobs /\ run[p].a \in Attempts
               /\ rec[p].pc # "idle" => rec[p].job \in Jobs /\ rec[p].a \in Attempts
               /\ attached[p] \subseteq Jobs
    BY DEF IInv, Types, Run, Rec, Runners, GoodRun, Recs, GoodRec
  <2>3. QED
    BY <2>1, <2>2 DEF IInv, Types, TypeOK
<1>2. IInv => ChargedOnce
  BY <1>1 DEF IInv, Core, ChargedOnce
<1>3. QED
  BY <1>2, Invariant, PTL

\* Every click is permitted by a fresh answer under the recipient's name, and by
\* the last one: no lookup of that name still under way is younger.
THEOREM PermitsAreFresh == Spec => PermitIsFresh
<1> DEFINE Fresh1 ==
      \A p \in Procs : run[p].pc # "clicking" /\ run'[p].pc = "clicking" =>
        LET n == NameOf[run[p].job] IN
        /\ row.name = n
        /\ \E t \in aired : now - Fresh <= t /\ t <= now
        /\ \A q \in Procs : lookup[q][n] # None => lookup[q][n].token < row.rev - 1
<1>1. IInv /\ [Next]_vars => Fresh1
  <2> SUFFICES ASSUME IInv, [Next]_vars, NEW p \in Procs,
                      run[p].pc # "clicking", run'[p].pc = "clicking"
               PROVE  LET n == NameOf[run[p].job] IN
                      /\ row.name = n
                      /\ \E t \in aired : now - Fresh <= t /\ t <= now
                      /\ \A q \in Procs : lookup[q][n] # None => lookup[q][n].token < row.rev - 1
    OBVIOUS
  <2>1. Permitted(p)
    <3>1. Idle.pc # "clicking" /\ run \in [Procs -> Run]
      BY DEF Idle, IInv, Types
    <3>2. ASSUME NEW q \in Procs, NEW j \in Jobs, Submit(q, j) PROVE run'[p].pc # "clicking"
      BY <3>1, <3>2 DEF Submit
    <3>3. ASSUME NEW q \in Procs, Created(q) \/ Attached(q) \/ Prepared(q) \/ Click(q)
          PROVE  run'[p].pc # "clicking"
      BY <3>1, <3>3 DEF Created, Attached, Prepared, Click, Stopped, Run
    <3>4. ASSUME NEW q \in Procs, Delivered(q) \/ Fails(q) \/ FailsAttached(q) \/ Crash(q)
          PROVE  run'[p].pc # "clicking"
      BY <3>1, <3>4 DEF Delivered, Fails, FailsAttached, Crash, Stopped
    <3>5. ASSUME NEW q \in Procs, NEW n \in Names, NEW t \in Times \cup {None},
                 LookupAnswers(q, n, t)
          PROVE  run'[p].pc # "clicking"
      BY <3>1, <3>5 DEF LookupAnswers, Heard, Stopped, Run
    <3>6. ASSUME UNCHANGED run PROVE FALSE
      BY <3>6
    <3>7. ASSUME NEW q \in Procs,
                 \/ \E j \in Jobs : Reconcile(q, j) \/ EvidenceRead(q, j)
                 \/ FoundSession(q) \/ NotYet(q) \/ SessionRead(q) \/ Released(q)
                 \/ GateStep(q)
          PROVE  FALSE
      BY <3>6, <3>7 DEF Reconcile, EvidenceRead, FoundSession, NotYet, SessionRead, Released,
                        GateStep, GateOnly, local
    <3>8. ASSUME World \/ UNCHANGED vars PROVE FALSE
      BY <3>6, <3>8 DEF World, Opens, Ends, PageChanges, Clock, local, vars
    <3>9. PICK q \in Procs : Permitted(q)
      BY <3>2, <3>3, <3>4, <3>5, <3>7, <3>8 DEF Next, Work
    <3>10. q = p
      BY <3>1, <3>9 DEF Permitted
    <3>11. QED
      BY <3>9, <3>10
  <2>2. run[p].job \in Jobs /\ FreshLive(NameOf[run[p].job])
    BY <2>1 DEF Permitted, Permit, IInv, Runners, GoodRun
  <2>3. row.at \in Times /\ (now - row.at <= Fresh => row.at \in aired)
    BY <2>2 DEF FreshLive, IInv, GateInv
  <2>4. row.at \in aired /\ now - Fresh <= row.at /\ row.at <= now
    BY <2>2, <2>3, LiveGateAssumption DEF FreshLive, Times, IInv, GateTypes
  <2>5. NameOf[run[p].job] \in Names
    BY <2>2, BrowserAssumption
  <2>6. QED
    BY <2>2, <2>4, <2>5 DEF FreshLive, IInv, GateInv
<1>2. IInv /\ [Next]_vars => [Fresh1]_vars
  BY <1>1
<1>3. QED
  BY <1>2, Invariant, PTL DEF Spec, PermitIsFresh

=============================================================================
