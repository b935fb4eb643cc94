--------------------------- MODULE BrowserRunner ---------------------------
(***************************************************************************)
(* The durable purchase coordinator of server/agents/browser.ts over the    *)
(* live gate, the Browserbase provider and connector and the Twitch and     *)
(* Kick checkout drivers (server/providers): an attempt locks its account's *)
(* browser context, opens one session, reads a quote, and clicks once after *)
(* "submitting" is committed; afterwards it is only reconciled.             *)
(*                                                                          *)
(* Every process runs one submit and one reconcile at a time.  "session",   *)
(* "page", "clicks" and "charge" belong to Browserbase, the shop and the    *)
(* issuer.  The layout of a page is abstracted to what a quote says of it.  *)
(***************************************************************************)
EXTENDS LiveGate

CONSTANTS
  Jobs,
  NameOf,      \* job.recipient.username
  PlatformOf,  \* job.recipient.platform
  ContextOf,   \* the browser context of the platform's account
  MayCite,     \* jobs whose charge the evidence reader may cite for a job
  Totals,      \* what a checkout page may ask, in cents
  MaxSpend,    \* min(account.maxSpendUsdCents, job.streamerBudgetUsdCents)
  QuoteLife,   \* age in ticks beyond which a quote has expired (30 s)
  SessionLife, \* ticks until a session expires
  MaxFaults    \* bound on crashes and lost answers

ASSUME BrowserAssumption ==
  /\ NameOf \in [Jobs -> Names]
  /\ PlatformOf \in [Jobs -> {"twitch", "kick"}]
  /\ \A i, j \in Jobs : PlatformOf[i] = PlatformOf[j] => ContextOf[i] = ContextOf[j]
  /\ MayCite \in [Jobs -> SUBSET Jobs] /\ \A j \in Jobs : j \in MayCite[j]
  /\ Totals \subseteq Nat \ {0} /\ MaxSpend \in Nat
  /\ QuoteLife \in Nat /\ SessionLife \in Nat /\ MaxFaults \in Nat
  /\ None \notin Jobs

VARIABLES
  attempt,   \* agent_browser_attempts
  lock,      \* agent_browser_context_locks
  evidence,  \* agent_browser_evidence: whose charge a job was settled with
  run,       \* submit() of each process
  rec,       \* reconcile() of each process
  attached,  \* attachedSessions of each process
  stuck,     \* processes with a connection whose disconnect is uncertain
  session,   \* the provider's session of an attempt
  page,      \* what the checkout page shows
  clicks,    \* purchases clicked
  charge,    \* what the card was charged
  faults

tables == <<attempt, lock, evidence>>
local == <<run, rec, attached, stuck>>
shop == <<session, page, clicks, charge>>
vars == <<world, gate, tables, local, shop, faults>>

Contexts == {ContextOf[j] : j \in Jobs}
Phases == {"none", "provisioning", "prepared", "submitting", "observed", "settled"}
Quotes == [total : Totals, at : Times]
Pages == [total : Totals, shows : {"review", "native", "other"}]
Attempts == [phase : Phases, expires : Nat \cup {None},
             quote : Quotes \cup {None}, submitted : Times \cup {None}]
Charges == [amount : Totals, at : Times]

NoAttempt == [phase |-> "none", expires |-> None, quote |-> None, submitted |-> None]
Idle == [pc |-> "idle", job |-> None, a |-> NoAttempt, of |-> None]

RunPC == {"idle", "creating", "attaching", "preparing", "live", "reviewing",
          "clicking", "waiting"}
RecPC == {"idle", "finding", "reading", "getting", "releasing"}

Init ==
  /\ GateInit
  /\ attempt = [j \in Jobs |-> NoAttempt]
  /\ lock = [c \in Contexts |-> None]
  /\ evidence = [j \in Jobs |-> None]
  /\ run = [p \in Procs |-> Idle] /\ rec = [p \in Procs |-> Idle]
  /\ attached = [p \in Procs |-> {}] /\ stuck = {}
  /\ session = [j \in Jobs |-> "none"]
  /\ page \in [Jobs -> {[total |-> t, shows |-> "review"] : t \in Totals \cap 1 .. MaxSpend}]
  /\ clicks = [j \in Jobs |-> 0]
  /\ charge = [j \in Jobs |-> None]
  /\ faults = 0

-----------------------------------------------------------------------------
\* Rows.

\* The WHERE of save(): the payload is the one this caller last saw.
Matches(j, a) == attempt[j] = a

\* ownsLease(): the lock is this attempt's, its session recorded and unexpired.
Owns(j) ==
  /\ lock[ContextOf[j]] = j
  /\ attempt[j].phase # "settled"
  /\ attempt[j].expires # None /\ attempt[j].expires > now

\* parseTwitchCheckout(): a total in the shop's own currency is quoted, too.
TwitchQuote(j) ==
  IF page[j].shows \in {"review", "native"} /\ page[j].total <= MaxSpend
  THEN [total |-> page[j].total, usd |-> page[j].shows = "review"] ELSE None

\* quote() of the Kick driver: dollars only.
KickQuote(j) ==
  IF page[j].shows = "review" /\ page[j].total <= MaxSpend
  THEN [total |-> page[j].total, usd |-> TRUE] ELSE None

Read(j) == IF PlatformOf[j] = "twitch" THEN TwitchQuote(j) ELSE KickQuote(j)

\* validateQuote(), which is made when the quote is stored and before the click.
QuoteValid(q) == q.total <= MaxSpend /\ q.at <= now /\ now - q.at <= QuoteLife

-----------------------------------------------------------------------------
\* submit().

\* Mutant: the session is remembered as attached.
DisconnectedNever(p) == attached' = attached

\* withOwnedPage's finally.
Disconnected(p) == attached' = [attached EXCEPT ![p] = @ \ {run[p].job}]

\* A rejected step: what was committed stays.
Stopped(p) == run' = [run EXCEPT ![p] = Idle] /\ Disconnected(p)

\* The primary key of the lock row.
Free(j) == lock[ContextOf[j]] = None

\* submit(), to its first await.  A job that has an attempt is answered with its
\* reference; a context that is locked refuses the transaction.
Submit(p, j) ==
  /\ run[p] = Idle
  /\ attempt[j].phase = "none" /\ Free(j)
  /\ LET a == [NoAttempt EXCEPT !.phase = "provisioning"] IN
     /\ attempt' = [attempt EXCEPT ![j] = a]
     /\ lock' = [lock EXCEPT ![ContextOf[j]] = j]
     /\ run' = [run EXCEPT ![p] = [pc |-> "creating", job |-> j, a |-> a, of |-> None]]
  /\ UNCHANGED <<world, gate, evidence, rec, attached, stuck, shop, faults>>

\* Browserbase opens the session it was asked for, and may do so after the one
\* who asked has gone.
Opens(j) ==
  /\ session[j] = "none" /\ attempt[j].phase # "none"
  /\ session' = [session EXCEPT ![j] = "running"]
  /\ UNCHANGED <<world, gate, tables, local, page, clicks, charge, faults>>

\* createSession() answers: the session is bound to the attempt, the connector
\* checks the lease and attaches.
Created(p) ==
  LET j == run[p].job
      bound == [run[p].a EXCEPT !.expires = now + SessionLife] IN
  /\ run[p].pc = "creating" /\ session[j] = "running"
  /\ IF Matches(j, run[p].a) /\ SessionLife > 0 /\ j \notin attached[p]
     THEN /\ attempt' = [attempt EXCEPT ![j] = bound]
          /\ run' = [run EXCEPT ![p].pc = "attaching", ![p].a = bound]
          /\ attached' = [attached EXCEPT ![p] = @ \cup {j}]
     ELSE Stopped(p) /\ UNCHANGED attempt
  /\ UNCHANGED <<world, gate, lock, evidence, rec, stuck, shop, faults>>

\* The connector's own session request and the CDP connection succeed.
Attached(p) ==
  /\ run[p].pc = "attaching" /\ session[run[p].job] = "running" /\ Owns(run[p].job)
  /\ run' = [run EXCEPT ![p].pc = "preparing"]
  /\ UNCHANGED <<world, gate, tables, rec, attached, stuck, shop, faults>>

\* What prepare() returns of the page, dated.
Quoted(j) == [total |-> Read(j).total, at |-> now]

\* The driver's prepare() returns a quote: it is stored, and the gate is asked.
Prepared(p) ==
  LET j == run[p].job
      a == [run[p].a EXCEPT !.phase = "prepared", !.quote = Quoted(j)] IN
  /\ run[p].pc = "preparing" /\ session[j] = "running"
  /\ Read(j) # None /\ Read(j).usd /\ Owns(j) /\ Matches(j, run[p].a)
  /\ attempt' = [attempt EXCEPT ![j] = a]
  /\ run' = [run EXCEPT ![p].pc = "live", ![p].a = a]
  /\ Check(p, NameOf[j])
  /\ UNCHANGED <<world, lock, evidence, rec, attached, stuck, shop, faults>>

\* requireLive() resolves or rejects with the lookup it joined.
Heard(p, n, t) ==
  LET live == Answer(p, n, t) = "live" IN
  IF run[p].pc = "live" /\ NameOf[run[p].job] = n
  THEN IF live /\ Owns(run[p].job)
       THEN run' = [run EXCEPT ![p].pc = "reviewing"] /\ UNCHANGED attached
       ELSE Stopped(p)
  ELSE UNCHANGED <<run, attached>>

LookupAnswers(p, n, t) ==
  /\ Answered(p, n, t) /\ Heard(p, n, t)
  /\ UNCHANGED <<world, tables, rec, stuck, shop, faults>>

\* Mutant: the final guard trusts the earlier preflight.
PermitOnce(p, j) == QuoteValid(run[p].a.quote) /\ Owns(j)

\* beforeSubmit, synchronous.
Permit(p, j) == QuoteValid(run[p].a.quote) /\ Owns(j) /\ FreshLive(NameOf[j])

\* The driver's submit() reads the review again and compares.
Same(q, j) == Read(j) # None /\ Read(j).usd /\ Read(j).total = q.total

\* Mutant: the row is left as it was until the click has been confirmed.
MarkedLater(a) == [a EXCEPT !.submitted = now]

\* What beforeSubmit commits.
Marked(a) == [a EXCEPT !.phase = "submitting", !.submitted = now]

\* The driver's submit(), to the click it issues: the page is read again, the
\* permit is checked and "submitting" committed in one synchronous stretch.
Permitted(p) ==
  LET j == run[p].job
      a == Marked(run[p].a) IN
  /\ run[p].pc = "reviewing" /\ session[j] = "running"
  /\ Same(run[p].a.quote, j)
  /\ Permit(p, j) /\ Matches(j, run[p].a)
  /\ attempt' = [attempt EXCEPT ![j] = a]
  /\ run' = [run EXCEPT ![p].pc = "clicking", ![p].a = a]
  /\ UNCHANGED <<world, gate, lock, evidence, rec, attached, stuck, shop, faults>>

\* The click takes effect: what the page asks then is charged.
Click(p) ==
  LET j == run[p].job IN
  /\ run[p].pc = "clicking" /\ session[j] = "running"
  /\ clicks' = [clicks EXCEPT ![j] = @ + 1]
  /\ charge' = [charge EXCEPT ![j] = [amount |-> page[j].total, at |-> now]]
  /\ run' = [run EXCEPT ![p].pc = "waiting"]
  /\ UNCHANGED <<world, gate, tables, rec, attached, stuck, session, page, faults>>

\* The confirmation is seen in time.
Delivered(p) ==
  LET j == run[p].job
      a == [run[p].a EXCEPT !.phase = "observed"] IN
  /\ run[p].pc = "waiting" /\ session[j] = "running"
  /\ Owns(j) /\ Matches(j, run[p].a)
  /\ attempt' = [attempt EXCEPT ![j] = a]
  /\ Stopped(p)
  /\ UNCHANGED <<world, gate, lock, evidence, rec, stuck, shop, faults>>

\* Any await rejects or times out: the page differs, a challenge, a lost lease, a
\* closed session.  The attempt is held as it stands.
Fails(p) ==
  /\ run[p].pc \notin {"idle", "live"}
  /\ Stopped(p)
  /\ UNCHANGED <<world, gate, tables, rec, stuck, shop, faults>>

\* The same, and the transport stays open: the connector keeps the session
\* attached for the life of the process.
FailsAttached(p) ==
  /\ run[p].job \in attached[p] /\ run[p].pc # "live" /\ faults < MaxFaults
  /\ run' = [run EXCEPT ![p] = Idle]
  /\ stuck' = stuck \cup {p}
  /\ faults' = faults + 1
  /\ UNCHANGED <<world, gate, tables, rec, attached, shop>>

-----------------------------------------------------------------------------
\* reconcile().

RecDone(p) == rec' = [rec EXCEPT ![p] = Idle]

Reconcile(p, j) ==
  /\ rec[p] = Idle
  /\ LET a == attempt[j]
         next == IF a.expires = None THEN "finding" ELSE "reading" IN
     /\ a.phase \notin {"none", "settled"}
     /\ a.expires = None \/ a.phase \in {"submitting", "observed"}
     /\ rec' = [rec EXCEPT ![p] = [pc |-> next, job |-> j, a |-> a, of |-> None]]
  /\ UNCHANGED <<world, gate, tables, run, attached, stuck, shop, faults>>

\* findSessions() answers: exactly one is bound, if the attempt is as it was.
FoundSession(p) ==
  LET j == rec[p].job
      bound == [rec[p].a EXCEPT !.expires = now + SessionLife] IN
  /\ rec[p].pc = "finding"
  /\ attempt' = IF session[j] # "none" /\ Matches(j, rec[p].a)
                THEN [attempt EXCEPT ![j] = bound] ELSE attempt
  /\ RecDone(p)
  /\ UNCHANGED <<world, gate, lock, evidence, run, attached, stuck, shop, faults>>

\* validateEvidence().
EvidenceValid(c, a) == c.amount = a.quote.total /\ c.at >= a.submitted

\* hasActiveConnection().
Detached(p, j) == j \notin attached[p]

\* readEvidence() answers with the posted charge of a job it takes for this one.
EvidenceRead(p, k) ==
  LET j == rec[p].job IN
  /\ rec[p].pc = "reading" /\ k \in MayCite[j] /\ charge[k] # None
  /\ rec' = [rec EXCEPT ![p] = IF EvidenceValid(charge[k], rec[p].a) /\ Detached(p, j)
                               THEN [@ EXCEPT !.pc = "getting", !.of = k] ELSE Idle]
  /\ UNCHANGED <<world, gate, tables, run, attached, stuck, shop, faults>>

\* It has none yet, or an await of reconcile() rejects.
NotYet(p) ==
  /\ rec[p].pc # "idle"
  /\ RecDone(p)
  /\ UNCHANGED <<world, gate, tables, run, attached, stuck, shop, faults>>

\* Mutant: the settlement does not wait for the session to end.
EndedAlways(j) == TRUE

\* The provider's status is a terminal one.
Ended(j) == session[j] = "ended"

\* The primary and the unique key of agent_browser_evidence.
Unused(k, j) == \A i \in Jobs : evidence[i] # k

\* The transaction at the end of reconcile(): evidence, phase and lock together.
Settle(p) ==
  LET j == rec[p].job  c == ContextOf[j] IN
  IF Matches(j, rec[p].a) /\ Unused(rec[p].of, j) /\ lock[c] = j
  THEN /\ attempt' = [attempt EXCEPT ![j] = [rec[p].a EXCEPT !.phase = "settled"]]
       /\ evidence' = [evidence EXCEPT ![j] = rec[p].of]
       /\ lock' = [lock EXCEPT ![c] = None]
  ELSE UNCHANGED tables

\* getSession() answers: a session that still runs is asked to stop.
SessionRead(p) ==
  /\ rec[p].pc = "getting"
  /\ IF Ended(rec[p].job) THEN Settle(p) /\ RecDone(p)
     ELSE rec' = [rec EXCEPT ![p].pc = "releasing"] /\ UNCHANGED tables
  /\ UNCHANGED <<world, gate, run, attached, stuck, shop, faults>>

\* releaseSession() answers, when the session has stopped or before.
Released(p) ==
  /\ rec[p].pc = "releasing"
  /\ IF Ended(rec[p].job) THEN Settle(p) ELSE UNCHANGED tables
  /\ RecDone(p)
  /\ UNCHANGED <<world, gate, run, attached, stuck, shop, faults>>

-----------------------------------------------------------------------------
\* The shop, the provider, other users of the gate, and failures.

\* A session ends by itself or because a process asked for it.
Ends(j) ==
  /\ session[j] = "running"
  /\ session' = [session EXCEPT ![j] = "ended"]
  /\ UNCHANGED <<world, gate, tables, local, page, clicks, charge, faults>>

PageChanges(j, new) ==
  /\ faults < MaxFaults /\ faults' = faults + 1
  /\ page' = [page EXCEPT ![j] = new]
  /\ UNCHANGED <<world, gate, tables, local, session, clicks, charge>>

GateOnly == UNCHANGED <<world, tables, local, shop, faults>>

GateStep(p) ==
  \/ Poll(p) /\ GateOnly
  \/ \E n \in Names : Rename(p, n) /\ GateOnly

Clock == Tick /\ UNCHANGED <<gate, tables, local, shop, faults>>

Crash(p) ==
  /\ faults < MaxFaults /\ faults' = faults + 1
  /\ Restarted(p)
  /\ run' = [run EXCEPT ![p] = Idle] /\ rec' = [rec EXCEPT ![p] = Idle]
  /\ attached' = [attached EXCEPT ![p] = {}] /\ stuck' = stuck \ {p}
  /\ UNCHANGED <<world, tables, shop>>

Work(p) ==
  \/ \E j \in Jobs : Submit(p, j) \/ Reconcile(p, j)
  \/ Created(p) \/ Attached(p) \/ Prepared(p) \/ Permitted(p) \/ Click(p)
  \/ Delivered(p) \/ Fails(p) \/ FailsAttached(p)
  \/ FoundSession(p) \/ NotYet(p) \/ SessionRead(p) \/ Released(p)
  \/ \E k \in Jobs : EvidenceRead(p, k)
  \/ \E n \in Names, t \in Times \cup {None} : LookupAnswers(p, n, t)

World ==
  \/ \E j \in Jobs : Opens(j) \/ Ends(j)
  \/ \E j \in Jobs, new \in Pages : PageChanges(j, new)
  \/ Clock

Next == (\E p \in Procs : Work(p) \/ GateStep(p) \/ Crash(p)) \/ World

Spec == Init /\ [][Next]_vars

\* The worker's cycle asks again and again; the reader in the end tells of the
\* job's own charge and is heard; a session that was asked to stop stops.
Fairness ==
  /\ \A p \in Procs :
       /\ \A j \in Jobs : /\ SF_vars(Reconcile(p, j))
                          /\ SF_vars(EvidenceRead(p, j) /\ rec[p].job = j)
       /\ SF_vars(SessionRead(p) /\ rec[p].of = rec[p].job)
       /\ WF_vars(FoundSession(p)) /\ WF_vars(SessionRead(p)) /\ WF_vars(Released(p))
       /\ WF_vars(Fails(p))
  /\ \A j \in Jobs : WF_vars(Ends(j))

FairSpec == Spec /\ Fairness

-----------------------------------------------------------------------------
\* Every variable has its type, and a local snapshot is that of a job.
TypeOK ==
  /\ GateTypeOK
  /\ attempt \in [Jobs -> Attempts]
  /\ lock \in [Contexts -> Jobs \cup {None}]
  /\ evidence \in [Jobs -> Jobs \cup {None}]
  /\ \A p \in Procs :
       /\ run[p].pc \in RunPC /\ rec[p].pc \in RecPC
       /\ run[p].pc # "idle" => run[p].job \in Jobs /\ run[p].a \in Attempts
       /\ rec[p].pc # "idle" => rec[p].job \in Jobs /\ rec[p].a \in Attempts
       /\ attached[p] \subseteq Jobs
  /\ session \in [Jobs -> {"none", "running", "ended"}]
  /\ clicks \in [Jobs -> Nat]
  /\ \A j \in Jobs : charge[j] = None \/ charge[j] \in Charges

\* The purchase is clicked at most once, and only after the row says so: whatever
\* crashes, whoever calls submit() again (driver.submit and its callback).
ClickedOnce ==
  \A j \in Jobs :
    /\ clicks[j] <= 1
    /\ clicks[j] = 1 => attempt[j].phase \in {"submitting", "observed", "settled"}

\* A browser that still runs belongs to the attempt that holds its context: two
\* purchases never share an account's context, also across restarts and answers
\* that came too late (the lock rows and the settlement that frees them).
ContextExclusive ==
  \A j \in Jobs : session[j] = "running" => lock[ContextOf[j]] = j

\* A settled purchase was clicked, charged exactly what was approved within its
\* budget, and no charge settles two jobs (validateEvidence, evidence keys).
SettledExactly ==
  \A j \in Jobs : attempt[j].phase = "settled" =>
    /\ evidence[j] # None
    /\ charge[evidence[j]].amount = attempt[j].quote.total
    /\ attempt[j].quote.total <= MaxSpend
    /\ \A i \in Jobs \ {j} : evidence[i] # evidence[j]

\* A purchase is made once, for what was approved.
ChargedOnce == TypeOK /\ ClickedOnce /\ SettledExactly

\* A click is permitted only while the channel was seen on air within the window,
\* under the recipient's name, by a lookup that every other one still under way
\* came before (requireLive, assertFreshLive, the guards of perform()).
PermitIsFresh ==
  [][\A p \in Procs : run[p].pc # "clicking" /\ run'[p].pc = "clicking" =>
       LET n == NameOf[run[p].job] IN
       /\ row.name = n
       /\ \E t \in aired : now - Fresh <= t /\ t <= now
       /\ \A q \in Procs : lookup[q][n] # None => lookup[q][n].token < row.rev - 1]_vars

\* A purchase that was charged what was approved is settled and its context freed,
\* while some process has no uncertain connection (reconcile).
ChargedSettles ==
  \A j \in Jobs :
    (charge[j] # None /\ charge[j].amount = attempt[j].quote.total /\ stuck = {})
      ~> (attempt[j].phase = "settled" \/ stuck # {})
=============================================================================
