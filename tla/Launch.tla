------------------------------- MODULE Launch -------------------------------
(***************************************************************************)
(* Launching a token: the launch service (server/launch/service.ts) over    *)
(* the Pump chain adapter (pump-chain.ts), and the page that drives it      *)
(* (src/pages/Launch.tsx) through a network that loses answers and delays   *)
(* requests.  One process serves one user; a launch is one request id of    *)
(* the page.  The service's own state is the table of intents: every save   *)
(* is a compare-and-swap on the payload that was read before the await.     *)
(*                                                                          *)
(* The wallet signs a prepared message, perhaps more than once; the chain   *)
(* executes a message at most once, and never after its signing window.     *)
(* Input validation, key storage and the token's metadata are abstracted to *)
(* what is prepared and what is verified.                                   *)
(***************************************************************************)
EXTENDS Integers, FiniteSets

CONSTANTS
  MaxLaunches, \* bound on the page's request ids, which it draws one after another
               \* (of which a user may have three active, the refusal of a fourth is out)
  Sigs,       \* signatures a wallet may give for one message
  Limit,      \* rows that reconcilePending() takes (24), all of them at once
  MaxSigned,  \* bound on the launches the wallet signs
  MaxFaults,  \* bound on crashes, timeouts, lost answers, forks, failures, retries and
              \* on statuses read from a node that is behind
  None        \* nothing

Launches == 1 .. MaxLaunches

VARIABLES
  row,        \* launch_intents
  earlier,    \* launch_reconciliation_checks: the launches checked before each, or never
  registered, \* launches whose token operations.registerToken() has entered
  prep,       \* the map "preparing"
  sub,        \* the map "submitting"
  check,      \* the map "reconciling", by launch and signature
  page,       \* the launch page
  drawn,      \* the last request id drawn
  mine,       \* launches this page has begun
  late,       \* requests the page has given up and that may still arrive
  signed,     \* the wallet: signatures given
  pool,       \* the chain: signatures the service has sent
  tx,         \* the chain: what became of each launch's message
  window,     \* the chain: the signing window, by finalized block height
  faults      \* counts faults

tables == <<row, earlier, registered>>
service == <<prep, sub, check>>
client == <<page, drawn, mine, late, signed>>
chain == <<pool, tx, window>>
vars == <<tables, service, client, chain, faults>>

Statuses == {"preparing", "prepared", "submitted", "confirmed", "failed", "review"}
Records == [status : Statuses, prepared : BOOLEAN, sig : Sigs \cup {None}]
Checks == [a : Records, step : {"height", "mint", "status", "late"}]
Submissions == [pc : {"idle", "sending", "rechecking", "resending", "waiting"},
                a : Records \cup {None}]
Pages == [pc : {"form", "preparing", "getting", "signing", "submitting", "recovering",
                "cancelling", "open"},
          l : Launches \cup {None}, shows : Statuses \cup {None},
          req : {"none", "out", "reads", "served"}]
Txs == [at : {"none", "processed", "final"}, sig : Sigs \cup {None}, ok : BOOLEAN]

ASSUME LaunchAssumption ==
  /\ MaxLaunches \in 0 .. 3 /\ Limit \in 1 .. 3 /\ MaxFaults \in Nat /\ MaxSigned \in Nat
  /\ None \notin Sigs \cup Launches \cup Records \cup Checks

NoSub == [pc |-> "idle", a |-> None]
NoPage == [pc |-> "form", l |-> None, shows |-> None, req |-> "none"]
NoTx == [at |-> "none", sig |-> None, ok |-> FALSE]

Init ==
  /\ row = [l \in Launches |-> None]
  /\ earlier = [l \in Launches |-> {}] /\ registered = {}
  /\ prep = [l \in Launches |-> None] /\ sub = [l \in Launches |-> NoSub]
  /\ check = [l \in Launches |-> [s \in Sigs \cup {None} |-> None]] 
  /\ page = NoPage /\ drawn = 0 /\ mine = {} /\ late = {}
  /\ signed = [l \in Launches |-> {}]
  /\ pool = [l \in Launches |-> {}] /\ tx = [l \in Launches |-> NoTx]
  /\ window = [l \in Launches |-> "open"]
  /\ faults = 0

Fault == faults < MaxFaults /\ faults' = faults + 1

-----------------------------------------------------------------------------
\* Rows.

Final(a) == a.status \in {"confirmed", "failed"}

\* Mutant: the save does not compare.
SwapBlind(l, old, new) == row' = IF Final(row[l]) THEN row ELSE [row EXCEPT ![l] = new]

\* write(): the payload is still the one that was read.  (Of two saves of one
\* content, updatedAt tells the later one unless they share a millisecond.)
Swap(l, old, new) ==
  row' = IF row[l] = old /\ ~Final(old) THEN [row EXCEPT ![l] = new] ELSE row

Swapped(l, old) == row[l] = old /\ ~Final(old)

-----------------------------------------------------------------------------
\* prepare().

\* The intent is inserted and its preparation begins.
Prepares(l) ==
  /\ row[l] = None
  /\ row' = [row EXCEPT ![l] = [status |-> "preparing", prepared |-> FALSE, sig |-> None]]
  /\ prep' = [prep EXCEPT ![l] = row'[l]]

\* prepareWithConnection(): the message, with the window in which it can be signed.
Built(a) == [a EXCEPT !.prepared = TRUE]

\* ... if its simulation and its cost, and all that went before, are as they should.
Priced(a, ok) ==
  IF ok THEN [Built(a) EXCEPT !.status = "prepared"] ELSE [a EXCEPT !.status = "failed"]

\* chain.prepare() answers or rejects: finishPreparation() saves either.
Prepared(l, ok) ==
  /\ prep[l] # None
  /\ Swap(l, prep[l], Priced(prep[l], ok))
  /\ prep' = [prep EXCEPT ![l] = None]
  /\ IF ok THEN UNCHANGED faults ELSE Fault
  /\ UNCHANGED <<earlier, registered, sub, check, client, chain>>

-----------------------------------------------------------------------------
\* reconcileRecord(): one check for each launch and signature at a time.

First(a) == IF a.sig = None THEN "height" ELSE "status"

\* A check of record a, joined if it is under way, needless if there is nothing
\* to look for.
Checking(l, a) ==
  check' = IF a.prepared /\ ~Final(a) /\ check[l][a.sig] = None
           THEN [check EXCEPT ![l][a.sig] = [a |-> a, step |-> First(a)]] ELSE check

\* verifyRecord() with what the chain said, or ("none") nothing it could use.
\* The token is registered before the row is saved.
Verified(l, s, result) ==
  LET a == check[l][s].a
      new == CASE result \in {"confirmed", "failed", "review"} -> [a EXCEPT !.status = result]
               [] result = "pending" /\ a.sig = None -> [a EXCEPT !.status = "prepared"]
               [] OTHER -> a
  IN
  /\ registered' = IF result = "confirmed" THEN registered \cup {l} ELSE registered
  /\ Swap(l, a, new)
  /\ check' = [check EXCEPT ![l][s] = None]

\* A submit() that waits for this check goes on with its result: only what is still
\* pending may be sent again, and only after the row says so.
Resumed(l, s, result) ==
  LET again == result = "pending" /\ ~Final(row'[l]) /\ row'[l].sig = s IN
  sub' = IF s = None \/ sub[l].pc \notin {"rechecking", "waiting"} THEN sub
         ELSE [sub EXCEPT ![l] = IF sub[l].pc = "rechecking" /\ again
                                 THEN [pc |-> "resending", a |-> row'[l]] ELSE NoSub]

Result(l, s, result) ==
  /\ Verified(l, s, result) /\ Resumed(l, s, result)
  /\ UNCHANGED <<earlier, prep, client, chain>>

\* Mutant: the height of a block that is not finalized yet.
PastConfirmed(l) == window[l] # "open"

\* getBlockHeight('finalized') > lastValidBlockHeight.
Past(l) == window[l] = "closed"

Landed(l) == tx[l].at = "final" /\ tx[l].ok

\* What a read may say of a fact: every read goes to a node of its own, which may be
\* behind and know of it yet nothing.
Read(fact) == IF fact THEN BOOLEAN ELSE {FALSE}

\* inspect() without a signature: first the height, then the mint.
Height(l) ==
  /\ check[l][None] # None /\ check[l][None].step = "height"
  /\ \/ /\ TRUE \in Read(Past(l))
        /\ check' = [check EXCEPT ![l][None].step = "mint"]
        /\ UNCHANGED <<tables, prep, sub, client, chain>>
     \/ Result(l, None, "pending")
  /\ UNCHANGED faults

Mint(l) ==
  /\ check[l][None] # None /\ check[l][None].step = "mint"
  /\ \E exists \in Read(Landed(l)) : Result(l, None, IF exists THEN "review" ELSE "failed")
  /\ UNCHANGED faults

\* getSignatureStatuses() knows it as finalized.
Finalized(l, s) == tx[l].at = "final" /\ tx[l].sig = s

\* inspect() with a signature: its status, else the height; then the transaction,
\* the curve, the pool, the mint and the reserve are as was prepared.
Status(l, s) ==
  /\ check[l][s] # None /\ check[l][s].step = "status"
  /\ \/ /\ Finalized(l, s)
        /\ Result(l, s, IF tx[l].ok THEN "confirmed" ELSE "failed")
        /\ UNCHANGED faults
     \/ /\ check' = [check EXCEPT ![l][s].step = "late"]
        /\ IF Finalized(l, s) THEN Fault ELSE UNCHANGED faults
        /\ UNCHANGED <<tables, prep, sub, client, chain>>

Expired(l, s) ==
  /\ check[l][s] # None /\ check[l][s].step = "late"
  /\ \E past \in Read(Past(l)) : Result(l, s, IF past THEN "review" ELSE "pending")
  /\ UNCHANGED faults

\* A read or the registration throws ("review" is saved), or is too slow (nothing).
CheckFails(l, s, timeout) ==
  /\ check[l][s] # None /\ Fault
  /\ Result(l, s, IF timeout THEN "none" ELSE "review")

-----------------------------------------------------------------------------
\* submit(), cancel(), and the worker's reconcilePending().

\* The handler of a signed transaction, to its first await: the signature is saved
\* and sent, or, if it is the one that is saved, checked and sent again.
Submits(l, s) ==
  LET a == row[l]  b == [a EXCEPT !.sig = s, !.status = "submitted"] IN
  /\ a # None /\ a.prepared
  /\ IF a.sig = None /\ a.status \in {"prepared", "review"}
     THEN /\ Swap(l, a, b)
          /\ sub' = [sub EXCEPT ![l] = [pc |-> "sending", a |-> b]]
          /\ UNCHANGED check
     ELSE IF a.sig = s /\ sub[l] = NoSub /\ ~Final(a)
     THEN /\ sub' = [sub EXCEPT ![l] = [pc |-> "rechecking", a |-> a]]
          /\ Checking(l, a) /\ UNCHANGED row
     ELSE UNCHANGED <<row, sub, check>>

\* The recovery saves "submitted" before the bytes are sent again.
Resends(l) ==
  LET a == sub[l].a  b == [a EXCEPT !.status = "submitted"] IN
  /\ sub[l].pc = "resending"
  /\ Swap(l, a, b)
  /\ sub' = [sub EXCEPT ![l] = IF Swapped(l, a) THEN [pc |-> "sending", a |-> b] ELSE NoSub]
  /\ UNCHANGED <<earlier, registered, prep, check, client, chain, faults>>

\* chain.broadcast(), as far as it is known to have come: the network has the bytes.
Sent(l, s) == [pool EXCEPT ![l] = @ \cup {s}]

\* broadcastSaved(): chain.broadcast() answers, or rejects with its outcome unknown;
\* then the row is checked.
Broadcasts(l, ok) ==
  LET a == sub[l].a IN
  /\ sub[l].pc = "sending"
  /\ IF ok THEN UNCHANGED <<row, faults>> /\ pool' = Sent(l, a.sig)
     ELSE /\ Fault /\ Swap(l, a, [a EXCEPT !.status = "review"])
          /\ pool' \in {pool, Sent(l, a.sig)}
  /\ Checking(l, row'[l])
  /\ sub' = [sub EXCEPT ![l] = IF check'[l][a.sig] = None THEN NoSub
                               ELSE [pc |-> "waiting", a |-> None]]
  /\ UNCHANGED <<earlier, registered, prep, client, tx, window>>

Cancellable(a) == a.status = "prepared" /\ a.sig = None

Cancels(l) ==
  row' = IF row[l] # None /\ Cancellable(row[l])
         THEN [row EXCEPT ![l].status = "failed"] ELSE row

\* The rows reconcilePending() selects from.
Checkable(l) ==
  /\ row[l] # None /\ row[l].prepared
  /\ row[l].status \in IF row[l].sig # None THEN {"submitted", "review"} ELSE {"prepared", "review"}

\* mark.run(): the row goes behind all others.
Marked(l) == [k \in Launches |-> IF k = l THEN Launches \ {l} ELSE earlier[k] \ {l}]

\* Of the rows never checked, the one created first comes first.
Oldest(l) ==
  LET before == {k \in Launches : Checkable(k) /\ (k \in earlier[l] \/ (l \notin earlier[k] /\ k < l))} IN
  Checkable(l) /\ Cardinality(before) < Limit

\* A run takes the rows whose last check is oldest, and then those that were created
\* first; up to three are checked side by side.
Sweep(l) ==
  /\ Oldest(l)
  /\ earlier' = Marked(l)
  /\ Checking(l, row[l])
  /\ UNCHANGED <<row, registered, prep, sub, client, chain, faults>>

-----------------------------------------------------------------------------
\* The page.  A request that writes is on its way ("out") or in the service's hands
\* ("served"); one that only reads ("reads") is answered at once.

View(l) == row[l].status

\* launchToken().
Begins(l) ==
  /\ page.pc = "form" /\ l = drawn + 1
  /\ drawn' = l
  /\ page' = [NoPage EXCEPT !.pc = "preparing", !.l = l, !.req = "out"]
  /\ mine' = mine \cup {l}
  /\ UNCHANGED <<tables, service, late, signed, chain, faults>>

Form == page' = NoPage

Asks(pc) ==
  page' = [page EXCEPT !.pc = pc, !.req = IF pc \in {"getting", "recovering"} THEN "reads" ELSE "out"]

\* Mutant: what the service says of a launch is shown as it is.
ReceivesAsIs(status) == page' = [page EXCEPT !.pc = "open", !.shows = status, !.req = "none"]

\* receiveLaunch(): the page shows only what it has submitted or found submitted, so
\* "prepared" means that the request has not arrived.
Receives(status) ==
  page' = [page EXCEPT !.pc = "open", !.req = "none",
             !.shows = IF status \in {"preparing", "prepared"}
                       THEN "review" ELSE status]

\* The service's handler of what the page asks.
Arrives ==
  LET l == page.l IN
  /\ page.req = "out"
  /\ page' = [page EXCEPT !.req = "served"]
  /\ CASE page.pc = "preparing" -> Prepares(l) /\ UNCHANGED <<sub, check>>
       [] page.pc = "submitting" -> \E s \in signed[l] : Submits(l, s) /\ UNCHANGED prep
       [] page.pc = "cancelling" -> Cancels(l) /\ UNCHANGED <<prep, sub, check>>
  /\ UNCHANGED <<earlier, registered, drawn, mine, late, signed, chain, faults>>

\* The handler has come to an end.
Done(l) == prep[l] = None /\ (page.pc = "submitting" => sub[l] = NoSub)

\* prepare() is answered with a prepared launch, or with an error.
AnswersPrepare ==
  /\ page.pc = "preparing" /\ page.req = "served" /\ Done(page.l)
  /\ IF View(page.l) = "failed" THEN Form ELSE Asks("getting")
  /\ UNCHANGED <<tables, service, drawn, mine, late, signed, chain, faults>>

\* The launch is read again before the wallet is asked.
AnswersGet ==
  /\ page.pc = "getting"
  /\ CASE row[page.l].sig # None \/ View(page.l) \in {"submitted", "confirmed"} ->
            page' = [page EXCEPT !.pc = "open", !.shows = View(page.l), !.req = "none"]
       [] View(page.l) = "prepared" -> page' = [page EXCEPT !.pc = "signing", !.req = "none"]
       [] OTHER -> Asks("cancelling")
  /\ UNCHANGED <<tables, service, drawn, mine, late, signed, chain, faults>>

\* The wallet signs, or the user declines and the launch is cancelled.
Signs(s) ==
  /\ page.pc = "signing" /\ Cardinality({l \in Launches : signed[l] # {}}) < MaxSigned
  /\ signed' = [signed EXCEPT ![page.l] = {s}]
  /\ page' = [page EXCEPT !.pc = "submitting", !.req = "out"]
  /\ UNCHANGED <<tables, service, drawn, mine, late, chain, faults>>

Declines ==
  /\ page.pc = "signing" /\ Asks("cancelling")
  /\ UNCHANGED <<tables, service, drawn, mine, late, signed, chain, faults>>

\* submit() is answered, with an error when the signature was refused.
AnswersSubmit ==
  /\ page.pc = "submitting" /\ page.req = "served" /\ Done(page.l)
  /\ IF row[page.l].sig \in signed[page.l] THEN Receives(View(page.l)) ELSE Asks("recovering")
  /\ UNCHANGED <<tables, service, drawn, mine, late, signed, chain, faults>>

\* get() reads the row, and has it checked: after a submit that was not answered, in
\* every poll that no action of the user overtakes, and in checkStatus().
Polls ==
  /\ \/ page.pc = "recovering"
     \/ page.pc = "open" /\ page.shows \in {"preparing", "submitted", "review"}
  /\ Receives(View(page.l))
  /\ Checking(page.l, row[page.l])
  /\ UNCHANGED <<tables, prep, sub, drawn, mine, late, signed, chain, faults>>

AnswersCancel ==
  /\ page.pc = "cancelling" /\ page.req = "served" /\ Form
  /\ UNCHANGED <<tables, service, drawn, mine, late, signed, chain, faults>>

\* The request, or its answer, is lost; a request may arrive all the same.
Loses ==
  LET lost == CASE page.pc = "preparing" -> {<<"prepare", page.l, None>>}
                [] page.pc = "submitting" -> {<<"submit", page.l, s>> : s \in signed[page.l]}
                [] page.pc = "cancelling" -> {<<"cancel", page.l, None>>}
                [] OTHER -> {}
  IN
  /\ page.req # "none" /\ Fault
  /\ late' = IF page.req = "out" THEN late \cup lost ELSE late
  /\ CASE page.pc \in {"preparing", "cancelling"} -> Form
       [] page.pc = "getting" -> Asks("cancelling")
       [] page.pc = "submitting" -> Asks("recovering")
       [] page.pc = "recovering" -> Receives("review")
  /\ UNCHANGED <<tables, service, drawn, mine, signed, chain>>

\* A request the page has given up arrives.
ArrivesLate(r) ==
  /\ r \in late /\ late' = late \ {r}
  /\ CASE r[1] = "prepare" -> Prepares(r[2]) /\ UNCHANGED <<sub, check>>
       [] r[1] = "submit" -> Submits(r[2], r[3]) /\ UNCHANGED prep
       [] r[1] = "cancel" -> Cancels(r[2]) /\ UNCHANGED <<prep, sub, check>>
  /\ UNCHANGED <<earlier, registered, page, drawn, mine, signed, chain, faults>>

\* Another client of the user posts the saved transaction again (retry).
Retries(l) ==
  /\ row[l] # None /\ row[l].sig # None
  /\ Submits(l, row[l].sig) /\ Fault
  /\ UNCHANGED <<earlier, registered, prep, client, chain>>

\* Mutant: a launch under review can be put aside.
AwaitingFewer(status) == status \in {"preparing", "prepared", "submitted"}

\* awaitingConfirmation.
Awaiting(status) == status \notin {"confirmed", "failed"}

\* closeDialog().
Closes ==
  /\ page.pc = "open" /\ ~Awaiting(page.shows) /\ Form
  /\ UNCHANGED <<tables, service, drawn, mine, late, signed, chain, faults>>

\* The tab is closed or the identity changes: a new editor knows nothing.
Reloads ==
  /\ page.pc # "form"
  /\ Form /\ mine' = {}
  /\ UNCHANGED <<tables, service, drawn, late, signed, chain, faults>>

-----------------------------------------------------------------------------
\* The chain, and a crash of the service.

OnlyChain == UNCHANGED <<tables, service, client>>

\* A block takes the message with one of the signatures that were sent.
Includes(l, s, ok) ==
  /\ s \in pool[l] /\ tx[l].at = "none" /\ window[l] = "open"
  /\ tx' = [tx EXCEPT ![l] = [at |-> "processed", sig |-> s, ok |-> ok]]
  /\ IF ok THEN UNCHANGED faults ELSE Fault
  /\ OnlyChain /\ UNCHANGED <<pool, window>>

\* Its block becomes final, or is left by a fork.
Finalizes(l) ==
  /\ tx[l].at = "processed" /\ window[l] # "closed"
  /\ tx' = [tx EXCEPT ![l].at = "final"]
  /\ OnlyChain /\ UNCHANGED <<pool, window, faults>>

Forks(l) ==
  /\ tx[l].at = "processed" /\ Fault
  /\ tx' = [tx EXCEPT ![l] = NoTx]
  /\ OnlyChain /\ UNCHANGED <<pool, window>>

\* The wallet sends what it signed by itself.
Sends(l) ==
  /\ ~(signed[l] \subseteq pool[l]) /\ Fault
  /\ pool' = [pool EXCEPT ![l] = @ \cup signed[l]]
  /\ OnlyChain /\ UNCHANGED <<tx, window>>

\* The last valid height is reached by the newest block, then by the finalized one.
Ages(l) ==
  /\ row[l] # None /\ row[l].prepared
  /\ \/ window[l] = "open" /\ window' = [window EXCEPT ![l] = "closing"]
     \/ /\ window[l] = "closing" /\ tx[l].at # "processed"
        /\ window' = [window EXCEPT ![l] = "closed"]
  /\ OnlyChain /\ UNCHANGED <<pool, tx, faults>>

\* A request in the service's hands is lost to the page first.
Crash ==
  /\ page.req # "served" /\ Fault
  /\ prep' = [l \in Launches |-> None] /\ sub' = [l \in Launches |-> NoSub]
  /\ check' = [l \in Launches |-> [s \in Sigs \cup {None} |-> None]]
  /\ UNCHANGED <<tables, client, chain>>

Service(l) ==
  \/ \E ok \in BOOLEAN : Prepared(l, ok) \/ Broadcasts(l, ok)
  \/ Height(l) \/ Mint(l) \/ Resends(l) \/ Sweep(l)
  \/ \E s \in Sigs : Status(l, s) \/ Expired(l, s)
  \/ \E s \in Sigs \cup {None}, timeout \in BOOLEAN : CheckFails(l, s, timeout)

Page ==
  \/ \E l \in Launches : Begins(l) \/ Retries(l)
  \/ Arrives \/ AnswersPrepare \/ AnswersGet \/ AnswersSubmit \/ AnswersCancel \/ Loses
  \/ \E s \in Sigs : Signs(s)
  \/ Declines \/ Polls \/ Closes \/ Reloads
  \/ \E r \in late : ArrivesLate(r)

Chain(l) ==
  \/ \E s \in Sigs, ok \in BOOLEAN : Includes(l, s, ok)
  \/ Finalizes(l) \/ Forks(l) \/ Sends(l) \/ Ages(l)

Next ==
  \/ Page \/ Crash
  \/ \E l \in Launches : Service(l) \/ Chain(l)

Spec == Init /\ [][Next]_vars

\* The worker sweeps in every cycle and its reads are answered; an open page polls.
Fairness ==
  /\ \A l \in Launches : WF_vars(Sweep(l)) /\ WF_vars(\E s \in Sigs : Status(l, s) \/ Expired(l, s))
  /\ WF_vars(Polls) /\ WF_vars(Arrives) /\ WF_vars(AnswersSubmit)

FairSpec == Spec /\ Fairness

-----------------------------------------------------------------------------
Confirmed(l) == row[l] # None /\ row[l].status = "confirmed"

\* Every variable has its type.
TypeOK ==
  /\ row \in [Launches -> Records \cup {None}] /\ prep \in [Launches -> Records \cup {None}]
  /\ sub \in [Launches -> Submissions]
  /\ check \in [Launches -> [Sigs \cup {None} -> Checks \cup {None}]]
  /\ earlier \in [Launches -> SUBSET Launches] /\ registered \subseteq Launches
  /\ page \in Pages
  /\ drawn \in 0 .. MaxLaunches /\ mine \subseteq 1 .. drawn
  /\ late \subseteq {"prepare", "submit", "cancel"} \X (1 .. drawn) \X (Sigs \cup {None})
  /\ signed \in [Launches -> SUBSET Sigs] /\ pool \in [Launches -> SUBSET Sigs]
  /\ tx \in [Launches -> Txs]
  /\ window \in [Launches -> {"open", "closing", "closed"}]
  /\ faults \in Nat

\* A failed launch is there, by a signature that only the wallet sent: the mint was read
\* from a node behind the one that had the height (pump-chain.ts:378-386).
Missed(l) ==
  /\ row[l] # None /\ row[l].status = "failed" /\ row[l].sig = None
  /\ window[l] = "closed" /\ Landed(l)

\* A launch that has failed, by expiry, by cancellation or on the chain, has no token
\* and never gets one, or it was missed; the user is told to start anew (inspect, cancel).
FailedIsDead ==
  \A l \in Launches :
    row[l] # None /\ row[l].status = "failed" => ~Landed(l) \/ Missed(l)

\* A token is registered only for a final transaction that carries the saved
\* signature, and a confirmed launch is registered (verifyRecord).
RegisteredIsFinal ==
  \A l \in Launches :
    /\ l \in registered => Landed(l) /\ tx[l].sig = row[l].sig
    /\ Confirmed(l) => l \in registered

\* What a row says has become of a launch is what the chain will always say,
\* whatever reads, broadcasts and sweeps end in between (write, verifyRecord).
StatusIsTrue == TypeOK /\ FailedIsDead /\ RegisteredIsFinal

\* What became of a launch is known, but for one that was missed.
Over(l) ==
  \/ signed[l] = {} \/ Confirmed(l)
  \/ (window[l] = "closed" \/ tx[l].at = "final") /\ ~Landed(l)
  \/ Missed(l)

\* A page starts another launch only when the one before is confirmed or can no longer
\* come true, or was missed: a lost answer never leads to a second token (LaunchEditor).
NoReplacement == \A l \in mine \ {page.l} : Over(l)

\* A launch whose transaction is final is confirmed in the end, however many others
\* are held in review before it (reconcilePending).
LandedConfirms ==
  \A l \in Launches :
    (row[l] # None /\ Landed(l) /\ row[l].sig = tx[l].sig)
      ~> Confirmed(l)

\* A page that shows a launch learns that it is confirmed (receiveLaunch, the poll).
PageLearns ==
  \A l \in Launches :
    (page.pc = "open" /\ page.l = l /\ Confirmed(l))
      ~> (page.l # l \/ page.shows = "confirmed")
=============================================================================
