--------------------------- MODULE ServicesProofs ---------------------------
(***************************************************************************)
(* What holds of two parts of the services process that share no state:     *)
(* Launch, for as many launches as a user may have active, every set of     *)
(* signatures and any number of faults, and FeeRouter, for any list of lots,*)
(* however they dispute their ids and claims, every number of sources and   *)
(* processes and every limit of the buyback worker.                         *)
(*                                                                          *)
(* A launch's row never says what the chain will not always say, and no     *)
(* page starts a second token while the first may come true.  A claim is    *)
(* split once and exactly, and what is acknowledged is recorded where it    *)
(* was handed to.                                                           *)
(***************************************************************************)
EXTENDS Launch, FeeRouter, TLAPS

-----------------------------------------------------------------------------
\* Launch.

\* A row that was never prepared has come no further, and what a row has saved
\* was signed.
RowHolds(l) == row[l] # None =>
  /\ ~row[l].prepared => row[l].status \in {"preparing", "failed"} /\ row[l].sig = None
  /\ row[l].sig # None => row[l].sig \in signed[l]

\* What the service has under way is about the row as it is, or as it was with the
\* same signature.
PrepHolds(l) == prep[l] # None =>
  prep[l] = row[l] /\ ~row[l].prepared /\ row[l].status = "preparing"

SubHolds(l) == sub[l].pc \in {"sending", "rechecking", "resending"} =>
  /\ row[l] # None /\ sub[l].a # None /\ sub[l].a.prepared
  /\ sub[l].a.sig # None /\ sub[l].a.sig = row[l].sig

CheckHolds(l, s) == check[l][s] # None =>
  /\ row[l] # None /\ row[l].prepared
  /\ check[l][s].a.prepared /\ ~Final(check[l][s].a) /\ check[l][s].a.sig = s
  /\ s # None => row[l].sig = s
  /\ check[l][s].step = "mint" => window[l] = "closed"

\* The chain only has what was signed, and only what is prepared is signed.
ChainHolds(l) ==
  /\ pool[l] \subseteq signed[l]
  /\ tx[l].at # "none" => tx[l].sig \in pool[l]
  /\ window[l] = "closed" => tx[l].at # "processed"
  /\ signed[l] # {} => l <= drawn /\ row[l] # None /\ row[l].prepared

\* What has failed has failed for one of three reasons, each of which is for good; of
\* a launch whose signature was never saved, the second says nothing of the chain.
Dead(l) ==
  \/ signed[l] = {} /\ ~(page.pc = "signing" /\ page.l = l)
  \/ window[l] = "closed" /\ (~Landed(l) \/ row[l].sig = None)
  \/ tx[l].at = "final" /\ ~tx[l].ok

FailedHolds(l) == row[l] # None /\ row[l].status = "failed" => Dead(l)

LaunchHolds(l) ==
  /\ RowHolds(l) /\ PrepHolds(l) /\ SubHolds(l) /\ ChainHolds(l) /\ FailedHolds(l)
  /\ \A s \in Sigs \cup {None} : CheckHolds(l, s)

\* The page, by its step.
PageHolds ==
  /\ page.req # "none" =>
       page.pc \in {"preparing", "getting", "submitting", "recovering", "cancelling"}
  /\ page.req \in {"out", "served"} => page.pc \in {"preparing", "submitting", "cancelling"}
  /\ page.pc = "form" => page.l = None
  /\ page.pc # "form" => page.l \in 1 .. drawn
  /\ page.pc \in {"preparing", "getting", "signing", "cancelling"} => signed[page.l] = {}
  /\ page.pc = "preparing" /\ page.req = "served" => row[page.l] # None
  /\ page.pc \in {"getting", "signing", "submitting", "recovering", "open"} => row[page.l] # None
  /\ page.pc = "signing" => row[page.l].prepared
  /\ page.pc = "open" /\ page.shows \in {"confirmed", "failed"} =>
       row[page.l].status = page.shows

\* A cancellation that is late is of a launch that is never signed.
LateHolds ==
  \A r \in late :
    /\ r[1] = "cancel" => signed[r[2]] = {} /\ page.l # r[2]
    /\ r[1] = "submit" => r[3] \in signed[r[2]]

IInv ==
  /\ TypeOK
  /\ \A l \in Launches : LaunchHolds(l)
  /\ RegisteredIsFinal /\ PageHolds /\ LateHolds /\ NoReplacement

-----------------------------------------------------------------------------
LEMMA InitIInv == Init => IInv
<1> SUFFICES ASSUME Init PROVE IInv
  OBVIOUS
<1>1. TypeOK
  BY LaunchAssumption DEF Init, TypeOK, Launches, NoSub, NoPage, NoTx, Submissions, Pages, Txs
<1>2. \A l \in Launches : LaunchHolds(l)
  BY DEF Init, LaunchHolds, RowHolds, PrepHolds, SubHolds, ChainHolds, FailedHolds, CheckHolds,
         NoSub, NoTx
<1>3. RegisteredIsFinal /\ PageHolds /\ LateHolds /\ NoReplacement
  BY DEF Init, RegisteredIsFinal, PageHolds, LateHolds, NoReplacement, NoPage, Confirmed
<1>4. QED
  BY <1>1, <1>2, <1>3 DEF IInv

-----------------------------------------------------------------------------
\* How a row moves: it begins to be prepared, or is saved over what was read.

Starts(l) ==
  /\ row[l] = None /\ row'[l] = [status |-> "preparing", prepared |-> FALSE, sig |-> None]
  /\ prep'[l] = row'[l]

Saved(l) ==
  /\ row[l] # None /\ ~Final(row[l]) /\ row'[l] \in Records /\ prep'[l] = None
  /\ row[l].prepared => row'[l].prepared
  /\ row[l].sig # None => row'[l].sig = row[l].sig
  /\ row'[l].sig # None => row'[l].sig \in signed[l]
  /\ ~row'[l].prepared => row'[l].status \in {"preparing", "failed"} /\ row'[l].sig = None
  /\ row'[l].status = "failed" => Dead(l) /\ row'[l].sig = row[l].sig
  /\ row'[l].status = "confirmed" => l \in registered'

Stays(l) == row'[l] = row[l] /\ prep'[l] \in {None, prep[l]}

Moves ==
  /\ \A l \in Launches : Stays(l) \/ Starts(l) \/ Saved(l)
  /\ \A l \in Launches : sub'[l] = sub[l] \/ SubHolds(l)'
  /\ \A l \in Launches, s \in Sigs \cup {None} : check'[l][s] = check[l][s] \/ CheckHolds(l, s)'
  /\ \A l \in Launches : pool[l] \subseteq pool'[l] /\ pool'[l] \subseteq signed[l]
  /\ registered \subseteq registered'
  /\ \A l \in registered' \ registered : Landed(l) /\ tx[l].sig = row'[l].sig
  /\ UNCHANGED <<signed, tx, window, drawn, mine>>
  /\ late' \subseteq late
  /\ page'.pc = page.pc /\ page'.l = page.l /\ page'.shows = page.shows
  /\ page'.req = page.req \/ (page.req = "out" /\ page'.req = "served")
  /\ page.pc = "preparing" /\ page'.req = "served" => row'[page.l] # None

\* What the page works on is a launch.
LEMMA OfLaunch == IInv /\ page.pc # "form" => page.l \in Launches
BY LaunchAssumption DEF PageHolds, IInv, TypeOK, Launches

\* The row of a launch that begins is a record.
LEMMA NewRecord == [status |-> "preparing", prepared |-> FALSE, sig |-> None] \in Records
BY DEF Records, Statuses

\* The page is as it was, but that its request may have come to its handler.
Serves == page' = page \/ (page.req = "out" /\ page' = [page EXCEPT !.req = "served"])

LEMMA MovesKeep ==
  ASSUME IInv, TypeOK', Moves
  PROVE  IInv'
<1> USE DEF Moves
<1>1. ASSUME NEW l \in Launches
      PROVE  row[l] # None => /\ row'[l] # None
                              /\ row[l].prepared => row'[l].prepared
                              /\ row[l].sig # None => row'[l].sig = row[l].sig
                              /\ Final(row[l]) => row'[l] = row[l]
  BY LaunchAssumption DEF Stays, Starts, Saved
<1>2. ASSUME NEW l \in Launches
      PROVE  LaunchHolds(l)'
  <2> LaunchHolds(l)
    BY DEF IInv
  <2> row[l] \in Records \cup {None} /\ row'[l] \in Records \cup {None}
    BY DEF IInv, TypeOK
  <2> [status |-> "preparing", prepared |-> FALSE, sig |-> None] # None
    BY NewRecord, LaunchAssumption
  <2>1. RowHolds(l)'
    BY DEF LaunchHolds, RowHolds, Stays, Starts, Saved
  <2>2. PrepHolds(l)'
    BY DEF LaunchHolds, PrepHolds, Stays, Starts, Saved
  <2>3. SubHolds(l)'
    BY <1>1 DEF LaunchHolds, SubHolds
  <2>4. ChainHolds(l)'
    BY <1>1 DEF LaunchHolds, ChainHolds
  <2>5. FailedHolds(l)'
    BY DEF LaunchHolds, FailedHolds, Dead, Landed, Stays, Starts, Saved
  <2>6. ASSUME NEW s \in Sigs \cup {None}
        PROVE  CheckHolds(l, s)'
    BY <1>1 DEF LaunchHolds, CheckHolds
  <2>7. QED
    BY <2>1, <2>2, <2>3, <2>4, <2>5, <2>6 DEF LaunchHolds
<1>3. RegisteredIsFinal'
  <2> SUFFICES ASSUME NEW l \in Launches
      PROVE  /\ l \in registered' => tx'[l].at = "final" /\ tx'[l].ok /\ tx'[l].sig = row'[l].sig
             /\ Confirmed(l)' => l \in registered'
    BY DEF RegisteredIsFinal, Landed
  <2>1. /\ l \in registered => tx[l].at = "final" /\ tx[l].ok /\ tx[l].sig = row[l].sig
        /\ Landed(l) = (tx[l].at = "final" /\ tx[l].ok)
    BY DEF IInv, RegisteredIsFinal, Landed
  <2>2. l \in registered => row[l] # None /\ row[l].sig # None
    BY <2>1, LaunchAssumption DEF IInv, TypeOK, LaunchHolds, ChainHolds
  <2>3. Confirmed(l)' => l \in registered'
    BY LaunchAssumption DEF IInv, RegisteredIsFinal, Confirmed, Stays, Starts, Saved
  <2>4. QED
    BY <1>1, <2>1, <2>2, <2>3
<1>4. PageHolds'
  <2>1. PageHolds
    BY DEF IInv
  <2>2. page.pc # "form" => page.l \in Launches
    BY OfLaunch
  <2>3. QED
    BY <1>1, <2>1, <2>2 DEF PageHolds, Final
<1>5. LateHolds'
  BY DEF IInv, LateHolds
<1>6. NoReplacement'
  <2>1. \A l \in mine \ {page.l} : l \in Launches /\ Over(l)
    BY LaunchAssumption DEF IInv, TypeOK, Launches, NoReplacement
  <2>2. ASSUME NEW l \in Launches, Over(l)
        PROVE  Over(l)'
    BY <1>1, <2>2 DEF Over, Confirmed, Missed, Landed, Final
  <2>3. QED
    BY <2>1, <2>2 DEF NoReplacement
<1>7. QED
  BY <1>2, <1>3, <1>4, <1>5, <1>6 DEF IInv

-----------------------------------------------------------------------------
\* A check that begins or is joined, of the row as it is saved by then.
LEMMA CheckingKeeps ==
  ASSUME TypeOK, NEW l \in Launches, row'[l] \in Records, Checking(l, row'[l])
  PROVE  /\ check' \in [Launches -> [Sigs \cup {None} -> Checks \cup {None}]]
         /\ \A k \in Launches, s \in Sigs \cup {None} :
              check'[k][s] = check[k][s] \/ CheckHolds(k, s)'
<1> DEFINE a == row'[l]
<1>1. check \in [Launches -> [Sigs \cup {None} -> Checks \cup {None}]]
  BY DEF TypeOK
<1>2. a.sig \in Sigs \cup {None} /\ a # None
  BY LaunchAssumption DEF Records
<1>3. CASE check' = check
  BY <1>1, <1>3
<1>4. CASE /\ a.prepared /\ ~Final(a)
           /\ check' = [check EXCEPT ![l][a.sig] = [a |-> a, step |-> First(a)]]
  <2>1. [a |-> a, step |-> First(a)] \in Checks
    BY DEF Checks, First
  <2>2. check' \in [Launches -> [Sigs \cup {None} -> Checks \cup {None}]]
    BY <1>1, <1>2, <1>4, <2>1
  <2>3. ASSUME NEW k \in Launches, NEW s \in Sigs \cup {None}, check'[k][s] # check[k][s]
        PROVE  k = l /\ s = a.sig /\ check'[k][s] = [a |-> a, step |-> First(a)]
    BY <1>1, <1>2, <1>4, <2>3
  <2>4. First(a) # "mint"
    BY DEF First
  <2>5. ASSUME NEW k \in Launches, NEW s \in Sigs \cup {None}, check'[k][s] # check[k][s]
        PROVE  CheckHolds(k, s)'
    BY <1>2, <1>4, <2>3, <2>4, <2>5 DEF CheckHolds, Final
  <2>6. QED
    BY <2>2, <2>5
<1>5. QED
  BY <1>3, <1>4 DEF Checking

\* What a save does to the table.
LEMMA SwapMoves ==
  ASSUME TypeOK, NEW l \in Launches, NEW old, NEW new \in Records, Swap(l, old, new)
  PROVE  /\ row' \in [Launches -> Records \cup {None}]
         /\ \A k \in Launches \ {l} : row'[k] = row[k]
         /\ row'[l] = row[l] \/ (row[l] = old /\ ~Final(old) /\ row'[l] = new)
BY DEF TypeOK, Swap

\* A check that ends: what it found out holds of the chain for good.
LEMMA ResultKeeps ==
  ASSUME IInv, NEW l \in Launches, NEW s \in Sigs \cup {None}, check[l][s] # None,
         NEW result \in {"confirmed", "failed", "review", "pending", "none"},
         result = "confirmed" =>
           s # None /\ Landed(l) /\ tx[l].sig = s,
         result = "failed" => \/ window[l] = "closed" /\ (~Landed(l) \/ s = None)
                              \/ tx[l].at = "final" /\ ~tx[l].ok,
         Result(l, s, result), faults' \in Nat
  PROVE  IInv'
<1> DEFINE a == check[l][s].a
           new == CASE result \in {"confirmed", "failed", "review"} -> [a EXCEPT !.status = result]
                    [] result = "pending" /\ a.sig = None -> [a EXCEPT !.status = "prepared"]
                    [] OTHER -> a
           again == result = "pending" /\ ~Final(row'[l]) /\ row'[l].sig = s
<1>1. TypeOK /\ LaunchHolds(l) /\ CheckHolds(l, s)
  BY DEF IInv, LaunchHolds
<1>2. /\ a \in Records /\ a.prepared /\ ~Final(a) /\ a.sig = s
      /\ row[l] # None /\ row[l].prepared
  BY <1>1 DEF TypeOK, CheckHolds, Checks
<1>3. /\ new \in Records /\ new.prepared /\ new.sig = s
      /\ new.status = "confirmed" => result = "confirmed"
      /\ new.status = "failed" => result = "failed"
  BY <1>2 DEF Records, Statuses, Final
<1>4. /\ registered' = IF result = "confirmed" THEN registered \cup {l} ELSE registered
      /\ Swap(l, a, new)
      /\ check' = [check EXCEPT ![l][s] = None]
  BY DEF Result, Verified
<1>5. /\ row' \in [Launches -> Records \cup {None}]
      /\ \A k \in Launches \ {l} : row'[k] = row[k]
      /\ row'[l] = row[l] \/ (row[l] = a /\ ~Final(a) /\ row'[l] = new)
  BY <1>1, <1>3, <1>4, SwapMoves
<1>6. row'[l] # None /\ row'[l] \in Records /\ row'[l].prepared /\ row'[l].sig = row[l].sig
  BY <1>1, <1>2, <1>3, <1>5, LaunchAssumption DEF TypeOK
<1>7. /\ sub' \in [Launches -> Submissions]
      /\ \A k \in Launches : sub'[k] = sub[k] \/ SubHolds(k)'
  <2>1. sub \in [Launches -> Submissions]
    BY <1>1 DEF TypeOK
  <2>2. /\ NoSub \in Submissions
        /\ [pc |-> "resending", a |-> row'[l]] \in Submissions
    BY <1>6 DEF NoSub, Submissions
  <2>3. CASE sub' = sub
    BY <2>1, <2>3
  <2>4. CASE s # None /\ again /\ sub' = [sub EXCEPT ![l] = [pc |-> "resending", a |-> row'[l]]]
    BY <1>6, <2>1, <2>2, <2>4, LaunchAssumption DEF SubHolds
  <2>5. CASE sub' = [sub EXCEPT ![l] = NoSub]
    BY <2>1, <2>2, <2>5 DEF SubHolds, NoSub
  <2>6. QED
    BY <2>3, <2>4, <2>5 DEF Result, Resumed
<1>8. TypeOK'
  <2>1. check' \in [Launches -> [Sigs \cup {None} -> Checks \cup {None}]]
    BY <1>1, <1>4 DEF TypeOK
  <2>2. registered' \subseteq Launches
    BY <1>1, <1>4 DEF TypeOK
  <2>3. QED
    BY <1>1, <1>5, <1>7, <2>1, <2>2 DEF TypeOK, Result, client, chain
<1>9. Moves
  <2>1. \A k \in Launches : Stays(k) \/ Saved(k)
    <3>1. prep' = prep
      BY DEF Result
    <3>2. Stays(l) \/ Saved(l)
      <4>1. CASE row'[l] = row[l]
        BY <3>1, <4>1 DEF Stays
      <4>2. CASE row[l] = a /\ row'[l] = new
        BY <1>1, <1>2, <1>3, <1>4, <1>6, <3>1, <4>2 DEF Saved, LaunchHolds, RowHolds, PrepHolds, Dead
      <4>3. QED
        BY <1>5, <4>1, <4>2
    <3>3. QED
      BY <1>5, <3>1, <3>2 DEF Stays
  <2>2. \A k \in Launches, t \in Sigs \cup {None} : check'[k][t] = check[k][t] \/ CheckHolds(k, t)'
    BY <1>1, <1>4 DEF TypeOK, CheckHolds
  <2>3. \A k \in registered' \ registered : Landed(k) /\ tx[k].sig = row'[k].sig
    BY <1>1, <1>4, <1>6 DEF CheckHolds
  <2>4. \A k \in Launches : pool[k] \subseteq signed[k]
    BY DEF IInv, LaunchHolds, ChainHolds
  <2>5. page.pc = "preparing" /\ page.req = "served" => row'[page.l] # None
    BY <1>5, <1>6, OfLaunch DEF IInv, PageHolds
  <2>6. QED
    BY <1>4, <1>7, <2>1, <2>2, <2>3, <2>4, <2>5 DEF Moves, Result, client, chain
<1>10. QED
  BY <1>8, <1>9, MovesKeep

\* A step that only begins, joins or advances a check.
LEMMA ChecksOnly ==
  ASSUME IInv,
         check' \in [Launches -> [Sigs \cup {None} -> Checks \cup {None}]],
         \A k \in Launches, s \in Sigs \cup {None} :
           check'[k][s] = check[k][s] \/ CheckHolds(k, s)',
         earlier' \in [Launches -> SUBSET Launches],
         UNCHANGED <<row, registered, prep, sub, client, chain>>, faults' \in Nat
  PROVE  IInv'
<1>1. TypeOK'
  BY DEF IInv, TypeOK, client, chain
<1>2. \A k \in Launches : pool[k] \subseteq signed[k]
  BY DEF IInv, LaunchHolds, ChainHolds
<1>3. Moves
  BY <1>2 DEF Moves, Stays, client, chain, IInv, PageHolds
<1>4. QED
  BY <1>1, <1>3, MovesKeep

\* A check goes on to what it reads next.
LEMMA ReadsNext ==
  ASSUME IInv, NEW l \in Launches, NEW s \in Sigs \cup {None}, check[l][s] # None,
         NEW step \in {"mint", "late"}, step = "mint" => window[l] = "closed",
         check' = [check EXCEPT ![l][s].step = step],
         UNCHANGED <<tables, prep, sub, client, chain>>, faults' \in Nat
  PROVE  IInv'
<1> DEFINE next == [check[l][s] EXCEPT !.step = step]
<1>1. TypeOK /\ CheckHolds(l, s)
  BY DEF IInv, LaunchHolds
<1>2. next \in Checks /\ next.a = check[l][s].a /\ next.step = step
  BY <1>1 DEF TypeOK, Checks
<1>3. check \in [Launches -> [Sigs \cup {None} -> Checks \cup {None}]]
  BY <1>1 DEF TypeOK
<1>4. check' = [check EXCEPT ![l][s] = next]
  BY <1>3
<1> HIDE DEF next
<1>5. check' \in [Launches -> [Sigs \cup {None} -> Checks \cup {None}]]
  <2> DEFINE changed == [check[l] EXCEPT ![s] = next]
  <2>1. changed \in [Sigs \cup {None} -> Checks \cup {None}]
    BY <1>2, <1>3
  <2>2. check' = [check EXCEPT ![l] = changed]
    BY <1>4
  <2> HIDE DEF changed
  <2>3. QED
    BY <2>1, <2>2, <1>3
<1>6. ASSUME NEW k \in Launches, NEW t \in Sigs \cup {None}, check'[k][t] # check[k][t]
      PROVE  k = l /\ t = s /\ check'[k][t] = next
  BY <1>4, <1>6, <1>3
<1>7. ASSUME NEW k \in Launches, NEW t \in Sigs \cup {None}, check'[k][t] # check[k][t]
      PROVE  CheckHolds(k, t)'
  BY <1>1, <1>2, <1>6, <1>7 DEF CheckHolds, tables, chain, Final
<1>8. earlier' \in [Launches -> SUBSET Launches]
  BY <1>1 DEF TypeOK, tables
<1>9. QED
  BY <1>5, <1>7, <1>8, ChecksOnly DEF tables

LEMMA FaultCounts ==
  ASSUME TypeOK, Fault \/ UNCHANGED faults
  PROVE  faults' \in Nat
BY DEF TypeOK, Fault

LEMMA HeightKeeps ==
  ASSUME IInv, NEW l \in Launches, Height(l)
  PROVE  IInv'
<1>1. CASE Result(l, None, "pending")
  <2>1. faults' \in Nat /\ check[l][None] # None
    BY FaultCounts DEF Height, IInv
  <2>2. QED
    BY <1>1, <2>1, ResultKeeps
<1>2. CASE ~Result(l, None, "pending")
  <2>1. /\ check[l][None] # None /\ check' = [check EXCEPT ![l][None].step = "mint"]
        /\ UNCHANGED <<tables, prep, sub, client, chain>> /\ faults' \in Nat
    BY <1>2, FaultCounts DEF Height, IInv
  <2>2. window[l] = "closed"
    BY <1>2 DEF Height, Read, Past
  <2>3. QED
    BY <2>1, <2>2, ReadsNext
<1>3. QED
  BY <1>1, <1>2

\* The window is closed, so what is not on the chain never will be; a node that is
\* behind may say so of what is there, but then no signature was saved.
LEMMA MintKeeps ==
  ASSUME IInv, NEW l \in Launches, Mint(l)
  PROVE  IInv'
<1>1. check[l][None] # None /\ check[l][None].step = "mint" /\ faults' \in Nat
  BY FaultCounts DEF Mint, IInv
<1>2. window[l] = "closed"
  BY <1>1 DEF IInv, LaunchHolds, CheckHolds
<1>3. Result(l, None, "review") \/ Result(l, None, "failed")
  BY DEF Mint
<1>4. QED
  BY <1>1, <1>2, <1>3, ResultKeeps

LEMMA StatusKeeps ==
  ASSUME IInv, NEW l \in Launches, NEW s \in Sigs, Status(l, s)
  PROVE  IInv'
<1>1. check[l][s] # None /\ s # None /\ faults' \in Nat
  BY LaunchAssumption, FaultCounts DEF Status, IInv
<1>2. CASE Finalized(l, s) /\ Result(l, s, IF tx[l].ok THEN "confirmed" ELSE "failed")
  <2>1. CASE tx[l].ok
    BY <1>1, <1>2, <2>1, ResultKeeps DEF Finalized, Landed
  <2>2. CASE ~tx[l].ok
    BY <1>1, <1>2, <2>2, ResultKeeps DEF Finalized
  <2>3. QED
    BY <2>1, <2>2
<1>3. CASE /\ check' = [check EXCEPT ![l][s].step = "late"]
           /\ UNCHANGED <<tables, prep, sub, client, chain>>
  BY <1>1, <1>3, ReadsNext
<1>4. QED
  BY <1>2, <1>3 DEF Status

LEMMA ExpiredKeeps ==
  ASSUME IInv, NEW l \in Launches, NEW s \in Sigs, Expired(l, s)
  PROVE  IInv'
<1>1. check[l][s] # None /\ faults' \in Nat
  BY FaultCounts DEF Expired, IInv
<1>2. Result(l, s, "review") \/ Result(l, s, "pending")
  BY DEF Expired
<1>3. QED
  BY <1>1, <1>2, ResultKeeps

LEMMA CheckFailsKeeps ==
  ASSUME IInv, NEW l \in Launches, NEW s \in Sigs \cup {None}, NEW timeout \in BOOLEAN,
         CheckFails(l, s, timeout)
  PROVE  IInv'
<1>1. check[l][s] # None /\ faults' \in Nat
  BY FaultCounts DEF CheckFails, IInv
<1>2. Result(l, s, "none") \/ Result(l, s, "review")
  BY DEF CheckFails
<1>3. QED
  BY <1>1, <1>2, ResultKeeps

LEMMA SweepKeeps ==
  ASSUME IInv, NEW l \in Launches, Sweep(l)
  PROVE  IInv'
<1>1. row[l] \in Records /\ row' = row
  BY DEF IInv, TypeOK, Sweep, Oldest, Checkable
<1>2. Checking(l, row'[l])
  BY <1>1 DEF Sweep
<1>3. earlier' \in [Launches -> SUBSET Launches]
  BY DEF IInv, TypeOK, Sweep, Marked
<1>4. QED
  BY <1>1, <1>2, <1>3, CheckingKeeps, ChecksOnly DEF Sweep, IInv, TypeOK

-----------------------------------------------------------------------------
\* Saves that come from prepare() and from a broadcast.

LEMMA PreparedKeeps ==
  ASSUME IInv, NEW l \in Launches, NEW ok \in BOOLEAN, Prepared(l, ok)
  PROVE  IInv'
<1> DEFINE a == prep[l]  new == Priced(a, ok)
<1>1. TypeOK /\ LaunchHolds(l) /\ prep[l] # None
  BY DEF IInv, Prepared
<1>2. a \in Records /\ a = row[l] /\ ~a.prepared /\ a.status = "preparing"
  BY <1>1 DEF TypeOK, LaunchHolds, PrepHolds
<1>3. a.sig = None /\ signed[l] = {} /\ row[l] # None
  BY <1>1, <1>2 DEF LaunchHolds, RowHolds, ChainHolds
<1>4. /\ new \in Records /\ new.sig = None
      /\ ok => new.prepared /\ new.status = "prepared"
      /\ ~ok => ~new.prepared /\ new.status = "failed"
  BY <1>2, <1>3 DEF Records, Statuses, Priced, Built
<1>5. Swap(l, a, new) /\ prep' = [prep EXCEPT ![l] = None]
  BY DEF Prepared
<1>6. /\ row' \in [Launches -> Records \cup {None}]
      /\ \A k \in Launches \ {l} : row'[k] = row[k]
      /\ row'[l] = row[l] \/ (row[l] = a /\ ~Final(a) /\ row'[l] = new)
  BY <1>1, <1>4, <1>5, SwapMoves
<1>7. row'[l] # None
  BY <1>3, <1>4, <1>6, LaunchAssumption
<1>8. faults' \in Nat
  BY <1>1, FaultCounts DEF Prepared
<1>9. TypeOK'
  BY <1>1, <1>5, <1>6, <1>8 DEF TypeOK, Prepared, client, chain
<1>10. Moves
  <2>1. \A k \in Launches \ {l} : Stays(k)
    BY <1>1, <1>5, <1>6 DEF Stays, TypeOK
  <2>2. Stays(l) \/ Saved(l)
    <3>1. prep'[l] = None
      BY <1>1, <1>5 DEF TypeOK
    <3>2. CASE row'[l] = row[l]
      BY <3>1, <3>2 DEF Stays
    <3>3. CASE row'[l] = new /\ ~Final(a)
      <4>1. Dead(l)
        BY <1>2, <1>3 DEF Dead, IInv, PageHolds
      <4>2. QED
        BY <1>2, <1>3, <1>4, <3>1, <3>3, <4>1 DEF Saved
    <3>4. QED
      BY <1>6, <3>2, <3>3
  <2>3. \A k \in Launches : pool[k] \subseteq signed[k]
    BY DEF IInv, LaunchHolds, ChainHolds
  <2>4. page.pc = "preparing" /\ page.req = "served" => row'[page.l] # None
    BY <1>6, <1>7, OfLaunch DEF IInv, PageHolds
  <2>5. QED
    BY <2>1, <2>2, <2>3, <2>4 DEF Moves, Prepared, client, chain
<1>11. QED
  BY <1>9, <1>10, MovesKeep

\* A save over what a submit or a recovery has read, with what it does next.
LEMMA SubmitSaves ==
  ASSUME IInv, NEW l \in Launches, NEW a, NEW new \in Records, Swap(l, a, new),
         a \in Records, a.prepared, new.prepared, new.sig # None, new.sig \in signed[l],
         a.sig # None => new.sig = a.sig, new.status \in {"submitted", "review"},
         sub' \in [Launches -> Submissions],
         \A k \in Launches : sub'[k] = sub[k] \/ SubHolds(k)',
         check' \in [Launches -> [Sigs \cup {None} -> Checks \cup {None}]],
         \A k \in Launches, s \in Sigs \cup {None} :
           check'[k][s] = check[k][s] \/ CheckHolds(k, s)',
         pool' \in [Launches -> SUBSET Sigs],
         \A k \in Launches : pool[k] \subseteq pool'[k] /\ pool'[k] \subseteq signed[k],
         UNCHANGED <<earlier, registered, prep, drawn, mine, signed, tx, window>>,
         Serves, late' \subseteq late,
         page.pc = "preparing" => page' = page, faults' \in Nat
  PROVE  IInv'
<1>1. TypeOK /\ LaunchHolds(l)
  BY DEF IInv
<1>2. /\ row' \in [Launches -> Records \cup {None}]
      /\ \A k \in Launches \ {l} : row'[k] = row[k]
      /\ row'[l] = row[l] \/ (row[l] = a /\ ~Final(a) /\ row'[l] = new)
  BY <1>1, SwapMoves
<1>3. new # None /\ a # None
  BY LaunchAssumption
<1>4. /\ page' \in Pages
      /\ page'.pc = page.pc /\ page'.l = page.l /\ page'.shows = page.shows
      /\ page'.req = page.req \/ (page.req = "out" /\ page'.req = "served")
  BY <1>1 DEF TypeOK, Serves, Pages
<1>5. TypeOK'
  BY <1>1, <1>2, <1>4 DEF TypeOK
<1>6. Stays(l) \/ Saved(l)
  <2>1. CASE row'[l] = row[l]
    BY <2>1 DEF Stays
  <2>2. CASE row[l] = a /\ ~Final(a) /\ row'[l] = new
    <3>1. prep'[l] = None
      BY <1>1, <2>2 DEF LaunchHolds, PrepHolds
    <3>2. QED
      BY <1>3, <2>2, <3>1 DEF Saved
  <2>3. QED
    BY <1>2, <2>1, <2>2
<1>7. page.pc = "preparing" /\ page'.req = "served" => row'[page.l] # None
  BY <1>2, <1>3, OfLaunch DEF IInv, PageHolds
<1>8. Moves
  BY <1>2, <1>4, <1>6, <1>7 DEF Moves, Stays
<1>9. QED
  BY <1>5, <1>8, MovesKeep

\* The same, where nothing is saved.
LEMMA NothingSaved ==
  ASSUME IInv,
         sub' \in [Launches -> Submissions],
         \A k \in Launches : sub'[k] = sub[k] \/ SubHolds(k)',
         check' \in [Launches -> [Sigs \cup {None} -> Checks \cup {None}]],
         \A k \in Launches, s \in Sigs \cup {None} :
           check'[k][s] = check[k][s] \/ CheckHolds(k, s)',
         pool' \in [Launches -> SUBSET Sigs],
         \A k \in Launches : pool[k] \subseteq pool'[k] /\ pool'[k] \subseteq signed[k],
         UNCHANGED <<row, earlier, registered, prep, drawn, mine, signed, tx, window>>,
         Serves, late' \subseteq late,
         page.pc = "preparing" => page' = page, faults' \in Nat
  PROVE  IInv'
<1>1. TypeOK
  BY DEF IInv
<1>2. /\ page' \in Pages
      /\ page'.pc = page.pc /\ page'.l = page.l /\ page'.shows = page.shows
      /\ page'.req = page.req \/ (page.req = "out" /\ page'.req = "served")
  BY <1>1 DEF TypeOK, Serves, Pages
<1>3. TypeOK'
  BY <1>1, <1>2 DEF TypeOK
<1>4. page.pc = "preparing" /\ page'.req = "served" => row'[page.l] # None
  BY DEF IInv, PageHolds
<1>5. Moves
  BY <1>2, <1>4 DEF Moves, Stays
<1>6. QED
  BY <1>3, <1>5, MovesKeep

\* A handler of a signed transaction.
LEMMA SubmitsKeep ==
  ASSUME IInv, NEW l \in Launches, NEW s \in signed[l], Submits(l, s),
         UNCHANGED <<earlier, registered, prep, drawn, mine, signed, chain>>,
         Serves, late' \subseteq late,
         page.pc = "preparing" => page' = page, faults' \in Nat
  PROVE  IInv'
<1> DEFINE a == row[l]  b == [a EXCEPT !.sig = s, !.status = "submitted"]
<1>1. TypeOK /\ LaunchHolds(l) /\ s \in Sigs /\ s # None
  <2>1. TypeOK /\ LaunchHolds(l)
    BY DEF IInv
  <2>2. s \in Sigs
    BY <2>1 DEF TypeOK
  <2>3. QED
    BY <2>1, <2>2, LaunchAssumption
<1>2. a \in Records /\ a # None /\ a.prepared
  BY <1>1 DEF Submits, TypeOK
<1>3. sub \in [Launches -> Submissions]
  BY <1>1 DEF TypeOK
<1>4. check \in [Launches -> [Sigs \cup {None} -> Checks \cup {None}]]
  BY <1>1 DEF TypeOK
<1>5. /\ pool' \in [Launches -> SUBSET Sigs]
      /\ \A k \in Launches : pool[k] \subseteq pool'[k] /\ pool'[k] \subseteq signed[k]
      /\ UNCHANGED <<tx, window>>
  BY <1>1 DEF IInv, TypeOK, LaunchHolds, ChainHolds, chain
<1>6. CASE a.sig = None /\ a.status \in {"prepared", "review"}
  <2>1. /\ Swap(l, a, b) /\ check' = check
        /\ sub' = [sub EXCEPT ![l] = [pc |-> "sending", a |-> b]]
    BY <1>6 DEF Submits
  <2>2. /\ b \in Records /\ b.prepared /\ b.sig = s /\ b.status = "submitted"
        /\ ~Final(a)
    BY <1>1, <1>2, <1>6 DEF Records, Statuses, Final
  <2>3. row'[l] = b /\ b # None
    BY <1>1, <2>1, <2>2, LaunchAssumption DEF Swap, TypeOK
  <2>4. sub' \in [Launches -> Submissions]
    BY <1>3, <2>1, <2>2 DEF Submissions
  <2>5. \A k \in Launches : sub'[k] = sub[k] \/ SubHolds(k)'
    BY <1>1, <1>3, <2>1, <2>2, <2>3 DEF SubHolds
  <2>6. QED
    BY <1>1, <1>2, <1>4, <1>5, <1>6, <2>1, <2>2, <2>4, <2>5, SubmitSaves
<1>7. CASE /\ ~(a.sig = None /\ a.status \in {"prepared", "review"})
           /\ a.sig = s /\ sub[l] = NoSub /\ ~Final(a)
  <2>1. /\ sub' = [sub EXCEPT ![l] = [pc |-> "rechecking", a |-> a]]
        /\ Checking(l, a) /\ row' = row
    BY <1>7 DEF Submits
  <2>2. sub' \in [Launches -> Submissions]
    BY <1>2, <1>3, <2>1 DEF Submissions
  <2>3. \A k \in Launches : sub'[k] = sub[k] \/ SubHolds(k)'
    BY <1>1, <1>2, <1>3, <1>7, <2>1 DEF SubHolds
  <2>4. row'[l] \in Records /\ Checking(l, row'[l])
    BY <1>2, <2>1
  <2>5. QED
    BY <1>1, <1>5, <2>1, <2>2, <2>3, <2>4, CheckingKeeps, NothingSaved
<1>8. CASE UNCHANGED <<row, sub, check>>
  BY <1>3, <1>4, <1>5, <1>8, NothingSaved
<1>9. QED
  BY <1>6, <1>7, <1>8 DEF Submits

LEMMA ResendsKeeps ==
  ASSUME IInv, NEW l \in Launches, Resends(l)
  PROVE  IInv'
<1> DEFINE a == sub[l].a  b == [a EXCEPT !.status = "submitted"]
<1>1. TypeOK /\ LaunchHolds(l)
  BY DEF IInv
<1>2. /\ a \in Records /\ a.prepared /\ a.sig # None /\ a.sig \in signed[l]
      /\ a.sig = row[l].sig /\ row[l] # None
  BY <1>1 DEF Resends, TypeOK, LaunchHolds, SubHolds, RowHolds, Submissions
<1>3. /\ Swap(l, a, b) /\ check' = check
      /\ sub' = [sub EXCEPT ![l] = IF Swapped(l, a) THEN [pc |-> "sending", a |-> b] ELSE NoSub]
      /\ UNCHANGED <<earlier, registered, prep, drawn, mine, signed, pool, tx, window, page, late, faults>>
  BY DEF Resends, client, chain
<1>4. b \in Records /\ b.prepared /\ b.sig = a.sig /\ b.status = "submitted"
  BY <1>2 DEF Records, Statuses
<1>5. sub \in [Launches -> Submissions]
  BY <1>1 DEF TypeOK
<1>6. sub' \in [Launches -> Submissions]
  BY <1>3, <1>4, <1>5 DEF Submissions, NoSub
<1>7. Swapped(l, a) => row'[l] = b /\ b # None
  BY <1>1, <1>3, <1>4, LaunchAssumption DEF Swapped, Swap, TypeOK
<1>8. \A k \in Launches : sub'[k] = sub[k] \/ SubHolds(k)'
  BY <1>2, <1>3, <1>4, <1>5, <1>7 DEF SubHolds, NoSub
<1>9. /\ check' \in [Launches -> [Sigs \cup {None} -> Checks \cup {None}]]
      /\ pool' \in [Launches -> SUBSET Sigs] /\ faults' \in Nat
      /\ \A k \in Launches : pool[k] \subseteq pool'[k] /\ pool'[k] \subseteq signed[k]
  BY <1>3 DEF IInv, TypeOK, LaunchHolds, ChainHolds
<1>10. QED
  BY <1>2, <1>3, <1>4, <1>6, <1>8, <1>9, SubmitSaves DEF Serves

LEMMA BroadcastsKeeps ==
  ASSUME IInv, NEW l \in Launches, NEW ok \in BOOLEAN, Broadcasts(l, ok)
  PROVE  IInv'
<1> DEFINE a == sub[l].a  b == [a EXCEPT !.status = "review"]
<1>1. TypeOK /\ LaunchHolds(l)
  BY DEF IInv
<1>2. /\ a \in Records /\ a.prepared /\ a.sig # None /\ a.sig \in signed[l]
      /\ a.sig = row[l].sig /\ row[l] # None
  BY <1>1 DEF Broadcasts, TypeOK, LaunchHolds, SubHolds, RowHolds, Submissions
<1>3. /\ Checking(l, row'[l])
      /\ sub' = [sub EXCEPT ![l] = IF check'[l][a.sig] = None THEN NoSub
                                   ELSE [pc |-> "waiting", a |-> None]]
      /\ pool' \in {pool, Sent(l, a.sig)}
      /\ UNCHANGED <<earlier, registered, prep, drawn, mine, signed, tx, window, page, late>>
  BY DEF Broadcasts, client
<1>4. b \in Records /\ b.prepared /\ b.sig = a.sig /\ b.status = "review"
  BY <1>2 DEF Records, Statuses
<1>5. sub \in [Launches -> Submissions]
  BY <1>1 DEF TypeOK
<1>6. sub' \in [Launches -> Submissions]
  BY <1>3, <1>5 DEF Submissions, NoSub
<1>7. \A k \in Launches : sub'[k] = sub[k] \/ SubHolds(k)'
  BY <1>3, <1>5 DEF SubHolds, NoSub
<1>8. pool \in [Launches -> SUBSET Sigs] /\ \A k \in Launches : pool[k] \subseteq signed[k]
  BY <1>1 DEF IInv, TypeOK, LaunchHolds, ChainHolds
<1>9. /\ pool' \in [Launches -> SUBSET Sigs]
      /\ \A k \in Launches : pool[k] \subseteq pool'[k] /\ pool'[k] \subseteq signed[k]
  <2>1. CASE pool' = pool
    BY <1>8, <2>1
  <2>2. CASE pool' = [pool EXCEPT ![l] = pool[l] \cup {a.sig}]
    <3>1. signed[l] \subseteq Sigs
      BY <1>1 DEF TypeOK
    <3>2. QED
      BY <1>2, <1>8, <2>2, <3>1
  <2>3. QED
    BY <1>3, <2>1, <2>2 DEF Sent
<1>10. row' = row \/ Swap(l, a, b)
  <2>1. ok => row' = row
    BY DEF Broadcasts
  <2>2. ~ok => Swap(l, a, b)
    BY DEF Broadcasts, Swap
  <2>3. QED
    BY <2>1, <2>2
<1>11. row'[l] \in Records
  <2>1. row[l] \in Records
    BY <1>1, <1>2 DEF TypeOK
  <2>2. Swap(l, a, b) => row'[l] = row[l] \/ row'[l] = b
    BY <1>1, <1>4, SwapMoves
  <2>3. QED
    BY <1>4, <1>10, <2>1, <2>2
<1>12. /\ check' \in [Launches -> [Sigs \cup {None} -> Checks \cup {None}]]
       /\ \A k \in Launches, s \in Sigs \cup {None} :
            check'[k][s] = check[k][s] \/ CheckHolds(k, s)'
  BY <1>1, <1>3, <1>11, CheckingKeeps
<1>13. faults' \in Nat
  BY <1>1, FaultCounts DEF Broadcasts
<1>14. CASE row' = row
  BY <1>3, <1>6, <1>7, <1>9, <1>12, <1>13, <1>14, NothingSaved DEF Serves
<1>15. CASE Swap(l, a, b)
  BY <1>2, <1>3, <1>4, <1>6, <1>7, <1>9, <1>12, <1>13, <1>15, SubmitSaves DEF Serves
<1>16. QED
  BY <1>10, <1>14, <1>15

\* The saved transaction is posted again.
LEMMA RetriesKeeps ==
  ASSUME IInv, NEW l \in Launches, Retries(l)
  PROVE  IInv'
<1>1. TypeOK /\ RowHolds(l)
  BY DEF IInv, LaunchHolds
<1>2. row[l].sig \in signed[l] /\ Submits(l, row[l].sig)
  BY <1>1 DEF Retries, RowHolds
<1>3. faults' \in Nat
  BY <1>1, FaultCounts DEF Retries
<1>4. QED
  BY <1>2, <1>3, SubmitsKeep DEF Retries, client, Serves

\* A handler of a launch that begins.
LEMMA PreparesKeep ==
  ASSUME IInv, NEW l \in Launches, Prepares(l),
         UNCHANGED <<earlier, registered, sub, check, drawn, mine, signed, chain, faults>>,
         Serves, late' \subseteq late, page' # page => page.l = l
  PROVE  IInv'
<1> DEFINE a == [status |-> "preparing", prepared |-> FALSE, sig |-> None]
<1>1. TypeOK
  BY DEF IInv
<1>2. /\ row[l] = None /\ row' = [row EXCEPT ![l] = a] /\ prep' = [prep EXCEPT ![l] = row'[l]]
  BY DEF Prepares
<1>3. a \in Records /\ a # None
  BY NewRecord, LaunchAssumption
<1>4. /\ row' \in [Launches -> Records \cup {None}] /\ row'[l] = a
      /\ prep' \in [Launches -> Records \cup {None}] /\ prep'[l] = a
      /\ \A k \in Launches \ {l} : row'[k] = row[k] /\ prep'[k] = prep[k]
  BY <1>1, <1>2, <1>3 DEF TypeOK
<1>5. /\ page' \in Pages
      /\ page'.pc = page.pc /\ page'.l = page.l /\ page'.shows = page.shows
      /\ page'.req = page.req \/ (page.req = "out" /\ page'.req = "served")
  BY <1>1 DEF TypeOK, Serves, Pages
<1>6. TypeOK'
  BY <1>1, <1>4, <1>5 DEF TypeOK, chain
<1>7. page.pc = "preparing" /\ page'.req = "served" => row'[page.l] # None
  BY <1>3, <1>4, OfLaunch DEF IInv, PageHolds
<1>8. /\ \A k \in Launches : Stays(k) \/ Starts(k)
      /\ \A k \in Launches : pool[k] \subseteq signed[k]
  BY <1>2, <1>4 DEF Stays, Starts, IInv, LaunchHolds, ChainHolds
<1>9. Moves
  BY <1>5, <1>7, <1>8 DEF Moves, chain
<1>10. QED
  BY <1>6, <1>9, MovesKeep

\* A handler of a cancellation, of a launch that is not signed and never will be.
LEMMA CancelsKeep ==
  ASSUME IInv, NEW l \in Launches, Cancels(l),
         signed[l] = {}, ~(page.pc = "signing" /\ page.l = l),
         UNCHANGED <<earlier, registered, prep, sub, check, drawn, mine, signed, chain, faults>>,
         Serves, late' \subseteq late, page.pc = "preparing" => page' = page
  PROVE  IInv'
<1>1. TypeOK /\ LaunchHolds(l)
  BY DEF IInv
<1>2. CASE row' = row
  <2>1. /\ sub' \in [Launches -> Submissions]
        /\ check' \in [Launches -> [Sigs \cup {None} -> Checks \cup {None}]]
        /\ pool' \in [Launches -> SUBSET Sigs] /\ faults' \in Nat
    BY <1>1 DEF TypeOK, chain
  <2>2. \A k \in Launches : pool[k] \subseteq pool'[k] /\ pool'[k] \subseteq signed[k]
    BY DEF IInv, LaunchHolds, ChainHolds, chain
  <2>3. QED
    BY <1>2, <2>1, <2>2, NothingSaved DEF chain
<1>3. CASE /\ row[l] # None /\ Cancellable(row[l])
           /\ row' = [row EXCEPT ![l].status = "failed"]
  <2> DEFINE new == [row[l] EXCEPT !.status = "failed"]
  <2>1. row[l] \in Records /\ row[l].status = "prepared"
    BY <1>1, <1>3 DEF TypeOK, Cancellable
  <2>2. row[l].prepared /\ prep[l] = None
    BY <1>1, <1>3, <2>1 DEF LaunchHolds, RowHolds, PrepHolds
  <2>3. /\ new \in Records /\ new.status = "failed"
        /\ new.prepared /\ new.sig = row[l].sig
    BY <2>1, <2>2 DEF Records, Statuses
  <2>4. row' = [row EXCEPT ![l] = new]
    BY <1>1, <1>3 DEF TypeOK
  <2>5. /\ row' \in [Launches -> Records \cup {None}] /\ row'[l] = new
        /\ \A k \in Launches \ {l} : row'[k] = row[k]
    BY <1>1, <2>3, <2>4 DEF TypeOK
  <2>6. /\ page' \in Pages
        /\ page'.pc = page.pc /\ page'.l = page.l /\ page'.shows = page.shows
        /\ page'.req = page.req \/ (page.req = "out" /\ page'.req = "served")
    BY <1>1 DEF TypeOK, Serves, Pages
  <2>7. TypeOK'
    BY <1>1, <2>5, <2>6 DEF TypeOK, chain
  <2>8. Saved(l)
    BY <1>1, <1>3, <2>1, <2>2, <2>3, <2>5 DEF Saved, Final, Dead, LaunchHolds, RowHolds
  <2>9. page.pc = "preparing" /\ page'.req = "served" => row'[page.l] # None
    BY <2>3, <2>5, OfLaunch, LaunchAssumption DEF IInv, PageHolds
  <2>10. /\ \A k \in Launches : Stays(k) \/ Saved(k)
         /\ \A k \in Launches : pool[k] \subseteq signed[k]
    BY <2>5, <2>8 DEF Stays, IInv, LaunchHolds, ChainHolds
  <2>11. Moves
    BY <2>6, <2>9, <2>10 DEF Moves, chain
  <2>12. QED
    BY <2>7, <2>11, MovesKeep
<1>4. QED
  BY <1>2, <1>3 DEF Cancels

-----------------------------------------------------------------------------
\* What the page asks arrives at its handler, in time or late.

LEMMA ArrivesKeeps ==
  ASSUME IInv, Arrives
  PROVE  IInv'
<1>1. /\ page.req = "out" /\ Serves
      /\ UNCHANGED <<earlier, registered, drawn, mine, late, signed, chain, faults>>
  BY DEF Arrives, Serves
<1>2. page.pc \in {"preparing", "submitting", "cancelling"} /\ page.l \in Launches
  BY <1>1, OfLaunch DEF IInv, PageHolds
<1>3. CASE page.pc = "preparing"
  <2>1. Prepares(page.l) /\ UNCHANGED <<sub, check>>
    BY <1>3 DEF Arrives
  <2>2. QED
    BY <1>1, <1>2, <2>1, PreparesKeep
<1>4. CASE page.pc = "submitting"
  <2>1. PICK s \in signed[page.l] : Submits(page.l, s) /\ UNCHANGED prep
    BY <1>4 DEF Arrives
  <2>2. faults' \in Nat
    BY <1>1 DEF IInv, TypeOK
  <2>3. QED
    BY <1>1, <1>2, <1>4, <2>1, <2>2, SubmitsKeep
<1>5. CASE page.pc = "cancelling"
  <2>1. Cancels(page.l) /\ UNCHANGED <<prep, sub, check>>
    BY <1>5 DEF Arrives
  <2>2. signed[page.l] = {}
    BY <1>5 DEF IInv, PageHolds
  <2>3. QED
    BY <1>1, <1>2, <1>5, <2>1, <2>2, CancelsKeep
<1>6. QED
  BY <1>2, <1>3, <1>4, <1>5

LEMMA ArrivesLateKeeps ==
  ASSUME IInv, NEW r \in late, ArrivesLate(r)
  PROVE  IInv'
<1>1. /\ Serves /\ page' = page /\ late' \subseteq late
      /\ UNCHANGED <<earlier, registered, drawn, mine, signed, chain, faults>>
  BY DEF ArrivesLate, Serves
<1>2. r[1] \in {"prepare", "submit", "cancel"} /\ r[2] \in Launches
  BY LaunchAssumption DEF IInv, TypeOK, Launches
<1>3. CASE r[1] = "prepare"
  <2>1. Prepares(r[2]) /\ UNCHANGED <<sub, check>>
    BY <1>3 DEF ArrivesLate
  <2>2. QED
    BY <1>1, <1>2, <2>1, PreparesKeep
<1>4. CASE r[1] = "submit"
  <2>1. Submits(r[2], r[3]) /\ UNCHANGED prep
    BY <1>4 DEF ArrivesLate
  <2>2. faults' \in Nat /\ r[3] \in signed[r[2]]
    BY <1>1, <1>4 DEF IInv, TypeOK, LateHolds
  <2>3. QED
    BY <1>1, <1>2, <2>1, <2>2, SubmitsKeep
<1>5. CASE r[1] = "cancel"
  <2>1. Cancels(r[2]) /\ UNCHANGED <<prep, sub, check>>
    BY <1>5 DEF ArrivesLate
  <2>2. signed[r[2]] = {} /\ page.l # r[2]
    BY <1>5 DEF IInv, LateHolds
  <2>3. QED
    BY <1>1, <1>2, <2>1, <2>2, CancelsKeep
<1>6. QED
  BY <1>2, <1>3, <1>4, <1>5

-----------------------------------------------------------------------------
\* The page's own steps.

\* What is over stays so while its row and the chain do.
LEMMA OverLasts ==
  ASSUME NEW l, Over(l), signed'[l] = signed[l], UNCHANGED <<row, chain>>
  PROVE  Over(l)'
BY DEF Over, Confirmed, Missed, Landed, chain

\* A step of the page, which the service at most joins with a check.
LEMMA PageKeeps ==
  ASSUME IInv, TypeOK', PageHolds', LateHolds', NoReplacement',
         UNCHANGED <<row, registered, prep, sub, chain>>,
         \A k \in Launches, s \in Sigs \cup {None} :
           check'[k][s] = check[k][s] \/ CheckHolds(k, s)',
         \/ /\ signed' = signed
            /\ page'.pc = "signing" => row[page'.l].status # "failed"
         \/ /\ page.pc = "signing" /\ page'.pc # "signing"
            /\ \E s \in Sigs : signed' = [signed EXCEPT ![page.l] = {s}],
         drawn' >= drawn
  PROVE  IInv'
<1>1. TypeOK /\ PageHolds
  BY DEF IInv
<1>2. drawn \in Nat /\ drawn' \in Nat
  BY <1>1, LaunchAssumption DEF TypeOK
<1>3. ASSUME NEW l \in Launches
      PROVE  LaunchHolds(l)'
  <2>1. LaunchHolds(l)
    BY DEF IInv
  <2>2. \/ signed'[l] = signed[l]
        \/ /\ page.pc = "signing" /\ page.l = l /\ signed[l] = {} /\ page'.pc # "signing"
           /\ l <= drawn /\ row[l] # None /\ row[l].prepared
    BY <1>1, LaunchAssumption DEF TypeOK, PageHolds
  <2>3. RowHolds(l)' /\ PrepHolds(l)' /\ SubHolds(l)'
    BY <2>1, <2>2 DEF LaunchHolds, RowHolds, PrepHolds, SubHolds
  <2>4. ChainHolds(l)'
    BY <1>2, <2>1, <2>2 DEF LaunchHolds, ChainHolds, chain, Launches
  <2>5. FailedHolds(l)'
    BY <2>1, <2>2 DEF LaunchHolds, FailedHolds, Dead, Landed, chain
  <2>6. ASSUME NEW s \in Sigs \cup {None}
        PROVE  CheckHolds(l, s)'
    BY <2>1 DEF LaunchHolds, CheckHolds, chain
  <2>7. QED
    BY <2>3, <2>4, <2>5, <2>6 DEF LaunchHolds
<1>4. RegisteredIsFinal'
  BY DEF IInv, RegisteredIsFinal, Landed, Confirmed, chain
<1>5. QED
  BY <1>3, <1>4 DEF IInv

Requests == {"prepare", "submit", "cancel"} \X (1 .. drawn) \X (Sigs \cup {None})

\* The page lets go of a launch that can no longer come true, or forgets all of them.
LEMMA FormKeeps ==
  ASSUME IInv, Form, page.pc # "form",
         mine' = {} \/ (mine' = mine /\ Over(page.l)),
         late' \subseteq Requests,
         \A r \in late' \ late : r[1] \in {"prepare", "cancel"} /\ signed[r[2]] = {},
         UNCHANGED <<tables, service, drawn, signed, chain>>, faults' \in Nat
  PROVE  IInv'
<1>1. TypeOK /\ PageHolds /\ LateHolds /\ NoReplacement
  BY DEF IInv
<1>2. page' = [pc |-> "form", l |-> None, shows |-> None, req |-> "none"]
  BY DEF Form, NoPage
<1>3. page' \in Pages
  BY <1>2 DEF Pages
<1>4. mine' \subseteq 1 .. drawn'
  BY <1>1 DEF TypeOK
<1>5. TypeOK'
  BY <1>1, <1>3, <1>4 DEF TypeOK, Requests, tables, service, chain
<1>6. PageHolds'
  BY <1>2 DEF PageHolds
<1>7. LateHolds'
  <2>1. SUFFICES ASSUME NEW r \in late'
                 PROVE  /\ r[1] = "cancel" => signed'[r[2]] = {} /\ page'.l # r[2]
                        /\ r[1] = "submit" => r[3] \in signed'[r[2]]
    BY DEF LateHolds
  <2>2. r[2] \in 1 .. drawn
    BY DEF Requests
  <2>3. r[2] # None
    BY <1>1, <2>2, LaunchAssumption DEF TypeOK, Launches
  <2>4. QED
    BY <1>1, <1>2, <2>3 DEF LateHolds
<1>8. NoReplacement'
  BY <1>1, OverLasts DEF NoReplacement, tables
<1>9. drawn' >= drawn /\ page'.pc # "signing"
  BY <1>1, <1>2, LaunchAssumption DEF TypeOK
<1>10. QED
  BY <1>5, <1>6, <1>7, <1>8, <1>9, PageKeeps DEF tables, service

\* The page goes on with its launch.
LEMMA StepKeeps ==
  ASSUME IInv, page.pc # "form", page'.l = page.l,
         page' \in Pages,
         PageHolds', page'.pc = "signing" => row[page.l].status # "failed",
         late' \subseteq Requests,
         \A r \in late' \ late : r[1] = "submit" /\ r[3] \in signed[r[2]],
         check' \in [Launches -> [Sigs \cup {None} -> Checks \cup {None}]],
         \A k \in Launches, s \in Sigs \cup {None} :
           check'[k][s] = check[k][s] \/ CheckHolds(k, s)',
         UNCHANGED <<tables, prep, sub, drawn, mine, signed, chain>>, faults' \in Nat
  PROVE  IInv'
<1>1. TypeOK /\ LateHolds /\ NoReplacement
  BY DEF IInv
<1>2. TypeOK'
  BY <1>1 DEF TypeOK, Requests, tables, chain
<1>3. LateHolds'
  BY <1>1 DEF LateHolds
<1>4. NoReplacement'
  BY <1>1, OverLasts DEF NoReplacement, tables
<1>5. drawn' >= drawn
  BY <1>1, LaunchAssumption DEF TypeOK
<1>6. QED
  BY <1>2, <1>3, <1>4, <1>5, PageKeeps DEF tables

LEMMA QuietRequests == IInv => late \subseteq Requests
BY DEF IInv, TypeOK, Requests

\* The same, of a step in which nothing else happens.
LEMMA QuietStep ==
  ASSUME IInv, page.pc # "form", page'.l = page.l,
         page' \in Pages,
         PageHolds', page'.pc = "signing" => row[page.l].status # "failed",
         UNCHANGED <<tables, service, drawn, mine, late, signed, chain, faults>>
  PROVE  IInv'
<1>1. check' \in [Launches -> [Sigs \cup {None} -> Checks \cup {None}]] /\ faults' \in Nat
  BY DEF IInv, TypeOK, service
<1>2. late' \subseteq Requests
  BY QuietRequests
<1>3. QED
  BY <1>1, <1>2, StepKeeps DEF service

LEMMA QuietForm ==
  ASSUME IInv, Form, page.pc # "form", mine' = mine, Over(page.l),
         UNCHANGED <<tables, service, drawn, late, signed, chain, faults>>
  PROVE  IInv'
<1>1. late' \subseteq Requests /\ faults' \in Nat
  BY QuietRequests DEF IInv, TypeOK
<1>2. QED
  BY <1>1, FormKeeps

\* What the page shows of a launch is a status the row has, if it says that it is over.
LEMMA ReceivesShows ==
  ASSUME IInv, page.pc # "form", NEW status \in Statuses, Receives(status),
         row' = row, row[page.l] # None,
         status \in {"confirmed", "failed"} => row[page.l].status = status,
         drawn' = drawn
  PROVE  /\ page' \in Pages
         /\ page'.l = page.l /\ page'.pc = "open" /\ PageHolds'
<1> DEFINE shown == IF status \in {"preparing", "prepared"} THEN "review" ELSE status
<1>1. shown \in Statuses
  BY DEF Statuses
<1>2. page' = [page EXCEPT !.pc = "open", !.req = "none", !.shows = shown]
  BY DEF Receives
<1>3. /\ page' \in Pages
      /\ page'.l = page.l /\ page'.pc = "open" /\ page'.req = "none" /\ page'.shows = shown
  BY <1>1, <1>2 DEF IInv, TypeOK, Pages
<1>4. PageHolds'
  BY <1>3 DEF IInv, PageHolds
<1>5. QED
  BY <1>3, <1>4

\* A page that lets go before its wallet is asked has signed nothing.
LEMMA Unsigned ==
  ASSUME IInv, page.pc \in {"preparing", "getting", "signing", "cancelling"}
  PROVE  Over(page.l)
BY DEF IInv, PageHolds, Over

LEMMA BeginsKeeps ==
  ASSUME IInv, NEW l \in Launches, Begins(l)
  PROVE  IInv'
<1>1. TypeOK /\ PageHolds /\ LateHolds /\ NoReplacement /\ LaunchHolds(l)
  BY DEF IInv
<1>2. /\ page.pc = "form" /\ l = drawn + 1 /\ drawn' = l /\ mine' = mine \cup {l}
      /\ page' = [pc |-> "preparing", l |-> l, shows |-> None, req |-> "out"]
      /\ UNCHANGED <<tables, service, late, signed, chain, faults>>
  BY DEF Begins, NoPage
<1>3. page.l = None /\ drawn \in 0 .. MaxLaunches /\ MaxLaunches \in Nat
  BY <1>1, <1>2, LaunchAssumption DEF PageHolds, TypeOK
<1>4. signed[l] = {}
  BY <1>1, <1>2, <1>3 DEF LaunchHolds, ChainHolds
<1>5. drawn' \in 0 .. MaxLaunches /\ 1 .. drawn \subseteq 1 .. drawn' /\ l \in 1 .. drawn'
      /\ l \notin 1 .. drawn /\ drawn' >= drawn
  BY <1>2, <1>3 DEF Launches
<1>6. /\ mine' \subseteq 1 .. drawn'
      /\ late' \subseteq {"prepare", "submit", "cancel"} \X (1 .. drawn') \X (Sigs \cup {None})
  BY <1>1, <1>2, <1>5 DEF TypeOK
<1>7. page' \in Pages
  BY <1>2 DEF Pages
<1>8. TypeOK'
  BY <1>1, <1>2, <1>5, <1>6, <1>7 DEF TypeOK, tables, service, chain
<1>9. PageHolds'
  BY <1>2, <1>4, <1>5 DEF PageHolds
<1>10. LateHolds'
  BY <1>1, <1>2, <1>5 DEF LateHolds, TypeOK
<1>11. NoReplacement'
  <2>1. \A k \in mine : k # None
    <3>1. MaxLaunches \in Nat /\ None \notin Launches
      BY LaunchAssumption
    <3>2. mine \subseteq 1 .. drawn /\ drawn \in 0 .. MaxLaunches
      BY <1>1 DEF TypeOK, IInv
    <3>3. mine \subseteq Launches
      BY <3>1, <3>2 DEF Launches
    <3>4. QED
      BY <3>1, <3>3
  <2>2. QED
    BY <1>1, <1>2, <1>3, <2>1, OverLasts DEF NoReplacement, tables
<1>12. QED
  BY <1>2, <1>5, <1>8, <1>9, <1>10, <1>11, PageKeeps DEF tables, service

LEMMA AnswersPrepareKeeps ==
  ASSUME IInv, AnswersPrepare
  PROVE  IInv'
<1>1. /\ page.pc = "preparing" /\ page.req = "served" /\ PageHolds
      /\ UNCHANGED <<tables, service, drawn, mine, late, signed, chain, faults>>
  BY DEF AnswersPrepare, IInv
<1>2. CASE Form
  BY <1>1, <1>2, Unsigned, QuietForm
<1>3. CASE Asks("getting")
  <2>1. /\ page' \in Pages
        /\ page'.l = page.l /\ page'.pc = "getting" /\ page'.req = "reads"
    BY <1>3 DEF IInv, TypeOK, Asks, Pages
  <2>2. PageHolds'
    BY <1>1, <2>1 DEF PageHolds, tables
  <2>3. QED
    BY <1>1, <2>1, <2>2, QuietStep
<1>4. QED
  BY <1>2, <1>3 DEF AnswersPrepare

LEMMA AnswersGetKeeps ==
  ASSUME IInv, AnswersGet
  PROVE  IInv'
<1>1. /\ page.pc = "getting" /\ PageHolds /\ page.l \in Launches
      /\ UNCHANGED <<tables, service, drawn, mine, late, signed, chain, faults>>
  BY OfLaunch DEF AnswersGet, IInv
<1>2. row[page.l] # None /\ row[page.l] \in Records /\ RowHolds(page.l) /\ signed[page.l] = {}
  BY <1>1 DEF IInv, TypeOK, PageHolds, LaunchHolds
<1>3. page \in Pages
  BY DEF IInv, TypeOK
<1>4. CASE page' = [page EXCEPT !.pc = "open", !.shows = View(page.l), !.req = "none"]
  <2>1. /\ page' \in Pages
        /\ page'.l = page.l /\ page'.pc = "open" /\ page'.req = "none"
        /\ page'.shows = row[page.l].status
    BY <1>2, <1>3, <1>4 DEF Pages, View, Records
  <2>2. PageHolds'
    BY <1>1, <1>2, <2>1 DEF PageHolds, tables
  <2>3. QED
    BY <1>1, <2>1, <2>2, QuietStep
<1>5. CASE /\ View(page.l) = "prepared"
           /\ page' = [page EXCEPT !.pc = "signing", !.req = "none"]
  <2>1. /\ page' \in Pages
        /\ page'.l = page.l /\ page'.pc = "signing" /\ page'.req = "none"
    BY <1>3, <1>5 DEF Pages
  <2>2. row[page.l].prepared /\ row[page.l].status # "failed"
    BY <1>2, <1>5 DEF View, RowHolds, Records
  <2>3. PageHolds'
    BY <1>1, <1>2, <2>1, <2>2 DEF PageHolds, tables
  <2>4. QED
    BY <1>1, <2>1, <2>2, <2>3, QuietStep
<1>6. CASE Asks("cancelling")
  <2>1. /\ page' \in Pages
        /\ page'.l = page.l /\ page'.pc = "cancelling" /\ page'.req = "out"
    BY <1>3, <1>6 DEF Asks, Pages
  <2>2. PageHolds'
    BY <1>1, <1>2, <2>1 DEF PageHolds, tables
  <2>3. QED
    BY <1>1, <2>1, <2>2, QuietStep
<1>7. QED
  BY <1>4, <1>5, <1>6 DEF AnswersGet

LEMMA DeclinesKeeps ==
  ASSUME IInv, Declines
  PROVE  IInv'
<1>1. /\ page.pc = "signing" /\ PageHolds /\ Asks("cancelling")
      /\ UNCHANGED <<tables, service, drawn, mine, late, signed, chain, faults>>
  BY DEF Declines, IInv
<1>2. /\ page' \in Pages
      /\ page'.l = page.l /\ page'.pc = "cancelling" /\ page'.req = "out"
  BY <1>1 DEF IInv, TypeOK, Asks, Pages
<1>3. PageHolds'
  BY <1>1, <1>2 DEF PageHolds, tables
<1>4. QED
  BY <1>1, <1>2, <1>3, QuietStep

LEMMA AnswersSubmitKeeps ==
  ASSUME IInv, AnswersSubmit
  PROVE  IInv'
<1>1. /\ page.pc = "submitting" /\ PageHolds /\ page.l \in Launches
      /\ UNCHANGED <<tables, service, drawn, mine, late, signed, chain, faults>>
  BY OfLaunch DEF AnswersSubmit, IInv
<1>2. row[page.l] # None /\ row[page.l].status \in Statuses
  BY <1>1 DEF IInv, TypeOK, PageHolds, Records
<1>3. CASE Receives(View(page.l))
  <2>1. /\ page' \in Pages
        /\ page'.l = page.l /\ page'.pc = "open" /\ PageHolds'
    BY <1>1, <1>2, <1>3, ReceivesShows DEF tables, View
  <2>2. QED
    BY <1>1, <2>1, QuietStep
<1>4. CASE Asks("recovering")
  <2>1. /\ page' \in Pages
        /\ page'.l = page.l /\ page'.pc = "recovering" /\ page'.req = "reads"
    BY <1>4 DEF IInv, TypeOK, Asks, Pages
  <2>2. PageHolds'
    BY <1>1, <2>1 DEF PageHolds, tables
  <2>3. QED
    BY <1>1, <2>1, <2>2, QuietStep
<1>5. QED
  BY <1>3, <1>4 DEF AnswersSubmit

LEMMA PollsKeeps ==
  ASSUME IInv, Polls
  PROVE  IInv'
<1>1. /\ page.pc \in {"recovering", "open"} /\ PageHolds /\ page.l \in Launches
      /\ Receives(View(page.l)) /\ Checking(page.l, row[page.l])
      /\ UNCHANGED <<tables, prep, sub, drawn, mine, late, signed, chain, faults>>
  BY OfLaunch DEF Polls, IInv
<1>2. row[page.l] # None /\ row[page.l] \in Records /\ row[page.l].status \in Statuses
  BY <1>1 DEF IInv, TypeOK, PageHolds, Records
<1>3. /\ page' \in Pages
      /\ page'.l = page.l /\ page'.pc = "open" /\ PageHolds'
  BY <1>1, <1>2, ReceivesShows DEF tables, View
<1>4. row'[page.l] = row[page.l]
  BY <1>1 DEF tables
<1>5. /\ check' \in [Launches -> [Sigs \cup {None} -> Checks \cup {None}]]
      /\ \A k \in Launches, s \in Sigs \cup {None} :
           check'[k][s] = check[k][s] \/ CheckHolds(k, s)'
  BY <1>1, <1>2, <1>4, CheckingKeeps DEF IInv
<1>6. late' \subseteq Requests /\ faults' \in Nat
  BY <1>1, QuietRequests DEF IInv, TypeOK
<1>7. QED
  BY <1>1, <1>3, <1>5, <1>6, StepKeeps

LEMMA AnswersCancelKeeps ==
  ASSUME IInv, AnswersCancel
  PROVE  IInv'
BY Unsigned, QuietForm DEF AnswersCancel

\* The page shows only of a launch that is over that it is.
LEMMA ClosesKeeps ==
  ASSUME IInv, Closes
  PROVE  IInv'
<1>1. page.pc = "open" /\ page.shows \in {"confirmed", "failed"} /\ page.l \in Launches
  BY OfLaunch DEF Closes, Awaiting
<1>2. row[page.l] # None /\ row[page.l].status = page.shows
  BY <1>1 DEF IInv, PageHolds
<1>3. Over(page.l)
  <2>1. CASE page.shows = "failed"
    <3>1. Dead(page.l)
      BY <1>1, <1>2, <2>1 DEF IInv, LaunchHolds, FailedHolds
    <3>2. QED
      BY <1>2, <2>1, <3>1 DEF Dead, Over, Missed, Landed
  <2>2. CASE page.shows = "confirmed"
    BY <1>1, <1>2, <2>2 DEF IInv, RegisteredIsFinal, Confirmed, Over
  <2>3. QED
    BY <1>1, <2>1, <2>2
<1>4. QED
  BY <1>1, <1>3, QuietForm DEF Closes

LEMMA ReloadsKeeps ==
  ASSUME IInv, Reloads
  PROVE  IInv'
<1>1. late' \subseteq Requests /\ faults' \in Nat
  BY QuietRequests DEF IInv, TypeOK, Reloads
<1>2. QED
  BY <1>1, FormKeeps DEF Reloads

LEMMA SignsKeeps ==
  ASSUME IInv, NEW s \in Sigs, Signs(s)
  PROVE  IInv'
<1>1. /\ page.pc = "signing" /\ TypeOK /\ PageHolds /\ LateHolds /\ NoReplacement
      /\ signed' = [signed EXCEPT ![page.l] = {s}]
      /\ page' = [page EXCEPT !.pc = "submitting", !.req = "out"]
      /\ UNCHANGED <<tables, service, drawn, mine, late, chain, faults>>
  BY DEF Signs, IInv
<1>2. page.l \in Launches /\ signed[page.l] = {} /\ row[page.l] # None
  BY <1>1, OfLaunch DEF PageHolds
<1>3. /\ page' \in Pages
      /\ page'.l = page.l /\ page'.pc = "submitting" /\ page'.req = "out"
  BY <1>1 DEF TypeOK, Pages
<1>4. signed' \in [Launches -> SUBSET Sigs] /\ \A k \in Launches \ {page.l} : signed'[k] = signed[k]
  BY <1>1 DEF TypeOK
<1>5. TypeOK'
  BY <1>1, <1>3, <1>4 DEF TypeOK, tables, service, chain
<1>6. PageHolds'
  BY <1>1, <1>2, <1>3 DEF PageHolds, tables
<1>7. LateHolds'
  <2>1. SUFFICES ASSUME NEW r \in late
                 PROVE  /\ r[1] = "cancel" => signed'[r[2]] = {} /\ page'.l # r[2]
                        /\ r[1] = "submit" => r[3] \in signed'[r[2]]
    BY <1>1 DEF LateHolds
  <2>2. r[2] \in Launches
    BY <1>1, LaunchAssumption DEF TypeOK, Launches
  <2>3. QED
    BY <1>1, <1>2, <1>3, <1>4, <2>2 DEF LateHolds
<1>8. NoReplacement'
  <2>1. mine \subseteq Launches
    BY <1>1, LaunchAssumption DEF TypeOK, Launches
  <2>2. QED
    BY <1>1, <1>3, <1>4, <2>1, OverLasts DEF NoReplacement, tables
<1>9. drawn' >= drawn
  BY <1>1, LaunchAssumption DEF TypeOK
<1>10. QED
  BY <1>1, <1>3, <1>5, <1>6, <1>7, <1>8, <1>9, PageKeeps DEF tables, service

\* An answer that is lost: the page recovers, or lets go of what was never signed.
LEMMA LosesKeeps ==
  ASSUME IInv, Loses
  PROVE  IInv'
<1> DEFINE lost == CASE page.pc = "preparing" -> {<<"prepare", page.l, None>>}
                     [] page.pc = "submitting" -> {<<"submit", page.l, s>> : s \in signed[page.l]}
                     [] page.pc = "cancelling" -> {<<"cancel", page.l, None>>}
                     [] OTHER -> {}
<1>1. /\ TypeOK /\ PageHolds /\ page.req # "none" /\ faults' \in Nat
      /\ late' = IF page.req = "out" THEN late \cup lost ELSE late
      /\ UNCHANGED <<tables, service, drawn, mine, signed, chain>>
  BY FaultCounts DEF Loses, IInv
<1>2. /\ page.pc \in {"preparing", "getting", "submitting", "recovering", "cancelling"}
      /\ page.l \in 1 .. drawn /\ page.l \in Launches
  BY <1>1, OfLaunch DEF PageHolds
<1>3. check' \in [Launches -> [Sigs \cup {None} -> Checks \cup {None}]]
  BY <1>1 DEF TypeOK, service
<1>4. CASE page.pc \in {"preparing", "cancelling"}
  <2>1. Form /\ Over(page.l)
    BY <1>4, Unsigned DEF Loses
  <2>2. \A r \in lost : /\ r[1] \in {"prepare", "cancel"} /\ r[2] = page.l
                        /\ r \in Requests
    BY <1>2, <1>4 DEF Requests
  <2>3. signed[page.l] = {}
    BY <1>1, <1>4 DEF PageHolds
  <2>4. /\ late' \subseteq Requests
        /\ \A r \in late' \ late : r[1] \in {"prepare", "cancel"} /\ signed[r[2]] = {}
    BY <1>1, <2>2, <2>3, QuietRequests
  <2>5. QED
    BY <1>1, <1>4, <2>1, <2>4, FormKeeps
<1>5. CASE page.pc = "getting"
  <2>1. late' \subseteq Requests /\ \A r \in late' \ late : FALSE
    BY <1>1, <1>5, QuietRequests
  <2>2. Asks("cancelling")
    BY <1>5 DEF Loses
  <2>3. /\ page' \in Pages
        /\ page'.l = page.l /\ page'.pc = "cancelling" /\ page'.req = "out"
    BY <1>1, <2>2 DEF TypeOK, Asks, Pages
  <2>4. PageHolds'
    BY <1>1, <1>5, <2>3 DEF PageHolds, tables
  <2>5. QED
    BY <1>1, <1>3, <1>5, <2>1, <2>3, <2>4, StepKeeps DEF service
<1>6. CASE page.pc = "submitting"
  <2>1. signed[page.l] \subseteq Sigs
    BY <1>1, <1>2 DEF TypeOK
  <2>2. \A r \in lost : /\ r[1] = "submit" /\ r[3] \in signed[r[2]]
                        /\ r \in Requests
    BY <1>2, <1>6, <2>1 DEF Requests
  <2>3. /\ late' \subseteq Requests
        /\ \A r \in late' \ late : r[1] = "submit" /\ r[3] \in signed[r[2]]
    BY <1>1, <2>2, QuietRequests
  <2>4. Asks("recovering")
    BY <1>6 DEF Loses
  <2>5. /\ page' \in Pages
        /\ page'.l = page.l /\ page'.pc = "recovering" /\ page'.req = "reads"
    BY <1>1, <2>4 DEF TypeOK, Asks, Pages
  <2>6. PageHolds'
    BY <1>1, <1>6, <2>5 DEF PageHolds, tables
  <2>7. QED
    BY <1>1, <1>3, <1>6, <2>3, <2>5, <2>6, StepKeeps DEF service
<1>7. CASE page.pc = "recovering"
  <2>1. late' \subseteq Requests /\ \A r \in late' \ late : FALSE
    BY <1>1, <1>7, QuietRequests
  <2>2. Receives("review") /\ row[page.l] # None
    BY <1>1, <1>7 DEF Loses, PageHolds
  <2>3. /\ page' \in Pages
        /\ page'.l = page.l /\ page'.pc = "open" /\ PageHolds'
    BY <1>1, <1>7, <2>2, ReceivesShows DEF tables, Statuses
  <2>4. QED
    BY <1>1, <1>3, <1>7, <2>1, <2>3, StepKeeps DEF service
<1>8. QED
  BY <1>2, <1>4, <1>5, <1>6, <1>7

-----------------------------------------------------------------------------
\* The chain, and a crash.

\* A step of the chain, by what it leaves of each launch's message and window.
LEMMA ChainKeeps ==
  ASSUME IInv, OnlyChain, faults' \in Nat,
         pool' \in [Launches -> SUBSET Sigs],
         tx' \in [Launches -> Txs],
         window' \in [Launches -> {"open", "closing", "closed"}],
         \A l \in Launches :
           /\ pool'[l] \subseteq signed[l]
           /\ tx[l].at = "final" => tx'[l] = tx[l]
           /\ tx'[l].at # "none" => tx'[l].sig \in pool'[l]
           /\ window[l] = "closed" =>
                window'[l] = "closed" /\ (tx'[l] = tx[l] \/ tx'[l].at # "final")
           /\ window'[l] = "closed" => tx'[l].at # "processed"
  PROVE  IInv'
<1>1. TypeOK'
  BY DEF IInv, TypeOK, OnlyChain, tables, service, client
<1>2. ASSUME NEW l \in Launches
      PROVE  LaunchHolds(l)'
  <2>1. LaunchHolds(l)
    BY DEF IInv
  <2>2. /\ row' = row /\ prep' = prep /\ sub' = sub /\ check' = check
        /\ signed' = signed /\ page' = page /\ drawn' = drawn
    BY DEF OnlyChain, tables, service, client
  <2>3. RowHolds(l)' /\ PrepHolds(l)' /\ SubHolds(l)' /\ ChainHolds(l)'
    BY <2>1, <2>2 DEF LaunchHolds, RowHolds, PrepHolds, SubHolds, ChainHolds
  <2>4. FailedHolds(l)'
    BY <2>1, <2>2 DEF LaunchHolds, ChainHolds, FailedHolds, Dead, Landed
  <2>5. ASSUME NEW s \in Sigs \cup {None}
        PROVE  CheckHolds(l, s)'
    BY <2>1, <2>2 DEF LaunchHolds, CheckHolds
  <2>6. QED
    BY <2>3, <2>4, <2>5 DEF LaunchHolds
<1>3. RegisteredIsFinal'
  BY DEF IInv, RegisteredIsFinal, Landed, Confirmed, OnlyChain, tables
<1>4. PageHolds' /\ LateHolds'
  BY DEF IInv, PageHolds, LateHolds, OnlyChain, tables, client
<1>5. NoReplacement'
  <2>1. mine \subseteq Launches
    BY LaunchAssumption DEF IInv, TypeOK, Launches
  <2>2. QED
    BY <2>1 DEF IInv, NoReplacement, Over, Confirmed, Missed, Landed, OnlyChain, client, tables
<1>6. QED
  BY <1>1, <1>2, <1>3, <1>4, <1>5 DEF IInv

LEMMA ChainStepKeeps ==
  ASSUME IInv, NEW l \in Launches, Chain(l)
  PROVE  IInv'
<1>1. TypeOK /\ \A k \in Launches : ChainHolds(k)
  BY DEF IInv, LaunchHolds
<1>2. ASSUME NEW s \in Sigs, NEW ok \in BOOLEAN, Includes(l, s, ok)
      PROVE  IInv'
  <2>1. /\ OnlyChain /\ pool' = pool /\ window' = window
        /\ s \in pool[l] /\ tx[l].at = "none" /\ window[l] = "open"
        /\ tx' = [tx EXCEPT ![l] = [at |-> "processed", sig |-> s, ok |-> ok]]
    BY <1>2 DEF Includes
  <2>2. faults' \in Nat
    BY <1>1, <1>2, FaultCounts DEF Includes
  <2>3. QED
    BY <1>1, <2>1, <2>2, ChainKeeps DEF TypeOK, ChainHolds, Txs
<1>3. ASSUME Finalizes(l)
      PROVE  IInv'
  <2>1. /\ OnlyChain /\ pool' = pool /\ window' = window /\ faults' = faults
        /\ tx[l].at = "processed" /\ window[l] # "closed"
        /\ tx' = [tx EXCEPT ![l].at = "final"]
    BY <1>3 DEF Finalizes
  <2>2. /\ tx' \in [Launches -> Txs]
        /\ tx'[l].at = "final" /\ tx'[l].sig = tx[l].sig
        /\ \A k \in Launches \ {l} : tx'[k] = tx[k]
    <3> DEFINE new == [tx[l] EXCEPT !.at = "final"]
    <3>1. tx \in [Launches -> Txs]
      BY <1>1 DEF TypeOK
    <3>2. /\ new \in Txs
          /\ new.at = "final" /\ new.sig = tx[l].sig
      BY <3>1 DEF Txs
    <3>3. tx' = [tx EXCEPT ![l] = new]
      BY <2>1
    <3> HIDE DEF new
    <3>4. QED
      BY <3>1, <3>2, <3>3
  <2>3. QED
    BY <1>1, <2>1, <2>2, ChainKeeps DEF TypeOK, ChainHolds
<1>4. ASSUME Forks(l)
      PROVE  IInv'
  <2>1. /\ OnlyChain /\ pool' = pool /\ window' = window
        /\ tx[l].at = "processed" /\ tx' = [tx EXCEPT ![l] = [at |-> "none", sig |-> None, ok |-> FALSE]]
    BY <1>4 DEF Forks, NoTx
  <2>2. faults' \in Nat
    BY <1>1, <1>4, FaultCounts DEF Forks
  <2>3. QED
    BY <1>1, <2>1, <2>2, ChainKeeps DEF TypeOK, ChainHolds, Txs
<1>5. ASSUME Sends(l)
      PROVE  IInv'
  <2>1. /\ OnlyChain /\ tx' = tx /\ window' = window
        /\ pool' = [pool EXCEPT ![l] = pool[l] \cup signed[l]]
    BY <1>5 DEF Sends
  <2>2. faults' \in Nat
    BY <1>1, <1>5, FaultCounts DEF Sends
  <2>3. pool' \in [Launches -> SUBSET Sigs]
    BY <1>1, <2>1 DEF TypeOK
  <2>4. \A k \in Launches : pool[k] \subseteq pool'[k] /\ pool'[k] \subseteq signed[k]
    BY <1>1, <2>1 DEF TypeOK, ChainHolds
  <2>5. QED
    BY <1>1, <2>1, <2>2, <2>3, <2>4, ChainKeeps DEF TypeOK, ChainHolds
<1>6. ASSUME Ages(l)
      PROVE  IInv'
  <2>1. OnlyChain /\ tx' = tx /\ pool' = pool /\ faults' = faults
    BY <1>6 DEF Ages
  <2>2. \/ window[l] = "open" /\ window' = [window EXCEPT ![l] = "closing"]
        \/ /\ window[l] = "closing" /\ tx[l].at # "processed"
           /\ window' = [window EXCEPT ![l] = "closed"]
    BY <1>6 DEF Ages
  <2>3. /\ pool \in [Launches -> SUBSET Sigs]
        /\ tx \in [Launches -> Txs]
        /\ window \in [Launches -> {"open", "closing", "closed"}] /\ faults \in Nat
    BY <1>1 DEF TypeOK
  <2>4. window' \in [Launches -> {"open", "closing", "closed"}]
    BY <2>2, <2>3
  <2>5. ASSUME NEW k \in Launches
        PROVE  /\ window[k] = "closed" => window'[k] = "closed"
               /\ window'[k] = "closed" => tx[k].at # "processed"
    BY <1>1, <2>2, <2>3 DEF ChainHolds
  <2>6. QED
    BY <1>1, <2>1, <2>3, <2>5, <2>4, ChainKeeps DEF ChainHolds
<1>7. QED
  BY <1>2, <1>3, <1>4, <1>5, <1>6 DEF Chain

LEMMA CrashKeeps ==
  ASSUME IInv, Crash
  PROVE  IInv'
<1>1. TypeOK /\ faults' \in Nat
  BY FaultCounts DEF Crash, IInv
<1>2. /\ prep' = [l \in Launches |-> None] /\ sub' = [l \in Launches |-> NoSub]
      /\ check' = [l \in Launches |-> [s \in Sigs \cup {None} |-> None]]
      /\ UNCHANGED <<tables, client, chain>>
  BY DEF Crash
<1>3. /\ prep' \in [Launches -> Records \cup {None}]
      /\ sub' \in [Launches -> Submissions]
      /\ check' \in [Launches -> [Sigs \cup {None} -> Checks \cup {None}]]
  BY <1>2 DEF NoSub, Submissions
<1>4. TypeOK'
  BY <1>1, <1>2, <1>3 DEF TypeOK, tables, client, chain
<1>5. \A k \in Launches : Stays(k) /\ SubHolds(k)' /\ pool[k] \subseteq signed[k]
  BY <1>2 DEF Stays, SubHolds, NoSub, tables, IInv, LaunchHolds, ChainHolds
<1>6. \A k \in Launches, s \in Sigs \cup {None} : CheckHolds(k, s)'
  BY <1>2 DEF CheckHolds
<1>7. page.pc = "preparing" /\ page.req = "served" => row'[page.l] # None
  BY <1>2 DEF IInv, PageHolds, tables
<1>8. Moves
  BY <1>2, <1>5, <1>6, <1>7 DEF Moves, tables, client, chain
<1>9. QED
  BY <1>4, <1>8, MovesKeep

-----------------------------------------------------------------------------
LEMMA Inductive == IInv /\ [Next]_vars => IInv'
<1> SUFFICES ASSUME IInv, [Next]_vars PROVE IInv'
  OBVIOUS
<1>1. ASSUME NEW l \in Launches, Service(l)
      PROVE  IInv'
  <2>1. ASSUME NEW ok \in BOOLEAN, Prepared(l, ok) \/ Broadcasts(l, ok)
        PROVE  IInv'
    BY <2>1, PreparedKeeps, BroadcastsKeeps
  <2>2. ASSUME Height(l) \/ Mint(l) \/ Resends(l) \/ Sweep(l)
        PROVE  IInv'
    BY <2>2, HeightKeeps, MintKeeps, ResendsKeeps, SweepKeeps
  <2>3. ASSUME NEW s \in Sigs, Status(l, s) \/ Expired(l, s)
        PROVE  IInv'
    BY <2>3, StatusKeeps, ExpiredKeeps
  <2>4. ASSUME NEW s \in Sigs \cup {None}, NEW timeout \in BOOLEAN, CheckFails(l, s, timeout)
        PROVE  IInv'
    BY <2>4, CheckFailsKeeps
  <2>5. QED
    BY <1>1, <2>1, <2>2, <2>3, <2>4 DEF Service
<1>2. ASSUME Page
      PROVE  IInv'
  <2>1. ASSUME NEW l \in Launches, Begins(l) \/ Retries(l)
        PROVE  IInv'
    BY <2>1, BeginsKeeps, RetriesKeeps
  <2>2. ASSUME \/ Arrives \/ AnswersPrepare \/ AnswersGet \/ AnswersSubmit
               \/ AnswersCancel \/ Loses
        PROVE  IInv'
    BY <2>2, ArrivesKeeps, AnswersPrepareKeeps, AnswersGetKeeps, AnswersSubmitKeeps,
       AnswersCancelKeeps, LosesKeeps
  <2>3. ASSUME NEW s \in Sigs, Signs(s)
        PROVE  IInv'
    BY <2>3, SignsKeeps
  <2>4. ASSUME Declines \/ Polls \/ Closes \/ Reloads
        PROVE  IInv'
    BY <2>4, DeclinesKeeps, PollsKeeps, ClosesKeeps, ReloadsKeeps
  <2>5. ASSUME NEW r \in late, ArrivesLate(r)
        PROVE  IInv'
    BY <2>5, ArrivesLateKeeps
  <2>6. QED
    BY <1>2, <2>1, <2>2, <2>3, <2>4, <2>5 DEF Page
<1>3. ASSUME UNCHANGED vars
      PROVE  IInv'
  <2>1. /\ check' \in [Launches -> [Sigs \cup {None} -> Checks \cup {None}]]
        /\ earlier' \in [Launches -> SUBSET Launches] /\ faults' \in Nat
    BY <1>3 DEF IInv, TypeOK, vars, tables, service
  <2>2. QED
    BY <1>3, <2>1, ChecksOnly DEF vars, tables, service
<1>4. QED
  BY <1>1, <1>2, <1>3, ChainStepKeeps, CrashKeeps DEF Next

LEMMA Invariant == Spec => []IInv
BY InitIInv, Inductive, PTL DEF Spec

\* Whatever checks, broadcasts and sweeps end in between, what a row says has become
\* of a launch is what the chain will always say: what failed never lands, unless it had
\* by a signature that only the wallet sent and a node that was behind denied it; and
\* what is confirmed or registered is final with the saved signature.
THEOREM StatusesAreTrue == Spec => []StatusIsTrue
<1>1. IInv => StatusIsTrue
  <2> SUFFICES ASSUME IInv PROVE FailedIsDead
    BY DEF IInv, StatusIsTrue
  <2>1. ASSUME NEW l \in Launches, row[l] # None, row[l].status = "failed"
        PROVE  ~Landed(l) \/ Missed(l)
    <3>1. Dead(l) /\ ChainHolds(l)
      BY <2>1 DEF IInv, LaunchHolds, FailedHolds
    <3>2. QED
      BY <2>1, <3>1 DEF Dead, ChainHolds, Missed, Landed
  <2>2. QED
    BY <2>1 DEF FailedIsDead
<1>2. QED
  BY <1>1, Invariant, PTL

\* However many answers are lost and requests come late, the page goes on to another
\* launch only when the one before is confirmed or can no longer come true, or was denied
\* by a node that was behind.
THEOREM LaunchesAreNotReplaced == Spec => []NoReplacement
<1>1. IInv => NoReplacement
  BY DEF IInv
<1>2. QED
  BY <1>1, Invariant, PTL

-----------------------------------------------------------------------------
\* FeeRouter.

\* Both children of a split are recorded with it.
HasChildren ==
  /\ Historical \subseteq pipeline
  /\ \A lot \in splits : Streamer(lot) \in pipeline
  /\ \A lot \in splits : Fifth(lot) # 0 => \E o \in outbox : o.child = BuybackOf(lot)
  /\ \A o \in outbox : \E lot \in splits : o.child = BuybackOf(lot) /\ Fifth(lot) # 0
  /\ \A job \in pipeline \ Historical : \E lot \in splits : job = Streamer(lot)

\* What a scan is about to acknowledge is split; what a hand-off works on comes
\* from the outbox, and what it is about to acknowledge has been taken in.
InFlight ==
  \A p \in Processes :
    /\ toAck[p] # Nothing => Lots[toAck[p]] \in splits
    /\ \A child \in children[p] : \E lot \in splits : child = BuybackOf(lot)
    /\ handed[p] # Nothing => /\ handed[p] \in buyback
                           /\ \E lot \in splits : handed[p] = BuybackOf(lot)

RouterIInv ==
  /\ RouterTypeOK
  /\ HasChildren
  /\ PaidOnce
  /\ InFlight
  /\ AcknowledgedIsDurable

-----------------------------------------------------------------------------
\* The operators on lots.

Fields == {"id", "ref", "token", "units"}

LEMMA LotFields ==
  ASSUME NEW lot \in LotsSet
  PROVE  DOMAIN lot = Fields /\ lot.units \in Nat \ {0}
BY FeeRouterAssumption DEF LotsSet, Fields

\* A fifth and the rest are what there was.
LEMMA FifthIsPart ==
  ASSUME NEW lot \in LotsSet
  PROVE  /\ Fifth(lot) \in Nat
         /\ lot.units - Fifth(lot) >= 4 * Fifth(lot)
<1>1. lot.units \in Nat  BY LotFields
<1>2. QED  BY <1>1 DEF Fifth

\* A child has the claim of its lot, and its name tells whose it is.
LEMMA ChildFields ==
  ASSUME NEW lot \in LotsSet
  PROVE  /\ Streamer(lot).id = <<lot.id, "streamer">>
         /\ Streamer(lot).ref = lot.ref /\ Streamer(lot).token = lot.token
         /\ Streamer(lot).units = lot.units - Fifth(lot)
         /\ BuybackOf(lot).id = <<lot.id, "buyback">>
         /\ BuybackOf(lot).units = Fifth(lot)
<1>1. DOMAIN lot = Fields  BY LotFields
<1>2. QED  BY <1>1 DEF Fields, Streamer, BuybackOf, Child

LEMMA BuybackIds ==
  ASSUME NEW a \in LotsSet, NEW b \in LotsSet, BuybackOf(a).id = BuybackOf(b).id
  PROVE  a.id = b.id
BY ChildFields

-----------------------------------------------------------------------------
LEMMA RouterInitIInv == RouterInit => RouterIInv
<1> SUFFICES ASSUME RouterInit PROVE RouterIInv  OBVIOUS
<1>1. RouterTypeOK  BY FeeRouterAssumption DEF RouterInit, RouterTypeOK
<1>2. HasChildren  BY DEF RouterInit, HasChildren
<1>3. PaidOnce  BY FeeRouterAssumption DEF RouterInit, PaidOnce, SameClaim
<1>4. InFlight  BY DEF RouterInit, InFlight
<1>5. AcknowledgedIsDurable  BY DEF RouterInit, AcknowledgedIsDurable
<1>6. QED  BY <1>1, <1>2, <1>3, <1>4, <1>5 DEF RouterIInv

\* What the steps that record no claim keep of the invariant.
LEMMA SplitsStay ==
  ASSUME RouterIInv, UNCHANGED <<splits, pipeline>>,
         {o.child : o \in outbox'} = {o.child : o \in outbox}
  PROVE  HasChildren' /\ PaidOnce'
<1>1. HasChildren /\ PaidOnce  BY DEF RouterIInv
<1>2. PaidOnce'  BY <1>1 DEF PaidOnce
<1>3. HasChildren'
  <2>1. \A o \in outbox' : \E e \in outbox : o.child = e.child  OBVIOUS
  <2>2. \A e \in outbox : \E o \in outbox' : o.child = e.child  OBVIOUS
  <2>3. QED  BY <1>1, <2>1, <2>2 DEF HasChildren
<1>4. QED  BY <1>2, <1>3

LEMMA FindStep ==
  ASSUME RouterIInv, Find
  PROVE  RouterIInv'
<1> USE DEF Find, routerTables, scan, handoff
<1>1. RouterTypeOK'
  <2>1. 1 .. found \subseteq 1 .. (found + 1) /\ found + 1 \in 0 .. Len(Lots)
    BY FeeRouterAssumption DEF RouterIInv, RouterTypeOK
  <2>2. QED  BY <2>1 DEF RouterIInv, RouterTypeOK
<1>2. HasChildren' /\ PaidOnce'  BY SplitsStay
<1>3. InFlight' /\ AcknowledgedIsDurable'  BY DEF RouterIInv, InFlight, AcknowledgedIsDurable
<1>4. QED  BY <1>1, <1>2, <1>3 DEF RouterIInv

\* The scan between its statements.
LEMMA ScanMoves ==
  ASSUME RouterIInv, NEW p \in Processes, Scan(p) \/ ScanFails(p) \/ Conflict(p)
  PROVE  RouterIInv'
<1> USE DEF Scan, ScanFails, Conflict, routerTables, handoff
<1>1. RouterTypeOK'
  <2>1. NextSource(p) \in 1 .. Sources
    BY FeeRouterAssumption DEF NextSource, RouterIInv, RouterTypeOK
  <2>2. turn' \in [Processes -> 1 .. Sources]  BY <2>1 DEF RouterIInv, RouterTypeOK
  <2>3. todo' \in [Processes -> SUBSET (1 .. found)]  BY DEF RouterIInv, RouterTypeOK
  <2>4. failures' \in Nat  BY DEF Failure, RouterIInv, RouterTypeOK
  <2>5. QED  BY <2>2, <2>3, <2>4 DEF RouterIInv, RouterTypeOK
<1>2. HasChildren' /\ PaidOnce'  BY SplitsStay
<1>3. InFlight' /\ AcknowledgedIsDurable'  BY DEF RouterIInv, InFlight, AcknowledgedIsDurable
<1>4. QED  BY <1>1, <1>2, <1>3 DEF RouterIInv

\* A lot split before is told again.
LEMMA KnownStep ==
  ASSUME RouterIInv, NEW p \in Processes, Known(p)
  PROVE  RouterIInv'
<1>1. PICK i \in Index : /\ InHand(p, i) /\ Previous(Lots[i]) = {Lots[i]}
                        /\ toAck' = [toAck EXCEPT ![p] = i]
  BY DEF Known
<1>2. UNCHANGED <<found, returned, routerTables, turn, todo, handoff, failures>>  BY DEF Known
<1> USE <1>1, <1>2 DEF routerTables, handoff
<1>3. i \in 1 .. found  BY DEF InHand, RouterIInv, RouterTypeOK
<1>4. Lots[i] \in splits  BY DEF Previous
<1>5. RouterTypeOK'  BY <1>3 DEF RouterIInv, RouterTypeOK
<1>6. HasChildren' /\ PaidOnce'  BY SplitsStay
<1>7. InFlight' /\ AcknowledgedIsDurable'
  BY <1>4 DEF RouterIInv, RouterTypeOK, InFlight, AcknowledgedIsDurable
<1>8. QED  BY <1>5, <1>6, <1>7 DEF RouterIInv

-----------------------------------------------------------------------------
\* The transaction that records a new claim, in its parts.
NewSplit(lot) ==
  /\ Previous(lot) = {} /\ ~Refused(Streamer(lot))
  /\ splits' = splits \cup {lot}
  /\ outbox' = outbox \cup OutboxOf(lot)
  /\ pipeline' = pipeline \cup {Streamer(lot)}

LEMMA SplitHasChildren ==
  ASSUME RouterIInv, NEW lot \in LotsSet, NewSplit(lot)
  PROVE  HasChildren'
<1>1. HasChildren  BY DEF RouterIInv
<1>2. \A o \in OutboxOf(lot) : o.child = BuybackOf(lot) /\ Fifth(lot) # 0
  BY DEF OutboxOf
<1>3. Fifth(lot) # 0 => \E o \in OutboxOf(lot) : o.child = BuybackOf(lot)
  BY DEF OutboxOf
<1>4. QED  BY <1>1, <1>2, <1>3 DEF HasChildren, NewSplit

LEMMA SplitPaidOnce ==
  ASSUME RouterIInv, NEW lot \in LotsSet, NewSplit(lot)
  PROVE  PaidOnce'
<1>1. PaidOnce /\ HasChildren /\ splits \subseteq LotsSet  BY DEF RouterIInv, RouterTypeOK
<1> DEFINE child == Streamer(lot)
<1>2. child.ref = lot.ref /\ child.token = lot.token  BY ChildFields
<1>3. \A old \in pipeline : old.id = child.id => old = child
  BY DEF NewSplit, Refused
<1>4. \A old \in pipeline : old.id # child.id => ~SameClaim(old, child)
  BY DEF NewSplit, Refused
<1>5. \A old \in pipeline : SameClaim(old, child) => old = child  BY <1>3, <1>4
<1>6. \A a, b \in pipeline' : SameClaim(a, b) => a = b
  BY <1>1, <1>5 DEF NewSplit, PaidOnce, SameClaim
<1>7. \A old \in splits : old.id # lot.id /\ ~SameClaim(old, lot)
  BY DEF NewSplit, Previous
<1>8. \A a, b \in splits' : a.id = b.id \/ SameClaim(a, b) => a = b
  BY <1>1, <1>7 DEF NewSplit, PaidOnce, SameClaim
<1>9. \A job \in Historical : ~SameClaim(job, lot)
  <2> SUFFICES ASSUME NEW job \in Historical PROVE ~SameClaim(job, lot)  OBVIOUS
  <2>1. job \in pipeline  BY <1>1 DEF HasChildren
  <2>2. job.id # child.id  BY FeeRouterAssumption DEF LotsSet
  <2>3. ~SameClaim(job, child)  BY <1>4, <2>1, <2>2
  <2>4. QED  BY <1>2, <2>3 DEF SameClaim
<1>10. QED  BY <1>1, <1>6, <1>8, <1>9 DEF NewSplit, PaidOnce

LEMMA SplitStep ==
  ASSUME RouterIInv, NEW p \in Processes, Split(p)
  PROVE  RouterIInv'
<1>1. PICK i \in Index : /\ InHand(p, i) /\ NewSplit(Lots[i])
                        /\ toAck' = [toAck EXCEPT ![p] = i]
  BY DEF Split, NewSplit
<1>2. UNCHANGED <<found, returned, buyback, turn, todo, handoff, failures>>  BY DEF Split
<1>3. Lots[i] \in LotsSet /\ i \in 1 .. found
  BY <1>1 DEF LotsSet, InHand, RouterIInv, RouterTypeOK
<1>4. HasChildren'  BY <1>1, <1>3, SplitHasChildren
<1>5. PaidOnce'  BY <1>1, <1>3, SplitPaidOnce
<1>6. RouterTypeOK'
  <2>1. OutboxOf(Lots[i]) \subseteq [child : ChildrenOf(BuybackOf), acked : BOOLEAN]
    <3>1. BuybackOf(Lots[i]) \in ChildrenOf(BuybackOf)  BY <1>3 DEF ChildrenOf
    <3>2. [child |-> BuybackOf(Lots[i]), acked |-> FALSE]
            \in [child : ChildrenOf(BuybackOf), acked : BOOLEAN]
      BY <3>1
    <3>3. QED  BY <3>2 DEF OutboxOf
  <2>2. Streamer(Lots[i]) \in ChildrenOf(Streamer)  BY <1>3 DEF ChildrenOf
  <2>3. QED  BY <1>1, <1>2, <1>3, <2>1, <2>2 DEF NewSplit, handoff, RouterIInv, RouterTypeOK
<1>7. InFlight'
  BY <1>1, <1>2, <1>3 DEF NewSplit, handoff, RouterIInv, RouterTypeOK, InFlight
<1>8. AcknowledgedIsDurable'
  <2>1. \A o \in OutboxOf(Lots[i]) : ~o.acked  BY DEF OutboxOf
  <2>2. QED  BY <1>1, <1>2, <2>1 DEF NewSplit, RouterIInv, AcknowledgedIsDurable
<1>9. QED  BY <1>4, <1>5, <1>6, <1>7, <1>8 DEF RouterIInv

-----------------------------------------------------------------------------
\* A lot is acknowledged to its source, or the call fails.
LEMMA ReturnStep ==
  ASSUME RouterIInv, NEW p \in Processes, Return(p) \/ ReturnFails(p)
  PROVE  RouterIInv'
<1> USE DEF Return, ReturnFails, routerTables, handoff
<1>1. toAck[p] \in 1 .. found /\ Lots[toAck[p]] \in splits
  BY DEF RouterIInv, RouterTypeOK, InFlight
<1>2. RouterTypeOK'
  <2>1. todo' \in [Processes -> SUBSET (1 .. found)]  BY DEF RouterIInv, RouterTypeOK
  <2>2. returned' \subseteq 1 .. found  BY <1>1 DEF RouterIInv, RouterTypeOK
  <2>3. failures' \in Nat  BY DEF Failure, RouterIInv, RouterTypeOK
  <2>4. toAck' \in [Processes -> (1 .. found) \cup {Nothing}]  BY DEF RouterIInv, RouterTypeOK
  <2>5. QED  BY <2>1, <2>2, <2>3, <2>4 DEF RouterIInv, RouterTypeOK
<1>3. HasChildren' /\ PaidOnce'  BY SplitsStay
<1>4. InFlight'  BY DEF RouterIInv, RouterTypeOK, InFlight
<1>5. AcknowledgedIsDurable'
  <2>1. \A i \in returned' : i \in returned \/ i = toAck[p]  OBVIOUS
  <2>2. QED  BY <1>1, <2>1 DEF RouterIInv, HasChildren, AcknowledgedIsDurable
<1>6. QED  BY <1>2, <1>3, <1>4, <1>5 DEF RouterIInv

LEMMA ListStep ==
  ASSUME RouterIInv, NEW p \in Processes, ListChildren(p)
  PROVE  RouterIInv'
<1> USE DEF ListChildren, routerTables, scan
<1>1. \A child \in children'[p] : \E o \in outbox : child = o.child
  BY DEF RouterIInv, RouterTypeOK
<1>2. RouterTypeOK'
  <2>1. \A o \in outbox : o.child \in ChildrenOf(BuybackOf)  BY DEF RouterIInv, RouterTypeOK
  <2>2. {o.child : o \in {e \in outbox : ~e.acked}} \subseteq ChildrenOf(BuybackOf)
    BY <2>1
  <2>3. QED  BY <2>2 DEF RouterIInv, RouterTypeOK
<1>3. HasChildren' /\ PaidOnce'  BY SplitsStay
<1>4. InFlight'
  <2>1. \A child \in children'[p] : \E lot \in splits : child = BuybackOf(lot)
    BY <1>1 DEF RouterIInv, HasChildren
  <2>2. QED  BY <2>1 DEF RouterIInv, RouterTypeOK, InFlight
<1>5. AcknowledgedIsDurable'  BY DEF RouterIInv, AcknowledgedIsDurable
<1>6. QED  BY <1>2, <1>3, <1>4, <1>5 DEF RouterIInv

LEMMA HandOverStep ==
  ASSUME RouterIInv, NEW p \in Processes, HandOver(p)
  PROVE  RouterIInv'
<1>1. PICK child \in children[p] :
        /\ children' = [children EXCEPT ![p] = @ \ {child}]
        /\ \/ UNCHANGED <<buyback, handed>>
           \/ /\ buyback' = buyback \cup {child}
              /\ handed' = [handed EXCEPT ![p] = child]
  BY DEF HandOver
<1>2. UNCHANGED <<found, returned, splits, outbox, pipeline, scan, failures>>
  BY DEF HandOver
<1> USE <1>1, <1>2 DEF scan
<1>3. child \in ChildrenOf(BuybackOf) /\ \E lot \in splits : child = BuybackOf(lot)
  BY DEF RouterIInv, RouterTypeOK, InFlight
<1>4. RouterTypeOK'
  <2>1. buyback' \subseteq ChildrenOf(BuybackOf)  BY <1>3 DEF RouterIInv, RouterTypeOK
  <2>2. handed' \in [Processes -> ChildrenOf(BuybackOf) \cup {Nothing}]
    BY <1>3 DEF RouterIInv, RouterTypeOK
  <2>3. children' \in [Processes -> SUBSET ChildrenOf(BuybackOf)]  BY DEF RouterIInv, RouterTypeOK
  <2>4. QED  BY <2>1, <2>2, <2>3 DEF RouterIInv, RouterTypeOK
<1>5. HasChildren' /\ PaidOnce'  BY SplitsStay
<1>6. InFlight'  BY <1>3 DEF RouterIInv, RouterTypeOK, InFlight
<1>7. AcknowledgedIsDurable'  BY DEF RouterIInv, AcknowledgedIsDurable
<1>8. QED  BY <1>4, <1>5, <1>6, <1>7 DEF RouterIInv

\* The row of a child is marked by the child's id, which names one child only.
LEMMA AckStep ==
  ASSUME RouterIInv, NEW p \in Processes, AcknowledgeBuyback(p)
  PROVE  RouterIInv'
<1>1. /\ handed[p] # Nothing /\ outbox' = Acked(handed[p])
      /\ handed' = [handed EXCEPT ![p] = Nothing]
      /\ UNCHANGED <<found, returned, splits, pipeline, buyback, scan, children, failures>>
  BY DEF AcknowledgeBuyback
<1> DEFINE marked(o) == IF o.child.id = handed[p].id THEN [o EXCEPT !.acked = TRUE] ELSE o
<1>2. outbox' = {marked(o) : o \in outbox}  BY <1>1 DEF Acked
<1>3. outbox \subseteq [child : ChildrenOf(BuybackOf), acked : BOOLEAN]
  BY DEF RouterIInv, RouterTypeOK
<1>4. \A o \in outbox : /\ marked(o) \in [child : ChildrenOf(BuybackOf), acked : BOOLEAN]
                        /\ marked(o).child = o.child
                        /\ marked(o).acked => o.acked \/ o.child.id = handed[p].id
  BY <1>3
<1>5. PICK sold \in splits : handed[p] \in buyback /\ handed[p] = BuybackOf(sold)
  BY <1>1 DEF RouterIInv, InFlight
<1>6. \A o \in outbox : o.child.id = handed[p].id => o.child = handed[p]
  <2> SUFFICES ASSUME NEW o \in outbox, o.child.id = handed[p].id
               PROVE  o.child = handed[p]
    OBVIOUS
  <2>1. PICK lot \in splits : o.child = BuybackOf(lot)  BY DEF RouterIInv, HasChildren
  <2>2. lot.id = sold.id  BY <1>5, <2>1, BuybackIds DEF RouterIInv, RouterTypeOK
  <2>3. lot = sold  BY <2>2 DEF RouterIInv, PaidOnce
  <2>4. QED  BY <1>5, <2>1, <2>3
<1> HIDE DEF marked
<1>7. {o.child : o \in outbox'} = {o.child : o \in outbox}  BY <1>2, <1>4
<1>8. HasChildren' /\ PaidOnce'  BY <1>1, <1>7, SplitsStay
<1>9. RouterTypeOK'
  <2>1. outbox' \subseteq [child : ChildrenOf(BuybackOf), acked : BOOLEAN]
    BY <1>2, <1>4
  <2>2. QED  BY <1>1, <2>1 DEF scan, RouterIInv, RouterTypeOK
<1>10. InFlight'  BY <1>1 DEF scan, RouterIInv, RouterTypeOK, InFlight
<1>11. AcknowledgedIsDurable'
  <2>1. \A o \in outbox' : o.acked => o.child \in buyback
    BY <1>2, <1>4, <1>5, <1>6 DEF RouterIInv, AcknowledgedIsDurable
  <2>2. QED  BY <1>1, <2>1 DEF RouterIInv, AcknowledgedIsDurable
<1>12. QED  BY <1>8, <1>9, <1>10, <1>11 DEF RouterIInv

LEMMA CrashStep ==
  ASSUME RouterIInv, NEW p \in Processes, Dies(p)
  PROVE  RouterIInv'
<1> USE DEF Dies, routerTables
<1>1. RouterTypeOK'
  <2>1. turn' \in [Processes -> 1 .. Sources]  BY FeeRouterAssumption DEF RouterIInv, RouterTypeOK
  <2>2. failures' \in Nat  BY DEF Failure, RouterIInv, RouterTypeOK
  <2>3. QED  BY <2>1, <2>2 DEF RouterIInv, RouterTypeOK
<1>2. HasChildren' /\ PaidOnce'  BY SplitsStay
<1>3. InFlight' /\ AcknowledgedIsDurable'
  BY DEF RouterIInv, RouterTypeOK, InFlight, AcknowledgedIsDurable
<1>4. QED  BY <1>1, <1>2, <1>3 DEF RouterIInv

LEMMA NextIInv == RouterIInv /\ [RouterNext]_routerVars => RouterIInv'
<1> SUFFICES ASSUME RouterIInv, [RouterNext]_routerVars PROVE RouterIInv'  OBVIOUS
<1>1. CASE Find  BY <1>1, FindStep
<1>2. ASSUME NEW p \in Processes, ScanStep(p) PROVE RouterIInv'
  <2>1. CASE Scan(p) \/ ScanFails(p) \/ Conflict(p)  BY <2>1, ScanMoves
  <2>2. CASE Split(p)  BY <2>2, SplitStep
  <2>3. CASE Known(p)  BY <2>3, KnownStep
  <2>4. CASE Return(p) \/ ReturnFails(p)  BY <2>4, ReturnStep
  <2>5. QED  BY <1>2, <2>1, <2>2, <2>3, <2>4 DEF ScanStep
<1>3. ASSUME NEW p \in Processes, HandoffStep(p) PROVE RouterIInv'
  BY <1>3, ListStep, HandOverStep, AckStep DEF HandoffStep
<1>4. ASSUME NEW p \in Processes, Dies(p) PROVE RouterIInv'  BY <1>4, CrashStep
<1>5. CASE UNCHANGED routerVars
  <2>1. HasChildren' /\ PaidOnce'  BY <1>5, SplitsStay DEF routerVars, routerTables
  <2>2. QED
    BY <1>5, <2>1 DEF routerVars, routerTables, scan, handoff, RouterIInv, RouterTypeOK, InFlight,
                      AcknowledgedIsDurable
<1>6. QED  BY <1>1, <1>2, <1>3, <1>4, <1>5 DEF RouterNext

LEMMA Invariance == RouterSpec => []RouterIInv
<1>1. QED  BY RouterInitIInv, NextIInv, PTL DEF RouterSpec

-----------------------------------------------------------------------------
\* The children of a split account for every base unit of it.
LEMMA ChildrenConserve == RouterIInv => Conserved
<1> SUFFICES ASSUME RouterIInv PROVE Conserved  OBVIOUS
<1>1. ASSUME NEW lot \in splits
      PROVE  \E job \in pipeline :
               LET fifths == {o.child : o \in {e \in outbox : e.child.id[1] = lot.id}} IN
               /\ job.id = <<lot.id, "streamer">>
               /\ \/ fifths = {} /\ job.units = lot.units
                  \/ \E child \in fifths : /\ fifths = {child} /\ child.units > 0
                                           /\ job.units + child.units = lot.units
                                           /\ job.units >= 4 * child.units
  <2>1. lot \in LotsSet /\ splits \subseteq LotsSet  BY DEF RouterIInv, RouterTypeOK
  <2>2. Streamer(lot) \in pipeline  BY DEF RouterIInv, HasChildren
  <2> DEFINE fifths == {o.child : o \in {e \in outbox : e.child.id[1] = lot.id}}
  <2>3. \A o \in outbox : o.child.id[1] = lot.id => o.child = BuybackOf(lot) /\ Fifth(lot) # 0
    <3> SUFFICES ASSUME NEW o \in outbox, o.child.id[1] = lot.id
                 PROVE  o.child = BuybackOf(lot) /\ Fifth(lot) # 0
      OBVIOUS
    <3>1. PICK other \in splits : o.child = BuybackOf(other) /\ Fifth(other) # 0
      BY DEF RouterIInv, HasChildren
    <3>2. other.id = lot.id  BY <2>1, <3>1, ChildFields
    <3>3. other = lot  BY <3>2 DEF RouterIInv, PaidOnce
    <3>4. QED  BY <3>1, <3>3
  <2>4. Fifth(lot) # 0 => \E o \in outbox : o.child = BuybackOf(lot) /\ o.child.id[1] = lot.id
    BY <2>1, ChildFields DEF RouterIInv, HasChildren
  <2>5. CASE Fifth(lot) = 0
    <3>1. fifths = {}  BY <2>3, <2>5
    <3>2. Streamer(lot).units = lot.units  BY <2>1, <2>5, ChildFields, LotFields
    <3>3. QED  BY <2>1, <2>2, <3>1, <3>2, ChildFields
  <2>6. CASE Fifth(lot) # 0
    <3>1. fifths = {BuybackOf(lot)}  BY <2>3, <2>4, <2>6
    <3>2. /\ BuybackOf(lot).units > 0
          /\ Streamer(lot).units + BuybackOf(lot).units = lot.units
          /\ Streamer(lot).units >= 4 * BuybackOf(lot).units
      BY <2>1, <2>6, ChildFields, FifthIsPart, LotFields
    <3>3. QED  BY <2>1, <2>2, <3>1, <3>2, ChildFields
  <2>7. QED  BY <2>5, <2>6
<1>2. QED  BY <1>1 DEF Conserved, RouterIInv, HasChildren

\* However ids and claims are disputed, processes race and die: a claim is split
\* once over all releases, and its children account for every base unit of it.
THEOREM SplitsAreExact == RouterSpec => []SplitOnce
<1>1. RouterIInv => SplitOnce  BY ChildrenConserve DEF RouterIInv, SplitOnce
<1>2. QED  BY <1>1, Invariance, PTL

\* What a source or the outbox is told is recorded, is recorded: no crash between
\* a recording and its acknowledgement, and no call that fails, loses a lot.
THEOREM AcknowledgementsHold == RouterSpec => []AcknowledgedIsDurable
<1>1. RouterIInv => AcknowledgedIsDurable  BY DEF RouterIInv
<1>2. QED  BY <1>1, Invariance, PTL
=============================================================================
