---------------------------- MODULE ClaimProofs ----------------------------
(***************************************************************************)
(* What holds of ClaimSource and ClaimRecovery for every number of claims,  *)
(* processes, quotes and faults: the claims of a wallet do not cross, only  *)
(* what was proved is booked and routed, at its first valuation, and no     *)
(* claim that can still take fees is retired.                               *)
(***************************************************************************)
EXTENDS ClaimRecovery, TLAPS

-----------------------------------------------------------------------------
\* The invariant.

\* A transaction is signed by one execute(), which hands it over once, after the
\* journal gave up the right to; what an earlier release left has no such call.
Dispatched(l) ==
  LET pc == signer[l].pc IN
  /\ signer[l].at \in Procs \/ pc \in {"no", "dead"}
  /\ pc \in {"no", "preparing"} => journal[l] = "none"
  /\ pc \in {"inserted", "claimed", "sent", "asking", "writing"} => journal[l] # "none"
  /\ pc = "claimed" => journal[l] # "prepared"
  /\ pc = "writing" => signer[l].val \in {"broadcast", "unknown"}
  /\ pc \in {"no", "preparing", "inserted", "claimed"} => sends[l] = 0
  /\ sends[l] <= 1
  /\ sends[l] > 0 => journal[l] \notin {"none", "prepared"}

\* While the chain may still execute a transaction, the journal has it open.
Tracked(l) ==
  /\ journal[l] = "none" => chain[l] = "unsent"
  /\ journal[l] # "none" /\ chain[l] \in {"unsent", "pending"} => journal[l] \in Unresolved

\* A node may miss what happened, it does not make it up.
Truthful ==
  \A a \in asks :
    /\ journal[a.lot] # "none" /\ a.val \notin {"prepared", "retired_expired"}
    /\ a.val = "confirmed" => chain[a.lot] = "landed"
    /\ a.val = "failed" => chain[a.lot] = "reverted"

\* The index of the table.
OneOpen ==
  \A l, m \in Lots : l # m => journal[l] \notin Unresolved \/ journal[m] \notin Unresolved

Journal ==
  /\ JournalTypeOK
  /\ \A l \in Lots : Dispatched(l) /\ Tracked(l)
  /\ Truthful /\ OneOpen

\* A scan prices what it has proved, and routes what it has booked.
Places ==
  \A p \in Procs :
    /\ scan[p].pc # "idle" => scan[p].lot \in Lots
    /\ scan[p].pc = "pricing" => Proven(scan[p].lot)
    /\ scan[p].pc = "routing" => booked[scan[p].lot] # None

Source ==
  /\ scan \in [Procs -> Scans]
  /\ booked \in [Lots -> Prices \cup {None}] /\ routed \subseteq Lots
  /\ earned \in 0 .. MaxFees /\ vault \in 0 .. earned /\ taken \in [Lots -> 0 .. MaxFees]
  /\ Places /\ RoutedIsProved

\* What two sources agree on is so, if one of them is right.
Reviewed == review.agree = 2 => \A l \in review.of : chain[l] = "expired"

Recovery ==
  /\ jobs \in [Lots -> {"none", "review", "retired"}]
  /\ successors \in [Lots -> Nat]
  /\ review.of \subseteq Lots /\ review.agree \in 0 .. 2
  /\ review = [of |-> review.of, agree |-> review.agree]
  /\ \A l \in Lots :
       /\ jobs[l] = "retired" => chain[l] = "expired"
       /\ successors[l] = IF jobs[l] = "retired" THEN 1 ELSE 0
  /\ Reviewed

IInv == Journal /\ Source /\ Recovery

LEMMA TwoSources == Len(Sources) = 2
BY DEF Sources

LEMMA OneCreator ==
  ASSUME NEW l \in Lots
  PROVE  Crowded(l) <=> \E m \in Lots \ {l} : journal[m] \in Unresolved
BY ClaimAssumption DEF Crowded

LEMMA InitIInv == RecoveryInit => IInv
<1> SUFFICES ASSUME RecoveryInit PROVE IInv
  OBVIOUS
<1> USE DEF RecoveryInit, Init, JournalInit
<1>1. Journal
  <2>1. JournalTypeOK
    BY DEF JournalTypeOK, Signers
  <2>2. \A l \in Lots : Dispatched(l) /\ Tracked(l)
    BY DEF Dispatched, Tracked
  <2>3. Truthful /\ OneOpen
    BY DEF Truthful, OneOpen, Unresolved
  <2>4. QED
    BY <2>1, <2>2, <2>3 DEF Journal
<1>2. Source
  <2>1. scan \in [Procs -> Scans] /\ NoScan.pc = "idle"
    BY DEF NoScan, Scans
  <2>2. QED
    BY <2>1, ClaimAssumption DEF Source, Places, RoutedIsProved
<1>3. Recovery
  BY DEF Recovery, Reviewed, NoReview
<1>4. QED
  BY <1>1, <1>2, <1>3 DEF IInv

-----------------------------------------------------------------------------
\* The journal and its dispatcher.

\* What the chain decided stays so.
Decided ==
  \A l \in Lots : chain[l] \in {"landed", "reverted", "expired"} => chain'[l] = chain[l]

\* A step of one transaction.
LEMMA OneLot ==
  ASSUME Journal, NEW l \in Lots, JournalTypeOK',
         \A m \in Lots : m # l => /\ journal'[m] = journal[m] /\ signer'[m] = signer[m]
                                  /\ chain'[m] = chain[m] /\ sends'[m] = sends[m],
         Dispatched(l)', Tracked(l)', Truthful',
         journal'[l] \in Unresolved => journal[l] \in Unresolved \/ ~Crowded(l)
  PROVE  Journal'
<1>1. \A m \in Lots : Dispatched(m)' /\ Tracked(m)'
  BY DEF Journal, Dispatched, Tracked
<1>2. OneOpen'
  BY OneCreator DEF Journal, OneOpen
<1>3. QED
  BY <1>1, <1>2 DEF Journal

LEMMA ExecuteKeeps ==
  ASSUME Journal, NEW l \in Lots, Execute(l) \/ NothingLeft(l) \/ PrepareFails(l)
  PROVE  Journal' /\ Decided
<1>0. /\ JournalTypeOK /\ Dispatched(l) /\ Tracked(l) /\ Truthful
      /\ signer[l] \in Signers /\ sends[l] \in Nat /\ journal[l] \in States \cup {"none"}
  BY DEF Journal, JournalTypeOK
<1>1. ASSUME NEW label \in {"inserted", "claimed", "sent", "asking", "writing", "returned", "raised"},
             At(l, label)
      PROVE  /\ signer' \in [Lots -> Signers] /\ signer'[l].pc = label
             /\ signer'[l].at = signer[l].at /\ signer'[l].val = signer[l].val
             /\ \A m \in Lots : m # l => signer'[m] = signer[m]
  BY <1>0, <1>1 DEF At, JournalTypeOK, Signers
<1>2. ASSUME Prepared(l) PROVE Journal' /\ Decided
  <2>1. /\ signer[l].pc = "preparing" /\ UNCHANGED <<asks, chain, sends, faults>>
        /\ \/ At(l, "raised") /\ UNCHANGED journal
           \/ ~Crowded(l) /\ At(l, "inserted") /\ journal' = [journal EXCEPT ![l] = "prepared"]
    BY <1>2 DEF Prepared
  <2>2. CASE At(l, "raised") /\ UNCHANGED journal
    <3>1. JournalTypeOK' /\ Dispatched(l)' /\ Tracked(l)' /\ Truthful'
      BY <1>0, <1>1, <2>1, <2>2 DEF JournalTypeOK, Dispatched, Tracked, Truthful
    <3>2. QED
      BY <1>1, <2>1, <2>2, <3>1, OneLot DEF Decided
  <2>3. CASE ~Crowded(l) /\ At(l, "inserted") /\ journal' = [journal EXCEPT ![l] = "prepared"]
    <3>1. /\ journal' \in [Lots -> States \cup {"none"}] /\ journal'[l] = "prepared"
          /\ \A m \in Lots : m # l => journal'[m] = journal[m]
      BY <1>0, <2>3 DEF JournalTypeOK, States, Unresolved
    <3>2. JournalTypeOK' /\ Dispatched(l)'
      BY <1>0, <1>1, <2>1, <2>3, <3>1 DEF JournalTypeOK, Dispatched
    <3>3. Tracked(l)' /\ Truthful'
      BY <1>0, <2>1, <3>1 DEF Tracked, Truthful, Unresolved, JournalTypeOK, Asks
    <3>4. QED
      BY <1>1, <2>1, <2>3, <3>1, <3>2, <3>3, OneLot DEF Decided
  <2>4. QED
    BY <2>1, <2>2, <2>3
<1>3. ASSUME Claim(l) PROVE Journal' /\ Decided
  <2>1. signer[l].pc = "inserted" /\ UNCHANGED <<chain, sends, faults>>
    BY <1>3 DEF Claim
  <2>2. CASE /\ journal[l] = "prepared" /\ At(l, "claimed")
             /\ journal' = [journal EXCEPT ![l] = "unknown"] /\ UNCHANGED asks
    <3>1. /\ journal' \in [Lots -> States \cup {"none"}] /\ journal'[l] = "unknown"
          /\ \A m \in Lots : m # l => journal'[m] = journal[m]
      BY <1>0, <2>2 DEF JournalTypeOK, States, Unresolved
    <3>2. JournalTypeOK' /\ Dispatched(l)'
      BY <1>0, <1>1, <2>1, <2>2, <3>1 DEF JournalTypeOK, Dispatched
    <3>3. Tracked(l)' /\ Truthful' /\ journal[l] \in Unresolved
      BY <1>0, <2>1, <2>2, <3>1 DEF Tracked, Truthful, Unresolved, JournalTypeOK, Asks
    <3>4. QED
      BY <1>1, <2>1, <2>2, <3>1, <3>2, <3>3, OneLot DEF Decided
  <2>3. CASE /\ At(l, "asking") /\ asks' = asks \cup {Ask(l, signer[l].at, "send")}
             /\ UNCHANGED journal
    <3>1. Ask(l, signer[l].at, "send") \in Asks
      BY <1>0, <2>1 DEF Dispatched, Ask, Asks, States, Unresolved
    <3>2. Truthful'
      BY <1>0, <2>1, <2>3 DEF Truthful, Ask, Dispatched
    <3>3. JournalTypeOK' /\ Dispatched(l)' /\ Tracked(l)'
      BY <1>0, <1>1, <2>1, <2>3, <3>1 DEF JournalTypeOK, Dispatched, Tracked
    <3>4. QED
      BY <1>1, <2>1, <2>3, <3>2, <3>3, OneLot DEF Decided
  <2>4. QED
    BY <1>3, <2>2, <2>3 DEF Claim
<1>4. ASSUME Broadcast(l) PROVE Journal' /\ Decided
  <2>1. /\ signer[l].pc = "claimed" /\ chain[l] # "expired" /\ At(l, "sent")
        /\ chain' = [chain EXCEPT ![l] = IF @ = "unsent" THEN "pending" ELSE @]
        /\ sends' = [sends EXCEPT ![l] = @ + 1]
        /\ UNCHANGED <<journal, asks, faults>>
    BY <1>4 DEF Broadcast, Handed
  <2>2. /\ chain' \in [Lots -> {"unsent", "pending", "landed", "reverted", "expired"}]
        /\ chain'[l] = IF chain[l] = "unsent" THEN "pending" ELSE chain[l]
        /\ sends' \in [Lots -> Nat] /\ sends'[l] = sends[l] + 1
        /\ \A m \in Lots : m # l => chain'[m] = chain[m] /\ sends'[m] = sends[m]
    BY <1>0, <2>1 DEF JournalTypeOK
  <2>3. JournalTypeOK' /\ Dispatched(l)'
    BY <1>0, <1>1, <2>1, <2>2 DEF JournalTypeOK, Dispatched
  <2>4. Tracked(l)' /\ Truthful'
    BY <1>0, <2>1, <2>2 DEF Tracked, Truthful, Dispatched, JournalTypeOK, Asks
  <2>5. QED
    BY <1>1, <2>1, <2>2, <2>3, <2>4, OneLot DEF Decided
<1>5. ASSUME Answered(l) \/ BroadcastThrows(l) PROVE Journal' /\ Decided
  <2>1. /\ signer[l].pc \in {"claimed", "sent"}
        /\ Record(l, "broadcast") \/ Record(l, "unknown")
        /\ UNCHANGED <<journal, asks, chain, sends>>
        /\ faults' = faults \/ faults' = faults + 1
    BY <1>5 DEF Answered, BroadcastThrows, Fault
  <2>2. PICK val \in {"broadcast", "unknown"} : Record(l, val)
    BY <2>1
  <2>3. /\ signer' \in [Lots -> Signers] /\ signer'[l].pc \in {"returned", "writing"}
        /\ signer'[l].at = signer[l].at /\ signer'[l].val = val
        /\ \A m \in Lots : m # l => signer'[m] = signer[m]
    <3>1. val \in States \cup {"none"}
      BY DEF States, Unresolved
    <3>2. PICK label \in {"returned", "writing"} :
            signer' = [signer EXCEPT ![l] = [@ EXCEPT !.pc = label, !.val = val]]
      BY <1>0, <2>2 DEF Record, JournalTypeOK, Signers
    <3>3. QED
      BY <1>0, <3>1, <3>2 DEF JournalTypeOK, Signers
  <2>4. JournalTypeOK' /\ Dispatched(l)' /\ Tracked(l)' /\ Truthful'
    BY <1>0, <2>1, <2>3 DEF JournalTypeOK, Dispatched, Tracked, Truthful
  <2>5. QED
    BY <2>1, <2>3, <2>4, OneLot DEF Decided
<1>6. ASSUME RecordWrites(l) PROVE Journal' /\ Decided
  <2>1. signer[l].pc = "writing" /\ UNCHANGED <<asks, chain, sends, faults>>
    BY <1>6 DEF RecordWrites
  <2>2. CASE (At(l, "returned") \/ At(l, "raised")) /\ UNCHANGED journal
    <3>1. PICK label \in {"returned", "raised"} : At(l, label)
      BY <2>2
    <3>2. JournalTypeOK' /\ Dispatched(l)' /\ Tracked(l)' /\ Truthful'
      BY <1>0, <1>1, <2>1, <2>2, <3>1 DEF JournalTypeOK, Dispatched, Tracked, Truthful
    <3>3. QED
      BY <1>1, <2>1, <2>2, <3>1, <3>2, OneLot DEF Decided
  <2>3. CASE /\ ~Refused(l, signer[l].val)
             /\ signer' = [signer EXCEPT ![l].pc = "returned", ![l].val = "none"]
             /\ journal' = [journal EXCEPT ![l] = signer[l].val]
    <3>1. /\ signer' \in [Lots -> Signers] /\ signer'[l].pc = "returned"
          /\ signer'[l].at = signer[l].at
          /\ \A m \in Lots : m # l => signer'[m] = signer[m]
      BY <1>0, <2>3 DEF JournalTypeOK, Signers
    <3>2. /\ journal' \in [Lots -> States \cup {"none"}]
          /\ journal'[l] \in {"broadcast", "unknown"} /\ journal'[l] \in Unresolved
          /\ journal[l] \in Unresolved \/ ~Crowded(l)
          /\ \A m \in Lots : m # l => journal'[m] = journal[m]
      BY <1>0, <2>1, <2>3 DEF JournalTypeOK, States, Unresolved, Dispatched, Refused
    <3>3. JournalTypeOK' /\ Dispatched(l)'
      BY <1>0, <2>1, <2>3, <3>1, <3>2 DEF JournalTypeOK, Dispatched
    <3>4. Tracked(l)' /\ Truthful'
      BY <1>0, <2>1, <3>2 DEF Tracked, Truthful, JournalTypeOK, Asks
    <3>5. QED
      BY <2>1, <3>1, <3>2, <3>3, <3>4, OneLot DEF Decided
  <2>4. QED
    BY <1>6, <2>2, <2>3 DEF RecordWrites
<1>7. ASSUME Reconciled(l) PROVE Journal' /\ Decided
  <2>1. PICK a \in asks : /\ signer[l].pc = "asking" /\ a.pc \in {"returned", "raised"}
                          /\ At(l, a.pc) /\ asks' = asks \ {a}
                          /\ UNCHANGED <<journal, chain, sends, faults>>
    BY <1>7 DEF Reconciled
  <2>2. JournalTypeOK' /\ Dispatched(l)' /\ Tracked(l)' /\ Truthful'
    BY <1>0, <1>1, <2>1 DEF JournalTypeOK, Dispatched, Tracked, Truthful
  <2>3. QED
    BY <1>1, <2>1, <2>2, OneLot DEF Decided
<1>8. ASSUME NothingLeft(l) \/ PrepareFails(l) PROVE Journal' /\ Decided
  <2>1. /\ signer[l].pc = "preparing" /\ At(l, "raised")
        /\ UNCHANGED <<journal, asks, chain, sends>> /\ faults' \in {faults, faults + 1}
    BY <1>8 DEF NothingLeft, PrepareFails, Fault
  <2>2. JournalTypeOK' /\ Dispatched(l)' /\ Tracked(l)' /\ Truthful'
    BY <1>0, <1>1, <2>1 DEF JournalTypeOK, Dispatched, Tracked, Truthful
  <2>3. QED
    BY <1>1, <2>1, <2>2, OneLot DEF Decided
<1>9. QED
  BY <1>2, <1>3, <1>4, <1>5, <1>6, <1>7, <1>8 DEF Execute

\* The dispatcher's reconcile() calls.
LEMMA AsksMove ==
  ASSUME Journal, UNCHANGED <<journal, chain>>, NEW a \in asks,
         \/ \E label \in {"in", "write", "returned", "raised"}, val \in States :
              /\ val \notin {"prepared", "retired_expired"}
              /\ val = "confirmed" => chain[a.lot] = "landed"
              /\ val = "failed" => chain[a.lot] = "reverted"
              /\ Becomes(a, label, val)
         \/ \E label \in {"returned", "raised"} : Ends(a, label)
  PROVE  asks' \subseteq Asks /\ Truthful'
<1>1. /\ asks \subseteq Asks /\ Truthful /\ a \in Asks /\ journal[a.lot] # "none"
      /\ a.val \in States /\ a.val \notin {"prepared", "retired_expired"}
      /\ a.val = "confirmed" => chain[a.lot] = "landed"
      /\ a.val = "failed" => chain[a.lot] = "reverted"
  BY DEF Journal, JournalTypeOK, Truthful, Asks
<1>2. ASSUME NEW label \in {"in", "write", "returned", "raised"}, NEW val \in States,
             val \notin {"prepared", "retired_expired"},
             val = "confirmed" => chain[a.lot] = "landed",
             val = "failed" => chain[a.lot] = "reverted",
             Becomes(a, label, val)
      PROVE  asks' \subseteq Asks /\ Truthful'
  <2>1. PICK b \in Asks : b = [a EXCEPT !.pc = label, !.val = val]
    BY <1>1 DEF Asks
  <2>2. b.lot = a.lot /\ b.val = val
    BY <1>1, <2>1 DEF Asks
  <2>3. asks' = (asks \ {a}) \cup {b}
    BY <1>2, <2>1 DEF Becomes
  <2>4. QED
    BY <1>1, <1>2, <2>2, <2>3 DEF Truthful
<1>3. ASSUME asks' = asks \ {a} PROVE asks' \subseteq Asks /\ Truthful'
  BY <1>1, <1>3 DEF Truthful
<1>4. ASSUME NEW label \in {"returned", "raised"}, Ends(a, label)
      PROVE  asks' \subseteq Asks /\ Truthful'
  <2>1. "unknown" \in States
    BY DEF States, Unresolved
  <2>2. Becomes(a, label, a.val) \/ Becomes(a, label, "unknown") \/ asks' = asks \ {a}
    BY <1>4 DEF Ends
  <2>3. QED
    BY <1>1, <1>2, <1>3, <2>1, <2>2
<1>5. QED
  BY <1>2, <1>4

LEMMA ReconcileKeeps ==
  ASSUME Journal, NEW a \in asks, Reconcile(a) \/ LookMisses(a)
  PROVE  Journal' /\ Decided
<1>0. /\ JournalTypeOK /\ Truthful /\ a \in Asks /\ a.lot \in Lots
      /\ Dispatched(a.lot) /\ Tracked(a.lot) /\ journal[a.lot] # "none"
      /\ a.val \in States /\ a.val \notin {"prepared", "retired_expired"}
      /\ a.val = "confirmed" => chain[a.lot] = "landed"
      /\ a.val = "failed" => chain[a.lot] = "reverted"
  BY DEF Journal, JournalTypeOK, Truthful, Asks
<1>1. ASSUME UNCHANGED <<journal, signer, chain, sends>>, faults' \in {faults, faults + 1},
             asks' \subseteq Asks, Truthful'
      PROVE  Journal' /\ Decided
  <2>1. JournalTypeOK' /\ Dispatched(a.lot)' /\ Tracked(a.lot)'
    BY <1>0, <1>1 DEF JournalTypeOK, Dispatched, Tracked
  <2>2. QED
    BY <1>0, <1>1, <2>1, OneLot DEF Decided
<1>2. CASE Looked(a) \/ LookMisses(a)
  <2>1. ASSUME NEW val \in Seen(a.lot) \cup {"unknown", "expired_review"}
        PROVE  /\ val \in States /\ val \notin {"prepared", "retired_expired"}
               /\ val = "confirmed" => chain[a.lot] = "landed"
               /\ val = "failed" => chain[a.lot] = "reverted"
    BY <1>0, <2>1 DEF Seen, States, Unresolved, Final, JournalTypeOK
  <2>2. PICK val \in Seen(a.lot) \cup {"unknown", "expired_review"} : Becomes(a, "in", val)
    BY <1>2 DEF Looked, LookMisses
  <2>3. UNCHANGED <<journal, signer, chain, sends>> /\ faults' \in {faults, faults + 1}
    BY <1>2 DEF Looked, LookMisses, Fault
  <2>4. asks' \subseteq Asks /\ Truthful'
    BY <2>1, <2>2, <2>3, AsksMove
  <2>5. QED
    BY <1>1, <2>3, <2>4
<1>3. CASE Heard(a)
  <2>1. UNCHANGED <<journal, signer, chain, sends, faults>>
    BY <1>3 DEF Heard
  <2>2. Becomes(a, "write", a.val) \/ Ends(a, "raised")
    BY <1>3 DEF Heard
  <2>3. asks' \subseteq Asks /\ Truthful'
    BY <1>0, <2>1, <2>2, AsksMove
  <2>4. QED
    BY <1>1, <2>1, <2>3
<1>4. CASE HearWrites(a)
  <2>1. UNCHANGED <<signer, chain, sends, faults>>
    BY <1>4 DEF HearWrites
  <2>2. CASE Ends(a, "raised") /\ UNCHANGED journal
    <3>1. asks' \subseteq Asks /\ Truthful'
      BY <2>1, <2>2, AsksMove
    <3>2. QED
      BY <1>1, <2>1, <2>2, <3>1
  <2>3. CASE /\ ~Refused(a.lot, a.val) /\ Ends(a, "returned")
             /\ journal' = [journal EXCEPT ![a.lot] = a.val]
    <3>1. /\ journal' \in [Lots -> States \cup {"none"}]
          /\ journal'[a.lot] = a.val
          /\ \A m \in Lots : m # a.lot => journal'[m] = journal[m]
      BY <1>0, <2>3 DEF JournalTypeOK
    <3>2. a.val # "none"
      BY <1>0 DEF States, Final, Unresolved
    <3>3. asks' \subseteq asks \cup {[a EXCEPT !.pc = "returned", !.val = v] : v \in {a.val, "unknown"}}
      BY <2>3 DEF Ends, Becomes
    <3>4. ASSUME NEW b \in asks'
          PROVE  /\ b \in Asks
                 /\ journal'[b.lot] # "none" /\ b.val \notin {"prepared", "retired_expired"}
                 /\ b.val = "confirmed" => chain'[b.lot] = "landed"
                 /\ b.val = "failed" => chain'[b.lot] = "reverted"
      <4>1. CASE b \in asks
        BY <1>0, <2>1, <3>1, <3>2, <4>1 DEF Truthful, JournalTypeOK, Asks
      <4>2. ASSUME NEW v \in {a.val, "unknown"}, b = [a EXCEPT !.pc = "returned", !.val = v]
            PROVE  /\ b \in Asks /\ b.lot = a.lot /\ b.val = v
        BY <1>0, <4>2 DEF Asks, States, Unresolved
      <4>3. QED
        BY <1>0, <2>1, <3>1, <3>2, <3>3, <4>1, <4>2
    <3>5. asks' \subseteq Asks /\ Truthful'
      BY <3>4 DEF Truthful
    <3>6. JournalTypeOK' /\ Dispatched(a.lot)'
      BY <1>0, <2>1, <3>1, <3>2, <3>5 DEF JournalTypeOK, Dispatched
    <3>7. Tracked(a.lot)'
      BY <1>0, <2>1, <3>1, <3>2 DEF Tracked, States, Final
    <3>8. journal'[a.lot] \in Unresolved => journal[a.lot] \in Unresolved \/ ~Crowded(a.lot)
      BY <2>3, <3>1 DEF Refused
    <3>9. QED
      BY <1>0, <2>1, <3>1, <3>5, <3>6, <3>7, <3>8, OneLot DEF Decided
  <2>4. QED
    BY <1>4, <2>2, <2>3 DEF HearWrites
<1>5. QED
  BY <1>2, <1>3, <1>4 DEF Reconcile

LEMMA DecideKeeps ==
  ASSUME Journal, NEW l \in Lots, Decide(l)
  PROVE  Journal' /\ Decided
<1>0. JournalTypeOK /\ Dispatched(l) /\ Tracked(l) /\ Truthful
  BY DEF Journal
<1>1. PICK end \in {"landed", "reverted", "expired"} :
        /\ chain' = [chain EXCEPT ![l] = end] /\ chain[l] \in {"unsent", "pending"}
        /\ chain[l] = "pending" \/ journal[l] # "none"
        /\ UNCHANGED <<journal, signer, asks, sends, faults>>
  BY DEF Decide
<1>2. /\ chain' \in [Lots -> {"unsent", "pending", "landed", "reverted", "expired"}]
      /\ chain'[l] = end /\ \A m \in Lots : m # l => chain'[m] = chain[m]
  BY <1>0, <1>1 DEF JournalTypeOK
<1>3. JournalTypeOK' /\ Dispatched(l)' /\ Tracked(l)'
  BY <1>0, <1>1, <1>2 DEF JournalTypeOK, Dispatched, Tracked
<1>4. Truthful'
  BY <1>0, <1>1, <1>2 DEF Truthful, JournalTypeOK, Asks
<1>5. QED
  BY <1>1, <1>2, <1>3, <1>4, OneLot DEF Decided

\* Steps of the scans: they ask, hear what was answered, and have a claim prepared.
LEMMA AskingKeeps ==
  ASSUME Journal, UNCHANGED <<journal, signer, chain, sends, faults>>,
         asks' \subseteq Asks, \A a \in asks' \ asks : journal[a.lot] # "none" /\ a.val = "unknown"
  PROVE  Journal' /\ Decided
<1>1. JournalTypeOK' /\ Truthful'
  BY DEF Journal, JournalTypeOK, Truthful
<1>2. QED
  BY <1>1 DEF Journal, Dispatched, Tracked, OneOpen, Decided

LEMMA SettlesKeeps ==
  ASSUME Journal, NEW p \in Procs, NEW l \in Lots, Settles(p, l),
         UNCHANGED <<journal, signer, chain, sends, faults>>
  PROVE  Journal' /\ Decided
<1>1. Ask(l, p, "scan") \in Asks /\ Ask(l, p, "scan").lot = l /\ Ask(l, p, "scan").val = "unknown"
  BY DEF Ask, Asks, States, Unresolved
<1>2. CASE UNCHANGED asks
  BY <1>2, AskingKeeps DEF Journal, JournalTypeOK
<1>3. CASE journal[l] \in Unresolved /\ asks' = asks \cup {Ask(l, p, "scan")}
  <2>1. journal[l] # "none"
    BY <1>3 DEF Unresolved
  <2>2. asks' \subseteq Asks /\ \A a \in asks' \ asks : a.lot = l /\ a.val = "unknown"
    BY <1>1, <1>3 DEF Journal, JournalTypeOK
  <2>3. QED
    BY <2>1, <2>2, AskingKeeps
<1>4. QED
  BY <1>2, <1>3 DEF Settles

LEMMA LooksForNewKeeps ==
  ASSUME Journal, NEW p \in Procs, LooksForNew(p)
  PROVE  Journal' /\ Decided
<1>1. PICK l \in Lots :
        /\ signer[l].pc = "no"
        /\ signer' = [signer EXCEPT ![l] = [at |-> p, pc |-> "preparing", val |-> "none"]]
        /\ UNCHANGED <<journal, asks, chain, sends, faults>>
  BY DEF LooksForNew
<1>2. JournalTypeOK /\ Dispatched(l) /\ Tracked(l) /\ Truthful
  BY DEF Journal
<1>3. /\ signer' \in [Lots -> Signers] /\ signer'[l].pc = "preparing" /\ signer'[l].at = p
      /\ \A m \in Lots : m # l => signer'[m] = signer[m]
  BY <1>1, <1>2 DEF JournalTypeOK, Signers
<1>4. JournalTypeOK' /\ Dispatched(l)' /\ Tracked(l)' /\ Truthful'
  BY <1>1, <1>2, <1>3 DEF JournalTypeOK, Dispatched, Tracked, Truthful
<1>5. QED
  BY <1>1, <1>3, <1>4, OneLot DEF Decided

LEMMA CrashKeeps ==
  ASSUME Journal, NEW p \in Procs, JournalCrash(p)
  PROVE  Journal' /\ Decided
<1>1. /\ signer' = [l \in Lots |->
           IF signer[l].at = p /\ signer[l].pc \notin {"returned", "raised"}
           THEN [signer[l] EXCEPT !.pc = "dead"] ELSE signer[l]]
      /\ asks' = {a \in asks : a.at # p} /\ faults' = faults + 1
      /\ UNCHANGED <<journal, chain, sends>>
  BY DEF JournalCrash, Fault
<1>2. ASSUME NEW l \in Lots
      PROVE  signer'[l] \in Signers /\ Dispatched(l)' /\ Tracked(l)'
  <2>1. /\ signer[l] \in Signers /\ Dispatched(l) /\ Tracked(l)
        /\ signer'[l] = IF signer[l].at = p /\ signer[l].pc \notin {"returned", "raised"}
                        THEN [signer[l] EXCEPT !.pc = "dead"] ELSE signer[l]
    BY <1>1 DEF Journal, JournalTypeOK
  <2>2. CASE signer'[l] = signer[l]
    BY <1>1, <2>1, <2>2 DEF Dispatched, Tracked
  <2>3. CASE signer'[l] = [signer[l] EXCEPT !.pc = "dead"]
    BY <1>1, <2>1, <2>3 DEF Signers, Dispatched, Tracked
  <2>4. QED
    BY <2>1, <2>2, <2>3
<1>3. signer' \in [Lots -> Signers]
  BY <1>1, <1>2
<1>4. JournalTypeOK' /\ Truthful'
  BY <1>1, <1>3 DEF Journal, JournalTypeOK, Truthful
<1>5. QED
  BY <1>1, <1>2, <1>4 DEF Journal, OneOpen, Decided

LEMMA NextKeepsJournal ==
  ASSUME IInv, Next
  PROVE  Journal' /\ Decided
<1>0. Journal /\ Source
  BY DEF IInv
<1>1. ASSUME UNCHANGED journalVars, faults' \in {faults, faults + 1}
      PROVE  Journal' /\ Decided
  <2>1. UNCHANGED <<journal, signer, asks, chain, sends>>
    BY <1>1 DEF journalVars
  <2>2. JournalTypeOK'
    BY <1>0, <1>1, <2>1 DEF Journal, JournalTypeOK
  <2>3. QED
    BY <1>0, <2>1, <2>2 DEF Journal, Dispatched, Tracked, Truthful, OneOpen, Decided
<1>2. ASSUME NEW p \in Procs, Told(p) PROVE Journal' /\ Decided
  BY <1>0, <1>2, AskingKeeps DEF Told, Journal, JournalTypeOK
<1>3. ASSUME NEW p \in Procs, Sent(p) PROVE Journal' /\ Decided
  <2>1. UNCHANGED <<journal, signer, chain, sends, faults>> /\ scan[p].lot \in Lots
    BY <1>0, <1>3 DEF Sent, Source, Places
  <2>2. CASE UNCHANGED asks
    BY <1>0, <2>1, <2>2, AskingKeeps DEF Journal, JournalTypeOK
  <2>3. CASE Settles(p, scan[p].lot)
    BY <1>0, <2>1, <2>3, SettlesKeeps
  <2>4. QED
    BY <1>3, <2>2, <2>3 DEF Sent
<1>4. ASSUME NEW p \in Procs, Scanned(p) \/ Fails(p) PROVE Journal' /\ Decided
  <2>1. CASE Proved(p) \/ Routes(p) \/ \E price \in Prices : Priced(p, price) \/ Conflicts(p, price)
    BY <1>1, <2>1 DEF Proved, Routes, Priced, Conflicts
  <2>2. CASE Fails(p)
    BY <1>1, <2>2 DEF Fails, Fault
  <2>3. QED
    BY <1>2, <1>3, <1>4, <2>1, <2>2 DEF Scanned
<1>5. ASSUME NEW p \in Procs, LooksForNew(p) \/ Crash(p) PROVE Journal' /\ Decided
  BY <1>0, <1>5, LooksForNewKeeps, CrashKeeps DEF Crash
<1>6. ASSUME NEW p \in Procs, NEW l \in Lots, Takes(p, l) PROVE Journal' /\ Decided
  BY <1>0, <1>6, SettlesKeeps DEF Takes
<1>7. ASSUME NEW a \in asks, Reconcile(a) \/ LookMisses(a) PROVE Journal' /\ Decided
  BY <1>0, <1>7, ReconcileKeeps
<1>8. ASSUME NEW l \in Lots, Executes(l) \/ Decides(l) \/ PrepareFails(l) PROVE Journal' /\ Decided
  BY <1>0, <1>8, ExecuteKeeps, DecideKeeps DEF Executes, Decides
<1>9. CASE Earns
  BY <1>1, <1>9 DEF Earns
<1>10. QED
  BY <1>4, <1>5, <1>6, <1>7, <1>8, <1>9 DEF Next, Asked, Reconciles

-----------------------------------------------------------------------------
\* The scans.

LEMMA ProvenStays ==
  ASSUME Decided, NEW l \in Lots, Proven(l), taken'[l] = taken[l]
  PROVE  Proven(l)'
BY DEF Decided, Proven

\* A step of one scan, and what it books and routes.
LEMMA ScanKeeps ==
  ASSUME Source, Decided, UNCHANGED network, NEW p \in Procs, NEW s \in Scans,
         scan' = [scan EXCEPT ![p] = s],
         s.pc # "idle" => s.lot \in Lots,
         s.pc = "pricing" => Proven(s.lot),
         s.pc = "routing" => booked'[s.lot] # None,
         booked' \in [Lots -> Prices \cup {None}], routed' \subseteq Lots,
         \A l \in Lots : /\ booked[l] # None => booked'[l] # None
                         /\ booked'[l] # None => booked[l] # None \/ Proven(l)
                         /\ l \in routed' => booked'[l] # None
  PROVE  Source'
<1>1. UNCHANGED <<vault, earned, taken>>
  BY DEF network
<1>2. /\ scan' \in [Procs -> Scans] /\ scan'[p] = s
      /\ \A q \in Procs : q # p => scan'[q] = scan[q]
  BY DEF Source
<1>3. \A l \in Lots : Proven(l) => Proven(l)'
  BY <1>1, ProvenStays
<1>4. Places'
  <2>1. ASSUME NEW q \in Procs
        PROVE  /\ scan'[q].pc # "idle" => scan'[q].lot \in Lots
               /\ scan'[q].pc = "pricing" => Proven(scan'[q].lot)
               /\ scan'[q].pc = "routing" => booked'[scan'[q].lot] # None
    BY <1>2 DEF Source, Places
  <2>2. QED
    BY <1>3, <2>1 DEF Places, Proven
<1>5. RoutedIsProved'
  <2>1. \A l \in Lots : booked'[l] # None => Proven(l)
    BY DEF Source, RoutedIsProved, Proven
  <2>2. QED
    BY <1>3, <2>1 DEF RoutedIsProved, Proven
<1>6. QED
  BY <1>1, <1>2, <1>4, <1>5 DEF Source

\* A scan that books and routes nothing goes to another place.
LEMMA QuietScan ==
  ASSUME Source, Decided, UNCHANGED <<booked, routed, network>>, NEW p \in Procs, NEW s \in Scans,
         scan' = [scan EXCEPT ![p] = s],
         s.pc # "idle" => s.lot \in Lots,
         s.pc = "pricing" => Proven(s.lot),
         s.pc = "routing" => booked[s.lot] # None
  PROVE  Source'
BY ScanKeeps DEF Source, RoutedIsProved

LEMMA GotoIs ==
  ASSUME Source, NEW p \in Procs, NEW label \in {"routing"} \cup Awaits, Goto(p, label)
  PROVE  \E s \in Scans : /\ scan' = [scan EXCEPT ![p] = s]
                          /\ s.pc = label /\ s.lot = scan[p].lot
<1>1. scan[p] \in Scans
  BY DEF Source
<1>2. PICK s \in Scans : s = [scan[p] EXCEPT !.pc = label]
  BY <1>1 DEF Scans
<1>3. s.pc = label /\ s.lot = scan[p].lot
  BY <1>1, <1>2 DEF Scans
<1>4. QED
  BY <1>2, <1>3 DEF Goto

LEMMA DoneKeeps ==
  ASSUME Source, Decided, UNCHANGED <<booked, routed, network>>, NEW p \in Procs, Done(p)
  PROVE  Source'
<1>1. NoScan \in Scans /\ NoScan.pc = "idle"
  BY DEF NoScan, Scans
<1>2. QED
  BY <1>1, QuietScan DEF Done

LEMMA SettlesTo ==
  ASSUME Source, Decided, UNCHANGED <<booked, routed, network>>,
         NEW p \in Procs, NEW l \in Lots, Settles(p, l)
  PROVE  Source'
<1>1. ASSUME NEW label \in {"asking", "proving"}, scan' = [scan EXCEPT ![p] = [pc |-> label, lot |-> l]]
      PROVE  Source'
  <2>1. PICK s \in Scans : s = [pc |-> label, lot |-> l]
    BY DEF Scans, Awaits
  <2>2. QED
    BY <1>1, <2>1, QuietScan
<1>2. QED
  BY <1>1, DoneKeeps DEF Settles

LEMMA TakesAndTold ==
  ASSUME Source, Decided, NEW p \in Procs,
         LooksForNew(p) \/ Told(p) \/ Sent(p) \/ \E l \in Lots : Takes(p, l)
  PROVE  Source'
<1>1. CASE LooksForNew(p)
  <2>1. PICK l \in Lots : scan' = [scan EXCEPT ![p] = [pc |-> "sending", lot |-> l]]
    BY <1>1 DEF LooksForNew
  <2>2. PICK s \in Scans : s = [pc |-> "sending", lot |-> l]
    BY DEF Scans, Awaits
  <2>3. QED
    BY <1>1, <2>1, <2>2, QuietScan DEF LooksForNew
<1>2. CASE Told(p)
  <2>1. UNCHANGED <<booked, routed, network>> /\ scan[p].pc = "asking"
    BY <1>2 DEF Told
  <2>2. CASE Done(p)
    BY <2>1, <2>2, DoneKeeps
  <2>3. CASE Goto(p, "proving")
    <3>1. PICK s \in Scans : /\ scan' = [scan EXCEPT ![p] = s]
                             /\ s.pc = "proving" /\ s.lot = scan[p].lot
      BY <2>3, GotoIs DEF Awaits
    <3>2. scan[p].lot \in Lots
      BY <2>1 DEF Source, Places
    <3>3. QED
      BY <2>1, <3>1, <3>2, QuietScan
  <2>4. QED
    BY <1>2, <2>2, <2>3 DEF Told
<1>3. CASE Sent(p)
  <2>1. UNCHANGED <<booked, routed, network>> /\ scan[p].lot \in Lots
    BY <1>3 DEF Sent, Source, Places
  <2>2. QED
    BY <1>3, <2>1, DoneKeeps, SettlesTo DEF Sent
<1>4. ASSUME NEW l \in Lots, Takes(p, l) PROVE Source'
  BY <1>4, SettlesTo DEF Takes
<1>5. QED
  BY <1>1, <1>2, <1>3, <1>4

\* ingest(): proof, first valuation, booking, routing.
LEMMA IngestKeeps ==
  ASSUME Source, Decided, NEW p \in Procs,
         \/ Proved(p) \/ Routes(p) \/ Fails(p)
         \/ \E price \in Prices : Priced(p, price) \/ Conflicts(p, price)
  PROVE  Source'
<1>1. CASE Proved(p)
  <2>1. UNCHANGED <<booked, routed, network>> /\ scan[p].lot \in Lots
    BY <1>1 DEF Proved, Source, Places
  <2>2. CASE ~Proven(scan[p].lot)
    BY <1>1, <2>1, <2>2, DoneKeeps DEF Proved
  <2>3. CASE Proven(scan[p].lot)
    <3>1. PICK label \in {"pricing", "routing"} :
            Goto(p, label) /\ (label = "routing" => booked[scan[p].lot] # None)
      BY <1>1, <2>3 DEF Proved
    <3>2. PICK s \in Scans : /\ scan' = [scan EXCEPT ![p] = s]
                             /\ s.pc = label /\ s.lot = scan[p].lot
      BY <3>1, GotoIs DEF Awaits
    <3>3. QED
      BY <2>1, <2>3, <3>1, <3>2, QuietScan
  <2>4. QED
    BY <2>2, <2>3
<1>2. CASE Routes(p)
  <2>1. PICK s \in Scans : s = NoScan /\ s.pc = "idle"
    <3>1. NoScan \in Scans /\ NoScan.pc = "idle"
      BY DEF NoScan, Scans
    <3>2. QED
      BY <3>1, Zenon
  <2>2. /\ scan[p].lot \in Lots /\ booked[scan[p].lot] # None
        /\ routed' = routed \cup {scan[p].lot} /\ UNCHANGED <<booked, network>>
        /\ scan' = [scan EXCEPT ![p] = s]
    BY <1>2, <2>1 DEF Routes, Source, Places, Done
  <2>3. /\ booked' \in [Lots -> Prices \cup {None}] /\ routed' \subseteq Lots
        /\ \A l \in Lots : l \in routed' => booked'[l] # None
    BY <2>2 DEF Source, RoutedIsProved
  <2>4. QED
    BY <2>1, <2>2, <2>3, ScanKeeps
<1>3. ASSUME NEW price \in Prices, Priced(p, price) PROVE Source'
  <2>1. /\ scan[p].lot \in Lots /\ Proven(scan[p].lot) /\ Goto(p, "routing")
        /\ booked' = [booked EXCEPT ![scan[p].lot] = price] /\ UNCHANGED <<routed, network>>
    BY <1>3 DEF Priced, Value, Source, Places
  <2>2. PICK s \in Scans : /\ scan' = [scan EXCEPT ![p] = s]
                           /\ s.pc = "routing" /\ s.lot = scan[p].lot
    BY <2>1, GotoIs
  <2>3. /\ booked' \in [Lots -> Prices \cup {None}] /\ booked'[scan[p].lot] # None
        /\ \A l \in Lots : l # scan[p].lot => booked'[l] = booked[l]
    BY <2>1, ClaimAssumption DEF Source
  <2>4. /\ routed' \subseteq Lots
        /\ \A l \in Lots : /\ booked[l] # None => booked'[l] # None
                           /\ booked'[l] # None => booked[l] # None \/ Proven(l)
                           /\ l \in routed' => booked'[l] # None
    BY <2>1, <2>3 DEF Source, RoutedIsProved
  <2>5. QED
    BY <2>1, <2>2, <2>3, <2>4, ScanKeeps
<1>4. ASSUME NEW price \in Prices, Conflicts(p, price) PROVE Source'
  BY <1>4, DoneKeeps DEF Conflicts
<1>5. CASE Fails(p)
  BY <1>5, DoneKeeps DEF Fails
<1>6. QED
  BY <1>1, <1>2, <1>3, <1>4, <1>5

\* A claim that lands takes the fees, once.
LEMMA DecidesKeeps ==
  ASSUME Source, Decided, JournalTypeOK, NEW l \in Lots, Decides(l)
  PROVE  Source'
<1>1. /\ chain[l] \in {"unsent", "pending"} /\ UNCHANGED <<scan, booked, routed, earned>>
      /\ \/ taken' = [taken EXCEPT ![l] = vault] /\ vault' = 0
         \/ UNCHANGED <<taken, vault>>
  BY DEF Decides, Decide
<1>2. earned \in 0 .. MaxFees /\ vault \in 0 .. earned /\ vault \in 0 .. MaxFees /\ MaxFees \in Nat
  BY ClaimAssumption DEF Source
<1>3. /\ vault' \in 0 .. earned /\ taken' \in [Lots -> 0 .. MaxFees]
      /\ \A m \in Lots : m # l => taken'[m] = taken[m]
  BY <1>1, <1>2 DEF Source
<1>4. \A m \in Lots : Proven(m) => m # l
  BY <1>1 DEF Proven
<1>5. \A m \in Lots : Proven(m) => Proven(m)'
  BY <1>3, <1>4, ProvenStays
<1>6. Places' /\ RoutedIsProved'
  <2>1. \A m \in Lots : booked[m] # None => Proven(m)
    BY DEF Source, RoutedIsProved, Proven
  <2>2. QED
    BY <1>1, <1>5, <2>1 DEF Source, Places, RoutedIsProved, Proven
<1>7. QED
  BY <1>1, <1>2, <1>3, <1>6 DEF Source

LEMMA NextKeepsSource ==
  ASSUME IInv, Next, Decided
  PROVE  Source'
<1>0. Source /\ JournalTypeOK
  BY DEF IInv, Journal
<1>1. ASSUME UNCHANGED rest PROVE Source'
  <2>1. UNCHANGED <<scan, booked, routed, vault, earned, taken>>
    BY <1>1 DEF rest, network
  <2>2. \A l \in Lots : Proven(l) => Proven(l)'
    BY <2>1, ProvenStays
  <2>3. QED
    BY <1>0, <2>1, <2>2 DEF Source, Places, RoutedIsProved, Proven
<1>2. ASSUME NEW p \in Procs, LooksForNew(p) \/ Scanned(p) \/ Fails(p) \/ \E l \in Lots : Takes(p, l)
      PROVE  Source'
  BY <1>0, <1>2, TakesAndTold, IngestKeeps DEF Scanned
<1>3. ASSUME NEW p \in Procs, Crash(p) PROVE Source'
  BY <1>0, <1>3, DoneKeeps DEF Crash
<1>4. ASSUME NEW l \in Lots, Executes(l) PROVE Source'
  BY <1>1, <1>4 DEF Executes
<1>5. ASSUME NEW p \in Procs, NEW l \in Lots, Asked(p, l) PROVE Source'
  BY <1>1, <1>5 DEF Asked, Reconciles
<1>6. ASSUME NEW l \in Lots, Decides(l) PROVE Source'
  BY <1>0, <1>6, DecidesKeeps
<1>7. CASE Earns
  <2>1. /\ UNCHANGED <<journalVars, scan, booked, routed, taken>>
        /\ earned < MaxFees /\ earned' = earned + 1 /\ vault' = vault + 1
    BY <1>7 DEF Earns
  <2>2. UNCHANGED chain
    BY <2>1 DEF journalVars
  <2>3. earned' \in 0 .. MaxFees /\ vault' \in 0 .. earned'
    BY <1>0, <2>1, ClaimAssumption DEF Source
  <2>4. QED
    BY <1>0, <2>1, <2>2, <2>3 DEF Source, Places, RoutedIsProved, Proven
<1>8. QED
  BY <1>1, <1>2, <1>3, <1>4, <1>5, <1>6, <1>7 DEF Next

-----------------------------------------------------------------------------
\* The recovery.

LEMMA ScanningKeeps ==
  ASSUME IInv, Scanning
  PROVE  IInv'
<1>1. Next /\ review' \in {review, NoReview} /\ UNCHANGED <<jobs, successors>>
  BY DEF Scanning
<1>2. Journal' /\ Decided
  BY <1>1, NextKeepsJournal
<1>3. Source'
  BY <1>1, <1>2, NextKeepsSource
<1>4. Recovery'
  BY <1>1, <1>2 DEF IInv, Recovery, Reviewed, Decided, NoReview
<1>5. QED
  BY <1>2, <1>3, <1>4 DEF IInv

\* What an earlier release left behind is the state of one claim nobody works on.
LEMMA InheritsKeeps ==
  ASSUME IInv, NEW l \in Lots, Inherits(l)
  PROVE  IInv'
<1>0. /\ Journal /\ Source /\ Recovery /\ JournalTypeOK /\ Dispatched(l)
      /\ jobs[l] = "none" /\ Init /\ JournalInit
      /\ asks = {} /\ journal = [m \in Lots |-> "none"] /\ sends = [m \in Lots |-> 0]
      /\ scan = [p \in Procs |-> NoScan] /\ booked = [m \in Lots |-> None] /\ routed = {} /\ vault = 0
  BY DEF IInv, Journal, Inherits, Init, JournalInit
<1>1. PICK end \in {"expired", "landed"} :
        /\ jobs' = [jobs EXCEPT ![l] = "review"]
        /\ journal' = [journal EXCEPT ![l] = "expired_review"]
        /\ signer' = [signer EXCEPT ![l].pc = "dead"]
        /\ chain' = [chain EXCEPT ![l] = end]
        /\ earned' = (IF end = "landed" THEN MinFees ELSE 0)
        /\ taken' = [taken EXCEPT ![l] = earned']
        /\ UNCHANGED <<asks, sends, faults, scan, booked, routed, vault, successors, review>>
  BY DEF Inherits
<1>2. /\ signer' \in [Lots -> Signers] /\ signer'[l].pc = "dead"
      /\ \A m \in Lots : m # l => signer'[m] = signer[m]
  BY <1>0, <1>1 DEF JournalTypeOK, Signers
<1>3. /\ journal' \in [Lots -> States \cup {"none"}] /\ journal'[l] = "expired_review"
      /\ chain' \in [Lots -> {"unsent", "pending", "landed", "reverted", "expired"}] /\ chain'[l] = end
      /\ \A m \in Lots : m # l => journal'[m] = journal[m] /\ chain'[m] = chain[m]
  BY <1>0, <1>1 DEF JournalTypeOK, States, Unresolved
<1>4. Journal'
  <2>1. JournalTypeOK'
    BY <1>0, <1>1, <1>2, <1>3 DEF JournalTypeOK
  <2>2. Dispatched(l)' /\ Tracked(l)'
    BY <1>0, <1>1, <1>2, <1>3 DEF Dispatched, Tracked
  <2>3. ~Crowded(l)
    BY <1>0 DEF Crowded, Unresolved
  <2>4. QED
    BY <1>0, <1>1, <1>2, <1>3, <2>1, <2>2, <2>3, OneLot DEF Truthful
<1>5. Source'
  <2>1. earned' \in 0 .. MaxFees /\ 0 \in 0 .. earned'
    BY <1>1, ClaimAssumption
  <2>2. taken' \in [Lots -> 0 .. MaxFees]
    BY <1>0, <1>1, <2>1 DEF Source
  <2>3. scan' = [p \in Procs |-> NoScan] /\ scan' \in [Procs -> Scans]
    BY <1>0, <1>1 DEF Source
  <2>4. Places'
    BY <2>3 DEF Places, NoScan
  <2>5. QED
    BY <1>0, <1>1, <2>1, <2>2, <2>3, <2>4 DEF Source, RoutedIsProved
<1>6. Recovery'
  <2>1. chain[l] = "unsent"
    BY <1>0 DEF JournalInit
  <2>2. /\ jobs' \in [Lots -> {"none", "review", "retired"}] /\ jobs'[l] = "review"
        /\ \A m \in Lots : m # l => jobs'[m] = jobs[m]
    BY <1>0, <1>1 DEF Recovery
  <2>3. QED
    BY <1>0, <1>1, <1>3, <2>1, <2>2 DEF Recovery, Reviewed
<1>7. QED
  BY <1>4, <1>5, <1>6 DEF IInv

LEMMA OperatorKeeps ==
  ASSUME IInv, Previews \/ Observes \/ Overlooks \/ Leaves
  PROVE  IInv'
<1>1. /\ UNCHANGED <<journalVars, rest, jobs, successors>> /\ faults' \in {faults, faults + 1}
  BY DEF Previews, Observes, Overlooks, Leaves, vars, rest, network, Fault
<1>2. UNCHANGED <<journal, signer, asks, chain, sends, scan, booked, routed, vault, earned, taken>>
  BY <1>1 DEF journalVars, rest, network
<1>3. Journal'
  <2>1. JournalTypeOK'
    BY <1>1, <1>2 DEF IInv, Journal, JournalTypeOK
  <2>2. QED
    BY <1>2, <2>1 DEF IInv, Journal, Dispatched, Tracked, Truthful, OneOpen
<1>4. Source'
  BY <1>2 DEF IInv, Source, Places, RoutedIsProved, Proven
<1>5. /\ review' = [of |-> review'.of, agree |-> review'.agree]
      /\ review'.of \subseteq Lots /\ review'.agree \in 0 .. 2 /\ Reviewed'
  <2>1. /\ review = [of |-> review.of, agree |-> review.agree]
        /\ review.of \subseteq Lots /\ review.agree \in 0 .. 2 /\ Reviewed
    BY DEF IInv, Recovery
  <2>2. CASE Leaves
    BY <2>2 DEF Leaves, NoReview, Reviewed
  <2>3. CASE Previews
    <3>1. review' = [of |-> Originals, agree |-> 0]
      BY <2>3 DEF Previews, NoReview
    <3>2. QED
      BY <3>1 DEF Originals, Reviewed
  <2>4. CASE Observes
    <3>1. review.agree < 2
      BY <2>4, TwoSources DEF Observes, Asking
    <3>2. CASE ~\A l \in review.of : Negative(l)
      BY <2>4, <3>2 DEF Observes, NoReview, Reviewed
    <3>3. CASE \A l \in review.of : Negative(l)
      <4>1. review' = [of |-> review.of, agree |-> review.agree + 1]
        BY <2>1, <2>4, <3>3 DEF Observes
      <4>2. QED
        BY <1>2, <2>1, <3>1, <3>3, <4>1 DEF Reviewed, Negative
    <3>4. QED
      BY <3>2, <3>3
  <2>5. CASE Overlooks
    <3>1. review' = [of |-> review.of, agree |-> 1]
      BY <2>1, <2>5 DEF Overlooks
    <3>2. QED
      BY <2>1, <3>1 DEF Reviewed
  <2>6. QED
    BY <2>2, <2>3, <2>4, <2>5
<1>6. Recovery'
  BY <1>1, <1>2, <1>5 DEF IInv, Recovery
<1>7. QED
  BY <1>3, <1>4, <1>6 DEF IInv

\* What is retired is what both sources said has expired.
LEMMA ApprovesKeeps ==
  ASSUME IInv, NEW p \in Procs, Approves(p)
  PROVE  IInv'
<1>1. /\ review.of = Originals /\ review.agree = 2 /\ Retires(review.of) /\ review' = NoReview
      /\ UNCHANGED <<signer, asks, chain, sends, faults, rest>>
  BY TwoSources DEF Approves, Evidence
<1>2. UNCHANGED <<scan, booked, routed, vault, earned, taken>>
  BY <1>1 DEF rest, network
<1>3. PICK claims : claims = review.of
  OBVIOUS
<1>4. \A l \in claims : /\ l \in Lots /\ jobs[l] = "review" /\ journal[l] = "expired_review"
                        /\ chain[l] = "expired"
  BY <1>1, <1>3 DEF Originals, IInv, Recovery, Reviewed
<1>5. /\ jobs' = [l \in Lots |-> IF l \in claims THEN "retired" ELSE jobs[l]]
      /\ journal' = [l \in Lots |-> IF l \in claims THEN "retired_expired" ELSE journal[l]]
      /\ successors' = [l \in Lots |-> successors[l] + IF l \in claims THEN 1 ELSE 0]
  BY <1>1, <1>3 DEF Retires
<1>6. Journal'
  <2>1. JournalTypeOK'
    BY <1>1, <1>5 DEF IInv, Journal, JournalTypeOK, States
  <2>2. \A l \in Lots : Dispatched(l)' /\ Tracked(l)'
    <3>1. SUFFICES ASSUME NEW l \in Lots PROVE Dispatched(l)' /\ Tracked(l)'
      OBVIOUS
    <3>2. Dispatched(l) /\ Tracked(l)
      BY DEF IInv, Journal
    <3>3. CASE l \in claims
      BY <1>1, <1>4, <1>5, <3>2, <3>3 DEF Dispatched, Tracked
    <3>4. CASE l \notin claims
      BY <1>1, <1>5, <3>2, <3>4 DEF Dispatched, Tracked
    <3>5. QED
      BY <3>3, <3>4
  <2>3. Truthful'
    BY <1>1, <1>5 DEF IInv, Journal, Truthful, JournalTypeOK, Asks
  <2>4. OneOpen'
    <3>1. \A l \in Lots : journal'[l] \in Unresolved => journal[l] \in Unresolved
      BY <1>5 DEF Unresolved
    <3>2. QED
      BY <3>1 DEF IInv, Journal, OneOpen
  <2>5. QED
    BY <2>1, <2>2, <2>3, <2>4 DEF Journal
<1>7. Source'
  BY <1>1, <1>2 DEF IInv, Source, Places, RoutedIsProved, Proven
<1>8. Recovery'
  <2>1. ASSUME NEW l \in Lots
        PROVE  /\ jobs'[l] \in {"none", "review", "retired"} /\ successors'[l] \in Nat
               /\ jobs'[l] = "retired" => chain'[l] = "expired"
               /\ successors'[l] = IF jobs'[l] = "retired" THEN 1 ELSE 0
    BY <1>1, <1>4, <1>5 DEF IInv, Recovery
  <2>2. review' = [of |-> {}, agree |-> 0]
    BY <1>1 DEF NoReview
  <2>3. QED
    BY <1>5, <2>1, <2>2 DEF Recovery, Reviewed
<1>9. QED
  BY <1>6, <1>7, <1>8 DEF IInv

LEMMA Inductive == IInv /\ [RecoveryNext]_allVars => IInv'
<1> SUFFICES ASSUME IInv, [RecoveryNext]_allVars PROVE IInv'
  OBVIOUS
<1>1. CASE Scanning
  BY <1>1, ScanningKeeps
<1>2. ASSUME NEW l \in Lots, Inherits(l) PROVE IInv'
  BY <1>2, InheritsKeeps
<1>3. CASE Previews \/ Observes \/ Overlooks \/ Leaves
  BY <1>3, OperatorKeeps
<1>4. ASSUME NEW p \in Procs, Approves(p) PROVE IInv'
  BY <1>4, ApprovesKeeps
<1>5. CASE UNCHANGED allVars
  <2>1. UNCHANGED <<journal, signer, asks, chain, sends, faults, scan, booked, routed,
                    vault, earned, taken, jobs, successors, review>>
    BY <1>5 DEF allVars, vars, journalVars, network, recoveryVars
  <2>2. Journal'
    BY <2>1 DEF IInv, Journal, JournalTypeOK, Dispatched, Tracked, Truthful, OneOpen
  <2>3. Source'
    BY <2>1 DEF IInv, Source, Places, RoutedIsProved, Proven
  <2>4. Recovery'
    BY <2>1 DEF IInv, Recovery, Reviewed
  <2>5. QED
    BY <2>2, <2>3, <2>4 DEF IInv
<1>6. QED
  BY <1>1, <1>2, <1>3, <1>4, <1>5 DEF RecoveryNext

LEMMA Invariant == RecoverySpec => []IInv
<1>1. RecoveryInit => IInv
  BY InitIInv
<1>2. IInv /\ [RecoveryNext]_allVars => IInv'
  BY Inductive
<1>3. QED
  BY <1>1, <1>2, PTL DEF RecoverySpec

\* services.ts and claim-recovery.ts: no two claims of a wallet are under way at
\* once, what is booked and routed was proved, and only what has expired is retired.
THEOREM ClaimsAreAccounted == RecoverySpec => []ClaimsHold
<1>1. IInv => ClaimsHold
  <2> SUFFICES ASSUME IInv PROVE ClaimsHold
    OBVIOUS
  <2>1. RecoveryTypeOK
    <3>1. TypeOK
      BY ClaimAssumption DEF IInv, Journal, Source, TypeOK
    <3>2. review \in Reviews
      BY TwoSources DEF IInv, Recovery, Reviews
    <3>3. QED
      BY <3>1, <3>2 DEF IInv, Recovery, RecoveryTypeOK
  <2>2. OneClaimAtATime
    <3>1. \A l \in Lots : Dispatched(l) /\ Tracked(l)
      BY DEF IInv, Journal
    <3>2. \A l \in Lots : sends[l] > 0 /\ chain[l] = "pending" => journal[l] \in Unresolved
      BY <3>1 DEF Dispatched, Tracked
    <3>3. QED
      BY <3>1, <3>2 DEF IInv, Journal, OneOpen, Dispatched, OneClaimAtATime
  <2>3. RoutedIsProved /\ RetiredIsDead
    BY DEF IInv, Source, Recovery, RetiredIsDead
  <2>4. QED
    BY <2>1, <2>2, <2>3 DEF ClaimsHold
<1>2. QED
  BY <1>1, Invariant, PTL

\* services.ts:200, through restarts, racing scans and recoveries: a booked claim
\* keeps its first valuation.
THEOREM ValuationsStay == RecoverySpec => FirstValuationStays
<1>1. IInv /\ [RecoveryNext]_allVars => [\A l \in Lots : booked[l] # None => booked'[l] = booked[l]]_vars
  <2> SUFFICES ASSUME IInv, [RecoveryNext]_allVars, NEW l \in Lots, booked[l] # None
               PROVE  booked'[l] = booked[l]
    OBVIOUS
  <2>1. ASSUME NEW p \in Procs, NEW price \in Prices, Priced(p, price)
        PROVE  booked'[l] = booked[l]
    BY <2>1 DEF Priced, Value, IInv, Source
  <2>2. CASE Scanning
    <3>1. ASSUME UNCHANGED rest PROVE UNCHANGED booked
      BY <3>1 DEF rest
    <3>2. \/ UNCHANGED booked
          \/ \E p \in Procs, price \in Prices : Priced(p, price)
      BY <2>2, <3>1 DEF Scanning, Next, LooksForNew, Scanned, Told, Sent, Proved, Routes, Conflicts,
         Fails, Crash, Takes, Asked, Reconciles, Executes, Decides, Earns
    <3>3. QED
      BY <2>1, <3>2
  <2>3. CASE UNCHANGED allVars \/ Previews \/ Observes \/ Overlooks \/ Leaves
    BY <2>3 DEF allVars, vars, rest, Previews, Observes, Overlooks, Leaves
  <2>4. ASSUME NEW p \in Procs, Approves(p) PROVE UNCHANGED booked
    BY <2>4 DEF Approves, rest
  <2>5. ASSUME NEW m \in Lots, Inherits(m) PROVE UNCHANGED booked
    BY <2>5 DEF Inherits
  <2>6. QED
    BY <2>2, <2>3, <2>4, <2>5 DEF RecoveryNext
<1>2. QED
  BY <1>1, Invariant, PTL DEF RecoverySpec, FirstValuationStays

=============================================================================
