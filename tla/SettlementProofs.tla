-------------------------- MODULE SettlementProofs --------------------------
(***************************************************************************)
(* What holds of Settlement for every number of lots, processes, wallets    *)
(* and faults: through deadlines that leave a call running, crashes and     *)
(* other processes, a lot is sent once and sold once, each after the row    *)
(* that says so and on the evidence that allows it, and no stored field is  *)
(* ever lost.                                                               *)
(***************************************************************************)
EXTENDS Settlement, TLAPS

-----------------------------------------------------------------------------
\* The invariant.

Broadcasting(l) == journal[l] \notin {"none", "prepared"}

\* A transaction is signed by one execute() ever, which hands it over once, after
\* the journal gave up the right to; reconciling never gives that right back.
Signed(l) ==
  /\ IF signer[l].pc = "no" THEN signer[l].at = None ELSE signer[l].at \in Procs
  /\ signer[l].pc # "no" <=> l \in prep
  /\ journal[l] # "none" => l \in prep
  /\ signer[l].pc = "inserted" => journal[l] # "none"
  /\ signer[l].pc = "claimed" => Broadcasting(l)
  /\ signer[l].pc = "writing" => signer[l].val \in {"broadcast", "unknown"}
  /\ signer[l].pc \in {"preparing", "inserted", "claimed"} => sends[l] = 0
  /\ sends[l] <= 1
  /\ sends[l] > 0 /\ l \notin bridged => l \in prep /\ Broadcasting(l)

Asked == \A a \in asks : a.lot \in prep /\ a.val # "prepared"

Signing == Asked /\ \A l \in Lots : Signed(l)

\* A call knows part of the stored payload, all of it while it is fresh, and has
\* passed the checks that its place requires.
GoodCall(c) ==
  /\ c.lot \in Lots
  /\ c.seen \subseteq row[c.lot]
  /\ c.pc # "verifying" => "row" \in row[c.lot] /\ (c.fresh => c.seen = row[c.lot])
  /\ c.pc \in {"asking", "refreshing", "resuming"} => c.lot \notin bridged
  /\ c.pc = "matching" /\ c.lot \in bridged => "output" \in row[c.lot]
  /\ c.pc = "intending" => "txn" \in row[c.lot] /\ "sale" \notin c.seen
  /\ c.pc = "checking" => "order" \in row[c.lot]
  /\ c.pc = "reserved" /\ c.lot \in bridged => sends[c.lot] = 0

\* One call ever is first to reserve a lot.
Calling ==
  /\ \A p \in Procs : call[p].pc # "idle" => GoodCall(call[p])
  /\ \A p, q \in Procs :
       p # q /\ call[p].pc = "reserved" /\ call[q].pc = "reserved" => call[p].lot # call[q].lot

\* What the stored payload says is so.
Booked ==
  \A l \in Lots :
    /\ row[l] # {} \/ l \in prep \/ sends[l] > 0 => "row" \in row[l]
    /\ "txn" \in row[l] => l \in credited /\ (l \in bridged => "output" \in row[l])
    /\ l \in credited => chain[l] = "landed"
    /\ sells[l] <= 1
    /\ sells[l] > 0 => {"sale", "txn"} \subseteq row[l]
    /\ exchange[l] # "none" => sells[l] > 0
    /\ "order" \in row[l] => exchange[l] = "placed"
    /\ phase[l] = "sold" => "order" \in row[l]

IInv == TypeOK /\ Signing /\ Calling /\ Booked

LEMMA InitIInv == Init => IInv
<1> SUFFICES ASSUME Init PROVE IInv
  OBVIOUS
<1> USE DEF Init, JournalInit
<1>1. TypeOK
  <2>1. JournalTypeOK
    BY DEF JournalTypeOK, Signers
  <2>2. Idle \in Calls
    BY DEF Idle, Calls
  <2>3. QED
    BY <2>1, <2>2 DEF TypeOK, Phases, Fields
<1>2. Signing
  BY DEF Signing, Asked, Signed, Broadcasting
<1>3. Calling
  BY DEF Calling, Idle
<1>4. Booked
  BY DEF Booked
<1>5. QED
  BY <1>1, <1>2, <1>3, <1>4 DEF IInv

-----------------------------------------------------------------------------
\* The journal and its dispatcher.

\* What a call under way and the stored payloads need of a step of the dispatcher.
Orderly ==
  \A l \in Lots : /\ chain[l] = "landed" => chain'[l] = "landed"
                  /\ sends'[l] = sends[l] \/ l \in prep

LEMMA OrderlyKeeps ==
  ASSUME IInv, Orderly, UNCHANGED rest
  PROVE  Calling' /\ Booked'
<1>1. UNCHANGED <<phase, row, prep, call, bridged, credited, exchange, sells>>
  BY DEF rest, remote
<1>2. ASSUME NEW p \in Procs, call[p].pc # "idle" PROVE GoodCall(call[p])'
  <2>1. GoodCall(call[p])
    BY <1>2 DEF IInv, Calling
  <2>2. call[p].lot \in bridged => sends'[call[p].lot] = sends[call[p].lot]
    BY <2>1 DEF Orderly, GoodCall, IInv, TypeOK
  <2>3. QED
    BY <1>1, <2>1, <2>2 DEF GoodCall
<1>3. Calling'
  BY <1>1, <1>2 DEF IInv, Calling
<1>4. Booked'
  BY <1>1 DEF IInv, Booked, Orderly
<1>5. QED
  BY <1>3, <1>4

\* A step of one transaction.
LEMMA OneLot ==
  ASSUME IInv, NEW l \in Lots, UNCHANGED rest, JournalTypeOK',
         \A m \in Lots : m # l => /\ journal'[m] = journal[m] /\ signer'[m] = signer[m]
                                  /\ chain'[m] = chain[m] /\ sends'[m] = sends[m],
         chain[l] = "landed" => chain'[l] = "landed",
         sends'[l] = sends[l] \/ l \in prep,
         Signed(l)', Asked'
  PROVE  IInv'
<1>1. UNCHANGED <<phase, row, prep, call, bridged, credited, exchange, sells>>
  BY DEF rest, remote
<1>2. TypeOK'
  BY <1>1 DEF IInv, TypeOK
<1>3. Signing'
  BY <1>1 DEF IInv, Signing, Signed, Broadcasting
<1>4. Calling' /\ Booked'
  BY OrderlyKeeps DEF Orderly
<1>5. QED
  BY <1>2, <1>3, <1>4 DEF IInv

LEMMA ExecuteKeeps ==
  ASSUME IInv, NEW l \in Lots, Execute(l), UNCHANGED rest
  PROVE  IInv'
<1> USE DEF IInv
<1>0. /\ JournalTypeOK /\ Signing /\ Signed(l) /\ Asked
      /\ UNCHANGED <<prep, bridged>>
      /\ signer[l] \in Signers /\ sends[l] \in Nat
  BY DEF TypeOK, JournalTypeOK, Signing, rest, remote
<1>1. ASSUME NEW label \in {"inserted", "claimed", "sent", "asking", "writing", "returned", "raised"},
             At(l, label)
      PROVE  /\ signer' \in [Lots -> Signers] /\ signer'[l].pc = label
             /\ signer'[l].at = signer[l].at /\ signer'[l].val = signer[l].val
             /\ \A m \in Lots : m # l => signer'[m] = signer[m]
  BY <1>0, <1>1 DEF At, JournalTypeOK, Signers
<1>2. ASSUME Prepared(l) PROVE IInv'
  <2>1. /\ signer[l].pc = "preparing" /\ UNCHANGED <<asks, chain, sends, faults>>
        /\ \/ At(l, "raised") /\ UNCHANGED journal
           \/ At(l, "inserted") /\ journal' = [journal EXCEPT ![l] = "prepared"]
    BY <1>2 DEF Prepared
  <2>2. CASE At(l, "raised") /\ UNCHANGED journal
    <3>1. JournalTypeOK' /\ Signed(l)' /\ Asked'
      BY <1>0, <1>1, <2>1, <2>2 DEF JournalTypeOK, Signed, Broadcasting, Asked
    <3>2. QED
      BY <1>1, <2>1, <2>2, <3>1, OneLot
  <2>3. CASE At(l, "inserted") /\ journal' = [journal EXCEPT ![l] = "prepared"]
    <3>1. /\ journal' \in [Lots -> States \cup {"none"}] /\ journal'[l] = "prepared"
          /\ \A m \in Lots : m # l => journal'[m] = journal[m]
      BY <1>0, <2>3 DEF JournalTypeOK, States, Unresolved
    <3>2. JournalTypeOK' /\ Signed(l)' /\ Asked'
      BY <1>0, <1>1, <2>1, <2>3, <3>1 DEF JournalTypeOK, Signed, Broadcasting, Asked
    <3>3. QED
      BY <1>1, <2>1, <2>3, <3>1, <3>2, OneLot
  <2>4. QED
    BY <2>1, <2>2, <2>3
<1>3. ASSUME Claim(l) PROVE IInv'
  <2>1. signer[l].pc = "inserted" /\ UNCHANGED <<chain, sends, faults>>
    BY <1>3 DEF Claim
  <2>2. CASE At(l, "claimed") /\ journal' = [journal EXCEPT ![l] = "unknown"] /\ UNCHANGED asks
    <3>1. /\ journal' \in [Lots -> States \cup {"none"}] /\ journal'[l] = "unknown"
          /\ \A m \in Lots : m # l => journal'[m] = journal[m]
      BY <1>0, <2>2 DEF JournalTypeOK, States, Unresolved
    <3>2. JournalTypeOK' /\ Signed(l)' /\ Asked'
      BY <1>0, <1>1, <2>1, <2>2, <3>1 DEF JournalTypeOK, Signed, Broadcasting, Asked
    <3>3. QED
      BY <1>1, <2>1, <2>2, <3>1, <3>2, OneLot
  <2>3. CASE /\ At(l, "asking") /\ asks' = asks \cup {Ask(l, signer[l].at, "send")}
             /\ UNCHANGED journal
    <3>1. Ask(l, signer[l].at, "send") \in Asks
      BY <1>0, <2>1 DEF Signed, Ask, Asks, States, Unresolved
    <3>2. Asked'
      BY <1>0, <2>1, <2>3 DEF Asked, Ask, Signed
    <3>3. JournalTypeOK' /\ Signed(l)'
      BY <1>0, <1>1, <2>1, <2>3, <3>1 DEF JournalTypeOK, Signed, Broadcasting
    <3>4. QED
      BY <1>1, <2>1, <2>3, <3>2, <3>3, OneLot
  <2>4. QED
    BY <1>3, <2>2, <2>3 DEF Claim
<1>4. ASSUME Broadcast(l) PROVE IInv'
  <2>1. /\ signer[l].pc = "claimed" /\ chain[l] # "expired" /\ At(l, "sent")
        /\ chain' = [chain EXCEPT ![l] = IF @ = "unsent" THEN "pending" ELSE @]
        /\ sends' = [sends EXCEPT ![l] = @ + 1]
        /\ UNCHANGED <<journal, asks, faults>>
    BY <1>4 DEF Broadcast, Handed
  <2>2. /\ chain' \in [Lots -> {"unsent", "pending", "landed", "reverted", "expired"}]
        /\ chain[l] = "landed" => chain'[l] = "landed"
        /\ sends' \in [Lots -> Nat] /\ sends'[l] = sends[l] + 1
        /\ \A m \in Lots : m # l => chain'[m] = chain[m] /\ sends'[m] = sends[m]
    BY <1>0, <2>1 DEF JournalTypeOK
  <2>3. JournalTypeOK' /\ Signed(l)' /\ Asked'
    BY <1>0, <1>1, <2>1, <2>2 DEF JournalTypeOK, Signed, Broadcasting, Asked
  <2>4. l \in prep
    BY <1>0, <2>1 DEF Signed
  <2>5. QED
    BY <1>1, <2>1, <2>2, <2>3, <2>4, OneLot
<1>5. ASSUME Answered(l) \/ BroadcastThrows(l) PROVE IInv'
  <2>1. /\ signer[l].pc \in {"claimed", "sent"}
        /\ Record(l, "broadcast") \/ Record(l, "unknown")
        /\ UNCHANGED <<journal, asks, chain, sends>>
        /\ faults' = faults \/ faults' = faults + 1
    BY <1>5 DEF Answered, BroadcastThrows, Fault
  <2>2. PICK val \in {"broadcast", "unknown"} : Record(l, val)
    BY <2>1
  <2>3. /\ signer' \in [Lots -> Signers] /\ signer'[l].pc \in {"returned", "writing"}
        /\ signer'[l].at = signer[l].at /\ signer'[l].val = val
        /\ \A m \in Lots : m # l => signer'[m] = signer[m]
    <3>1. val \in States \cup {"none"}
      BY DEF States, Unresolved
    <3>2. PICK label \in {"returned", "writing"} :
            signer' = [signer EXCEPT ![l] = [@ EXCEPT !.pc = label, !.val = val]]
      BY <1>0, <2>2 DEF Record, JournalTypeOK, Signers
    <3>3. QED
      BY <1>0, <3>1, <3>2 DEF JournalTypeOK, Signers
  <2>4. JournalTypeOK' /\ Signed(l)' /\ Asked'
    BY <1>0, <2>1, <2>3 DEF JournalTypeOK, Signed, Broadcasting, Asked
  <2>5. QED
    BY <2>1, <2>3, <2>4, OneLot
<1>6. ASSUME RecordWrites(l) PROVE IInv'
  <2>1. signer[l].pc = "writing" /\ UNCHANGED <<asks, chain, sends, faults>>
    BY <1>6 DEF RecordWrites
  <2>2. CASE (At(l, "returned") \/ At(l, "raised")) /\ UNCHANGED journal
    <3>1. PICK label \in {"returned", "raised"} : At(l, label)
      BY <2>2
    <3>2. JournalTypeOK' /\ Signed(l)' /\ Asked'
      BY <1>0, <1>1, <2>1, <2>2, <3>1 DEF JournalTypeOK, Signed, Broadcasting, Asked
    <3>3. QED
      BY <1>1, <2>1, <2>2, <3>1, <3>2, OneLot
  <2>3. CASE /\ signer' = [signer EXCEPT ![l].pc = "returned", ![l].val = "none"]
             /\ journal' = [journal EXCEPT ![l] = signer[l].val]
    <3>1. /\ signer' \in [Lots -> Signers] /\ signer'[l].pc = "returned"
          /\ signer'[l].at = signer[l].at
          /\ \A m \in Lots : m # l => signer'[m] = signer[m]
      BY <1>0, <2>3 DEF JournalTypeOK, Signers
    <3>2. /\ journal' \in [Lots -> States \cup {"none"}]
          /\ journal'[l] \in {"broadcast", "unknown"}
          /\ \A m \in Lots : m # l => journal'[m] = journal[m]
      BY <1>0, <2>1, <2>3 DEF JournalTypeOK, States, Unresolved, Signed
    <3>3. JournalTypeOK' /\ Signed(l)' /\ Asked'
      BY <1>0, <2>1, <2>3, <3>1, <3>2 DEF JournalTypeOK, Signed, Broadcasting, Asked
    <3>4. QED
      BY <2>1, <3>1, <3>2, <3>3, OneLot
  <2>4. QED
    BY <1>6, <2>2, <2>3 DEF RecordWrites
<1>7. ASSUME Reconciled(l) PROVE IInv'
  <2>1. PICK a \in asks : /\ signer[l].pc = "asking" /\ a.pc \in {"returned", "raised"}
                          /\ At(l, a.pc) /\ asks' = asks \ {a}
                          /\ UNCHANGED <<journal, chain, sends, faults>>
    BY <1>7 DEF Reconciled
  <2>2. JournalTypeOK' /\ Signed(l)' /\ Asked'
    BY <1>0, <1>1, <2>1 DEF JournalTypeOK, Signed, Broadcasting, Asked
  <2>3. QED
    BY <1>1, <2>1, <2>2, OneLot
<1>8. QED
  BY <1>2, <1>3, <1>4, <1>5, <1>6, <1>7 DEF Execute

LEMMA PrepareFailsKeeps ==
  ASSUME IInv, NEW l \in Lots, PrepareFails(l), UNCHANGED rest
  PROVE  IInv'
<1> USE DEF IInv
<1>0. /\ JournalTypeOK /\ Signed(l) /\ Asked
      /\ UNCHANGED <<prep, bridged>>
  BY DEF TypeOK, Signing, rest, remote
<1>1. /\ signer[l].pc = "preparing" /\ signer' = [signer EXCEPT ![l].pc = "raised"]
      /\ UNCHANGED <<journal, asks, chain, sends>> /\ faults' = faults + 1
  BY DEF PrepareFails, At, Fault
<1>2. /\ signer' \in [Lots -> Signers] /\ signer'[l].pc = "raised"
      /\ signer'[l].at = signer[l].at
      /\ \A m \in Lots : m # l => signer'[m] = signer[m]
  BY <1>0, <1>1 DEF JournalTypeOK, Signers
<1>3. JournalTypeOK' /\ Signed(l)' /\ Asked'
  BY <1>0, <1>1, <1>2 DEF JournalTypeOK, Signed, Broadcasting, Asked
<1>4. QED
  BY <1>1, <1>2, <1>3, OneLot

LEMMA DecideKeeps ==
  ASSUME IInv, NEW l \in Lots, Decide(l), UNCHANGED rest
  PROVE  IInv'
<1> USE DEF IInv
<1>0. /\ JournalTypeOK /\ Signed(l) /\ Asked
      /\ UNCHANGED <<prep, bridged>>
  BY DEF TypeOK, Signing, rest, remote
<1>1. PICK end \in {"landed", "reverted", "expired"} :
        /\ chain' = [chain EXCEPT ![l] = end] /\ chain[l] \in {"unsent", "pending"}
        /\ UNCHANGED <<journal, signer, asks, sends, faults>>
  BY DEF Decide
<1>2. /\ chain' \in [Lots -> {"unsent", "pending", "landed", "reverted", "expired"}]
      /\ \A m \in Lots : m # l => chain'[m] = chain[m]
  BY <1>0, <1>1 DEF JournalTypeOK
<1>3. JournalTypeOK' /\ Signed(l)' /\ Asked'
  BY <1>0, <1>1, <1>2 DEF JournalTypeOK, Signed, Broadcasting, Asked
<1>4. QED
  BY <1>1, <1>2, <1>3, OneLot

\* The dispatcher's reconcile() calls.
LEMMA EndsKeeps ==
  ASSUME JournalTypeOK, Asked, UNCHANGED prep, NEW a \in asks,
         \/ \E label \in {"in", "write", "returned", "raised"}, val \in States \ {"prepared"} :
              Becomes(a, label, val)
         \/ \E label \in {"returned", "raised"} : Ends(a, label)
  PROVE  asks' \subseteq Asks /\ Asked'
<1>1. a \in Asks /\ a.val # "prepared" /\ a.lot \in prep
  BY DEF JournalTypeOK, Asked
<1>2. ASSUME NEW label \in {"in", "write", "returned", "raised"}, NEW val \in States \ {"prepared"},
             Becomes(a, label, val)
      PROVE  asks' \subseteq Asks /\ Asked'
  <2> DEFINE b == [a EXCEPT !.pc = label, !.val = val]
  <2>1. b \in Asks /\ b.lot = a.lot /\ b.val = val
    BY <1>1 DEF Asks
  <2>2. asks' = (asks \ {a}) \cup {b}
    BY <1>2 DEF Becomes
  <2> HIDE DEF b
  <2>3. QED
    BY <1>1, <2>1, <2>2 DEF JournalTypeOK, Asked
<1>3. ASSUME asks' = asks \ {a} PROVE asks' \subseteq Asks /\ Asked'
  BY <1>3 DEF JournalTypeOK, Asked
<1>4. ASSUME NEW label \in {"returned", "raised"}, Ends(a, label)
      PROVE  asks' \subseteq Asks /\ Asked'
  <2>1. "unknown" \in States \ {"prepared"} /\ a.val \in States \ {"prepared"}
    BY <1>1 DEF States, Unresolved, Asks
  <2>2. QED
    BY <1>2, <1>3, <1>4, <2>1 DEF Ends
<1>5. QED
  BY <1>2, <1>4

LEMMA ReconcileKeeps ==
  ASSUME IInv, NEW a \in asks, Reconcile(a) \/ LookMisses(a), UNCHANGED rest
  PROVE  IInv'
<1> USE DEF IInv
<1>0. /\ JournalTypeOK /\ Signing /\ Asked /\ a \in Asks /\ a.lot \in Lots
      /\ a.val \in States \ {"prepared"} /\ a.lot \in prep
      /\ UNCHANGED <<prep, bridged>>
  BY DEF TypeOK, JournalTypeOK, Signing, Asked, Asks, rest, remote
<1>1. ASSUME UNCHANGED <<journal, signer, chain, sends>>, faults' \in {faults, faults + 1},
             asks' \subseteq Asks, Asked'
      PROVE  IInv'
  <2>1. JournalTypeOK' /\ Signed(a.lot)'
    BY <1>0, <1>1 DEF JournalTypeOK, Signing, Signed, Broadcasting
  <2>2. QED
    BY <1>0, <1>1, <2>1, OneLot
<1>2. CASE Looked(a)
  <2>1. Seen(a.lot) \subseteq States \ {"prepared"}
    BY <1>0 DEF Seen, States, Unresolved, Final, JournalTypeOK
  <2>2. PICK val \in States \ {"prepared"} : Becomes(a, "in", val)
    BY <1>2, <2>1 DEF Looked
  <2>3. asks' \subseteq Asks /\ Asked'
    BY <1>0, <2>2, EndsKeeps
  <2>4. QED
    BY <1>1, <1>2, <2>3 DEF Looked
<1>3. CASE LookMisses(a)
  <2>1. PICK val \in States \ {"prepared"} : Becomes(a, "in", val)
    BY <1>3 DEF LookMisses, States, Unresolved
  <2>2. asks' \subseteq Asks /\ Asked'
    BY <1>0, <2>1, EndsKeeps
  <2>3. QED
    BY <1>1, <1>3, <2>2 DEF LookMisses, Fault
<1>4. CASE Heard(a)
  <2>1. asks' \subseteq Asks /\ Asked'
    BY <1>0, <1>4, EndsKeeps DEF Heard
  <2>2. QED
    BY <1>1, <1>4, <2>1 DEF Heard
<1>5. CASE HearWrites(a)
  <2>1. asks' \subseteq Asks /\ Asked'
    BY <1>0, <1>5, EndsKeeps DEF HearWrites
  <2>2. CASE UNCHANGED journal
    BY <1>1, <1>5, <2>1, <2>2 DEF HearWrites
  <2>3. CASE journal' = [journal EXCEPT ![a.lot] = a.val]
    <3>1. /\ journal' \in [Lots -> States \cup {"none"}]
          /\ journal'[a.lot] = a.val
          /\ \A m \in Lots : m # a.lot => journal'[m] = journal[m]
      BY <1>0, <2>3 DEF JournalTypeOK
    <3>2. a.val # "none"
      BY <1>0 DEF States, Final, Unresolved
    <3>3. JournalTypeOK' /\ Signed(a.lot)'
      BY <1>0, <1>5, <2>1, <3>1, <3>2
      DEF HearWrites, JournalTypeOK, Signing, Signed, Broadcasting
    <3>4. QED
      BY <1>0, <1>5, <2>1, <3>1, <3>3, OneLot DEF HearWrites
  <2>4. QED
    BY <1>5, <2>2, <2>3 DEF HearWrites
<1>6. QED
  BY <1>2, <1>3, <1>4, <1>5 DEF Reconcile

-----------------------------------------------------------------------------
\* The calls.

\* A step of one call leaves the others what they know, unless it wrote to their lot.
LEMMA CallingKeeps ==
  ASSUME IInv, NEW p \in Procs, UNCHANGED bridged,
         \A m \in Lots : row[m] \subseteq row'[m],
         \A q \in Procs \ {p} : \/ call'[q] = call[q]
                                \/ call'[q] = [call[q] EXCEPT !.fresh = FALSE],
         \A q \in Procs \ {p} : call[q].pc \notin {"idle", "verifying"} /\ call'[q].fresh
                                => row'[call[q].lot] = row[call[q].lot],
         \A q \in Procs \ {p} : call[q].pc = "reserved"
                                => sends'[call[q].lot] = sends[call[q].lot],
         call'[p].pc # "idle" => GoodCall(call[p])',
         call'[p].pc = "reserved" =>
           \A q \in Procs \ {p} : call[q].pc = "reserved" => call[q].lot # call'[p].lot
  PROVE  Calling'
<1>1. ASSUME NEW q \in Procs \ {p}
      PROVE  /\ call'[q].pc = call[q].pc /\ call'[q].lot = call[q].lot
             /\ call'[q].seen = call[q].seen
             /\ call'[q].fresh => call[q].fresh
             /\ call[q].pc # "idle" => GoodCall(call[q])
  <2>1. call[q] \in Calls
    BY DEF IInv, TypeOK
  <2>2. call[q].pc # "idle" => GoodCall(call[q])
    BY DEF IInv, Calling
  <2>3. call'[q] = call[q] \/ call'[q] = [call[q] EXCEPT !.fresh = FALSE]
    OBVIOUS
  <2>4. QED
    BY <2>1, <2>2, <2>3 DEF Calls
<1>2. ASSUME NEW q \in Procs \ {p}, call'[q].pc # "idle" PROVE GoodCall(call[q])'
  <2>1. GoodCall(call[q]) /\ call[q].lot \in Lots
    BY <1>1, <1>2 DEF GoodCall
  <2>2. call[q].pc # "verifying" /\ call'[q].fresh
        => call[q].fresh /\ row'[call[q].lot] = row[call[q].lot]
    BY <1>1, <1>2
  <2>3. row[call[q].lot] \subseteq row'[call[q].lot]
    BY <2>1
  <2>4. call[q].pc = "reserved" => sends'[call[q].lot] = sends[call[q].lot]
    OBVIOUS
  <2>5. QED
    BY <1>1, <1>2, <2>1, <2>2, <2>3, <2>4 DEF GoodCall
<1>3. QED
  BY <1>1, <1>2 DEF IInv, Calling

\* A step that touches one call and no row.
LEMMA QuietKeeps ==
  ASSUME IInv, NEW p \in Procs, NEW c \in Calls, UNCHANGED <<row, bridged, sends>>,
         call' = [call EXCEPT ![p] = c],
         c.pc # "idle" => GoodCall(c), c.pc # "reserved"
  PROVE  Calling' /\ call' \in [Procs -> Calls]
<1>1. call' \in [Procs -> Calls] /\ call'[p] = c /\ \A q \in Procs \ {p} : call'[q] = call[q]
  BY DEF IInv, TypeOK
<1>2. c.pc # "idle" => GoodCall(call[p])'
  BY <1>1 DEF GoodCall
<1>3. QED
  BY <1>1, <1>2, CallingKeeps

LEMMA DoneKeeps ==
  ASSUME IInv, NEW p \in Procs, UNCHANGED <<row, bridged, sends>>, Done(p)
  PROVE  Calling' /\ call' \in [Procs -> Calls]
<1>1. Idle \in Calls /\ Idle.pc = "idle"
  BY DEF Idle, Calls
<1>2. QED
  BY <1>1, QuietKeeps DEF Done

\* The call goes on to a place whose checks it passed.
LEMMA GotoKeeps ==
  ASSUME IInv, NEW p \in Procs, NEW label \in Awaits \cup Between, UNCHANGED <<row, bridged, sends>>,
         Goto(p, label), call[p].pc \notin {"idle", "verifying"}, label # "reserved",
         GoodCall([call[p] EXCEPT !.pc = label])
  PROVE  Calling' /\ call' \in [Procs -> Calls]
<1>1. call[p] \in Calls
  BY DEF IInv, TypeOK
<1>2. PICK c \in Calls : c = [call[p] EXCEPT !.pc = label]
  BY <1>1 DEF Calls
<1>3. call' = [call EXCEPT ![p] = c] /\ c.pc = label
  BY <1>1, <1>2 DEF Goto, Calls
<1>4. GoodCall(c)
  BY <1>2
<1>5. QED
  BY <1>3, <1>4, QuietKeeps

\* The call takes up a lot.
LEMMA ReadsKeeps ==
  ASSUME IInv, NEW p \in Procs, NEW l \in Lots, NEW label \in Awaits \cup Between,
         UNCHANGED <<row, bridged, sends>>, Reads(p, l, label), label # "reserved",
         GoodCall([pc |-> label, lot |-> l, seen |-> row[l], fresh |-> TRUE])
  PROVE  Calling' /\ call' \in [Procs -> Calls]
<1>1. PICK c \in Calls : c = [pc |-> label, lot |-> l, seen |-> row[l], fresh |-> TRUE]
  BY DEF IInv, TypeOK, Calls
<1>2. QED
  BY <1>1, QuietKeeps DEF Reads

\* save(): the payload grows by what is added, or not at all.
LEMMA SaveKeeps ==
  ASSUME IInv, NEW p \in Procs, NEW adds \in SUBSET Fields,
         NEW label \in {"idle"} \cup Awaits \cup Between, Save(p, adds, label),
         call[p].pc \notin {"idle", "verifying"}, label \notin {"reserved", "intending"},
         UNCHANGED <<bridged, sends>>,
         label \in {"asking", "refreshing", "resuming"} => call[p].lot \notin bridged,
         label = "matching" /\ call[p].lot \in bridged => "output" \in call[p].seen \cup adds,
         label = "checking" => "order" \in call[p].seen \cup adds
  PROVE  /\ Calling' /\ call' \in [Procs -> Calls]
         /\ row' \in [Lots -> SUBSET Fields]
         /\ \A m \in Lots : m # call[p].lot => row'[m] = row[m]
         /\ row'[call[p].lot] = IF call[p].fresh THEN row[call[p].lot] \cup adds
                                ELSE row[call[p].lot]
<1> USE DEF IInv
<1>1. CASE ~call[p].fresh
  BY <1>1, DoneKeeps DEF Save, TypeOK
<1>2. CASE call[p].fresh
  <2>1. /\ call[p] \in Calls /\ GoodCall(call[p]) /\ call[p].lot \in Lots
        /\ row \in [Lots -> SUBSET Fields] /\ call \in [Procs -> Calls]
    BY DEF TypeOK, Calling, GoodCall
  <2>2. PICK c \in Calls :
          c = IF label = "idle" THEN Idle
              ELSE [call[p] EXCEPT !.pc = label, !.seen = @ \cup adds]
    BY <2>1 DEF Calls, Idle
  <2>3. row' = [row EXCEPT ![call[p].lot] = @ \cup adds]
    BY <1>2 DEF Save
  <2>4. call' = [q \in Procs |->
          IF q = p THEN c
          ELSE IF call[q].lot = call[p].lot THEN [call[q] EXCEPT !.fresh = FALSE] ELSE call[q]]
    BY <1>2, <2>2 DEF Save
  <2>5. /\ row' \in [Lots -> SUBSET Fields]
        /\ row'[call[p].lot] = row[call[p].lot] \cup adds
        /\ \A m \in Lots : m # call[p].lot => row'[m] = row[m]
    BY <2>1, <2>3
  <2>6. /\ call'[p] = c
        /\ \A q \in Procs \ {p} :
             call'[q] = IF call[q].lot = call[p].lot THEN [call[q] EXCEPT !.fresh = FALSE] ELSE call[q]
    BY <2>4
  <2>7. \A q \in Procs : [call[q] EXCEPT !.fresh = FALSE] \in Calls
                         /\ ~[call[q] EXCEPT !.fresh = FALSE].fresh
    BY <2>1 DEF Calls
  <2>8. call' \in [Procs -> Calls]
    BY <2>1, <2>4, <2>7
  <2>9. c.pc # "idle" => GoodCall(call[p])'
    <3>1. /\ c.pc = IF label = "idle" THEN "idle" ELSE label
          /\ label # "idle" => /\ c.lot = call[p].lot /\ c.seen = call[p].seen \cup adds
                               /\ "row" \in c.seen
      BY <1>2, <2>1, <2>2 DEF Calls, Idle, GoodCall
    <3>2. label # "idle" => row'[c.lot] = c.seen
      BY <1>2, <2>1, <2>5, <3>1 DEF GoodCall
    <3>3. label # "idle" => GoodCall(c)'
      BY <2>1, <3>1, <3>2 DEF GoodCall
    <3>4. QED
      BY <2>6, <3>1, <3>3 DEF GoodCall
  <2>10. c.pc # "reserved"
    BY <2>1, <2>2 DEF Idle, Calls
  <2>11. /\ \A m \in Lots : row[m] \subseteq row'[m]
         /\ \A q \in Procs \ {p} : \/ call'[q] = call[q]
                                   \/ call'[q] = [call[q] EXCEPT !.fresh = FALSE]
    BY <2>5, <2>6
  <2>12. ASSUME NEW q \in Procs \ {p}, call[q].pc \notin {"idle", "verifying"}, call'[q].fresh
         PROVE  row'[call[q].lot] = row[call[q].lot]
    <3>1. call[q].lot \in Lots
      BY <2>12 DEF Calling, GoodCall
    <3>2. call[q].lot # call[p].lot
      BY <2>6, <2>7, <2>12
    <3>3. QED
      BY <2>5, <3>1, <3>2
  <2>13. Calling'
    BY <2>6, <2>9, <2>10, <2>11, <2>12, CallingKeeps
  <2>14. QED
    BY <1>2, <2>5, <2>8, <2>13
<1>3. QED
  BY <1>1, <1>2

\* A step of the calls and their phases that writes no row and sends nothing.
LEMMA CallStep ==
  ASSUME IInv, UNCHANGED <<journal, signer, chain, sends, row, prep, remote>>,
         Calling', call' \in [Procs -> Calls],
         asks' \subseteq Asks, Asked', faults' \in Nat, phase' \in [Lots -> Phases],
         \A l \in Lots : phase'[l] = "sold" => phase[l] = "sold" \/ "order" \in row[l]
  PROVE  IInv'
<1>1. TypeOK'
  BY DEF IInv, TypeOK, JournalTypeOK, remote
<1>2. Signing'
  BY DEF IInv, Signing, Signed, Broadcasting, remote
<1>3. Booked'
  BY DEF IInv, Booked, remote
<1>4. QED
  BY <1>1, <1>2, <1>3 DEF IInv

\* A step that writes a row, which the exchange or the phases may follow.
LEMMA RowStep ==
  ASSUME IInv, UNCHANGED <<journalVars, faults, prep, bridged, credited>>,
         Calling', call' \in [Procs -> Calls], row' \in [Lots -> SUBSET Fields],
         phase' \in [Lots -> Phases], sells' \in [Lots -> Nat],
         exchange' \in [Lots -> {"none", "flying", "placed", "lost"}], Booked'
  PROVE  IInv'
<1>1. TypeOK'
  BY DEF IInv, TypeOK, JournalTypeOK, journalVars
<1>2. Signing'
  BY DEF IInv, Signing, Asked, Signed, Broadcasting, journalVars
<1>3. QED
  BY <1>1, <1>2 DEF IInv

\* The phase a reconciling call earned.
LEMMA AdvanceKeeps ==
  ASSUME IInv, NEW l \in Lots, NEW from \in Phases, NEW to \in Phases, Advance(l, from, to)
  PROVE  /\ phase' \in [Lots -> Phases]
         /\ \A m \in Lots : phase'[m] = phase[m] \/ (m = l /\ phase'[m] = to)
<1>1. phase \in [Lots -> Phases]
  BY DEF IInv, TypeOK
<1>2. PICK v \in {phase[l], to} : phase' = [phase EXCEPT ![l] = v]
  BY DEF Advance
<1>3. QED
  BY <1>1, <1>2

LEMMA AtOnce ==
  ASSUME IInv, NEW p \in Procs, call[p].pc # "idle"
  PROVE  /\ GoodCall(call[p]) /\ call[p] \in Calls /\ call[p].lot \in Lots
         /\ row[call[p].lot] \subseteq Fields /\ call[p].seen \subseteq row[call[p].lot]
         /\ call[p].pc # "verifying" => "row" \in row[call[p].lot]
BY DEF IInv, TypeOK, Calling, GoodCall

LEMMA DepositKeeps ==
  ASSUME IInv, NEW p \in Procs, NEW l \in Lots, Deposit(p, l)
  PROVE  IInv'
<1>1. /\ phase' = [phase EXCEPT ![l] = "depositing"] /\ Reads(p, l, "verifying")
      /\ UNCHANGED <<journal, signer, asks, chain, sends, faults, row, prep, remote>>
      /\ UNCHANGED bridged
  BY DEF Deposit, journalVars, remote
<1>2. GoodCall([pc |-> "verifying", lot |-> l, seen |-> row[l], fresh |-> TRUE])
  <2>1. PICK c : c = [pc |-> "verifying", lot |-> l, seen |-> row[l], fresh |-> TRUE]
    OBVIOUS
  <2>2. GoodCall(c)
    BY <2>1 DEF GoodCall
  <2>3. QED
    BY <2>1, <2>2
<1>3. "verifying" \in Awaits
  BY DEF Awaits
<1>4. Calling' /\ call' \in [Procs -> Calls]
  BY <1>1, <1>2, <1>3, ReadsKeeps
<1>5. /\ phase' \in [Lots -> Phases]
      /\ \A m \in Lots : phase'[m] = "sold" => phase[m] = "sold"
  BY <1>1 DEF IInv, TypeOK, Phases
<1>6. Asked' /\ asks' \subseteq Asks /\ faults' \in Nat
  BY <1>1 DEF IInv, TypeOK, JournalTypeOK, Signing, Asked
<1>7. QED
  BY <1>1, <1>4, <1>5, <1>6, CallStep

\* The reservation is new: whoever reserved before left a row.
LEMMA ReserveKeeps ==
  ASSUME IInv, NEW p \in Procs, Reserve(p)
  PROVE  IInv'
<1> DEFINE l == call[p].lot
<1>0. /\ call[p].pc = "verifying" /\ GoodCall(call[p]) /\ call[p] \in Calls /\ l \in Lots
      /\ UNCHANGED <<journalVars, faults, phase, prep, remote>>
      /\ UNCHANGED <<journal, signer, asks, chain, sends, bridged, credited, exchange, sells>>
  BY AtOnce DEF Reserve, journalVars, remote
<1>1. CASE row[l] = {}
  <2>1. /\ row' = [row EXCEPT ![l] = {"row"}]
        /\ call' = [call EXCEPT ![p] = [@ EXCEPT !.pc = "reserved", !.seen = {"row"}, !.fresh = TRUE]]
    BY <1>1 DEF Reserve
  <2>2. /\ row' \in [Lots -> SUBSET Fields] /\ row'[l] = {"row"}
        /\ \A m \in Lots : m # l => row'[m] = row[m]
    BY <1>0, <2>1 DEF IInv, TypeOK, Fields
  <2>3. /\ call' \in [Procs -> Calls] /\ \A q \in Procs \ {p} : call'[q] = call[q]
        /\ call'[p].pc = "reserved" /\ call'[p].lot = l /\ call'[p].seen = {"row"}
    BY <1>0, <2>1 DEF IInv, TypeOK, Calls, Fields, Between
  <2>4. l \notin prep /\ sends[l] = 0
    BY <1>0, <1>1 DEF IInv, Booked, TypeOK, JournalTypeOK
  <2>5. ASSUME NEW q \in Procs, call[q].pc \notin {"idle", "verifying"}
        PROVE  call[q].lot \in Lots /\ call[q].lot # l
    BY <1>1, <2>5 DEF IInv, Calling, GoodCall
  <2>6. GoodCall(call[p])'
    BY <1>0, <2>2, <2>3, <2>4 DEF GoodCall
  <2>7. \A m \in Lots : row[m] \subseteq row'[m]
    BY <1>1, <2>2
  <2>8. Calling'
    BY <1>0, <2>2, <2>3, <2>5, <2>6, <2>7, CallingKeeps
  <2>9. Booked'
    BY <1>0, <1>1, <2>2 DEF IInv, Booked
  <2>10. phase' \in [Lots -> Phases] /\ sells' \in [Lots -> Nat]
         /\ exchange' \in [Lots -> {"none", "flying", "placed", "lost"}]
    BY <1>0 DEF IInv, TypeOK
  <2>11. QED
    BY <1>0, <2>2, <2>3, <2>8, <2>9, <2>10, RowStep
<1>2. CASE row[l] # {}
  <2>1. Done(p) /\ UNCHANGED row
    BY <1>2 DEF Reserve
  <2>2. Calling' /\ call' \in [Procs -> Calls]
    BY <1>0, <2>1, DoneKeeps
  <2>3. /\ Asked' /\ asks' \subseteq Asks /\ faults' \in Nat
        /\ phase' \in [Lots -> Phases] /\ phase' = phase
    BY <1>0 DEF IInv, TypeOK, JournalTypeOK, Signing, Asked
  <2>4. QED
    BY <1>0, <2>1, <2>2, <2>3, CallStep
<1>3. QED
  BY <1>1, <1>2

\* Nobody prepared the lot, so nobody signed for it and nothing was sent.
LEMMA SignKeeps ==
  ASSUME IInv, NEW p \in Procs, call[p].pc \in {"reserved", "resuming"},
         call[p].lot \notin bridged \cup prep, Sign(p), UNCHANGED <<faults, phase, remote>>
  PROVE  IInv'
<1>l. PICK l \in Lots : l = call[p].lot
  BY AtOnce
<1>0. /\ GoodCall(call[p]) /\ call[p] \in Calls /\ l = call[p].lot /\ "row" \in row[l]
      /\ Signing /\ Signed(l) /\ JournalTypeOK /\ sends[l] \in Nat
      /\ UNCHANGED <<bridged, credited, exchange, sells>>
  BY <1>l, AtOnce DEF IInv, Signing, TypeOK, JournalTypeOK, remote
<1>1. /\ prep' = prep \cup {l}
      /\ signer' = [signer EXCEPT ![l] = [at |-> p, pc |-> "preparing", val |-> "none"]]
      /\ Goto(p, "sending") /\ UNCHANGED <<row, journal, asks, chain, sends>>
  BY <1>l DEF Sign
<1>2. /\ signer' \in [Lots -> Signers] /\ signer'[l].pc = "preparing" /\ signer'[l].at = p
      /\ \A m \in Lots : m # l => signer'[m] = signer[m]
  BY <1>0, <1>1 DEF JournalTypeOK, Signers
<1>3. Calling' /\ call' \in [Procs -> Calls]
  <2>1. "sending" \in Awaits /\ GoodCall([call[p] EXCEPT !.pc = "sending"])
    <3>1. PICK c \in Calls : c = [call[p] EXCEPT !.pc = "sending"]
      BY <1>0 DEF Calls, Awaits
    <3>2. c.pc = "sending" /\ c.lot = l /\ c.seen = call[p].seen /\ (c.fresh => call[p].fresh)
      BY <1>0, <3>1 DEF Calls
    <3>3. GoodCall(c)
      BY <1>0, <3>2 DEF GoodCall
    <3>4. QED
      BY <3>1, <3>3 DEF Awaits
  <2>2. QED
    BY <1>0, <1>1, <2>1, GotoKeeps
<1>4. Signing'
  <2>1. Signed(l)'
    BY <1>0, <1>1, <1>2 DEF Signed, Broadcasting
  <2>2. ASSUME NEW m \in Lots, m # l PROVE Signed(m)'
    BY <1>0, <1>1, <1>2, <2>2 DEF Signing, Signed, Broadcasting
  <2>3. Asked'
    BY <1>0, <1>1 DEF Signing, Asked
  <2>4. QED
    BY <2>1, <2>2, <2>3 DEF Signing
<1>5. TypeOK'
  BY <1>0, <1>1, <1>2, <1>3 DEF IInv, TypeOK, JournalTypeOK
<1>6. Booked'
  BY <1>0, <1>1 DEF IInv, Booked
<1>7. QED
  BY <1>3, <1>4, <1>5, <1>6 DEF IInv

\* The bridge is asked by the one call that reserved.
LEMMA BridgeSendsKeeps ==
  ASSUME IInv, NEW p \in Procs, call[p].pc = "reserved", call[p].lot \in bridged,
         BridgeSends(p), UNCHANGED <<phase, remote>>
  PROVE  IInv'
<1> DEFINE l == call[p].lot
<1>0. /\ GoodCall(call[p]) /\ call[p] \in Calls /\ l \in Lots /\ "row" \in row[l]
      /\ Signing /\ Signed(l) /\ JournalTypeOK /\ sends[l] = 0 /\ l \notin prep
      /\ UNCHANGED <<bridged, credited, exchange, sells>>
      /\ UNCHANGED <<row, prep, journal, signer, asks>>
  BY AtOnce DEF IInv, Signing, TypeOK, remote, GoodCall, BridgeSends
<1>1. CASE Handed(l) /\ Goto(p, "sending") /\ UNCHANGED faults
  <2>1. /\ chain' \in [Lots -> {"unsent", "pending", "landed", "reverted", "expired"}]
        /\ sends' \in [Lots -> Nat] /\ sends'[l] = 1
        /\ \A m \in Lots : chain[m] = "landed" => chain'[m] = "landed"
        /\ \A m \in Lots : m # l => sends'[m] = sends[m]
    <3>1. PICK v \in {"unsent", "pending", "landed", "reverted", "expired"} :
            /\ chain' = [chain EXCEPT ![l] = v] /\ chain[l] = "landed" => v = "landed"
      BY <1>0, <1>1 DEF Handed, JournalTypeOK
    <3>2. QED
      BY <1>0, <1>1, <3>1 DEF Handed, JournalTypeOK
  <2>2. PICK c \in Calls : c = [call[p] EXCEPT !.pc = "sending"]
    BY <1>0 DEF Calls, Awaits
  <2>3. c.pc = "sending" /\ c.lot = l /\ c.seen = call[p].seen /\ (c.fresh => call[p].fresh)
    BY <1>0, <2>2 DEF Calls
  <2>4. call' \in [Procs -> Calls] /\ call'[p] = c /\ \A q \in Procs \ {p} : call'[q] = call[q]
    BY <1>1, <2>2 DEF Goto, IInv, TypeOK
  <2>5. GoodCall(call[p])'
    <3>1. /\ call'[p].pc = "sending" /\ call'[p].lot = l /\ call'[p].seen = call[p].seen
          /\ call'[p].fresh => call[p].fresh
      BY <2>3, <2>4
    <3>2. QED
      BY <1>0, <3>1 DEF GoodCall
  <2>6. ASSUME NEW q \in Procs \ {p}, call[q].pc = "reserved"
        PROVE  sends'[call[q].lot] = sends[call[q].lot]
    BY <2>1, <2>6 DEF IInv, Calling, GoodCall
  <2>7. Calling'
    <3>1. call'[p].pc # "reserved" /\ \A m \in Lots : row[m] \subseteq row'[m]
      BY <1>0, <2>3, <2>4
    <3>2. \A q \in Procs \ {p} : row'[call[q].lot] = row[call[q].lot]
      BY <1>0
    <3>3. QED
      BY <1>0, <2>4, <2>5, <2>6, <3>1, <3>2, CallingKeeps
  <2>8. \A m \in Lots : Signed(m)'
    BY <1>0, <2>1 DEF Signing, Signed, Broadcasting
  <2>9. Asked' /\ JournalTypeOK'
    BY <1>0, <1>1, <2>1 DEF Signing, Asked, JournalTypeOK
  <2>10. TypeOK'
    BY <1>0, <2>4, <2>9 DEF IInv, TypeOK
  <2>11. Booked'
    BY <1>0, <2>1 DEF IInv, Booked
  <2>12. QED
    BY <2>7, <2>8, <2>9, <2>10, <2>11 DEF IInv, Signing
<1>2. CASE Fault /\ Done(p) /\ UNCHANGED <<chain, sends>>
  <2>1. Calling' /\ call' \in [Procs -> Calls]
    BY <1>0, <1>2, DoneKeeps
  <2>2. /\ Asked' /\ asks' \subseteq Asks /\ faults' \in Nat
        /\ phase' \in [Lots -> Phases] /\ phase' = phase
    BY <1>0, <1>2 DEF IInv, TypeOK, JournalTypeOK, Signing, Asked, Fault
  <2>3. QED
    BY <1>0, <1>2, <2>1, <2>2, CallStep
<1>3. QED
  BY <1>1, <1>2 DEF BridgeSends

\* A step that saves what the world has shown.
LEMMA SaveStep ==
  ASSUME IInv, NEW p \in Procs, NEW adds \in SUBSET Fields,
         NEW label \in {"idle"} \cup Awaits \cup Between, Save(p, adds, label),
         call[p].pc \notin {"idle", "verifying"}, label \notin {"reserved", "intending"},
         UNCHANGED <<journalVars, faults, prep, remote>>, phase' \in [Lots -> Phases],
         \A m \in Lots : phase'[m] = "sold" => phase[m] = "sold",
         "txn" \in adds => /\ call[p].lot \in credited
                           /\ call[p].lot \in bridged => "output" \in row[call[p].lot],
         "order" \in adds => exchange[call[p].lot] = "placed",
         label \in {"asking", "refreshing", "resuming"} => call[p].lot \notin bridged,
         label = "matching" /\ call[p].lot \in bridged => "output" \in call[p].seen \cup adds,
         label = "checking" => "order" \in call[p].seen \cup adds
  PROVE  IInv'
<1>1. /\ GoodCall(call[p]) /\ call[p] \in Calls /\ call[p].lot \in Lots
      /\ "row" \in row[call[p].lot]
      /\ UNCHANGED <<journal, signer, asks, chain, sends, bridged, credited, exchange, sells>>
  BY AtOnce DEF journalVars, remote
<1>2. /\ Calling' /\ call' \in [Procs -> Calls]
      /\ row' \in [Lots -> SUBSET Fields]
      /\ \A m \in Lots : m # call[p].lot => row'[m] = row[m]
      /\ row'[call[p].lot] = IF call[p].fresh THEN row[call[p].lot] \cup adds
                             ELSE row[call[p].lot]
  BY <1>1, SaveKeeps
<1>3. ASSUME NEW m \in Lots
      PROVE  /\ row[m] \subseteq row'[m]
             /\ "txn" \in row'[m] => m \in credited /\ (m \in bridged => "output" \in row'[m])
             /\ "order" \in row'[m] => exchange[m] = "placed"
             /\ row'[m] # {} => "row" \in row'[m]
    BY <1>1, <1>2 DEF IInv, Booked
<1>4. Booked'
    BY <1>1, <1>3 DEF IInv, Booked
<1>5. sells' \in [Lots -> Nat] /\ exchange' \in [Lots -> {"none", "flying", "placed", "lost"}]
  BY <1>1 DEF IInv, TypeOK
<1>6. QED
  BY <1>1, <1>2, <1>4, <1>5, RowStep

\* The same call, when it ends instead.
LEMMA DoneStep ==
  ASSUME IInv, NEW p \in Procs, Done(p), UNCHANGED <<journalVars, faults, row, prep, remote>>,
         phase' \in [Lots -> Phases],
         \A m \in Lots : phase'[m] = "sold" => phase[m] = "sold" \/ "order" \in row[m]
  PROVE  IInv'
<1>1. UNCHANGED <<journal, signer, asks, chain, sends, bridged>>
  BY DEF journalVars, remote
<1>2. Calling' /\ call' \in [Procs -> Calls]
  BY <1>1, DoneKeeps
<1>3. Asked' /\ asks' \subseteq Asks /\ faults' \in Nat
  BY <1>1 DEF IInv, TypeOK, JournalTypeOK, Signing, Asked
<1>4. QED
  BY <1>1, <1>2, <1>3, CallStep

\* ... or goes on.
LEMMA GotoStep ==
  ASSUME IInv, NEW p \in Procs, NEW label \in Awaits \cup Between, Goto(p, label),
         UNCHANGED <<journalVars, faults, phase, row, prep, remote>>,
         call[p].pc \notin {"idle", "verifying"}, label # "reserved",
         GoodCall([call[p] EXCEPT !.pc = label])
  PROVE  IInv'
<1>1. UNCHANGED <<journal, signer, asks, chain, sends, bridged>>
  BY DEF journalVars, remote
<1>2. Calling' /\ call' \in [Procs -> Calls]
  BY <1>1, GotoKeeps
<1>3. Asked' /\ asks' \subseteq Asks /\ faults' \in Nat /\ phase' \in [Lots -> Phases]
  BY <1>1 DEF IInv, TypeOK, JournalTypeOK, Signing, Asked
<1>4. QED
  BY <1>1, <1>2, <1>3, CallStep

LEMMA SendKeeps ==
  ASSUME IInv, NEW p \in Procs, Send(p)
  PROVE  IInv'
<1>1. /\ call[p].pc = "reserved" /\ call[p].lot \in Lots
      /\ UNCHANGED <<phase, remote>>
  BY AtOnce DEF Send
<1>2. CASE call[p].lot \in bridged /\ BridgeSends(p)
  BY <1>1, <1>2, BridgeSendsKeeps
<1>3. CASE call[p].lot \notin bridged \cup prep /\ Sign(p) /\ UNCHANGED faults
  BY <1>1, <1>3, SignKeeps
<1>4. CASE /\ IF journal[call[p].lot] # "none" THEN Save(p, {"ref"}, "idle")
              ELSE Done(p) /\ UNCHANGED row
           /\ UNCHANGED <<prep, journalVars, faults>>
  <2>1. phase' \in [Lots -> Phases] /\ {"ref"} \in SUBSET Fields
    BY <1>1 DEF IInv, TypeOK, Fields
  <2>2. CASE Save(p, {"ref"}, "idle")
    BY <1>1, <1>4, <2>1, <2>2, SaveStep
  <2>3. CASE Done(p) /\ UNCHANGED row
    BY <1>1, <1>4, <2>1, <2>3, DoneStep
  <2>4. QED
    BY <1>4, <2>2, <2>3
<1>5. QED
  BY <1>2, <1>3, <1>4 DEF Send

LEMMA SentKeeps ==
  ASSUME IInv, NEW p \in Procs, Sent(p)
  PROVE  IInv'
<1>1. /\ call[p].pc = "sending" /\ UNCHANGED <<journalVars, faults, phase, prep, remote>>
      /\ phase' \in [Lots -> Phases] /\ {"ref"} \in SUBSET Fields
  BY DEF Sent, IInv, TypeOK, Fields
<1>2. CASE Save(p, {"ref"}, "idle")
  BY <1>1, <1>2, SaveStep
<1>3. CASE Done(p) /\ UNCHANGED row
  BY <1>1, <1>3, DoneStep
<1>4. QED
  BY <1>2, <1>3 DEF Sent

LEMMA ReconcileDepositKeeps ==
  ASSUME IInv, NEW p \in Procs, NEW l \in Lots, ReconcileDeposit(p, l)
  PROVE  IInv'
<1>0. /\ UNCHANGED <<journal, signer, chain, sends, faults, phase, row, prep, remote>>
      /\ UNCHANGED bridged
      /\ faults' \in Nat /\ phase' \in [Lots -> Phases]
  BY DEF ReconcileDeposit, remote, IInv, TypeOK, JournalTypeOK
<1>1. ASSUME NEW label \in Awaits, Reads(p, l, label), asks' \subseteq Asks, Asked',
             label # "verifying" => row[l] # {},
             label = "matching" \/ label = "asking" \/ label = "refreshing" => l \notin bridged,
             label \in {"verifying", "bridging", "asking", "refreshing", "matching"}
      PROVE  IInv'
  <2>1. "row" \in row[l] \/ label = "verifying"
    BY <1>1 DEF IInv, Booked
  <2>2. PICK c : c = [pc |-> label, lot |-> l, seen |-> row[l], fresh |-> TRUE]
    OBVIOUS
  <2>3. GoodCall(c)
    BY <1>1, <2>1, <2>2 DEF GoodCall
  <2>4. Calling' /\ call' \in [Procs -> Calls]
    BY <1>0, <1>1, <2>2, <2>3, ReadsKeeps
  <2>5. QED
    BY <1>0, <1>1, <2>4, CallStep
<1>2. UNCHANGED asks => asks' \subseteq Asks /\ Asked'
  BY <1>0 DEF IInv, TypeOK, JournalTypeOK, Signing, Asked
<1>3. CASE row[l] = {} /\ Reads(p, l, "verifying") /\ UNCHANGED asks
  BY <1>1, <1>2, <1>3 DEF Awaits
<1>4. CASE row[l] # {} /\ l \in bridged /\ Reads(p, l, "bridging") /\ UNCHANGED asks
  BY <1>1, <1>2, <1>4 DEF Awaits
<1>5. CASE /\ row[l] # {} /\ l \notin bridged
           /\ Proved(l, row[l]) # "idle" /\ Reads(p, l, Proved(l, row[l])) /\ UNCHANGED asks
  <2>1. PICK label \in {"matching", "refreshing"} : label = Proved(l, row[l])
    BY <1>5 DEF Proved, Unproved
  <2>2. QED
    BY <1>1, <1>2, <1>5, <2>1 DEF Awaits
<1>6. CASE /\ row[l] # {} /\ journal[l] \in Unresolved
           /\ Reads(p, l, "asking") /\ asks' = asks \cup {Ask(l, p, "call")}
  <2>1. l \in prep /\ l \notin bridged
    BY <1>6 DEF IInv, Signing, Signed, TypeOK, Unresolved
  <2>2. Ask(l, p, "call") \in Asks /\ Ask(l, p, "call").val = "unknown" /\ Ask(l, p, "call").lot = l
    BY DEF Ask, Asks, States, Unresolved
  <2>3. asks' \subseteq Asks /\ Asked'
    BY <1>0, <1>6, <2>1, <2>2 DEF IInv, TypeOK, JournalTypeOK, Signing, Asked
  <2>4. QED
    BY <1>1, <1>6, <2>1, <2>3 DEF Awaits
<1>7. QED
  BY <1>3, <1>4, <1>5, <1>6 DEF ReconcileDeposit

LEMMA ToldKeeps ==
  ASSUME IInv, NEW p \in Procs, Told(p)
  PROVE  IInv'
<1>0. /\ call[p].pc = "asking" /\ GoodCall(call[p]) /\ call[p] \in Calls
      /\ UNCHANGED <<journal, signer, chain, sends, faults, phase, row, prep, remote>>
      /\ UNCHANGED bridged /\ faults' \in Nat /\ phase' \in [Lots -> Phases]
  BY AtOnce DEF Told, remote, IInv, TypeOK, JournalTypeOK
<1>1. PICK a \in asks, next \in {"idle", "matching", "refreshing"} :
        /\ asks' = asks \ {a}
        /\ IF next = "idle" THEN Done(p) ELSE Goto(p, next)
  BY DEF Told, Unproved
<1>2. asks' \subseteq Asks /\ Asked'
  BY <1>0, <1>1 DEF IInv, TypeOK, JournalTypeOK, Signing, Asked
<1>3. CASE next = "idle"
  <2>1. Calling' /\ call' \in [Procs -> Calls]
    BY <1>0, <1>1, <1>3, DoneKeeps
  <2>2. QED
    BY <1>0, <1>2, <2>1, CallStep
<1>4. CASE next # "idle"
  <2>1. PICK c \in Calls : c = [call[p] EXCEPT !.pc = next]
    BY <1>0, <1>4 DEF Calls, Awaits
  <2>2. /\ c.pc = next /\ c.lot = call[p].lot /\ c.seen = call[p].seen
        /\ c.fresh => call[p].fresh
    BY <1>0, <2>1 DEF Calls
  <2>3. GoodCall(c)
    BY <1>0, <1>4, <2>2 DEF GoodCall
  <2>4. Calling' /\ call' \in [Procs -> Calls]
    BY <1>0, <1>1, <1>4, <2>1, <2>3, GotoKeeps DEF Awaits
  <2>5. QED
    BY <1>0, <1>2, <2>4, CallStep
<1>5. QED
  BY <1>3, <1>4

LEMMA BridgeToldKeeps ==
  ASSUME IInv, NEW p \in Procs, BridgeTold(p)
  PROVE  IInv'
<1>0. /\ call[p].pc = "bridging" /\ GoodCall(call[p]) /\ call[p] \in Calls /\ call[p].lot \in Lots
      /\ UNCHANGED <<journalVars, faults, phase, prep, remote>> /\ UNCHANGED <<bridged, sends>>
      /\ phase' \in [Lots -> Phases]
  BY AtOnce DEF BridgeTold, remote, journalVars, IInv, TypeOK
<1>1. CASE Done(p) /\ UNCHANGED row
  BY <1>0, <1>1, DoneStep
<1>2. CASE "output" \in call[p].seen /\ Goto(p, "matching") /\ UNCHANGED row
  <2>1. PICK c \in Calls : c = [call[p] EXCEPT !.pc = "matching"]
    BY <1>0 DEF Calls, Awaits
  <2>2. /\ c.pc = "matching" /\ c.lot = call[p].lot /\ c.seen = call[p].seen
        /\ c.fresh => call[p].fresh
    BY <1>0, <2>1 DEF Calls
  <2>3. GoodCall(c)
    BY <1>0, <1>2, <2>2 DEF GoodCall
  <2>4. QED
    BY <1>0, <1>2, <2>1, <2>3, GotoStep DEF Awaits
<1>3. CASE Save(p, {"output"}, "matching")
  BY <1>0, <1>3, SaveStep DEF Awaits, Fields
<1>4. QED
  BY <1>1, <1>2, <1>3 DEF BridgeTold

LEMMA RefreshKeeps ==
  ASSUME IInv, NEW p \in Procs, Refresh(p)
  PROVE  IInv'
<1>1. /\ call[p].pc = "refreshing" /\ GoodCall(call[p]) /\ Save(p, {}, "resuming")
      /\ UNCHANGED <<journalVars, faults, phase, prep, remote>>
      /\ phase' \in [Lots -> Phases]
  BY AtOnce DEF Refresh, IInv, TypeOK
<1>2. call[p].lot \notin bridged /\ "resuming" \in Between
  BY <1>1 DEF GoodCall, Between
<1>3. QED
  BY <1>1, <1>2, SaveStep

LEMMA ResumeKeeps ==
  ASSUME IInv, NEW p \in Procs, Resume(p)
  PROVE  IInv'
<1>1. call[p].pc = "resuming" /\ GoodCall(call[p]) /\ UNCHANGED <<faults, phase, remote>>
      /\ phase' \in [Lots -> Phases]
  BY AtOnce DEF Resume, IInv, TypeOK
<1>2. CASE call[p].lot \notin prep /\ Sign(p)
  <2>1. call[p].lot \notin bridged
    BY <1>1 DEF GoodCall
  <2>2. QED
    BY <1>1, <1>2, <2>1, SignKeeps
<1>3. CASE Done(p) /\ UNCHANGED <<row, prep, journalVars>>
  BY <1>1, <1>3, DoneStep
<1>4. QED
  BY <1>2, <1>3 DEF Resume

LEMMA MatchKeeps ==
  ASSUME IInv, NEW p \in Procs, Match(p)
  PROVE  IInv'
<1>1. /\ call[p].pc = "matching" /\ GoodCall(call[p]) /\ call[p].lot \in Lots
      /\ UNCHANGED <<journalVars, faults, prep, remote>>
  BY AtOnce DEF Match
<1>2. phase' \in [Lots -> Phases] /\ \A m \in Lots : phase'[m] = "sold" => phase[m] = "sold"
  <2>1. CASE Advance(call[p].lot, "depositing", "deposited")
    BY <1>1, <2>1, AdvanceKeeps DEF Phases
  <2>2. CASE UNCHANGED phase
    BY <2>2 DEF IInv, TypeOK
  <2>3. QED
    BY <2>1, <2>2 DEF Match
<1>3. CASE Done(p) /\ UNCHANGED row
  BY <1>1, <1>2, <1>3, DoneStep
<1>4. CASE call[p].lot \in credited /\ Save(p, {"txn"}, "idle")
  <2>1. call[p].lot \in bridged => "output" \in row[call[p].lot]
    BY <1>1 DEF GoodCall
  <2>2. QED
    BY <1>1, <1>2, <1>4, <2>1, SaveStep DEF Fields
<1>5. QED
  BY <1>3, <1>4 DEF Match

LEMMA ConvertKeeps ==
  ASSUME IInv, NEW p \in Procs, NEW l \in Lots, Convert(p, l)
  PROVE  IInv'
<1>1. /\ call[p].pc = "idle" /\ phase' = [phase EXCEPT ![l] = "converting"]
      /\ UNCHANGED <<journal, signer, asks, chain, sends, faults, row, prep, remote>>
      /\ UNCHANGED <<journalVars, bridged>>
  BY DEF Convert, journalVars, remote
<1>2. /\ phase' \in [Lots -> Phases] /\ \A m \in Lots : phase'[m] = "sold" => phase[m] = "sold"
      /\ Asked' /\ asks' \subseteq Asks /\ faults' \in Nat
  BY <1>1 DEF IInv, TypeOK, Phases, JournalTypeOK, Signing, Asked
<1>3. CASE "txn" \in row[l] /\ {"sale", "order"} \cap row[l] = {} /\ Reads(p, l, "intending")
  <2>1. PICK c : c = [pc |-> "intending", lot |-> l, seen |-> row[l], fresh |-> TRUE]
    OBVIOUS
  <2>2. "row" \in row[l]
    BY <1>3 DEF IInv, Booked
  <2>3. GoodCall(c)
    BY <1>3, <2>1, <2>2 DEF GoodCall
  <2>4. Calling' /\ call' \in [Procs -> Calls]
    BY <1>1, <1>3, <2>1, <2>3, ReadsKeeps DEF Between
  <2>5. QED
    BY <1>1, <1>2, <2>4, CallStep
<1>4. CASE UNCHANGED call
  <2>1. Calling' /\ call' \in [Procs -> Calls]
    BY <1>1, <1>4 DEF IInv, TypeOK, Calling, GoodCall
  <2>2. QED
    BY <1>1, <1>2, <2>1, CallStep
<1>5. QED
  BY <1>3, <1>4 DEF Convert

\* The intent is stored by a call that saw no other, and one call's stored payload
\* makes every other stale: the sell request leaves once.
LEMMA IntendKeeps ==
  ASSUME IInv, NEW p \in Procs, Intend(p)
  PROVE  IInv'
<1>l. PICK l \in Lots : l = call[p].lot
  BY AtOnce DEF Intend
<1>1. /\ call[p].pc = "intending" /\ GoodCall(call[p]) /\ call[p] \in Calls
      /\ Save(p, {"sale"}, "selling")
      /\ UNCHANGED <<journalVars, faults, phase, prep, bridged, credited>>
      /\ UNCHANGED <<journal, signer, asks, chain, sends>>
      /\ phase' \in [Lots -> Phases]
  BY AtOnce DEF Intend, journalVars, IInv, TypeOK
<1>2. /\ Calling' /\ call' \in [Procs -> Calls]
      /\ row' \in [Lots -> SUBSET Fields]
      /\ \A m \in Lots : m # l => row'[m] = row[m]
      /\ row'[l] = IF call[p].fresh THEN row[l] \cup {"sale"} ELSE row[l]
  BY <1>l, <1>1, SaveKeeps DEF Awaits, Fields
<1>3. CASE call[p].fresh
  <2>1. /\ sells' = [sells EXCEPT ![l] = @ + 1] /\ exchange' = [exchange EXCEPT ![l] = "flying"]
    BY <1>l, <1>3 DEF Intend
  <2>2. /\ sells' \in [Lots -> Nat] /\ sells'[l] = sells[l] + 1
        /\ \A m \in Lots : m # l => sells'[m] = sells[m] /\ exchange'[m] = exchange[m]
        /\ exchange' \in [Lots -> {"none", "flying", "placed", "lost"}] /\ exchange'[l] = "flying"
    BY <2>1 DEF IInv, TypeOK
  <2>3. {"row", "txn"} \subseteq row[l] /\ "sale" \notin row[l]
    BY <1>l, <1>1, <1>3 DEF GoodCall
  <2>4. sells[l] = 0 /\ exchange[l] = "none"
    BY <2>3 DEF IInv, Booked, TypeOK
  <2>5. "order" \notin row[l]
    BY <2>4 DEF IInv, Booked
  <2>6. /\ row'[l] = row[l] \cup {"sale"} /\ sells'[l] = 1
        /\ \A m \in Lots : m # l => row'[m] = row[m]
    BY <1>2, <1>3, <2>2, <2>4
  <2>7. Booked'
    BY <1>1, <2>2, <2>3, <2>5, <2>6 DEF IInv, Booked
  <2>8. QED
    BY <1>1, <1>2, <2>2, <2>7, RowStep
<1>4. CASE ~call[p].fresh
  <2>1. UNCHANGED <<sells, exchange>>
    BY <1>4 DEF Intend
  <2>2. \A m \in Lots : row'[m] = row[m]
    BY <1>2, <1>4
  <2>3. Booked'
    BY <1>1, <2>1, <2>2 DEF IInv, Booked
  <2>4. /\ sells' \in [Lots -> Nat]
        /\ exchange' \in [Lots -> {"none", "flying", "placed", "lost"}]
    BY <2>1 DEF IInv, TypeOK
  <2>5. QED
    BY <1>1, <1>2, <2>3, <2>4, RowStep
<1>5. QED
  BY <1>3, <1>4

LEMMA SoldKeeps ==
  ASSUME IInv, NEW p \in Procs, Sold(p)
  PROVE  IInv'
<1>1. /\ call[p].pc = "selling" /\ UNCHANGED <<journalVars, faults, phase, prep, remote>>
      /\ phase' \in [Lots -> Phases] /\ {"order"} \in SUBSET Fields
  BY DEF Sold, IInv, TypeOK, Fields
<1>2. CASE exchange[call[p].lot] = "placed" /\ Save(p, {"order"}, "idle")
  BY <1>1, <1>2, SaveStep
<1>3. CASE Done(p) /\ UNCHANGED row
  BY <1>1, <1>3, DoneStep
<1>4. QED
  BY <1>2, <1>3 DEF Sold

LEMMA ReconcileConversionKeeps ==
  ASSUME IInv, NEW p \in Procs, NEW l \in Lots, ReconcileConversion(p, l)
  PROVE  IInv'
<1>1. /\ "txn" \in row[l]
      /\ UNCHANGED <<journal, signer, asks, chain, sends, faults, phase, row, prep, remote>>
      /\ UNCHANGED bridged
  BY DEF ReconcileConversion, journalVars, remote
<1>2. PICK label \in {"intending", "finding", "checking"} :
        /\ label = "intending" => "sale" \notin row[l]
        /\ label = "checking" => "order" \in row[l]
        /\ Reads(p, l, label)
  BY DEF ReconcileConversion
<1>3. PICK c : c = [pc |-> label, lot |-> l, seen |-> row[l], fresh |-> TRUE]
  OBVIOUS
<1>4. "row" \in row[l]
  BY <1>1 DEF IInv, Booked
<1>5. GoodCall(c)
  BY <1>1, <1>2, <1>3, <1>4 DEF GoodCall
<1>6. Calling' /\ call' \in [Procs -> Calls]
  BY <1>1, <1>2, <1>3, <1>5, ReadsKeeps DEF Between, Awaits
<1>7. Asked' /\ asks' \subseteq Asks /\ faults' \in Nat /\ phase' \in [Lots -> Phases]
  BY <1>1 DEF IInv, TypeOK, JournalTypeOK, Signing, Asked
<1>8. QED
  BY <1>1, <1>6, <1>7, CallStep

LEMMA FindKeeps ==
  ASSUME IInv, NEW p \in Procs, Find(p)
  PROVE  IInv'
<1>1. /\ call[p].pc = "finding" /\ UNCHANGED <<journalVars, faults, phase, prep, remote>>
      /\ phase' \in [Lots -> Phases] /\ {"order"} \in SUBSET Fields /\ "checking" \in Awaits
  BY DEF Find, IInv, TypeOK, Fields, Awaits
<1>2. CASE exchange[call[p].lot] = "placed" /\ Save(p, {"order"}, "checking")
  BY <1>1, <1>2, SaveStep
<1>3. CASE Done(p) /\ UNCHANGED row
  BY <1>1, <1>3, DoneStep
<1>4. QED
  BY <1>2, <1>3 DEF Find

LEMMA CheckKeeps ==
  ASSUME IInv, NEW p \in Procs, Check(p)
  PROVE  IInv'
<1>1. /\ call[p].pc = "checking" /\ GoodCall(call[p]) /\ call[p].lot \in Lots
      /\ Advance(call[p].lot, "converting", "sold") /\ Done(p)
      /\ UNCHANGED <<journalVars, faults, row, prep, remote>>
  BY AtOnce DEF Check
<1>2. "order" \in row[call[p].lot]
  BY <1>1 DEF GoodCall
<1>3. /\ phase' \in [Lots -> Phases]
      /\ \A m \in Lots : phase'[m] = phase[m] \/ m = call[p].lot
  BY <1>1, AdvanceKeeps DEF Phases
<1>4. \A m \in Lots : phase'[m] = "sold" => phase[m] = "sold" \/ "order" \in row[m]
  BY <1>2, <1>3
<1>5. QED
  BY <1>1, <1>3, <1>4, DoneStep

\* What nobody awaits any more is of the same transactions.
LEMMA HoldKeeps ==
  ASSUME IInv, NEW p \in Procs, Hold(p)
  PROVE  IInv'
<1>1. /\ Done(p) /\ faults' = faults + 1
      /\ UNCHANGED <<journal, signer, chain, sends, phase, row, prep, remote>> /\ UNCHANGED bridged
      /\ faults' \in Nat /\ phase' \in [Lots -> Phases]
  BY DEF Hold, Fault, IInv, TypeOK, JournalTypeOK, remote
<1>2. ASSUME NEW b \in asks' PROVE b \in Asks /\ b.lot \in prep /\ b.val # "prepared"
  <2>1. PICK a \in asks : b = a \/ b = [a EXCEPT !.who = "late"]
    BY <1>2 DEF Hold
  <2>2. a \in Asks /\ a.lot \in prep /\ a.val # "prepared"
    BY DEF IInv, TypeOK, JournalTypeOK, Signing, Asked
  <2>3. QED
    BY <2>1, <2>2 DEF Asks
<1>3. asks' \subseteq Asks /\ Asked'
  BY <1>1, <1>2 DEF Asked
<1>4. Calling' /\ call' \in [Procs -> Calls]
  BY <1>1, DoneKeeps
<1>5. QED
  BY <1>1, <1>3, <1>4, CallStep

\* The calls and dispatches of a process end with it, what they stored does not.
LEMMA CrashKeeps ==
  ASSUME IInv, NEW p \in Procs, Crash(p)
  PROVE  IInv'
<1>1. /\ signer' = [l \in Lots |->
           IF signer[l].at = p /\ signer[l].pc \notin {"returned", "raised"}
           THEN [signer[l] EXCEPT !.pc = "dead"] ELSE signer[l]]
      /\ asks' = {a \in asks : a.at # p} /\ faults' = faults + 1 /\ Done(p)
      /\ UNCHANGED <<journal, chain, sends, phase, row, prep>>
      /\ UNCHANGED <<bridged, credited, exchange, sells>>
  BY DEF Crash, JournalCrash, Fault, remote
<1>2. Calling' /\ call' \in [Procs -> Calls]
  BY <1>1, DoneKeeps
<1>3. Asked' /\ asks' \subseteq Asks
  BY <1>1 DEF IInv, TypeOK, JournalTypeOK, Signing, Asked
<1>4. ASSUME NEW l \in Lots
      PROVE  /\ signer'[l] \in Signers
             /\ Signed(l)'
  <2>1. /\ signer[l] \in Signers /\ Signed(l)
        /\ signer'[l] = IF signer[l].at = p /\ signer[l].pc \notin {"returned", "raised"}
                        THEN [signer[l] EXCEPT !.pc = "dead"] ELSE signer[l]
    BY <1>1 DEF IInv, TypeOK, JournalTypeOK, Signing
  <2>2. CASE signer'[l] = signer[l]
    BY <1>1, <2>1, <2>2 DEF Signed, Broadcasting
  <2>3. CASE signer[l].at = p /\ signer'[l] = [signer[l] EXCEPT !.pc = "dead"]
    <3>1. signer[l].pc # "no"
      BY <2>1, <2>3, JournalAssumption DEF Signed
    <3>2. QED
      BY <1>1, <2>1, <2>3, <3>1 DEF Signers, Signed, Broadcasting
  <2>4. QED
    BY <2>1, <2>2, <2>3
<1>5. TypeOK'
  <2>1. signer' \in [Lots -> Signers]
    BY <1>1, <1>4
  <2>2. QED
    BY <1>1, <1>2, <1>3, <2>1 DEF IInv, TypeOK, JournalTypeOK
<1>6. Booked'
  BY <1>1 DEF IInv, Booked
<1>7. QED
  BY <1>2, <1>3, <1>4, <1>5, <1>6 DEF IInv, Signing

-----------------------------------------------------------------------------
\* The exchange.

LEMMA ExchangeKeeps ==
  ASSUME IInv, NEW l \in Lots, Credit(l) \/ Exchange(l) \/ RequestLost(l)
  PROVE  IInv'
<1>1. /\ UNCHANGED <<journal, signer, asks, chain, sends, phase, row, prep, call, bridged, sells>>
      /\ faults' \in {faults, faults + 1}
  BY DEF Credit, Exchange, RequestLost, Fault, journalVars
<1>2. Calling'
  BY <1>1 DEF IInv, Calling, GoodCall
<1>3. Signing'
  BY <1>1 DEF IInv, Signing, Asked, Signed, Broadcasting
<1>4. CASE chain[l] = "landed" /\ credited' = credited \cup {l} /\ UNCHANGED exchange
  <2>1. TypeOK'
    BY <1>1, <1>4 DEF IInv, TypeOK, JournalTypeOK
  <2>2. Booked'
    BY <1>1, <1>4 DEF IInv, Booked
  <2>3. QED
    BY <1>2, <1>3, <2>1, <2>2 DEF IInv
<1>5. ASSUME NEW next \in {"placed", "lost"}, exchange[l] = "flying", UNCHANGED credited,
             exchange' = [exchange EXCEPT ![l] = next]
      PROVE  IInv'
  <2>1. /\ exchange' \in [Lots -> {"none", "flying", "placed", "lost"}]
        /\ exchange'[l] = next /\ \A m \in Lots : m # l => exchange'[m] = exchange[m]
    BY <1>5 DEF IInv, TypeOK
  <2>2. TypeOK'
    BY <1>1, <1>5, <2>1 DEF IInv, TypeOK, JournalTypeOK
  <2>3. "order" \notin row[l] /\ sells[l] > 0
    BY <1>5 DEF IInv, Booked
  <2>4. Booked'
    BY <1>1, <1>5, <2>1, <2>3 DEF IInv, Booked
  <2>5. QED
    BY <1>2, <1>3, <2>2, <2>4 DEF IInv
<1>6. QED
  BY <1>4, <1>5 DEF Credit, Exchange, RequestLost

-----------------------------------------------------------------------------
\* The whole system.

LEMMA Inductive == IInv /\ [Next]_vars => IInv'
<1> SUFFICES ASSUME IInv, [Next]_vars PROVE IInv'
  OBVIOUS
<1>1. ASSUME NEW p \in Procs, NEW l \in Lots, NewCall(p, l) PROVE IInv'
  BY <1>1, DepositKeeps, ReconcileDepositKeeps, ConvertKeeps, ReconcileConversionKeeps DEF NewCall
<1>2. ASSUME NEW p \in Procs, Resumed(p) PROVE IInv'
  BY <1>2, ReserveKeeps, SendKeeps, SentKeeps, ToldKeeps, BridgeToldKeeps, RefreshKeeps,
     ResumeKeeps, MatchKeeps, IntendKeeps, SoldKeeps, FindKeeps, CheckKeeps DEF Resumed
<1>3. ASSUME NEW p \in Procs, Hold(p) \/ Crash(p) PROVE IInv'
  BY <1>3, HoldKeeps, CrashKeeps
<1>4. ASSUME NEW l \in Lots, Dispatches(l) PROVE IInv'
  <2>1. CASE Executes(l)
    BY <2>1, ExecuteKeeps DEF Executes
  <2>2. ASSUME NEW a \in asks, Reconciles(a) PROVE IInv'
    BY <2>2, ReconcileKeeps DEF Reconciles
  <2>3. QED
    BY <1>4, <2>1, <2>2 DEF Dispatches
<1>5. ASSUME NEW l \in Lots, Credit(l) \/ Exchange(l) \/ RequestLost(l) PROVE IInv'
  BY <1>5, ExchangeKeeps
<1>6. ASSUME NEW l \in Lots, Decide(l) \/ PrepareFails(l), UNCHANGED rest PROVE IInv'
  BY <1>6, DecideKeeps, PrepareFailsKeeps
<1>7. ASSUME NEW a \in asks, LookMisses(a), UNCHANGED rest PROVE IInv'
  BY <1>7, ReconcileKeeps
<1>8. CASE UNCHANGED vars
  <2>1. UNCHANGED <<journal, signer, asks, chain, sends, faults, phase, row, prep, call,
                    bridged, credited, exchange, sells>>
    BY <1>8 DEF vars, journalVars, remote
  <2>2. TypeOK'
    BY <2>1 DEF IInv, TypeOK, JournalTypeOK
  <2>3. Signing'
    BY <2>1 DEF IInv, Signing, Asked, Signed, Broadcasting
  <2>4. Calling'
    BY <2>1 DEF IInv, Calling, GoodCall
  <2>5. Booked'
    BY <2>1 DEF IInv, Booked
  <2>6. QED
    BY <2>2, <2>3, <2>4, <2>5 DEF IInv
<1>9. QED
  BY <1>1, <1>2, <1>3, <1>4, <1>5, <1>6, <1>7, <1>8 DEF Next

LEMMA Invariant == Spec => []IInv
<1>1. Init => IInv
  BY InitIInv
<1>2. IInv /\ [Next]_vars => IInv'
  BY Inductive
<1>3. QED
  BY <1>1, <1>2, PTL DEF Spec

\* settlement.ts and transaction-journal.ts: whatever times out, crashes or runs in
\* another process, a lot is sent once and sold once, after the rows that say so.
THEOREM SubmissionsAreSingle == Spec => []SubmitOnce
<1>1. IInv => SubmitOnce
  <2> SUFFICES ASSUME IInv, NEW l \in Lots
               PROVE  /\ sends[l] <= 1 /\ sells[l] <= 1
                      /\ sends[l] = 1 => /\ "row" \in row[l]
                                         /\ l \notin bridged => /\ l \in prep
                                                                /\ journal[l] \notin {"none", "prepared"}
                      /\ sells[l] = 1 => "sale" \in row[l]
    BY DEF SubmitOnce
  <2>1. Signed(l)
    BY DEF IInv, Signing
  <2>2. sends[l] = 1 => "row" \in row[l]
    BY DEF IInv, Booked
  <2>3. sells[l] <= 1 /\ (sells[l] = 1 => "sale" \in row[l])
    BY DEF IInv, Booked
  <2>4. QED
    BY <2>1, <2>2, <2>3 DEF Signed, Broadcasting
<1>2. QED
  BY <1>1, Invariant, PTL

\* settlement.ts: nothing is sold but what landed and was credited, a bridged lot only
\* at its final output, and a lot is called sold for its own order.
THEOREM SalesAreBacked == Spec => []SoldIsBacked
<1>1. IInv => SoldIsBacked
  <2> SUFFICES ASSUME IInv PROVE SoldIsBacked
    OBVIOUS
  <2>1. EvidenceBacked
    BY DEF IInv, Booked, EvidenceBacked
  <2>2. QED
    BY <2>1 DEF IInv, SoldIsBacked
<1>2. QED
  BY <1>1, Invariant, PTL

\* save(): no call, however late, takes a field out of a stored payload.
THEOREM PayloadsOnlyGrow == Spec => NeverForgets
<1>1. IInv /\ [Next]_vars => [\A l \in Lots : row[l] \subseteq row'[l]]_vars
  <2> SUFFICES ASSUME IInv, [Next]_vars, NEW l \in Lots PROVE row[l] \subseteq row'[l]
    OBVIOUS
  <2>1. ASSUME NEW p \in Procs, NEW adds, NEW label, Save(p, adds, label)
        PROVE  row[l] \subseteq row'[l]
    <3>1. row' = row \/ row' = [row EXCEPT ![call[p].lot] = @ \cup adds]
      BY <2>1 DEF Save
    <3>2. QED
      BY <3>1 DEF IInv, TypeOK
  <2>2. ASSUME NEW p \in Procs, Reserve(p) PROVE row[l] \subseteq row'[l]
    <3>1. \/ row' = row
          \/ row[call[p].lot] = {} /\ row' = [row EXCEPT ![call[p].lot] = {"row"}]
      BY <2>2 DEF Reserve
    <3>2. QED
      BY <3>1 DEF IInv, TypeOK
  <2>3. ASSUME NEW p \in Procs, NEW m \in Lots, NewCall(p, m) PROVE row' = row
    BY <2>3 DEF NewCall, Deposit, ReconcileDeposit, Convert, ReconcileConversion
  <2>4. ASSUME NEW p \in Procs, Resumed(p) PROVE row[l] \subseteq row'[l]
    <3>1. Send(p) => row' = row \/ Save(p, {"ref"}, "idle")
      BY DEF Send, BridgeSends, Sign
    <3>2. Sent(p) => row' = row \/ Save(p, {"ref"}, "idle")
      BY DEF Sent
    <3>3. BridgeTold(p) => row' = row \/ Save(p, {"output"}, "matching")
      BY DEF BridgeTold
    <3>4. Refresh(p) => Save(p, {}, "resuming")
      BY DEF Refresh
    <3>5. Match(p) => row' = row \/ Save(p, {"txn"}, "idle")
      BY DEF Match
    <3>6. Intend(p) => Save(p, {"sale"}, "selling")
      BY DEF Intend
    <3>7. Sold(p) => row' = row \/ Save(p, {"order"}, "idle")
      BY DEF Sold
    <3>8. Find(p) => row' = row \/ Save(p, {"order"}, "checking")
      BY DEF Find
    <3>9. Told(p) \/ Check(p) => row' = row
      BY DEF Told, Check
    <3>10. Resume(p) => row' = row
      BY DEF Resume, Sign
    <3>11. QED
      BY <2>1, <2>2, <2>4, <3>1, <3>2, <3>3, <3>4, <3>5, <3>6, <3>7, <3>8, <3>9, <3>10 DEF Resumed
  <2>5. ASSUME NEW p \in Procs, Hold(p) \/ Crash(p) PROVE row' = row
    BY <2>5 DEF Hold, Crash
  <2>6. ASSUME NEW m \in Lots, Credit(m) \/ Exchange(m) \/ RequestLost(m) PROVE row' = row
    BY <2>6 DEF Credit, Exchange, RequestLost
  <2>7. UNCHANGED rest \/ UNCHANGED vars => row' = row
    BY DEF rest, vars
  <2>8. ASSUME NEW m \in Lots, Dispatches(m) PROVE row' = row
    BY <2>7, <2>8 DEF Dispatches, Executes, Reconciles
  <2>9. QED
    BY <2>3, <2>4, <2>5, <2>6, <2>7, <2>8 DEF Next
<1>2. QED
  BY <1>1, Invariant, PTL DEF Spec, NeverForgets

=============================================================================
