------------------------ MODULE TransactionJournal ------------------------
(***************************************************************************)
(* server/workers/transaction-journal.ts: signed transactions are stored,   *)
(* claimed, broadcast once and afterwards only reconciled.  Several         *)
(* processes, one JavaScript thread each, share the table.                  *)
(*                                                                          *)
(* A transaction is named by the lot it pays for: its id is a digest of the *)
(* lot's.  "chain" and "sends" are the network's, not the program's.        *)
(***************************************************************************)
EXTENDS Integers, FiniteSets

CONSTANTS
  Lots,       \* lots, each with its transaction
  Procs,      \* processes sharing the database
  Creator,    \* the wallet that pays for a lot
  MaxFaults,  \* bound on crashes, failed calls and timeouts
  None        \* nobody

ASSUME JournalAssumption ==
  /\ IsFiniteSet(Lots) /\ IsFiniteSet(Procs)
  /\ DOMAIN Creator = Lots /\ MaxFaults \in Nat /\ None \notin Procs

VARIABLES
  journal,  \* worker_transactions.state, by id
  signer,   \* the dispatcher's execute() for a lot
  asks,     \* the dispatcher's reconcile() calls in flight
  chain,    \* what became of the transaction
  sends,    \* how often it was handed to the network
  faults    \* faults so far

Final == {"confirmed", "failed"}
Unresolved == {"prepared", "broadcast", "unknown", "expired_review"}
States == Final \cup Unresolved \cup {"retired_expired"}

\* execute() prepares, inserts, claims and broadcasts; "writing" is between the
\* SELECT and the UPDATE of an update().
Signers ==
  [at : Procs \cup {None}, val : States \cup {"none"},
   pc : {"no", "preparing", "inserted", "claimed", "sent", "asking", "writing",
         "returned", "raised", "dead"}]

\* A reconcile() for execute ("send"), for a caller that awaits the row ("call"), for
\* one that reads it again ("scan") or for one that no longer awaits ("late").
Asks ==
  [at : Procs, lot : Lots, who : {"send", "call", "scan", "late"},
   pc : {"out", "in", "write", "returned", "raised"}, val : States]

JournalInit ==
  /\ journal = [l \in Lots |-> "none"]
  /\ signer = [l \in Lots |-> [at |-> None, pc |-> "no", val |-> "none"]]
  /\ asks = {}
  /\ chain = [l \in Lots |-> "unsent"]
  /\ sends = [l \in Lots |-> 0]
  /\ faults = 0

\* Mutant: the index knows only what was not broadcast yet.
CrowdedPrepared(l) ==
  \E m \in Lots \ {l} : Creator[m] = Creator[l] /\ journal[m] = "prepared"

\* worker_one_unresolved_transaction: the wallet has another one open.
Crowded(l) ==
  \E m \in Lots \ {l} : Creator[m] = Creator[l] /\ journal[m] \in Unresolved

Fault == faults < MaxFaults /\ faults' = faults + 1

At(l, label) == signer' = [signer EXCEPT ![l].pc = label]

-----------------------------------------------------------------------------
\* update(id, state), first statement: what becomes of the call after its SELECT.

\* "A finalized transaction cannot change state", and a retired one only to a final one.
CanUpdate(l, val) ==
  /\ journal[l] \in Final => journal[l] = val
  /\ journal[l] = "retired_expired" => val \in Final \cup {"retired_expired"}

\* ... second statement: the UPDATE, which the unique index may refuse.
Refused(l, val) ==
  val \in Unresolved /\ journal[l] \notin Unresolved /\ Crowded(l)

-----------------------------------------------------------------------------
\* execute().

\* prepare() signed; insert() stores it unless the wallet's index refuses.
Prepared(l) ==
  /\ signer[l].pc = "preparing"
  /\ IF Crowded(l)
     THEN At(l, "raised") /\ UNCHANGED journal
     ELSE At(l, "inserted") /\ journal' = [journal EXCEPT ![l] = "prepared"]
  /\ UNCHANGED <<asks, chain, sends, faults>>

PrepareFails(l) ==
  /\ signer[l].pc = "preparing" /\ Fault
  /\ At(l, "raised")
  /\ UNCHANGED <<journal, asks, chain, sends>>

Ask(l, p, who) == [at |-> p, lot |-> l, who |-> who, pc |-> "out", val |-> "unknown"]

\* Mutant: the broadcast permission is not committed before the network call.
ClaimInMemory(l) ==
  /\ signer[l].pc = "inserted" /\ At(l, "claimed")
  /\ UNCHANGED <<journal, asks, chain, sends, faults>>

\* claimForBroadcast(), or reconcile() if another process came first.
Claim(l) ==
  /\ signer[l].pc = "inserted"
  /\ IF journal[l] = "prepared"
     THEN /\ At(l, "claimed") /\ journal' = [journal EXCEPT ![l] = "unknown"]
          /\ UNCHANGED asks
     ELSE /\ At(l, "asking") /\ asks' = asks \cup {Ask(l, signer[l].at, "send")}
          /\ UNCHANGED journal
  /\ UNCHANGED <<chain, sends, faults>>

\* The provider's broadcast(): the stored bytes, with the signature that was stored.
Handed(l) ==
  /\ chain' = [chain EXCEPT ![l] = IF @ = "unsent" THEN "pending" ELSE @]
  /\ sends' = [sends EXCEPT ![l] = @ + 1]

\* sendRawTransaction() leaves; an expired transaction is turned away.
Broadcast(l) ==
  /\ signer[l].pc = "claimed" /\ chain[l] # "expired"
  /\ At(l, "sent") /\ Handed(l)
  /\ UNCHANGED <<journal, asks, faults>>

\* The update() after a broadcast that answered or, in the catch, threw.  One
\* that finds the row final changes nothing either way.
Record(l, val) ==
  signer' = [signer EXCEPT ![l].pc = IF journal[l] \in Final THEN "returned" ELSE "writing",
                           ![l].val = val]

Answered(l) ==
  /\ signer[l].pc = "sent" /\ Record(l, "broadcast")
  /\ UNCHANGED <<journal, asks, chain, sends, faults>>

BroadcastThrows(l) ==
  /\ signer[l].pc \in {"claimed", "sent"}
  /\ IF signer[l].pc = "claimed" /\ chain[l] = "expired" THEN UNCHANGED faults ELSE Fault
  /\ Record(l, "unknown")
  /\ UNCHANGED <<journal, asks, chain, sends>>

\* A refused UPDATE is caught after an answer, not in the catch itself.
RecordWrites(l) ==
  /\ signer[l].pc = "writing"
  /\ IF Refused(l, signer[l].val)
     THEN /\ At(l, IF signer[l].val = "broadcast" THEN "returned" ELSE "raised")
          /\ UNCHANGED journal
     ELSE /\ signer' = [signer EXCEPT ![l].pc = "returned", ![l].val = "none"]
          /\ journal' = [journal EXCEPT ![l] = signer[l].val]
  /\ UNCHANGED <<asks, chain, sends, faults>>

\* execute() returns what its own reconcile() did.
Reconciled(l) ==
  /\ signer[l].pc = "asking"
  /\ \E a \in asks :
       /\ a.lot = l /\ a.who = "send" /\ a.pc \in {"returned", "raised"}
       /\ At(l, a.pc) /\ asks' = asks \ {a}
  /\ UNCHANGED <<journal, chain, sends, faults>>

Execute(l) ==
  \/ Prepared(l) \/ Claim(l) \/ Broadcast(l) \/ Answered(l) \/ BroadcastThrows(l)
  \/ RecordWrites(l) \/ Reconciled(l)

-----------------------------------------------------------------------------
\* reconcile().

Becomes(a, label, val) == asks' = (asks \ {a}) \cup {[a EXCEPT !.pc = label, !.val = val]}

\* A call nobody awaits any more ends without a trace.
Ends(a, label) ==
  IF a.who = "late" THEN asks' = asks \ {a}
  ELSE Becomes(a, label, IF label = "returned" /\ a.who = "call" THEN a.val ELSE "unknown")

\* What the network says of a transaction.
Seen(l) ==
  CASE chain[l] = "unsent" -> {"unknown"}
    [] chain[l] = "pending" -> {"unknown", "broadcast"}
    [] chain[l] = "landed" -> {"confirmed"}
    [] chain[l] = "reverted" -> {"failed"}
    [] chain[l] = "expired" -> {"expired_review"}

Looked(a) ==
  /\ a.pc = "out"
  /\ \E val \in Seen(a.lot) : Becomes(a, "in", val)
  /\ UNCHANGED <<journal, signer, chain, sends, faults>>

\* The node fails, or misses the status of a transaction it has.
LookMisses(a) ==
  /\ a.pc = "out" /\ Fault
  /\ \E val \in {"unknown", "expired_review"} : Becomes(a, "in", val)
  /\ UNCHANGED <<journal, signer, chain, sends>>

\* An update() that finds another final state throws, and again in the catch.
Heard(a) ==
  /\ a.pc = "in"
  /\ IF CanUpdate(a.lot, a.val) THEN Becomes(a, "write", a.val) ELSE Ends(a, "raised")
  /\ UNCHANGED <<journal, signer, chain, sends, faults>>

HearWrites(a) ==
  /\ a.pc = "write"
  /\ IF Refused(a.lot, a.val)
     THEN Ends(a, "raised") /\ UNCHANGED journal
     ELSE Ends(a, "returned") /\ journal' = [journal EXCEPT ![a.lot] = a.val]
  /\ UNCHANGED <<signer, chain, sends, faults>>

Reconcile(a) == Looked(a) \/ Heard(a) \/ HearWrites(a)

-----------------------------------------------------------------------------
\* The network: a transaction lands, reverts, or outlives its blockhash.
Decide(l) ==
  /\ \/ /\ chain[l] = "pending"
        /\ \E end \in {"landed", "reverted"} : chain' = [chain EXCEPT ![l] = end]
     \/ /\ chain[l] \in {"unsent", "pending"} /\ journal[l] # "none"
        /\ chain' = [chain EXCEPT ![l] = "expired"]
  /\ UNCHANGED <<journal, signer, asks, sends, faults>>

\* The process dies: its calls are gone, the table and the network are not.
JournalCrash(p) ==
  /\ signer' = [l \in Lots |->
       IF signer[l].at = p /\ signer[l].pc \notin {"returned", "raised"}
       THEN [signer[l] EXCEPT !.pc = "dead"] ELSE signer[l]]
  /\ asks' = {a \in asks : a.at # p}
  /\ Fault
  /\ UNCHANGED <<journal, chain, sends>>

JournalTypeOK ==
  /\ journal \in [Lots -> States \cup {"none"}]
  /\ signer \in [Lots -> Signers]
  /\ asks \subseteq Asks
  /\ chain \in [Lots -> {"unsent", "pending", "landed", "reverted", "expired"}]
  /\ sends \in [Lots -> Nat]
  /\ faults \in Nat
=============================================================================
