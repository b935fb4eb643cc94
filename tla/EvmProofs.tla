----------------------------- MODULE EvmProofs -----------------------------
(***************************************************************************)
(* What holds of EvmSource for every number of processes, tokens, claims    *)
(* and faults: the account signs no two intents for one nonce, a lot is     *)
(* what a claim paid out in a final block, and the sequence of a token      *)
(* counts its completed claims.                                             *)
(***************************************************************************)
EXTENDS EvmSource, TLAPS

-----------------------------------------------------------------------------
\* The invariant.

Steps == {"idle", "next", "build", "execute", "nonce", "reserve", "mark", "sign", "settle",
          "send", "reconcile", "confirm", "commit"}
\* From the entry into exclusive() to its finally.
Critical == {"nonce", "reserve", "mark", "sign", "settle", "send"}

Tasks == [pc : Steps, kind : {"scan", "launch"}, rest : SUBSET Claims,
          of : Intents \cup {None}, nonce : Nonces \cup {None}, seen : Txs]

Types ==
  /\ TypeOK
  /\ seq \in [Tokens -> Nat \cup {None}]
  /\ task \in [Procs -> Tasks]

\* What a process works on: a scan on a claim, a launch on a launch.
Target(t) ==
  /\ t.pc \in {"idle", "next", "build"} => t.kind = "scan"
  /\ t.pc \notin {"idle", "next"} =>
       /\ t.of \in Intents
       /\ t.kind = "scan" => t.of \in Claims
       /\ t.kind = "launch" => t.of[2] = 0

\* The account's record lies ahead of the records of all intents, one nonce each.
Ahead ==
  /\ account.status # "none" => account.nonce \in Nat
  /\ \A i \in Intents : journal[i].status # "none" =>
       /\ account.status # "none"
       /\ journal[i].nonce \in Nat /\ journal[i].nonce <= account.nonce
  /\ \A i, j \in Intents :
       i # j /\ journal[i].status # "none" /\ journal[j].status # "none"
         => journal[i].nonce # journal[j].nonce

\* What the holder of the lock has reserved.
Holds(t) ==
  /\ t.pc \in {"reserve", "mark"} => t.nonce \in Nonces
  /\ t.pc \in {"mark", "sign", "settle"} => account.status = "reserved"
  /\ t.pc = "mark" =>
       /\ account.nonce = t.nonce
       /\ \A i \in Intents : journal[i].status # "none" => journal[i].nonce < t.nonce
  /\ t.pc = "sign" => journal[t.of].status = "reserved"

\* A receipt tells of the block it was read from: a block put in its place has
\* another number, and a final one has none.
Saw(t) ==
  /\ t.pc \in {"confirm", "commit"} =>
       /\ t.seen.block <= chain[t.of].block
       /\ t.seen.block = chain[t.of].block /\ Onchain(t.of) =>
            t.seen.ok = chain[t.of].ok /\ t.seen.amount = chain[t.of].amount
  /\ t.pc = "commit" =>
       chain[t.of].at = "final" /\ chain[t.of].ok /\ t.seen.amount = chain[t.of].amount

\* A claim that a scan works on was numbered next when the scan began.
Due(i) == seq[i[1]] # None /\ i[2] <= seq[i[1]] + 1

Follows(t) ==
  /\ \A i \in t.rest : Due(i)
  /\ t.kind = "scan" /\ t.pc \notin {"idle", "next"} => Due(t.of)

\* Only the holder of the account's lock is between its entry and its release.
Fits(p, t) ==
  /\ Target(t) /\ Holds(t) /\ Saw(t) /\ Follows(t)
  /\ t.pc \in Critical => signLock = p

Completed ==
  \A i \in Claims : job[i] = "complete" => chain[i].at = "final" /\ seq[i[1]] # None

IInv ==
  /\ Types /\ (\A p \in Procs : Fits(p, task[p]))
  /\ Ahead /\ Completed /\ LotsAreFinal /\ SequenceCounts

-----------------------------------------------------------------------------
\* Intents, and the tasks of the processes.

LEMMA ClaimParts ==
  /\ \A i \in Claims : /\ i \in Intents /\ i[1] \in Tokens /\ i[2] \in 1 .. MaxClaims[i[1]]
                        /\ i[2] \in Nat \ {0} /\ i = <<i[1], i[2]>>
  /\ \A k \in Tokens : \A n \in 1 .. MaxClaims[k] : <<k, n>> \in Claims
  /\ \A k \in Tokens : LaunchOf(k) \in Intents /\ LaunchOf(k) \notin Claims /\ LaunchOf(k)[2] = 0
  /\ \A i \in Intents : i[1] \in Tokens /\ i[2] \in Nat
<1>1. \A k \in Tokens : MaxClaims[k] \in Nat
  BY EvmAssumption
<1>2. ASSUME NEW i \in Claims
      PROVE  /\ i \in Intents /\ i[1] \in Tokens /\ i[2] \in 1 .. MaxClaims[i[1]]
             /\ i[2] \in Nat \ {0} /\ i = <<i[1], i[2]>>
  <2>1. PICK k \in Tokens : i \in {k} \X (1 .. MaxClaims[k])
    BY DEF Claims
  <2>2. QED
    BY <1>1, <2>1 DEF Intents
<1>3. ASSUME NEW k \in Tokens, NEW n \in 1 .. MaxClaims[k] PROVE <<k, n>> \in Claims
  BY DEF Claims
<1>4. \A k \in Tokens : LaunchOf(k) \in Intents /\ LaunchOf(k)[2] = 0
  BY DEF LaunchOf, Intents
<1>5. \A k \in Tokens : LaunchOf(k) \notin Claims
  BY <1>2, <1>4
<1>6. ASSUME NEW i \in Intents PROVE i[1] \in Tokens /\ i[2] \in Nat
  BY <1>2 DEF Intents
<1>7. QED
  BY <1>2, <1>3, <1>4, <1>5, <1>6

LEMMA IdleIsTask == Idle \in Tasks /\ NoTx \in Txs /\ NoRecord \in Records
BY EvmAssumption DEF Idle, Tasks, Steps, NoTx, Txs, NoRecord, Records

LEMMA InitIInv == Init => IInv
<1> SUFFICES ASSUME Init PROVE IInv
  OBVIOUS
<1>1. \A k \in Tokens : MaxClaims[k] \in Nat
  BY EvmAssumption
<1>2. Types
  <2>1. /\ task \in [Procs -> Tasks] /\ \A p \in Procs : task[p].pc = "idle"
        /\ chain \in [Intents -> Txs] /\ journal \in [Intents -> Records] /\ account \in Records
    BY IdleIsTask DEF Init, Idle
  <2>2. /\ seq \in [Tokens -> Nat \cup {None}]
        /\ \A k \in Tokens : seq[k] \in 0 .. MaxClaims[k] \cup {None}
        /\ fees \in [Tokens -> 0 .. MaxFees] /\ binding \subseteq Tokens
    BY <1>1, EvmAssumption DEF Init
  <2>3. /\ job \in [Intents -> {"none", "pending", "complete"}]
        /\ outbox \in [Claims -> 1 .. MaxFees \cup {None}] /\ scanLock = None /\ signLock = None
    BY DEF Init
  <2>4. QED
    BY <2>1, <2>2, <2>3 DEF Types, TypeOK
<1>3. ASSUME NEW p \in Procs PROVE Fits(p, task[p])
  <2>1. task[p] = Idle
    BY DEF Init
  <2>2. QED
    BY <2>1 DEF Idle, Fits, Target, Holds, Saw, Follows, Critical
<1>4. Ahead
  BY DEF Init, Ahead, NoRecord
<1>5. \A i \in Claims : job[i] = "none" /\ outbox[i] = None
  BY ClaimParts DEF Init
<1>6. Completed /\ LotsAreFinal
  BY <1>5 DEF Completed, LotsAreFinal
<1>7. SequenceCounts
  <2>1. ASSUME NEW k \in Tokens, seq[k] # None
        PROVE  {n \in 1 .. MaxClaims[k] : job[<<k, n>>] = "complete"} = 1 .. seq[k]
    <3>1. seq[k] = 0
      BY <2>1 DEF Init
    <3>2. \A n \in 1 .. MaxClaims[k] : job[<<k, n>>] # "complete"
      BY <1>5, ClaimParts
    <3>3. 1 .. 0 = {}
      OBVIOUS
    <3>4. QED
      BY <3>1, <3>2, <3>3
  <2>2. QED
    BY <2>1 DEF SequenceCounts
<1>8. QED
  BY <1>2, <1>3, <1>4, <1>6, <1>7 DEF IInv

-----------------------------------------------------------------------------
\* What a step leaves to the others.

\* What may become of a transaction on the chain: once final it stays, and a block
\* of the same number is the same block.
Moves(old, new) ==
  /\ old.at = "final" => new = old
  /\ new.block >= old.block
  /\ new.block = old.block /\ new.at \in {"mined", "final"} =>
       old.at \in {"mined", "final"} /\ new.ok = old.ok /\ new.amount = old.amount

ChainMoves == chain' \in [Intents -> Txs] /\ \A i \in Intents : Moves(chain[i], chain'[i])

SeqGrows ==
  \A k \in Tokens : seq[k] # None => seq'[k] # None /\ seq'[k] \in Nat /\ seq'[k] >= seq[k]

LEMMA ChainStands == ASSUME IInv, UNCHANGED chain PROVE ChainMoves
<1>1. \A i \in Intents : chain[i].block \in Nat
  BY DEF IInv, Types, TypeOK, Txs
<1>2. QED
  BY <1>1 DEF IInv, Types, TypeOK, ChainMoves, Moves

LEMMA SeqStands == ASSUME IInv, UNCHANGED seq PROVE SeqGrows
BY DEF IInv, Types, SeqGrows

LEMMA DueStays == ASSUME IInv, SeqGrows, NEW i \in Claims, Due(i) PROVE Due(i)'
<1>1. i[1] \in Tokens /\ i[2] \in Nat /\ seq[i[1]] \in Nat
  BY ClaimParts DEF Due, IInv, Types
<1>2. QED
  BY <1>1 DEF Due, SeqGrows

LEMMA FollowsStays ==
  ASSUME IInv, SeqGrows, NEW t \in Tasks, Follows(t), Target(t)
  PROVE  Follows(t)'
<1>1. t.rest \subseteq Claims
  BY DEF Tasks
<1>2. t.kind = "scan" /\ t.pc \notin {"idle", "next"} => t.of \in Claims
  BY DEF Target
<1>3. QED
  BY <1>1, <1>2, DueStays DEF Follows

LEMMA SawStays ==
  ASSUME IInv, ChainMoves, NEW t \in Tasks, Saw(t), Target(t)
  PROVE  Saw(t)'
<1>1. SUFFICES ASSUME t.pc \in {"confirm", "commit"} PROVE Saw(t)'
  BY DEF Saw
<1>2. PICK i \in Intents : i = t.of
  BY <1>1 DEF Target
<1>3. /\ Moves(chain[i], chain'[i]) /\ chain[i].block \in Nat /\ chain'[i].block \in Nat
      /\ t.seen.block \in Nat
  BY DEF ChainMoves, IInv, Types, TypeOK, Txs, Tasks
<1>4. QED
  BY <1>1, <1>2, <1>3 DEF Saw, Moves, Onchain

\* Who holds the lock is alone with the account.
LEMMA Alone ==
  ASSUME IInv, NEW p \in Procs, NEW q \in Procs, task[p].pc \in Critical, p # q
  PROVE  task[q].pc \notin Critical
BY DEF IInv, Fits

LEMMA OthersFit ==
  ASSUME IInv, ChainMoves, SeqGrows, NEW q \in Procs, task'[q] = task[q],
         signLock = q => signLock' = q,
         UNCHANGED <<journal, account>> \/ task[q].pc \notin Critical
  PROVE  Fits(q, task[q])'
<1>1. PICK t \in Tasks : t = task[q]
  BY DEF IInv, Types
<1>2. Fits(q, t)
  BY <1>1 DEF IInv
<1>3. Target(t)' /\ Saw(t)' /\ Follows(t)'
  BY <1>2, SawStays, FollowsStays DEF Fits, Target
<1>4. Holds(t)'
  BY <1>1, <1>2 DEF Fits, Holds, Critical
<1>5. QED
  BY <1>1, <1>2, <1>3, <1>4 DEF Fits

\* A step of the signer or of the chain leaves the books.
LEMMA BooksKeep ==
  ASSUME IInv, ChainMoves, UNCHANGED source
  PROVE  Completed' /\ LotsAreFinal' /\ SequenceCounts'
<1>1. UNCHANGED <<seq, job, outbox>>
  BY DEF source
<1>2. ASSUME NEW i \in Claims, chain[i].at = "final" PROVE chain'[i] = chain[i]
  BY <1>2, ClaimParts DEF ChainMoves, Moves
<1>3. Completed'
  BY <1>1, <1>2 DEF IInv, Completed
<1>4. LotsAreFinal'
  <2>1. ASSUME NEW i \in Claims
        PROVE  /\ outbox'[i] # None =>
                    chain'[i].at = "final" /\ chain'[i].ok /\ chain'[i].amount = outbox'[i]
               /\ job'[i] = "complete" /\ chain'[i].amount > 0 => outbox'[i] # None
    BY <1>1, <1>2 DEF IInv, LotsAreFinal, Completed
  <2>2. QED
    BY <2>1 DEF LotsAreFinal
<1>5. SequenceCounts'
  BY <1>1 DEF IInv, SequenceCounts
<1>6. QED
  BY <1>3, <1>4, <1>5

\* A task takes one step.
LEMMA GoesToTask ==
  ASSUME IInv, NEW p \in Procs, NEW pc \in Steps, Goes(p, pc)
  PROVE  \E t \in Tasks :
           /\ task' = [task EXCEPT ![p] = t] /\ task'[p] = t
           /\ t.pc = pc /\ t.kind = task[p].kind /\ t.rest = task[p].rest /\ t.of = task[p].of
           /\ t.nonce = task[p].nonce /\ t.seen = task[p].seen
<1>1. PICK old \in Tasks : old = task[p]
  BY DEF IInv, Types
<1>2. PICK t : t = [old EXCEPT !.pc = pc]
  OBVIOUS
<1>3. /\ t \in Tasks /\ t.pc = pc /\ t.kind = old.kind /\ t.rest = old.rest /\ t.of = old.of
      /\ t.nonce = old.nonce /\ t.seen = old.seen
  BY <1>2 DEF Tasks
<1>4. task' = [task EXCEPT ![p] = t] /\ task'[p] = t
  BY <1>1, <1>2 DEF Goes, IInv, Types
<1>5. QED
  BY <1>1, <1>3, <1>4

LEMMA GoesOnToTask ==
  ASSUME IInv, NEW p \in Procs, GoesOn(p)
  PROVE  \E t \in Tasks :
           /\ task' = [task EXCEPT ![p] = t] /\ task'[p] = t
           /\ t.pc \in {"idle", "next"} /\ t.kind = "scan" /\ t.rest \subseteq task[p].rest
<1>1. PICK old \in Tasks : old = task[p]
  BY DEF IInv, Types
<1>2. PICK t : t = IF old.kind = "scan" THEN [Idle EXCEPT !.pc = "next", !.rest = old.rest]
                   ELSE Idle
  OBVIOUS
<1>3. t \in Tasks /\ t.pc \in {"idle", "next"} /\ t.kind = "scan" /\ t.rest \subseteq old.rest
  <2>1. CASE old.kind # "scan"
    BY <1>2, <2>1, IdleIsTask DEF Idle
  <2>2. CASE old.kind = "scan"
    <3>1. t = [pc |-> "next", kind |-> "scan", rest |-> old.rest, of |-> None, nonce |-> None,
               seen |-> NoTx]
      BY <1>2, <2>2 DEF Idle
    <3>2. QED
      BY <3>1, IdleIsTask DEF Tasks, Steps
  <2>3. QED
    BY <2>1, <2>2
<1>4. task' = [task EXCEPT ![p] = t] /\ task'[p] = t
  BY <1>1, <1>2 DEF GoesOn, IInv, Types
<1>5. QED
  BY <1>1, <1>3, <1>4

\* A task that is over, or at its next token.
LEMMA RestFits ==
  ASSUME IInv, SeqGrows, NEW p \in Procs, NEW t \in Tasks,
         t.pc \in {"idle", "next"}, t.kind = "scan", t.rest \subseteq task[p].rest
  PROVE  Fits(p, t)'
<1>1. \A i \in t.rest : i \in Claims /\ Due(i)
  BY DEF IInv, Types, Tasks, Fits, Follows
<1>2. Follows(t)'
  BY <1>1, DueStays DEF Follows
<1>3. QED
  BY <1>2 DEF Fits, Target, Holds, Saw, Critical

\* A step that leaves the source and the records alone.
LEMMA QuietKeeps ==
  ASSUME IInv, ChainMoves, UNCHANGED <<source, journal, account>>, binding' \subseteq Tokens,
         scanLock' \in Procs \cup {None, "dead"}, signLock' \in Procs \cup {None, "dead"},
         task' \in [Procs -> Tasks], fees' \in [Tokens -> 0 .. MaxFees],
         \A p \in Procs : Fits(p, task[p])'
  PROVE  IInv'
<1>1. Completed' /\ LotsAreFinal' /\ SequenceCounts'
  BY BooksKeep
<1>2. Ahead'
  BY DEF IInv, Ahead
<1>3. Types'
  <2>1. UNCHANGED <<seq, job, outbox, journal, account>> /\ chain' \in [Intents -> Txs]
    BY DEF source, ChainMoves
  <2>2. \A p \in Procs : task'[p].rest \subseteq Claims /\ task'[p].of \in Intents \cup {None}
    BY DEF Tasks
  <2>3. QED
    BY <2>1, <2>2 DEF IInv, Types, TypeOK
<1>4. QED
  BY <1>1, <1>2, <1>3 DEF IInv

LEMMA QuietStepKeeps ==
  ASSUME IInv, ChainMoves, UNCHANGED <<source, journal, account, fees>>, binding' \subseteq Tokens,
         scanLock' \in Procs \cup {None, "dead"}, signLock' \in Procs \cup {None, "dead"},
         NEW p \in Procs, NEW t \in Tasks, task' = [task EXCEPT ![p] = t], Fits(p, t)',
         \A q \in Procs \ {p} : signLock = q => signLock' = q
  PROVE  IInv'
<1>1. /\ task' \in [Procs -> Tasks] /\ task'[p] = t
      /\ \A q \in Procs \ {p} : task'[q] = task[q]
  BY DEF IInv, Types
<1>2. SeqGrows
  BY SeqStands DEF source
<1>3. \A q \in Procs \ {p} : Fits(q, task[q])'
  BY <1>1, <1>2, OthersFit
<1>4. Fits(p, task[p])'
  BY <1>1 DEF Fits, Target, Holds, Saw, Follows
<1>5. QED
  BY <1>1, <1>3, <1>4, QuietKeeps DEF IInv, Types, TypeOK

-----------------------------------------------------------------------------
\* Steps of a process that leave the source and the records alone.

LEMMA ScanStartsKeeps ==
  ASSUME IInv, NEW p \in Procs, ScanStarts(p)
  PROVE  IInv'
<1>1. PICK due : due = {i \in Claims : seq[i[1]] = i[2] - 1}
  OBVIOUS
<1>2. PICK t : t = [Idle EXCEPT !.pc = "next", !.rest = due]
  OBVIOUS
<1>3. /\ t \in Tasks /\ t.pc = "next" /\ t.kind = "scan" /\ t.rest = due
      /\ task' = [task EXCEPT ![p] = t]
  <2>1. due \subseteq Claims
    BY <1>1
  <2>2. t = [pc |-> "next", kind |-> "scan", rest |-> due, of |-> None, nonce |-> None,
             seen |-> NoTx]
    BY <1>2 DEF Idle
  <2>3. t \in Tasks /\ t.pc = "next" /\ t.kind = "scan" /\ t.rest = due
    BY <2>1, <2>2, IdleIsTask DEF Tasks, Steps
  <2>4. task' = [task EXCEPT ![p] = [Idle EXCEPT !.pc = "next", !.rest = due]]
    BY <1>1 DEF ScanStarts
  <2>5. QED
    BY <1>2, <2>3, <2>4
<1>4. ASSUME NEW i \in due PROVE Due(i)'
  <2>1. /\ i \in Claims /\ i[1] \in Tokens /\ i[2] \in Nat \ {0} /\ seq[i[1]] = i[2] - 1
        /\ seq' = seq
    BY <1>1, ClaimParts DEF ScanStarts, source
  <2>2. QED
    BY <2>1, EvmAssumption DEF Due
<1>5. Fits(p, t)'
  BY <1>3, <1>4 DEF Fits, Target, Holds, Saw, Follows, Critical
<1>6. /\ UNCHANGED <<source, journal, account, fees, binding, chain>>
      /\ scanLock' \in Procs \cup {None, "dead"} /\ signLock' = signLock
  BY DEF ScanStarts, signer, world
<1>7. QED
  BY <1>3, <1>5, <1>6, ChainStands, QuietStepKeeps DEF IInv, Types, TypeOK

LEMMA TakesKeeps ==
  ASSUME IInv, NEW p \in Procs, NEW i \in Claims, Takes(p, i)
  PROVE  IInv'
<1>1. PICK next \in {"execute", "build", "next"} :
        task' = [task EXCEPT ![p].pc = next, ![p].of = i, ![p].rest = @ \ {i}]
  BY DEF Takes
<1>2. PICK old \in Tasks : old = task[p] /\ old.pc = "next" /\ i \in old.rest /\ Fits(p, old)
  BY DEF Takes, IInv, Types
<1>3. PICK t : t = [old EXCEPT !.pc = next, !.of = i, !.rest = @ \ {i}]
  OBVIOUS
<1>4. /\ t \in Tasks /\ t.pc = next /\ t.of = i /\ t.rest \subseteq old.rest /\ t.kind = "scan"
  BY <1>2, <1>3, ClaimParts DEF Tasks, Steps, Fits, Target
<1>5. task' = [task EXCEPT ![p] = t]
  BY <1>1, <1>2, <1>3
<1>6. /\ UNCHANGED <<source, seq, journal, account, fees, binding, chain, scanLock, signLock>>
  BY DEF Takes, source, signer, locks, world
<1>7. Fits(p, t)'
  <2>1. \A j \in old.rest : Due(j)
    BY <1>2 DEF Fits, Follows
  <2>2. QED
    BY <1>2, <1>4, <1>6, <2>1, ClaimParts DEF Fits, Target, Holds, Saw, Follows, Due, Critical
<1>8. QED
  BY <1>4, <1>5, <1>6, <1>7, ChainStands, QuietStepKeeps DEF IInv, Types, TypeOK

LEMMA ScanEndsKeeps ==
  ASSUME IInv, NEW p \in Procs, ScanEnds(p)
  PROVE  IInv'
<1>1. /\ UNCHANGED <<source, seq, journal, account, fees, binding, chain, signLock>>
      /\ scanLock' \in Procs \cup {None, "dead"} /\ task' = [task EXCEPT ![p] = Idle]
  BY DEF ScanEnds, source, signer, world, IInv, Types, TypeOK
<1>2. Fits(p, Idle)'
  BY DEF Idle, Fits, Target, Holds, Saw, Follows, Critical
<1>3. QED
  BY <1>1, <1>2, IdleIsTask, ChainStands, QuietStepKeeps DEF IInv, Types, TypeOK

\* GoesOn() with the lock, if any, given back.
LEMMA GoesOnKeeps ==
  ASSUME IInv, NEW p \in Procs, GoesOn(p), ChainMoves,
         UNCHANGED <<source, journal, account, fees, scanLock>>, binding' \subseteq Tokens,
         signLock' = signLock \/ Released(p)
  PROVE  IInv'
<1>1. PICK t \in Tasks : /\ task' = [task EXCEPT ![p] = t]
                         /\ t.pc \in {"idle", "next"} /\ t.kind = "scan" /\ t.rest \subseteq task[p].rest
  BY GoesOnToTask
<1>2. Fits(p, t)'
  BY <1>1, SeqStands, RestFits DEF source
<1>3. /\ signLock' \in Procs \cup {None, "dead"}
      /\ \A q \in Procs \ {p} : signLock = q => signLock' = q
  BY DEF Released, IInv, Types, TypeOK
<1>4. QED
  BY <1>1, <1>2, <1>3, QuietStepKeeps DEF IInv, Types, TypeOK

LEMMA RejectsKeeps ==
  ASSUME IInv, NEW p \in Procs, Rejects(p)
  PROVE  IInv'
<1>1. /\ GoesOn(p) /\ Released(p)
      /\ UNCHANGED <<source, journal, account, fees, scanLock, binding, chain>>
  BY DEF Rejects, Fails, signer, world
<1>2. QED
  BY <1>1, ChainStands, GoesOnKeeps DEF IInv, Types, TypeOK

\* Goes(), where only the place of the task moves.
LEMMA GoesKeeps ==
  ASSUME IInv, NEW p \in Procs, NEW pc \in Steps, Goes(p, pc), ChainMoves,
         UNCHANGED <<source, journal, account, fees, scanLock>>, binding' \subseteq Tokens,
         task[p].pc \notin {"idle", "next"}, pc \in {"reconcile", "commit"},
         signLock' = signLock \/ Released(p),
         pc = "commit" => /\ task[p].pc = "confirm" /\ UNCHANGED chain
                          /\ Canonical(p) /\ task[p].seen.ok
  PROVE  IInv'
<1>1. PICK t \in Tasks :
        /\ task' = [task EXCEPT ![p] = t]
        /\ t.pc = pc /\ t.kind = task[p].kind /\ t.rest = task[p].rest /\ t.of = task[p].of
        /\ t.nonce = task[p].nonce /\ t.seen = task[p].seen
  BY GoesToTask
<1>2. Fits(p, task[p])
  BY DEF IInv
<1>3. Target(t) /\ Follows(t) /\ Holds(t)
  BY <1>1, <1>2 DEF Fits, Target, Follows, Holds
<1>4. Saw(t)
  BY <1>1, <1>2 DEF Fits, Saw, Canonical, Onchain
<1>5. Target(t)' /\ Saw(t)' /\ Follows(t)'
  BY <1>3, <1>4, SeqStands, SawStays, FollowsStays DEF Target, source
<1>6. Fits(p, t)'
  BY <1>1, <1>5 DEF Fits, Holds, Critical
<1>7. /\ signLock' \in Procs \cup {None, "dead"}
      /\ \A q \in Procs \ {p} : signLock = q => signLock' = q
  BY DEF Released, IInv, Types, TypeOK
<1>8. QED
  BY <1>1, <1>6, <1>7, QuietStepKeeps DEF IInv, Types, TypeOK

LEMMA EntersKeeps ==
  ASSUME IInv, NEW p \in Procs, Enters(p)
  PROVE  IInv'
<1>1. /\ task[p].pc = "execute" /\ signLock = None
      /\ UNCHANGED <<source, seq, journal, account, fees, scanLock, binding, chain>>
  BY DEF Enters, source, signer, world
<1>2. CASE journal[task[p].of].status = "signed"
  <2>1. Goes(p, "reconcile") /\ UNCHANGED signLock
    BY <1>2 DEF Enters
  <2>2. QED
    BY <1>1, <2>1, ChainStands, GoesKeeps DEF Steps, IInv, Types, TypeOK
<1>3. CASE journal[task[p].of].status = "reserved"
  <2>1. GoesOn(p) /\ UNCHANGED signLock
    BY <1>3 DEF Enters
  <2>2. QED
    BY <1>1, <2>1, ChainStands, GoesOnKeeps DEF IInv, Types, TypeOK
<1>4. CASE journal[task[p].of].status \notin {"signed", "reserved"}
  <2>1. Goes(p, "nonce") /\ signLock' = p
    BY <1>4 DEF Enters
  <2>2. PICK t \in Tasks :
          /\ task' = [task EXCEPT ![p] = t]
          /\ t.pc = "nonce" /\ t.kind = task[p].kind /\ t.rest = task[p].rest /\ t.of = task[p].of
    BY <2>1, GoesToTask DEF Steps
  <2>3. Fits(p, task[p])
    BY DEF IInv
  <2>4. Fits(p, t)'
    BY <1>1, <2>1, <2>2, <2>3 DEF Fits, Target, Holds, Saw, Follows, Due
  <2>5. signLock' \in Procs \cup {None, "dead"} /\ \A q \in Procs \ {p} : signLock # q
    BY <1>1, <2>1, EvmAssumption
  <2>6. QED
    BY <1>1, <2>2, <2>4, <2>5, ChainStands, QuietStepKeeps DEF IInv, Types, TypeOK
<1>5. QED
  BY <1>2, <1>3, <1>4

LEMMA CountsKeeps ==
  ASSUME IInv, NEW p \in Procs, Counts(p)
  PROVE  IInv'
<1>1. PICK n \in Nonces : task' = [task EXCEPT ![p].pc = "reserve", ![p].nonce = n]
  BY DEF Counts
<1>2. PICK old \in Tasks : old = task[p] /\ old.pc = "nonce" /\ Fits(p, old)
  BY DEF Counts, IInv, Types
<1>3. PICK t : t = [old EXCEPT !.pc = "reserve", !.nonce = n]
  OBVIOUS
<1>4. /\ t \in Tasks /\ t.pc = "reserve" /\ t.nonce = n /\ t.kind = old.kind /\ t.of = old.of
      /\ t.rest = old.rest /\ task' = [task EXCEPT ![p] = t]
  BY <1>1, <1>2, <1>3 DEF Tasks, Steps
<1>5. UNCHANGED <<source, seq, journal, account, fees, scanLock, signLock, binding, chain>>
  BY DEF Counts, source, signer, locks, world
<1>6. Fits(p, t)'
  BY <1>2, <1>4, <1>5 DEF Fits, Target, Holds, Saw, Follows, Due, Critical
<1>7. QED
  BY <1>4, <1>5, <1>6, ChainStands, QuietStepKeeps DEF IInv, Types, TypeOK

LEMMA ReceiptKeeps ==
  ASSUME IInv, NEW p \in Procs, Receipt(p)
  PROVE  IInv'
<1>1. UNCHANGED <<source, seq, journal, account, fees, scanLock, signLock, binding, chain>>
  BY DEF Receipt, source, signer, locks, world
<1>2. CASE ~Onchain(task[p].of)
  <2>1. GoesOn(p)
    BY <1>2 DEF Receipt
  <2>2. QED
    BY <1>1, <2>1, ChainStands, GoesOnKeeps DEF IInv, Types, TypeOK
<1>3. CASE Onchain(task[p].of)
  <2>1. PICK old \in Tasks : old = task[p] /\ old.pc = "reconcile" /\ Fits(p, old)
    BY DEF Receipt, IInv, Types
  <2>2. PICK t : t = [old EXCEPT !.pc = "confirm", !.seen = chain[old.of]]
    OBVIOUS
  <2>3. chain[old.of] \in Txs
    BY <2>1 DEF Fits, Target, IInv, Types, TypeOK
  <2>4. /\ t \in Tasks /\ t.pc = "confirm" /\ t.seen = chain[old.of] /\ t.kind = old.kind
        /\ t.of = old.of /\ t.rest = old.rest
    BY <2>2, <2>3 DEF Tasks, Steps
  <2>5. task' = [task EXCEPT ![p] = t]
    BY <1>3, <2>1, <2>2 DEF Receipt
  <2>6. Saw(t)
    BY <2>3, <2>4 DEF Saw, Txs
  <2>7. Fits(p, t)'
    BY <1>1, <2>1, <2>4, <2>6 DEF Fits, Target, Holds, Saw, Follows, Due, Critical, Onchain
  <2>8. QED
    BY <1>1, <2>4, <2>5, <2>7, ChainStands, QuietStepKeeps DEF IInv, Types, TypeOK
<1>4. QED
  BY <1>2, <1>3

LEMMA ConfirmsKeeps ==
  ASSUME IInv, NEW p \in Procs, Confirms(p)
  PROVE  IInv'
<1>1. /\ task[p].pc = "confirm"
      /\ UNCHANGED <<source, journal, account, fees, scanLock, signLock, chain>>
  BY DEF Confirms, locks, world
<1>2. CASE ~(Canonical(p) /\ task[p].seen.ok)
  <2>1. GoesOn(p) /\ UNCHANGED binding
    BY <1>2 DEF Confirms
  <2>2. QED
    BY <1>1, <2>1, ChainStands, GoesOnKeeps DEF IInv, Types, TypeOK
<1>3. CASE Canonical(p) /\ task[p].seen.ok
  <2>1. /\ Goes(p, "commit")
        /\ binding' = IF task[p].of[2] = 0 THEN binding \cup {task[p].of[1]} ELSE binding
    BY <1>3 DEF Confirms
  <2>2. task[p].of \in Intents
    BY <1>1 DEF IInv, Fits, Target
  <2>3. binding' \subseteq Tokens
    BY <2>1, <2>2, ClaimParts DEF IInv, Types, TypeOK
  <2>4. QED
    BY <1>1, <1>3, <2>1, <2>3, ChainStands, GoesKeeps DEF Steps
<1>4. QED
  BY <1>2, <1>3

\* One transaction moves.
LEMMA OneMoves ==
  ASSUME IInv, NEW i \in Intents, NEW new \in Txs, Moves(chain[i], new),
         chain' = [chain EXCEPT ![i] = new]
  PROVE  ChainMoves
<1>1. \A j \in Intents : Moves(chain[j], chain[j])
  BY DEF IInv, Types, TypeOK, Txs, Moves
<1>2. QED
  BY <1>1 DEF IInv, Types, TypeOK, ChainMoves

\* The pool takes the bytes.
LEMMA SentMoves == ASSUME IInv, NEW i \in Intents, Sent(i) \/ UNCHANGED chain PROVE ChainMoves
<1>1. CASE UNCHANGED chain
  BY <1>1, ChainStands
<1>2. CASE chain' = [chain EXCEPT ![i].at = "pool"] /\ Accepts(i)
  <2>1. PICK old \in Txs : old = chain[i] /\ old.at = "none"
    BY <1>2 DEF Accepts, IInv, Types, TypeOK
  <2>2. PICK new : new = [old EXCEPT !.at = "pool"]
    OBVIOUS
  <2>3. new \in Txs /\ Moves(old, new)
    BY <2>1, <2>2 DEF Txs, Moves
  <2>4. chain' = [chain EXCEPT ![i] = new]
    BY <1>2, <2>1, <2>2
  <2>5. QED
    BY <2>1, <2>3, <2>4, OneMoves
<1>3. QED
  BY <1>1, <1>2 DEF Sent

LEMMA SendsKeeps ==
  ASSUME IInv, NEW p \in Procs, Sends(p)
  PROVE  IInv'
<1>1. /\ task[p].pc = "send" /\ Released(p)
      /\ Goes(p, "reconcile") \/ GoesOn(p)
      /\ Sent(task[p].of) \/ UNCHANGED chain
      /\ UNCHANGED <<source, journal, account, fees, scanLock, binding>>
  BY DEF Sends, signer
<1>2. task[p].of \in Intents
  BY <1>1 DEF IInv, Fits, Target
<1>3. ChainMoves
  BY <1>1, <1>2, SentMoves
<1>4. QED
  BY <1>1, <1>3, GoesKeeps, GoesOnKeeps DEF Steps, IInv, Types, TypeOK

LEMMA CrashKeeps ==
  ASSUME IInv, NEW p \in Procs, Crash(p)
  PROVE  IInv'
<1>1. /\ UNCHANGED <<source, journal, account, fees, binding, chain>>
      /\ task' = [task EXCEPT ![p] = Idle]
      /\ scanLock' = (IF scanLock = p THEN "dead" ELSE scanLock)
      /\ signLock' = (IF signLock = p THEN "dead" ELSE signLock)
  BY DEF Crash, signer, world
<1>2. Fits(p, Idle)'
  BY DEF Idle, Fits, Target, Holds, Saw, Follows, Critical
<1>3. QED
  BY <1>1, <1>2, IdleIsTask, ChainStands, QuietStepKeeps DEF IInv, Types, TypeOK

-----------------------------------------------------------------------------
\* The operator and the chain.

LEMMA OutsideKeeps ==
  ASSUME IInv, ChainMoves, UNCHANGED <<source, signer, task>>, fees' \in [Tokens -> 0 .. MaxFees],
         scanLock' \in Procs \cup {None, "dead"}, signLock' \in Procs \cup {None, "dead"},
         \A p \in Procs : signLock = p => signLock' = p
  PROVE  IInv'
<1>1. UNCHANGED <<journal, account, binding, task>> /\ SeqGrows
  BY SeqStands DEF source, signer
<1>2. \A p \in Procs : Fits(p, task[p])'
  BY <1>1, OthersFit
<1>3. task' \in [Procs -> Tasks] /\ binding' \subseteq Tokens
  BY <1>1 DEF IInv, Types, TypeOK
<1>4. QED
  BY <1>1, <1>2, <1>3, QuietKeeps

LEMMA OperatorKeeps == ASSUME IInv, Operator PROVE IInv'
<1>1. CASE ClearsScan \/ ClearsSigner
  <2>1. /\ UNCHANGED <<source, signer, task, fees, chain>>
        /\ scanLock' \in Procs \cup {None, "dead"} /\ signLock' \in Procs \cup {None, "dead"}
        /\ \A p \in Procs : signLock = p => signLock' = p
    BY <1>1, EvmAssumption DEF ClearsScan, ClearsSigner, world, IInv, Types, TypeOK
  <2>2. QED
    BY <2>1, ChainStands, OutsideKeeps DEF IInv, Types, TypeOK
<1>2. ASSUME NEW i \in Intents, Rebroadcasts(i) PROVE IInv'
  <2>1. UNCHANGED <<source, signer, task, fees, scanLock, signLock>> /\ ChainMoves
    BY <1>2, SentMoves DEF Rebroadcasts, locks
  <2>2. QED
    BY <2>1, OutsideKeeps DEF IInv, Types, TypeOK
<1>3. QED
  BY <1>1, <1>2 DEF Operator

LEMMA MinesKeeps ==
  ASSUME IInv, NEW i \in Intents, NEW ok \in BOOLEAN, Mines(i, ok)
  PROVE  IInv'
<1>1. PICK amount : /\ amount = (IF ok /\ i[2] > 0 THEN fees[i[1]] ELSE 0) /\ chain[i].at = "pool"
                    /\ chain' = [chain EXCEPT ![i] = [at |-> "mined", block |-> @.block + 1,
                                                      ok |-> ok, amount |-> amount]]
                    /\ fees' = [fees EXCEPT ![i[1]] = @ - amount]
  BY DEF Mines
<1>2. /\ UNCHANGED <<source, signer, task, scanLock, signLock>>
  BY DEF Mines, OnlyChain, locks
<1>3. i[1] \in Tokens /\ fees[i[1]] \in 0 .. MaxFees /\ MaxFees \in Nat
  BY ClaimParts, EvmAssumption DEF IInv, Types, TypeOK
<1>4. amount \in 0 .. MaxFees /\ fees[i[1]] - amount \in 0 .. MaxFees
  BY <1>1, <1>3
<1>5. fees' \in [Tokens -> 0 .. MaxFees]
  BY <1>1, <1>3, <1>4 DEF IInv, Types, TypeOK
<1>6. PICK new : new = [at |-> "mined", block |-> chain[i].block + 1, ok |-> ok, amount |-> amount]
  OBVIOUS
<1>7. new \in Txs /\ Moves(chain[i], new)
  BY <1>1, <1>4, <1>6 DEF IInv, Types, TypeOK, Txs, Moves
<1>8. ChainMoves
  BY <1>1, <1>6, <1>7, OneMoves
<1>9. QED
  BY <1>2, <1>5, <1>8, OutsideKeeps DEF IInv, Types, TypeOK

LEMMA DeepensKeeps ==
  ASSUME IInv, NEW i \in Intents, Deepens(i)
  PROVE  IInv'
<1>1. /\ chain[i].at = "mined" /\ chain' = [chain EXCEPT ![i].at = "final"]
      /\ UNCHANGED <<source, signer, task, scanLock, signLock, fees>>
  BY DEF Deepens, OnlyChain, locks
<1>2. PICK old \in Txs : old = chain[i]
  BY DEF IInv, Types, TypeOK
<1>3. PICK new : new = [old EXCEPT !.at = "final"]
  OBVIOUS
<1>4. new \in Txs /\ Moves(chain[i], new)
  BY <1>1, <1>2, <1>3 DEF Txs, Moves
<1>5. ChainMoves
  BY <1>1, <1>2, <1>3, <1>4, OneMoves
<1>6. QED
  BY <1>1, <1>5, OutsideKeeps DEF IInv, Types, TypeOK

LEMMA ReorgsKeeps ==
  ASSUME IInv, NEW i \in Intents, Reorgs(i)
  PROVE  IInv'
<1>1. /\ chain[i].at = "mined" /\ fees[i[1]] + chain[i].amount <= MaxFees
      /\ chain' = [chain EXCEPT ![i] = [NoTx EXCEPT !.at = "pool", !.block = chain[i].block]]
      /\ fees' = [fees EXCEPT ![i[1]] = @ + chain[i].amount]
      /\ UNCHANGED <<source, signer, task, scanLock, signLock>>
  BY DEF Reorgs, OnlyChain, locks
<1>2. PICK old \in Txs : old = chain[i]
  BY DEF IInv, Types, TypeOK
<1>3. PICK new : new = [NoTx EXCEPT !.at = "pool", !.block = old.block]
  OBVIOUS
<1>4. new = [at |-> "pool", block |-> old.block, ok |-> FALSE, amount |-> 0]
  BY <1>3 DEF NoTx
<1>5. new \in Txs /\ Moves(chain[i], new)
  BY <1>1, <1>2, <1>4, EvmAssumption DEF Txs, Moves
<1>6. ChainMoves
  BY <1>1, <1>2, <1>3, <1>5, OneMoves
<1>7. i[1] \in Tokens /\ fees[i[1]] \in 0 .. MaxFees /\ chain[i].amount \in 0 .. MaxFees
  BY <1>2, ClaimParts DEF IInv, Types, TypeOK, Txs
<1>8. fees[i[1]] + chain[i].amount \in 0 .. MaxFees
  BY <1>1, <1>7, EvmAssumption
<1>9. fees' \in [Tokens -> 0 .. MaxFees]
  BY <1>1, <1>7, <1>8 DEF IInv, Types, TypeOK
<1>10. QED
  BY <1>1, <1>6, <1>9, OutsideKeeps DEF IInv, Types, TypeOK

LEMMA DropsKeeps ==
  ASSUME IInv, NEW i \in Intents, Drops(i)
  PROVE  IInv'
<1>1. /\ chain[i].at = "pool" /\ chain' = [chain EXCEPT ![i].at = "none"]
      /\ UNCHANGED <<source, signer, task, scanLock, signLock, fees>>
  BY DEF Drops, OnlyChain, locks
<1>2. PICK old \in Txs : old = chain[i]
  BY DEF IInv, Types, TypeOK
<1>3. PICK new : new = [old EXCEPT !.at = "none"]
  OBVIOUS
<1>4. new \in Txs /\ Moves(chain[i], new)
  BY <1>1, <1>2, <1>3 DEF Txs, Moves
<1>5. ChainMoves
  BY <1>1, <1>2, <1>3, <1>4, OneMoves
<1>6. QED
  BY <1>1, <1>5, OutsideKeeps DEF IInv, Types, TypeOK

LEMMA FeesKeep == ASSUME IInv, NEW k \in Tokens, Trades(k) \/ Sweeps(k) PROVE IInv'
<1>1. UNCHANGED <<source, signer, task, scanLock, signLock, chain>>
  BY DEF Trades, Sweeps, OnlyChain, locks
<1>2. fees' \in [Tokens -> 0 .. MaxFees]
  BY EvmAssumption DEF Trades, Sweeps, IInv, Types, TypeOK
<1>3. QED
  BY <1>1, <1>2, ChainStands, OutsideKeeps DEF IInv, Types, TypeOK

-----------------------------------------------------------------------------
\* The holder of the lock writes the records.

LEMMA SignerKeeps ==
  ASSUME IInv, NEW p \in Procs, NEW t \in Tasks, task[p].pc \in Critical,
         task' = [task EXCEPT ![p] = t], Fits(p, t)',
         UNCHANGED <<source, binding, chain, fees, scanLock, signLock>>,
         journal' \in [Intents -> Records], account' \in Records, Ahead'
  PROVE  IInv'
<1>1. ChainMoves /\ SeqGrows
  BY ChainStands, SeqStands DEF source
<1>2. Completed' /\ LotsAreFinal' /\ SequenceCounts'
  BY <1>1, BooksKeep
<1>3. /\ task' \in [Procs -> Tasks] /\ task'[p] = t
      /\ \A q \in Procs \ {p} : task'[q] = task[q] /\ task[q].pc \notin Critical
  BY Alone DEF IInv, Types
<1>4. \A q \in Procs \ {p} : Fits(q, task[q])'
  BY <1>1, <1>3, OthersFit
<1>5. Fits(p, task[p])'
  BY <1>3 DEF Fits, Target, Holds, Saw, Follows
<1>6. Types'
  <2>1. UNCHANGED <<seq, job, outbox>>
    BY DEF source
  <2>2. \A q \in Procs : task'[q].rest \subseteq Claims /\ task'[q].of \in Intents \cup {None}
    BY <1>3 DEF Tasks
  <2>3. QED
    BY <1>3, <2>1, <2>2 DEF IInv, Types, TypeOK
<1>7. QED
  BY <1>2, <1>4, <1>5, <1>6 DEF IInv

LEMMA ReservesKeeps ==
  ASSUME IInv, NEW p \in Procs, Reserves(p)
  PROVE  IInv'
<1>1. PICK n \in Nonces : n = task[p].nonce
  BY DEF Reserves, IInv, Fits, Holds
<1>2. /\ task[p].pc = "reserve" /\ n \in Nat
      /\ UNCHANGED <<source, seq, journal, binding, chain, fees, scanLock>>
  BY <1>1 DEF Reserves, source, world, Nonces
<1>3. CASE ~NonceFree(n)
  <2>1. GoesOn(p) /\ Released(p) /\ UNCHANGED account
    BY <1>1, <1>3 DEF Reserves
  <2>2. QED
    BY <1>2, <2>1, ChainStands, GoesOnKeeps DEF IInv, Types, TypeOK
<1>4. CASE NonceFree(n)
  <2>1. PICK new : new = [status |-> "reserved", nonce |-> n]
    OBVIOUS
  <2>2. account' = new /\ Goes(p, "mark") /\ UNCHANGED signLock
    BY <1>1, <1>4, <2>1 DEF Reserves
  <2>3. new \in Records /\ new.status = "reserved" /\ new.nonce = n
    BY <2>1 DEF Records
  <2>4. \A i \in Intents : journal[i].status # "none" => journal[i].nonce < n
    BY <1>2, <1>4 DEF NonceFree, IInv, Ahead
  <2>5. Ahead'
    BY <1>2, <2>2, <2>3, <2>4 DEF IInv, Ahead
  <2>6. PICK t \in Tasks :
          /\ task' = [task EXCEPT ![p] = t]
          /\ t.pc = "mark" /\ t.kind = task[p].kind /\ t.rest = task[p].rest /\ t.of = task[p].of
          /\ t.nonce = n
    BY <1>1, <2>2, GoesToTask DEF Steps
  <2>7. Fits(p, task[p])
    BY DEF IInv
  <2>8. Fits(p, t)'
    BY <1>2, <2>2, <2>3, <2>4, <2>6, <2>7 DEF Fits, Target, Holds, Saw, Follows, Due, Critical
  <2>9. QED
    BY <1>2, <2>2, <2>3, <2>5, <2>6, <2>8, SignerKeeps DEF Critical, IInv, Types, TypeOK
<1>5. QED
  BY <1>3, <1>4

\* The holder puts its intent's record.
LEMMA PutKeeps ==
  ASSUME IInv, NEW p \in Procs, task[p].pc \in {"mark", "sign"}, NEW record \in Records,
         Put(task[p].of, record), record.status # "none", account.status # "none",
         record.nonce \in Nat, record.nonce <= account.nonce,
         \A i \in Intents : i # task[p].of /\ journal[i].status # "none"
                              => journal[i].nonce # record.nonce,
         task[p].pc = "mark" => record.status = "reserved",
         Goes(p, IF task[p].pc = "mark" THEN "sign" ELSE "settle"),
         UNCHANGED <<source, account, binding, chain, fees, scanLock, signLock>>
  PROVE  IInv'
<1>1. PICK of \in Intents : of = task[p].of
  BY DEF IInv, Fits, Target
<1>2. /\ journal' = [journal EXCEPT ![of] = record] /\ journal' \in [Intents -> Records]
      /\ journal'[of] = record /\ \A i \in Intents : i # of => journal'[i] = journal[i]
  BY <1>1 DEF Put, IInv, Types, TypeOK
<1>3. Ahead'
  BY <1>1, <1>2 DEF IInv, Ahead
<1>4. PICK t \in Tasks :
        /\ task' = [task EXCEPT ![p] = t]
        /\ t.pc = (IF task[p].pc = "mark" THEN "sign" ELSE "settle")
        /\ t.kind = task[p].kind /\ t.rest = task[p].rest /\ t.of = of
  BY <1>1, GoesToTask DEF Steps
<1>5. Fits(p, task[p]) /\ UNCHANGED seq
  BY DEF IInv, source
<1>6. Fits(p, t)'
  BY <1>1, <1>2, <1>4, <1>5 DEF Fits, Target, Holds, Saw, Follows, Due, Critical
<1>7. account' \in Records
  BY DEF IInv, Types, TypeOK
<1>8. QED
  BY <1>2, <1>3, <1>4, <1>6, <1>7, SignerKeeps DEF Critical

LEMMA MarksKeeps ==
  ASSUME IInv, NEW p \in Procs, Marks(p)
  PROVE  IInv'
<1>1. /\ task[p].pc = "mark" /\ Goes(p, "sign")
      /\ UNCHANGED <<source, account, binding, chain, fees, scanLock, signLock>>
  BY DEF Marks, locks, world
<1>2. PICK record : record = [status |-> "reserved", nonce |-> task[p].nonce]
  OBVIOUS
<1>3. /\ task[p].nonce \in Nonces /\ account.status = "reserved" /\ account.nonce = task[p].nonce
      /\ \A i \in Intents : journal[i].status # "none" => journal[i].nonce < task[p].nonce
      /\ \A i \in Intents : journal[i].status # "none" => journal[i].nonce \in Nat
  BY <1>1 DEF IInv, Fits, Holds, Ahead
<1>4. /\ record \in Records /\ record.status = "reserved" /\ record.nonce = task[p].nonce
      /\ record.nonce \in Nat
  BY <1>2, <1>3 DEF Records, Nonces
<1>5. Put(task[p].of, record)
  BY <1>2 DEF Marks
<1>6. QED
  BY <1>1, <1>3, <1>4, <1>5, PutKeeps

LEMMA SignsKeeps ==
  ASSUME IInv, NEW p \in Procs, Signs(p)
  PROVE  IInv'
<1>1. /\ task[p].pc = "sign" /\ Goes(p, "settle")
      /\ UNCHANGED <<source, account, binding, chain, fees, scanLock, signLock>>
  BY DEF Signs, locks, world
<1>2. PICK of \in Intents : of = task[p].of
  BY <1>1 DEF IInv, Fits, Target
<1>3. PICK old \in Records : old = journal[of] /\ old.status = "reserved"
  BY <1>1, <1>2 DEF IInv, Fits, Holds, Types, TypeOK
<1>4. PICK record : record = [old EXCEPT !.status = "signed"]
  OBVIOUS
<1>5. record \in Records /\ record.status = "signed" /\ record.nonce = old.nonce
  BY <1>4 DEF Records
<1>6. Put(task[p].of, record)
  BY <1>2, <1>3, <1>4 DEF Signs, Signed
<1>7. /\ account.status # "none" /\ record.nonce \in Nat /\ record.nonce <= account.nonce
      /\ \A i \in Intents : i # of /\ journal[i].status # "none"
                              => journal[i].nonce # record.nonce
  BY <1>3, <1>5 DEF IInv, Ahead
<1>8. QED
  BY <1>1, <1>2, <1>5, <1>6, <1>7, PutKeeps

LEMMA SettlesKeeps ==
  ASSUME IInv, NEW p \in Procs, Settles(p)
  PROVE  IInv'
<1>1. /\ task[p].pc = "settle" /\ Goes(p, "send") /\ account.status = "reserved"
      /\ account' = [account EXCEPT !.status = "signed"]
      /\ UNCHANGED <<source, seq, journal, binding, chain, fees, scanLock, signLock>>
  BY DEF Settles, source, locks, world, IInv, Fits, Holds
<1>2. account' \in Records /\ account'.status = "signed" /\ account'.nonce = account.nonce
  BY <1>1 DEF Records, IInv, Types, TypeOK
<1>3. Ahead'
  BY <1>1, <1>2 DEF IInv, Ahead
<1>4. PICK t \in Tasks :
        /\ task' = [task EXCEPT ![p] = t]
        /\ t.pc = "send" /\ t.kind = task[p].kind /\ t.rest = task[p].rest /\ t.of = task[p].of
  BY <1>1, GoesToTask DEF Steps
<1>5. Fits(p, task[p])
  BY DEF IInv
<1>6. Fits(p, t)'
  BY <1>1, <1>4, <1>5 DEF Fits, Target, Holds, Saw, Follows, Due, Critical
<1>7. QED
  BY <1>1, <1>2, <1>3, <1>4, <1>6, SignerKeeps DEF Critical, IInv, Types, TypeOK

-----------------------------------------------------------------------------
\* The source writes its books.

LEMMA SourceKeeps ==
  ASSUME IInv, SeqGrows, NEW p \in Procs, NEW t \in Tasks, task' = [task EXCEPT ![p] = t],
         Fits(p, t)', UNCHANGED <<signer, world, locks>>,
         seq' \in [Tokens -> Nat \cup {None}], \A k \in Tokens : seq'[k] \in 0 .. MaxClaims[k] \cup {None},
         job' \in [Intents -> {"none", "pending", "complete"}],
         outbox' \in [Claims -> 1 .. MaxFees \cup {None}],
         Completed', LotsAreFinal', SequenceCounts'
  PROVE  IInv'
<1>1. UNCHANGED <<journal, account, binding, chain, fees, scanLock, signLock>>
  BY DEF signer, world, locks
<1>2. /\ task' \in [Procs -> Tasks] /\ task'[p] = t
      /\ \A q \in Procs \ {p} : task'[q] = task[q]
  BY DEF IInv, Types
<1>3. \A q \in Procs \ {p} : Fits(q, task[q])'
  BY <1>1, <1>2, ChainStands, OthersFit
<1>4. Fits(p, task[p])'
  BY <1>2 DEF Fits, Target, Holds, Saw, Follows
<1>5. Types'
  <2>1. \A q \in Procs : task'[q].rest \subseteq Claims /\ task'[q].of \in Intents \cup {None}
    BY <1>2 DEF Tasks
  <2>2. QED
    BY <1>1, <1>2, <2>1 DEF IInv, Types, TypeOK
<1>6. Ahead'
  BY <1>1 DEF IInv, Ahead
<1>7. QED
  BY <1>3, <1>4, <1>5, <1>6 DEF IInv

\* No claim is completed.
LEMMA PendingKeeps ==
  ASSUME IInv, UNCHANGED <<seq, outbox, chain>>,
         \A i \in Claims : job'[i] = "complete" <=> job[i] = "complete"
  PROVE  Completed' /\ LotsAreFinal' /\ SequenceCounts'
<1>1. Completed' /\ LotsAreFinal'
  BY DEF IInv, Completed, LotsAreFinal
<1>2. ASSUME NEW k \in Tokens
      PROVE  {n \in 1 .. MaxClaims[k] : job'[<<k, n>>] = "complete"}
               = {n \in 1 .. MaxClaims[k] : job[<<k, n>>] = "complete"}
  BY ClaimParts
<1>3. SequenceCounts'
  BY <1>2 DEF IInv, SequenceCounts
<1>4. QED
  BY <1>1, <1>3

LEMMA BuildsKeeps ==
  ASSUME IInv, NEW p \in Procs, Builds(p)
  PROVE  IInv'
<1>1. PICK i \in Claims : i = task[p].of
  BY DEF Builds, IInv, Fits, Target
<1>2. /\ task[p].pc = "build" /\ UNCHANGED <<seq, outbox, signer, locks, world>>
      /\ UNCHANGED <<journal, account, binding, chain, fees, scanLock, signLock>>
  BY DEF Builds, signer, locks, world
<1>3. CASE ~(Claimable(i) /\ Bound(i) /\ job[i] = "none")
  <2>1. GoesOn(p) /\ UNCHANGED source
    BY <1>1, <1>2, <1>3 DEF Builds, source
  <2>2. QED
    BY <1>2, <2>1, ChainStands, GoesOnKeeps DEF IInv, Types, TypeOK
<1>4. CASE Claimable(i) /\ Bound(i) /\ job[i] = "none"
  <2>1. job' = [job EXCEPT ![i] = "pending"] /\ Goes(p, "execute")
    BY <1>1, <1>4 DEF Builds
  <2>2. /\ job' \in [Intents -> {"none", "pending", "complete"}]
        /\ \A j \in Claims : job'[j] = "complete" <=> job[j] = "complete"
    BY <1>4, <2>1, ClaimParts DEF IInv, Types, TypeOK
  <2>3. PICK t \in Tasks :
          /\ task' = [task EXCEPT ![p] = t]
          /\ t.pc = "execute" /\ t.kind = task[p].kind /\ t.rest = task[p].rest /\ t.of = task[p].of
    BY <2>1, GoesToTask DEF Steps
  <2>4. Fits(p, task[p])
    BY DEF IInv
  <2>5. Fits(p, t)'
    BY <1>2, <2>3, <2>4 DEF Fits, Target, Holds, Saw, Follows, Due, Critical
  <2>6. SeqGrows
    BY <1>2, SeqStands
  <2>7. QED
    BY <1>2, <2>2, <2>3, <2>5, <2>6, PendingKeeps, SourceKeeps DEF IInv, Types, TypeOK
<1>5. QED
  BY <1>3, <1>4

LEMMA LaunchStartsKeeps ==
  ASSUME IInv, NEW p \in Procs, NEW k \in Tokens, LaunchStarts(p, k)
  PROVE  IInv'
<1>1. /\ task[p] = Idle /\ job' = [job EXCEPT ![LaunchOf(k)] = "pending"]
      /\ task' = [task EXCEPT ![p] = [Idle EXCEPT !.pc = "execute", !.kind = "launch",
                                                 !.of = LaunchOf(k)]]
      /\ UNCHANGED <<seq, outbox, signer, locks, world, chain>>
  BY DEF LaunchStarts, world
<1>2. LaunchOf(k) \in Intents /\ LaunchOf(k) \notin Claims /\ LaunchOf(k)[2] = 0
  BY ClaimParts
<1>3. /\ job' \in [Intents -> {"none", "pending", "complete"}]
      /\ \A j \in Claims : job'[j] = "complete" <=> job[j] = "complete"
  BY <1>1, <1>2, ClaimParts DEF IInv, Types, TypeOK
<1>4. PICK t : t = [Idle EXCEPT !.pc = "execute", !.kind = "launch", !.of = LaunchOf(k)]
  OBVIOUS
<1>5. t = [pc |-> "execute", kind |-> "launch", rest |-> {}, of |-> LaunchOf(k), nonce |-> None,
           seen |-> NoTx]
  BY <1>4 DEF Idle
<1>6. t \in Tasks /\ t.pc = "execute" /\ t.kind = "launch" /\ t.rest = {} /\ t.of = LaunchOf(k)
  BY <1>2, <1>5, IdleIsTask DEF Tasks, Steps
<1>7. Fits(p, t)'
  BY <1>2, <1>6 DEF Fits, Target, Holds, Saw, Follows, Critical
<1>8. SeqGrows
  BY <1>1, SeqStands
<1>9. QED
  BY <1>1, <1>3, <1>4, <1>6, <1>7, <1>8, PendingKeeps, SourceKeeps DEF IInv, Types, TypeOK

LEMMA RegistersKeeps ==
  ASSUME IInv, NEW p \in Procs, Registers(p)
  PROVE  IInv'
<1>1. PICK k \in Tokens : k = task[p].of[1]
  BY ClaimParts DEF Registers, IInv, Fits, Target
<1>2. /\ seq' = (IF seq[k] = None THEN [seq EXCEPT ![k] = 0] ELSE seq)
      /\ GoesOn(p) /\ UNCHANGED <<job, outbox, chain, signer, locks, world>>
  BY <1>1 DEF Registers, world
<1>3. MaxClaims[k] \in Nat
  BY EvmAssumption
<1>4. /\ seq' \in [Tokens -> Nat \cup {None}]
      /\ \A j \in Tokens : seq'[j] \in 0 .. MaxClaims[j] \cup {None}
      /\ \A j \in Tokens : seq[j] # None => seq'[j] = seq[j]
  BY <1>2, <1>3 DEF IInv, Types, TypeOK
<1>5. SeqGrows
  BY <1>4 DEF SeqGrows, IInv, Types
<1>6. PICK t \in Tasks : /\ task' = [task EXCEPT ![p] = t]
                         /\ t.pc \in {"idle", "next"} /\ t.kind = "scan" /\ t.rest \subseteq task[p].rest
  BY <1>2, GoesOnToTask
<1>7. Fits(p, t)'
  BY <1>5, <1>6, RestFits
<1>8. Completed'
  <2>1. \A i \in Claims : i[1] \in Tokens
    BY ClaimParts
  <2>2. QED
    BY <1>2, <1>4, <2>1, EvmAssumption DEF IInv, Completed, Types
<1>9. LotsAreFinal'
  BY <1>2 DEF IInv, LotsAreFinal
<1>10. SequenceCounts'
  <2>1. ASSUME NEW j \in Tokens, seq'[j] # None
        PROVE  {n \in 1 .. MaxClaims[j] : job'[<<j, n>>] = "complete"} = 1 .. seq'[j]
    <3>1. CASE seq[j] # None
      BY <1>2, <1>4, <3>1 DEF IInv, SequenceCounts
    <3>2. CASE seq[j] = None
      <4>1. seq'[j] = 0
        BY <1>2, <2>1, <3>2 DEF IInv, Types
      <4>2. \A n \in 1 .. MaxClaims[j] : job'[<<j, n>>] # "complete"
        <5>1. \A n \in 1 .. MaxClaims[j] : <<j, n>> \in Claims /\ <<j, n>>[1] = j
          BY ClaimParts
        <5>2. QED
          BY <1>2, <3>2, <5>1 DEF IInv, Completed
      <4>3. 1 .. 0 = {}
        OBVIOUS
      <4>4. QED
        BY <4>1, <4>2, <4>3
    <3>3. QED
      BY <3>1, <3>2
  <2>2. QED
    BY <2>1 DEF SequenceCounts
<1>11. QED
  BY <1>2, <1>4, <1>5, <1>6, <1>7, <1>8, <1>9, <1>10, SourceKeeps DEF IInv, Types, TypeOK

LEMMA CommitsKeeps ==
  ASSUME IInv, NEW p \in Procs, Commits(p)
  PROVE  IInv'
<1>1. PICK i \in Claims : i = task[p].of /\ Due(i)
  BY DEF Commits, IInv, Fits, Target, Follows
<1>2. PICK amount \in 0 .. MaxFees : amount = task[p].seen.amount
  BY DEF IInv, Types, Tasks, Txs
<1>3. /\ chain[i].at = "final" /\ chain[i].ok /\ amount = chain[i].amount
  BY <1>1, <1>2 DEF Commits, IInv, Fits, Saw
<1>4. GoesOn(p) /\ UNCHANGED <<signer, locks, world, chain>>
  BY DEF Commits, world
<1>5. PICK k \in Tokens, n \in Nat : /\ i = <<k, n>> /\ i[1] = k /\ i[2] = n
                                     /\ n \in 1 .. MaxClaims[k]
  BY ClaimParts
<1>6. CASE ~(amount = 0 \/ Fresh(i))
  <2>1. UNCHANGED source
    BY <1>1, <1>2, <1>6 DEF Commits
  <2>2. QED
    BY <1>4, <2>1, ChainStands, GoesOnKeeps DEF signer, locks, world, IInv, Types, TypeOK
<1>7. CASE amount = 0 \/ Fresh(i)
  <2>1. /\ outbox' = (IF amount = 0 THEN outbox ELSE [outbox EXCEPT ![i] = amount])
        /\ job' = [job EXCEPT ![i] = "complete"]
        /\ seq' = Numbered(i)
    BY <1>1, <1>2, <1>7 DEF Commits
  <2>2. /\ n \in Nat /\ MaxClaims[k] \in Nat /\ seq[k] \in Nat /\ seq[k] # None /\ n <= seq[k] + 1
        /\ seq[k] \in 0 .. MaxClaims[k]
    BY <1>1, <1>5, EvmAssumption DEF Due, IInv, Types, TypeOK
  <2>3. seq' = (IF seq[k] = n - 1 THEN [seq EXCEPT ![k] = n] ELSE seq)
    <3>1. seq' = (IF seq[k] = n - 1 THEN [seq EXCEPT ![k] = seq[k] + 1] ELSE seq)
      BY <1>5, <2>1 DEF Numbered
    <3>2. seq[k] = n - 1 => seq[k] + 1 = n
      BY <2>2
    <3>3. QED
      BY <3>1, <3>2
  <2>4. /\ seq' \in [Tokens -> Nat \cup {None}]
        /\ \A j \in Tokens : seq'[j] \in 0 .. MaxClaims[j] \cup {None}
        /\ \A j \in Tokens : j # k => seq'[j] = seq[j]
        /\ seq'[k] = IF seq[k] = n - 1 THEN n ELSE seq[k]
    <3>1. /\ seq \in [Tokens -> Nat \cup {None}]
          /\ \A j \in Tokens : seq[j] \in 0 .. MaxClaims[j] \cup {None}
      BY DEF IInv, Types, TypeOK
    <3>2. n \in 0 .. MaxClaims[k]
      BY <1>5, <2>2
    <3>3. CASE seq[k] = n - 1
      BY <2>3, <3>1, <3>2, <3>3
    <3>4. CASE seq[k] # n - 1
      BY <2>3, <3>1, <3>4
    <3>5. QED
      BY <3>3, <3>4
  <2>5. SeqGrows
    BY <2>2, <2>4, EvmAssumption DEF SeqGrows, IInv, Types
  <2>6. /\ job' \in [Intents -> {"none", "pending", "complete"}] /\ job'[i] = "complete"
        /\ \A j \in Claims : j # i => job'[j] = job[j]
    BY <2>1, ClaimParts DEF IInv, Types, TypeOK
  <2>7. /\ outbox' \in [Claims -> 1 .. MaxFees \cup {None}]
        /\ \A j \in Claims : j # i => outbox'[j] = outbox[j]
        /\ outbox'[i] = IF amount = 0 THEN outbox[i] ELSE amount
    BY <2>1, EvmAssumption DEF IInv, Types, TypeOK
  <2>8. Completed'
    <3>1. \A j \in Claims : j[1] \in Tokens
      BY ClaimParts
    <3>2. \A j \in Tokens : seq[j] # None => seq'[j] # None
      BY <2>5 DEF SeqGrows
    <3>3. seq[i[1]] # None
      BY <1>5, <2>2
    <3>4. QED
      BY <1>3, <1>4, <2>6, <3>1, <3>2, <3>3 DEF IInv, Completed
  <2>9. LotsAreFinal'
    <3>1. ASSUME NEW j \in Claims
          PROVE  /\ outbox'[j] # None =>
                      chain[j].at = "final" /\ chain[j].ok /\ chain[j].amount = outbox'[j]
                 /\ job'[j] = "complete" /\ chain[j].amount > 0 => outbox'[j] # None
      <4>1. CASE j # i
        BY <2>6, <2>7, <4>1 DEF IInv, LotsAreFinal
      <4>2. CASE j = i
        BY <1>3, <2>7, <4>2, EvmAssumption DEF IInv, LotsAreFinal
      <4>3. QED
        BY <4>1, <4>2
    <3>2. QED
      BY <1>4, <3>1 DEF LotsAreFinal
  <2>10. SequenceCounts'
    <3>1. ASSUME NEW j \in Tokens, seq'[j] # None
          PROVE  {m \in 1 .. MaxClaims[j] : job'[<<j, m>>] = "complete"} = 1 .. seq'[j]
      <4>1. CASE j # k
        <5>1. \A m \in 1 .. MaxClaims[j] : job'[<<j, m>>] = job[<<j, m>>]
          BY <1>5, <2>6, <4>1, ClaimParts
        <5>2. seq[j] # None /\ seq'[j] = seq[j]
          BY <2>4, <3>1, <4>1
        <5>3. {m \in 1 .. MaxClaims[j] : job[<<j, m>>] = "complete"} = 1 .. seq[j]
          BY <5>2 DEF IInv, SequenceCounts
        <5>4. QED
          BY <5>1, <5>2, <5>3
      <4>2. CASE j = k
        <5>1. \A m \in 1 .. MaxClaims[k] : m # n => job'[<<k, m>>] = job[<<k, m>>]
          BY <1>5, <2>6, ClaimParts
        <5>2. {m \in 1 .. MaxClaims[k] : job[<<k, m>>] = "complete"} = 1 .. seq[k]
          BY <2>2 DEF IInv, SequenceCounts
        <5>3. job'[<<k, n>>] = "complete"
          BY <1>5, <2>6
        <5>4. seq'[k] \in Nat /\ seq'[k] <= MaxClaims[k]
          BY <1>5, <2>2, <2>4
        <5>5. \A m \in 1 .. MaxClaims[k] : job'[<<k, m>>] = "complete" <=> m \in 1 .. seq'[k]
          <6>1. \A m \in 1 .. MaxClaims[k] : job[<<k, m>>] = "complete" <=> m \in 1 .. seq[k]
            BY <5>2
          <6>2. QED
            BY <2>2, <2>4, <5>1, <5>3, <6>1
        <5>6. 1 .. seq'[k] \subseteq 1 .. MaxClaims[k]
          BY <2>2, <5>4
        <5>7. QED
          BY <4>2, <5>5, <5>6
      <4>3. QED
        BY <4>1, <4>2
    <3>2. QED
      BY <3>1 DEF SequenceCounts
  <2>11. PICK t \in Tasks : /\ task' = [task EXCEPT ![p] = t]
                            /\ t.pc \in {"idle", "next"} /\ t.kind = "scan"
                            /\ t.rest \subseteq task[p].rest
    BY <1>4, GoesOnToTask
  <2>12. Fits(p, t)'
    BY <2>5, <2>11, RestFits
  <2>13. QED
    BY <1>4, <2>4, <2>5, <2>6, <2>7, <2>8, <2>9, <2>10, <2>11, <2>12, SourceKeeps
<1>8. QED
  BY <1>6, <1>7

-----------------------------------------------------------------------------
\* The whole system.

LEMMA StutterKeeps == ASSUME IInv, UNCHANGED vars PROVE IInv'
<1>1. UNCHANGED <<source, signer, task, fees, scanLock, signLock, chain>>
  BY DEF vars, locks, world
<1>2. QED
  BY <1>1, ChainStands, OutsideKeeps DEF IInv, Types, TypeOK

LEMMA Inductive == IInv /\ [Next]_vars => IInv'
<1> SUFFICES ASSUME IInv, [Next]_vars PROVE IInv'
  OBVIOUS
<1>1. ASSUME NEW p \in Procs, Execution(p) PROVE IInv'
  BY <1>1, EntersKeeps, CountsKeeps, ReservesKeeps, MarksKeeps, SignsKeeps, SettlesKeeps,
     SendsKeeps, ReceiptKeeps, ConfirmsKeeps, RegistersKeeps, CommitsKeeps DEF Execution
<1>2. ASSUME NEW p \in Procs, Work(p) PROVE IInv'
  BY <1>1, <1>2, ScanStartsKeeps, ScanEndsKeeps, BuildsKeeps, TakesKeeps, LaunchStartsKeeps
     DEF Work
<1>3. ASSUME NEW p \in Procs, Rejects(p) \/ Crash(p) PROVE IInv'
  BY <1>3, RejectsKeeps, CrashKeeps
<1>4. CASE Chain
  BY <1>4, FeesKeep, MinesKeeps, DeepensKeeps, ReorgsKeeps, DropsKeeps DEF Chain
<1>5. CASE Operator
  BY <1>5, OperatorKeeps
<1>6. CASE UNCHANGED vars
  BY <1>6, StutterKeeps
<1>7. QED
  BY <1>2, <1>3, <1>4, <1>5, <1>6 DEF Next

LEMMA Invariant == Spec => []IInv
<1>1. Init => IInv
  BY InitIInv
<1>2. IInv /\ [Next]_vars => IInv'
  BY Inductive
<1>3. QED
  BY <1>1, <1>2, PTL DEF Spec

\* EvmExecution.execute() under the journal's lock: through crashes, stale locks,
\* forgetful pools and raced scans, two intents are never signed for one nonce.
THEOREM NoncesAreSignedOnce == Spec => []NonceOnce
<1>1. IInv => NonceOnce
  BY DEF IInv, Ahead, NonceOnce
<1>2. QED
  BY <1>1, Invariant, PTL

\* The outbox of evm-source.ts: each claim's lot is what it paid out in a final block,
\* and a token's sequence counts its completed claims, whichever scans raced.
THEOREM LotsAreCounted == Spec => []LotsCount
<1>1. IInv => LotsCount
  BY DEF IInv, Types, LotsCount
<1>2. QED
  BY <1>1, Invariant, PTL

=============================================================================
