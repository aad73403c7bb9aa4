------------------------- MODULE TaskStorage_proofs -------------------------
(***************************************************************************)
(* Proofs about TaskStorage, for any number of processes and projects.     *)
(***************************************************************************)
EXTENDS TaskStorage, TLAPS

USE ProcsAssumption, RootsAssumption, BoundsAssumption

-----------------------------------------------------------------------------
(***************************************************************************)
(* Types                                                                   *)
(***************************************************************************)
LEMMA DiskType ==
    ASSUME TypeOK, NEW r \in Roots
    PROVE  Disk(r) \in Contents
BY DEF TypeOK, File, Disk, Contents

LEMMA EmptyTypes == FreshMemory \in Memory /\ NoTransaction \in Transaction
BY DEF FreshMemory, Memory, Contents, AllOps, NoTransaction, Transaction, NoOp

\* Every state component keeps its type.  (Model of the Rust types of
\* TaskRepository, StorageLock and McpServer.)
THEOREM TypeCorrect == Spec => []TypeOK
<1>1. Init => TypeOK
  BY EmptyTypes DEF Init, TypeOK, File, NoFile, Contents, AllOps, OpStates, PCs
<1>2. TypeOK /\ [Next]_vars => TypeOK'
  <2> SUFFICES ASSUME TypeOK, [Next]_vars PROVE TypeOK' OBVIOUS
  <2> USE EmptyTypes DEF TypeOK
  <2>1. ASSUME NEW p \in Procs, Launch(p) PROVE TypeOK'
    <3>1. CASE p \in Servers
      BY <2>1, <3>1 DEF Launch, disk, history, PCs
    <3>2. CASE p \notin Servers
      <4>1. PICK job \in Jobs : txn' = [txn EXCEPT ![p].job = job]
        BY <2>1, <3>2 DEF Launch, Jobs
      <4>2. txn' \in [Procs -> Transaction]
        BY <4>1 DEF Transaction
      <4>3. QED
        BY <2>1, <3>2, <4>2 DEF Launch, disk, history, PCs
    <3>3. QED
      BY <3>1, <3>2
  <2>2. ASSUME NEW p \in Procs, Request(p) PROVE TypeOK'
    BY <2>2 DEF Request, disk, history, PCs, Transaction, Jobs
  <2>3. ASSUME NEW p \in Procs, Stop(p) PROVE TypeOK'
    BY <2>3 DEF Stop, Unlock, Leave, Conclude, PCs, OpStates
  <2>4. ASSUME NEW p \in Procs, Acquire(p) PROVE TypeOK'
    BY <2>4 DEF Acquire, history, PCs
  <2>5. ASSUME NEW p \in Procs, Refuse(p) PROVE TypeOK'
    BY <2>5 DEF Refuse, Unlock, Leave, Wait, history, PCs
  <2>6. ASSUME NEW p \in Procs, ReloadCached(p) PROVE TypeOK'
    <3>1. PICK D \in SUBSET Roots : mem' = [mem EXCEPT ![p].dirty = @ \cup D]
      BY <2>6 DEF ReloadCached
    <3>2. mem' \in [Procs -> Memory]
      BY <3>1 DEF Memory
    <3>3. QED
      BY <2>6, <3>2 DEF ReloadCached, AfterReload, disk, history, PCs
  <2>7. ASSUME NEW p \in Procs, ReloadFromDisk(p) PROVE TypeOK'
    <3>1. LoadedProjects \in [Roots -> Contents]
      BY DiskType DEF LoadedProjects
    <3>2. QED
      BY <2>7, <3>1 DEF ReloadFromDisk, AfterReload, disk, history, PCs, Memory
  <2>8. ASSUME NEW p \in Procs, Apply(p) PROVE TypeOK'
    <3>1. PICK n \in Ops, R \in SUBSET Roots :
             /\ opState' = [opState EXCEPT ![n] = "running"]
             /\ opRoots' = [opRoots EXCEPT ![n] = R]
             /\ txn' = [txn EXCEPT ![p].op = n]
             /\ mem' = [mem EXCEPT
                   ![p].projects = [r \in Roots |-> IF r \in R THEN @[r] \cup {n} ELSE @[r]],
                   ![p].dirty = @ \cup R]
      <4>1. Targets(p) \subseteq SUBSET Roots
        BY DEF Targets
      <4>2. QED
        BY <2>8, <4>1 DEF Apply
    <3>2. n \in AllOps
      BY DEF Ops, AllOps
    <3>3. [r \in Roots |-> IF r \in R THEN mem[p].projects[r] \cup {n} ELSE mem[p].projects[r]]
             \in [Roots -> Contents]
      BY <3>2 DEF Memory, Contents
    <3>4. mem' \in [Procs -> Memory]
      BY <3>1, <3>3 DEF Memory
    <3>5. txn' \in [Procs -> Transaction]
      BY <3>1, <3>2 DEF Transaction
    <3>6. QED
      BY <2>8, <3>1, <3>2, <3>4, <3>5 DEF Apply, disk, PCs, OpStates
  <2>9. ASSUME NEW p \in Procs, Answer(p) PROVE TypeOK'
    BY <2>9 DEF Answer, Succeed, Unlock, Conclude, Leave, Wait, disk, history, PCs, OpStates
  <2>10. ASSUME NEW p \in Procs, LoadOnly(p) PROVE TypeOK'
    BY <2>10 DEF LoadOnly, Unlock, Leave, Wait, history, PCs
  <2>11. ASSUME NEW p \in Procs, CommandError(p) PROVE TypeOK'
    BY <2>11 DEF CommandError, Unlock, Leave, history, PCs
  <2>12. ASSUME NEW p \in Procs, SaveDone(p), UNCHANGED <<revision, file>> PROVE TypeOK'
    <3>1. txn[p].issued \in Nat /\ txn[p].op \in AllOps /\ mem[p].seen \in Nat
      BY DEF Transaction, Memory
    <3>2. mem' \in [Procs -> Memory]
      <4>1. [mem EXCEPT ![p].dirty = {}, ![p].seen = IF txn[p].issued = 0 THEN @ ELSE txn[p].issued]
               \in [Procs -> Memory]
        BY <3>1 DEF Memory
      <4>2. QED
        BY <2>12, <4>1 DEF SaveDone, Leave
    <3>3. QED
      BY <2>12, <3>1, <3>2 DEF SaveDone, Succeed, Unlock, Conclude, Leave, Wait, PCs, OpStates
  <2>13. ASSUME NEW p \in Procs, WriteRevision(p) PROVE TypeOK'
    <3>1. PICK W \in SUBSET Roots :
             txn' = [txn EXCEPT ![p].toWrite = W, ![p].issued = revision + 1]
      BY <2>13 DEF WriteRevision, Memory
    <3>2. txn' \in [Procs -> Transaction]
      <4>1. revision + 1 \in Nat
        OBVIOUS
      <4>2. [txn[p] EXCEPT !.toWrite = W, !.issued = revision + 1] \in Transaction
        BY <4>1 DEF Transaction
      <4>3. txn' = [txn EXCEPT ![p] = [txn[p] EXCEPT !.toWrite = W, !.issued = revision + 1]]
        BY <3>1
      <4>4. QED
        BY <4>2, <4>3
    <3>3. QED
      BY <2>13, <3>2 DEF WriteRevision, history, PCs
  <2>14. ASSUME NEW p \in Procs, WriteProject(p) PROVE TypeOK'
    <3>1. PICK r \in Roots :
             /\ file' = [file EXCEPT ![PathOf[r]] = [root |-> r, ops |-> mem[p].projects[r]]]
             /\ txn' = [txn EXCEPT ![p].toWrite = @ \ {r}]
      BY <2>14 DEF WriteProject, Transaction
    <3>2. txn' \in [Procs -> Transaction]
      BY <3>1 DEF Transaction
    <3>3. mem[p].projects[r] \in Contents
      BY DEF Memory
    <3>4. file' \in [Paths -> File]
      BY <3>1, <3>3 DEF File
    <3>5. QED
      BY <2>14, <3>2, <3>4 DEF WriteProject, history
  <2>15. ASSUME NEW p \in Procs, SaveFails(p) PROVE TypeOK'
    <3>1. [mem EXCEPT ![p].uncertain = TRUE] \in [Procs -> Memory]
      BY DEF Memory
    <3>2. mem' \in [Procs -> Memory] /\ pc' \in [Procs -> PCs]
      BY <2>15, <3>1 DEF SaveFails, Leave, Wait, PCs
    <3>3. QED
      BY <2>15, <3>2 DEF SaveFails, Unlock, Conclude, OpStates, Transaction
  <2>16. CASE UNCHANGED vars
    BY <2>16 DEF vars, disk, history
  <2> QED
    BY <2>1, <2>2, <2>3, <2>4, <2>5, <2>6, <2>7, <2>8, <2>9, <2>10, <2>11, <2>12,
       <2>13, <2>14, <2>15, <2>16
       DEF Next, Step, Progress, Fault, Contended, LockFails, ReloadFails, SaveNothing, FinishSave
<1>3. QED
  BY <1>1, <1>2, PTL DEF Spec

-----------------------------------------------------------------------------
(***************************************************************************)
(* Mutual exclusion                                                        *)
(***************************************************************************)
\* A step of p leaves every other process as it is, and the lock of another
\* process in its hands.
LEMMA Frame ==
    ASSUME TypeOK, NEW p \in Procs, Launch(p) \/ Request(p) \/ Stop(p) \/ Step(p)
    PROVE  /\ \A q \in Procs \ {p} : pc'[q] = pc[q] /\ mem'[q] = mem[q] /\ txn'[q] = txn[q]
           /\ lock' # lock => lock = p \/ lock' = p
<1> USE DEF TypeOK, Unlock, Leave, Wait, disk, history
<1>1. CASE Launch(p)
  BY <1>1 DEF Launch
<1>2. CASE Request(p)
  BY <1>2 DEF Request
<1>3. CASE Stop(p)
  BY <1>3 DEF Stop
<1>4. CASE Acquire(p)
  BY <1>4 DEF Acquire
<1>5. CASE Refuse(p)
  BY <1>5 DEF Refuse
<1>6. CASE ReloadCached(p)
  BY <1>6 DEF ReloadCached, AfterReload
<1>7. CASE ReloadFromDisk(p)
  BY <1>7 DEF ReloadFromDisk, AfterReload
<1>8. CASE Apply(p)
  BY <1>8 DEF Apply
<1>9. CASE Answer(p)
  BY <1>9 DEF Answer, Succeed
<1>10. CASE LoadOnly(p)
  BY <1>10 DEF LoadOnly
<1>11. CASE CommandError(p)
  BY <1>11 DEF CommandError
<1>12. CASE SaveDone(p)
  BY <1>12 DEF SaveDone, Succeed
<1>13. CASE WriteRevision(p)
  BY <1>13 DEF WriteRevision
<1>14. CASE WriteProject(p)
  BY <1>14 DEF WriteProject
<1>15. CASE SaveFails(p)
  BY <1>15 DEF SaveFails
<1> QED
  BY <1>1, <1>2, <1>3, <1>4, <1>5, <1>6, <1>7, <1>8, <1>9, <1>10, <1>11, <1>12,
     <1>13, <1>14, <1>15
     DEF Step, Progress, Fault, Contended, LockFails, ReloadFails, SaveNothing, FinishSave

LEMMA LockInvariant == Spec => []LockInv
<1>1. Init => LockInv
  BY DEF Init, LockInv, Holding
<1>2. TypeOK /\ LockInv /\ [Next]_vars => LockInv'
  <2> SUFFICES ASSUME TypeOK, LockInv, [Next]_vars PROVE LockInv'
    OBVIOUS
  <2>1. CASE UNCHANGED vars
    BY <2>1 DEF vars, disk, LockInv
  <2>2. ASSUME NEW p \in Procs, Launch(p) \/ Request(p) \/ Stop(p) \/ Step(p)
        PROVE  LockInv'
    <3> SUFFICES /\ pc'[p] \in Holding <=> lock' = p
                 /\ \A q \in Procs \ {p} : lock' = q <=> lock = q
      BY <2>2, Frame DEF LockInv
    <3> USE DEF TypeOK, LockInv, Holding, Unlock, Leave, Wait, disk, history
    <3>1. CASE Launch(p)
      BY <3>1 DEF Launch
    <3>2. CASE Request(p)
      BY <3>2 DEF Request, MayCall
    <3>3. CASE Stop(p)
      BY <3>3 DEF Stop
    <3>4. CASE Acquire(p)
      BY <3>4 DEF Acquire
    <3>5. CASE Refuse(p)
      BY <3>5 DEF Refuse
    <3>6. CASE ReloadCached(p)
      BY <3>6 DEF ReloadCached, AfterReload
    <3>7. CASE ReloadFromDisk(p)
      BY <3>7 DEF ReloadFromDisk, AfterReload
    <3>8. CASE Apply(p)
      BY <3>8 DEF Apply, Operates
    <3>9. CASE Answer(p)
      BY <3>9 DEF Answer, Succeed, Operates
    <3>10. CASE LoadOnly(p)
      BY <3>10 DEF LoadOnly
    <3>11. CASE CommandError(p)
      BY <3>11 DEF CommandError
    <3>12. CASE SaveDone(p)
      BY <3>12 DEF SaveDone, Succeed
    <3>13. CASE WriteRevision(p)
      BY <3>13 DEF WriteRevision
    <3>14. CASE WriteProject(p)
      BY <3>14 DEF WriteProject
    <3>15. CASE SaveFails(p)
      BY <3>15 DEF SaveFails
    <3> QED
      BY <2>2, <3>1, <3>2, <3>3, <3>4, <3>5, <3>6, <3>7, <3>8, <3>9, <3>10, <3>11,
         <3>12, <3>13, <3>14, <3>15
         DEF Step, Progress, Fault, Contended, LockFails, ReloadFails, SaveNothing, FinishSave
  <2>3. QED
    BY <2>1, <2>2 DEF Next
<1>3. QED
  BY <1>1, <1>2, TypeCorrect, PTL DEF Spec

\* Storage operations are serialised, whatever fails or dies, and wherever
\* the projects are stored (run_repository_transaction keeps the StorageLock
\* until it returns).
THEOREM MutualExclusion == Spec => []OneAtATime
<1>1. LockInv => OneAtATime
  BY DEF LockInv, OneAtATime
<1>2. QED
  BY <1>1, LockInvariant, PTL

LEMMA TxnInvariant == Spec => []TxnInv
<1>1. Init => TxnInv
  BY DEF Init, TxnInv, NoTransaction, NoOp, FreshMemory
<1>2. TypeOK /\ TxnInv /\ [Next]_vars => TxnInv'
  <2> SUFFICES ASSUME TypeOK, TxnInv, [Next]_vars PROVE TxnInv'
    OBVIOUS
  <2>1. CASE UNCHANGED vars
    BY <2>1 DEF vars, disk, TxnInv
  <2>2. ASSUME NEW p \in Procs, Launch(p) \/ Request(p) \/ Stop(p) \/ Step(p)
        PROVE  TxnInv'
    <3> SUFFICES /\ pc'[p] \in {"down", "idle"} => txn'[p] = NoTransaction
                 /\ pc'[p] \notin {"saving", "writing"} => txn'[p].op = NoOp
                 /\ txn'[p].op # NoOp => txn'[p].job \in {"tool", "submit", "command"}
                 /\ pc'[p] # "writing" => txn'[p].toWrite = {} /\ txn'[p].issued = 0
                 /\ mem'[p].uncertain => pc'[p] = "idle"
      BY <2>2, Frame DEF TxnInv
    <3>a. /\ pc[p] \in {"down", "idle"} => txn[p] = NoTransaction
          /\ pc[p] \notin {"saving", "writing"} => txn[p].op = NoOp
          /\ txn[p].op # NoOp => txn[p].job \in {"tool", "submit", "command"}
          /\ pc[p] # "writing" => txn[p].toWrite = {} /\ txn[p].issued = 0
          /\ mem[p].uncertain => pc[p] = "idle"
      BY DEF TxnInv
    <3>b. txn[p] \in Transaction /\ mem[p] \in Memory /\ pc[p] \in PCs
      BY DEF TypeOK
    <3>c. NoTransaction.op = NoOp /\ NoTransaction.toWrite = {} /\ NoTransaction.issued = 0
      BY DEF NoTransaction
    <3>d. FreshMemory.uncertain = FALSE
      BY DEF FreshMemory
    <3> USE <3>a, <3>b, <3>c, <3>d
            DEF TypeOK, PCs, Unlock, Leave, Wait, disk, history
    <3>1. CASE Launch(p)
      BY <3>1 DEF Launch, Transaction
    <3>2. CASE Request(p)
      BY <3>2 DEF Request, MayCall, Transaction
    <3>3. CASE Stop(p)
      BY <3>3 DEF Stop
    <3>4. CASE Acquire(p)
      BY <3>4 DEF Acquire
    <3>5. CASE Refuse(p) /\ pc[p] \in {"locking", "reloading"}
      BY <3>5 DEF Refuse
    <3>6. CASE ReloadCached(p)
      BY <3>6 DEF ReloadCached, AfterReload, Memory
    <3>7. CASE ReloadFromDisk(p)
      BY <3>7 DEF ReloadFromDisk, AfterReload
    <3>8. CASE Apply(p)
      BY <3>8 DEF Apply, Operates, Memory, Transaction
    <3>9. CASE Answer(p)
      BY <3>9 DEF Answer, Succeed, Operates
    <3>10. CASE LoadOnly(p)
      BY <3>10 DEF LoadOnly
    <3>11. CASE CommandError(p)
      BY <3>11 DEF CommandError
    <3>12. CASE SaveDone(p) /\ pc[p] \in {"saving", "writing"}
      BY <3>12 DEF SaveDone, Succeed, Memory
    <3>13. CASE WriteRevision(p)
      BY <3>13 DEF WriteRevision
    <3>14. CASE WriteProject(p)
      BY <3>14 DEF WriteProject
    <3>15. CASE SaveFails(p)
      BY <3>15 DEF SaveFails, Memory
    <3> QED
      BY <2>2, <3>1, <3>2, <3>3, <3>4, <3>5, <3>6, <3>7, <3>8, <3>9, <3>10, <3>11,
         <3>12, <3>13, <3>14, <3>15
         DEF Step, Progress, Fault, Contended, LockFails, ReloadFails, SaveNothing, FinishSave
  <2>3. QED
    BY <2>1, <2>2 DEF Next
<1>3. QED
  BY <1>1, <1>2, TypeCorrect, PTL DEF Spec

-----------------------------------------------------------------------------
(***************************************************************************)
(* Revisions                                                               *)
(***************************************************************************)
LEMMA RevisionInvariant == Spec => []RevisionInv
<1>1. Init => RevisionInv
  BY DEF Init, RevisionInv, FreshMemory
<1>2. TypeOK /\ LockInv /\ TxnInv /\ RevisionInv /\ [Next]_vars => RevisionInv'
  <2> SUFFICES ASSUME TypeOK, LockInv, TxnInv, RevisionInv, [Next]_vars
               PROVE  RevisionInv'
    OBVIOUS
  <2>1. CASE UNCHANGED vars
    BY <2>1 DEF vars, disk, RevisionInv, CacheValid
  <2>2. ASSUME NEW p \in Procs, WriteRevision(p) PROVE RevisionInv'
    <3>1. /\ revision' = revision + 1
          /\ mem' = mem
          /\ pc' = [pc EXCEPT ![p] = "writing"]
          /\ pc[p] = "saving"
          /\ \E W : txn' = [txn EXCEPT ![p].toWrite = W, ![p].issued = revision + 1]
      BY <2>2 DEF WriteRevision
    <3>2. txn'[p].issued = revision + 1 /\ \A q \in Procs \ {p} : txn'[q] = txn[q]
      BY <3>1 DEF TypeOK, Transaction
    <3>3. \A q \in Procs \ {p} : pc[q] \notin Holding
      BY <3>1 DEF LockInv, Holding
    <3>4. \A q \in Procs : mem[q].seen \in Nat /\ mem[q].seen <= revision
      BY DEF TypeOK, Memory, RevisionInv
    <3>5. revision \in Nat /\ pc \in [Procs -> PCs]
      BY DEF TypeOK
    <3>6. \A q \in Procs : mem'[q].seen < revision' /\ mem'[q].seen <= revision'
      BY <3>1, <3>4, <3>5
    <3>7. pc'[p] = "writing" /\ \A q \in Procs \ {p} : pc'[q] \notin Holding
      BY <3>1, <3>3, <3>5
    <3>8. QED
      BY <3>1, <3>2, <3>5, <3>6, <3>7 DEF RevisionInv, Holding
  <2>3. ASSUME NEW p \in Procs, revision' = revision,
               Launch(p) \/ Request(p) \/ Stop(p) \/ Step(p)
        PROVE  RevisionInv'
    <3>1. /\ mem[p].seen <= revision
          /\ pc[p] \in {"operating", "saving"} => CacheValid(p)
          /\ pc[p] = "writing" =>
                txn[p].issued = revision /\ \A q \in Procs : mem[q].seen < revision
      BY DEF RevisionInv
    <3>2. \A q \in Procs \ {p} : pc[q] = "writing" => pc[p] \notin Holding
      BY DEF LockInv, Holding
    <3>3. SUFFICES /\ mem'[p].seen <= revision
                   /\ pc'[p] \in {"operating", "saving"} =>
                         mem'[p].loaded /\ mem'[p].seen = revision
                   /\ pc'[p] = "writing" =>
                         pc[p] = "writing" /\ txn'[p].issued = revision
                            /\ mem'[p].seen = mem[p].seen
                   /\ mem'[p].seen \in {mem[p].seen, 0} \/ pc[p] \in Holding
      <4>1. \A q \in Procs \ {p} : pc[q] = "writing" =>
               mem'[p].seen < revision /\ \A r \in Procs : mem'[r].seen < revision
        BY <3>2, <3>3, <2>3, Frame DEF RevisionInv, TypeOK, Memory
      <4>2. QED
        BY <4>1, <3>1, <3>3, <2>3, Frame DEF RevisionInv, CacheValid, TypeOK
    <3> USE <3>1 DEF TypeOK, PCs, Unlock, Leave, Wait, disk, history, CacheValid, Holding
    <3>a. FreshMemory.seen = 0 /\ revision \in Nat /\ mem[p].seen \in Nat
      BY DEF FreshMemory, Memory
    <3> USE <3>a
    <3>4. CASE Launch(p) \/ Request(p) \/ Acquire(p)
      BY <3>4 DEF Launch, Request, MayCall, Acquire
    <3>5. CASE Stop(p)
      BY <3>5 DEF Stop
    <3>6. CASE Refuse(p)
      BY <3>6 DEF Refuse
    <3>7. CASE ReloadCached(p)
      BY <3>7 DEF ReloadCached, AfterReload, Memory
    <3>8. CASE ReloadFromDisk(p)
      BY <3>8 DEF ReloadFromDisk, AfterReload, Memory
    <3>9. CASE Apply(p)
      BY <3>9 DEF Apply, Operates, Memory
    <3>10. CASE Answer(p)
      BY <3>10 DEF Answer, Succeed, Operates
    <3>11. CASE LoadOnly(p) \/ CommandError(p)
      BY <3>11 DEF LoadOnly, CommandError
    <3>12. CASE SaveDone(p) /\ pc[p] \in {"saving", "writing"}
      <4>1. pc[p] = "saving" => txn[p].issued = 0
        BY DEF TxnInv
      <4>2. mem'[p].seen \in {0, mem[p].seen, revision}
        BY <3>12, <4>1 DEF SaveDone, Memory
      <4>3. QED
        BY <3>12, <4>2 DEF SaveDone
    <3>13. CASE WriteProject(p)
      BY <3>13 DEF WriteProject, Transaction
    <3>14. CASE SaveFails(p)
      <4>1. mem'[p].seen \in {0, mem[p].seen} /\ pc'[p] \in {"idle", "down"}
        BY <3>14 DEF SaveFails, Memory
      <4>2. QED
        BY <4>1
    <3>15. ~WriteRevision(p)
      BY <2>3 DEF WriteRevision
    <3> QED
      BY <2>3, <3>4, <3>5, <3>6, <3>7, <3>8, <3>9, <3>10, <3>11, <3>12, <3>13, <3>14, <3>15
         DEF Step, Progress, Fault, Contended, LockFails, ReloadFails, SaveNothing, FinishSave
  <2>4. ASSUME NEW p \in Procs, Launch(p) \/ Request(p) \/ Stop(p) \/ Step(p)
        PROVE  WriteRevision(p) \/ revision' = revision
    BY <2>4 DEF Launch, Request, Stop, Step, Progress, Fault, Acquire, Contended, LockFails, ReloadFails,
         Refuse, ReloadCached, ReloadFromDisk, Apply, Answer, LoadOnly, CommandError, SaveNothing,
         FinishSave, WriteProject, SaveFails, disk
  <2>5. QED
    BY <2>1, <2>2, <2>3, <2>4 DEF Next
<1>3. QED
  BY <1>1, <1>2, TypeCorrect, LockInvariant, TxnInvariant, PTL DEF Spec

-----------------------------------------------------------------------------
(***************************************************************************)
(* Running operations                                                      *)
(***************************************************************************)
LEMMA OneOwner ==
    ASSUME TypeOK, LockInv, TxnInv, NEW p \in Procs, NEW q \in Procs,
           txn[p].op # NoOp, txn[q].op # NoOp
    PROVE  p = q
BY DEF TypeOK, PCs, LockInv, TxnInv, Holding

\* How a step of p deals with operations: it leaves them alone, applies one,
\* or brings its own to an end.
Keeps(p) ==
    /\ UNCHANGED <<opState, opRoots>>
    /\ txn'[p].op = txn[p].op
    /\ txn[p].op # NoOp => mem'[p].dirty = mem[p].dirty
Ends(p) ==
    /\ \E verdict \in {"saved", "failed", "lost"} : Conclude(p, verdict)
    /\ opRoots' = opRoots
    /\ txn'[p].op = NoOp

LEMMA OperationStep ==
    ASSUME TypeOK, LockInv, TxnInv, NEW p \in Procs,
           Launch(p) \/ Request(p) \/ Stop(p) \/ Step(p)
    PROVE  Keeps(p) \/ Apply(p) \/ Ends(p)
<1> USE DEF TypeOK, PCs, Keeps, Unlock, Leave, Wait, disk, history
<1>a. pc[p] \notin {"saving", "writing"} => txn[p].op = NoOp
  BY DEF TxnInv
<1>b. NoTransaction.op = NoOp
  BY DEF NoTransaction
<1> USE <1>a, <1>b
<1>1. CASE Launch(p) \/ Request(p)
  BY <1>1 DEF Launch, Request, MayCall, Transaction
<1>2. CASE Acquire(p) \/ LoadOnly(p) \/ CommandError(p)
  BY <1>2 DEF Acquire, LoadOnly, CommandError, Operates
<1>3. CASE Refuse(p) /\ pc[p] \in {"locking", "reloading"}
  BY <1>3 DEF Refuse
<1>4. CASE ReloadCached(p) \/ ReloadFromDisk(p)
  BY <1>4 DEF ReloadCached, ReloadFromDisk
<1>5. CASE Answer(p)
  <2>1. CASE Succeed(p)
    BY <2>1 DEF Succeed, Ends
  <2>2. QED
    BY <1>5, <2>1 DEF Answer
<1>6. CASE SaveDone(p)
  BY <1>6 DEF SaveDone, Succeed, Ends
<1>7. CASE WriteRevision(p) \/ WriteProject(p)
  <2>1. txn'[p].op = txn[p].op
    <3>1. CASE WriteRevision(p)
      <4>1. PICK W : txn' = [txn EXCEPT ![p].toWrite = W, ![p].issued = revision + 1]
        BY <3>1 DEF WriteRevision
      <4>2. QED
        BY <4>1 DEF Transaction
    <3>2. CASE WriteProject(p)
      <4>1. PICK r : txn' = [txn EXCEPT ![p].toWrite = @ \ {r}]
        BY <3>2 DEF WriteProject
      <4>2. QED
        BY <4>1 DEF Transaction
    <3>3. QED
      BY <1>7, <3>1, <3>2
  <2>2. UNCHANGED <<opState, opRoots, mem>>
    BY <1>7 DEF WriteRevision, WriteProject
  <2>3. QED
    BY <2>1, <2>2
<1>8. CASE SaveFails(p) \/ Stop(p)
  BY <1>8 DEF SaveFails, Stop, Ends
<1> QED
  BY <1>1, <1>2, <1>3, <1>4, <1>5, <1>6, <1>7, <1>8
     DEF Step, Progress, Fault, Contended, LockFails, ReloadFails, SaveNothing, FinishSave

\* What Apply does, with the operation and its projects named.
LEMMA ApplyStep ==
    ASSUME TypeOK, LockInv, TxnInv, NEW p \in Procs, Apply(p)
    PROVE  \E n \in Ops, R \in (SUBSET Roots) \ {{}} :
              /\ opState[n] = "unused" /\ n \in AllOps /\ n # NoOp
              /\ opState' = [opState EXCEPT ![n] = "running"]
              /\ opRoots' = [opRoots EXCEPT ![n] = R]
              /\ txn'[p].op = n
              /\ mem'[p].dirty = mem[p].dirty \cup R
              /\ \A r \in Roots : mem'[p].projects[r] =
                    mem[p].projects[r] \cup (IF r \in R THEN {n} ELSE {})
              /\ mem'[p].seen = mem[p].seen /\ mem'[p].loaded = mem[p].loaded
              /\ txn[p].op = NoOp
<1>1. Targets(p) \subseteq (SUBSET Roots) \ {{}}
  <2>1. \A R \in Targets(p) : R \subseteq Roots /\ R # {}
    BY DEF Targets
  <2>2. QED
    BY <2>1
<1>2. PICK n \in Ops, R \in (SUBSET Roots) \ {{}} :
         /\ opState[n] = "unused"
         /\ opState' = [opState EXCEPT ![n] = "running"]
         /\ opRoots' = [opRoots EXCEPT ![n] = R]
         /\ txn' = [txn EXCEPT ![p].op = n]
         /\ mem' = [mem EXCEPT
               ![p].projects = [r \in Roots |-> IF r \in R THEN @[r] \cup {n} ELSE @[r]],
               ![p].dirty = @ \cup R]
  BY <1>1 DEF Apply
<1>3. n \in AllOps /\ n # NoOp
  BY DEF Ops, AllOps, NoOp
<1>4. txn'[p].op = n
  BY <1>2 DEF TypeOK, Transaction
<1>5. /\ mem'[p].dirty = mem[p].dirty \cup R
      /\ \A r \in Roots : mem'[p].projects[r] =
            IF r \in R THEN mem[p].projects[r] \cup {n} ELSE mem[p].projects[r]
      /\ mem'[p].seen = mem[p].seen /\ mem'[p].loaded = mem[p].loaded
  BY <1>2 DEF TypeOK, Memory
<1>6. \A r \in Roots : mem'[p].projects[r] =
         mem[p].projects[r] \cup (IF r \in R THEN {n} ELSE {})
  BY <1>5
<1>7. txn[p].op = NoOp
  BY DEF Apply, Operates, TxnInv
<1>8. QED
  BY <1>2, <1>3, <1>4, <1>5, <1>6, <1>7

LEMMA RunningInvariant == Spec => []RunningInv
<1>1. Init => RunningInv
  BY DEF Init, RunningInv, NoTransaction, NoOp
<1>2. TypeOK /\ LockInv /\ TxnInv /\ RunningInv /\ [Next]_vars => RunningInv'
  <2> SUFFICES ASSUME TypeOK, LockInv, TxnInv, RunningInv, [Next]_vars
               PROVE  RunningInv'
    OBVIOUS
  <2>1. CASE UNCHANGED vars
    BY <2>1 DEF vars, history, RunningInv
  <2>2. ASSUME NEW p \in Procs, Launch(p) \/ Request(p) \/ Stop(p) \/ Step(p)
        PROVE  RunningInv'
    <3>1. \A q \in Procs \ {p} : mem'[q] = mem[q] /\ txn'[q] = txn[q]
      BY <2>2, Frame
    <3>2. txn[p].op # NoOp => \A q \in Procs \ {p} : txn[q].op = NoOp
      BY OneOwner
    <3>3. \A q \in Procs : txn[q].op \in AllOps
      BY DEF TypeOK, Transaction
    <3>4. CASE Keeps(p)
      BY <3>1, <3>4 DEF Keeps, RunningInv
    <3>5. CASE Apply(p)
      <4>1. PICK n \in Ops, R \in SUBSET Roots :
               /\ opState[n] = "unused" /\ n \in AllOps /\ n # NoOp
               /\ opState' = [opState EXCEPT ![n] = "running"]
               /\ opRoots' = [opRoots EXCEPT ![n] = R]
               /\ txn'[p].op = n
               /\ mem'[p].dirty = mem[p].dirty \cup R
               /\ txn[p].op = NoOp
        BY <3>5, ApplyStep
      <4>2. \A q \in Procs \ {p} : txn[q].op # n
        BY <4>1 DEF RunningInv
      <4>3. \A m \in AllOps : opState'[m] = "running" =>
               m \in Ops /\ \E q \in Procs : txn'[q].op = m
        <5>1. SUFFICES ASSUME NEW m \in AllOps, opState'[m] = "running", m # n
                       PROVE  m \in Ops /\ \E q \in Procs : txn'[q].op = m
          BY <4>1
        <5>2. opState[m] = "running"
          BY <4>1, <5>1 DEF TypeOK
        <5>3. m \in Ops /\ m # NoOp
          BY <5>2 DEF RunningInv, Ops, NoOp
        <5>4. PICK q \in Procs : txn[q].op = m
          BY <5>2 DEF RunningInv
        <5>5. QED
          BY <3>1, <4>1, <5>3, <5>4
      <4>4. \A q \in Procs : txn'[q].op # NoOp =>
               opState'[txn'[q].op] = "running" /\ opRoots'[txn'[q].op] \subseteq mem'[q].dirty
        BY <3>1, <3>3, <4>1, <4>2 DEF RunningInv, TypeOK
      <4>5. QED
        BY <4>3, <4>4 DEF RunningInv
    <3>6. CASE Ends(p)
      <4>1. PICK verdict \in {"saved", "failed", "lost"} : Conclude(p, verdict)
        BY <3>6 DEF Ends
      <4>2. /\ \A m \in AllOps : opState'[m] = IF m = txn[p].op /\ m # NoOp THEN verdict
                                               ELSE opState[m]
            /\ opRoots' = opRoots
            /\ txn'[p].op = NoOp
        BY <3>6, <4>1 DEF Ends, Conclude, TypeOK
      <4>3. \A m \in AllOps : opState'[m] = "running" =>
               m \in Ops /\ \E q \in Procs : txn'[q].op = m
        <5>1. SUFFICES ASSUME NEW m \in AllOps, opState'[m] = "running"
                       PROVE  m \in Ops /\ \E q \in Procs : txn'[q].op = m
          OBVIOUS
        <5>2. opState[m] = "running" /\ ~(m = txn[p].op /\ m # NoOp)
          BY <4>2, <5>1
        <5>3. m \in Ops /\ m # NoOp
          BY <5>2 DEF RunningInv, Ops, NoOp
        <5>4. PICK q \in Procs : txn[q].op = m
          BY <5>2 DEF RunningInv
        <5>5. QED
          BY <3>1, <5>2, <5>3, <5>4
      <4>4. \A q \in Procs : txn'[q].op # NoOp =>
               opState'[txn'[q].op] = "running" /\ opRoots'[txn'[q].op] \subseteq mem'[q].dirty
        BY <3>1, <3>2, <3>3, <4>2 DEF RunningInv
      <4>5. QED
        BY <4>3, <4>4 DEF RunningInv
    <3>7. QED
      BY <2>2, <3>4, <3>5, <3>6, OperationStep
  <2>3. QED
    BY <2>1, <2>2 DEF Next
<1>3. QED
  BY <1>1, <1>2, TypeCorrect, LockInvariant, TxnInvariant, PTL DEF Spec

-----------------------------------------------------------------------------
(***************************************************************************)
(* Contents                                                                *)
(***************************************************************************)
LEMMA DiskUnchanged ==
    ASSUME file' = file, NEW r \in Roots
    PROVE  Disk(r)' = Disk(r)
BY DEF Disk

\* With distinct paths, writing one project changes that project alone.
LEMMA DiskWritten ==
    ASSUME TypeOK, DistinctPaths, NEW r \in Roots, NEW c \in Contents,
           file' = [file EXCEPT ![PathOf[r]] = [root |-> r, ops |-> c]]
    PROVE  Disk(r)' = c /\ \A s \in Roots \ {r} : Disk(s)' = Disk(s)
BY DEF TypeOK, DistinctPaths, Disk

DataInv == CacheCoherence /\ SavingInv /\ Durable
Context == TypeOK /\ LockInv /\ TxnInv /\ RevisionInv /\ RunningInv

\* The parts of the invariant that speak of one process.
Coherent(p) ==
    CacheValid(p) /\ pc[p] # "saving" /\ ~mem[p].uncertain
        => \A r \in Roots : mem[p].projects[r] = Disk(r)
Saves(p) ==
    pc[p] \in {"saving", "writing"} =>
        /\ \A r \in Roots : mem[p].projects[r] = Expected(p, r)
        /\ txn[p].op # NoOp =>
              \A r \in opRoots[txn[p].op] : txn[p].op \in mem[p].projects[r]

LEMMA DataParts ==
    /\ CacheCoherence <=> \A p \in Procs : Coherent(p)
    /\ SavingInv <=> \A p \in Procs : Saves(p)
BY DEF CacheCoherence, Coherent, SavingInv, Saves

\* A step of p that leaves the files alone keeps what is known of the others.
LEMMA OthersKeep ==
    ASSUME Context, DataInv, NEW p \in Procs, NEW q \in Procs \ {p},
           Launch(p) \/ Request(p) \/ Stop(p) \/ Step(p),
           UNCHANGED file, revision' = revision \/ revision' = revision + 1,
           opRoots' = opRoots \/ pc[p] \in Holding
    PROVE  Coherent(q)' /\ Saves(q)'
<1>1. pc'[q] = pc[q] /\ mem'[q] = mem[q] /\ txn'[q] = txn[q]
  BY Frame DEF Context
<1>2. \A r \in Roots : Disk(r)' = Disk(r)
  BY DiskUnchanged
<1>3. revision' = revision \/ ~CacheValid(q)'
  <2>1. mem[q].seen \in Nat /\ mem[q].seen <= revision /\ revision \in Nat
    BY DEF Context, TypeOK, Memory, RevisionInv
  <2>2. QED
    BY <1>1, <2>1 DEF CacheValid
<1>4. Coherent(q)'
  <2>1. Coherent(q)
    BY DataParts DEF DataInv
  <2>2. QED
    BY <1>1, <1>2, <1>3, <2>1 DEF Coherent, CacheValid
<1>5. Saves(q)'
  <2>1. CASE pc[p] \in Holding
    <3>1. pc[q] \notin Holding
      BY <2>1 DEF Context, LockInv
    <3>2. QED
      BY <1>1, <3>1 DEF Saves, Holding
  <2>2. CASE opRoots' = opRoots
    <3>1. Saves(q)
      BY DataParts DEF DataInv
    <3>2. \A r \in Roots : Expected(q, r)' = Expected(q, r)
      BY <1>1, <1>2, <2>2 DEF Expected
    <3>3. QED
      BY <1>1, <2>2, <3>1, <3>2 DEF Saves
  <2>3. QED
    BY <2>1, <2>2
<1>6. QED
  BY <1>4, <1>5

\* What was saved stays in its files as long as no file changes, and an
\* operation that becomes saved must be in its files.
LEMMA DurableKept ==
    ASSUME Context, DataInv, UNCHANGED file,
           \A n \in AllOps : opState'[n] = "saved" =>
              /\ opRoots'[n] = opRoots[n]
              /\ opState[n] = "saved" \/ \A r \in opRoots[n] : n \in Disk(r)
    PROVE  Durable'
<1>1. \A r \in Roots : Disk(r)' = Disk(r)
  BY DiskUnchanged
<1>2. \A n \in AllOps : opRoots[n] \subseteq Roots
  BY DEF Context, TypeOK
<1>3. QED
  BY <1>1, <1>2 DEF DataInv, Durable

\* Steps that change neither a file nor the history: what remains to be seen
\* is the copy of the process itself.
LEMMA QuietStep ==
    ASSUME Context, DataInv, NEW p \in Procs,
           Launch(p) \/ Request(p) \/ Stop(p) \/ Step(p),
           UNCHANGED <<revision, file, opState, opRoots>>,
           Coherent(p)', Saves(p)'
    PROVE  DataInv'
<1>1. \A q \in Procs : Coherent(q)' /\ Saves(q)'
  BY OthersKeep
<1>2. CacheCoherence' /\ SavingInv'
  BY <1>1 DEF CacheCoherence, Coherent, SavingInv, Saves
<1>3. Durable'
  BY DurableKept
<1>4. QED
  BY <1>2, <1>3 DEF DataInv

\* A process that leaves keeps nothing that could be wrong.
LEMMA Gone ==
    ASSUME Context, NEW p \in Procs, Leave(p)
    PROVE  Coherent(p)' /\ Saves(p)'
BY DEF Leave, Coherent, Saves, CacheValid, FreshMemory, Context, TypeOK

\* A process that goes on without having changed its copy.
LEMMA SameCopy ==
    ASSUME Context, DataInv, NEW p \in Procs,
           UNCHANGED <<revision, file>>,
           mem'[p].projects = mem[p].projects,
           mem'[p].seen = mem[p].seen,
           mem'[p].loaded = mem[p].loaded,
           mem'[p].uncertain = mem[p].uncertain,
           pc[p] # "saving", pc'[p] \notin {"saving", "writing"}
    PROVE  Coherent(p)' /\ Saves(p)'
<1>1. Coherent(p)
  BY DataParts DEF DataInv
<1>2. \A r \in Roots : Disk(r)' = Disk(r)
  BY DiskUnchanged
<1>3. QED
  BY <1>1, <1>2 DEF Coherent, Saves, CacheValid

\* A process that starts to save with a copy of the disk.
LEMMA StartsSaving ==
    ASSUME Context, NEW p \in Procs,
           UNCHANGED file, pc'[p] = "saving", txn'[p].op = NoOp,
           \A r \in Roots : mem'[p].projects[r] = Disk(r)
    PROVE  Coherent(p)' /\ Saves(p)'
<1>1. \A r \in Roots : Disk(r)' = Disk(r)
  BY DiskUnchanged
<1>2. QED
  BY <1>1 DEF Coherent, Saves, Expected

LEMMA BeginningKeepsData ==
    ASSUME Context, DataInv, NEW p \in Procs,
           Launch(p) \/ Request(p) \/ Acquire(p)
    PROVE  DataInv'
<1>1. UNCHANGED <<revision, file, opState, opRoots, mem>>
  BY DEF Launch, Request, Acquire, disk, history
<1>2. pc[p] # "saving" /\ pc'[p] \notin {"saving", "writing"}
  BY DEF Launch, Request, MayCall, Acquire, Context, TypeOK
<1>3. Coherent(p)' /\ Saves(p)'
  BY <1>1, <1>2, SameCopy
<1>4. QED
  BY <1>1, <1>3, QuietStep DEF Step, Progress, Fault

LEMMA RefusalKeepsData ==
    ASSUME Context, DataInv, NEW p \in Procs, pc[p] \in {"locking", "reloading"}, Refuse(p),
           Step(p)
    PROVE  DataInv'
<1>1. Leave(p) \/ (Wait(p) /\ UNCHANGED mem)
  BY DEF Refuse
<1>2. UNCHANGED <<revision, file, opState, opRoots>>
  BY DEF Refuse, history
<1>3. CASE Wait(p) /\ UNCHANGED mem
  <2>1. pc'[p] = "idle"
    BY <1>3 DEF Wait, Context, TypeOK
  <2>2. Coherent(p)' /\ Saves(p)'
    BY <1>2, <1>3, <2>1, SameCopy
  <2>3. QED
    BY <1>2, <2>2, QuietStep
<1>4. CASE Leave(p)
  BY <1>2, <1>4, Gone, QuietStep
<1>5. QED
  BY <1>1, <1>3, <1>4

LEMMA ReloadKeepsData ==
    ASSUME Context, DataInv, NEW p \in Procs, ReloadCached(p) \/ ReloadFromDisk(p)
    PROVE  DataInv'
<1>1. UNCHANGED <<revision, file, opState, opRoots, txn>>
  BY DEF ReloadCached, ReloadFromDisk, disk, history
<1>2. pc'[p] \in {"saving", "operating"} /\ txn'[p].op = NoOp /\ ~mem[p].uncertain
  BY <1>1 DEF ReloadCached, ReloadFromDisk, AfterReload, Context, TypeOK, TxnInv
<1>3. \A r \in Roots : mem'[p].projects[r] = Disk(r)
  <2>1. CASE ReloadCached(p)
    <3>1. Coherent(p)
      BY DataParts DEF DataInv
    <3>2. \A r \in Roots : mem[p].projects[r] = Disk(r)
      BY <1>2, <2>1, <3>1 DEF ReloadCached, Coherent
    <3>3. mem'[p].projects = mem[p].projects
      BY <2>1 DEF ReloadCached, Context, TypeOK, Memory
    <3>4. QED
      BY <3>2, <3>3
  <2>2. CASE ReloadFromDisk(p)
    <3>1. mem'[p].projects = LoadedProjects
      BY <2>2 DEF ReloadFromDisk, Context, TypeOK, Memory
    <3>2. QED
      BY <3>1 DEF LoadedProjects
  <2>3. QED
    BY <2>1, <2>2
<1>4. \A r \in Roots : Disk(r)' = Disk(r)
  BY <1>1, DiskUnchanged
<1>5. Coherent(p)' /\ Saves(p)'
  <2>1. CASE pc'[p] = "saving"
    BY <1>1, <1>2, <1>3, <2>1, StartsSaving
  <2>2. CASE pc'[p] = "operating"
    BY <1>3, <1>4, <2>2 DEF Coherent, Saves
  <2>3. QED
    BY <1>2, <2>1, <2>2
<1>6. QED
  BY <1>1, <1>5, QuietStep DEF Step, Progress, Fault

LEMMA ApplyKeepsData ==
    ASSUME Context, DataInv, NEW p \in Procs, Apply(p)
    PROVE  DataInv'
<1>1. PICK n \in Ops, R \in (SUBSET Roots) \ {{}} :
         /\ opState[n] = "unused" /\ n \in AllOps /\ n # NoOp
         /\ opState' = [opState EXCEPT ![n] = "running"]
         /\ opRoots' = [opRoots EXCEPT ![n] = R]
         /\ txn'[p].op = n
         /\ mem'[p].dirty = mem[p].dirty \cup R
         /\ \A r \in Roots : mem'[p].projects[r] =
               mem[p].projects[r] \cup (IF r \in R THEN {n} ELSE {})
         /\ mem'[p].seen = mem[p].seen /\ mem'[p].loaded = mem[p].loaded
         /\ txn[p].op = NoOp
  <2>1. TypeOK /\ LockInv /\ TxnInv
    BY DEF Context
  <2>2. QED
    BY <2>1, ApplyStep, Zenon
<1>2. pc[p] = "operating" /\ pc'[p] = "saving" /\ UNCHANGED <<file, revision>>
  BY DEF Apply, Operates, Context, TypeOK, disk
<1>3. \A r \in Roots : mem[p].projects[r] = Disk(r)
  <2>1. Coherent(p) /\ CacheValid(p) /\ ~mem[p].uncertain
    BY <1>2, DataParts DEF DataInv, Context, RevisionInv, TxnInv
  <2>2. QED
    BY <1>2, <2>1 DEF Coherent
<1>4. \A r \in Roots : Disk(r)' = Disk(r)
  BY <1>2, DiskUnchanged
<1>5. opRoots'[n] = R
  BY <1>1 DEF Context, TypeOK
<1>6. Saves(p)'
  <2>1. \A r \in Roots : Expected(p, r)' = Disk(r) \cup (IF r \in R THEN {n} ELSE {})
    BY <1>1, <1>2, <1>4, <1>5 DEF Expected
  <2>2. \A r \in Roots : mem'[p].projects[r] = Expected(p, r)'
    BY <1>1, <1>3, <2>1
  <2>3. \A r \in opRoots'[txn'[p].op] : txn'[p].op \in mem'[p].projects[r]
    BY <1>1, <1>5
  <2>4. QED
    BY <2>2, <2>3 DEF Saves
<1>7. Coherent(p)'
  BY <1>2 DEF Coherent
<1>8. \A q \in Procs : Coherent(q)' /\ Saves(q)'
  BY <1>2, <1>6, <1>7, OthersKeep DEF Step, Progress, Fault, Holding
<1>9. CacheCoherence' /\ SavingInv'
  BY <1>8 DEF CacheCoherence, Coherent, SavingInv, Saves
<1>10. Durable'
  <2>1. \A m \in AllOps : opState'[m] = "saved" => opState[m] = "saved" /\ opRoots'[m] = opRoots[m]
    BY <1>1 DEF Context, TypeOK
  <2>2. QED
    BY <1>2, <2>1, DurableKept
<1>11. QED
  BY <1>9, <1>10 DEF DataInv

LEMMA AnswerKeepsData ==
    ASSUME Context, DataInv, NEW p \in Procs, Answer(p) \/ LoadOnly(p) \/ CommandError(p)
    PROVE  DataInv'
<1>1. pc[p] = "operating" /\ txn[p].op = NoOp /\ UNCHANGED <<revision, file>>
  BY DEF Answer, LoadOnly, CommandError, Operates, disk, Context, TxnInv
<1>2. UNCHANGED <<opState, opRoots>>
  BY <1>1 DEF Answer, LoadOnly, CommandError, Succeed, Conclude, history
<1>3. \/ Leave(p)
      \/ Wait(p) /\ UNCHANGED mem
      \/ pc' = [pc EXCEPT ![p] = "saving"] /\ UNCHANGED <<mem, txn>>
  BY DEF Answer, LoadOnly, CommandError
<1>4. CASE Leave(p)
  BY <1>1, <1>2, <1>4, Gone, QuietStep DEF Step, Progress, Fault
<1>5. CASE Wait(p) /\ UNCHANGED mem
  <2>1. pc'[p] = "idle"
    BY <1>5 DEF Wait, Context, TypeOK
  <2>2. Coherent(p)' /\ Saves(p)'
    BY <1>1, <1>5, <2>1, SameCopy
  <2>3. QED
    BY <1>1, <1>2, <2>2, QuietStep DEF Step, Progress, Fault
<1>6. CASE pc' = [pc EXCEPT ![p] = "saving"] /\ UNCHANGED <<mem, txn>>
  <2>1. pc'[p] = "saving" /\ txn'[p].op = NoOp /\ mem' = mem
    BY <1>1, <1>6 DEF Context, TypeOK
  <2>2. Coherent(p) /\ CacheValid(p) /\ ~mem[p].uncertain
    BY <1>1, DataParts DEF DataInv, Context, RevisionInv, TxnInv
  <2>3. \A r \in Roots : mem'[p].projects[r] = Disk(r)
    BY <1>1, <2>1, <2>2 DEF Coherent
  <2>4. Coherent(p)' /\ Saves(p)'
    BY <1>1, <2>1, <2>3, StartsSaving
  <2>5. QED
    BY <1>1, <1>2, <2>4, QuietStep DEF Step, Progress, Fault
<1>7. QED
  BY <1>3, <1>4, <1>5, <1>6

\* When a save is over, the copy is the disk.
LEMMA CopySaved ==
    ASSUME Context, DataInv, NEW p \in Procs, SaveNothing(p) \/ FinishSave(p)
    PROVE  \A r \in Roots : mem[p].projects[r] = Disk(r)
<1>1. Saves(p)
  BY DataParts DEF DataInv
<1>2. SUFFICES ASSUME NEW r \in Roots PROVE mem[p].projects[r] = Disk(r)
  OBVIOUS
<1>3. CASE SaveNothing(p)
  <2>1. CASE r \in mem[p].dirty
    BY <1>3, <2>1 DEF SaveNothing, Changed
  <2>2. CASE r \notin mem[p].dirty
    <3>1. Expected(p, r) = Disk(r)
      BY <2>2 DEF Expected, Context, RunningInv
    <3>2. QED
      BY <1>1, <1>3, <3>1 DEF SaveNothing, Saves
  <2>3. QED
    BY <2>1, <2>2
<1>4. CASE FinishSave(p)
  <2>1. Expected(p, r) = Disk(r)
    BY <1>4 DEF FinishSave, Expected
  <2>2. QED
    BY <1>1, <1>4, <2>1 DEF FinishSave, Saves
<1>5. QED
  BY <1>3, <1>4

LEMMA SaveDoneKeepsData ==
    ASSUME Context, DataInv, NEW p \in Procs, SaveNothing(p) \/ FinishSave(p)
    PROVE  DataInv'
<1>1. SaveDone(p) /\ UNCHANGED <<revision, file, opRoots>> /\ pc[p] \in {"saving", "writing"}
  BY DEF SaveNothing, FinishSave, SaveDone, Succeed
<1>2. \A r \in Roots : mem[p].projects[r] = Disk(r) /\ Disk(r)' = Disk(r)
  BY <1>1, CopySaved, DiskUnchanged
<1>3. Coherent(p)' /\ Saves(p)'
  <2>1. CASE Leave(p)
    BY <2>1, Gone
  <2>2. CASE ~Leave(p)
    <3>1. Wait(p) /\ mem' = [mem EXCEPT ![p].dirty = {},
                         ![p].seen = IF txn[p].issued = 0 THEN @ ELSE txn[p].issued]
      BY <1>1, <2>2 DEF SaveDone
    <3>2. pc'[p] = "idle" /\ mem'[p].projects = mem[p].projects
      BY <3>1 DEF Wait, Context, TypeOK, Memory
    <3>3. QED
      BY <1>2, <3>2 DEF Coherent, Saves
  <2>3. QED
    BY <2>1, <2>2
<1>4. \A q \in Procs : Coherent(q)' /\ Saves(q)'
  BY <1>1, <1>3, OthersKeep DEF Step, Progress, Fault
<1>5. CacheCoherence' /\ SavingInv'
  BY <1>4 DEF CacheCoherence, Coherent, SavingInv, Saves
<1>6. Durable'
  <2>1. Saves(p) /\ Conclude(p, "saved") /\ opRoots' = opRoots
    BY <1>1, DataParts DEF DataInv, SaveDone, Succeed
  <2>2. \A r \in opRoots[txn[p].op] : r \in Roots
    BY DEF Context, TypeOK, Transaction
  <2>3. txn[p].op # NoOp => \A r \in opRoots[txn[p].op] : txn[p].op \in Disk(r)
    BY <1>1, <1>2, <2>1, <2>2 DEF Saves
  <2>4. \A n \in AllOps : opState'[n] = "saved" =>
           opState[n] = "saved" \/ (n = txn[p].op /\ n # NoOp)
    BY <2>1 DEF Conclude, Context, TypeOK
  <2>5. QED
    BY <1>1, <2>1, <2>3, <2>4, DurableKept
<1>7. QED
  BY <1>5, <1>6 DEF DataInv

LEMMA WriteRevisionKeepsData ==
    ASSUME Context, Context', DataInv, NEW p \in Procs, WriteRevision(p)
    PROVE  DataInv'
<1>1. PICK W \in SUBSET mem[p].dirty :
         Changed(p) \subseteq W /\ txn' = [txn EXCEPT ![p].toWrite = W, ![p].issued = revision + 1]
  BY DEF WriteRevision
<1>2. /\ pc[p] = "saving" /\ pc'[p] = "writing" /\ mem' = mem /\ revision' = revision + 1
      /\ UNCHANGED <<file, opState, opRoots>>
  BY DEF WriteRevision, Context, TypeOK, history
<1>3. txn'[p].toWrite = W /\ txn'[p].op = txn[p].op
  BY <1>1 DEF Context, TypeOK, Transaction
<1>4. \A r \in Roots : Disk(r)' = Disk(r)
  BY <1>2, DiskUnchanged
<1>5. Saves(p)
  BY DataParts DEF DataInv
<1>6. \A r \in Roots : mem[p].projects[r] = Expected(p, r)'
  <2>1. SUFFICES ASSUME NEW r \in Roots PROVE mem[p].projects[r] = Expected(p, r)'
    OBVIOUS
  <2>2. mem[p].projects[r] = Expected(p, r)
    BY <1>2, <1>5 DEF Saves
  <2>3. CASE r \in W
    BY <1>2, <1>3, <1>4, <2>2, <2>3 DEF Expected
  <2>4. CASE r \notin W
    <3>1. mem[p].projects[r] = Disk(r)
      <4>1. CASE r \in mem[p].dirty
        BY <1>1, <2>4, <4>1 DEF Changed
      <4>2. CASE r \notin mem[p].dirty
        BY <2>2, <4>2 DEF Expected, Context, RunningInv
      <4>3. QED
        BY <4>1, <4>2
    <3>2. Expected(p, r)' = Disk(r)
      BY <1>2, <1>3, <1>4, <2>4 DEF Expected
    <3>3. QED
      BY <3>1, <3>2
  <2>5. QED
    BY <2>3, <2>4
<1>7. Saves(p)'
  BY <1>2, <1>3, <1>5, <1>6 DEF Saves
<1>8. Coherent(p)'
  BY <1>2 DEF Coherent, CacheValid, Context, RevisionInv, TypeOK, Memory
<1>9. \A q \in Procs : Coherent(q)' /\ Saves(q)'
  BY <1>2, <1>7, <1>8, OthersKeep DEF Step, Progress, Fault
<1>10. CacheCoherence' /\ SavingInv'
  BY <1>9 DEF CacheCoherence, Coherent, SavingInv, Saves
<1>11. Durable'
  BY <1>2, DurableKept
<1>12. QED
  BY <1>10, <1>11 DEF DataInv

LEMMA WriteProjectKeepsData ==
    ASSUME Context, DataInv, DistinctPaths, NEW p \in Procs, WriteProject(p)
    PROVE  DataInv'
<1>1. PICK r \in txn[p].toWrite :
         /\ file' = [file EXCEPT ![PathOf[r]] = [root |-> r, ops |-> mem[p].projects[r]]]
         /\ txn' = [txn EXCEPT ![p].toWrite = @ \ {r}]
  BY DEF WriteProject
<1>2. pc[p] = "writing" /\ UNCHANGED <<lock, revision, pc, mem, opState, opRoots>>
  BY DEF WriteProject, history
<1>3. r \in Roots /\ mem[p].projects[r] \in Contents
  BY <1>1 DEF Context, TypeOK, Transaction, Memory
<1>4. Disk(r)' = mem[p].projects[r] /\ \A s \in Roots \ {r} : Disk(s)' = Disk(s)
  BY <1>1, <1>3, DiskWritten DEF Context
<1>5. txn'[p].toWrite = txn[p].toWrite \ {r} /\ txn'[p].op = txn[p].op
  BY <1>1 DEF Context, TypeOK, Transaction
<1>6. Saves(p)
  BY DataParts DEF DataInv
<1>7. Saves(p)'
  <2>1. \A s \in Roots : mem[p].projects[s] = Expected(p, s)'
    BY <1>2, <1>4, <1>5, <1>6 DEF Expected, Saves
  <2>2. QED
    BY <1>2, <1>5, <1>6, <2>1 DEF Saves
<1>8. \A q \in Procs : ~CacheValid(q)'
  BY <1>2 DEF Context, RevisionInv, CacheValid, TypeOK, Memory
<1>9. \A q \in Procs \ {p} : pc'[q] \notin {"saving", "writing"}
  BY <1>2 DEF Context, LockInv, Holding
<1>10. CacheCoherence' /\ SavingInv'
  <2>1. \A q \in Procs : Coherent(q)' /\ Saves(q)'
    BY <1>7, <1>8, <1>9 DEF Coherent, Saves
  <2>2. QED
    BY <2>1 DEF CacheCoherence, Coherent, SavingInv, Saves
<1>11. Durable'
  <2>1. Disk(r) \subseteq Disk(r)'
    <3>1. mem[p].projects[r] = Expected(p, r)
      BY <1>2, <1>3, <1>6 DEF Saves
    <3>2. Disk(r) \subseteq Expected(p, r)
      BY DEF Expected
    <3>3. QED
      BY <1>4, <3>1, <3>2
  <2>2. \A s \in Roots : Disk(s) \subseteq Disk(s)'
    BY <1>4, <2>1
  <2>3. \A n \in AllOps : opRoots[n] \subseteq Roots
    BY DEF Context, TypeOK
  <2>4. QED
    BY <1>2, <2>2, <2>3 DEF DataInv, Durable
<1>12. QED
  BY <1>10, <1>11 DEF DataInv

LEMMA BreakKeepsData ==
    ASSUME Context, DataInv, NEW p \in Procs, SaveFails(p) \/ Stop(p)
    PROVE  DataInv'
<1>1. UNCHANGED <<revision, file, opRoots>>
  BY DEF SaveFails, Stop
<1>2. PICK verdict \in {"failed", "lost"} : Conclude(p, verdict)
  BY DEF SaveFails, Stop
<1>3. Coherent(p)' /\ Saves(p)'
  <2>1. CASE Leave(p)
    BY <2>1, Gone
  <2>2. CASE SaveFails(p) /\ txn[p].job = "tool"
    <3>1. Wait(p) /\ mem' = [mem EXCEPT ![p].uncertain = TRUE]
      BY <2>2 DEF SaveFails
    <3>2. pc'[p] = "idle" /\ mem'[p].uncertain
      BY <3>1 DEF Wait, Context, TypeOK, Memory
    <3>3. QED
      BY <3>2 DEF Coherent, Saves
  <2>3. CASE SaveFails(p) /\ txn[p].job = "exit"
    <3>1. Wait(p) /\ UNCHANGED mem /\ pc[p] \in {"saving", "writing"}
      BY <2>3 DEF SaveFails
    <3>2. pc'[p] = "idle"
      BY <3>1 DEF Wait, Context, TypeOK
    <3>3. txn[p].op = NoOp
      BY <2>3 DEF Context, TxnInv
    <3>4. \A r \in Roots : mem[p].projects[r] = Disk(r)
      BY <3>1, <3>3, DataParts DEF DataInv, Saves, Expected
    <3>5. \A r \in Roots : Disk(r)' = Disk(r)
      BY <1>1, DiskUnchanged
    <3>6. QED
      BY <3>1, <3>2, <3>4, <3>5 DEF Coherent, Saves
  <2>4. QED
    BY <2>1, <2>2, <2>3 DEF SaveFails, Stop
<1>4. \A q \in Procs : Coherent(q)' /\ Saves(q)'
  BY <1>1, <1>3, OthersKeep DEF Step, Progress, Fault
<1>5. CacheCoherence' /\ SavingInv'
  BY <1>4 DEF CacheCoherence, Coherent, SavingInv, Saves
<1>6. Durable'
  <2>1. \A n \in AllOps : opState'[n] = "saved" => opState[n] = "saved"
    BY <1>2 DEF Conclude, Context, TypeOK
  <2>2. QED
    BY <1>1, <2>1, DurableKept
<1>7. QED
  BY <1>5, <1>6 DEF DataInv

-----------------------------------------------------------------------------
(***************************************************************************)
(* The theorems                                                            *)
(***************************************************************************)
LEMMA ContextInvariant == Spec => []Context
BY TypeCorrect, LockInvariant, TxnInvariant, RevisionInvariant, RunningInvariant, PTL DEF Context

LEMMA DataInit == Init => DataInv
<1> SUFFICES ASSUME Init PROVE DataInv
  OBVIOUS
<1>1. PICK R \in SUBSET Roots :
         /\ \A r, s \in R : PathOf[r] = PathOf[s] => r = s
         /\ opRoots = [n \in AllOps |-> IF n = 0 THEN R ELSE {}]
         /\ file = [q \in Paths |->
                       IF \E r \in R : PathOf[r] = q
                       THEN [root |-> CHOOSE r \in R : PathOf[r] = q, ops |-> {0}]
                       ELSE NoFile]
  BY DEF Init
<1>2. \A r \in R : Disk(r) = {0}
  <2>1. SUFFICES ASSUME NEW r \in R PROVE Disk(r) = {0}
    OBVIOUS
  <2>2. r = CHOOSE s \in R : PathOf[s] = PathOf[r]
    BY <1>1
  <2>3. file[PathOf[r]] = [root |-> r, ops |-> {0}]
    BY <1>1, <2>2
  <2>4. QED
    BY <2>3 DEF Disk
<1>3. Durable
  BY <1>1, <1>2 DEF Init, Durable, AllOps
<1>4. CacheCoherence /\ SavingInv
  BY DEF Init, CacheCoherence, CacheValid, SavingInv, FreshMemory
<1>5. QED
  BY <1>3, <1>4 DEF DataInv

LEMMA DataStep ==
    ASSUME Context, Context', DataInv, DistinctPaths, [Next]_vars
    PROVE  DataInv'
<1>1. CASE UNCHANGED vars
  BY <1>1 DEF vars, disk, history, DataInv, CacheCoherence, CacheValid, SavingInv, Expected, Durable, Disk
<1>2. ASSUME NEW p \in Procs, Launch(p) \/ Request(p) \/ Stop(p) \/ Step(p)
      PROVE  DataInv'
  <2>1. CASE Contended(p) \/ LockFails(p) \/ ReloadFails(p)
    BY <2>1, RefusalKeepsData DEF Contended, LockFails, ReloadFails, Step, Progress, Fault
  <2>2. QED
    BY <1>2, <2>1, BeginningKeepsData, ReloadKeepsData, ApplyKeepsData, AnswerKeepsData,
       SaveDoneKeepsData, WriteRevisionKeepsData, WriteProjectKeepsData, BreakKeepsData
       DEF Step, Progress, Fault
<1>3. QED
  BY <1>1, <1>2 DEF Next

\* As long as no two projects share a file, IndInv holds in every state.
THEOREM Invariance == DistinctPaths => (Spec => []IndInv)
<1>1. ASSUME DistinctPaths PROVE Spec => []IndInv
  <2>1. Context /\ Context' /\ DataInv /\ [Next]_vars => DataInv'
    BY <1>1, DataStep
  <2>2. Context /\ DataInv => IndInv
    BY DEF Context, DataInv, IndInv
  <2>3. QED
    BY <2>1, <2>2, DataInit, ContextInvariant, PTL DEF Spec
<1>2. QED
  BY <1>1

\* Whenever a process may use its copy without loading, the copy is what is on
\* disk, whoever died or failed while saving (the revision is replaced before
\* the first project in TaskRepository::save).
THEOREM Coherence == DistinctPaths => (Spec => []CacheCoherence)
<1>1. IndInv => CacheCoherence
  BY DEF IndInv
<1>2. QED
  BY <1>1, Invariance, PTL

\* What was reported as saved stays in the files.
THEOREM Durability == DistinctPaths => (Spec => []Durable)
<1>1. IndInv => Durable
  BY DEF IndInv
<1>2. QED
  BY <1>1, Invariance, PTL

\* Every operation starts from a copy that has all that was ever saved.
THEOREM Freshness == DistinctPaths => (Spec => []OperatesOnLatest)
<1>1. TypeOK /\ IndInv => OperatesOnLatest
  <2> SUFFICES ASSUME TypeOK, IndInv, NEW p \in Procs, pc[p] = "operating",
                      NEW n \in AllOps, opState[n] = "saved", NEW r \in opRoots[n]
               PROVE  n \in mem[p].projects[r]
    BY DEF OperatesOnLatest
  <2>1. r \in Roots /\ n \in Disk(r)
    BY DEF IndInv, Durable, TypeOK
  <2>2. CacheValid(p) /\ ~mem[p].uncertain
    BY DEF IndInv, RevisionInv, TxnInv
  <2>3. mem[p].projects[r] = Disk(r)
    BY <2>1, <2>2 DEF IndInv, CacheCoherence
  <2>4. QED
    BY <2>1, <2>3
<1>2. QED
  BY <1>1, Invariance, TypeCorrect, PTL

-----------------------------------------------------------------------------
(***************************************************************************)
(* Refinement                                                              *)
(***************************************************************************)
LEMMA StoreUnchanged ==
    ASSUME UNCHANGED <<file, opState, opRoots>>
    PROVE  UNCHANGED Store!vars
<1>1. \A r \in Roots : Disk(r)' = Disk(r)
  BY DiskUnchanged
<1>2. QED
  BY <1>1 DEF Store!vars

LEMMA StoreInit ==
    ASSUME Init
    PROVE  Store!Init
<1>1. PICK R \in SUBSET Roots :
         /\ \A r, s \in R : PathOf[r] = PathOf[s] => r = s
         /\ opRoots = [n \in AllOps |-> IF n = 0 THEN R ELSE {}]
         /\ file = [q \in Paths |->
                       IF \E r \in R : PathOf[r] = q
                       THEN [root |-> CHOOSE r \in R : PathOf[r] = q, ops |-> {0}]
                       ELSE NoFile]
  BY DEF Init
<1>2. \A r \in Roots : Disk(r) = IF r \in R THEN {0} ELSE {}
  <2>1. SUFFICES ASSUME NEW r \in Roots PROVE Disk(r) = IF r \in R THEN {0} ELSE {}
    OBVIOUS
  <2>2. CASE r \in R
    <3>1. r = CHOOSE s \in R : PathOf[s] = PathOf[r]
      BY <1>1, <2>2
    <3>2. file[PathOf[r]] = [root |-> r, ops |-> {0}]
      BY <1>1, <2>2, <3>1
    <3>3. QED
      BY <2>2, <3>2 DEF Disk
  <2>3. CASE r \notin R
    <3>1. CASE \E s \in R : PathOf[s] = PathOf[r]
      <4>1. (CHOOSE s \in R : PathOf[s] = PathOf[r]) \in R
        BY <3>1
      <4>2. file[PathOf[r]].root # r
        BY <1>1, <2>3, <3>1, <4>1
      <4>3. QED
        BY <2>3, <4>2 DEF Disk
    <3>2. CASE ~\E s \in R : PathOf[s] = PathOf[r]
      BY <1>1, <2>3, <3>2 DEF Disk, NoFile
    <3>3. QED
      BY <3>1, <3>2
  <2>4. QED
    BY <2>2, <2>3
<1>3. [r \in Roots |-> Disk(r)] = [r \in Roots |-> IF r \in R THEN {0} ELSE {}]
  BY <1>2
<1>4. opState = [n \in AllOps |-> IF n = 0 THEN "saved" ELSE "unused"]
  BY DEF Init
<1>5. QED
  BY <1>1, <1>3, <1>4 DEF Store!Init, Store!AllOps, AllOps

\* An operation that ends, ends in the abstract store.
LEMMA StoreEnds ==
    ASSUME Context, NEW p \in Procs, UNCHANGED <<file, opRoots>>,
           NEW verdict \in {"saved", "failed", "lost"}, Conclude(p, verdict),
           verdict = "saved" /\ txn[p].op # NoOp =>
              \A r \in opRoots[txn[p].op] : txn[p].op \in Disk(r)
    PROVE  Store!Next \/ UNCHANGED Store!vars
<1>1. CASE txn[p].op = NoOp
  BY <1>1, StoreUnchanged DEF Conclude
<1>2. CASE txn[p].op # NoOp
  <2> DEFINE n == txn[p].op
  <2>1. n \in Ops /\ opState[n] = "running" /\ opState' = [opState EXCEPT ![n] = verdict]
    BY <1>2 DEF Context, TypeOK, Transaction, RunningInv, Conclude, AllOps, Ops, NoOp
  <2>2. [r \in Roots |-> Disk(r)]' = [r \in Roots |-> Disk(r)]
    BY DiskUnchanged
  <2>3. CASE verdict = "saved"
    <3>1. opRoots[n] \subseteq Roots
      BY <2>1 DEF Context, TypeOK, Ops, AllOps
    <3>2. Store!Acknowledge(n)
      BY <1>2, <2>1, <2>2, <2>3, <3>1 DEF Store!Acknowledge
    <3>3. QED
      BY <2>1, <3>2 DEF Store!Next, Store!Ops, Ops
  <2>4. CASE verdict \in {"failed", "lost"}
    <3>1. Store!GiveUp(n, verdict)
      BY <2>1, <2>2 DEF Store!GiveUp
    <3>2. QED
      BY <2>1, <2>4, <3>1 DEF Store!Next, Store!Ops, Ops
  <2>5. QED
    BY <2>3, <2>4
<1>3. QED
  BY <1>1, <1>2

LEMMA StoreBegins ==
    ASSUME Context, NEW p \in Procs, Apply(p)
    PROVE  Store!Next
<1>1. PICK n \in Ops, R \in (SUBSET Roots) \ {{}} :
         /\ opState[n] = "unused"
         /\ opState' = [opState EXCEPT ![n] = "running"]
         /\ opRoots' = [opRoots EXCEPT ![n] = R]
  BY ApplyStep DEF Context
<1>2. file' = file
  BY DEF Apply, disk
<1>3. [r \in Roots |-> Disk(r)]' = [r \in Roots |-> Disk(r)]
  BY <1>2, DiskUnchanged
<1>4. Store!Begin(n, R)
  BY <1>1, <1>3 DEF Store!Begin
<1>5. QED
  BY <1>1, <1>4 DEF Store!Next, Store!Ops, Ops

LEMMA StoreCommits ==
    ASSUME Context, DataInv, DistinctPaths, NEW p \in Procs, WriteProject(p)
    PROVE  Store!Next \/ UNCHANGED Store!vars
<1>1. PICK r \in txn[p].toWrite :
         file' = [file EXCEPT ![PathOf[r]] = [root |-> r, ops |-> mem[p].projects[r]]]
  BY DEF WriteProject
<1>2. pc[p] = "writing" /\ UNCHANGED <<opState, opRoots>>
  BY DEF WriteProject, history
<1>3. r \in Roots /\ mem[p].projects[r] \in Contents
  BY <1>1 DEF Context, TypeOK, Transaction, Memory
<1>4. Disk(r)' = mem[p].projects[r] /\ \A s \in Roots \ {r} : Disk(s)' = Disk(s)
  BY <1>1, <1>3, DiskWritten DEF Context
<1>5. mem[p].projects[r] = Expected(p, r)
  BY <1>2, <1>3, DataParts DEF DataInv, Saves
<1>6. CASE Expected(p, r) = Disk(r)
  <2>1. [s \in Roots |-> Disk(s)]' = [s \in Roots |-> Disk(s)]
    BY <1>4, <1>5, <1>6
  <2>2. QED
    BY <1>2, <2>1 DEF Store!vars
<1>7. CASE Expected(p, r) # Disk(r)
  <2> DEFINE n == txn[p].op
  <2>1. n # NoOp /\ r \in opRoots[n] /\ Expected(p, r) = Disk(r) \cup {n}
    BY <1>7 DEF Expected
  <2>2. n \in Ops /\ opState[n] = "running"
    BY <2>1 DEF Context, TypeOK, Transaction, RunningInv, AllOps, Ops, NoOp
  <2>3. [s \in Roots |-> Disk(s)]' = [[s \in Roots |-> Disk(s)] EXCEPT ![r] = @ \cup {n}]
    BY <1>3, <1>4, <1>5, <2>1
  <2>4. Store!Commit(n, r)
    BY <1>2, <2>1, <2>2, <2>3 DEF Store!Commit
  <2>5. QED
    BY <1>3, <2>2, <2>4 DEF Store!Next, Store!Ops, Ops
<1>8. QED
  BY <1>6, <1>7

LEMMA StoreStep ==
    ASSUME Context, DataInv, DistinctPaths, [Next]_vars
    PROVE  Store!Next \/ UNCHANGED Store!vars
<1>1. CASE UNCHANGED vars
  BY <1>1, StoreUnchanged DEF vars, disk, history
<1>2. ASSUME NEW p \in Procs, Launch(p) \/ Request(p) \/ Stop(p) \/ Step(p)
      PROVE  Store!Next \/ UNCHANGED Store!vars
  <2>1. CASE Stop(p) \/ SaveFails(p)
    <3>1. \E verdict \in {"failed", "lost"} : Conclude(p, verdict)
      BY <2>1 DEF Stop, SaveFails
    <3>2. UNCHANGED <<file, opRoots>>
      BY <2>1 DEF Stop, SaveFails
    <3>3. QED
      BY <3>1, <3>2, StoreEnds
  <2>2. CASE SaveNothing(p) \/ FinishSave(p)
    <3>1. UNCHANGED <<file, opRoots>> /\ Conclude(p, "saved") /\ pc[p] \in {"saving", "writing"}
      BY <2>2 DEF SaveNothing, FinishSave, SaveDone, Succeed
    <3>2. \A r \in opRoots[txn[p].op] : r \in Roots
      BY DEF Context, TypeOK, Transaction
    <3>3. txn[p].op # NoOp => \A r \in opRoots[txn[p].op] : txn[p].op \in Disk(r)
      BY <2>2, <3>1, <3>2, CopySaved, DataParts DEF DataInv, Saves
    <3>4. QED
      BY <3>1, <3>3, StoreEnds
  <2>3. CASE Answer(p)
    <3>1. txn[p].op = NoOp /\ UNCHANGED <<file, opRoots>>
      BY <2>3 DEF Answer, Operates, Succeed, disk, history, Context, TxnInv
    <3>2. opState' = opState
      BY <2>3, <3>1 DEF Answer, Succeed, Conclude, history
    <3>3. QED
      BY <3>1, <3>2, StoreUnchanged
  <2>4. CASE Launch(p) \/ Request(p) \/ Acquire(p) \/ Contended(p) \/ LockFails(p)
             \/ ReloadCached(p) \/ ReloadFromDisk(p) \/ ReloadFails(p) \/ LoadOnly(p)
             \/ CommandError(p) \/ WriteRevision(p)
    <3>1. UNCHANGED <<file, opState, opRoots>>
      BY <2>4 DEF Launch, Request, Acquire, Contended, LockFails, ReloadCached, ReloadFromDisk,
           ReloadFails, Refuse, LoadOnly, CommandError, WriteRevision, disk, history
    <3>2. QED
      BY <3>1, StoreUnchanged
  <2>5. QED
    BY <1>2, <2>1, <2>2, <2>3, <2>4, StoreBegins, StoreCommits DEF Step, Progress, Fault
<1>3. QED
  BY <1>1, <1>2 DEF Next

\* The files implement ProjectStore as long as no two projects share one.
THEOREM Refinement == DistinctPaths => (Spec => ImplementsProjectStore)
<1>1. ASSUME DistinctPaths PROVE Spec => Store!Spec
  <2>1. Context /\ DataInv /\ [Next]_vars => [Store!Next]_(Store!vars)
    BY <1>1, StoreStep
  <2>2. Context /\ Context' /\ DataInv /\ [Next]_vars => DataInv'
    BY <1>1, DataStep
  <2>3. QED
    BY <2>1, <2>2, StoreInit, DataInit, ContextInvariant, PTL DEF Spec, Store!Spec
<1>2. QED
  BY <1>1 DEF ImplementsProjectStore
=============================================================================
