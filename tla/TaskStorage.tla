----------------------------- MODULE TaskStorage ----------------------------
(***************************************************************************)
(* The storage directory shared by every Schronu process, and the code     *)
(* that reads and writes it:                                               *)
(*                                                                         *)
(*   application/repository_transaction.rs   lock, reload, operate, save   *)
(*   adapter/gateway/storage_lock.rs         the advisory lock on .lock    *)
(*   adapter/gateway/task_repository.rs      cache, load, save, .revision  *)
(*   adapter/mcp.rs                          the server's transaction      *)
(*   adapter/controller/schronu/runtime.rs   the command line's            *)
(*                                                                         *)
(* A process is an MCP server, an interactive shell or a one-shot command. *)
(* It keeps a copy of all projects in memory and trusts the copy as long   *)
(* as the revision it remembers is the one on disk.  Each storage          *)
(* operation takes the lock, refreshes the copy, runs, saves what is       *)
(* dirty and drops the lock.  A save replaces .revision first, then one    *)
(* project file after the other; any of these writes may fail and any      *)
(* process may die between two of them.                                    *)
(*                                                                         *)
(* Data: the content of a project is the set of operations applied to it,  *)
(* operation 0 standing for what was there at first; {} is no project.     *)
(* Revisions (UUIDs, always fresh) are numbered in the order they reach    *)
(* the disk, 0 being "no .revision file".                                  *)
(***************************************************************************)
EXTENDS Naturals, FiniteSets

CONSTANTS
    Servers,      \* schronu-mcp processes
    Shells,       \* interactive schronu processes
    Commands,     \* one-shot schronu processes
    Roots,        \* root tasks; each is the root of one project
    Paths,        \* project.yaml paths
    PathOf,       \* the path start_new_project gives to a root
    MaxOps,       \* bound: operations that change a project
    MaxRevision,  \* bound: no storage operation starts at this revision
    NoProc,       \* the lock is free
    NoRoot        \* the path has no file

Procs == Servers \cup Shells \cup Commands

ASSUME ProcsAssumption ==
    /\ Servers \cap Shells = {}
    /\ Servers \cap Commands = {}
    /\ Shells \cap Commands = {}
    /\ NoProc \notin Procs

ASSUME RootsAssumption == NoRoot \notin Roots /\ PathOf \in [Roots -> Paths]

ASSUME BoundsAssumption == MaxOps \in Nat /\ MaxRevision \in Nat

AllOps == 0..MaxOps
Ops == 1..MaxOps
NoOp == 0

VARIABLES
    lock,      \* who holds the flock on .lock
    revision,  \* the content of .revision
    file,      \* [Paths -> File]: the project.yaml files
    pc,        \* where each process is
    mem,       \* [Procs -> Memory]: each process's TaskRepository
    txn,       \* [Procs -> Transaction]: its storage operation under way
    opState,   \* history: what became of each operation
    opRoots    \* history: the projects each operation changed

disk == <<lock, revision, file>>
history == <<opState, opRoots>>
vars == <<disk, pc, mem, txn, history>>

(***************************************************************************)
(* Types                                                                   *)
(***************************************************************************)
Contents == SUBSET AllOps

File == [root : Roots \cup {NoRoot}, ops : Contents]
NoFile == [root |-> NoRoot, ops |-> {}]

PCs == {"down", "idle", "locking", "reloading", "operating", "saving", "writing"}

\* A process that is not running, or has not loaded yet, remembers nothing.
Memory == [loaded : BOOLEAN,               \* has_loaded
           seen : Nat,                     \* storage_revision
           projects : [Roots -> Contents], \* projects
           dirty : SUBSET Roots,           \* needs_save
           uncertain : BOOLEAN]            \* repository_state_uncertain
FreshMemory == [loaded |-> FALSE, seen |-> 0, projects |-> [r \in Roots |-> {}],
                dirty |-> {}, uncertain |-> FALSE]

Jobs == {"tool",                                           \* server
         "startup", "submit", "refresh", "exit", "eof",    \* shell
         "command", "verify"}                              \* one-shot

Transaction == [job : Jobs \cup {"none"},
                op : AllOps,             \* the operation it applied, or NoOp
                toWrite : SUBSET Roots,  \* prepared_writes still to be written
                issued : Nat]            \* new_storage_revision
NoTransaction == [job |-> "none", op |-> NoOp, toWrite |-> {}, issued |-> 0]

OpStates == {"unused", "running", "saved", "failed", "lost"}

TypeOK ==
    /\ lock \in Procs \cup {NoProc}
    /\ revision \in Nat
    /\ file \in [Paths -> File]
    /\ pc \in [Procs -> PCs]
    /\ mem \in [Procs -> Memory]
    /\ txn \in [Procs -> Transaction]
    /\ opState \in [AllOps -> OpStates]
    /\ opRoots \in [AllOps -> SUBSET Roots]

(***************************************************************************)
(* State functions                                                         *)
(***************************************************************************)
\* What a load finds for root r.
Disk(r) == IF file[PathOf[r]].root = r THEN file[PathOf[r]].ops ELSE {}

\* The operation of a process that is gone, or failed, leaves "running".
Conclude(p, verdict) ==
    opState' = IF txn[p].op = NoOp THEN opState
               ELSE [opState EXCEPT ![txn[p].op] = verdict]

\* The process stays up and waits for its next request.
Wait(p) == pc' = [pc EXCEPT ![p] = "idle"]

\* The process ends: everything it held in memory is gone.
Leave(p) ==
    /\ pc' = [pc EXCEPT ![p] = "down"]
    /\ mem' = [mem EXCEPT ![p] = FreshMemory]

\* Dropping the StorageLock, or dying, releases the flock.
Unlock_WhoeverHoldsIt(p) ==
    /\ lock' = NoProc
    /\ txn' = [txn EXCEPT ![p] = NoTransaction]
Unlock(p) ==
    /\ lock' = IF lock = p THEN NoProc ELSE lock
    /\ txn' = [txn EXCEPT ![p] = NoTransaction]

(***************************************************************************)
(* Initially no process runs and .revision does not exist; some projects   *)
(* may be there already.                                                   *)
(***************************************************************************)
Init ==
    /\ lock = NoProc
    /\ revision = 0
    /\ pc = [p \in Procs |-> "down"]
    /\ mem = [p \in Procs |-> FreshMemory]
    /\ txn = [p \in Procs |-> NoTransaction]
    /\ opState = [n \in AllOps |-> IF n = 0 THEN "saved" ELSE "unused"]
    /\ \E R \in SUBSET Roots :
        /\ \A r, s \in R : PathOf[r] = PathOf[s] => r = s
        /\ opRoots = [n \in AllOps |-> IF n = 0 THEN R ELSE {}]
        /\ file = [q \in Paths |->
                      IF \E r \in R : PathOf[r] = q
                      THEN [root |-> CHOOSE r \in R : PathOf[r] = q, ops |-> {0}]
                      ELSE NoFile]

(***************************************************************************)
(* Starting a process or a storage operation                               *)
(***************************************************************************)
\* A server waits for requests and loads nothing.  A shell or a command
\* begins with a storage operation.
Launch(p) ==
    /\ pc[p] = "down"
    /\ \/ /\ p \in Servers
          /\ pc' = [pc EXCEPT ![p] = "idle"]
          /\ UNCHANGED txn
       \/ /\ p \notin Servers
          /\ revision < MaxRevision
          /\ \E job \in IF p \in Shells THEN {"startup"} ELSE {"command", "verify"} :
                txn' = [txn EXCEPT ![p].job = job]
          /\ pc' = [pc EXCEPT ![p] = "locking"]
    /\ UNCHANGED <<disk, mem, history>>

\* mcp.rs refuses every tools/call once repository_state_uncertain is set.
MayCall_EvenUncertain(p) == pc[p] = "idle"
MayCall(p) == pc[p] = "idle" /\ ~mem[p].uncertain

\* A tools/call arrives, or the user submits a line, closes the input, asks
\* to leave, or leaves the shell alone for 60 s.
Request(p) ==
    /\ MayCall(p)
    /\ revision < MaxRevision
    /\ \E job \in IF p \in Servers THEN {"tool"} ELSE {"submit", "refresh", "exit", "eof"} :
          txn' = [txn EXCEPT ![p].job = job]
    /\ pc' = [pc EXCEPT ![p] = "locking"]
    /\ UNCHANGED <<disk, mem, history>>

(***************************************************************************)
(* Lock                                                                    *)
(***************************************************************************)
Acquire(p) ==
    /\ pc[p] = "locking"
    /\ lock = NoProc
    /\ lock' = p
    /\ pc' = [pc EXCEPT ![p] = "reloading"]
    /\ UNCHANGED <<revision, file, mem, txn, history>>

\* No lock, or no load: a server and a running shell report the error and
\* wait for the next request; whoever needed it to start or to end is gone.
Refuse(p) ==
    /\ Unlock(p)
    /\ IF txn[p].job \in {"tool", "submit", "refresh", "exit"}
       THEN Wait(p) /\ UNCHANGED mem
       ELSE Leave(p)
    /\ UNCHANGED <<revision, file, history>>

\* A server tries once; the command line tries again for up to a second,
\* which is when it refuses.
Contended_CommandLineWaits(p) ==
    /\ pc[p] = "locking"
    /\ lock # NoProc
    /\ p \in Servers
    /\ Refuse(p)
Contended(p) ==
    /\ pc[p] = "locking"
    /\ lock # NoProc
    /\ Refuse(p)

\* The lock file cannot be opened, or its metadata cannot be written, in
\* which case the lock just taken is dropped again.
LockFails(p) ==
    /\ pc[p] = "locking"
    /\ Refuse(p)

(***************************************************************************)
(* reload_if_changed                                                       *)
(***************************************************************************)
CacheValid_OnceLoaded(p) == mem[p].loaded
CacheValid(p) == mem[p].loaded /\ mem[p].seen = revision

\* Leaving saves what is pending; the other requests run first.
AfterReload(p) ==
    pc' = [pc EXCEPT ![p] = IF txn[p].job \in {"exit", "eof"} THEN "saving" ELSE "operating"]

\* Only the clock is synchronised.  That may move a pending_until, a
\* persisted field, in any of the projects and so make them dirty.
ReloadCached(p) ==
    /\ pc[p] = "reloading"
    /\ CacheValid(p)
    /\ \E D \in SUBSET {r \in Roots : mem[p].projects[r] # {}} :
          mem' = [mem EXCEPT ![p].dirty = @ \cup D]
    /\ AfterReload(p)
    /\ UNCHANGED <<disk, txn, history>>

LoadedProjects_OnlyFiles == [r \in {s \in Roots : Disk(s) # {}} |-> Disk(r)]
LoadedProjects == [r \in Roots |-> Disk(r)]

ReloadFromDisk(p) ==
    /\ pc[p] = "reloading"
    /\ ~CacheValid(p)
    /\ mem' = [mem EXCEPT ![p] = [loaded |-> TRUE, seen |-> revision,
                                  projects |-> LoadedProjects,
                                  dirty |-> {}, uncertain |-> @.uncertain]]
    /\ AfterReload(p)
    /\ UNCHANGED <<disk, txn, history>>

\* An unreadable or malformed file: the memory stays as it was.
ReloadFails_RevisionKept(p) ==
    /\ pc[p] = "reloading"
    /\ txn[p].job = "tool"
    /\ Unlock(p)
    /\ Wait(p)
    /\ mem' = [mem EXCEPT ![p].seen = revision]
    /\ UNCHANGED <<revision, file, history>>
ReloadFails(p) ==
    /\ pc[p] = "reloading"
    /\ Refuse(p)

(***************************************************************************)
(* The operation                                                           *)
(***************************************************************************)
Operates(p) == pc[p] = "operating" /\ txn[p].job \in {"tool", "submit", "command"}

\* The projects an operation may change: some of those in memory, or one it
\* creates, with a root task nobody has used before.
Targets(p) ==
    ((SUBSET {r \in Roots : mem[p].projects[r] # {}}) \ {{}})
        \cup {{r} : r \in {s \in Roots : \A n \in AllOps : s \notin opRoots[n]}}

Apply(p) ==
    /\ Operates(p)
    /\ \E n \in Ops, R \in Targets(p) :
        /\ opState[n] = "unused"
        /\ \A m \in 1..(n - 1) : opState[m] # "unused"
        /\ opState' = [opState EXCEPT ![n] = "running"]
        /\ opRoots' = [opRoots EXCEPT ![n] = R]
        /\ txn' = [txn EXCEPT ![p].op = n]
        /\ mem' = [mem EXCEPT
              ![p].projects = [r \in Roots |-> IF r \in R THEN @[r] \cup {n} ELSE @[r]],
              ![p].dirty = @ \cup R]
    /\ pc' = [pc EXCEPT ![p] = "saving"]
    /\ UNCHANGED disk

(***************************************************************************)
(* The end of a storage operation                                          *)
(***************************************************************************)
\* run_repository_transaction returned Ok, or the shell may leave.
Succeed(p) ==
    /\ Unlock(p)
    /\ Conclude(p, "saved")
    /\ UNCHANGED opRoots

\* A query, or an operation refused before it changed anything.  A server
\* saves only after a successful mutation, the command line whatever is dirty.
Answer(p) ==
    /\ Operates(p)
    /\ IF p \notin Servers /\ mem[p].dirty # {}
       THEN pc' = [pc EXCEPT ![p] = "saving"] /\ UNCHANGED <<disk, mem, txn, history>>
       ELSE /\ Succeed(p)
            /\ IF txn[p].job = "command" THEN Leave(p) ELSE Wait(p) /\ UNCHANGED mem
            /\ UNCHANGED <<revision, file>>

\* The first load of a shell, its periodic refresh, and verify stop here.
LoadOnly(p) ==
    /\ pc[p] = "operating"
    /\ txn[p].job \in {"startup", "refresh", "verify"}
    /\ Unlock(p)
    /\ IF txn[p].job = "verify" THEN Leave(p) ELSE Wait(p) /\ UNCHANGED mem
    /\ UNCHANGED <<revision, file, history>>

\* A command that ends in an error is not saved: the process exits with it.
CommandError(p) ==
    /\ Operates(p)
    /\ p \notin Servers
    /\ Unlock(p)
    /\ Leave(p)
    /\ UNCHANGED <<revision, file, history>>

(***************************************************************************)
(* save                                                                    *)
(***************************************************************************)
\* Dirty projects whose file does not hold their operations.  Of the other
\* dirty ones, the clock may or may not have changed the text to be written.
Changed(p) == {r \in mem[p].dirty : mem[p].projects[r] # Disk(r)}

\* After a save, or with nothing to save: a leaving shell and a command end.
SaveDone(p) ==
    /\ Succeed(p)
    /\ IF txn[p].job \in {"exit", "eof", "command"}
       THEN Leave(p)
       ELSE /\ Wait(p)
            /\ mem' = [mem EXCEPT ![p].dirty = {},
                                  ![p].seen = IF txn[p].issued = 0 THEN @ ELSE txn[p].issued]

SaveNothing(p) ==
    /\ pc[p] = "saving"
    /\ Changed(p) = {}
    /\ SaveDone(p)
    /\ UNCHANGED <<revision, file>>

WriteRevision_NotWritten(p) ==
    /\ pc[p] = "saving"
    /\ \E W \in SUBSET mem[p].dirty :
        /\ Changed(p) \subseteq W
        /\ W # {}
        /\ txn' = [txn EXCEPT ![p].toWrite = W]
    /\ pc' = [pc EXCEPT ![p] = "writing"]
    /\ UNCHANGED <<lock, revision, file, mem, history>>
WriteRevision(p) ==
    /\ pc[p] = "saving"
    /\ \E W \in SUBSET mem[p].dirty :
        /\ Changed(p) \subseteq W
        /\ W # {}
        /\ txn' = [txn EXCEPT ![p].toWrite = W, ![p].issued = revision + 1]
    /\ revision' = revision + 1
    /\ pc' = [pc EXCEPT ![p] = "writing"]
    /\ UNCHANGED <<lock, file, mem, history>>

WriteProject(p) ==
    /\ pc[p] = "writing"
    /\ \E r \in txn[p].toWrite :
        /\ file' = [file EXCEPT ![PathOf[r]] = [root |-> r, ops |-> mem[p].projects[r]]]
        /\ txn' = [txn EXCEPT ![p].toWrite = @ \ {r}]
    /\ UNCHANGED <<lock, revision, pc, mem, history>>

FinishSave(p) ==
    /\ pc[p] = "writing"
    /\ txn[p].toWrite = {}
    /\ SaveDone(p)
    /\ UNCHANGED <<revision, file>>

\* A server refuses all later calls, a shell or command ends; only a shell
\* that could not save on its way out stays, with its memory as it is.
SaveFails(p) ==
    /\ \/ pc[p] = "saving" /\ mem[p].dirty # {}
       \/ pc[p] = "writing" /\ txn[p].toWrite # {}
    /\ Unlock(p)
    /\ Conclude(p, "failed")
    /\ CASE txn[p].job = "tool" -> Wait(p) /\ mem' = [mem EXCEPT ![p].uncertain = TRUE]
         [] txn[p].job = "exit" -> Wait(p) /\ UNCHANGED mem
         [] OTHER -> Leave(p)
    /\ UNCHANGED <<revision, file, opRoots>>

(***************************************************************************)
(* A crash, a kill, Ctrl-C, or the end of the client's connection.         *)
(***************************************************************************)
Stop(p) ==
    /\ pc[p] # "down"
    /\ Unlock(p)
    /\ Leave(p)
    /\ Conclude(p, "lost")
    /\ UNCHANGED <<revision, file, opRoots>>

-----------------------------------------------------------------------------
\* The steps a running process takes by itself once it was asked something,
\* with no fault of the storage, and those with one.
Progress(p) ==
    \/ Acquire(p) \/ Contended(p)
    \/ ReloadCached(p) \/ ReloadFromDisk(p)
    \/ Apply(p) \/ Answer(p) \/ LoadOnly(p)
    \/ SaveNothing(p) \/ WriteRevision(p) \/ WriteProject(p) \/ FinishSave(p)

Fault(p) == LockFails(p) \/ ReloadFails(p) \/ CommandError(p) \/ SaveFails(p)

Step(p) == Progress(p) \/ Fault(p)

Next == \E p \in Procs : Launch(p) \/ Request(p) \/ Stop(p) \/ Step(p)

Spec == Init /\ [][Next]_vars

\* Nobody has to ask anything or to start a process, and no fault has to
\* happen; but the code of a process that was asked runs on.
FairSpec == Spec /\ \A p \in Procs : WF_vars(Progress(p))
-----------------------------------------------------------------------------
(***************************************************************************)
(* Properties                                                              *)
(***************************************************************************)
\* Two roots never share a project.yaml.  start_new_project does not see to
\* it: two projects created on one day under one name share their path.
DistinctPaths == \A r, s \in Roots : PathOf[r] = PathOf[s] => r = s

Holding == {"reloading", "operating", "saving", "writing"}

\* Storage operations are serialised: between taking the lock and dropping
\* it, a process is alone (StorageLock held by run_repository_transaction).
OneAtATime ==
    \A p, q \in Procs : pc[p] \in Holding /\ pc[q] \in Holding => p = q

\* What the revision check of reload_if_changed relies on: whenever a process
\* remembers the revision that is on disk, its copy has exactly the operations
\* that are on disk, whoever crashed or failed half-way through a save before.
\* Excepted are the process that has just changed its own copy, and a server
\* poisoned by a failed save.
CacheCoherence ==
    \A p \in Procs :
        CacheValid(p) /\ pc[p] # "saving" /\ ~mem[p].uncertain
            => \A r \in Roots : mem[p].projects[r] = Disk(r)

\* An operation reported as successful is in the file of every project it
\* changed, and stays there (README: what succeeded has been saved).
Durable ==
    \A n \in AllOps : opState[n] = "saved" => \A r \in opRoots[n] : n \in Disk(r)

\* Every tool call and command runs on a copy that has everything anybody was
\* ever told is saved, even when it comes from the cache.
OperatesOnLatest ==
    \A p \in Procs : pc[p] = "operating" =>
        \A n \in AllOps : opState[n] = "saved" =>
            \A r \in opRoots[n] : n \in mem[p].projects[r]

\* The files implement ProjectStore: no write ever removes an operation from
\* a project, and none brings in one that was reported failed, was lost with
\* its process, or was never asked for.
Store == INSTANCE ProjectStore WITH store <- [r \in Roots |-> Disk(r)]
ImplementsProjectStore == Store!Spec

\* Whoever was asked something answers or ends, whatever the others do: no
\* waiting for ever on the lock, and no storage operation without an end.
EveryRequestEnds ==
    \A p \in Procs : pc[p] \notin {"down", "idle"} ~> pc[p] \in {"down", "idle"}

-----------------------------------------------------------------------------
(***************************************************************************)
(* The inductive invariant behind these properties, in named parts.  It    *)
(* holds when the paths are distinct.                                      *)
(***************************************************************************)
\* A process between Acquire and its end, and only it, has the lock.
LockInv == \A p \in Procs : pc[p] \in Holding <=> lock = p

\* The transaction record is empty until there is something to record, and
\* a server that is uncertain does nothing any more.
TxnInv ==
    \A p \in Procs :
        /\ pc[p] \in {"down", "idle"} => txn[p] = NoTransaction
        /\ pc[p] \notin {"saving", "writing"} => txn[p].op = NoOp
        /\ txn[p].op # NoOp => txn[p].job \in {"tool", "submit", "command"}
        /\ pc[p] # "writing" => txn[p].toWrite = {} /\ txn[p].issued = 0
        /\ mem[p].uncertain => pc[p] = "idle"

\* Nobody remembers a revision that is not on disk yet.  While projects are
\* being written nobody remembers the one on disk, not even the writer.
RevisionInv ==
    \A p \in Procs :
        /\ mem[p].seen <= revision
        /\ pc[p] \in {"operating", "saving"} => CacheValid(p)
        /\ pc[p] = "writing" =>
              txn[p].issued = revision /\ \A q \in Procs : mem[q].seen < revision

\* A running operation belongs to the process that is saving it.
RunningInv ==
    /\ \A n \in AllOps : opState[n] = "running" =>
          n \in Ops /\ \E p \in Procs : txn[p].op = n
    /\ \A p \in Procs : txn[p].op # NoOp =>
          opState[txn[p].op] = "running" /\ opRoots[txn[p].op] \subseteq mem[p].dirty

\* What the copy of p has for r while p saves: what is on disk, and also the
\* operation of p as long as the project has still to be written.
Expected(p, r) ==
    IF /\ txn[p].op # NoOp
       /\ r \in opRoots[txn[p].op]
       /\ pc[p] = "writing" => r \in txn[p].toWrite
    THEN Disk(r) \cup {txn[p].op}
    ELSE Disk(r)

SavingInv ==
    \A p \in Procs : pc[p] \in {"saving", "writing"} =>
        /\ \A r \in Roots : mem[p].projects[r] = Expected(p, r)
        /\ txn[p].op # NoOp =>
              \A r \in opRoots[txn[p].op] : txn[p].op \in mem[p].projects[r]

IndInv ==
    /\ LockInv
    /\ TxnInv
    /\ RevisionInv
    /\ RunningInv
    /\ CacheCoherence
    /\ SavingInv
    /\ Durable
=============================================================================
