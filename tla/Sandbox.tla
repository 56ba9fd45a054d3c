------------------------------- MODULE Sandbox -------------------------------
(***************************************************************************)
(* PDFs read in worker processes that cannot spend more than they are      *)
(* given (infra/documents/sandbox.py): a pool of processes, built when the *)
(* first document needs it, one document to a process, and thrown away     *)
(* when a process died.  Requests of one event loop share it.  What a      *)
(* worker measures, its memory above all, is what its process ever spent.  *)
(***************************************************************************)
EXTENDS Documents, FiniteSetsExt

CONSTANTS
    Clients,    \* requests that can be in flight together
    Files,      \* what they upload
    Workers,    \* the processes of a pool
    CpuSeconds, \* the time one document may take
    Expansion,  \* the memory it may need
    AddressSpace,  \* the memory no process gets past
    None,
    Lost,       \* no answer but the end of the request
    MaxUploads, \* bound: uploads in the behaviour
    MaxReclaims \* bound: workers the kernel takes back

VARIABLES
    pool,       \* the pool that is handed out, 0 without one
    pools,      \* how every pool built so far fares
    job,        \* the document of each request
    said,       \* what each request was last answered
    uploads,
    reclaims

SandboxAssumption == MaxUploads \in Nat

sandboxed == <<pool, pools, job, said, uploads, reclaims>>

(* The limits are put in place before a worker is given anything to read.   *)
InitialiseWorker == [cpu |-> 0, peak |-> 0]

(* A pool, and what its last process to answer had spent.                   *)
Pool(state) == [state |-> state, spent |-> InitialiseWorker]

PoolIds == 1..(MaxUploads + 1)
IdleJob == [phase |-> "idle", file |-> None, pool |-> 0, worker |-> None]

SInit ==
    /\ pool = 0 /\ pools = [p \in PoolIds |-> Pool("unbuilt")]
    /\ job = [c \in Clients |-> IdleJob] /\ said = [c \in Clients |-> None]
    /\ uploads = 0 /\ reclaims = 0

(* Mutant: a worker is kept for the next document.                          *)
MutNextWorker(p) == pools[p].spent

(* One document to a process: what bounds the time of a process, and what   *)
(* it measures of its memory, is then about that document.                  *)
NextWorker(p) == InitialiseWorker

Above(a, b) == IF a > b THEN a ELSE b

(* What a process spends on a document, on top of what it already spent.    *)
Spend(worker, file) == [cpu |-> worker.cpu + file.cpu, peak |-> Above(worker.peak, file.peak)]

(* What the worker sends back: plain data, never an exception.              *)
ExtractInWorker(worker, file) ==
    LET spent == Spend(worker, file)
    IN  CASE spent.peak > AddressSpace -> TooLarge("expansion")
          [] spent.peak <= AddressSpace /\ spent.cpu > CpuSeconds -> TooLarge("processing")
          [] spent.peak <= AddressSpace /\ spent.cpu <= CpuSeconds
               /\ ExtractPdfText(file).kind # "text" -> ExtractPdfText(file)
          [] spent.peak <= AddressSpace /\ spent.cpu <= CpuSeconds
               /\ ExtractPdfText(file).kind = "text" /\ spent.peak > Expansion -> TooLarge("expansion")
          [] OTHER -> ExtractPdfText(file)

-----------------------------------------------------------------------------
Of(p, phase) == {c \in Clients : job[c].pool = p /\ job[c].phase = phase}

Answer(c, outcome) ==
    /\ said' = [said EXCEPT ![c] = [file |-> job[c].file, outcome |-> outcome]]
    /\ job' = [job EXCEPT ![c] = IdleJob]

Submits(c, file) ==
    /\ job[c].phase = "idle" /\ uploads < MaxUploads
    /\ uploads' = uploads + 1
    /\ job' = [job EXCEPT ![c] = [IdleJob EXCEPT !.phase = "get", !.file = file]]
    /\ UNCHANGED <<pool, pools, said, reclaims>>

(* The pool is built, and warmed up, by the first request, in a thread and  *)
(* under the lock.                                                          *)
ToBuild(p) == pools[p].state = "unbuilt" /\ \A q \in 1..(p - 1) : pools[q].state # "unbuilt"

GetPool(c) ==
    /\ job[c].phase = "get"
    /\ \E given \in PoolIds :
         /\ IF pool = 0 THEN ToBuild(given) ELSE given = pool
         /\ pool' = given
         /\ pools' = [pools EXCEPT ![given] = IF pool = 0 THEN Pool("serves") ELSE @]
         /\ job' = [job EXCEPT ![c].phase = "submit", ![c].pool = given]
    /\ UNCHANGED <<said, uploads, reclaims>>

(* The pool that was handed out may have been broken or shut down since.    *)
Submit(c) ==
    /\ job[c].phase = "submit"
    /\ CASE pools[job[c].pool].state = "shut" -> Answer(c, Lost)
         [] pools[job[c].pool].state = "broken" -> job' = [job EXCEPT ![c].phase = "broken"] /\ UNCHANGED said
         [] OTHER -> job' = [job EXCEPT ![c].phase = "queued"] /\ UNCHANGED said
    /\ UNCHANGED <<pool, pools, uploads, reclaims>>

(* A pool takes one call more than it has processes; a call it took can no  *)
(* longer be cancelled.                                                     *)
Feed(c) ==
    /\ job[c].phase = "queued"
    /\ Cardinality(Of(job[c].pool, "fed")) <= Workers
    /\ job' = [job EXCEPT ![c].phase = "fed", ![c].worker = NextWorker(job[c].pool)]
    /\ UNCHANGED <<pool, pools, said, uploads, reclaims>>

(* A worker that the signal of its time limit reaches answers; one inside a *)
(* long call does not get it and is killed.                                 *)
Extract(c) ==
    /\ job[c].phase = "fed" /\ ~job[c].file.stuck
    /\ Answer(c, ExtractInWorker(job[c].worker, job[c].file))
    /\ pools' = [pools EXCEPT ![job[c].pool].spent = Spend(job[c].worker, job[c].file)]
    /\ UNCHANGED <<pool, uploads, reclaims>>

(* The end of one process is the end of its pool: every call in it fails.   *)
Break(p) ==
    /\ pools' = [pools EXCEPT ![p] = Pool("broken")]
    /\ job' = [c \in Clients |-> IF c \in Of(p, "queued") \cup Of(p, "fed")
                                 THEN [job[c] EXCEPT !.phase = "broken"] ELSE job[c]]

Killed(c) ==
    /\ job[c].phase = "fed" /\ job[c].file.stuck
    /\ Break(job[c].pool)
    /\ UNCHANGED <<pool, said, uploads, reclaims>>

(* The kernel may take the memory of any worker back.                       *)
Reclaimed(c) ==
    /\ job[c].phase = "fed" /\ reclaims < MaxReclaims
    /\ reclaims' = reclaims + 1
    /\ Break(job[c].pool)
    /\ UNCHANGED <<pool, said, uploads>>

(* The pool that is handed out is thrown away, with the calls that wait in  *)
(* it; those it took go on.                                                 *)
DiscardPool(jobs) ==
    /\ pool' = 0
    /\ pools' = IF pool = 0 \/ pools[pool].state = "broken" THEN pools
                 ELSE [pools EXCEPT ![pool] = Pool("shut")]
    /\ job' = [c \in Clients |-> IF pool # 0 /\ jobs[c].phase = "queued" /\ jobs[c].pool = pool
                                 THEN [jobs[c] EXCEPT !.phase = "cancelled"] ELSE jobs[c]]

(* A call that failed with its pool: the document is said to take too long, *)
(* and the pool of the moment is thrown away.                               *)
CatchBroken(c) ==
    /\ job[c].phase = "broken"
    /\ said' = [said EXCEPT ![c] = [file |-> job[c].file, outcome |-> TooLarge("processing")]]
    /\ DiscardPool([job EXCEPT ![c] = IdleJob])
    /\ UNCHANGED <<uploads, reclaims>>

Cancelled(c) ==
    /\ job[c].phase = "cancelled"
    /\ Answer(c, Lost)
    /\ UNCHANGED <<pool, pools, uploads, reclaims>>

(* The instance stops once its requests are over.                           *)
Shutdown ==
    /\ pool # 0 /\ uploads = MaxUploads /\ \A c \in Clients : job[c].phase = "idle"
    /\ DiscardPool(job)
    /\ UNCHANGED <<said, uploads, reclaims>>

Read(c) ==
    \/ GetPool(c) \/ Submit(c) \/ Feed(c) \/ Extract(c) \/ Killed(c) \/ CatchBroken(c) \/ Cancelled(c)

Closed == uploads = MaxUploads /\ pool = 0 /\ (\A c \in Clients : job[c].phase = "idle") /\ UNCHANGED sandboxed

SNext ==
    \/ \E c \in Clients : Read(c) \/ Reclaimed(c) \/ \E file \in Files : Submits(c, file)
    \/ Shutdown \/ Closed

(* Every request goes forward and the uploads are bounded: that each one is *)
(* answered is that no state before the end is without a successor.         *)
SSpec == SInit /\ [][SNext]_sandboxed

-----------------------------------------------------------------------------
(* What a document deserves: what a process of its own would say of it.     *)
Deserves(file) == IF file.stuck THEN TooLarge("processing") ELSE ExtractInWorker(InitialiseWorker, file)

(* A document is judged by what it spends itself, in whatever order and     *)
(* company documents are read: the answer is the one it would get alone, or *)
(* some process died, and then it is no text that was never read.           *)
DocumentsAreJudgedAlone ==
    \A c \in Clients :
        said[c] # None =>
            \/ said[c].outcome = Deserves(said[c].file)
            \/ /\ \E p \in PoolIds : pools[p].state = "broken"
               /\ said[c].outcome \in {TooLarge("processing"), Lost}

(* A pool is thrown away because it is unusable, as the comment on the      *)
(* except branch says.  In no configuration: it fails, since the branch     *)
(* throws away the pool of the moment, which another request of the broken  *)
(* pool may have replaced, and with it the documents that wait in it.       *)
OnlyBrokenPoolsAreThrownAway ==
    [][\A p \in PoolIds : (pools[p].state = "serves" /\ pools'[p].state = "shut") =>
          \A c \in Clients : job[c].phase = "idle"]_sandboxed
==============================================================================
