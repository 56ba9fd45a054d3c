-------------------------------- MODULE Parts --------------------------------
(***************************************************************************)
(* Three parts of the system under names of their own, for any values of   *)
(* their constants: the list a household shops from, of ShoppingLists; the *)
(* connection its requests reach the database by, of Tenancy; and the      *)
(* processes that read its documents, of Sandbox.  They share no state,    *)
(* and what is asked of each is what it promises by itself.                *)
(***************************************************************************)
EXTENDS Integers

CONSTANTS
    Nil,              \* what is not there: a quantity, a credential, an answer
    Unset,            \* what a request leaves alone
    Removed,          \* an item that was removed
    Nobodys,          \* an identifier that names nothing in this household
    (* the list *)
    Phones, ListIds, Goods, Units, Dimension, Values, ListRequests,
    MaxListRequests,  \* bound: requests about lists
    (* the connection *)
    Callers, Conns, Households, Newborn, Public, Asks,
    MaxAsks,          \* bound: requests to the database
    MaxSteps,         \* bound: statements of one of them
    MaxDeploys,       \* bound: deployments
    (* the processes *)
    Members, Pdfs, Workers, CpuSeconds, Expansion, AddressSpace, Lost,
    MaxUploads,       \* bound: documents sent
    MaxReclaims,      \* bound: workers the kernel takes back
    MaxBytes, MaxPages, MaxChars, MaxEdge

VARIABLES
    lists, items, declined, ltx, lreply, lissued,
    instance, reachable, revision, rows, guc, rtx, rissued, deploys,
    pool, pools, job, said, uploads, reclaims

L == INSTANCE ShoppingLists WITH
        Clients <- Phones, Products <- Goods, Requests <- ListRequests,
        MaxRequests <- MaxListRequests, None <- Nil, Gone <- Removed, Unknown <- Nobodys,
        tx <- ltx, reply <- lreply, issued <- lissued

H == INSTANCE Tenancy WITH
        Clients <- Callers, Requests <- Asks, MaxRequests <- MaxAsks, None <- Nil,
        tx <- rtx, issued <- rissued

D == INSTANCE Sandbox WITH Clients <- Members, Files <- Pdfs, None <- Nil

ASSUME ListsAssumption == L!ShoppingAssumption
ASSUME HouseholdsAssumption == H!TenancyAssumption
ASSUME WorkersAssumption == D!SandboxAssumption

-----------------------------------------------------------------------------
(* A tick does not undo the correction of the quantity that another phone   *)
(* made meanwhile, nor a correction the tick.                               *)
EditsDoNotUndoEachOther == L!EditsDoNotUndoEachOther

(* What one phone removed does not come back because another ticked it.     *)
RemovedIsFinal == L!RemovedIsFinal

(* A request reaches the household its credential proves, all of it, and no *)
(* other, whichever request its connection served before.                   *)
RequestsReachTheirHousehold == H!RequestsReachTheirHousehold

(* A document is judged by what it spends itself, in whatever order and     *)
(* company documents are read.                                              *)
DocumentsAreJudgedAlone == D!DocumentsAreJudgedAlone
=============================================================================
