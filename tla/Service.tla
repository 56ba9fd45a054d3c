------------------------------- MODULE Service -------------------------------
(***************************************************************************)
(* What guards the service, side by side: the budgets of calls, of         *)
(* ProductCatalogue and Throttling; who may act in a household, of         *)
(* Memberships; what may leave it, of Providers and ListExports; the keys  *)
(* it entrusts, of Sealing; the document it may ask for, of                *)
(* HouseholdExport; what is swept, of Upkeep; and what is asked of a       *)
(* household's model, of Inference.  They share nothing but the requests   *)
(* in flight, so a behaviour moves one of them and leaves the others as    *)
(* they are.                                                               *)
(***************************************************************************)
EXTENDS ProductCatalogue, TLC

CONSTANTS
    Buckets, Limit, One, Rate, Cutoff, MaxWait, PerKey, Total, Pools,
    MaxTicks, MaxThrottled,          \* bounds: ticks and requests before a limiter
    Configs, Endpoints, Models, Sees, ProviderKeys, OwnsInstance, ExistingConfigs,
    ProviderRequests,
    WithProviders,                   \* bound: requests about providers, and names pointed elsewhere
    Persons, Operator, Lines, BatchSize,
    WithExports,                     \* bound: requests about exports, and changes around them
    Accounts, Households, Founder, Guests, Invitations, Tokens, MaxPending, MaxTokens, Gone,
    MembershipRequests,
    WithMemberships,                 \* bound: requests about memberships
    SealedRows, Secrets, Short, Masters, ExistingKeys, RowIds,
    WithSealing,                     \* bound: requests about keys, and events around them
    Tables, References, Matched, Catalogue, House, Neighbours, Requester, Databases,
    WithDocument,                    \* bound: changes while a household is exported
    Sessions, Suggestions, Holders, HolderOf, Absolute, Sliding, Lives, Retention, Frozen,
    WithDays,                        \* bound: days of upkeep
    Addresses, ModelConfigs, OperatorKey, Texts, Reports, Larder, Keep, MaxRead, MaxSuggestions,
    WithAsking, WithRepointing       \* bounds: calls of a model, and answers of the name service that differ

VARIABLES pool, clock, bucket, ttx, inFlight, running, spent, treply, tissued

throttling == <<pool, clock, bucket, ttx, inFlight, running, spent, treply, tissued>>

T == INSTANCE Throttling WITH
        Keys <- Buckets, MaxNow <- MaxTicks, MaxRequests <- MaxThrottled,
        now <- clock, tx <- ttx, reply <- treply, issued <- tissued

VARIABLES configs, local, barred, ptx, preply, pissued

providers == <<configs, local, barred, ptx, preply, pissued>>

P == INSTANCE Providers WITH
        Keys <- ProviderKeys, Existing <- ExistingConfigs, Requests <- ProviderRequests,
        MaxRequests <- WithProviders, tx <- ptx, reply <- preply, issued <- pissued

VARIABLES target, members, accounts, pending, archived, outside, known, xtx, xreply, xissued

exports == <<target, members, accounts, pending, archived, outside, known, xtx, xreply, xissued>>

X == INSTANCE ListExports WITH MaxRequests <- WithExports, tx <- xtx, reply <- xreply, issued <- xissued

VARIABLES people, households, roles, invitations, keys, mtx, mreply, missued

belonging == <<people, households, roles, invitations, keys, mtx, mreply, missued>>

M == INSTANCE Memberships WITH
        Requests <- MembershipRequests, MaxRequests <- WithMemberships,
        accounts <- people, members <- roles, tokens <- keys,
        tx <- mtx, reply <- mreply, issued <- missued

VARIABLES rows, master, dump, entered, due, stx, answer, sissued, events

sealing == <<rows, master, dump, entered, due, stx, answer, sissued, events>>

S == INSTANCE Sealing WITH
        Rows <- SealedRows, Existing <- ExistingKeys, Ids <- RowIds,
        MaxRequests <- WithSealing, MaxEvents <- WithSealing, tx <- stx, issued <- sissued

VARIABLES held, residents, standing, at, document, steady, stayed, late, changes

exporting == <<held, residents, standing, at, document, steady, stayed, late, changes>>

D == INSTANCE HouseholdExport WITH
        Households <- Households \cup Neighbours, Ids <- RowIds, MaxChanges <- WithDocument,
        row <- held, members <- residents

VARIABLES today, sessions, tokens, suggestions, disabled, enrolled, shut, begun, endedSince, deadSince

upkeep == <<today, sessions, tokens, suggestions, disabled, enrolled, shut, begun, endedSince, deadSince>>

U == INSTANCE Upkeep WITH LastDay <- WithDays

VARIABLES dns, call, delivered, result, placed, repointed

attempts == <<dns, call, delivered, result, placed, repointed>>

I == INSTANCE Inference WITH
        Configs <- ModelConfigs, Stock <- Larder, Suggestions <- MaxSuggestions,
        MaxCalls <- WithAsking, MaxChanges <- WithRepointing,
        changed <- repointed

VARIABLE part

ASSUME ThrottlesAssumption == T!ThrottlingAssumption

ASSUME ConsentsAssumption == P!ProvidersAssumption

ASSUME BelongingAssumption == M!MembershipsAssumption

ASSUME ExportsAssumption == X!ListExportsAssumption

ASSUME KeysAssumption == S!SealingAssumption

ASSUME DocumentAssumption == D!HouseholdExportAssumption

ASSUME RetentionAssumption == U!UpkeepAssumption

ASSUME AskingAssumption == I!InferenceAssumption

-----------------------------------------------------------------------------
(* The part that moves.                                                     *)
Parts == {"catalogue", "limits", "providers", "exports", "memberships", "sealing", "document", "upkeep", "inference"}

ServiceInit ==
    /\ part \in Parts
    /\ Init /\ T!Init /\ P!Init /\ X!Init /\ M!Init /\ S!Init /\ D!Init /\ U!Init /\ I!Init

(* The others, while one of them is explored.                               *)
Others(p) ==
    /\ p # "catalogue" => UNCHANGED vars
    /\ p # "limits" => UNCHANGED throttling
    /\ p # "providers" => UNCHANGED providers
    /\ p # "exports" => UNCHANGED exports
    /\ p # "memberships" => UNCHANGED belonging
    /\ p # "sealing" => UNCHANGED sealing
    /\ p # "document" => UNCHANGED exporting
    /\ p # "upkeep" => UNCHANGED upkeep
    /\ p # "inference" => UNCHANGED attempts

ServiceNext ==
    /\ UNCHANGED part
    /\ \/ part = "catalogue" /\ Next /\ Others("catalogue")
       \/ part = "limits" /\ T!Next /\ Others("limits")
       \/ part = "providers" /\ P!Next /\ Others("providers")
       \/ part = "exports" /\ X!Next /\ Others("exports")
       \/ part = "memberships" /\ M!Next /\ Others("memberships")
       \/ part = "sealing" /\ S!Next /\ Others("sealing")
       \/ part = "document" /\ D!Next /\ Others("document")
       \/ part = "upkeep" /\ U!Next /\ Others("upkeep")
       \/ part = "inference" /\ I!Next /\ Others("inference")

everything ==
    <<part, vars, throttling, providers, exports, belonging, sealing, exporting, upkeep, attempts>>

ServiceSpec == ServiceInit /\ [][ServiceNext]_everything

-----------------------------------------------------------------------------
(* As in Throttling and ProductCatalogue: no more is granted than the       *)
(* bucket and its rate, or the window of the catalogue, allow.              *)
CallsStayInBudget == CallsWithinBudget /\ (part = "limits" => T!BudgetHolds)

(* As in Throttling: no slot leaks, no cap is passed, and no request waits  *)
(* for another that waits.                                                  *)
NothingIsWithheld == part = "limits" => T!SlotsAreHeld /\ T!NoWaitOnWaiters

(* As in Providers and ListExports: nothing is used that was unpermitted    *)
(* all along, and nothing is posted by a request that began when the        *)
(* agreement to an export no longer stood.                                  *)
WithdrawalReachesTheNextUse ==
    /\ part = "providers" => P!WithdrawalReachesTheNextRequest
    /\ part = "exports" => X!WithdrawalReachesTheNextSend

(* As in Providers: a record of consent survives the edits around it.       *)
RecordsAreKept == P!RecordsAreKept

(* As in ListExports: a receipt is given only for lines that are over there.*)
SentMeansAccepted == part = "exports" => X!SentMeansAccepted

(* As in ListExports: a person who has left is no longer sent to.           *)
DepartedTokenIsUnused == part = "exports" => X!DepartedTokenIsUnused

(* As in Memberships: an erasure leaves nothing behind.                     *)
ErasureIsComplete == part = "memberships" => M!ErasureIsComplete

(* As in Memberships: a household that stands has an owner, and every other *)
(* member holds a spent invitation of its own.                              *)
MembershipsAreSound == part = "memberships" => M!MembershipsAreSound

(* As in Memberships: what was withdrawn before it is presented is refused. *)
WithdrawnIsFinal == M!WithdrawnIsFinal

(* As in Memberships: no erasure of an account is refused by a constraint.  *)
ErasureIsNotRefused == part = "memberships" => M!ErasureIsNotRefused

(* As in Sealing: what is sent was entered for the row it is sent for.      *)
KeysOpenOnlyAtHome == part = "sealing" => S!KeysOpenOnlyAtHome

(* As in HouseholdExport: the document holds what the household kept.       *)
DocumentIsWhole == part = "document" => D!DocumentIsWhole

(* As in Upkeep: a sweep takes what has long been dead, and only that.      *)
SweepsTakeOnlyTheDead == U!SweepsTakeOnlyTheDead

(* As in Inference: what a household's model is sent goes to one permitted  *)
(* peer per attempt, and the bill that is shown covers every attempt.       *)
AttemptsAreAccountedFor == part = "inference" => I!OnePeerPerAttempt /\ I!BillIsWhole
=============================================================================
