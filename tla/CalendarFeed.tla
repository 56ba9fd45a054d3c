----------------------------- MODULE CalendarFeed -----------------------------
(***************************************************************************)
(* The calendar feed: the dated lots of a household, published as tasks to *)
(* a phone that polls (api/routers/calendar.py, services/calendar.py,      *)
(* infra/calendar).  A credential is derived from the household and from a *)
(* counter, and is looked for by a scan; a tag computed from what is       *)
(* published tells the phone whether anything changed.                     *)
(*                                                                         *)
(* The clock counts half days: an even instant is midnight UTC, an odd one *)
(* noon, which stands for the morning of the alarm in a zone of offset 0.  *)
(* One request is one READ COMMITTED transaction.  The phone is the        *)
(* simplest client of sync-collection: it asks for the data with the list, *)
(* keeps the token, and starts again when the token is refused.            *)
(***************************************************************************)
EXTENDS Integers, FiniteSets, Sequences

CONSTANTS
    Lots,          \* identifiers of lots: integers, in the order of the database
    Owners,        \* owners of the household, who may revoke
    Dues,          \* effective expiry dates a lot may have, or None
    Zones,         \* offsets a household may live at, in half days
    None,
    Past, Future,  \* PAST_WINDOW_DAYS, FUTURE_WINDOW_DAYS
    MaxTasks,      \* MAX_TASKS
    MaxPolls,      \* _FEED_REQUESTS_PER_HOUR
    MaxFailures,   \* _FAILED_AUTH_PER_HOUR
    LastInstant,   \* bound: last instant of the behaviour
    MaxEvents      \* bound: changes of the stock and revocations

VARIABLES
    clock, zone,
    stock,         \* Lots -> [due, words, modified], or None when depleted
    epoch,         \* household.calendar_feed_epoch, as committed
    revoking,      \* Owners -> [pc, handed]: the revocation in flight, the credential handed back
    polls,         \* feed_id -> tokens taken in this window
    failures,      \* tokens taken by the address of the phone
    phone,         \* [credential, token, tasks, answer]
    tx,            \* the request of the phone
    changes, revocations

vars == <<clock, zone, stock, epoch, revoking, polls, failures, phone, tx, changes, revocations>>

Today == clock \div 2

(***************************************************************************)
(* What is published                                                       *)
(***************************************************************************)
(* The morning before, where the household lives; not when it has passed.   *)
AlarmInstant(due) == LET morning == 2 * (due - 1) + 1 - zone
                     IN  IF morning <= clock THEN None ELSE morning

(* Active, dated, inside the window.                                        *)
Expiring == {l \in Lots : stock[l] # None /\ stock[l].due # None
                          /\ stock[l].due \in Today - Past .. Today + Future}

Before(k, l) == \/ stock[k].due < stock[l].due
                \/ stock[k].due = stock[l].due /\ k < l

(* The soonest first, and no more than the limit.                           *)
Published == {l \in Expiring : Cardinality({k \in Expiring : Before(k, l)}) < MaxTasks}

(* A hash of the text stands for the text: the entity tag is the task.      *)
Task(l) == [due |-> stock[l].due, words |-> stock[l].words, modified |-> stock[l].modified,
            alarm_at |-> AlarmInstant(stock[l].due)]

Tasks == [l \in Published |-> Task(l)]

(* Mutant: the tag is the time of the newest change.                        *)
MutCollectionTagNewest(tasks) ==
    [newest |-> IF DOMAIN tasks = {} THEN 0
                ELSE CHOOSE m \in {tasks[l].modified : l \in DOMAIN tasks} :
                       \A l \in DOMAIN tasks : tasks[l].modified <= m]

(* A hash over the names and the entity tags of the tasks.                  *)
CollectionTag(tasks) == tasks

(***************************************************************************)
(* Credentials                                                             *)
(***************************************************************************)
(* Mutant: the counter of the household is left out of the derivation.      *)
MutCredentialsForNoEpoch(e) == 1

(* Keyed hashes of the household and its counter: one for each counter.     *)
CredentialsFor(e) == e

Resolve(credential) == credential = CredentialsFor(epoch)

(***************************************************************************)
(* The phone                                                               *)
(***************************************************************************)
Idle == [pc |-> "idle", credential |-> None, token |-> None, began |-> None]
FullSync == [tag |-> None]

(* What was published is kept beside the answer that promised it.           *)
Answer(status, tasks) ==
    [status |-> status, tasks |-> tasks, credential |-> tx.credential, began |-> tx.began]

Same == UNCHANGED <<clock, zone, stock, epoch, revoking, changes, revocations>>

(* The failure token is taken before the work it bounds.                    *)
Poll ==
    /\ tx.pc = "idle"
    /\ IF failures < MaxFailures
       THEN /\ failures' = failures + 1
            /\ tx' = [pc |-> "scan", credential |-> phone.credential, token |-> phone.token, began |-> epoch]
            /\ phone' = [phone EXCEPT !.answer = None]
       ELSE UNCHANGED <<failures, tx, phone>>
    /\ UNCHANGED polls /\ Same

(* Refused, the token stays spent: by the scan, or by the limit of polls.   *)
Authenticate ==
    /\ tx.pc = "scan"
    /\ IF ~Resolve(tx.credential)
       THEN /\ phone' = [phone EXCEPT !.answer = Answer("unauthorized", None)]
            /\ tx' = Idle
            /\ UNCHANGED <<polls, failures>>
       ELSE IF polls[tx.credential] >= MaxPolls
       THEN tx' = Idle /\ UNCHANGED <<polls, failures, phone>>
       ELSE /\ polls' = [polls EXCEPT ![tx.credential] = @ + 1]
            /\ failures' = IF failures > 0 THEN failures - 1 ELSE 0
            /\ tx' = [tx EXCEPT !.pc = "report"]
            /\ UNCHANGED phone
    /\ Same

(* Mutant: a refusal that does not say the token is to blame, so that the   *)
(* phone presents it again.                                                 *)
MutSyncCollectionVague ==
    LET tag == CollectionTag(Tasks)
    IN  /\ tx.pc = "report"
        /\ phone' =
             IF tx.token = FullSync
             THEN [phone EXCEPT !.token = [tag |-> tag], !.tasks = Tasks, !.answer = Answer("listed", None)]
             ELSE [phone EXCEPT !.answer = Answer("invalid", None)]
        /\ tx' = Idle
        /\ UNCHANGED <<polls, failures>> /\ Same

(* sync-collection: everything without a token, nothing under the current   *)
(* one, and a request to start again under any other.                       *)
SyncCollection ==
    LET tag == CollectionTag(Tasks)
    IN  /\ tx.pc = "report"
        /\ phone' =
             IF tx.token = FullSync
             THEN [phone EXCEPT !.token = [tag |-> tag], !.tasks = Tasks,
                                !.answer = Answer("listed", None)]
             ELSE IF tx.token = [tag |-> tag]
             THEN [phone EXCEPT !.answer = Answer("unchanged", Tasks)]
             ELSE [phone EXCEPT !.token = FullSync, !.answer = Answer("invalid", None)]
        /\ tx' = Idle
        /\ UNCHANGED <<polls, failures>> /\ Same

(* Somebody types the credential of the feed into the phone.                *)
Subscribe ==
    /\ tx.pc = "idle" /\ phone.credential # CredentialsFor(epoch)
    /\ phone' = [phone EXCEPT !.credential = CredentialsFor(epoch)]
    /\ UNCHANGED <<polls, failures, tx>> /\ Same

(* A window of the limits goes by.                                          *)
Refill == /\ \/ failures > 0 \/ \E c \in DOMAIN polls : polls[c] > 0
          /\ tx.pc = "idle"
          /\ failures' = 0 /\ polls' = [c \in DOMAIN polls |-> 0]
          /\ UNCHANGED <<phone, tx>> /\ Same

(***************************************************************************)
(* The household                                                           *)
(***************************************************************************)
Held == \E o \in Owners : revoking[o].pc = "commit"

Rest == UNCHANGED <<clock, zone, stock, polls, failures, phone, tx, changes>>

(* UPDATE ... SET epoch = epoch + 1: the row is held until the commit, and  *)
(* the second of two finds what the first one wrote.                        *)
Revoke(o) ==
    /\ revoking[o].pc = "idle" /\ ~Held /\ changes + revocations < MaxEvents
    /\ revoking' = [revoking EXCEPT ![o] = [pc |-> "commit", handed |-> CredentialsFor(epoch + 1)]]
    /\ revocations' = revocations + 1
    /\ UNCHANGED epoch /\ Rest

CommitRevocation(o) ==
    /\ revoking[o].pc = "commit"
    /\ epoch' = epoch + 1
    /\ revoking' = [revoking EXCEPT ![o].pc = "idle"]
    /\ UNCHANGED revocations /\ Rest

Change(l) ==
    /\ changes + revocations < MaxEvents
    /\ \E lot \in {None} \cup [due : Dues, words : {"new"}, modified : {clock}] :
         stock[l] # lot /\ stock' = [stock EXCEPT ![l] = lot]
    /\ changes' = changes + 1
    /\ UNCHANGED <<clock, zone, epoch, revoking, polls, failures, phone, tx, revocations>>

Tick == /\ clock < LastInstant /\ clock' = clock + 1
        /\ UNCHANGED <<zone, stock, epoch, revoking, polls, failures, phone, tx, changes, revocations>>

Init ==
    /\ clock = 0 /\ zone \in Zones
    /\ stock \in [Lots -> {None} \cup [due : Dues, words : {"old"}, modified : {0}]]
    /\ epoch = 1
    /\ revoking = [o \in Owners |-> [pc |-> "idle", handed |-> None]]
    /\ polls = [c \in 1 .. MaxEvents + 1 |-> 0] /\ failures = 0
    /\ phone = [credential |-> CredentialsFor(1), token |-> FullSync, tasks |-> <<>>, answer |-> None]
    /\ tx = Idle
    /\ changes = 0 /\ revocations = 0

Next ==
    \/ Poll \/ Authenticate \/ SyncCollection \/ Subscribe \/ Refill
    \/ \E o \in Owners : Revoke(o) \/ CommitRevocation(o)
    \/ \E l \in Lots : Change(l)
    \/ Tick

Spec == Init /\ [][Next]_vars

(* A phone polls on its own, a request that was admitted is answered, an    *)
(* hour goes by, and a phone that is refused is given the new credential.   *)
Fairness ==
    /\ WF_vars(Poll /\ tx' # tx) /\ WF_vars(Authenticate) /\ WF_vars(SyncCollection)
    /\ WF_vars(Refill) /\ SF_vars(Subscribe) /\ \A o \in Owners : WF_vars(CommitRevocation(o))

(***************************************************************************)
(* Properties                                                              *)
(***************************************************************************)
(* A phone that is told nothing has changed holds what it would be sent:    *)
(* no task appeared, changed, aged out of the window, was pushed out by the *)
(* limit or lost its alarm since the token was given.                       *)
SyncTellsTheTruth ==
    phone.answer # None /\ phone.answer.status = "unchanged" => phone.answer.tasks = phone.tasks

(* A request that begins after a revocation is committed reads nothing with *)
(* the credential that was revoked; and of two revocations the one that     *)
(* ends last hands back the credential that lives.                          *)
RevokedReadsNothing ==
    /\ phone.answer # None /\ phone.answer.status # "unauthorized" =>
         phone.answer.credential >= phone.answer.began
    /\ revocations > 0 /\ ~Held => \E o \in Owners : Resolve(revoking[o].handed)

(* When the household stops changing, the phone ends up showing what is     *)
(* published, through the limits, the revocations and the refused tokens.   *)
PhoneCatchesUp == <>[](phone.tasks = Tasks)
=============================================================================
