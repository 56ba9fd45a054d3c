----------------------------- MODULE ListExports -----------------------------
(***************************************************************************)
(* The shopping list of one household, sent to a task application under an *)
(* agreement that can be withdrawn (services/export_targets.py,            *)
(* services/shopping_export.py, infra/todo).  Registering hands over the   *)
(* token of the person who does it; a send reads the destination, then the *)
(* list, and posts its lines in batches to an application that may refuse  *)
(* some, or whose answer may be lost.  One request is one READ COMMITTED   *)
(* transaction.                                                            *)
(***************************************************************************)
EXTENDS Integers, FiniteSets, Sequences

CONSTANTS
    Clients,      \* requests that can be in flight together
    Persons,      \* who may own the household and hold an account over there
    Operator,     \* the account of the instance itself
    OwnsInstance, \* this household may send to it
    Lines,        \* numbers, in the order of the list
    BatchSize,    \* MAX_COMMANDS_PER_REQUEST
    None,
    MaxRequests   \* bound: requests issued, and changes of the list and the members

Receivers == Persons \cup {Operator}
ShoppingExportTarget == [token : Persons, by : Persons \cup {None}, revoked : BOOLEAN]

ListExportsAssumption ==
    /\ Lines \subseteq Nat /\ IsFiniteSet(Lines) /\ BatchSize \in Nat \ {0} /\ OwnsInstance \in BOOLEAN
    /\ MaxRequests \in Nat /\ Operator \notin Persons /\ None \notin Clients \cup Receivers
    /\ None \notin {"consent_missing", "registrant_has_left"} \cup ShoppingExportTarget

VARIABLES
    target,    \* the registered destination, or None, committed
    members,   \* the persons who belong to the household
    accounts,  \* the persons who still have an account here
    pending,   \* the lines of the list that are not ticked
    archived,  \* the list itself is put away
    outside,   \* how often each line was created in each account over there
    known,     \* what each request has known since it began, a history variable
    tx, reply, issued

home == <<target, members, accounts, pending, archived>>
vars == <<home, outside, known, tx, reply, issued>>

IdleTx == [step |-> "idle", op |-> None, who |-> None, row |-> None, set |-> <<>>, own |-> FALSE,
           account |-> None, lines |-> {}, left |-> <<>>, accepted |-> 0, rejected |-> 0]

NoReply == [outcome |-> None, account |-> None, lines |-> {}, accepted |-> 0]

Init ==
    /\ target = None
    /\ members = Persons /\ accounts = Persons
    /\ pending \in SUBSET Lines
    /\ archived = FALSE
    /\ outside = [a \in Receivers |-> [l \in Lines |-> 0]]
    /\ known = [c \in Clients |-> [withdrawn |-> FALSE, gone |-> {}]]
    /\ tx = [c \in Clients |-> IdleTx]
    /\ reply = [c \in Clients |-> NoReply]
    /\ issued = 0

Go(c, t) == tx' = [tx EXCEPT ![c] = t] /\ UNCHANGED <<home, outside, known, reply, issued>>
Answer(c, outcome) ==
    /\ tx' = [tx EXCEPT ![c] = IdleTx]
    /\ reply' = [reply EXCEPT ![c] = [outcome |-> outcome, account |-> tx[c].account,
                                      lines |-> tx[c].lines, accepted |-> tx[c].accepted]]
Rollback(c, outcome) == Answer(c, outcome) /\ UNCHANGED <<home, outside, known, issued>>

(* NULL is a registrant nobody recorded: there is no one to have left.      *)
RegistrantHasLeft(row) == row.by # None /\ row.by \notin members

(* Mutant: an agreement is its dates, whoever gave it.                      *)
MutRefusalIgnoresTheRegistrant(row) == IF row.revoked THEN "consent_missing" ELSE None

Refusal(row) ==
    IF row.revoked THEN "consent_missing"
    ELSE IF RegistrantHasLeft(row) THEN "registrant_has_left" ELSE None

Withdrawn == target # None /\ (target.revoked \/ target.by \notin members \cup {None})

(* A request keeps what was so when it began and has been so since.         *)
StillKnown ==
    known' = [c \in Clients |->
        [withdrawn |-> known[c].withdrawn /\ Withdrawn', gone |-> known[c].gone \ members']]

Begin(c, op, who) ==
    /\ tx[c].step = "idle" /\ issued < MaxRequests
    /\ who \in members
    /\ tx' = [tx EXCEPT ![c] = [IdleTx EXCEPT !.op = op, !.who = who, !.step = "read"]]
    /\ known' = [known EXCEPT ![c] = [withdrawn |-> Withdrawn, gone |-> Persons \ members]]
    /\ reply' = [reply EXCEPT ![c] = NoReply]
    /\ issued' = issued + 1
    /\ UNCHANGED <<home, outside>>

-----------------------------------------------------------------------------
(* Registering and withdrawing.                                             *)
Changes(row, set) == [f \in {f \in DOMAIN set : set[f] # row[f]} |-> set[f]]

Over(set, row) == [f \in DOMAIN set \cup DOMAIN row |-> IF f \in DOMAIN set THEN set[f] ELSE row[f]]

Granted(who) == [token |-> who, by |-> who, revoked |-> FALSE]

(* The row is read, and only the columns that differ are to be written.     *)
Register(c) ==
    LET t == tx[c]
    IN  /\ t.step = "read" /\ t.op = "register"
        /\ IF target = None THEN Go(c, [t EXCEPT !.set = Granted(t.who), !.step = "write"])
           ELSE LET set == Changes(target, Granted(t.who))
                IN  Go(c, [t EXCEPT !.row = target, !.set = Over(set, [token |-> t.who]), !.step = "write"])

Revoke(c) ==
    LET t == tx[c]
    IN  /\ t.step = "read" /\ t.op = "revoke"
        /\ IF target = None THEN Rollback(c, "not_registered")
           ELSE IF target.revoked THEN Go(c, [t EXCEPT !.step = "ready"])
           ELSE Go(c, [t EXCEPT !.row = target, !.set = [revoked |-> TRUE], !.step = "write"])

(* Two first registrations meet at the unique constraint, and a registrant  *)
(* whose account is gone at the foreign key.                                *)
Write(c) ==
    LET t == tx[c]
    IN  /\ t.step = "write"
        /\ \A d \in Clients \ {c} : ~tx[d].own
        /\ IF t.row = None /\ target # None THEN Rollback(c, "conflict")
           ELSE IF "by" \in DOMAIN t.set /\ t.who \notin accounts THEN Rollback(c, "conflict")
           ELSE Go(c, [t EXCEPT !.own = TRUE, !.step = "ready"])

Commit(c) ==
    LET t == tx[c]
    IN  /\ t.step = "ready"
        /\ target' = IF ~t.own THEN target ELSE IF t.row = None THEN t.set ELSE Over(t.set, target)
        /\ UNCHANGED <<members, accounts, pending, archived, outside, issued>>
        /\ Answer(c, "ok")
        /\ StillKnown

-----------------------------------------------------------------------------
(* Sending.  The destination of the household, or else of the instance.     *)
ExporterFor(c) ==
    LET t == tx[c]
    IN  /\ t.step = "read" /\ t.op = "send"
        /\ IF target = None
           THEN IF OwnsInstance THEN Go(c, [t EXCEPT !.account = Operator, !.step = "build"])
                ELSE Rollback(c, "not_configured")
           ELSE IF Refusal(target) # None THEN Rollback(c, Refusal(target))
           ELSE Go(c, [t EXCEPT !.account = target.token, !.step = "build"])

(* The lines in the order of the list.                                      *)
InOrder(lines) ==
    CHOOSE s \in [1 .. Cardinality(lines) -> lines] : \A i, j \in DOMAIN s : i < j => s[i] < s[j]

(* The lines as they now are, each under an identifier made for this send.  *)
BuildExport(c) ==
    LET t == tx[c]
    IN  /\ t.step = "build"
        /\ IF archived THEN Rollback(c, "list_not_found")
           ELSE Go(c, [t EXCEPT !.lines = pending, !.left = InOrder(pending), !.step = "post"])

Created(account, made) ==
    [outside EXCEPT ![account] = [l \in Lines |-> @[l] + IF l \in made THEN 1 ELSE 0]]

(* Mutant: only the commands reported as errors are counted.                *)
MutRefusedReported(batch, ok, errors) == Cardinality(errors)

(* A command the answer does not mention is one that was not accepted.      *)
RefusedOf(batch, ok, errors) == Cardinality(batch) - Cardinality(ok)

(* One batch.  The application makes some of the lines, and its answer      *)
(* speaks for some of those and of the others, or is an error, or is lost.  *)
PostBatch(c) ==
    LET t == tx[c]
        size == IF Len(t.left) < BatchSize THEN Len(t.left) ELSE BatchSize
        batch == {t.left[i] : i \in 1 .. size}
    IN  /\ t.step = "post" /\ t.left # <<>>
        /\ \E made \in SUBSET batch :
              /\ outside' = Created(t.account, made)
              /\ UNCHANGED <<home, known, issued>>
              /\ \/ Answer(c, "unavailable")
                 \/ \E ok \in SUBSET made, errors \in SUBSET (batch \ made) :
                       /\ tx' = [tx EXCEPT ![c] = [t EXCEPT
                              !.left = SubSeq(@, size + 1, Len(@)),
                              !.accepted = @ + Cardinality(ok),
                              !.rejected = @ + RefusedOf(batch, ok, errors)]]
                       /\ UNCHANGED reply

Receipt(c) ==
    /\ tx[c].step = "post" /\ tx[c].left = <<>>
    /\ Rollback(c, IF tx[c].rejected > 0 THEN "partially_applied" ELSE "sent")

Interrupt(c) == tx[c].step # "idle" /\ Rollback(c, "interrupted")

-----------------------------------------------------------------------------
(* What other parts of the application do meanwhile.                        *)
Elsewhere == issued < MaxRequests /\ issued' = issued + 1 /\ UNCHANGED <<outside, tx, reply>>

(* A line is ticked, or again wanted.                                       *)
Tick(l) == Elsewhere /\ pending' \in {pending \ {l}, pending \cup {l}}
           /\ UNCHANGED <<target, members, accounts, archived, known>>

(* No route puts a list away: the operator does.                            *)
Archive == Elsewhere /\ archived' = TRUE
           /\ UNCHANGED <<target, members, accounts, pending, known>>

(* A member leaves, or comes back by an invitation.                         *)
Leave(p) == Elsewhere /\ p \in members /\ members' = members \ {p}
            /\ UNCHANGED <<target, accounts, pending, archived>> /\ StillKnown
Rejoin(p) == Elsewhere /\ p \in accounts \ members /\ members' = members \cup {p}
             /\ UNCHANGED <<target, accounts, pending, archived>> /\ StillKnown

(* An account is erased: its memberships go with it, and the destinations   *)
(* it registered forget by whom (ON DELETE SET NULL).                       *)
EraseAccount(p) ==
    /\ Elsewhere
    /\ p \in accounts /\ \A c \in Clients : ~tx[c].own
    /\ accounts' = accounts \ {p} /\ members' = members \ {p}
    /\ target' = IF target # None /\ target.by = p THEN [target EXCEPT !.by = None] ELSE target
    /\ UNCHANGED <<pending, archived>>
    /\ StillKnown

Finished ==
    /\ issued = MaxRequests /\ \A c \in Clients : tx[c].step = "idle"
    /\ UNCHANGED vars

Next ==
    \/ \E c \in Clients, op \in {"register", "revoke", "send"}, p \in Persons : Begin(c, op, p)
    \/ \E c \in Clients :
          \/ Register(c) \/ Revoke(c) \/ Write(c) \/ Commit(c)
          \/ ExporterFor(c) \/ BuildExport(c) \/ PostBatch(c) \/ Receipt(c) \/ Interrupt(c)
    \/ \E l \in Lines : Tick(l)
    \/ Archive
    \/ \E p \in Persons : Leave(p) \/ Rejoin(p) \/ EraseAccount(p)
    \/ Finished

Spec == Init /\ [][Next]_vars

-----------------------------------------------------------------------------
(* Every variable keeps the shape of the rows it stands for.                *)
TypeOK ==
    /\ target \in ShoppingExportTarget \cup {None}
    /\ members \subseteq accounts /\ accounts \subseteq Persons
    /\ pending \subseteq Lines /\ archived \in BOOLEAN
    /\ outside \in [Receivers -> [Lines -> Nat]]
    /\ issued \in 0 .. MaxRequests

(* "The withdrawal takes effect at the next send rather than at the next    *)
(* cleanup", and so does the departure of who agreed: nothing is posted by  *)
(* a request that began when the agreement no longer stood.                 *)
WithdrawalReachesTheNextSend ==
    \A c \in Clients : tx[c].step = "post" => ~known[c].withdrawn

(* "An item nobody can account for did not reach anyone's list": a receipt  *)
(* is given only when every line that was read is over there, whatever the  *)
(* answers left out.                                                        *)
SentMeansAccepted ==
    \A c \in Clients : reply[c].outcome = "sent" =>
        /\ reply[c].accepted = Cardinality(reply[c].lines)
        /\ \A l \in reply[c].lines : outside[reply[c].account][l] > 0

(* "A registrant who has since left ... stops the export": nothing is       *)
(* posted to the account of a person who had left when the request began.   *)
DepartedTokenIsUnused ==
    \A c \in Clients : tx[c].step = "post" => tx[c].account \notin known[c].gone
=============================================================================
