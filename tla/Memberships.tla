----------------------------- MODULE Memberships -----------------------------
(***************************************************************************)
(* Who may open a household: memberships, the invitations that create them *)
(* (services/memberships.py), the machine tokens that act for a member     *)
(* (services/tokens.py), and the erasure of a household or an account      *)
(* (services/privacy.py), by concurrent requests.  One request is one READ *)
(* COMMITTED transaction.  A row it writes is its own until it ends, and a *)
(* row its foreign keys name is shared: no other may delete it meanwhile.  *)
(* Households exist, with the owner their registration gave them.          *)
(***************************************************************************)
EXTENDS Integers, FiniteSets

CONSTANTS
    Clients,      \* requests that can be in flight together
    Accounts, Households,
    Founder,      \* [Households -> Accounts], who registered each
    Invitations,  \* invitation identifiers (bound: invitations ever issued)
    Tokens,       \* token identifiers (bound: tokens ever issued)
    Guests,       \* invitations redeemed before the behaviour starts
    MaxPending,   \* pending invitations a household may hold
    MaxTokens,    \* tokens a household may hold
    Requests,     \* the requests the clients may send
    None,
    Gone,         \* the mark of an erased invitation or token
    MaxRequests   \* bound: requests issued in the behaviour

Roles == {"owner", "member", "viewer"}
Ops == {"invite", "revoke", "redeem", "remove", "mint", "unmint", "use",
        "erase_household", "erase_account"}

(* who: the account that asks; on: the invitation, the token or the member. *)
Request == [op : Ops, who : Accounts \cup {None}, house : Households \cup {None},
            role : Roles \cup {None}, on : Invitations \cup Tokens \cup Accounts \cup {None}]

VARIABLES
    accounts,     \* the committed accounts
    households,   \* the committed households
    members,      \* the role of each account in each household, or None
    invitations,  \* the committed invitations, Gone once erased
    tokens,       \* the committed machine tokens, Gone once erased
    tx,           \* the transaction of each client
    reply,        \* what each client was last answered
    issued        \* requests issued so far

stored == <<accounts, households, members, invitations, tokens>>
vars == <<stored, tx, reply, issued>>

Invitation == [house : Households, issuer : Accounts, role : Roles,
               by : Accounts \cup {None},
               redeemed : BOOLEAN, revoked : BOOLEAN, expired : BOOLEAN]
Token == [house : Households, user : Accounts, revoked : BOOLEAN]

(* What each request names.                                                 *)
WellFormed(req) ==
    /\ req.op # "use" => req.who \in Accounts
    /\ req.op \in {"redeem", "use", "erase_account"} <=> req.house = None
    /\ req.op = "invite" => req.role \in Roles
    /\ req.op \in {"revoke", "redeem"} => req.on \in Invitations
    /\ req.op \in {"unmint", "use"} => req.on \in Tokens
    /\ req.op = "remove" => req.on \in Accounts

MembershipsAssumption ==
    /\ Founder \in [Households -> Accounts]
    /\ Guests \in [Households -> [Accounts -> Invitations \cup {None}]]
    /\ \A h, g \in Households, a, b \in Accounts :
          Guests[h][a] = Guests[g][b] /\ Guests[h][a] # None => h = g /\ a = b
    /\ MaxPending \in Nat /\ MaxTokens \in Nat /\ MaxRequests \in Nat
    /\ Requests \subseteq Request /\ \A req \in Requests : WellFormed(req)
    /\ None \notin Clients \cup Accounts \cup Households \cup Invitations \cup Tokens \cup Roles
    /\ Invitations \cap Tokens = {} /\ Gone # None
    /\ None \notin Invitation \cup Token /\ Gone \notin Invitation \cup Token

(* A household names its rows; the rows a transaction writes or shares.     *)
HouseholdRow(h) == <<"household", h>>
AccountRow(a) == <<"account", a>>
MemberRow(h, a) == <<"member", h, a>>
InvitationRow(i) == <<"invitation", i>>
TokenRow(k) == <<"token", k>>

Stored(row) == row \notin {None, Gone}

-----------------------------------------------------------------------------
(* "What pending means" to a transaction that began when `past` had expired:*)
(* now() is the time at which it began.                                     *)
Live(i, past) ==
    /\ Stored(invitations[i]) /\ i \notin past
    /\ ~invitations[i].revoked /\ ~invitations[i].redeemed

Expired == {i \in Invitations : Stored(invitations[i]) /\ invitations[i].expired}

(* chaudron_resolve_household_invitation: one clause for every refusal.     *)
Resolves(i, past) ==
    /\ Live(i, past)
    /\ members[invitations[i].house][invitations[i].issuer] = "owner"

(* Mutant: a token outlives the membership of who issued it.                *)
MutTokenResolvesAlone(k) == Stored(tokens[k]) /\ ~tokens[k].revoked

(* chaudron_resolve_machine_token joins back to the membership.             *)
TokenResolves(k) ==
    /\ Stored(tokens[k]) /\ ~tokens[k].revoked
    /\ members[tokens[k].house][tokens[k].user] # None

Pending(h, past) == Cardinality({i \in Invitations : Live(i, past) /\ invitations[i].house = h})
Held(h) == Cardinality({k \in Tokens : /\ Stored(tokens[k]) /\ tokens[k].house = h
                                       /\ ~tokens[k].revoked})
Owners(h) == {a \in Accounts : members[h][a] = "owner"}

-----------------------------------------------------------------------------
(* past: the invitations that had expired when it began; late: what is      *)
(* presented was dead by then and has been since; seen: the invitation as   *)
(* it was resolved; own, shared: the rows it holds.                         *)
IdleTx == [phase |-> "idle", req |-> None, id |-> None, past |-> {}, late |-> FALSE,
           seen |-> None, own |-> {}, shared |-> {}]

NoReply == [op |-> None, outcome |-> None]

GuestOf(i) == {m \in Households \X Accounts : Guests[m[1]][m[2]] = i}

Init ==
    /\ accounts = Accounts /\ households = Households
    /\ members = [h \in Households |-> [a \in Accounts |->
                     IF a = Founder[h] THEN "owner"
                     ELSE IF Guests[h][a] # None THEN "member" ELSE None]]
    /\ invitations = [i \in Invitations |->
          IF GuestOf(i) = {} THEN None
          ELSE LET m == CHOOSE m \in GuestOf(i) : TRUE
               IN  [house |-> m[1], issuer |-> Founder[m[1]], role |-> "member", by |-> m[2],
                    redeemed |-> TRUE, revoked |-> FALSE, expired |-> FALSE]]
    /\ tokens = [k \in Tokens |-> None]
    /\ tx = [c \in Clients |-> IdleTx]
    /\ reply = [c \in Clients |-> NoReply]
    /\ issued = 0

Go(c, t) == tx' = [tx EXCEPT ![c] = t] /\ UNCHANGED <<stored, reply, issued>>

Answer(c, outcome) ==
    /\ tx' = [tx EXCEPT ![c] = IdleTx]
    /\ reply' = [reply EXCEPT ![c] = [op |-> tx[c].req.op, outcome |-> outcome]]
    /\ UNCHANGED issued

Rollback(c, outcome) == Answer(c, outcome) /\ UNCHANGED stored

(* An identifier of its own for what the request creates.                   *)
Fresh(op) ==
    CASE op = "invite" -> {i \in Invitations : invitations[i] = None /\ \A d \in Clients : tx[d].id # i}
      [] op = "mint" -> {k \in Tokens : tokens[k] = None /\ \A d \in Clients : tx[d].id # k}
      [] OTHER -> {None}

(* A value can be presented once it has been handed out.                    *)
Handed(req) ==
    /\ req.op \in {"revoke", "redeem"} => invitations[req.on] # None
    /\ req.op \in {"unmint", "use"} => tokens[req.on] # None

(* What nothing should come of: an invitation that is spent, withdrawn or   *)
(* expired or whose issuer has lost the household, a token that is          *)
(* withdrawn or whose holder has.                                           *)
Dead(req, past) ==
    \/ /\ req.op = "redeem"
       /\ LET i == invitations[req.on]
          IN  Live(req.on, past) => i.issuer \notin Owners(i.house)
    \/ /\ req.op = "use"
       /\ LET k == tokens[req.on]
          IN  Stored(k) /\ ~k.revoked => members[k.house][k.user] = None

Begin(c, req) ==
    /\ tx[c].phase = "idle" /\ issued < MaxRequests /\ Handed(req) /\ Fresh(req.op) # {}
    /\ issued' = issued + 1
    /\ tx' = [tx EXCEPT ![c] =
          [IdleTx EXCEPT !.phase = IF req.op = "use" THEN "resolve" ELSE "auth",
                         !.req = req, !.id = CHOOSE i \in Fresh(req.op) : TRUE,
                         !.past = Expired, !.late = Dead(req, Expired)]]
    /\ reply' = [reply EXCEPT ![c] = NoReply]
    /\ UNCHANGED stored

-----------------------------------------------------------------------------
(* The rows a statement needs, all at once: those it writes, which it finds *)
(* among the committed ones, and those its foreign keys name.  A written    *)
(* row is held against all, a shared one against who would delete it.       *)

Revocable(req) ==
    IF req.op = "revoke"
    THEN {InvitationRow(i) : i \in {i \in {req.on} :
            /\ Stored(invitations[i]) /\ invitations[i].house = req.house
            /\ ~invitations[i].revoked /\ ~invitations[i].redeemed}}
    ELSE {TokenRow(k) : k \in {k \in {req.on} :
            Stored(tokens[k]) /\ tokens[k].house = req.house /\ ~tokens[k].revoked}}

(* Mutant: whoever resolved the value may spend it.                         *)
MutSpendableAsResolved(t) == {InvitationRow(t.req.on)}

(* WHERE redeemed_at IS NULL, read again by the UPDATE.                     *)
Spendable(t) ==
    {InvitationRow(i) : i \in {i \in {t.req.on} :
        Stored(invitations[i]) /\ ~invitations[i].redeemed}}

Root(t) ==
    IF t.req.op = "erase_household"
    THEN {HouseholdRow(h) : h \in {t.req.house} \cap households}
    ELSE {AccountRow(a) : a \in {t.req.who} \cap accounts}

OfHousehold(t) == t.req.op = "erase_household"

(* Mutant: the memberships of what is erased stay.                          *)
MutEndedNever(t) == {}

Ended(t) == {m \in Households \X Accounts :
               /\ members[m[1]][m[2]] # None
               /\ IF OfHousehold(t) THEN m[1] = t.req.house ELSE m[2] = t.req.who}

(* ON DELETE CASCADE, and SET NULL on the account that redeemed.            *)
Dependents(t) ==
    {MemberRow(m[1], m[2]) : m \in Ended(t)}
    \cup {InvitationRow(i) : i \in {i \in Invitations :
            /\ Stored(invitations[i])
            /\ IF OfHousehold(t) THEN invitations[i].house = t.req.house
               ELSE t.req.who \in {invitations[i].issuer, invitations[i].by}}}
    \cup {TokenRow(k) : k \in {k \in Tokens :
            /\ Stored(tokens[k])
            /\ IF OfHousehold(t) THEN tokens[k].house = t.req.house
               ELSE tokens[k].user = t.req.who}}

Written(t) ==
    LET op == t.req.op
    IN  CASE t.phase = "update" -> IF op = "redeem" THEN Spendable(t) ELSE Revocable(t.req)
          [] t.phase = "join" -> {MemberRow(t.seen.house, t.req.who)}
          [] t.phase = "delete" ->
               IF op # "remove" THEN Root(t)
               ELSE {MemberRow(t.req.house, a) : a \in
                       {a \in {t.req.on} : members[t.req.house][a] # None}}
          [] t.phase = "touch" -> {TokenRow(k) : k \in {k \in {t.req.on} : Stored(tokens[k])}}
          [] t.phase = "cascade" -> Dependents(t)
          [] OTHER -> {}

Shared(t) ==
    CASE t.phase = "insert" -> {HouseholdRow(t.req.house), AccountRow(t.req.who)}
      [] t.phase = "update" /\ t.req.op = "redeem" /\ Spendable(t) # {} -> {AccountRow(t.req.who)}
      [] t.phase = "join" -> {HouseholdRow(t.seen.house), AccountRow(t.req.who),
                              AccountRow(t.seen.issuer)}
      [] OTHER -> {}

Living(row) == row \in {HouseholdRow(h) : h \in households} \cup {AccountRow(a) : a \in accounts}

WaitsFor(c, d) ==
    /\ c # d
    /\ \/ Written(tx[c]) \cap (tx[d].own \cup tx[d].shared) # {}
       \/ Shared(tx[c]) \cap tx[d].own # {}

Free(c) == \A d \in Clients : ~WaitsFor(c, d)

(* The statement gets its rows; a foreign key to a row that is gone fails.  *)
Write(c, phase) ==
    /\ Free(c)
    /\ IF \A row \in Shared(tx[c]) : Living(row)
       THEN Go(c, [tx[c] EXCEPT !.phase = phase, !.own = @ \cup Written(tx[c]),
                                !.shared = @ \cup Shared(tx[c])])
       ELSE Rollback(c, "integrity")

-----------------------------------------------------------------------------
(* The session names a living account, and the route the role it asks for.  *)
Required(op) ==
    CASE op \in {"invite", "revoke", "erase_household"} -> {"owner"}
      [] op \in {"remove", "mint", "unmint"} -> {"owner", "member"}

First(op) ==
    CASE op = "invite" -> "count"
      [] op = "mint" -> "count"
      [] op = "redeem" -> "resolve"
      [] op \in {"revoke", "unmint"} -> "update"
      [] op = "remove" -> "actor"
      [] op \in {"erase_household", "erase_account"} -> "check"

Authorise(c) ==
    LET t == tx[c]
        req == t.req
    IN  /\ t.phase = "auth"
        /\ IF req.who \notin accounts THEN Rollback(c, "unauthenticated")
           ELSE IF req.house # None /\ members[req.house][req.who] \notin Required(req.op)
                THEN Rollback(c, "forbidden")
           ELSE IF req.op = "invite" /\ req.role = "owner" THEN Rollback(c, "role_not_allowed")
           ELSE Go(c, [t EXCEPT !.phase = First(req.op)])

(* What the household holds already is counted before the row is inserted.  *)
CountHeld(c) ==
    LET t == tx[c]
        full == IF t.req.op = "invite" THEN Pending(t.req.house, t.past) >= MaxPending
                                       ELSE Held(t.req.house) >= MaxTokens
    IN  /\ t.phase = "count"
        /\ IF full THEN Rollback(c, "too_many") ELSE Go(c, [t EXCEPT !.phase = "insert"])

(* INSERT of an invitation or a token, with its two foreign keys.           *)
Insert(c) == tx[c].phase = "insert" /\ Write(c, "commit")

(* revoke, and its twin for tokens: a conditional UPDATE, 204 either way.   *)
Revoke(c) ==
    /\ tx[c].phase = "update" /\ tx[c].req.op \in {"revoke", "unmint"}
    /\ Write(c, "commit")

-----------------------------------------------------------------------------
(* redeem.  What the value resolves to, before anything is written.         *)
Resolve(c) ==
    LET t == tx[c]
    IN  /\ t.phase = "resolve" /\ t.req.op = "redeem"
        /\ IF Resolves(t.req.on, t.past)
           THEN Go(c, [t EXCEPT !.phase = "check", !.seen = invitations[t.req.on]])
           ELSE Rollback(c, "not_accepted")

(* An existing member is refused and nothing is spent.                      *)
CheckMember(c) ==
    LET t == tx[c]
    IN  /\ t.phase = "check" /\ t.req.op = "redeem"
        /\ IF members[t.seen.house][t.req.who] # None
           THEN Rollback(c, "already_member")
           ELSE Go(c, [t EXCEPT !.phase = "update"])

(* The conditional UPDATE that makes an invitation single-use; it names the *)
(* account, which its foreign key then shares.                              *)
Spend(c) ==
    /\ tx[c].phase = "update" /\ tx[c].req.op = "redeem"
    /\ IF Spendable(tx[c]) = {} THEN Rollback(c, "not_accepted") ELSE Write(c, "join")

(* "Only then write the membership": its key may be taken meanwhile, and    *)
(* the household or the issuer may be gone.                                 *)
Join(c) ==
    LET t == tx[c]
    IN  /\ t.phase = "join"
        /\ IF members[t.seen.house][t.req.who] # None THEN Rollback(c, "integrity")
           ELSE Write(c, "commit")

-----------------------------------------------------------------------------
(* remove.  The role of the actor is read again in this transaction.        *)
CheckActor(c) ==
    LET t == tx[c]
        role == members[t.req.house][t.req.who]
    IN  /\ t.phase = "actor"
        /\ IF role # "owner" /\ (role = None \/ t.req.on # t.req.who)
           THEN Rollback(c, "not_permitted")
           ELSE Go(c, [t EXCEPT !.phase = "target"])

LastOwner(h, a) == members[h][a] = "owner" /\ Cardinality(Owners(h)) <= 1

CheckTarget(c) ==
    LET t == tx[c]
    IN  /\ t.phase = "target"
        /\ IF members[t.req.house][t.req.on] = None THEN Rollback(c, "no_such_member")
           ELSE IF LastOwner(t.req.house, t.req.on) THEN Rollback(c, "last_owner")
           ELSE Go(c, [t EXCEPT !.phase = "delete"])

DeleteMember(c) == tx[c].phase = "delete" /\ tx[c].req.op = "remove" /\ Write(c, "commit")

-----------------------------------------------------------------------------
(* A machine token is resolved, and touched if an hour has passed.          *)
UseToken(c) ==
    LET t == tx[c]
    IN  /\ t.phase = "resolve" /\ t.req.op = "use"
        /\ IF TokenResolves(t.req.on)
           THEN \E next \in {"touch", "commit"} : Go(c, [t EXCEPT !.phase = next])
           ELSE Rollback(c, "unauthenticated")

Touch(c) == tx[c].phase = "touch" /\ Write(c, "commit")

-----------------------------------------------------------------------------
(* Erasure.  The rows are counted, or the households surveyed, before       *)
(* anything is written.                                                     *)
Survey(c) ==
    LET t == tx[c]
        a == t.req.who
        gone == IF t.req.op = "erase_household" THEN t.req.house \notin households
                                                ELSE a \notin accounts
        orphans == {h \in Households : members[h][a] # None /\ Owners(h) \ {a} = {}}
    IN  /\ t.phase = "check" /\ t.req.op # "redeem"
        /\ IF gone THEN Rollback(c, "incomplete")
           ELSE IF t.req.op = "erase_account" /\ orphans # {} THEN Rollback(c, "would_orphan")
           ELSE Go(c, [t EXCEPT !.phase = "delete"])

DeleteRoot(c) == tx[c].phase = "delete" /\ tx[c].req.op # "remove" /\ Write(c, "cascade")

(* ck_household_invitation_redemption_recorded_whole: a redemption keeps    *)
(* its account, which SET NULL would take away.                             *)
HalfRecorded(t) ==
    /\ t.req.op = "erase_account"
    /\ \E i \in Invitations : /\ Stored(invitations[i]) /\ invitations[i].by = t.req.who
                              /\ invitations[i].issuer # t.req.who

Cascade(c) ==
    /\ tx[c].phase = "cascade"
    /\ IF HalfRecorded(tx[c]) THEN Free(c) /\ Rollback(c, "check_violation")
       ELSE Write(c, "commit")

-----------------------------------------------------------------------------
(* What a transaction leaves behind.                                        *)
Erases(t, row) ==
    /\ t.req.op \in {"erase_household", "erase_account", "remove"}
    /\ row \in t.own

MembersAfter(t) ==
    [h \in Households |-> [a \in Accounts |->
        IF Erases(t, MemberRow(h, a)) THEN None
        ELSE IF MemberRow(h, a) \in t.own THEN t.seen.role
        ELSE members[h][a]]]

Redeemed(t, row) == [row EXCEPT !.redeemed = TRUE, !.by = t.req.who]

InvitationsAfter(t) ==
    [i \in Invitations |->
        IF Erases(t, InvitationRow(i)) THEN Gone
        ELSE IF i = t.id
        THEN [house |-> t.req.house, issuer |-> t.req.who, role |-> t.req.role, by |-> None,
              redeemed |-> FALSE, revoked |-> FALSE, expired |-> FALSE]
        ELSE IF InvitationRow(i) \notin t.own THEN invitations[i]
        ELSE IF t.req.op = "revoke" THEN [invitations[i] EXCEPT !.revoked = TRUE]
        ELSE Redeemed(t, invitations[i])]

TokensAfter(t) ==
    [k \in Tokens |->
        IF Erases(t, TokenRow(k)) THEN Gone
        ELSE IF k = t.id THEN [house |-> t.req.house, user |-> t.req.who, revoked |-> FALSE]
        ELSE IF TokenRow(k) \in t.own /\ t.req.op = "unmint"
        THEN [tokens[k] EXCEPT !.revoked = TRUE]
        ELSE tokens[k]]

(* A member who has come back may use a token again.                        *)
StillLate(t) ==
    [t EXCEPT !.late = t.late /\ \E req \in {t.req}, past \in {t.past} : Dead(req, past)']

Commit(c) ==
    LET t == tx[c]
    IN  /\ t.phase = "commit"
        /\ accounts' = {a \in accounts : AccountRow(a) \notin t.own}
        /\ households' = {h \in households : HouseholdRow(h) \notin t.own}
        /\ members' = MembersAfter(t)
        /\ invitations' = InvitationsAfter(t)
        /\ tokens' = TokensAfter(t)
        /\ tx' = [d \in Clients |-> IF d = c THEN IdleTx ELSE StillLate(tx[d])]
        /\ reply' = [reply EXCEPT ![c] = [op |-> t.req.op, outcome |-> "ok"]]
        /\ UNCHANGED issued

(* Days pass, and an invitation with them.                                  *)
Expire(i) ==
    /\ Live(i, Expired)
    /\ invitations' = [invitations EXCEPT ![i].expired = TRUE]
    /\ UNCHANGED <<accounts, households, members, tokens, tx, reply, issued>>

(* The connection is lost or the process stops.                             *)
Interrupt(c) == tx[c].phase # "idle" /\ Rollback(c, "interrupted")

Deadlocked(c) ==
    \E S \in SUBSET Clients :
        /\ c \in S
        /\ \A d \in S : (\E e \in S : WaitsFor(d, e)) /\ (\E e \in S : WaitsFor(e, d))

DeadlockVictim(c) == Deadlocked(c) /\ Rollback(c, "deadlock")

Finished ==
    /\ issued = MaxRequests
    /\ \A c \in Clients : tx[c].phase = "idle"
    /\ UNCHANGED vars

Serve(c) ==
    \/ Authorise(c) \/ CountHeld(c) \/ Insert(c) \/ Revoke(c)
    \/ Resolve(c) \/ CheckMember(c) \/ Spend(c) \/ Join(c)
    \/ CheckActor(c) \/ CheckTarget(c) \/ DeleteMember(c)
    \/ UseToken(c) \/ Touch(c)
    \/ Survey(c) \/ DeleteRoot(c) \/ Cascade(c)
    \/ Commit(c) \/ DeadlockVictim(c)

Next ==
    \/ \E c \in Clients : \E req \in Requests : Begin(c, req)
    \/ \E c \in Clients : Serve(c) \/ Interrupt(c)
    \/ \E i \in Invitations : Expire(i)
    \/ Finished

Spec == Init /\ [][Next]_vars

-----------------------------------------------------------------------------
(* An erasure leaves nothing behind: no membership, invitation or token of  *)
(* a household or an account that is gone, whatever was being written.      *)
ErasureIsComplete ==
    /\ \A h \in Households, a \in Accounts :
          members[h][a] # None => h \in households /\ a \in accounts
    /\ \A i \in Invitations : Stored(invitations[i]) =>
          invitations[i].house \in households /\ invitations[i].issuer \in accounts
    /\ \A k \in Tokens : Stored(tokens[k]) =>
          tokens[k].house \in households /\ tokens[k].user \in accounts

(* "It would leave it with nobody who can administer it": while a household *)
(* stands it has an owner, through every removal and account erasure.       *)
HouseholdsKeepAnOwner == \A h \in households : Owners(h) # {}

(* "Two clients racing the same value produce one membership and one        *)
(* refusal": who is in a household without having founded it holds an       *)
(* invitation of its own, spent by it and for the role it has.              *)
MembershipsAreEarned ==
    \A h \in Households, a \in Accounts :
        members[h][a] \notin {None, "owner"} =>
            \E i \in Invitations :
                /\ Stored(invitations[i]) /\ invitations[i].by = a
                /\ invitations[i].house = h /\ invitations[i].role = members[h][a]

(* A household that stands has an owner, and every other member holds a     *)
(* spent invitation of its own.                                             *)
MembershipsAreSound == HouseholdsKeepAnOwner /\ MembershipsAreEarned

(* "Nothing has to be remembered to be revoked": a token or an invitation   *)
(* that was withdrawn, spent or expired, or whose holder had lost the       *)
(* household, before a request presents it, and is no member again before   *)
(* it ends, gets that request nothing.                                      *)
WithdrawnIsFinal ==
    [][ \A c \in Clients : tx[c].late /\ tx'[c].phase = "idle" => reply'[c].outcome # "ok" ]_vars

(* "The mention is cleared and the row stays": no erasure of an account is  *)
(* refused by a constraint of the database.                                 *)
ErasureIsNotRefused == \A c \in Clients : reply[c].outcome # "check_violation"
=============================================================================
