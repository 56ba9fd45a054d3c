------------------------------ MODULE Accounts ------------------------------
(***************************************************************************)
(* Accounts, the sessions a browser holds, and the links that replace a    *)
(* forgotten password (services/auth.py, api/routers/auth.py), by          *)
(* concurrent requests.  One request is one READ COMMITTED transaction,    *)
(* and it commits after its answer has left and its mail has been sent:    *)
(* that is when the session dependency of a route is closed.  A route is   *)
(* the sequence of the statements it sends.  Argon2, the CSRF echo and the *)
(* rate limits are not here; the last are Throttling's.                    *)
(***************************************************************************)
EXTENDS Integers, FiniteSets, Sequences

CONSTANTS
    Clients,     \* requests that can be in flight together
    Addresses,   \* e-mail addresses, normalised
    Registered,  \* [Addresses -> Passwords \cup {None}], the accounts at the start
    Outdated,    \* the digests at the start have outdated parameters
    Sessions, Links,  \* numbers, in the order of issue (bound: ever issued)
    Opened,      \* [Sessions -> Addresses \cup {None}], the sessions at the start
    Passwords,
    Requests,    \* the requests the clients may send
    None,
    MaxRequests  \* bound: requests issued, deadlines passed, accounts disabled

Ops == {"read", "logout", "revoke_all", "change", "login", "forgot", "reset", "register"}

(* by: the session cookie presented; at: the address; link: the reset link; *)
(* old: the password offered as the current one; new: the one to set.       *)
Request == [op : Ops, by : Sessions \cup {None}, at : Addresses \cup {None},
            link : Links \cup {None}, old : Passwords \cup {None}, new : Passwords \cup {None}]

ASSUME AccountsAssumption ==
    /\ Registered \in [Addresses -> Passwords \cup {None}]
    /\ Opened \in [Sessions -> Addresses \cup {None}]
    /\ Outdated \in BOOLEAN /\ Requests \subseteq Request /\ MaxRequests \in Nat
    /\ Sessions \subseteq Nat /\ Links \subseteq Nat
    /\ None \notin Clients \cup Addresses \cup Sessions \cup Links \cup Passwords
    /\ \A req \in Requests :
         /\ req.op \in {"login", "forgot", "register"} => req.at # None
         /\ req.op = "reset" => req.link # None

VARIABLES
    accounts,    \* the committed account of each address, or None
    households,  \* the addresses whose registration founded a household
    sessions,    \* the committed sessions
    links,       \* the committed reset links
    handed,      \* the rows whose secret has left the server
    tx, reply, issued

stored == <<accounts, households, sessions, links>>
vars == <<stored, handed, tx, reply, issued>>

UserAccount == [password : Passwords, outdated : BOOLEAN, disabled : BOOLEAN]

UserSession == [user : Addresses, revoked : BOOLEAN, expired : BOOLEAN, idle : BOOLEAN]
PasswordResetToken == [user : Addresses, consumed : BOOLEAN, expired : BOOLEAN]

ASSUME RowAssumption ==
    None \notin UserSession /\ None \notin PasswordResetToken /\ None \notin Requests

UserRow(a) == <<"user", a>>
SessionRow(s) == <<"session", s>>
LinkRow(l) == <<"link", l>>
AddressKey(a) == <<"address", a>>  \* uq_user_account_email_lower

-----------------------------------------------------------------------------
(* Each route as the statements it sends, in order.                         *)
ReadSession == <<"resolve", "touch">>
Logout == <<"resolve", "touch", "revoke">>
RevokeAllSessions == <<"resolve", "touch", "aim_sessions", "sweep", "open">>
ChangePassword == <<"resolve", "touch", "current", "rekey", "aim_links", "consume",
                    "aim_sessions", "sweep", "open">>
Login == <<"verify", "rekey", "present", "revoke", "open">>
RequestReset == <<"find", "aim_links", "consume", "link">>
CompleteReset == <<"follow", "holder", "rekey", "aim_links", "consume", "aim_sessions", "sweep">>
Register == <<"insert">> \o RequestReset

Route(op) ==
    CASE op = "read" -> ReadSession [] op = "logout" -> Logout
      [] op = "revoke_all" -> RevokeAllSessions [] op = "change" -> ChangePassword
      [] op = "login" -> Login [] op = "forgot" -> RequestReset
      [] op = "reset" -> CompleteReset [] op = "register" -> Register

-----------------------------------------------------------------------------
(* todo: the statements left; who: the account; via: the session it speaks  *)
(* for; seen: the password it read; new: the password to store; session,    *)
(* link, founds: the rows it has inserted; mail: it has a message to send;  *)
(* target: the rows its statement found; own: the rows it has written; aged:*)
(* last_used_at is over a minute old; before: the live credentials of the   *)
(* account when it began; late: what it presents was dead by then.          *)
IdleTx == [todo |-> <<>>, req |-> None, who |-> None, via |-> None, seen |-> None, new |-> None,
           session |-> None, link |-> None, founds |-> FALSE, target |-> {}, own |-> {},
           before |-> {}, late |-> FALSE, mail |-> FALSE, answered |-> FALSE]

NoReply == [op |-> None, outcome |-> None]

Init ==
    /\ accounts = [a \in Addresses |->
          IF Registered[a] = None THEN None
          ELSE [password |-> Registered[a], outdated |-> Outdated, disabled |-> FALSE]]
    /\ households = {a \in Addresses : Registered[a] # None}
    /\ sessions = [s \in Sessions |->
          IF Opened[s] = None THEN None
          ELSE [user |-> Opened[s], revoked |-> FALSE, expired |-> FALSE, idle |-> FALSE]]
    /\ links = [l \in Links |-> None]
    /\ handed = {SessionRow(s) : s \in {s \in Sessions : Opened[s] # None}}
    /\ tx = [c \in Clients |-> IdleTx]
    /\ reply = [c \in Clients |-> NoReply]
    /\ issued = 0

At(c, step) == tx[c].req # None /\ tx[c].todo # <<>> /\ Head(tx[c].todo) = step
Go(c, t) == tx' = [tx EXCEPT ![c] = t] /\ UNCHANGED <<stored, handed, reply, issued>>
Done(t) == [t EXCEPT !.todo = Tail(@)]

(* Mutant: a refusal is answered, and its transaction is left open.         *)
MutRollbackLeftOpen(c, outcome) ==
    /\ tx' = [tx EXCEPT ![c] = IF outcome \in {"deadlock", "interrupted"} THEN IdleTx
                               ELSE [IdleTx EXCEPT !.own = tx[c].own]]
    /\ reply' = IF tx[c].answered THEN reply
                ELSE [reply EXCEPT ![c] = [op |-> tx[c].req.op, outcome |-> outcome]]
    /\ UNCHANGED <<stored, handed, issued>>

(* An error leaves the transaction rolled back and says so, unless the      *)
(* answer had left already.                                                 *)
Rollback(c, outcome) ==
    /\ tx' = [tx EXCEPT ![c] = IdleTx]
    /\ reply' = IF tx[c].answered THEN reply
                ELSE [reply EXCEPT ![c] = [op |-> tx[c].req.op, outcome |-> outcome]]
    /\ UNCHANGED <<stored, handed, issued>>

(* A session a browser may use: neither revoked nor past a deadline, of an  *)
(* account that is not disabled.                                            *)
Live(s) ==
    /\ sessions[s] # None
    /\ ~sessions[s].revoked /\ ~sessions[s].expired /\ ~sessions[s].idle
    /\ ~accounts[sessions[s].user].disabled

(* Mutant: a link is looked up without asking whether it was used.          *)
MutUsableThoughConsumed(l) == links[l] # None /\ ~links[l].expired

Usable(l) == links[l] # None /\ ~links[l].consumed /\ ~links[l].expired

SessionsOf(a) == {s \in Sessions : sessions[s] # None /\ sessions[s].user = a}
Unrevoked(a) == {s \in SessionsOf(a) : ~sessions[s].revoked}
LinksOf(a) == {l \in Links : links[l] # None /\ links[l].user = a}

(* What a request presents is dead for good: what idles may be revived by a *)
(* request that resolved it.  Sign-in asks nothing of the cookie.           *)
Spent(req) ==
    \/ /\ req.op \in {"read", "logout", "revoke_all", "change"}
       /\ req.by # None /\ sessions[req.by] # None
       /\ sessions[req.by].revoked \/ sessions[req.by].expired
    \/ /\ req.op = "reset"
       /\ links[req.link] # None
       /\ links[req.link].consumed \/ links[req.link].expired

Least(S) == CHOOSE n \in S : \A m \in S : n <= m

(* Fresh identifiers, of no row and no transaction; the next one is given.  *)
FreshSessions == {s \in Sessions : sessions[s] = None /\ \A d \in Clients : tx[d].session # s}
FreshLinks == {l \in Links : links[l] = None /\ \A d \in Clients : tx[d].link # l}

Begin(c, req) ==
    /\ tx[c].req = None /\ issued < MaxRequests
    /\ req.by # None => SessionRow(req.by) \in handed
    /\ req.link # None => LinkRow(req.link) \in handed
    /\ tx' = [tx EXCEPT ![c] = [IdleTx EXCEPT !.req = req, !.todo = Route(req.op), !.late = Spent(req)]]
    /\ reply' = [reply EXCEPT ![c] = NoReply]
    /\ issued' = issued + 1
    /\ UNCHANGED <<stored, handed>>

-----------------------------------------------------------------------------
(* The session behind a cookie, read with its account; an UPDATE follows    *)
(* only when it was last used over a minute ago.                            *)
Resolve(c) ==
    LET t == tx[c]
        s == t.req.by
    IN  /\ At(c, "resolve")
        /\ IF s = None \/ ~Live(s) THEN Rollback(c, "unauthenticated")
           ELSE \E aged \in BOOLEAN :
                  Go(c, [t EXCEPT !.who = sessions[s].user, !.via = s,
                                  !.seen = accounts[sessions[s].user].password,
                                  !.before = Unrevoked(sessions[s].user),
                                  !.todo = IF aged THEN Tail(@) ELSE Tail(Tail(@))])

(* Sign-in: one answer for an address unknown, a password that is wrong and *)
(* an account disabled.  The digest is renewed from the password presented, *)
(* and last_login_at is written in any case.                                *)
Verify(c) ==
    LET t == tx[c]
        user == accounts[t.req.at]
    IN  /\ At(c, "verify")
        /\ IF user = None \/ user.password # t.req.old \/ user.disabled
           THEN Rollback(c, "invalid_credentials")
           ELSE Go(c, [Done(t) EXCEPT !.who = t.req.at,
                                      !.new = IF user.outdated THEN t.req.old ELSE None])

(* The session the browser arrived with, revoked on the way through.        *)
Present(c) ==
    LET t == tx[c]
    IN  /\ At(c, "present")
        /\ IF t.req.by # None /\ Live(t.req.by)
           THEN Go(c, [Done(t) EXCEPT !.via = t.req.by])
           ELSE Go(c, [t EXCEPT !.todo = Tail(Tail(@))])

(* The current password, against the account as the cookie resolved it.     *)
CheckCurrent(c) ==
    LET t == tx[c]
    IN  /\ At(c, "current")
        /\ IF t.seen # t.req.old THEN Rollback(c, "current_password_invalid")
           ELSE Go(c, [Done(t) EXCEPT !.new = t.req.new])

(* The account a link is asked for.  The budget of messages per address may *)
(* be spent: the answer is the same, and nothing is minted or sent.         *)
Find(c) ==
    LET t == tx[c]
        user == accounts[t.req.at]
    IN  /\ At(c, "find")
        /\ \/ Go(c, [t EXCEPT !.todo = <<>>])
           \/ IF user = None \/ user.disabled
              THEN Go(c, [t EXCEPT !.todo = <<>>, !.mail = t.req.op = "forgot"])
              ELSE Go(c, [Done(t) EXCEPT !.who = t.req.at, !.mail = TRUE])

(* A link is followed: unknown, expired, used and superseded are one        *)
(* refusal, and so is an account gone or disabled since.                    *)
Follow(c) ==
    LET t == tx[c]
        l == t.req.link
    IN  /\ At(c, "follow")
        /\ IF ~Usable(l) THEN Rollback(c, "reset_token_invalid")
           ELSE Go(c, [Done(t) EXCEPT !.who = links[l].user, !.new = t.req.new,
                                 !.before = Unrevoked(links[l].user)])

Holder(c) ==
    LET t == tx[c]
    IN  /\ At(c, "holder")
        /\ IF accounts[t.who].disabled THEN Rollback(c, "reset_token_invalid")
           ELSE Go(c, Done(t))

-----------------------------------------------------------------------------
(* Writing.  An UPDATE finds its rows in its own snapshot, then waits for   *)
(* each one another transaction has written.                                *)
Aim(c) ==
    LET t == tx[c]
    IN  /\ At(c, "aim_links") \/ At(c, "aim_sessions")
        /\ Go(c, [Done(t) EXCEPT !.target =
               IF Head(t.todo) = "aim_links"
               THEN {LinkRow(l) : l \in {l \in LinksOf(t.who) : ~links[l].consumed}}
               ELSE {SessionRow(s) : s \in Unrevoked(t.who)}])

Touched(c) == {SessionRow(tx[c].via)}
Rekeyed(c) == {UserRow(tx[c].who)}

(* Mutant: the session that asks is spared.                                 *)
MutSweptButOwn(c) == tx[c].target \ {SessionRow(tx[c].req.by)}

Swept(c) == tx[c].target
Consumed(c) == tx[c].target
Inserted(c) == {AddressKey(tx[c].req.at)}

Needs(c) ==
    IF At(c, "touch") \/ At(c, "revoke") THEN Touched(c)
    ELSE IF At(c, "rekey") THEN Rekeyed(c)
    ELSE IF At(c, "sweep") THEN Swept(c)
    ELSE IF At(c, "consume") THEN Consumed(c)
    ELSE IF At(c, "insert") THEN Inserted(c)
    ELSE {}

WaitsFor(c, d) == c # d /\ Needs(c) \cap tx[d].own # {}
Free(c) == \A d \in Clients : ~WaitsFor(c, d)

(* What the statement leaves in the row is settled at the commit: a touch   *)
(* moves the idle deadline, a revocation or a consumption sets its mark.    *)
Write(c, step) ==
    /\ At(c, step) /\ Free(c)
    /\ Go(c, [Done(tx[c]) EXCEPT !.own = @ \cup Needs(c), !.target = {}])

Touch(c) == Write(c, "touch")
Rekey(c) == Write(c, "rekey")
Revoke(c) == Write(c, "revoke")
RevokeAll(c) == Write(c, "sweep")
InvalidateLinks(c) == Write(c, "consume")

(* The account is inserted in a savepoint: a lost race on the address is an *)
(* IntegrityError, and the transaction goes on to the reset link.           *)
InsertAccount(c) ==
    LET t == tx[c]
    IN  /\ At(c, "insert") /\ Free(c)
        /\ IF accounts[t.req.at] # None THEN Go(c, Done(t))
           ELSE \E mail \in BOOLEAN :
                  Go(c, [t EXCEPT !.own = @ \cup Inserted(c), !.who = t.req.at, !.new = t.req.new,
                                  !.founds = TRUE, !.todo = <<>>, !.mail = mail])

InsertLink(c) ==
    /\ At(c, "link") /\ FreshLinks # {}
    /\ Go(c, [Done(tx[c]) EXCEPT !.link = Least(FreshLinks)])

(* Always a new row with a new token.                                       *)
IssueSession(c) ==
    /\ At(c, "open") /\ FreshSessions # {}
    /\ Go(c, [Done(tx[c]) EXCEPT !.session = Least(FreshSessions)])

-----------------------------------------------------------------------------
Ready(c) == tx[c].req # None /\ tx[c].todo = <<>>

(* The answer leaves, with the cookie of the session that was inserted.     *)
Respond(c) ==
    LET t == tx[c]
    IN  /\ Ready(c) /\ ~t.answered
        /\ tx' = [tx EXCEPT ![c].answered = TRUE]
        /\ reply' = [reply EXCEPT ![c] = [op |-> t.req.op, outcome |-> "ok"]]
        /\ handed' = handed \cup (IF t.session = None THEN {} ELSE {SessionRow(t.session)})
        /\ UNCHANGED <<stored, issued>>

(* The background task: the message goes out, or the relay refuses it.      *)
Deliver(c) ==
    LET t == tx[c]
    IN  /\ Ready(c) /\ t.answered /\ t.mail
        /\ \/ handed' = handed \cup (IF t.link = None THEN {} ELSE {LinkRow(t.link)})
           \/ UNCHANGED handed
        /\ tx' = [tx EXCEPT ![c].mail = FALSE]
        /\ UNCHANGED <<stored, reply, issued>>

AccountAfter(t) ==
    IF t.founds THEN [password |-> t.new, outdated |-> FALSE, disabled |-> FALSE]
    ELSE IF t.new # None /\ UserRow(t.who) \in t.own
    THEN [accounts[t.who] EXCEPT !.password = t.new, !.outdated = FALSE]
    ELSE accounts[t.who]

(* Mutant: the touch writes back the session as it was resolved.            *)
MutSessionAfterWritesItAll(t, s) ==
    [sessions[s] EXCEPT !.revoked = t.req.op # "read", !.idle = IF s = t.via THEN FALSE ELSE @]

(* Only the columns that changed are written: a touch clears no revocation. *)
SessionAfter(t, s) ==
    [sessions[s] EXCEPT !.revoked = @ \/ t.req.op # "read",
                        !.idle = IF s = t.via THEN FALSE ELSE @]

SessionsAfter(t) ==
    [s \in Sessions |->
        IF s = t.session
        THEN [user |-> t.who, revoked |-> FALSE, expired |-> FALSE, idle |-> FALSE]
        ELSE IF SessionRow(s) \in t.own THEN SessionAfter(t, s)
        ELSE sessions[s]]

LinksAfter(t) ==
    [l \in Links |->
        IF l = t.link THEN [user |-> t.who, consumed |-> FALSE, expired |-> FALSE]
        ELSE IF LinkRow(l) \in t.own THEN [links[l] EXCEPT !.consumed = TRUE]
        ELSE links[l]]

Commit(c) ==
    LET t == tx[c]
    IN  /\ Ready(c) /\ t.answered /\ ~t.mail
        /\ accounts' = IF t.who = None THEN accounts ELSE [accounts EXCEPT ![t.who] = AccountAfter(t)]
        /\ households' = households \cup (IF t.founds THEN {t.who} ELSE {})
        /\ sessions' = SessionsAfter(t)
        /\ links' = LinksAfter(t)
        /\ tx' = [tx EXCEPT ![c] = IdleTx]
        /\ UNCHANGED <<handed, reply, issued>>

-----------------------------------------------------------------------------
(* Time passes.                                                             *)
Lapse ==
    /\ issued < MaxRequests /\ issued' = issued + 1
    /\ \/ \E s \in Sessions : /\ sessions[s] # None /\ ~sessions[s].expired
                              /\ \/ sessions' = [sessions EXCEPT ![s].expired = TRUE]
                                 \/ ~sessions[s].idle /\ sessions' = [sessions EXCEPT ![s].idle = TRUE]
                              /\ UNCHANGED links
       \/ \E l \in Links : /\ links[l] # None /\ ~links[l].expired
                           /\ links' = [links EXCEPT ![l].expired = TRUE]
                           /\ UNCHANGED sessions
    /\ UNCHANGED <<accounts, households, handed, tx, reply>>

(* An operator switches an account off, in the database.                    *)
Disable(a) ==
    /\ accounts[a] # None /\ ~accounts[a].disabled
    /\ \A c \in Clients : UserRow(a) \notin tx[c].own
    /\ accounts' = [accounts EXCEPT ![a].disabled = TRUE]
    /\ issued < MaxRequests /\ issued' = issued + 1
    /\ UNCHANGED <<households, sessions, links, handed, tx, reply>>

(* The connection is lost or the process stops, before the commit.          *)
Interrupt(c) == tx[c].req # None /\ Rollback(c, "interrupted")

Deadlocked(c) ==
    \E S \in SUBSET Clients :
        /\ c \in S
        /\ \A d \in S : (\E e \in S : WaitsFor(d, e)) /\ (\E e \in S : WaitsFor(e, d))

DeadlockVictim(c) == Deadlocked(c) /\ Rollback(c, "deadlock")

Finished ==
    /\ issued = MaxRequests /\ \A c \in Clients : tx[c].req = None
    /\ UNCHANGED vars

Serve(c) ==
    \/ Resolve(c) \/ Verify(c) \/ Present(c) \/ CheckCurrent(c)
    \/ Find(c) \/ Follow(c) \/ Holder(c) \/ Aim(c)
    \/ Touch(c) \/ Rekey(c) \/ Revoke(c) \/ RevokeAll(c) \/ InvalidateLinks(c)
    \/ InsertAccount(c) \/ InsertLink(c) \/ IssueSession(c)
    \/ Respond(c) \/ Deliver(c) \/ Commit(c) \/ DeadlockVictim(c)

Next ==
    \/ \E c \in Clients : \E req \in Requests : Begin(c, req)
    \/ \E c \in Clients : Serve(c) \/ Interrupt(c)
    \/ Lapse \/ \E a \in Addresses : Disable(a)
    \/ Finished

Spec == Init /\ [][Next]_vars
FairSpec == Spec /\ \A c \in Clients : WF_vars(Serve(c))

-----------------------------------------------------------------------------
(* Every variable keeps the shape of the rows it stands for, and a session  *)
(* or a link belongs to an account, which has the household it founded.     *)
TypeOK ==
    /\ accounts \in [Addresses -> UserAccount \cup {None}]
    /\ households = {a \in Addresses : accounts[a] # None}
    /\ sessions \in [Sessions -> UserSession \cup {None}]
    /\ links \in [Links -> PasswordResetToken \cup {None}]
    /\ \A s \in Sessions : sessions[s] # None => accounts[sessions[s].user] # None
    /\ \A l \in Links : links[l] # None => accounts[links[l].user] # None
    /\ handed \subseteq {SessionRow(s) : s \in Sessions} \cup {LinkRow(l) : l \in Links}
    /\ issued \in 0 .. MaxRequests

(* "A session identifier that the server cannot withdraw" is what a row is  *)
(* for: no session that was revoked and no link that was consumed comes     *)
(* back, whatever was touching or reading it when that was committed.       *)
WithdrawnIsFinal ==
    [][ /\ \A s \in Sessions : sessions[s] # None /\ sessions[s].revoked => sessions'[s].revoked
        /\ \A l \in Links : links[l] # None /\ links[l].consumed => links'[l].consumed ]_vars

Remedies == {"revoke_all", "change", "reset"}

(* "Every row goes, this request's included": when a sign-out everywhere, a *)
(* change of password or a reset is committed, every session its account    *)
(* had when the request looked is revoked, the one that asked first of all. *)
RemediesReachEverySession ==
    [][ \A c \in Clients :
          tx[c].req # None /\ tx[c].req.op \in Remedies /\ tx[c].answered /\ ~tx[c].mail
             /\ tx'[c].req = None /\ stored' # stored
          => \A s \in tx[c].before : sessions'[s].revoked ]_vars

(* A cookie or a link that was revoked, consumed or expired before a        *)
(* request began gets that request nothing.                                 *)
DeadCredentialsOpenNothing ==
    [][ \A c \in Clients : tx[c].late => ~tx'[c].answered ]_vars

(* Every request comes to its end, through every wait for a row.            *)
EveryRequestAnswered == \A c \in Clients : tx[c].req # None ~> tx[c].req = None
=============================================================================
