------------------------------- MODULE Tenancy -------------------------------
(***************************************************************************)
(* How the households of one database are kept apart (infra/db.py, the     *)
(* resolution of a household in api/deps.py, the policies of the migrations*)
(* and the probes of api/main.py and api/routers/health.py).  A request is *)
(* one transaction on a pooled connection; its household is posted there,  *)
(* for that transaction, at the first statement once it is known.  The     *)
(* statements have no WHERE of their own: this module is about what the    *)
(* engine lets through when the application forgets one.                   *)
(* External: PostgreSQL, whose local settings follow its subtransactions,  *)
(* and the balancer that sends traffic to an instance that says it is ready.*)
(***************************************************************************)
EXTENDS Integers, Sequences, FiniteSetsExt

CONSTANTS
    Clients,      \* requests in flight together
    Conns,        \* connections of the pool
    Households,
    Newborn,      \* the household a registration creates
    Requests,     \* what the clients may send: [op, proves, header]
    Public,       \* the owner of a mutualised product
    None,
    MaxRequests,  \* bound: requests issued in the behaviour
    MaxSteps,     \* bound: statements of one request
    MaxDeploys    \* bound: deployments in the behaviour

Owners == Households \cup {Newborn, Public}
Required == 2                            \* REQUIRED_SCHEMA_REVISION of this build
Environments == {"local", "production"}  \* ci is exempt as local is, staging is not
Roles == {"application", "owner"}        \* who the DSN names

(* One row of each kind per owner: a row of a tenant table, a product, of   *)
(* the household or of the catalogue they share, and the household itself.  *)
Rows == {<<"lot", o>> : o \in Owners \ {Public}} \cup {<<"product", o>> : o \in Owners}
            \cup {<<"household", o>> : o \in Owners \ {Public}}

TenancyAssumption ==
    /\ None \notin Conns \cup Households \cup {Newborn, Public} \cup Int
    /\ Public \notin Households \cup {Newborn}
    /\ \A req \in Requests : req.proves \subseteq Households
    /\ None \notin [put : SUBSET Rows, cut : SUBSET Rows]

VARIABLES
    instance,  \* the deployment: [env, role, state]
    reachable, \* the database answers
    revision,  \* the migration it is stamped with, None when it has none
    rows,      \* the committed rows
    guc,       \* chaudron.household_id on each connection, a value per subtransaction
    tx,        \* the request of each client
    issued, deploys

vars == <<instance, reachable, revision, rows, guc, tx, issued, deploys>>

(* ctx: household_id_var; posted: what the session remembers to have posted;*)
(* put, cut: rows inserted and deleted so far, saved: those of the enclosing*)
(* transaction while a savepoint is open.  granted, saw, wrote, whole are   *)
(* kept for the properties.                                                 *)
IdleTx == [phase |-> "idle", req |-> None, conn |-> None, ctx |-> None, posted |-> None,
           put |-> {}, cut |-> {}, saved |-> None, steps |-> 0,
           granted |-> None, saw |-> {}, wrote |-> {}, whole |-> TRUE]

(* A setting that was never made for the session restores to the empty      *)
(* string, which NULLIF reads as no household.                              *)
Unposted == None

Init ==
    /\ instance \in [env : Environments, role : Roles, state : {"stopped"}]
    /\ reachable = TRUE
    /\ revision \in {None, Required - 1, Required}
    /\ rows = {r \in Rows : r[2] # Newborn}
    /\ guc = [n \in Conns |-> <<Unposted>>]
    /\ tx = [c \in Clients |-> IdleTx]
    /\ issued = 0 /\ deploys = 0

Same == UNCHANGED <<instance, reachable, revision, deploys>>
Top(s) == s[Len(s)]

-----------------------------------------------------------------------------
(* The policies.  h is chaudron_current_household(), None when unscoped;    *)
(* the owner of the tables bypasses them (no FORCE ROW LEVEL SECURITY).     *)

Enforced == instance.role = "application"
OwnRow(h, r) == h # None /\ r[2] = h
OwnOrPublicRow(h, r) == h # None /\ r[2] \in {h, Public}

Visible(h, r) ==
    \/ ~Enforced
    \/ r[1] = "household"
    \/ r[1] = "lot" /\ OwnRow(h, r)
    \/ r[1] = "product" /\ OwnOrPublicRow(h, r)

(* Deleting never reaches the shared catalogue, nor another household.      *)
Deletable(h, r) == ~Enforced \/ OwnRow(h, r)

(* WITH CHECK of an insertion.                                              *)
Writable(h, r) == ~Enforced \/ r[1] = "household" \/ Visible(h, r)

-----------------------------------------------------------------------------
(* The session.                                                             *)

View(t) == (rows \ t.cut) \cup t.put
Current(c) == Top(guc[tx[c].conn])

(* The listeners: a statement, or a flush, of a request whose household is  *)
(* known posts it once.  Two households in one transaction are refused.     *)
Pending(t) == IF t.posted = None THEN t.ctx ELSE t.posted
Conflicting(t) == t.ctx # None /\ t.posted \notin {None, t.ctx}

(* set_config(..., is_local => true) at the level that is open.             *)
Posted(s, h) == [s EXCEPT ![Len(s)] = h]

(* A statement of c runs with household h, once what was pending is posted. *)
Scope(c) == IF tx[c].posted = None /\ tx[c].ctx # None THEN tx[c].ctx ELSE Current(c)

Execute(c, t) ==
    /\ guc' = [guc EXCEPT ![tx[c].conn] = Posted(@, Scope(c))]
    /\ tx' = [tx EXCEPT ![c] = [t EXCEPT !.posted = Pending(tx[c]), !.steps = @ + 1]]
    /\ UNCHANGED <<rows, issued>> /\ Same

CanExecute(c) == tx[c].steps < MaxSteps /\ ~Conflicting(tx[c])

(* The end of the transaction: the setting is restored, and forgotten.      *)
(* Mutant: SET in place of SET LOCAL.                                       *)
MutRestored(s) == <<Top(s)>>
Restored(s) == <<Unposted>>

End(c) ==
    /\ guc' = [guc EXCEPT ![tx[c].conn] = Restored(@)]
    /\ tx' = [tx EXCEPT ![c] = IdleTx]
    /\ UNCHANGED issued /\ Same

Rollback(c) == tx[c].phase # "idle" /\ End(c) /\ UNCHANGED rows
Commit(c) ==
    /\ tx[c].phase = "work" /\ tx[c].saved = None
    /\ rows' = View(tx[c])
    /\ End(c)

-----------------------------------------------------------------------------
(* A request: the middleware clears the context, the pool lends a           *)
(* connection, and the credential is read before any household is posted.   *)

Begin(c, req, n) ==
    /\ instance.state = "ready" /\ reachable /\ issued < MaxRequests
    /\ tx[c].phase = "idle" /\ \A d \in Clients : tx[d].conn # n
    /\ issued' = issued + 1
    /\ tx' = [tx EXCEPT ![c] = [IdleTx EXCEPT !.phase = "resolve", !.req = req, !.conn = n]]
    /\ UNCHANGED <<rows, guc>> /\ Same

(* The household a cookie opens: the only one, or the one the header names. *)
Selected(req) ==
    IF req.header = None THEN IF Cardinality(req.proves) = 1 THEN req.proves ELSE {}
    ELSE req.proves \cap {req.header}

Grant(c, h) == [tx[c] EXCEPT !.phase = "work", !.ctx = h, !.granted = h]

(* get_household_id: the memberships come from a definer function, past the *)
(* policies; what is found is written to the context of the request.        *)
ResolveCookie(c) ==
    LET req == tx[c].req
    IN  /\ tx[c].phase = "resolve" /\ req.op \in {"browse", "create", "remove", "erase"}
        /\ \E h \in Selected(req) : tx' = [tx EXCEPT ![c] = Grant(c, h)]
        /\ UNCHANGED <<rows, guc, issued>> /\ Same

(* authenticate, of the feed: a scan of the households, which all may read. *)
ResolveFeed(c) ==
    /\ tx[c].phase = "resolve" /\ tx[c].req.op = "feed"
    /\ \E h \in tx[c].req.proves :
         /\ <<"household", h>> \in {r \in View(tx[c]) : Visible(Current(c), r)}
         /\ tx' = [tx EXCEPT ![c] = Grant(c, h)]
    /\ UNCHANGED <<rows, guc, issued>> /\ Same

(* set_transaction_household: a machine token and an invitation name their  *)
(* household, which is posted at once; the context of a token follows.      *)
ResolveNamed(c) ==
    LET req == tx[c].req
    IN  /\ tx[c].phase = "resolve" /\ req.op \in {"token", "redeem"}
        /\ \E h \in req.proves :
             /\ req.op = "token" => req.header \in {None, h}
             /\ guc' = [guc EXCEPT ![tx[c].conn] = Posted(@, h)]
             /\ tx' = [tx EXCEPT ![c] = [Grant(c, h) EXCEPT !.posted = h,
                                                            !.ctx = IF req.op = "token" THEN h ELSE None]]
        /\ UNCHANGED <<rows, issued>> /\ Same

(* register: the household is inserted, which all may do, and then posted.  *)
Register(c) ==
    /\ tx[c].phase = "resolve" /\ tx[c].req.op = "register" /\ <<"household", Newborn>> \notin rows
    /\ guc' = [guc EXCEPT ![tx[c].conn] = Posted(@, Newborn)]
    /\ tx' = [tx EXCEPT ![c] = [Grant(c, Newborn) EXCEPT !.posted = Newborn, !.ctx = None,
                                                         !.put = {<<"household", Newborn>>}]]
    /\ UNCHANGED <<rows, issued>> /\ Same

(* No membership, several and no choice, a header that is not the token's.  *)
Refuse(c) ==
    /\ tx[c].phase = "resolve"
    /\ \/ tx[c].req.op \in {"browse", "create", "remove", "erase"} /\ Selected(tx[c].req) = {}
       \/ tx[c].req.op = "token" /\ tx[c].req.proves \cap {tx[c].req.header} = {} /\ tx[c].req.header # None
       \/ tx[c].req.op \in {"token", "redeem", "feed"} /\ tx[c].req.proves = {}
       \/ tx[c].req.op = "register" /\ <<"household", Newborn>> \in rows
    /\ Rollback(c)

-----------------------------------------------------------------------------
(* Statements, at any time: also before the household is known.             *)

Working(c) == tx[c].phase \in {"resolve", "work"}

Read(c) ==
    /\ Working(c) /\ CanExecute(c)
    /\ LET seen == {r \in View(tx[c]) : r[1] # "household" /\ Visible(Scope(c), r)}
           own == {r \in View(tx[c]) : r[1] # "household" /\ r[2] = tx[c].granted}
       IN  Execute(c, [tx[c] EXCEPT !.saw = @ \cup {r[2] : r \in seen},
                                    !.whole = @ /\ own \subseteq seen])

(* INSERT, with WITH CHECK; a row of a kind that is there is left alone.    *)
Insert(c, r) ==
    /\ Working(c) /\ CanExecute(c) /\ r[1] # "household" /\ Writable(Scope(c), r)
    /\ Execute(c, [tx[c] EXCEPT !.put = @ \cup {r}, !.cut = @ \ {r}, !.wrote = @ \cup {r[2]}])

(* DELETE: of what the policy shows, and everything of a household with it. *)
Delete(c, kind) ==
    /\ Working(c) /\ CanExecute(c) /\ kind \in {"lot", "product"}
    /\ LET gone == {r \in View(tx[c]) : r[1] = kind /\ Visible(Scope(c), r) /\ Deletable(Scope(c), r)}
       IN  Execute(c, [tx[c] EXCEPT !.put = @ \ gone, !.cut = @ \cup gone, !.wrote = @ \cup {r[2] : r \in gone}])

(* The trigger on the tenant of a product, in either direction.             *)
Movable(r, o) == r[2] = o

(* UPDATE of a product that names another owner: the policies see one row   *)
(* before it and one after it, and would allow a household to claim a row   *)
(* of the catalogue; the error of the trigger ends the request.             *)
Update(c, r, o) ==
    /\ Working(c) /\ CanExecute(c) /\ r[1] = "product" /\ r \in View(tx[c])
    /\ Visible(Scope(c), r) /\ Writable(Scope(c), <<"product", o>>)
    /\ \/ /\ Movable(r, o)
          /\ Execute(c, [tx[c] EXCEPT !.put = (@ \ {r}) \cup {<<"product", o>>}, !.wrote = @ \cup {r[2], o},
                                      !.cut = @ \cup ({r} \ {<<"product", o>>})])
       \/ ~Movable(r, o) /\ Rollback(c)

(* PrivacyService.erase: the tenant is posted once more, then the household *)
(* goes, and the cascade with it.                                           *)
Erase(c) ==
    /\ tx[c].phase = "work" /\ tx[c].req.op = "erase" /\ CanExecute(c)
    /\ LET dead == {r[2] : r \in {q \in View(tx[c]) : q[1] = "household" /\ Deletable(Scope(c), q)}}
           gone == {r \in View(tx[c]) : r[2] \in dead}
       IN  Execute(c, [tx[c] EXCEPT !.put = @ \ gone, !.cut = @ \cup gone, !.wrote = @ \cup dead])

(* begin_nested, in the creation of a place and around a proposal: the      *)
(* SAVEPOINT goes out before anything is flushed, so before the listeners.  *)
(* The lot of a removal has been written by then.                           *)
Savepoint(c) ==
    /\ tx[c].phase = "work" /\ tx[c].saved = None
    /\ \/ tx[c].req.op = "create" /\ tx[c].steps = 0
       \/ tx[c].req.op = "remove" /\ tx[c].wrote # {} /\ tx[c].posted # None
    /\ guc' = [guc EXCEPT ![tx[c].conn] = Append(@, Top(@))]
    /\ tx' = [tx EXCEPT ![c].saved = [put |-> tx[c].put, cut |-> tx[c].cut]]
    /\ UNCHANGED <<rows, issued>> /\ Same

(* Released: what was set inside it stays.                                  *)
Release(c) ==
    LET s == guc[tx[c].conn]
    IN  /\ tx[c].saved # None
        /\ guc' = [guc EXCEPT ![tx[c].conn] = Posted(SubSeq(s, 1, Len(s) - 1), Top(s))]
        /\ tx' = [tx EXCEPT ![c].saved = None]
        /\ UNCHANGED <<rows, issued>> /\ Same

(* Rolled back: what was set inside it is undone, though the session still  *)
(* remembers it.  A place whose name is taken is answered at once, with a   *)
(* 409; a proposal that failed is dropped, and its request goes on.         *)
RollbackTo(c) ==
    LET s == guc[tx[c].conn]
    IN  /\ tx[c].saved # None
        /\ guc' = [guc EXCEPT ![tx[c].conn] = SubSeq(s, 1, Len(s) - 1)]
        /\ tx' = [tx EXCEPT ![c].put = tx[c].saved.put, ![c].cut = tx[c].saved.cut, ![c].saved = None,
                            ![c].phase = IF tx[c].req.op = "create" THEN "refused" ELSE "work"]
        /\ UNCHANGED <<rows, issued>> /\ Same

-----------------------------------------------------------------------------
(* The deployment.                                                          *)

RequiresRowLevelSecurity == instance.env # "local"
Safe == Enforced \/ ~RequiresRowLevelSecurity

(* verify_row_level_security: what cannot be verified may start.            *)
Start ==
    /\ instance.state = "stopped"
    /\ reachable => Safe
    /\ instance' = [instance EXCEPT !.state = "started"]
    /\ UNCHANGED <<reachable, revision, rows, guc, tx, issued, deploys>>

(* Ahead of the build is the middle of a rolling update, and serviceable.   *)
Serviceable == revision # None /\ revision >= Required
(* readyz, which the balancer follows.                                      *)
Ready == reachable /\ Safe /\ Serviceable

Poll ==
    /\ instance.state \in {"started", "ready"}
    /\ instance' = [instance EXCEPT !.state = IF Ready THEN "ready" ELSE "started"]
    /\ UNCHANGED <<reachable, revision, rows, guc, tx, issued, deploys>>

(* The database goes away, with its connections and their transactions.     *)
Lose ==
    /\ deploys < MaxDeploys /\ deploys' = deploys + 1
    /\ reachable' = ~reachable
    /\ guc' = [n \in Conns |-> <<Unposted>>]
    /\ tx' = [c \in Clients |-> IdleTx]
    /\ UNCHANGED <<instance, revision, rows, issued>>

(* Migrations are run beside the instances, one revision after the other.   *)
Migrate ==
    /\ deploys < MaxDeploys /\ deploys' = deploys + 1
    /\ reachable /\ revision # Required + 1
    /\ revision' = IF revision = None THEN Required ELSE revision + 1
    /\ UNCHANGED <<instance, reachable, rows, guc, tx, issued>>

(* Another deployment: the process stops, and its transactions with it.     *)
Deploy ==
    /\ deploys < MaxDeploys /\ deploys' = deploys + 1
    /\ instance' \in [env : {instance.env}, role : Roles, state : {"stopped"}]
    /\ guc' = [n \in Conns |-> <<Unposted>>]
    /\ tx' = [c \in Clients |-> IdleTx]
    /\ UNCHANGED <<reachable, revision, rows, issued>>

(* An instance that would bypass the policies does not start.               *)
Stopped == instance.state = "stopped" /\ reachable /\ ~Safe /\ UNCHANGED vars

Next ==
    \/ \E c \in Clients :
         \/ \E req \in Requests, n \in Conns : Begin(c, req, n)
         \/ ResolveCookie(c) \/ ResolveFeed(c) \/ ResolveNamed(c) \/ Register(c) \/ Refuse(c)
         \/ Read(c) \/ (\E r \in Rows : Insert(c, r))
         \/ (\E r \in Rows, o \in Owners : Update(c, r, o)) \/ (\E kind \in {"lot", "product"} : Delete(c, kind))
         \/ Erase(c) \/ Savepoint(c) \/ Release(c) \/ RollbackTo(c)
         \/ Commit(c) \/ Rollback(c)
    \/ Start \/ Poll \/ Lose \/ Migrate \/ Deploy \/ Stopped

Spec == Init /\ [][Next]_vars

-----------------------------------------------------------------------------
TypeOK ==
    /\ instance \in [env : Environments, role : Roles, state : {"stopped", "started", "ready"}]
    /\ rows \subseteq Rows
    /\ \A n \in Conns : Len(guc[n]) \in 1..2

(* Whatever its statements ask, and whichever request held the connection   *)
(* before, a request of a deployment that carries real data reads and       *)
(* writes rows of one household, one its credential proves, and of the      *)
(* shared catalogue; before that household is known it reaches nothing; and *)
(* once it is known, what it reads of it is complete.  Nothing takes a row  *)
(* out of the shared catalogue.  And in every environment, no request meets *)
(* a schema older than the build.                                           *)
RequestsReachTheirHousehold ==
    \A c \in Clients :
        LET t == tx[c]
        IN  t.phase # "idle" =>
              /\ Serviceable
              /\ RequiresRowLevelSecurity =>
                    /\ t.saw \cup t.wrote \subseteq
                          (IF t.granted = None THEN {} ELSE {t.granted, Public})
                    /\ t.granted \in t.req.proves \cup {None, Newborn}
                    /\ t.whole
                    /\ <<"product", Public>> \notin t.cut
=============================================================================
