------------------------------ MODULE Providers ------------------------------
(***************************************************************************)
(* The model provider of one household: its configurations, the consent    *)
(* each carries, what a probe found its model able to do, and the requests *)
(* that use it for recipes and receipts (services/providers.py,            *)
(* api/routers/providers.py).  A request reads the row without a lock, may *)
(* interrogate an endpoint for a long while, and then writes only the      *)
(* columns it changed; nothing is tested again.  One request is one READ   *)
(* COMMITTED transaction.  Labels, views and prices are left out; sealing  *)
(* a key is the key itself here.                                           *)
(***************************************************************************)
EXTENDS Integers

CONSTANTS
    Clients,       \* requests that can be in flight together
    Configs,       \* numbers, in the order of creation (bound: ever created)
    Endpoints,     \* the base URLs an Ollama may answer at
    Models, Sees,  \* the models, and those of them that read images
    Keys,
    OwnsInstance,  \* this household is the one that may spend the operator's key
    Existing,      \* what the household may have configured at the start, or None
    Requests,      \* the requests the clients may send
    None,
    MaxRequests    \* bound: requests issued and names pointed elsewhere

Modes == {"ollama", "byok", "instance_owner"}
Uses == {"status", "recipes", "receipts"}
Edits == {"update", "archive", "grant", "withdraw", "probe"}

(* config: the row a route names; granted: the box is ticked; disabled: the *)
(* switch of an update, or None.                                            *)
Request == [op : Uses \cup Edits \cup {"create"}, config : Configs \cup {None}, mode : Modes,
            url : Endpoints \cup {None}, model : Models \cup {None}, key : Keys \cup {None},
            granted : BOOLEAN, disabled : {"yes", "no", None}]

(* of: the <<url, model>> the capability columns were established for.      *)
LlmProviderConfig ==
    [mode : Modes, url : Endpoints \cup {None}, model : Models, key : Keys \cup {None},
     of : (Endpoints \cup {None}) \X Models, status : {"unverified", "verified", "disabled"},
     consented : BOOLEAN, revoked : BOOLEAN, archived : BOOLEAN]

ProvidersAssumption ==
    /\ Configs \subseteq Nat \ {0} /\ Sees \subseteq Models /\ OwnsInstance \in BOOLEAN
    /\ Requests \subseteq Request /\ MaxRequests \in Nat
    /\ \A req \in Requests : req.op = "create" => req.model # None
    /\ Existing \subseteq LlmProviderConfig \cup {None}
    /\ None \notin Clients \cup Configs \cup Endpoints \cup Models \cup Keys \cup LlmProviderConfig
    /\ None \notin {"consent_revoked", "consent_missing", "disabled"}

VARIABLES
    configs,   \* [Configs -> LlmProviderConfig \cup {None}], committed
    local,     \* the endpoints whose name resolves to the household's network
    barred,    \* the configurations a request has known unpermitted since it began
    tx, reply, issued

vars == <<configs, local, barred, tx, reply, issued>>

-----------------------------------------------------------------------------
(* step: where it stands; row: the configuration as it was read; set: the   *)
(* columns it changes, or the whole row of a creation.                      *)
IdleTx == [step |-> "idle", req |-> None, config |-> None, row |-> None, set |-> <<>>, own |-> {}]

Init ==
    /\ \E row \in Existing : configs = [k \in Configs |-> IF k = 1 THEN row ELSE None]
    /\ local \in SUBSET Endpoints
    /\ barred = [c \in Clients |-> {}]
    /\ tx = [c \in Clients |-> IdleTx]
    /\ reply = [c \in Clients |-> None]
    /\ issued = 0

Go(c, t) == tx' = [tx EXCEPT ![c] = t] /\ UNCHANGED <<configs, local, barred, reply, issued>>
Rollback(c, outcome) ==
    /\ tx' = [tx EXCEPT ![c] = IdleTx]
    /\ reply' = [reply EXCEPT ![c] = outcome]
    /\ UNCHANGED <<configs, local, barred, issued>>

LiveConfigs == {k \in Configs : configs[k] # None /\ ~configs[k].archived}

(* A household's own machine receives no transmission: the exemption is the *)
(* endpoint's and not the mode's, and its verdict is taken at every load.   *)
EndpointIsLocal(url) == url \in local
Exempt(row) == row.mode = "ollama" /\ EndpointIsLocal(row.url)

(* A withdrawal is honoured before the exemption is considered.             *)
ConsentRefusal(row) ==
    IF row.revoked THEN "consent_revoked"
    ELSE IF row.consented \/ Exempt(row) THEN None ELSE "consent_missing"

Refusal(row) ==
    IF ConsentRefusal(row) # None THEN ConsentRefusal(row)
    ELSE IF row.status = "disabled" THEN "disabled" ELSE None

(* The configurations whose household has said no, or was never asked.      *)
Unpermitted ==
    {k \in Configs : configs[k] # None /\
        \/ configs[k].revoked \/ configs[k].archived
        \/ ~configs[k].consented /\ ~Exempt(configs[k])}

(* What was unpermitted all along since each request began.                 *)
StillBarred == barred' = [c \in Clients |-> barred[c] \cap Unpermitted']

Begin(c, req) ==
    /\ tx[c].step = "idle" /\ issued < MaxRequests
    /\ tx' = [tx EXCEPT ![c] = [IdleTx EXCEPT !.req = req, !.step = "load"]]
    /\ barred' = [barred EXCEPT ![c] = Unpermitted]
    /\ reply' = [reply EXCEPT ![c] = None]
    /\ issued' = issued + 1
    /\ UNCHANGED <<configs, local>>

-----------------------------------------------------------------------------
(* Creating.                                                                *)
(* The mode decides what the other fields may be.                           *)
Coherent(req) ==
    CASE req.mode = "ollama" -> req.url # None /\ req.key = None
      [] req.mode = "byok" -> req.url = None /\ req.key # None
      [] req.mode = "instance_owner" -> req.url = None /\ req.key = None /\ OwnsInstance

NeedsConsent(req) == req.mode # "ollama" \/ ~EndpointIsLocal(req.url)

(* What is known of a model nobody called: the table of the adapter.        *)
Declared(req) ==
    [mode |-> req.mode, url |-> req.url, model |-> req.model, key |-> req.key,
     of |-> <<req.url, req.model>>, status |-> "unverified",
     consented |-> req.granted, revoked |-> FALSE, archived |-> FALSE]

(* Every refusal comes before the probe and before anything is written.     *)
Create(c) ==
    LET t == tx[c]
    IN  /\ t.step = "load" /\ t.req.op = "create"
        /\ IF LiveConfigs # {} THEN Rollback(c, "already_exists")
           ELSE IF ~Coherent(t.req) THEN Rollback(c, "invalid")
           ELSE IF NeedsConsent(t.req) /\ ~t.req.granted THEN Rollback(c, "consent_required")
           ELSE Go(c, [t EXCEPT !.set = Declared(t.req),
                                !.step = IF t.req.mode = "ollama" THEN "probe" ELSE "insert"])

LiveKey == 0  \* uq_llm_provider_config_household_active
Unused == {k \in Configs : configs[k] = None /\ \A d \in Clients : tx[d].config # k}
Fresh == {k \in Unused : \A j \in Unused : k <= j}

(* The unique index, when the INSERT reaches it.                            *)
Taken == LiveConfigs # {}

(* An INSERT waits for whoever is writing a live row, or has inserted one.  *)
Needs(c) ==
    IF tx[c].step = "insert" THEN {LiveKey} \cup LiveConfigs
    ELSE IF tx[c].step = "write" THEN {tx[c].config} ELSE {}
Free(c) == \A d \in Clients \ {c} : Needs(c) \cap tx[d].own = {}

Insert(c) ==
    /\ tx[c].step = "insert" /\ Free(c)
    /\ IF Taken THEN Rollback(c, "already_exists")
       ELSE \E k \in Fresh : Go(c, [tx[c] EXCEPT !.config = k, !.own = {LiveKey}, !.step = "ready"])

-----------------------------------------------------------------------------
(* Editing.                                                                 *)
Over(set, row) == [f \in DOMAIN set \cup DOMAIN row |-> IF f \in DOMAIN set THEN set[f] ELSE row[f]]
Changes(row, set) == [f \in {f \in DOMAIN set : set[f] # row[f]} |-> set[f]]

Retire == [archived |-> TRUE, status |-> "disabled"]
Grant(row) == IF ~row.consented \/ row.revoked THEN [consented |-> TRUE, revoked |-> FALSE] ELSE <<>>
Withdraw == [revoked |-> TRUE]

(* What an update asks for: absent means "leave this alone".                *)
Asked(req) ==
    Over(Over(IF req.model = None THEN <<>> ELSE [model |-> req.model],
              IF req.url = None THEN <<>> ELSE [url |-> req.url]),
         Over(IF req.key = None THEN <<>> ELSE [key |-> req.key],
              IF req.disabled = "yes" THEN [status |-> "disabled"]
              ELSE IF req.disabled = "no" \/ req.key # None THEN [status |-> "unverified"] ELSE <<>>))

Reprobes(req, row) ==
    row.mode = "ollama" /\ (req.op = "probe" \/ req.url # None \/ req.model # None)

Update(req, row) ==
    IF req.model # None /\ row.mode # "ollama"
    THEN Over([of |-> <<None, req.model>>], Asked(req)) ELSE Asked(req)

Refused(req, row) ==
    \/ req.op = "update" /\ req.url # None /\ row.mode # "ollama"
    \/ req.op = "update" /\ req.key # None /\ row.mode # "byok"
    \/ req.op = "probe" /\ row.mode # "ollama"
    \/ req.op = "withdraw" /\ ~row.consented

Edit(req, row) ==
    CASE req.op = "archive" -> Retire [] req.op = "grant" -> Grant(row)
      [] req.op = "withdraw" -> Withdraw [] req.op = "update" -> Update(req, row)
      [] req.op = "probe" -> <<>>

(* The live row is read, changed in memory, and what is the same again is   *)
(* not written.                                                             *)
Active(c) ==
    LET t == tx[c]
        k == t.req.config
        row == configs[k]
        set == Changes(row, Edit(t.req, row))
    IN  /\ t.step = "load" /\ t.req.op \in Edits
        /\ IF k \notin LiveConfigs THEN Rollback(c, "not_found")
           ELSE IF Refused(t.req, row) THEN Rollback(c, "invalid")
           ELSE Go(c, [t EXCEPT !.config = k, !.row = row, !.set = set,
                                !.step = IF Reprobes(t.req, row) THEN "probe"
                                         ELSE IF DOMAIN set = {} THEN "ready" ELSE "write"])

(* The endpoint is asked what its model does, as the request sees the row.  *)
ApplyProbe(c) ==
    LET t == tx[c]
        new == t.req.op = "create"
        seen == IF new THEN t.set ELSE Over(t.set, t.row)
        found == Over([of |-> <<seen.url, seen.model>>, status |-> "verified"], t.set)
    IN  /\ t.step = "probe"
        /\ \/ Rollback(c, "probe_failed")
           \/ Go(c, [t EXCEPT !.set = IF new THEN found ELSE Changes(t.row, found),
                              !.step = IF new THEN "insert" ELSE "write"])

(* UPDATE ... WHERE id = ...: the row is locked, and nothing is tested.     *)
Write(c) ==
    /\ tx[c].step = "write" /\ Free(c)
    /\ Go(c, [tx[c] EXCEPT !.own = {tx[c].config}, !.step = "ready"])

-----------------------------------------------------------------------------
(* Using.                                                                   *)
(* The live row and its refusals, in one reading.                           *)
Load(c) ==
    LET t == tx[c]
        k == CHOOSE k \in LiveConfigs : TRUE
    IN  /\ t.step = "load" /\ t.req.op \in Uses
        /\ IF LiveConfigs = {} THEN Rollback(c, "not_configured")
           ELSE IF Refusal(configs[k]) # None THEN Rollback(c, Refusal(configs[k]))
           ELSE Go(c, [t EXCEPT !.config = k, !.row = configs[k], !.step = "key"])

(* The sealed key of a household is read by a query of its own, from the    *)
(* same row as it now is; only an image needs a model that sees.            *)
SealedCredential(c) ==
    LET t == tx[c]
    IN  /\ t.step = "key"
        /\ IF t.req.op = "status" THEN Go(c, [t EXCEPT !.step = "ready"])
           ELSE IF t.req.op = "receipts" /\ t.row.of[2] \notin Sees
           THEN Rollback(c, "vision_unavailable")
           ELSE Go(c, [t EXCEPT !.row.key = configs[t.config].key, !.step = "send"])

(* What the household eats leaves for the provider, and an answer or an     *)
(* error comes back.                                                        *)
Transmit(c) ==
    /\ tx[c].step = "send"
    /\ \/ Go(c, [tx[c] EXCEPT !.step = "ready"])
       \/ Rollback(c, "provider_failed")

-----------------------------------------------------------------------------
(* Mutant: the row is written back whole, as it was read and changed.       *)
MutRowAfterWhole(t) == IF t.req.op = "create" THEN t.set ELSE Over(t.set, t.row)

(* Only the columns that changed are written, over whatever is there.       *)
RowAfter(t) == IF t.req.op = "create" THEN t.set ELSE Over(t.set, configs[t.config])

Commit(c) ==
    LET t == tx[c]
    IN  /\ t.step = "ready"
        /\ configs' = IF t.own = {} THEN configs ELSE [configs EXCEPT ![t.config] = RowAfter(t)]
        /\ tx' = [tx EXCEPT ![c] = IdleTx]
        /\ reply' = [reply EXCEPT ![c] = "ok"]
        /\ UNCHANGED <<local, issued>>
        /\ StillBarred

(* The connection is lost or the process stops, before the commit.          *)
Interrupt(c) == tx[c].step # "idle" /\ Rollback(c, "interrupted")

(* A name is pointed elsewhere, in a resolver nobody here controls.         *)
Repoint(url) ==
    /\ issued < MaxRequests /\ issued' = issued + 1
    /\ local' = IF url \in local THEN local \ {url} ELSE local \cup {url}
    /\ UNCHANGED <<configs, tx, reply>>
    /\ StillBarred

Finished ==
    /\ issued = MaxRequests /\ \A c \in Clients : tx[c].step = "idle"
    /\ UNCHANGED vars

Next ==
    \/ \E c \in Clients : \E req \in Requests : Begin(c, req)
    \/ \E c \in Clients :
          \/ Create(c) \/ Insert(c) \/ Active(c) \/ ApplyProbe(c) \/ Write(c)
          \/ Load(c) \/ SealedCredential(c) \/ Transmit(c) \/ Commit(c) \/ Interrupt(c)
    \/ \E url \in Endpoints : Repoint(url)
    \/ Finished

Spec == Init /\ [][Next]_vars

-----------------------------------------------------------------------------
(* Every variable keeps the shape of the rows it stands for.                *)
TypeOK ==
    /\ configs \in [Configs -> LlmProviderConfig \cup {None}]
    /\ local \subseteq Endpoints
    /\ barred \in [Clients -> SUBSET Configs]
    /\ issued \in 0 .. MaxRequests

(* "Read on every load rather than cached, so a withdrawal takes effect at  *)
(* the next request": what was withdrawn, archived or never agreed to when  *)
(* a request began, and is so still, is not what it transmits to.           *)
WithdrawalReachesTheNextRequest ==
    \A c \in Clients : tx[c].step = "send" => tx[c].config \notin barred[c]

(* A withdrawal is undone by a new agreement and by nothing else, and no    *)
(* route leads out of the archive: not an edit, not a probe that took its   *)
(* time, not a key stored from a screen opened before.                      *)
RecordsAreKept ==
    [][ \A k \in Configs : configs[k] # None =>
          /\ configs'[k] # None
          /\ configs[k].archived => configs'[k].archived
          /\ configs[k].revoked /\ ~configs'[k].revoked
             => \E c \in Clients : tx[c].step = "ready" /\ tx[c].req.op = "grant" ]_vars
=============================================================================
