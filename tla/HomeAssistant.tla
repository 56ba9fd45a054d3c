---------------------------- MODULE HomeAssistant ----------------------------
(***************************************************************************)
(* The Home Assistant integration: one entry holds the credential of one   *)
(* household, its coordinator polls the instance through four requests,    *)
(* and a to-do list writes the shopping list back (coordinator.py, api.py, *)
(* todo.py, sensor.py, config_flow.py).                                    *)
(*                                                                         *)
(* Every request is awaited, so that the household, the other coroutine    *)
(* and the calendar move between two of them.  What Home Assistant itself  *)
(* does is modelled from how the integration relies on it: one refresh at  *)
(* a time, a set-up that fails is tried again with a new coordinator, and  *)
(* polls stop once re-authentication is asked for.  Home Assistant and the *)
(* household are taken to live by one calendar.                            *)
(***************************************************************************)
EXTENDS Integers, FiniteSets

CONSTANTS
    Lots,        \* identifiers of lots: integers, in the order of the instance
    Items,       \* identifiers of lines of the shopping list, integers
    Tokens, Holds,   \* machine tokens, and Tokens -> the scopes each was minted with
    Urls,        \* addresses of the instance
    Dues,        \* effective dates of the lots
    Withins,     \* values of expiring_within_days
    Currencies,  \* currencies of receipts
    None,
    PageSize, MaxPages,   \* INVENTORY_PAGE_SIZE, MAX_INVENTORY_PAGES
    LastDay,     \* bound: last day of the behaviour
    MaxChanges,  \* bound: changes by the household
    MaxFaults,   \* bound: requests that are limited or whose answer is lost
    MaxEdits,    \* bound: edits of the to-do list
    MaxFlows     \* bound: forms filled in

VARIABLES
    today,
    lots,        \* Lots -> due date, or None when there is none left
    list,        \* Items -> "unborn", "open", "ticked", "gone"
    live,        \* the tokens that are not revoked
    spent,       \* the currencies spent in this month
    entry,       \* [url, token, unique_id, within, state, reauth]
    coordinator, \* [data, shopping, budget, granted, held, ok, wanted]
    entities,    \* [todo, editable, spends], decided when the entry is set up
    poll,        \* the refresh in flight
    edit,        \* the edit of the to-do list in flight
    form,        \* how the last form ended
    changes, faults, edits, forms

instance == <<today, lots, list, live, spent, changes>>
assistant == <<entry, coordinator, entities, poll>>
vars == <<instance, assistant, edit, form, faults, edits, forms>>

(***************************************************************************)
(* The instance, as the requests see it                                    *)
(***************************************************************************)
InStock == {l \in Lots : lots[l] # None}

(* The filter has a horizon and no floor; the soonest first.                *)
Expiring(within) == {l \in InStock : lots[l] <= today + within}
Before(k, l) == lots[k] < lots[l] \/ (lots[k] = lots[l] /\ k < l)
Page(within, n) ==
    {l \in Expiring(within) :
        Cardinality({k \in Expiring(within) : Before(k, l)}) \in n * PageSize .. (n + 1) * PageSize - 1}

(* A revoked token is refused before its scopes are looked at.              *)
Answers(token, scope) ==
    {IF token \notin live THEN "unauthorized"
     ELSE IF scope \notin Holds[token] THEN "forbidden" ELSE "ok"}
    \cup (IF faults < MaxFaults THEN {"limited", "lost"} ELSE {})

Counted(answer) == faults' = IF answer \in {"limited", "lost"} THEN faults + 1 ELSE faults

(***************************************************************************)
(* Setting up an entry                                                     *)
(***************************************************************************)
Resting == [step |-> "idle", count |-> 0, page |-> 0, lots |-> {}, truncated |-> FALSE, shopping |-> None]

Fresh == [data |-> None, shopping |-> TRUE, budget |-> TRUE, granted |-> {},
          held |-> FALSE, ok |-> TRUE, wanted |-> FALSE]

NoEntities == [todo |-> FALSE, editable |-> FALSE, spends |-> {}]

(* Mutant: the coordinator of the former token goes on.                     *)
MutSetupKeepsCoordinator ==
    /\ entry.state = "down" /\ ~entry.reauth
    /\ entry' = [entry EXCEPT !.state = "setup"]
    /\ poll' = [Resting EXCEPT !.step = "count"]
    /\ UNCHANGED <<instance, coordinator, entities, edit, form, faults, edits, forms>>

(* The first refresh belongs to the set-up.                                 *)
Setup ==
    /\ entry.state = "down" /\ ~entry.reauth
    /\ entry' = [entry EXCEPT !.state = "setup"]
    /\ coordinator' = Fresh
    /\ poll' = [Resting EXCEPT !.step = "count"]
    /\ UNCHANGED <<instance, entities, edit, form, faults, edits, forms>>

(* Offered until a refusal has named what the token holds.                  *)
CanEdit(c) == c.shopping /\ (c.granted = {} \/ "write" \in c.granted)

(***************************************************************************)
(* A refresh                                                               *)
(***************************************************************************)
(* Asked for by the interval or by an edit; while the instance asked to     *)
(* wait, the last reading is given again.                                   *)
Refresh ==
    /\ entry.state = "loaded" /\ poll.step = "idle" /\ (~entry.reauth \/ coordinator.wanted)
    /\ IF coordinator.held
       THEN /\ coordinator' = [coordinator EXCEPT !.ok = TRUE, !.wanted = FALSE]
            /\ UNCHANGED poll
       ELSE /\ coordinator' = [coordinator EXCEPT !.wanted = FALSE]
            /\ poll' = [Resting EXCEPT !.step = "count"]
    /\ UNCHANGED <<instance, entry, entities, edit, form, faults, edits, forms>>

(* Retry-After has passed.                                                  *)
HoldEnds ==
    /\ coordinator.held /\ coordinator' = [coordinator EXCEPT !.held = FALSE]
    /\ UNCHANGED <<instance, entry, entities, poll, edit, form, faults, edits, forms>>

(* Split by the date of Home Assistant.                                     *)
Snapshot(p, budget) ==
    [count |-> p.count,
     expired |-> {f.lot : f \in {g \in p.lots : g.due < today}},
     soon |-> {f.lot : f \in {g \in p.lots : g.due >= today}},
     truncated |-> p.truncated, shopping |-> p.shopping, budget |-> budget]

(* A sensor for each currency of the first refresh: one that comes later    *)
(* has none until the entry is set up again.                                *)
Finish(p, c, budget) ==
    /\ coordinator' = [c EXCEPT !.data = Snapshot(p, budget), !.held = FALSE, !.ok = TRUE]
    /\ poll' = Resting
    /\ IF entry.state = "setup"
       THEN /\ entry' = [entry EXCEPT !.state = "loaded"]
            /\ entities' = [todo |-> c.shopping, editable |-> CanEdit(c),
                            spends |-> IF budget = None THEN {} ELSE budget]
       ELSE UNCHANGED <<entry, entities>>

(* A surface the token was found not to open is not asked for again.        *)
AfterShopping(p, c) ==
    IF c.budget
    THEN /\ poll' = [p EXCEPT !.step = "budget"] /\ coordinator' = c
         /\ UNCHANGED <<entry, entities>>
    ELSE Finish(p, c, None)

AfterExpiring(p) ==
    IF coordinator.shopping
    THEN poll' = [p EXCEPT !.step = "shopping"] /\ UNCHANGED <<entry, coordinator, entities>>
    ELSE AfterShopping(p, coordinator)

Fail(answer) ==
    /\ poll' = Resting
    /\ coordinator' = [coordinator EXCEPT !.ok = FALSE, !.held = @ \/ answer = "limited"]
    /\ entry' = [entry EXCEPT !.reauth = @ \/ answer = "unauthorized",
                              !.state = IF @ = "setup" THEN "down" ELSE @]
    /\ UNCHANGED entities

AskCount ==
    /\ poll.step = "count"
    /\ \E answer \in Answers(entry.token, "inventory") :
         /\ IF answer = "ok"
            THEN /\ poll' = [poll EXCEPT !.step = "expiring", !.count = Cardinality(InStock)]
                 /\ UNCHANGED <<entry, coordinator, entities>>
            ELSE Fail(answer)
         /\ Counted(answer)
    /\ UNCHANGED <<instance, edit, form, edits, forms>>

(* Pages by offset, until all are in hand, a page is short or enough were   *)
(* turned; the list may have moved between two pages.                       *)
AskExpiring ==
    /\ poll.step = "expiring"
    /\ \E answer \in Answers(entry.token, "inventory") :
         LET batch == Page(entry.within, poll.page)
             total == Cardinality(Expiring(entry.within))
             p == [poll EXCEPT !.lots = @ \cup {[lot |-> l, page |-> poll.page, due |-> lots[l]] : l \in batch}]
             more == Cardinality(p.lots) < total /\ Cardinality(batch) = PageSize
         IN  /\ IF answer # "ok" THEN Fail(answer)
                ELSE IF more /\ poll.page + 1 < MaxPages
                THEN /\ poll' = [p EXCEPT !.page = @ + 1]
                     /\ UNCHANGED <<entry, coordinator, entities>>
                ELSE AfterExpiring([p EXCEPT !.truncated = more])
             /\ Counted(answer)
    /\ UNCHANGED <<instance, edit, form, edits, forms>>

AskShopping ==
    /\ poll.step = "shopping"
    /\ \E answer \in Answers(entry.token, "shopping") :
         /\ IF answer = "ok" THEN AfterShopping([poll EXCEPT !.shopping = list], coordinator)
            ELSE IF answer = "forbidden"
            THEN AfterShopping(poll, [coordinator EXCEPT !.shopping = FALSE, !.granted = Holds[entry.token]])
            ELSE Fail(answer)
         /\ Counted(answer)
    /\ UNCHANGED <<instance, edit, form, edits, forms>>

AskBudget ==
    /\ poll.step = "budget"
    /\ \E answer \in Answers(entry.token, "budget") :
         /\ IF answer = "ok" THEN Finish(poll, coordinator, spent)
            ELSE IF answer = "forbidden"
            THEN Finish(poll, [coordinator EXCEPT !.budget = FALSE, !.granted = Holds[entry.token]], None)
            ELSE Fail(answer)
         /\ Counted(answer)
    /\ UNCHANGED <<instance, edit, form, edits, forms>>

(***************************************************************************)
(* The to-do list                                                          *)
(***************************************************************************)
NoEdit == [op |-> "none", items |-> {}, to |-> None, token |-> None, current |-> TRUE, reply |-> None]

Shown(i) == coordinator.data.shopping[i] \in {"open", "ticked"}

(* Home Assistant offers what the entity declares, while it is available.   *)
Editing ==
    /\ entry.state = "loaded" /\ entities.todo /\ entities.editable /\ coordinator.ok
    /\ coordinator.data.shopping # None
    /\ edit.op = "none" /\ edits < MaxEdits
    /\ edits' = edits + 1
    /\ UNCHANGED <<instance, assistant, form, faults, forms>>

Calling(op, items, to) ==
    [op |-> op, items |-> items, to |-> to, token |-> entry.token, current |-> TRUE, reply |-> None]

(* An edit that changes nothing of what is shown is not sent.               *)
TickTodo(i, to) ==
    /\ Editing /\ Shown(i)
    /\ edit' = IF coordinator.data.shopping[i] = to
               THEN [NoEdit EXCEPT !.reply = "done"] ELSE Calling("tick", {i}, to)

CreateTodo == Editing /\ edit' = Calling("create", {}, "open")

(* Any lines, the ticked ones in particular.                                *)
DeleteTodo == Editing /\ \E items \in SUBSET {i \in Items : Shown(i)} :
                            items # {} /\ edit' = Calling("delete", items, "gone")

Unborn == {i \in Items : list[i] = "unborn"}
First(items) == CHOOSE i \in items : \A j \in items : i <= j

(* What the instance makes of a request, and whether it agrees.             *)
Applied(target) ==
    IF edit.op = "create" THEN [list EXCEPT ![First(Unborn)] = "open"]
    ELSE IF list[target] \in {"open", "ticked"} THEN [list EXCEPT ![target] = edit.to] ELSE list
Agreed(target) == edit.op = "create" \/ list[target] \in {"open", "ticked"}

Stop(reply) == edit' = [NoEdit EXCEPT !.reply = reply] /\ UNCHANGED coordinator

(* One request after the other; the first refusal ends the edit, and only   *)
(* an edit that went through asks for a refresh.  An answer that is lost    *)
(* says nothing of what was done.                                           *)
AskEdit ==
    /\ edit.op # "none" /\ (edit.op = "create" => Unborn # {})
    /\ \E answer \in Answers(edit.token, "write") :
         LET target == IF edit.op = "create" THEN None ELSE First(edit.items)
         IN  /\ \/ answer \in {"ok", "lost"} /\ list' = Applied(target)
                \/ answer # "ok" /\ UNCHANGED list
             /\ IF answer # "ok" \/ ~Agreed(target) THEN Stop("failed")
                ELSE IF edit.items \ {target} # {}
                THEN edit' = [edit EXCEPT !.items = @ \ {target}] /\ UNCHANGED coordinator
                ELSE /\ edit' = [NoEdit EXCEPT !.reply = "done"]
                     /\ coordinator' = [coordinator EXCEPT !.wanted = @ \/ edit.current]
             /\ Counted(answer)
    /\ UNCHANGED <<today, lots, live, spent, changes, entry, entities, poll, form, edits, forms>>

(***************************************************************************)
(* The forms                                                               *)
(***************************************************************************)
(* What is stored and what tells entries apart: the digest of address and   *)
(* token.                                                                   *)
Fingerprint(url, token) == <<url, token>>

(* GET /v1/locations, before anything is stored.                            *)
Validated(token) == token \in live /\ "inventory" \in Holds[token]

Filled(kind, url, token, result) ==
    /\ forms < MaxFlows /\ forms' = forms + 1
    /\ form' = [kind |-> kind, url |-> url, token |-> token, result |-> result]
    /\ UNCHANGED <<instance, faults, edits>>

(* The entities go, and the entry is set up again; an edit in flight holds  *)
(* on to the old coordinator.                                               *)
Reload(e) ==
    /\ entry' = [e EXCEPT !.state = "down", !.reauth = FALSE]
    /\ entities' = NoEntities /\ poll' = Resting
    /\ UNCHANGED coordinator
    /\ edit' = [edit EXCEPT !.current = edit.op = "none"]

Refused(kind, url, token, result) == Filled(kind, url, token, result) /\ UNCHANGED <<assistant, edit>>

AddEntry(url, token) ==
    IF ~Validated(token) THEN Refused("user", url, token, "refused")
    ELSE IF entry.unique_id = Fingerprint(url, token) THEN Refused("user", url, token, "already_configured")
    ELSE /\ entry.state = "absent" /\ Filled("user", url, token, "done")
         /\ Reload([entry EXCEPT !.url = url, !.token = token, !.unique_id = Fingerprint(url, token)])

(* The address is kept, and the identifier follows the credential.          *)
Reauthenticate(token) ==
    /\ entry.reauth
    /\ IF ~Validated(token) THEN Refused("reauth", entry.url, token, "refused")
       ELSE /\ Filled("reauth", entry.url, token, "done")
            /\ Reload([entry EXCEPT !.token = token, !.unique_id = Fingerprint(entry.url, token)])

(* The identifier of what was typed is compared with that of the entry.     *)
Reconfigure(url, token) ==
    /\ entry.state # "absent"
    /\ IF ~Validated(token) THEN Refused("reconfigure", url, token, "refused")
       ELSE IF entry.unique_id # Fingerprint(url, token)
       THEN Refused("reconfigure", url, token, "already_configured")
       ELSE /\ Filled("reconfigure", url, token, "done")
            /\ Reload([entry EXCEPT !.url = url, !.token = token])

SetOptions(within) ==
    /\ entry.state # "absent" /\ within # entry.within
    /\ Filled("options", entry.url, entry.token, "done")
    /\ IF entry.reauth /\ entry.state = "down"
       THEN entry' = [entry EXCEPT !.within = within] /\ UNCHANGED <<coordinator, entities, poll, edit>>
       ELSE Reload([entry EXCEPT !.within = within])

(***************************************************************************)
(* The household                                                           *)
(***************************************************************************)
Change ==
    /\ changes < MaxChanges /\ changes' = changes + 1
    /\ \/ \E l \in Lots, due \in Dues \cup {None} :
            /\ lots[l] # due /\ lots' = [lots EXCEPT ![l] = due]
            /\ UNCHANGED <<list, live, spent>>
       \/ \E i \in Items : \E to \in {"open", "ticked", "gone"} :
            /\ list[i] \in {"open", "ticked"} /\ list[i] # to /\ list' = [list EXCEPT ![i] = to]
            /\ UNCHANGED <<lots, live, spent>>
       \/ \E t \in live : live' = live \ {t} /\ UNCHANGED <<lots, list, spent>>
       \/ \E c \in Currencies : /\ spent' \in {spent \ {c}, spent \cup {c}} \ {spent}
                                /\ UNCHANGED <<lots, list, live>>
    /\ UNCHANGED <<today, assistant, edit, form, faults, edits, forms>>

Midnight == /\ today < LastDay /\ today' = today + 1
            /\ UNCHANGED <<lots, list, live, spent, changes, assistant, edit, form, faults, edits, forms>>

Init ==
    /\ today = 0 /\ lots \in [Lots -> Dues \cup {None}]
    /\ list = [i \in Items |-> IF i = First(Items) THEN "open" ELSE "unborn"]
    /\ live = Tokens /\ spent = {}
    /\ entry = [url |-> None, token |-> None, unique_id |-> None, within |-> First(Withins),
                state |-> "absent", reauth |-> FALSE]
    /\ coordinator = Fresh /\ entities = NoEntities /\ poll = Resting
    /\ edit = NoEdit /\ form = None
    /\ changes = 0 /\ faults = 0 /\ edits = 0 /\ forms = 0

Polling == Setup \/ Refresh \/ AskCount \/ AskExpiring \/ AskShopping \/ AskBudget

Next ==
    \/ Polling \/ HoldEnds \/ AskEdit \/ CreateTodo \/ DeleteTodo \/ Change \/ Midnight
    \/ \E i \in Items, to \in {"open", "ticked"} : TickTodo(i, to)
    \/ \E u \in Urls, t \in Tokens : AddEntry(u, t) \/ Reconfigure(u, t)
    \/ \E t \in Tokens : Reauthenticate(t)
    \/ \E w \in Withins : SetOptions(w)

Spec == Init /\ [][Next]_vars

(* Home Assistant sets up, refreshes and goes on with what it awaits, and   *)
(* the wait that was asked for passes.                                      *)
Fairness == WF_vars(Polling) /\ WF_vars(HoldEnds) /\ WF_vars(AskEdit)

(***************************************************************************)
(* Properties                                                              *)
(***************************************************************************)
Published ==
    LET seen == UNION {Page(entry.within, n) : n \in 0 .. MaxPages - 1}
    IN  [count |-> Cardinality(InStock),
         expired |-> {l \in seen : lots[l] < today}, soon |-> {l \in seen : lots[l] >= today},
         truncated |-> seen # Expiring(entry.within),
         shopping |-> IF "shopping" \in Holds[entry.token] THEN list ELSE None,
         budget |-> IF "budget" \in Holds[entry.token] THEN spent ELSE None]

(* The to-do list exists for a token that opens it; it can be edited when   *)
(* the token allows it, and is not offered for edit once a refusal has told *)
(* that it does not.  No sensor is left of a budget it does not open.       *)
SurfacesFollowTheToken ==
    entry.state = "loaded" =>
        LET held == Holds[entry.token]
        IN  /\ entities.todo <=> "shopping" \in held
            /\ {"shopping", "write"} \subseteq held => entities.editable
            /\ entities.editable => "write" \in held \/ {"shopping", "budget"} \subseteq held
            /\ entities.spends # {} => "budget" \in held

(* Whatever was limited, lost, edited, reloaded or refused on the way, the  *)
(* entities end up showing the household as its token may see it and        *)
(* offering what it allows, unless a new token is asked for.                *)
EntitiesCatchUp ==
    <>[](entry.state # "absent" /\ ~entry.reauth =>
            coordinator.data = Published /\ SurfacesFollowTheToken)

(* config_flow.py:158: a reconfiguration points the entry at another        *)
(* address, another token, or both.  In no configuration: it fails, since   *)
(* the form compares the digest of what was typed with that of what is in   *)
(* use, and aborts when they differ.                                        *)
ReconfigureReachesTheEntry ==
    form # None /\ form.kind = "reconfigure" /\ form.result # "refused" =>
        entry.url = form.url /\ entry.token = form.token
=============================================================================
