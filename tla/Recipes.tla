------------------------------- MODULE Recipes -------------------------------
(***************************************************************************)
(* Suggesting recipes and hearing back about them (services/recipes.py,    *)
(* services/recipe_feedback.py, services/members.py) by requests that      *)
(* overlap.  A suggestion reads the eaters, then the stock, waits on a     *)
(* model that may answer anything or nothing, and keeps what can be served *)
(* to those eaters.  Meanwhile an eater's declaration is edited, a product *)
(* is read again from Open Food Facts, a verdict is given or withdrawn.    *)
(*                                                                         *)
(* One request is one READ COMMITTED transaction.  An update writes the    *)
(* columns whose value differs from the one the request read; its row is   *)
(* held until the commit, and the checks of the table are put to the row   *)
(* as it will be.  The order of the recipes, their text and the weekly     *)
(* balance are left out.                                                   *)
(***************************************************************************)
EXTENDS Dietary, Functions

CONSTANTS
    Clients,      \* requests that can be in flight together
    People,       \* identifiers of eaters
    Stock,        \* the lots in the order of their dates: [id, product]
    Words,        \* product -> the words of its name
    Dishes,       \* what a model may propose: sets of ingredients, each a set of words
    Households,   \* the eaters there may be at first: functions of People
    Kept,         \* the suggestions there may be at first
    Catalogues,   \* what may be known of the products at first
    Requests,     \* the requests the clients may send
    MaxItems,     \* MAX_INVENTORY_ITEMS
    MaxKept,      \* bound: suggestions ever kept
    MaxRequests   \* bound: requests issued in the behaviour

VARIABLES
    household_person,    \* People -> row | None
    product,             \* product -> [row, payload]: what the record said is kept beside
    recipe_suggestion,   \* the identifiers of what was kept -> row
    tx,                  \* Clients -> the request in flight
    reply,               \* Clients -> the last answer
    issued

vars == <<household_person, product, recipe_suggestion, tx, reply, issued>>

Products == DOMAIN Words
Suggestions == 1..MaxKept

Free == [pc |-> "idle", req |-> None, read |-> None, row |-> None, eaters |-> {},
         lines |-> <<>>, staples |-> {}, strict |-> FALSE]

Go(c, fields) == tx' = [tx EXCEPT ![c] = fields]
Rollback(c, status) ==
    /\ reply' = [reply EXCEPT ![c] = [req |-> tx[c].req, status |-> status]]
    /\ Go(c, Free)
    /\ UNCHANGED <<household_person, product, recipe_suggestion, issued>>

Begin(c) ==
    /\ tx[c].pc = "idle" /\ issued < MaxRequests
    /\ \E req \in Requests :
         /\ req.op \in {"cooked", "not_interested", "clear"} => req.id \in DOMAIN recipe_suggestion
         /\ req.op = "create" =>
              Cardinality({p \in People : household_person[p] = None})
                > Cardinality({d \in Clients : tx[d].pc = "read" /\ tx[d].req.op = "create"})
         /\ Go(c, [Free EXCEPT !.pc = "read", !.req = req])
    /\ reply' = [reply EXCEPT ![c] = None]
    /\ issued' = issued + 1
    /\ UNCHANGED <<household_person, product, recipe_suggestion>>

(***************************************************************************)
(* Suggesting                                                              *)
(***************************************************************************)
(* constraints_for: everybody when nobody is named; somebody of no row      *)
(* refuses the request.                                                     *)
ReadEaters(c) ==
    LET named == IF tx[c].req.people = {} THEN {p \in People : household_person[p] # None}
                 ELSE tx[c].req.people
    IN  /\ tx[c].pc = "read" /\ tx[c].req.op = "suggest"
        /\ IF \E p \in named : household_person[p] = None
           THEN Rollback(c, "member_not_in_household")
           ELSE /\ Go(c, [tx[c] EXCEPT !.pc = "stock", !.eaters = {household_person[p] : p \in named}])
                /\ UNCHANGED <<household_person, product, recipe_suggestion, reply, issued>>

Line(lot) == [id |-> lot.product, words |-> Words[lot.product],
              row |-> product[lot.product].row, payload |-> product[lot.product].payload]

(* The stock is read after the eaters and screened; when nothing of it can  *)
(* be served the model is not asked.                                        *)
ReadStock(c) ==
    LET constraints == UnionOf(tx[c].eaters)
        rules == RulesFor(constraints.age_bands)
        read == SubSeq(Stock, 1, IF Len(Stock) < MaxItems THEN Len(Stock) ELSE MaxItems)
        screened == Screen([i \in DOMAIN read |-> Line(read[i])], constraints, rules)
    IN  /\ tx[c].pc = "stock"
        /\ IF read # <<>> /\ DOMAIN screened.offered = {}
           THEN Rollback(c, "no_suggestion_within_constraints")
           ELSE /\ Go(c, [tx[c] EXCEPT !.pc = "generate", !.lines = screened.offered,
                                       !.staples = StaplesAllowedFor(constraints, rules),
                                       !.strict = StrictInventory(constraints, rules)])
                /\ UNCHANGED <<household_person, product, recipe_suggestion, reply, issued>>

(* _check: a recipe with an ingredient nobody recognises is put aside when  *)
(* something was filtered, and kept when nothing was.                       *)
Accepted(answer, lines, staples, strict) ==
    {recipe \in answer :
        strict => \A label \in recipe : Resolved(Resolve(label, lines, staples))}

(* A suggestion as it is stored.  The eaters it was asked for and the lines *)
(* it uses are the request's, kept here for the properties.                 *)
NewSuggestion(c, recipe) ==
    LET resolutions == {Resolve(label, tx[c].lines, tx[c].staples) : label \in recipe}
        constraints == UnionOf(tx[c].eaters)
    IN  [eaters |-> tx[c].eaters,
         uses |-> {r.line : r \in resolutions} \ {None},
         strange |-> \E r \in resolutions : ~Resolved(r),
         assessment |-> Assess(resolutions, constraints),
         feedback |-> None, dated |-> FALSE, cooked_at |-> FALSE, status |-> "generated"]

(* The answer of the model: any recipes of any ingredients.  Nothing kept   *)
(* of something answered is an error; an empty answer is not.  What is kept *)
(* is inserted and committed: nothing of it waits on anybody.               *)
Generate(c) ==
    /\ tx[c].pc = "generate"
    /\ \E answer \in SUBSET Dishes :
         LET kept == Accepted(answer, tx[c].lines, tx[c].staples, tx[c].strict)
             unused == Suggestions \ DOMAIN recipe_suggestion
         IN  /\ Cardinality(answer) <= tx[c].req.max_suggestions
             /\ ExistsInjection(kept, unused)
             /\ IF answer # {} /\ kept = {} THEN Rollback(c, "constraint_violation_detected")
                ELSE /\ LET id == CHOOSE f \in Injection(kept, unused) : TRUE
                        IN  recipe_suggestion' =
                              [s \in DOMAIN recipe_suggestion \cup {id[r] : r \in kept} |->
                                 IF \E r \in kept : id[r] = s
                                 THEN NewSuggestion(c, CHOOSE r \in kept : id[r] = s)
                                 ELSE recipe_suggestion[s]]
                     /\ reply' = [reply EXCEPT ![c] = [req |-> tx[c].req, status |-> "ok"]]
                     /\ Go(c, Free)
                     /\ UNCHANGED <<household_person, product, issued>>

(* No answer, an unreadable one, no credit, no provider: an error, whatever *)
(* the kind, and nothing is written.                                        *)
ProviderFails(c) == tx[c].pc = "generate" /\ Rollback(c, "provider_error")

(***************************************************************************)
(* Verdicts and declarations                                               *)
(***************************************************************************)
(* ck_recipe_suggestion_feedback_dated and _feedback_matches_status.        *)
SuggestionChecks(row) ==
    /\ (row.feedback = None) = ~row.dated
    /\ \/ row.feedback = None
       \/ row.feedback = "cooked" /\ row.status = "cooked" /\ row.cooked_at
       \/ row.feedback = "not_interested" /\ row.status = "discarded"

(* The columns a request sets on the row it read.  A date is always a new   *)
(* one; the first cooking is never forgotten.                               *)
Verdict(req, read) ==
    CASE req.op = "cooked" ->
           [feedback |-> "cooked", dated |-> TRUE, status |-> "cooked", cooked_at |-> TRUE]
      [] req.op = "not_interested" ->
           [feedback |-> "not_interested", dated |-> TRUE, status |-> "discarded",
            cooked_at |-> read.cooked_at]
      [] req.op = "clear" ->
           [feedback |-> None, dated |-> FALSE, cooked_at |-> read.cooked_at,
            status |-> IF read.cooked_at THEN "cooked" ELSE "generated"]

(* The fields a declaration sets, over what was read.                       *)
Patched(req, read) == [f \in DOMAIN read |-> IF f \in DOMAIN req.patch THEN req.patch[f] ELSE read[f]]

(* Mutant: every column the request set is written, as it was read.         *)
MutWrittenWhole(values, read, row, always) ==
    [f \in DOMAIN row |-> IF f \in DOMAIN values THEN values[f] ELSE row[f]]

(* What is written: the columns that differ from what was read, and the     *)
(* date of a verdict.                                                       *)
Written(values, read, row, always) ==
    [f \in DOMAIN row |-> IF f \in DOMAIN values /\ (values[f] # read[f] \/ f \in always)
                          THEN values[f] ELSE row[f]]

IsVerdict(req) == req.op \in {"cooked", "not_interested", "clear"}
IsThere(req) == IF IsVerdict(req) THEN req.id \in DOMAIN recipe_suggestion
                ELSE household_person[req.id] # None
Held(c, d) == /\ d # c /\ tx[d].pc = "commit"
              /\ IsVerdict(tx[d].req) = IsVerdict(tx[c].req) /\ tx[d].req.id = tx[c].req.id

(* Somebody of no row, or a patch that leaves a texture without an infant   *)
(* (_check_texture, on the row as it was read), refuses the request.        *)
Read(c) ==
    LET req == tx[c].req
        row == IF IsVerdict(req) THEN recipe_suggestion[req.id] ELSE household_person[req.id]
    IN  /\ tx[c].pc = "read" /\ (IsVerdict(req) \/ req.op = "patch")
        /\ IF ~IsThere(req) THEN Rollback(c, "not_found")
           ELSE IF req.op = "patch" /\ ~PersonChecks(Patched(req, row))
           THEN Rollback(c, "infant_texture_inconsistent")
           ELSE /\ Go(c, [tx[c] EXCEPT !.pc = "flush", !.read = row])
                /\ UNCHANGED <<household_person, product, recipe_suggestion, reply, issued>>

(* The UPDATE waits for whoever holds the row, then changes the row it      *)
(* finds; a row gone meanwhile, or one that fails a check, is an error.     *)
Flush(c) ==
    LET req == tx[c].req
        row == IF IsVerdict(req) THEN recipe_suggestion[req.id] ELSE household_person[req.id]
        new == IF IsVerdict(req) THEN Written(Verdict(req, tx[c].read), tx[c].read, row,
                                              IF req.op = "clear" THEN {} ELSE {"dated"})
               ELSE Written(Patched(req, tx[c].read), tx[c].read, row, {})
    IN  /\ tx[c].pc = "flush" /\ \A d \in Clients : ~Held(c, d)
        /\ IF ~IsThere(req) THEN Rollback(c, "stale_data")
           ELSE IF ~IF IsVerdict(req) THEN SuggestionChecks(new) ELSE PersonChecks(new)
                THEN Rollback(c, "integrity_error")
                ELSE /\ Go(c, [tx[c] EXCEPT !.pc = "commit", !.row = new])
                     /\ UNCHANGED <<household_person, product, recipe_suggestion, reply, issued>>

Commit(c) ==
    LET req == tx[c].req
    IN  /\ tx[c].pc = "commit"
        /\ IF IsVerdict(req)
           THEN /\ recipe_suggestion' = [recipe_suggestion EXCEPT ![req.id] = tx[c].row]
                /\ UNCHANGED household_person
           ELSE /\ household_person' = [household_person EXCEPT ![req.id] = tx[c].row]
                /\ UNCHANGED recipe_suggestion
        /\ reply' = [reply EXCEPT ![c] = [req |-> req, status |-> "ok"]]
        /\ Go(c, Free)
        /\ UNCHANGED <<product, issued>>

(* An eater enters or leaves in one statement; a draft that leaves a        *)
(* texture without an infant is refused.                                    *)
Enter(c) ==
    LET req == tx[c].req
    IN  /\ tx[c].pc = "read" /\ req.op = "create"
        /\ IF ~PersonChecks(req.patch) THEN Rollback(c, "infant_texture_inconsistent")
           ELSE /\ LET p == CHOOSE p \in People : household_person[p] = None
                   IN  household_person' = [household_person EXCEPT ![p] = req.patch]
                /\ reply' = [reply EXCEPT ![c] = [req |-> req, status |-> "ok"]]
                /\ Go(c, Free)
                /\ UNCHANGED <<product, recipe_suggestion, issued>>

Leave(c) ==
    LET req == tx[c].req
    IN  /\ tx[c].pc = "read" /\ req.op = "delete" /\ \A d \in Clients : ~Held(c, d)
        /\ IF household_person[req.id] = None THEN Rollback(c, "not_found")
           ELSE /\ household_person' = [household_person EXCEPT ![req.id] = None]
                /\ reply' = [reply EXCEPT ![c] = [req |-> req, status |-> "ok"]]
                /\ Go(c, Free)
                /\ UNCHANGED <<product, recipe_suggestion, issued>>

(* A product is read again: the row is overwritten whole, back to unknown   *)
(* if need be, unless a check of the table refuses it.                      *)
Refresh(c) ==
    LET req == tx[c].req
        row == ToRecord(req.payload)
    IN  /\ tx[c].pc = "read" /\ req.op = "refresh"
        /\ IF ~ProductChecks(row) THEN Rollback(c, "integrity_error")
           ELSE /\ product' = [product EXCEPT ![req.id] = [row |-> row, payload |-> req.payload]]
                /\ reply' = [reply EXCEPT ![c] = [req |-> req, status |-> "ok"]]
                /\ Go(c, Free)
                /\ UNCHANGED <<household_person, recipe_suggestion, issued>>

Init ==
    /\ household_person \in Households
    /\ product \in Catalogues
    /\ recipe_suggestion \in Kept
    /\ tx = [c \in Clients |-> Free]
    /\ reply = [c \in Clients |-> None]
    /\ issued = 0

Finished == issued = MaxRequests /\ \A c \in Clients : tx[c].pc = "idle"

Next ==
    \/ \E c \in Clients :
         \/ Begin(c) \/ ReadEaters(c) \/ ReadStock(c) \/ Generate(c) \/ ProviderFails(c)
         \/ Read(c) \/ Flush(c) \/ Commit(c) \/ Enter(c) \/ Leave(c) \/ Refresh(c)
    \/ Finished /\ UNCHANGED vars

Spec == Init /\ [][Next]_vars

(***************************************************************************)
(* Properties                                                              *)
(***************************************************************************)
(* A recipe that can be served to each of its eaters: every ingredient was  *)
(* recognised if anybody declared anything, the record of every product     *)
(* used names none of the allergens of anybody and could be read to its     *)
(* last tag, no diet excludes it, and what somebody avoids is not in it, or *)
(* for a strict one is known not to be.  The text beside it says so too.    *)
CanBeServed(it) ==
    \A p \in it.eaters :
      /\ it.strange => p.allergens = {} /\ p.avoided = {} /\ p.diet = "omnivore"
      /\ p.allergens \subseteq it.assessment.declared_clear_of
      /\ \A line \in it.uses :
           LET said == line.payload.allergens \cup line.payload.traces
           IN  /\ p.allergens # {} => said # {} /\ Unreadable \notin said
               /\ p.allergens \cap said = {}
               /\ DietExcludedMarkers(p.diet) \cap MarkersForCategories(line.payload) = {}
               /\ p.avoided # {} /\ p.strict =>
                    line.payload.ingredients # {} /\ Unreadable \notin line.payload.ingredients
               /\ \/ p.avoided \cap line.payload.ingredients = {}
                  \/ AssessIngredients(line.payload).state = Unknown /\ ~p.strict

IsSuggestion(row) ==
    /\ DOMAIN row = {"eaters", "uses", "strange", "assessment",
                     "feedback", "dated", "cooked_at", "status"}
    /\ row.feedback \in {None, "cooked", "not_interested"}
    /\ row.dated \in BOOLEAN /\ row.cooked_at \in BOOLEAN

(* What is there at first was written by the same code: eaters as a form    *)
(* makes them, records as they are read, suggestions as they are kept.  A   *)
(* request names somebody of the household, or a suggestion or a product    *)
(* that may exist, and what it declares of an eater is again an eater.      *)
ASSUME RecipesAssumption ==
    /\ None \notin {"allergen", "diet", "infant_rule", "avoided_ingredient", "cooked", "not_interested"}
    /\ MaxItems \in Nat
    /\ \A i \in DOMAIN Stock : Stock[i].product \in Products
    /\ DOMAIN Stock = 1 .. Len(Stock)
    /\ \A people \in Households :
         /\ DOMAIN people = People
         /\ \A p \in People : people[p] = None \/ people[p] \in Person
    /\ \A records \in Catalogues :
         /\ DOMAIN records = Products
         /\ \A p \in Products : records[p].row = ToRecord(records[p].payload)
    /\ \A rows \in Kept :
         /\ DOMAIN rows \subseteq Suggestions
         /\ \A s \in DOMAIN rows : /\ IsSuggestion(rows[s]) /\ CanBeServed(rows[s])
                                   /\ rows[s].status = "cooked" => rows[s].cooked_at
    /\ \A req \in Requests :
         /\ req.op = "suggest" => req.people \subseteq People
         /\ IsVerdict(req) => req.id \in Suggestions
         /\ req.op \in {"patch", "delete"} => req.id \in People
         /\ req.op = "create" => req.patch \in Person
         /\ req.op = "patch" => \A person \in Person : Patched(req, person) \in Person

(* What was kept for these eaters can be served to each of them, whatever   *)
(* was edited while the model was thinking.                                 *)
SuggestedCanBeServed ==
    \A s \in DOMAIN recipe_suggestion : CanBeServed(recipe_suggestion[s])

(* Whatever crosses it, a cooking is kept: who was told that a dish was     *)
(* cooked finds its date, withdrawn or dismissed since or not, and none is  *)
(* told as cooked without one.  record and clear read without a lock, and   *)
(* no check of the table asks for the date of a dish without a verdict.     *)
CookingsAreKept ==
    /\ \A c \in Clients :
         reply[c] # None /\ reply[c].status = "ok" /\ reply[c].req.op = "cooked" =>
           /\ reply[c].req.id \in DOMAIN recipe_suggestion
           /\ recipe_suggestion[reply[c].req.id].cooked_at
    /\ \A s \in DOMAIN recipe_suggestion :
         recipe_suggestion[s].status = "cooked" => recipe_suggestion[s].cooked_at

(* A suggestion nobody has a verdict on is not left discarded: what clear   *)
(* promises of the answer it withdraws.                                     *)
ClearLeavesNoDiscard ==
    \A s \in DOMAIN recipe_suggestion :
        recipe_suggestion[s].feedback = None => recipe_suggestion[s].status # "discarded"

(* A record of which some allergens could be read is kept, and shows them:  *)
(* reading a product never ends in an error of the database.  In no         *)
(* configuration: it fails, since assess_allergens keeps what it resolved   *)
(* beside "unknown" and the table refuses a row that is both.               *)
ReadableRecordsAreKept ==
    \A c \in Clients : reply[c] # None /\ reply[c].req.op = "refresh" => reply[c].status = "ok"
=============================================================================
