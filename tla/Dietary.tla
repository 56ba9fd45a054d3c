------------------------------- MODULE Dietary -------------------------------
(***************************************************************************)
(* What a product may be served to whom (domain/dietary.py,                *)
(* domain/constraints.py, services/dietary.py and the generated columns of *)
(* product): reading an Open Food Facts record, the union of what the      *)
(* eaters declare, screening the stock, and finding an ingredient of a     *)
(* recipe in what passed.  Pure operators, used by Recipes.                *)
(*                                                                         *)
(* A tag is known by what it resolves to: an allergen, an ingredient or a  *)
(* marker stands for every spelling the tables give it, OutOfScope for one *)
(* understood and of no concern, Unreadable for one in no table.  An empty *)
(* list is read as an absent one.  A name is the set of its words.         *)
(***************************************************************************)
EXTENDS Integers, Sequences, FiniteSets

CONSTANTS
    Allergens,     \* the regulated substances
    Ingredients,   \* the foods a household can ask to avoid
    OutOfScope, Unreadable,
    InfantRules,   \* the seeded rules: [code, bands, categories, patterns]
    Staples,       \* what a kitchen is taken to have: [words, avoided, codes]
    None

Unknown == "unknown"
Declared == "declared"

AllergenTags == Allergens \cup {OutOfScope, Unreadable}
IngredientTags == Ingredients \cup {OutOfScope, Unreadable}
Markers == {"red_meat", "poultry", "processed_meat", "fish", "oily_fish", "dairy", "eggs", "legumes"}

(***************************************************************************)
(* Reading a record                                                        *)
(***************************************************************************)
(* Mutant: a tag in no table is passed over.                                *)
MutAssessAllergensLenient(payload) ==
    LET contains == payload.allergens \cap Allergens
    IN  [state |-> IF payload.allergens \cup payload.traces = {} THEN Unknown ELSE Declared,
         contains |-> contains,
         may_contain |-> (payload.traces \cap Allergens) \ contains]

(* One tag that cannot be read makes the whole of it unknown; what could be *)
(* read is kept beside it.                                                  *)
AssessAllergens(payload) ==
    LET tags == payload.allergens \cup payload.traces
        contains == payload.allergens \cap Allergens
    IN  [state |-> IF tags = {} \/ Unreadable \in tags THEN Unknown ELSE Declared,
         contains |-> contains,
         may_contain |-> (payload.traces \cap Allergens) \ contains]

(* The list of ingredients: nothing is kept of one that cannot be read or   *)
(* is longer than _MAX_INGREDIENT_TAGS.                                     *)
AssessIngredients(payload) ==
    IF payload.ingredients = {} \/ payload.long \/ Unreadable \in payload.ingredients
    THEN [state |-> Unknown, named |-> {}]
    ELSE [state |-> Declared, named |-> payload.ingredients \cap Ingredients]

MarkersForCategories(payload) ==
    LET named == payload.groups \cap Markers
    IN  named \cup IF "oily_fish" \in named THEN {"fish"} ELSE {}

(* The row the catalogue makes of a record.                                 *)
ToRecord(payload) ==
    [allergens |-> AssessAllergens(payload), ingredients |-> AssessIngredients(payload),
     pnns_markers |-> MarkersForCategories(payload), category_tags |-> payload.categories]

(* The checks of the table on those columns.                                *)
ProductChecks(row) ==
    /\ row.allergens.contains \cap row.allergens.may_contain = {}
    /\ row.allergens.state = Unknown
          => row.allergens.contains = {} /\ row.allergens.may_contain = {}
    /\ row.ingredients.state = Unknown => row.ingredients.named = {}

(* The generated columns: nobody's word clears a product of anything.       *)
AllergensRisk(row) ==
    IF row.allergens.state = Unknown THEN Allergens
    ELSE row.allergens.contains \cup row.allergens.may_contain
AvoidedRisk(row) == IF row.ingredients.state = Unknown THEN Ingredients ELSE row.ingredients.named

(***************************************************************************)
(* What the eaters declare                                                 *)
(***************************************************************************)
InfantBands == {"infant_4_6m", "infant_6_9m", "infant_9_12m", "infant_12_36m"}
AgeBands == {"adult", "child"} \cup InfantBands
InfantTextures == <<"smooth", "soft_pieces", "pieces">>
Diets == <<"omnivore", "pescatarian", "vegetarian", "vegan">>
Rank(value, order) == CHOOSE i \in DOMAIN order : order[i] = value

DietExcludedMarkers(diet) ==
    LET meat == {"red_meat", "poultry", "processed_meat"}
    IN  CASE diet = "omnivore"    -> {}
          [] diet = "pescatarian" -> meat
          [] diet = "vegetarian"  -> meat \cup {"fish", "oily_fish"}
          [] diet = "vegan"       -> meat \cup {"fish", "oily_fish", "dairy", "eggs"}

(* A texture goes with an infant and with nobody else.                      *)
PersonChecks(person) == (person.age_band \in InfantBands) = (person.texture # None)

Person == [age_band : AgeBands, texture : {None} \cup {InfantTextures[i] : i \in DOMAIN InfantTextures},
           diet : {Diets[i] : i \in DOMAIN Diets}, allergens : SUBSET Allergens,
           avoided : SUBSET Ingredients, strict : BOOLEAN]

(* The meal everybody can share.                                            *)
UnionOf(people) ==
    LET diets == {Rank(p.diet, Diets) : p \in people}
        textures == {Rank(p.texture, InfantTextures) : p \in {q \in people : q.texture # None}}
    IN  [excluded_allergens |-> UNION {p.allergens : p \in people},
         avoided |-> UNION {p.avoided : p \in people},
         strict |-> \E p \in people : p.strict,
         diet |-> IF people = {} THEN "omnivore"
                  ELSE Diets[CHOOSE r \in diets : \A s \in diets : s <= r],
         texture |-> IF textures = {} THEN None
                     ELSE InfantTextures[CHOOSE r \in textures : \A s \in textures : r <= s],
         age_bands |-> {p.age_band : p \in people}]

RulesFor(bands) == {rule \in InfantRules : rule.bands \cap bands # {}}

(***************************************************************************)
(* Screening                                                               *)
(***************************************************************************)
RuleMatches(rule, product) ==
    \/ rule.categories \cap product.row.category_tags # {}
    \/ rule.patterns \cap product.words # {}

(* The first reason to keep a product out of the meal, or None.             *)
WithholdReason(product, constraints, rules) ==
    LET row == product.row
        avoided == IF constraints.strict THEN AvoidedRisk(row) ELSE row.ingredients.named
    IN  IF constraints.excluded_allergens \cap AllergensRisk(row) # {} THEN "allergen"
        ELSE IF DietExcludedMarkers(constraints.diet) \cap row.pnns_markers # {} THEN "diet"
        ELSE IF \E rule \in rules : RuleMatches(rule, product) THEN "infant_rule"
        ELSE IF constraints.avoided \cap avoided # {} THEN "avoided_ingredient"
        ELSE None

(* The stock in the order of its dates, told apart: what is offered keeps   *)
(* its place; the products nobody documented that are offered all the same  *)
(* are counted.                                                             *)
Screen(stock, constraints, rules) ==
    LET reason == [i \in DOMAIN stock |-> WithholdReason(stock[i], constraints, rules)]
        passing == {i \in DOMAIN stock : reason[i] = None}
    IN  [offered |-> [i \in passing |-> stock[i]],
         withheld |-> Len(stock) - Cardinality(passing),
         reasons |-> {reason[i] : i \in DOMAIN stock} \ {None},
         unverified |-> Cardinality({i \in passing : stock[i].row.allergens.state = Unknown})]

StaplesAllowedFor(constraints, rules) ==
    {staple \in Staples :
        /\ staple.avoided \cap constraints.avoided = {}
        /\ staple.codes \cap {rule.code : rule \in rules} = {}}

(***************************************************************************)
(* Finding an ingredient again                                             *)
(***************************************************************************)
(* An ingredient is in the stock when every word of it is in the name of    *)
(* what was offered, the first line wins; else it is a staple or nothing.   *)
Resolve(label, offered, staples) ==
    LET named == {i \in DOMAIN offered : label \subseteq offered[i].words}
        first == CHOOSE i \in named : \A j \in named : i <= j
    IN  IF label = {} THEN [line |-> None, staple |-> FALSE]
        ELSE IF named # {} THEN [line |-> offered[first], staple |-> FALSE]
        ELSE [line |-> None, staple |-> \E staple \in staples : staple.words = label]

Resolved(resolution) == resolution.line # None \/ resolution.staple

(* Any constraint that filters makes an ingredient nobody recognises count. *)
StrictInventory(constraints, rules) ==
    \/ constraints.excluded_allergens # {}
    \/ constraints.diet # "omnivore"
    \/ rules # {}
    \/ constraints.avoided # {}

(* What is said of the allergens of one recipe.                             *)
Assess(resolutions, constraints) ==
    LET lines == {r.line : r \in resolutions} \ {None}
        silent == {line \in lines : line.row.allergens.state = Unknown}
    IN  [declared_clear_of |-> constraints.excluded_allergens
                                 \ UNION {AllergensRisk(line.row) : line \in lines \ silent},
         unverified |-> Cardinality({line.id : line \in silent})]
=============================================================================
