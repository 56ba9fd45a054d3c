----------------------------- MODULE RecipesProofs -----------------------------
(***************************************************************************)
(* What is proved of Recipes for every value of its constants: that a      *)
(* suggestion can be served to everybody it was made for, and that a       *)
(* cooking is kept whatever verdicts cross it.  The first rests on the     *)
(* lemmas about Dietary that come first: what the filters let through is   *)
(* safe for each of the eaters, because nothing that cannot be read is let *)
(* through to somebody it could harm.  The second rests on what a request  *)
(* knows of a row that others may write: a cooking it has read is still    *)
(* there, and the row it holds is not older than the one it replaces.      *)
(***************************************************************************)
EXTENDS Recipes, WellFoundedInduction, TLAPS

(***************************************************************************)
(* Eaters                                                                  *)
(***************************************************************************)
DietNames == {"omnivore", "pescatarian", "vegetarian", "vegan"}

LEMMA RankOfDiet ==
    /\ {Diets[i] : i \in DOMAIN Diets} = DietNames
    /\ Rank("omnivore", Diets) = 1 /\ Rank("pescatarian", Diets) = 2
    /\ Rank("vegetarian", Diets) = 3 /\ Rank("vegan", Diets) = 4
  <1>1. DOMAIN Diets = 1 .. 4
    BY DEF Diets
  <1>2. Diets[1] = "omnivore" /\ Diets[2] = "pescatarian"
        /\ Diets[3] = "vegetarian" /\ Diets[4] = "vegan"
    BY DEF Diets
  <1>3. \A i \in DOMAIN Diets : i = 1 \/ i = 2 \/ i = 3 \/ i = 4
    BY <1>1
  <1> HIDE DEF Diets
  <1>4. {Diets[i] : i \in DOMAIN Diets} = DietNames
    BY <1>1, <1>2, <1>3 DEF DietNames
  <1>5. Rank("omnivore", Diets) = 1
    BY <1>1, <1>2, <1>3 DEF Rank
  <1>6. Rank("pescatarian", Diets) = 2
    BY <1>1, <1>2, <1>3 DEF Rank
  <1>7. Rank("vegetarian", Diets) = 3
    BY <1>1, <1>2, <1>3 DEF Rank
  <1>8. Rank("vegan", Diets) = 4
    BY <1>1, <1>2, <1>3 DEF Rank
  <1> QED
    BY <1>4, <1>5, <1>6, <1>7, <1>8

(* The most restrictive diet of several excludes what each of them does.    *)
LEMMA StrictestDiet ==
    ASSUME NEW people \in SUBSET Person, NEW p \in people
    PROVE  LET diet == UnionOf(people).diet
           IN  /\ DietExcludedMarkers(p.diet) \subseteq DietExcludedMarkers(diet)
               /\ diet = "omnivore" => p.diet = "omnivore"
  <1> DEFINE ranks == {Rank(q.diet, Diets) : q \in people}
             top == CHOOSE r \in ranks : \A s \in ranks : s <= r
  <1>1. \A q \in people : q.diet \in DietNames
    BY RankOfDiet DEF Person
  <1>2. ranks \subseteq 1 .. 4 /\ Rank(p.diet, Diets) \in ranks
    BY <1>1, RankOfDiet DEF DietNames
  <1>3. \E r \in ranks : \A s \in ranks : s <= r
    <2> HIDE DEF ranks
    <2> DEFINE Tops(r) == r \in ranks /\ \A s \in ranks : s <= r
    <2>0. \A s \in ranks : s = 1 \/ s = 2 \/ s = 3 \/ s = 4
      BY <1>2
    <2>1. CASE 4 \in ranks
      <3>1. Tops(4)
        BY <2>0, <2>1
      <3> QED
        BY <3>1
    <2>2. CASE 4 \notin ranks /\ 3 \in ranks
      <3>1. Tops(3)
        BY <2>0, <2>2
      <3> QED
        BY <3>1
    <2>3. CASE 4 \notin ranks /\ 3 \notin ranks /\ 2 \in ranks
      <3>1. Tops(2)
        BY <2>0, <2>3
      <3> QED
        BY <3>1
    <2>4. CASE 4 \notin ranks /\ 3 \notin ranks /\ 2 \notin ranks
      <3>1. \A s \in ranks : s = 1
        BY <2>0, <2>4
      <3>2. 1 \in ranks
        BY <3>1, <1>2
      <3> QED
        BY <3>1, <3>2
    <2> QED
      BY <2>1, <2>2, <2>3, <2>4
  <1>4. top \in ranks /\ Rank(p.diet, Diets) <= top
    <2> HIDE DEF ranks
    <2> QED
      BY <1>2, <1>3
  <1>5. UnionOf(people).diet = Diets[top]
    BY DEF UnionOf
  <1>6. Diets[1] = "omnivore" /\ Diets[2] = "pescatarian"
        /\ Diets[3] = "vegetarian" /\ Diets[4] = "vegan"
    BY DEF Diets
  <1>7. p.diet \in DietNames /\ top \in 1 .. 4
    BY <1>1, <1>2, <1>4
  <1> HIDE DEF ranks, top
  <1>8. CASE top = 1
    BY <1>4, <1>5, <1>6, <1>7, <1>8, RankOfDiet DEF DietNames, DietExcludedMarkers
  <1>9. CASE top = 2
    BY <1>4, <1>5, <1>6, <1>7, <1>9, RankOfDiet DEF DietNames, DietExcludedMarkers
  <1>10. CASE top = 3
    BY <1>4, <1>5, <1>6, <1>7, <1>10, RankOfDiet DEF DietNames, DietExcludedMarkers
  <1>11. CASE top = 4
    BY <1>4, <1>5, <1>6, <1>7, <1>11, RankOfDiet DEF DietNames, DietExcludedMarkers
  <1> QED
    BY <1>7, <1>8, <1>9, <1>10, <1>11

(* The union asks for what each of the eaters asks for.                     *)
LEMMA UnionCovers ==
    ASSUME NEW people \in SUBSET Person, NEW p \in people
    PROVE  LET union == UnionOf(people)
           IN  /\ p.allergens \subseteq union.excluded_allergens
               /\ p.avoided \subseteq union.avoided
               /\ p.strict => union.strict
  BY DEF UnionOf, Person

(***************************************************************************)
(* Lines                                                                   *)
(***************************************************************************)
(* A line of a product whose row is what the catalogue makes of its record, *)
(* and that no filter holds back from these people.                         *)
Offered(line, people) ==
    LET constraints == UnionOf(people)
    IN  /\ line.row = ToRecord(line.payload)
        /\ WithholdReason(line, constraints, RulesFor(constraints.age_bands)) = None

(* No filter holds it back: none of the four conditions is met.             *)
LEMMA OfferedPasses ==
    ASSUME NEW people, NEW line, Offered(line, people)
    PROVE  LET u == UnionOf(people)
           IN  /\ u.excluded_allergens \cap AllergensRisk(line.row) = {}
               /\ DietExcludedMarkers(u.diet) \cap line.row.pnns_markers = {}
               /\ u.avoided \cap (IF u.strict THEN AvoidedRisk(line.row)
                                  ELSE line.row.ingredients.named) = {}
  BY RecipesAssumption, Zenon DEF Offered, WithholdReason

(* What is offered to people is safe for each of them.                      *)
LEMMA OfferedIsSafe ==
    ASSUME NEW people \in SUBSET Person, NEW p \in people,
           NEW line, Offered(line, people)
    PROVE  LET said == line.payload.allergens \cup line.payload.traces
           IN  /\ p.allergens # {} => said # {} /\ Unreadable \notin said
               /\ p.allergens \cap said = {}
               /\ DietExcludedMarkers(p.diet) \cap MarkersForCategories(line.payload) = {}
               /\ p.avoided # {} /\ p.strict =>
                    line.payload.ingredients # {} /\ Unreadable \notin line.payload.ingredients
               /\ \/ p.avoided \cap line.payload.ingredients = {}
                  \/ AssessIngredients(line.payload).state = Unknown /\ ~p.strict
  <1> DEFINE u == UnionOf(people)
             said == line.payload.allergens \cup line.payload.traces
             noted == AssessAllergens(line.payload)
             read == AssessIngredients(line.payload)
  <1>1. /\ line.row.allergens = noted /\ line.row.ingredients = read
        /\ line.row.pnns_markers = MarkersForCategories(line.payload)
    BY DEF Offered, ToRecord
  <1>2. p.allergens \subseteq Allergens /\ p.avoided \subseteq Ingredients
    BY DEF Person
  <1>3. /\ u.excluded_allergens \cap AllergensRisk(line.row) = {}
        /\ DietExcludedMarkers(u.diet) \cap line.row.pnns_markers = {}
        /\ u.avoided \cap (IF u.strict THEN AvoidedRisk(line.row)
                           ELSE line.row.ingredients.named) = {}
    BY OfferedPasses
  <1>4. /\ p.allergens \subseteq u.excluded_allergens
        /\ p.avoided \subseteq u.avoided
        /\ p.strict => u.strict
    BY UnionCovers
  <1>5. DietExcludedMarkers(p.diet) \subseteq DietExcludedMarkers(u.diet)
    BY StrictestDiet
  <1> HIDE DEF u
  <1>6. /\ p.allergens # {} => said # {} /\ Unreadable \notin said
        /\ p.allergens \cap said = {}
    <2>1. p.allergens \cap (IF noted.state = Unknown THEN Allergens
                            ELSE noted.contains \cup noted.may_contain) = {}
      BY <1>1, <1>3, <1>4 DEF AllergensRisk
    <2>2. CASE noted.state = Unknown
      BY <2>1, <2>2, <1>2
    <2>3. CASE noted.state # Unknown
      <3>1. said # {} /\ Unreadable \notin said
        BY <2>3 DEF AssessAllergens
      <3>2. said \cap Allergens \subseteq noted.contains \cup noted.may_contain
        BY DEF AssessAllergens
      <3> QED
        BY <3>1, <3>2, <2>1, <2>3, <1>2
    <2> QED
      BY <2>2, <2>3
  <1>7. DietExcludedMarkers(p.diet) \cap MarkersForCategories(line.payload) = {}
    BY <1>1, <1>3, <1>5
  <1>8. /\ p.avoided # {} /\ p.strict =>
             line.payload.ingredients # {} /\ Unreadable \notin line.payload.ingredients
        /\ \/ p.avoided \cap line.payload.ingredients = {}
           \/ read.state = Unknown /\ ~p.strict
    <2>1. p.avoided \cap (IF u.strict /\ read.state = Unknown THEN Ingredients ELSE read.named) = {}
      BY <1>1, <1>3, <1>4 DEF AvoidedRisk
    <2>2. CASE read.state = Unknown
      BY <2>1, <2>2, <1>2, <1>4
    <2>3. CASE read.state # Unknown
      <3>1. /\ line.payload.ingredients # {} /\ Unreadable \notin line.payload.ingredients
            /\ read.named = line.payload.ingredients \cap Ingredients
        BY <2>3 DEF AssessIngredients
      <3> QED
        BY <3>1, <2>1, <2>3, <1>2
    <2> QED
      BY <2>2, <2>3
  <1> QED
    BY <1>6, <1>7, <1>8

(* A set of naturals has a least element.                                   *)
LEMMA LeastExists ==
    ASSUME NEW S \in SUBSET Nat, S # {}
    PROVE  \E i \in S : \A j \in S : i <= j
  <1> DEFINE Less == OpToRel(<, Nat)
  <1>1. IsWellFoundedOn(Less, Nat)
    BY NatLessThanWellFounded
  <1>2. PICK i \in S : \A j \in S : ~ (<<j, i>> \in Less)
    <2> HIDE DEF Less
    <2> QED
      BY <1>1, WFMin
  <1>3. \A j, k \in Nat : j < k => <<j, k>> \in Less
    <2> SUFFICES ASSUME NEW j \in Nat, NEW k \in Nat, j < k
                 PROVE  <<j, k>> \in Less
      OBVIOUS
    <2>1. <<j, k>> \in Nat \X Nat /\ <<j, k>>[1] = j /\ <<j, k>>[2] = k
      OBVIOUS
    <2>2. Less = {ss \in Nat \X Nat : ss[1] < ss[2]}
      BY Zenon DEF OpToRel
    <2> QED
      BY <2>1, <2>2
  <1>4. \A j \in S : ~ (j < i)
    BY <1>2, <1>3
  <1> QED
    BY <1>4

(* An ingredient is found in one of the lines, among the staples or nowhere.*)
LEMMA ResolveFinds ==
    ASSUME NEW label, NEW lines, NEW staples, DOMAIN lines \subseteq Nat,
           Resolve(label, lines, staples).line # None
    PROVE  \E i \in DOMAIN lines : Resolve(label, lines, staples).line = lines[i]
  <1> DEFINE named == {i \in DOMAIN lines : label \subseteq lines[i].words}
             first == CHOOSE i \in named : \A j \in named : i <= j
  <1>1. label # {} /\ named # {} /\ Resolve(label, lines, staples).line = lines[first]
    BY DEF Resolve
  <1>2. named \in SUBSET Nat
    OBVIOUS
  <1>3. first \in named
    <2>1. \E i \in named : \A j \in named : i <= j
      <3> HIDE DEF named
      <3> QED
        BY <1>1, <1>2, LeastExists
    <2> QED
      BY <2>1
  <1> QED
    BY <1>1, <1>3

(***************************************************************************)
(* What is kept                                                            *)
(***************************************************************************)
(* A request that asks a model: the lines it offers are safe for its eaters *)
(* and it is strict exactly when one of them declared something.            *)
Asking(t) ==
    LET constraints == UnionOf(t.eaters)
    IN  /\ t.eaters \in SUBSET Person
        /\ DOMAIN t.lines \subseteq Nat
        /\ \A i \in DOMAIN t.lines : Offered(t.lines[i], t.eaters)
        /\ t.strict = StrictInventory(constraints, RulesFor(constraints.age_bands))

(* What _check accepts of an answer can be served, whatever the answer is.  *)
LEMMA AcceptedCanBeServed ==
    ASSUME NEW c \in Clients, Asking(tx[c]), NEW recipe,
           NEW answer, recipe \in Accepted(answer, tx[c].lines, tx[c].staples, tx[c].strict)
    PROVE  CanBeServed(NewSuggestion(c, recipe))
  <1> DEFINE t == tx[c]
             u == UnionOf(t.eaters)
             found == {Resolve(label, t.lines, t.staples) : label \in recipe}
             row == NewSuggestion(c, recipe)
  <1> USE DEF Asking
  <1>1. /\ row.eaters = t.eaters
        /\ row.uses = {r.line : r \in found} \ {None}
        /\ row.strange = (\E r \in found : ~Resolved(r))
        /\ row.assessment = Assess(found, u)
    BY DEF NewSuggestion
  <1>2. \A line \in row.uses : Offered(line, t.eaters)
    <2> SUFFICES ASSUME NEW label \in recipe, Resolve(label, t.lines, t.staples).line # None
                 PROVE  Offered(Resolve(label, t.lines, t.staples).line, t.eaters)
      BY <1>1
    <2> QED
      BY ResolveFinds
  <1>3. t.strict => ~row.strange
    BY <1>1 DEF Accepted
  <1> SUFFICES ASSUME NEW p \in t.eaters
               PROVE  /\ row.strange => p.allergens = {} /\ p.avoided = {} /\ p.diet = "omnivore"
                      /\ p.allergens \subseteq row.assessment.declared_clear_of
    BY <1>1, <1>2, OfferedIsSafe DEF CanBeServed
  <1>4. /\ p.allergens \subseteq u.excluded_allergens
        /\ p.avoided \subseteq u.avoided
        /\ u.diet = "omnivore" => p.diet = "omnivore"
    BY UnionCovers, StrictestDiet
  <1>5. row.strange => p.allergens = {} /\ p.avoided = {} /\ p.diet = "omnivore"
    <2> HIDE DEF u
    <2>1. ~t.strict => u.excluded_allergens = {} /\ u.diet = "omnivore" /\ u.avoided = {}
      BY DEF StrictInventory, u
    <2> QED
      BY <1>3, <1>4, <2>1
  <1>6. p.allergens \subseteq row.assessment.declared_clear_of
    <2>1. \A line \in row.uses : u.excluded_allergens \cap AllergensRisk(line.row) = {}
      BY <1>2, OfferedPasses
    <2> DEFINE silent == {line \in row.uses : line.row.allergens.state = Unknown}
    <2>2. row.assessment.declared_clear_of =
            u.excluded_allergens \ UNION {AllergensRisk(line.row) : line \in row.uses \ silent}
      BY <1>1 DEF Assess
    <2> HIDE DEF u, row
    <2> QED
      BY <2>1, <2>2, <1>4
  <1> QED
    BY <1>5, <1>6

(* A row of the table: a suggestion that can be served, and that has the    *)
(* date of its cooking if it says it was cooked.                            *)
Sound(row) == IsSuggestion(row) /\ CanBeServed(row) /\ (row.status = "cooked" => row.cooked_at)

LEMMA NewIsSound ==
    ASSUME NEW c \in Clients, Asking(tx[c]), NEW recipe,
           NEW answer, recipe \in Accepted(answer, tx[c].lines, tx[c].staples, tx[c].strict)
    PROVE  Sound(NewSuggestion(c, recipe))
  <1>1. /\ IsSuggestion(NewSuggestion(c, recipe))
        /\ NewSuggestion(c, recipe).status = "generated"
    BY RecipesAssumption DEF NewSuggestion, IsSuggestion
  <1> QED
    BY <1>1, AcceptedCanBeServed DEF Sound

(* A verdict, written over a row that may have changed since it was read,   *)
(* leaves what was suggested as it is; and it forgets no cooking, if the    *)
(* one it read is still there, because it writes a date it found missing or *)
(* none at all.                                                             *)
LEMMA VerdictKeepsSound ==
    ASSUME NEW req, IsVerdict(req), NEW read, IsSuggestion(read), NEW row, Sound(row),
           NEW always, "cooked_at" \notin always, read.cooked_at => row.cooked_at
    PROVE  LET new == Written(Verdict(req, read), read, row, always)
           IN  /\ Sound(new)
               /\ row.cooked_at => new.cooked_at
               /\ req.op = "cooked" => new.cooked_at
  <1> DEFINE values == Verdict(req, read)
             new == Written(values, read, row, always)
             columns == {"feedback", "dated", "cooked_at", "status"}
  <1>1. /\ DOMAIN values = columns
        /\ values.feedback \in {None, "cooked", "not_interested"}
        /\ values.dated \in BOOLEAN /\ values.cooked_at \in BOOLEAN
        /\ read.cooked_at => values.cooked_at
        /\ req.op = "cooked" => values.cooked_at
        /\ values.status = "cooked" => values.cooked_at
    BY DEF Verdict, IsVerdict, IsSuggestion
  <1> HIDE DEF values
  <1>2. DOMAIN new = DOMAIN row /\ IsSuggestion(row)
    BY DEF Written, Sound
  <1>3. \A f \in DOMAIN row :
          new[f] = IF f \in DOMAIN values /\ (values[f] # read[f] \/ f \in always)
                   THEN values[f] ELSE row[f]
    BY DEF Written
  <1>4. IsSuggestion(new)
    BY <1>1, <1>2, <1>3 DEF IsSuggestion
  <1>5. /\ new.eaters = row.eaters /\ new.uses = row.uses
        /\ new.strange = row.strange /\ new.assessment = row.assessment
    BY <1>1, <1>2, <1>3 DEF IsSuggestion
  <1>6. CanBeServed(new)
    <2> HIDE DEF new
    <2> QED
      BY <1>5 DEF CanBeServed, Sound
  <1>7. /\ row.cooked_at \in BOOLEAN /\ read.cooked_at \in BOOLEAN
        /\ new.cooked_at = IF values.cooked_at # read.cooked_at
                           THEN values.cooked_at ELSE row.cooked_at
        /\ new.status = values.status \/ new.status = row.status
    BY <1>1, <1>2, <1>3 DEF IsSuggestion
  <1>8. /\ row.cooked_at => new.cooked_at
        /\ values.cooked_at => new.cooked_at
    BY <1>1, <1>7
  <1>9. /\ new.status = "cooked" => new.cooked_at
        /\ row.cooked_at => new.cooked_at
        /\ req.op = "cooked" => new.cooked_at
    <2> HIDE DEF new
    <2> QED
      BY <1>1, <1>7, <1>8 DEF Sound
  <1>10. Sound(new)
    <2> HIDE DEF new
    <2> QED
      BY <1>4, <1>6, <1>9 DEF Sound
  <1> HIDE DEF new
  <1>11. Sound(new) /\ (row.cooked_at => new.cooked_at) /\ (req.op = "cooked" => new.cooked_at)
    BY <1>9, <1>10
  <1> QED
    BY <1>11 DEF new, values

(* What is written over an eater is again an eater.                         *)
LEMMA WrittenPerson ==
    ASSUME NEW values \in Person, NEW read, NEW row \in Person, NEW always
    PROVE  Written(values, read, row, always) \in Person
  <1> DEFINE new == Written(values, read, row, always)
             fields == {"age_band", "texture", "diet", "allergens", "avoided", "strict"}
  <1>1. DOMAIN row = fields /\ DOMAIN values = fields
    BY DEF Person
  <1>2. DOMAIN new = fields /\ \A f \in fields : new[f] = values[f] \/ new[f] = row[f]
    BY <1>1 DEF Written
  <1>3. new = [age_band |-> new.age_band, texture |-> new.texture, diet |-> new.diet,
               allergens |-> new.allergens, avoided |-> new.avoided, strict |-> new.strict]
    BY <1>1 DEF Written
  <1> DEFINE textures == {None} \cup {InfantTextures[i] : i \in DOMAIN InfantTextures}
             diets == {Diets[i] : i \in DOMAIN Diets}
  <1>4. Person = [age_band : AgeBands, texture : textures, diet : diets,
                  allergens : SUBSET Allergens, avoided : SUBSET Ingredients, strict : BOOLEAN]
    BY DEF Person
  <1> HIDE DEF new, textures, diets
  <1>5. /\ new.age_band \in AgeBands /\ new.texture \in textures /\ new.diet \in diets
        /\ new.allergens \in SUBSET Allergens /\ new.avoided \in SUBSET Ingredients
        /\ new.strict \in BOOLEAN
    BY <1>2, <1>4
  <1>6. new \in Person
    BY <1>3, <1>4, <1>5
  <1> QED
    BY <1>6 DEF new

(***************************************************************************)
(* The inductive invariant                                                 *)
(***************************************************************************)
(* The tables: eaters as they are declared, rows that say what the records  *)
(* say, and suggestions that are sound.                                     *)
Tables ==
    /\ DOMAIN household_person = People
    /\ \A p \in People : household_person[p] # None => household_person[p] \in Person
    /\ DOMAIN product = Products
    /\ \A p \in Products : product[p].row = ToRecord(product[p].payload)
    /\ DOMAIN recipe_suggestion \subseteq Suggestions
    /\ \A s \in DOMAIN recipe_suggestion : Sound(recipe_suggestion[s])

Fields == {"pc", "req", "read", "row", "eaters", "lines", "staples", "strict"}

(* What a request has in hand at each point of its way.                     *)
InHand(t) ==
    /\ DOMAIN t = Fields
    /\ t.pc \in {"idle", "read", "stock", "generate", "flush", "commit"}
    /\ t.pc # "idle" => t.req \in Requests
    /\ t.pc \in {"stock", "generate"} => t.req.op = "suggest"
    /\ t.pc = "stock" => t.eaters \in SUBSET Person
    /\ t.pc = "generate" => Asking(t)
    /\ t.pc = "flush" =>
         IF IsVerdict(t.req) THEN IsSuggestion(t.read) ELSE t.req.op = "patch" /\ t.read \in Person
    /\ t.pc = "commit" =>
         IF IsVerdict(t.req) THEN Sound(t.row) ELSE t.req.op = "patch" /\ t.row \in Person

Hands == DOMAIN tx = Clients /\ \A c \in Clients : InHand(tx[c])

(* What a request knows of a row that others write: the cooking it has read *)
(* is still there, and the row it is about to put in its place has one if   *)
(* the row has, or if the request says so.                                  *)
Follows(t, rows) ==
    t.pc \in {"flush", "commit"} /\ IsVerdict(t.req) =>
      /\ t.req.id \in DOMAIN rows
      /\ t.pc = "flush" /\ t.read.cooked_at => rows[t.req.id].cooked_at
      /\ t.pc = "commit" /\ (rows[t.req.id].cooked_at \/ t.req.op = "cooked") => t.row.cooked_at

(* A row is held by one request at a time.                                  *)
Holds(t, s) == t.pc = "commit" /\ IsVerdict(t.req) /\ t.req.id = s

Ahead ==
    /\ \A c \in Clients : Follows(tx[c], recipe_suggestion)
    /\ \A c, d \in Clients : \A s : Holds(tx[c], s) /\ Holds(tx[d], s) => c = d

AnswerIsKept(answer, rows) ==
    answer # None /\ answer.status = "ok" /\ answer.req.op = "cooked" =>
      answer.req.id \in DOMAIN rows /\ rows[answer.req.id].cooked_at

Told == DOMAIN reply = Clients /\ \A c \in Clients : AnswerIsKept(reply[c], recipe_suggestion)

IInv == Tables /\ Hands /\ Ahead /\ Told

(* A request in hand whose record is changed is again such a record.        *)
LEMMA HandExcept ==
    ASSUME NEW t, InHand(t), NEW pc, NEW req, NEW read, NEW row,
           NEW eaters, NEW lines, NEW staples, NEW strict
    PROVE  /\ LET u == [t EXCEPT !.pc = pc, !.req = req]
              IN  DOMAIN u = Fields /\ u.pc = pc /\ u.req = req
           /\ LET u == [t EXCEPT !.pc = pc, !.eaters = eaters]
              IN  DOMAIN u = Fields /\ u.pc = pc /\ u.req = t.req /\ u.eaters = eaters
           /\ LET u == [t EXCEPT !.pc = pc, !.lines = lines, !.staples = staples, !.strict = strict]
              IN  /\ DOMAIN u = Fields /\ u.pc = pc /\ u.req = t.req
                  /\ u.eaters = t.eaters /\ u.lines = lines /\ u.strict = strict
           /\ LET u == [t EXCEPT !.pc = pc, !.read = read]
              IN  DOMAIN u = Fields /\ u.pc = pc /\ u.req = t.req /\ u.read = read
           /\ LET u == [t EXCEPT !.pc = pc, !.row = row]
              IN  DOMAIN u = Fields /\ u.pc = pc /\ u.req = t.req /\ u.row = row
  <1>1. DOMAIN t = Fields
    BY DEF InHand
  <1> QED
    BY <1>1 DEF Fields

LEMMA FreeHands == InHand(Free)
  BY DEF InHand, Free, Fields

LEMMA InitIInv == Init => IInv
  <1> SUFFICES ASSUME Init PROVE IInv
    OBVIOUS
  <1>1. Tables
    BY RecipesAssumption DEF Init, Tables, Sound
  <1>2. Hands
    BY FreeHands DEF Init, Hands
  <1>3. Ahead /\ Told
    BY DEF Init, Ahead, Told, Follows, Holds, AnswerIsKept, Free
  <1> QED
    BY <1>1, <1>2, <1>3 DEF IInv

(* A step that gives one request something sound to hold.                   *)
LEMMA GoKeepsHands ==
    ASSUME Hands, NEW c \in Clients, NEW fields, Go(c, fields), InHand(fields)
    PROVE  Hands'
  <1>1. tx' = [tx EXCEPT ![c] = fields]
    BY DEF Go
  <1>2. DOMAIN tx' = Clients /\ tx'[c] = fields /\ \A d \in Clients \ {c} : tx'[d] = tx[d]
    BY <1>1 DEF Hands
  <1>3. \A d \in Clients : InHand(tx'[d])
    BY <1>2 DEF Hands
  <1> QED
    BY <1>2, <1>3 DEF Hands

(* A step of one request that takes no cooking away, leaves the rows that   *)
(* others hold as they are, and knows of its own what it has to.            *)
LEMMA StepKeepsAhead ==
    ASSUME IInv, NEW c \in Clients, NEW fields, Go(c, fields),
           Follows(fields, recipe_suggestion'),
           \A s : Holds(fields, s) => \A d \in Clients \ {c} : ~Holds(tx[d], s),
           DOMAIN recipe_suggestion \subseteq DOMAIN recipe_suggestion',
           \A s \in DOMAIN recipe_suggestion :
             /\ recipe_suggestion[s].cooked_at => recipe_suggestion'[s].cooked_at
             /\ \A d \in Clients \ {c} : Holds(tx[d], s) => recipe_suggestion'[s] = recipe_suggestion[s]
    PROVE  Ahead'
  <1>1. tx' = [tx EXCEPT ![c] = fields]
    BY DEF Go
  <1>2. tx'[c] = fields /\ \A d \in Clients \ {c} : tx'[d] = tx[d]
    BY <1>1 DEF IInv, Hands
  <1>3. ASSUME NEW d \in Clients \ {c} PROVE Follows(tx[d], recipe_suggestion')
    <2>1. SUFFICES ASSUME tx[d].pc \in {"flush", "commit"}, IsVerdict(tx[d].req)
                   PROVE  Follows(tx[d], recipe_suggestion')
      BY DEF Follows
    <2>2. Follows(tx[d], recipe_suggestion)
      BY DEF IInv, Ahead
    <2>3. tx[d].pc = "commit" => Holds(tx[d], tx[d].req.id)
      BY <2>1 DEF Holds
    <2> QED
      BY <2>1, <2>2, <2>3 DEF Follows
  <1>4. \A d \in Clients : Follows(tx'[d], recipe_suggestion')
    BY <1>2, <1>3
  <1>5. \A d, e \in Clients : \A s : Holds(tx'[d], s) /\ Holds(tx'[e], s) => d = e
    BY <1>2 DEF IInv, Ahead
  <1> QED
    BY <1>4, <1>5 DEF Ahead

(* Most steps write no suggestion and tell of no cooking.                   *)
LEMMA QuietStep ==
    ASSUME IInv, NEW c \in Clients, NEW fields, Go(c, fields), InHand(fields),
           UNCHANGED recipe_suggestion, Follows(fields, recipe_suggestion),
           fields.pc = "commit" => ~IsVerdict(fields.req),
           \/ UNCHANGED reply
           \/ \E answer : /\ reply' = [reply EXCEPT ![c] = answer]
                          /\ AnswerIsKept(answer, recipe_suggestion)
    PROVE  Hands' /\ Ahead' /\ Told'
  <1>1. Hands'
    BY GoKeepsHands DEF IInv
  <1>2. Ahead'
    BY StepKeepsAhead DEF Holds
  <1>3. Told'
    BY DEF IInv, Told
  <1> QED
    BY <1>1, <1>2, <1>3

LEMMA FreeFollows == ASSUME NEW rows PROVE Follows(Free, rows) /\ Free.pc = "idle"
  BY DEF Follows, Free

(* A refusal, or another answer than that a dish was cooked.                *)
LEMMA OtherAnswer ==
    ASSUME NEW req, NEW status, NEW rows, status # "ok" \/ req.op # "cooked"
    PROVE  AnswerIsKept([req |-> req, status |-> status], rows)
  BY DEF AnswerIsKept

LEMMA RollbackKeepsIInv ==
    ASSUME IInv, NEW c \in Clients, NEW status, status # "ok", Rollback(c, status)
    PROVE  IInv'
  <1>1. AnswerIsKept([req |-> tx[c].req, status |-> status], recipe_suggestion)
    BY OtherAnswer
  <1>2. Hands' /\ Ahead' /\ Told'
    BY <1>1, FreeHands, FreeFollows, QuietStep DEF Rollback
  <1>3. Tables'
    BY DEF Rollback, IInv, Tables
  <1> QED
    BY <1>2, <1>3 DEF IInv

(* A request that ends well without a word of a cooking, and writes another *)
(* table.                                                                   *)
LEMMA AnswerKeepsRest ==
    ASSUME IInv, NEW c \in Clients, UNCHANGED recipe_suggestion, Go(c, Free), tx[c].req.op # "cooked",
           reply' = [reply EXCEPT ![c] = [req |-> tx[c].req, status |-> "ok"]]
    PROVE  Hands' /\ Ahead' /\ Told'
  <1>1. AnswerIsKept([req |-> tx[c].req, status |-> "ok"], recipe_suggestion)
    BY OtherAnswer
  <1> QED
    BY <1>1, FreeHands, FreeFollows, QuietStep

(* The columns of the tables are left alone by most steps.                  *)
LEMMA TablesStay ==
    ASSUME Tables, UNCHANGED <<household_person, product, recipe_suggestion>>
    PROVE  Tables'
  BY DEF Tables

LEMMA BeginKeepsIInv ==
    ASSUME IInv, NEW c \in Clients, Begin(c)
    PROVE  IInv'
  <1>1. PICK req \in Requests : Go(c, [Free EXCEPT !.pc = "read", !.req = req])
    BY DEF Begin
  <1>2. InHand([Free EXCEPT !.pc = "read", !.req = req])
    BY FreeHands, HandExcept DEF InHand
  <1>3. Hands' /\ Ahead' /\ Told'
    <2>1. [Free EXCEPT !.pc = "read", !.req = req].pc = "read"
      BY FreeHands, HandExcept
    <2>2. Follows([Free EXCEPT !.pc = "read", !.req = req], recipe_suggestion)
      BY <2>1 DEF Follows
    <2>3. AnswerIsKept(None, recipe_suggestion)
      BY DEF AnswerIsKept
    <2> QED
      BY <1>1, <1>2, <2>1, <2>2, <2>3, QuietStep DEF Begin
  <1>4. Tables'
    BY TablesStay DEF Begin, IInv
  <1> QED
    BY <1>3, <1>4 DEF IInv

LEMMA ReadEatersKeepsIInv ==
    ASSUME IInv, NEW c \in Clients, ReadEaters(c)
    PROVE  IInv'
  <1> DEFINE named == IF tx[c].req.people = {} THEN {p \in People : household_person[p] # None}
                      ELSE tx[c].req.people
             eaters == {household_person[p] : p \in named}
  <1>1. CASE \E p \in named : household_person[p] = None
    BY <1>1, RollbackKeepsIInv DEF ReadEaters
  <1>2. CASE ~ \E p \in named : household_person[p] = None
    <2>1. InHand(tx[c]) /\ tx[c].pc = "read" /\ tx[c].req.op = "suggest"
      BY DEF ReadEaters, IInv, Hands
    <2>2. named \subseteq People
      BY <2>1, RecipesAssumption DEF InHand
    <2>3. eaters \in SUBSET Person
      BY <1>2, <2>2 DEF IInv, Tables
    <2>4. Go(c, [tx[c] EXCEPT !.pc = "stock", !.eaters = eaters])
      BY <1>2 DEF ReadEaters
    <2> HIDE DEF named, eaters
    <2>5. InHand([tx[c] EXCEPT !.pc = "stock", !.eaters = eaters])
      BY <2>1, <2>3, HandExcept DEF InHand
    <2>6. Hands' /\ Ahead' /\ Told'
      <3>1. [tx[c] EXCEPT !.pc = "stock", !.eaters = eaters].pc = "stock"
        BY <2>1, HandExcept
      <3>2. Follows([tx[c] EXCEPT !.pc = "stock", !.eaters = eaters], recipe_suggestion)
        BY <3>1 DEF Follows
      <3>3. UNCHANGED <<recipe_suggestion, reply>>
        BY <1>2 DEF ReadEaters, named
      <3> QED
        BY <2>4, <2>5, <3>1, <3>2, <3>3, QuietStep
    <2>7. Tables'
      BY <1>2, TablesStay DEF ReadEaters, IInv, named
    <2> QED
      BY <2>6, <2>7 DEF IInv
  <1> QED
    BY <1>1, <1>2

(* What passes the screen is offered: the rows are what the records say.    *)
LEMMA ScreenOffers ==
    ASSUME Tables, NEW people, NEW stock, DOMAIN stock \subseteq Nat,
           \A i \in DOMAIN stock : stock[i].row = ToRecord(stock[i].payload)
    PROVE  LET u == UnionOf(people)
               offered == Screen(stock, u, RulesFor(u.age_bands)).offered
           IN  DOMAIN offered \subseteq Nat /\ \A i \in DOMAIN offered : Offered(offered[i], people)
  <1> DEFINE u == UnionOf(people)
             rules == RulesFor(u.age_bands)
             passing == {i \in DOMAIN stock : WithholdReason(stock[i], u, rules) = None}
             offered == Screen(stock, u, rules).offered
  <1>1. offered = [i \in passing |-> stock[i]]
    BY DEF Screen
  <1>2. \A i \in passing : Offered(stock[i], people)
    BY DEF Offered
  <1> HIDE DEF offered
  <1>3. DOMAIN offered \subseteq Nat /\ \A i \in DOMAIN offered : Offered(offered[i], people)
    BY <1>1, <1>2
  <1> QED
    BY <1>3 DEF offered

LEMMA ReadStockKeepsIInv ==
    ASSUME IInv, NEW c \in Clients, ReadStock(c)
    PROVE  IInv'
  <1> DEFINE t == tx[c]
             constraints == UnionOf(t.eaters)
             rules == RulesFor(constraints.age_bands)
             read == SubSeq(Stock, 1, IF Len(Stock) < MaxItems THEN Len(Stock) ELSE MaxItems)
             lines == [i \in DOMAIN read |-> Line(read[i])]
             screened == Screen(lines, constraints, rules)
             next == [t EXCEPT !.pc = "generate", !.lines = screened.offered,
                               !.staples = StaplesAllowedFor(constraints, rules),
                               !.strict = StrictInventory(constraints, rules)]
  <1>1. CASE read # <<>> /\ DOMAIN screened.offered = {}
    BY <1>1, RollbackKeepsIInv DEF ReadStock
  <1>2. CASE ~ (read # <<>> /\ DOMAIN screened.offered = {})
    <2>1. InHand(t) /\ t.pc = "stock"
      BY DEF ReadStock, IInv, Hands
    <2>2. DOMAIN read \subseteq Nat /\ \A i \in DOMAIN read : read[i].product \in Products
      BY RecipesAssumption
    <2>3. DOMAIN lines \subseteq Nat /\ \A i \in DOMAIN lines : lines[i].row = ToRecord(lines[i].payload)
      <3> HIDE DEF read
      <3> QED
        BY <2>2 DEF IInv, Tables, Line
    <2>4. /\ DOMAIN screened.offered \subseteq Nat
          /\ \A i \in DOMAIN screened.offered : Offered(screened.offered[i], t.eaters)
      <3> HIDE DEF lines
      <3> QED
        BY <2>3, ScreenOffers DEF IInv
    <2>5. Go(c, next)
      BY <1>2 DEF ReadStock
    <2>6. InHand(next)
      <3> HIDE DEF screened, constraints, rules
      <3>1. /\ next.pc = "generate" /\ next.req = t.req /\ next.eaters = t.eaters
            /\ next.lines = screened.offered /\ next.strict = StrictInventory(constraints, rules)
            /\ DOMAIN next = Fields
        BY <2>1, HandExcept
      <3> HIDE DEF next
      <3>2. Asking(next)
        BY <2>1, <2>4, <3>1 DEF Asking, InHand, constraints, rules
      <3> QED
        BY <2>1, <3>1, <3>2 DEF InHand
    <2>7. Hands' /\ Ahead' /\ Told'
      <3>1. UNCHANGED <<recipe_suggestion, reply>>
        BY <1>2 DEF ReadStock
      <3> HIDE DEF screened, constraints, rules
      <3>2. next.pc = "generate"
        BY <2>1, HandExcept
      <3> HIDE DEF next
      <3>3. Follows(next, recipe_suggestion)
        BY <3>2 DEF Follows
      <3> QED
        BY <2>5, <2>6, <3>1, <3>2, <3>3, QuietStep
    <2>8. Tables'
      BY <1>2, TablesStay DEF ReadStock, IInv
    <2> QED
      BY <2>7, <2>8 DEF IInv
  <1> QED
    BY <1>1, <1>2

LEMMA GenerateKeepsIInv ==
    ASSUME IInv, NEW c \in Clients, Generate(c)
    PROVE  IInv'
  <1> DEFINE t == tx[c]
             Judged(answer) == Accepted(answer, t.lines, t.staples, t.strict)
             unused == Suggestions \ DOMAIN recipe_suggestion
  <1>1. PICK answer \in SUBSET Dishes :
          /\ ExistsInjection(Judged(answer), unused)
          /\ IF answer # {} /\ Judged(answer) = {} THEN Rollback(c, "constraint_violation_detected")
             ELSE /\ LET id == CHOOSE f \in Injection(Judged(answer), unused) : TRUE
                     IN  recipe_suggestion' =
                           [s \in DOMAIN recipe_suggestion \cup {id[r] : r \in Judged(answer)} |->
                              IF \E r \in Judged(answer) : id[r] = s
                              THEN NewSuggestion(c, CHOOSE r \in Judged(answer) : id[r] = s)
                              ELSE recipe_suggestion[s]]
                  /\ reply' = [reply EXCEPT ![c] = [req |-> t.req, status |-> "ok"]]
                  /\ Go(c, Free)
                  /\ UNCHANGED <<household_person, product, issued>>
    BY Zenon DEF Generate
  <1> DEFINE kept == Judged(answer)
  <1>2. CASE answer # {} /\ kept = {}
    BY <1>1, <1>2, RollbackKeepsIInv
  <1>3. CASE ~ (answer # {} /\ kept = {})
    <2>1. InHand(t) /\ t.pc = "generate"
      BY DEF Generate, IInv, Hands
    <2>2. \A r \in kept : Sound(NewSuggestion(c, r))
      BY <2>1, NewIsSound DEF InHand
    <2> DEFINE id == CHOOSE f \in Injection(kept, unused) : TRUE
    <2>3. recipe_suggestion' =
            [s \in DOMAIN recipe_suggestion \cup {id[r] : r \in kept} |->
               IF \E r \in kept : id[r] = s THEN NewSuggestion(c, CHOOSE r \in kept : id[r] = s)
               ELSE recipe_suggestion[s]]
      BY <1>1, <1>3
    <2>4. id \in [kept -> unused]
      BY <1>1 DEF ExistsInjection, Injection
    <2> HIDE DEF kept, id
    <2>5. \A s \in DOMAIN recipe_suggestion' : s \in DOMAIN recipe_suggestion \/ Sound(recipe_suggestion'[s])
      <3> SUFFICES ASSUME NEW s \in DOMAIN recipe_suggestion', \E r \in kept : id[r] = s
                   PROVE  Sound(recipe_suggestion'[s])
        BY <2>3
      <3>1. (CHOOSE r \in kept : id[r] = s) \in kept
        OBVIOUS
      <3> QED
        BY <2>2, <2>3, <3>1
    <2>6. /\ DOMAIN recipe_suggestion \subseteq DOMAIN recipe_suggestion'
          /\ DOMAIN recipe_suggestion' \subseteq Suggestions
      BY <2>3, <2>4 DEF IInv, Tables
    <2>7. \A s \in DOMAIN recipe_suggestion : recipe_suggestion'[s] = recipe_suggestion[s]
      BY <2>3, <2>4
    <2>8. Tables'
      BY <2>5, <2>6, <2>7, <1>1, <1>3 DEF IInv, Tables, kept
    <2>9. Ahead'
      BY <1>1, <1>3, <2>6, <2>7, FreeFollows, StepKeepsAhead DEF Holds, kept
    <2>10. Told'
      <3>1. AnswerIsKept([req |-> t.req, status |-> "ok"], recipe_suggestion')
        BY <2>1, OtherAnswer DEF InHand
      <3> QED
        BY <1>1, <1>3, <2>6, <2>7, <3>1 DEF IInv, Told, AnswerIsKept, kept
    <2>11. Hands'
      BY <1>1, <1>3, FreeHands, GoKeepsHands DEF IInv, kept
    <2> QED
      BY <2>8, <2>9, <2>10, <2>11 DEF IInv
  <1> QED
    BY <1>2, <1>3

LEMMA ReadKeepsIInv ==
    ASSUME IInv, NEW c \in Clients, Read(c)
    PROVE  IInv'
  <1> DEFINE req == tx[c].req
             row == IF IsVerdict(req) THEN recipe_suggestion[req.id] ELSE household_person[req.id]
             refused == req.op = "patch" /\ ~PersonChecks(Patched(req, row))
  <1>1. InHand(tx[c]) /\ tx[c].pc = "read" /\ (IsVerdict(req) \/ req.op = "patch")
    BY DEF Read, IInv, Hands
  <1>2. CASE ~IsThere(req) \/ refused
    <2>1. \E status : status # "ok" /\ Rollback(c, status)
      BY <1>2, Zenon DEF Read
    <2> QED
      BY <2>1, RollbackKeepsIInv
  <1>3. CASE IsThere(req) /\ ~refused
    <2>1. /\ Go(c, [tx[c] EXCEPT !.pc = "flush", !.read = row])
          /\ UNCHANGED <<household_person, product, recipe_suggestion, reply>>
      BY <1>3, Zenon DEF Read
    <2>2. IF IsVerdict(req) THEN IsSuggestion(row) ELSE req.op = "patch" /\ row \in Person
      <3>1. CASE IsVerdict(req)
        <4>1. row = recipe_suggestion[req.id] /\ req.id \in DOMAIN recipe_suggestion
          BY <1>3, <3>1 DEF IsThere
        <4>2. IsSuggestion(recipe_suggestion[req.id])
          <5> HIDE DEF row
          <5> QED
            BY <4>1 DEF IInv, Tables, Sound
        <4> HIDE DEF row
        <4> QED
          BY <3>1, <4>1, <4>2
      <3>2. CASE ~IsVerdict(req)
        <4>1. row = household_person[req.id] /\ req.id \in People
          BY <1>1, <3>2, RecipesAssumption DEF InHand
        <4>2. household_person[req.id] \in Person
          <5> HIDE DEF row
          <5> QED
            BY <1>3, <3>2, <4>1 DEF IsThere, IInv, Tables
        <4> HIDE DEF row
        <4> QED
          BY <1>1, <3>2, <4>1, <4>2
      <3> QED
        BY <3>1, <3>2
    <2>3. IsVerdict(req) => row = recipe_suggestion[req.id] /\ req.id \in DOMAIN recipe_suggestion
      BY <1>3 DEF IsThere
    <2> HIDE DEF row
    <2>4. InHand([tx[c] EXCEPT !.pc = "flush", !.read = row])
      BY <1>1, <2>2, HandExcept DEF InHand
    <2>5. Hands' /\ Ahead' /\ Told'
      <3> DEFINE next == [tx[c] EXCEPT !.pc = "flush", !.read = row]
      <3>1. next.pc = "flush" /\ next.req = req /\ next.read = row
        BY <1>1, HandExcept
      <3> HIDE DEF next
      <3>2. Follows(next, recipe_suggestion)
        BY <2>3, <3>1 DEF Follows
      <3>3. InHand(next) /\ Go(c, next)
        BY <2>1, <2>4 DEF next
      <3> QED
        BY <2>1, <3>1, <3>2, <3>3, QuietStep
    <2>6. Tables'
      BY <2>1, TablesStay DEF IInv
    <2> QED
      BY <2>5, <2>6 DEF IInv
  <1> HIDE DEF row, refused
  <1> QED
    BY <1>2, <1>3

(* Whatever was written meanwhile, what is about to be written is sound.    *)
LEMMA FlushKeepsIInv ==
    ASSUME IInv, NEW c \in Clients, Flush(c)
    PROVE  IInv'
  <1> DEFINE req == tx[c].req
             read == tx[c].read
             always == IF req.op = "clear" THEN {} ELSE {"dated"}
             row == IF IsVerdict(req) THEN recipe_suggestion[req.id] ELSE household_person[req.id]
             new == IF IsVerdict(req) THEN Written(Verdict(req, read), read, row, always)
                    ELSE Written(Patched(req, read), read, row, {})
             checked == IF IsVerdict(req) THEN SuggestionChecks(new) ELSE PersonChecks(new)
  <1>1. InHand(tx[c]) /\ tx[c].pc = "flush"
    BY DEF Flush, IInv, Hands
  <1>2. CASE ~IsThere(req) \/ ~checked
    <2>1. \E status : status # "ok" /\ Rollback(c, status)
      BY <1>2, Zenon DEF Flush
    <2> QED
      BY <2>1, RollbackKeepsIInv
  <1>3. CASE IsThere(req) /\ checked
    <2> DEFINE next == [tx[c] EXCEPT !.pc = "commit", !.row = new]
    <2>1. /\ Go(c, next) /\ \A d \in Clients : ~Held(c, d)
          /\ UNCHANGED <<household_person, product, recipe_suggestion, reply>>
      BY <1>3, Zenon DEF Flush
    <2>2. next.pc = "commit" /\ next.req = req /\ next.row = new /\ DOMAIN next = Fields
      <3> HIDE DEF new, req
      <3> QED
        BY <1>1, HandExcept DEF req
    <2>3. Tables'
      BY <2>1, TablesStay DEF IInv
    <2>4. CASE IsVerdict(req)
      <3>1. req.id \in DOMAIN recipe_suggestion /\ IsSuggestion(read) /\ req \in Requests
        BY <1>1, <1>3, <2>4 DEF IsThere, InHand
      <3>2. row = recipe_suggestion[req.id] /\ Sound(row)
        BY <2>4, <3>1 DEF IInv, Tables
      <3>3. read.cooked_at => row.cooked_at
        BY <1>1, <2>4, <3>2 DEF IInv, Ahead, Follows
      <3>4. /\ Sound(new)
            /\ row.cooked_at => new.cooked_at
            /\ req.op = "cooked" => new.cooked_at
        <4>1. "cooked_at" \notin always
          OBVIOUS
        <4> HIDE DEF row, always, req, read
        <4> QED
          BY <2>4, <3>1, <3>2, <3>3, <4>1, VerdictKeepsSound
      <3> HIDE DEF new, next, row
      <3>5. InHand(next)
        BY <1>1, <2>2, <2>4, <3>1, <3>4 DEF InHand
      <3>6. Follows(next, recipe_suggestion)
        BY <2>2, <3>1, <3>2, <3>4 DEF Follows
      <3>7. \A s : Holds(next, s) => \A d \in Clients \ {c} : ~Holds(tx[d], s)
        BY <2>1, <2>2, <2>4 DEF Holds, Held
      <3>8. Ahead'
        BY <2>1, <3>6, <3>7, StepKeepsAhead
      <3>9. Hands' /\ Told'
        BY <2>1, <3>5, GoKeepsHands DEF IInv, Told
      <3> QED
        BY <2>3, <3>8, <3>9 DEF IInv
    <2>5. CASE ~IsVerdict(req)
      <3>1. req.op = "patch" /\ row \in Person /\ Patched(req, read) \in Person /\ req \in Requests
        BY <1>1, <1>3, <2>5, RecipesAssumption DEF IsThere, InHand, IInv, Tables
      <3>2. new \in Person
        <4> HIDE DEF row
        <4> QED
          BY <2>5, <3>1, WrittenPerson
      <3> HIDE DEF new, next
      <3>3. InHand(next) /\ Follows(next, recipe_suggestion)
        BY <1>1, <2>2, <2>5, <3>1, <3>2 DEF InHand, Follows
      <3>4. Hands' /\ Ahead' /\ Told'
        BY <2>1, <2>2, <2>5, <3>3, QuietStep
      <3> QED
        BY <2>3, <3>4 DEF IInv
    <2> QED
      BY <2>4, <2>5
  <1> QED
    BY <1>2, <1>3

(* The steps that end a request with an answer write one sound row at most. *)
LEMMA CommitKeepsIInv ==
    ASSUME IInv, NEW c \in Clients, Commit(c)
    PROVE  IInv'
  <1> DEFINE t == tx[c]
  <1>1. InHand(t) /\ t.pc = "commit"
    BY DEF Commit, IInv, Hands
  <1>2. Hands' /\ Go(c, Free) /\ reply' = [reply EXCEPT ![c] = [req |-> t.req, status |-> "ok"]]
    BY FreeHands, GoKeepsHands DEF Commit, IInv
  <1>3. CASE IsVerdict(t.req)
    <2>1. Sound(t.row)
      BY <1>1, <1>3 DEF InHand
    <2>2. /\ recipe_suggestion' = [recipe_suggestion EXCEPT ![t.req.id] = t.row]
          /\ UNCHANGED <<household_person, product>>
      BY <1>3 DEF Commit
    <2>3. Tables'
      BY <2>1, <2>2 DEF IInv, Tables
    <2>4. t.req.id \in DOMAIN recipe_suggestion
      BY <1>1, <1>3 DEF IInv, Ahead, Follows
    <2>5. /\ recipe_suggestion'[t.req.id] = t.row /\ DOMAIN recipe_suggestion' = DOMAIN recipe_suggestion
          /\ recipe_suggestion[t.req.id].cooked_at \/ t.req.op = "cooked" => t.row.cooked_at
          /\ \A s \in DOMAIN recipe_suggestion \ {t.req.id} : recipe_suggestion'[s] = recipe_suggestion[s]
      BY <1>1, <1>3, <2>2, <2>4 DEF IInv, Ahead, Follows
    <2>6. \A d \in Clients \ {c} : ~Holds(tx[d], t.req.id)
      BY <1>1, <1>3 DEF IInv, Ahead, Holds
    <2>7. Ahead'
      BY <1>2, <2>4, <2>5, <2>6, FreeFollows, StepKeepsAhead DEF Holds
    <2>8. Told'
      <3>1. AnswerIsKept([req |-> t.req, status |-> "ok"], recipe_suggestion')
        BY <2>4, <2>5 DEF AnswerIsKept
      <3> QED
        BY <1>2, <2>5, <3>1 DEF IInv, Told, AnswerIsKept
    <2> QED
      BY <1>2, <2>3, <2>7, <2>8 DEF IInv
  <1>4. CASE ~IsVerdict(t.req)
    <2>1. t.row \in Person
      BY <1>1, <1>4 DEF InHand
    <2>2. /\ household_person' = [household_person EXCEPT ![t.req.id] = t.row]
          /\ UNCHANGED <<recipe_suggestion, product>>
      BY <1>4 DEF Commit
    <2>3. Tables'
      BY <2>1, <2>2 DEF IInv, Tables
    <2>4. Ahead' /\ Told'
      BY <1>1, <1>2, <1>4, <2>2, AnswerKeepsRest DEF IsVerdict
    <2> QED
      BY <1>2, <2>3, <2>4 DEF IInv
  <1> QED
    BY <1>3, <1>4

LEMMA EnterKeepsIInv ==
    ASSUME IInv, NEW c \in Clients, Enter(c)
    PROVE  IInv'
  <1> DEFINE req == tx[c].req
  <1>1. CASE ~PersonChecks(req.patch)
    BY <1>1, RollbackKeepsIInv DEF Enter
  <1>2. CASE PersonChecks(req.patch)
    <2>1. InHand(tx[c]) /\ tx[c].pc = "read" /\ req.op = "create"
      BY DEF Enter, IInv, Hands
    <2>2. req.patch \in Person
      BY <2>1, RecipesAssumption DEF InHand
    <2>3. PICK q : household_person' = [household_person EXCEPT ![q] = req.patch]
      BY <1>2 DEF Enter
    <2>4. Tables'
      BY <1>2, <2>2, <2>3 DEF Enter, IInv, Tables
    <2>5. Hands' /\ Ahead' /\ Told'
      BY <1>2, AnswerKeepsRest DEF Enter
    <2> QED
      BY <2>4, <2>5 DEF IInv
  <1> QED
    BY <1>1, <1>2

LEMMA LeaveKeepsIInv ==
    ASSUME IInv, NEW c \in Clients, Leave(c)
    PROVE  IInv'
  <1> DEFINE req == tx[c].req
  <1>1. CASE household_person[req.id] = None
    BY <1>1, RollbackKeepsIInv DEF Leave
  <1>2. CASE household_person[req.id] # None
    <2>1. household_person' = [household_person EXCEPT ![req.id] = None]
          /\ UNCHANGED <<product, recipe_suggestion>>
      BY <1>2 DEF Leave
    <2>2. Tables'
      BY <2>1 DEF IInv, Tables
    <2>3. Hands' /\ Ahead' /\ Told'
      BY <1>2, AnswerKeepsRest DEF Leave
    <2> QED
      BY <2>2, <2>3 DEF IInv
  <1> QED
    BY <1>1, <1>2

LEMMA RefreshKeepsIInv ==
    ASSUME IInv, NEW c \in Clients, Refresh(c)
    PROVE  IInv'
  <1> DEFINE req == tx[c].req
             row == ToRecord(req.payload)
  <1>1. CASE ~ProductChecks(row)
    BY <1>1, RollbackKeepsIInv DEF Refresh
  <1>2. CASE ProductChecks(row)
    <2>1. product' = [product EXCEPT ![req.id] = [row |-> row, payload |-> req.payload]]
          /\ UNCHANGED <<household_person, recipe_suggestion>>
      BY <1>2 DEF Refresh
    <2>2. \A p \in Products : product'[p].row = ToRecord(product'[p].payload)
      <3> HIDE DEF row
      <3>1. \A p \in Products : \/ product'[p] = product[p]
                                \/ product'[p] = [row |-> row, payload |-> req.payload]
        BY <2>1 DEF IInv, Tables
      <3> QED
        BY <3>1 DEF IInv, Tables, row
    <2>3. Tables'
      BY <2>1, <2>2 DEF IInv, Tables
    <2>4. Hands' /\ Ahead' /\ Told'
      BY <1>2, AnswerKeepsRest DEF Refresh
    <2> QED
      BY <2>3, <2>4 DEF IInv
  <1> QED
    BY <1>1, <1>2

LEMMA NextIInv == IInv /\ [Next]_vars => IInv'
  <1> SUFFICES ASSUME IInv, [Next]_vars PROVE IInv'
    OBVIOUS
  <1>1. CASE UNCHANGED vars
    BY <1>1 DEF vars, IInv, Tables, Hands, Ahead, Told
  <1>2. ASSUME NEW c \in Clients, Begin(c) PROVE IInv'
    BY <1>2, BeginKeepsIInv
  <1>3. ASSUME NEW c \in Clients, ReadEaters(c) PROVE IInv'
    BY <1>3, ReadEatersKeepsIInv
  <1>4. ASSUME NEW c \in Clients, ReadStock(c) PROVE IInv'
    BY <1>4, ReadStockKeepsIInv
  <1>5. ASSUME NEW c \in Clients, Generate(c) PROVE IInv'
    BY <1>5, GenerateKeepsIInv
  <1>6. ASSUME NEW c \in Clients, ProviderFails(c) PROVE IInv'
    BY <1>6, RollbackKeepsIInv DEF ProviderFails
  <1>7. ASSUME NEW c \in Clients, Read(c) PROVE IInv'
    BY <1>7, ReadKeepsIInv
  <1>8. ASSUME NEW c \in Clients, Flush(c) PROVE IInv'
    BY <1>8, FlushKeepsIInv
  <1>9. ASSUME NEW c \in Clients, Commit(c) PROVE IInv'
    BY <1>9, CommitKeepsIInv
  <1>10. ASSUME NEW c \in Clients, Enter(c) PROVE IInv'
    BY <1>10, EnterKeepsIInv
  <1>11. ASSUME NEW c \in Clients, Leave(c) PROVE IInv'
    BY <1>11, LeaveKeepsIInv
  <1>12. ASSUME NEW c \in Clients, Refresh(c) PROVE IInv'
    BY <1>12, RefreshKeepsIInv
  <1> QED
    BY <1>1, <1>2, <1>3, <1>4, <1>5, <1>6, <1>7, <1>8, <1>9, <1>10, <1>11, <1>12 DEF Next

(***************************************************************************)
(* Theorems                                                                *)
(***************************************************************************)
(* What was kept for some eaters can be served to each of them, whatever    *)
(* was edited while the model was thinking and whatever it answered.        *)
THEOREM SuggestionsCanBeServed == Spec => []SuggestedCanBeServed
  <1>1. IInv => SuggestedCanBeServed
    BY DEF IInv, Tables, Sound, SuggestedCanBeServed
  <1> QED
    BY <1>1, InitIInv, NextIInv, PTL DEF Spec

(* No verdict that crosses another loses a cooking somebody was told of, or *)
(* tells of one that never was.                                             *)
THEOREM NoCookingIsLost == Spec => []CookingsAreKept
  <1>1. IInv => CookingsAreKept
    BY DEF IInv, Tables, Sound, Told, AnswerIsKept, CookingsAreKept
  <1> QED
    BY <1>1, InitIInv, NextIInv, PTL DEF Spec
=============================================================================
