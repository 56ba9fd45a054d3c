--------------------------- MODULE ProductCatalogue ---------------------------
(***************************************************************************)
(* The shared product catalogue: a barcode is looked up in the public rows *)
(* of the table product, then at Open Food Facts (services/products.py,    *)
(* infra/repositories/products.py, infra/openfoodfacts.py).  A lookup is   *)
(* one READ COMMITTED transaction that stays open while the HTTP call is   *)
(* made; it is rolled back when the request ends in an exception.  Each    *)
(* worker limits its own calls with a sliding window.  Times are those of  *)
(* the application; the limit on incoming lookups is in Throttling.        *)
(***************************************************************************)
EXTENDS Integers, Sequences

CONSTANTS
    Clients,      \* lookups that can be in flight together
    Workers,      \* processes
    WorkerOf,     \* the worker that serves each client
    Gtins,        \* barcodes, normalised
    Internal,     \* those of them a retailer prints for itself
    Records,      \* what the catalogue may say of a product
    OddUnits,     \* the records whose net content our units cannot express
    Hand,         \* what a human wrote of a product
    Ttl,          \* ticks a row stays fresh
    Window,       \* ticks of the sliding window
    MaxCalls,     \* calls in one window
    MaxQueueWait, \* ticks a caller may wait for one
    None,
    MaxNow,       \* bound: ticks
    MaxRequests,  \* bound: lookups
    MaxEdits      \* bound: edits of the catalogue by its contributors

ASSUME CatalogueAssumption ==
    /\ WorkerOf \in [Clients -> Workers]
    /\ Internal \subseteq Gtins /\ OddUnits \subseteq Records
    /\ Ttl \in Nat /\ MaxQueueWait \in Nat /\ Window \in Nat \ {0} /\ MaxCalls \in Nat \ {0}
    /\ MaxNow \in Nat /\ MaxRequests \in Nat /\ MaxEdits \in Nat
    /\ Hand \notin Records /\ None \notin Records \cup Gtins \cup {Hand} \cup Int
    /\ Hand # "absent" /\ "absent" \notin Records /\ None # "absent"

VARIABLES
    now,       \* the clock
    upstream,  \* what Open Food Facts knows of each barcode, None when nothing
    row,       \* the committed public row of each barcode, or None
    calls,     \* the calls each worker remembers, oldest first
    made,      \* the times of all calls it has made since it started
    tx,        \* what each client is doing
    reply,     \* what each client was last answered
    issued,    \* lookups so far
    edits      \* edits so far

vars == <<now, upstream, row, calls, made, tx, reply, issued, edits>>

Times == 0 .. MaxNow
Absent == "absent"     \* the payload of a negative cache entry
Unknown == "unknown"   \* nothing is declared

(* declared stands for every column read from the taxonomies (allergens,    *)
(* ingredients, food groups, keeping family), label for the others.         *)
Row == [source : {"open_food_facts", "manual"},
        label : Records \cup {Hand, None},
        declared : Records \cup {Hand, Unknown},
        payload : Records \cup {Absent, None},
        synced : Times \cup {None},
        archived : Times \cup {None}]

ASSUME RowAssumption == None \notin Row

(* seen: the row find_cached read; base: the row read again before writing. *)
IdleTx == [phase |-> "idle", gtin |-> None, seen |-> None, since |-> 0, wake |-> 0,
           record |-> None, base |-> None, at |-> 0]

NoReply == [outcome |-> None, gtin |-> None, at |-> 0]

-----------------------------------------------------------------------------
(* What is written of a record.                                             *)

IsAbsence(p) == p.payload = Absent

(* _sanitise builds the record anew without its unit, and without any of    *)
(* the fields that have a default.                                          *)
Declared(r) == IF r \in OddUnits THEN Unknown ELSE r

FromRecord(r, at) ==
    [source |-> "open_food_facts", label |-> r, declared |-> Declared(r),
     payload |-> r, synced |-> at, archived |-> None]

Corrected == [source |-> "manual", label |-> Hand, declared |-> Hand,
              payload |-> None, synced |-> None, archived |-> None]

Tombstone(at) ==
    [source |-> "open_food_facts", label |-> None, declared |-> Unknown,
     payload |-> Absent, synced |-> at, archived |-> at]

Upsert(base, r, at) ==
    IF base # None /\ base.source = "manual" THEN [base EXCEPT !.synced = at]
    ELSE FromRecord(r, at)

RememberAbsent(base, at) ==
    IF base = None THEN Tombstone(at)
    ELSE IF IsAbsence(base) THEN [base EXCEPT !.synced = at, !.archived = at]
    ELSE base

Image(t) == IF t.record = None THEN RememberAbsent(t.base, t.at)
            ELSE Upsert(t.base, t.record, t.at)

(* Mutant: the columns that are not named are cleared.                      *)
MutChangedClears(current, base, image) ==
    [col \in DOMAIN image |-> IF image[col] = base[col] THEN None ELSE image[col]]

(* An UPDATE names the columns that differ from the row that was read.      *)
Changed(current, base, image) ==
    [col \in DOMAIN image |-> IF image[col] = base[col] THEN current[col] ELSE image[col]]

-----------------------------------------------------------------------------
Init ==
    /\ now = 0
    /\ upstream \in {u \in [Gtins -> Records \cup {None}] : \A g \in Internal : u[g] = None}
    /\ row \in {f \in [Gtins -> {None, Corrected} \cup {FromRecord(r, 0) : r \in Records}] :
                   \A g \in Internal : f[g] = None}
    /\ calls = [w \in Workers |-> <<>>]
    /\ made = [w \in Workers |-> <<>>]
    /\ tx = [c \in Clients |-> IdleTx]
    /\ reply = [c \in Clients |-> NoReply]
    /\ issued = 0 /\ edits = 0

Go(c, t) ==
    /\ tx' = [tx EXCEPT ![c] = t]
    /\ UNCHANGED reply

(* The request ends, and its transaction with it.                           *)
Answer(c, g, outcome) ==
    /\ tx' = [tx EXCEPT ![c] = IdleTx]
    /\ reply' = [reply EXCEPT ![c] =
                    CASE outcome = "notfound" -> [NoReply EXCEPT !.outcome = outcome, !.gtin = g, !.at = now]
                      [] OTHER -> [NoReply EXCEPT !.outcome = outcome]]

Fresh(p) == p.synced # None /\ now - p.synced < Ttl

(* lookup_by_barcode up to the call: an internal code is refused, a fresh   *)
(* row is the answer, whatever it says.                                     *)
Lookup(c, g) ==
    /\ tx[c].phase = "idle" /\ issued < MaxRequests
    /\ issued' = issued + 1
    /\ IF g \in Internal THEN Answer(c, g, "internal")
       ELSE IF row[g] # None /\ Fresh(row[g])
       THEN IF IsAbsence(row[g]) THEN Answer(c, g, "notfound")
            ELSE Answer(c, g, "found")
       ELSE /\ tx' = [tx EXCEPT ![c] = [IdleTx EXCEPT !.phase = "acquire", !.gtin = g,
                                          !.seen = row[g], !.since = now, !.wake = now]]
            /\ reply' = [reply EXCEPT ![c] = NoReply]
    /\ UNCHANGED <<now, upstream, row, calls, made, edits>>

(* A row that is stale is worth more than an error, an absence is not.      *)
Unavailable(c) ==
    LET t == tx[c]
    IN  IF t.seen # None /\ ~IsAbsence(t.seen)
        THEN Answer(c, t.gtin, "found")
        ELSE Answer(c, t.gtin, "unavailable")

-----------------------------------------------------------------------------
(* RateLimiter.acquire: nothing is awaited between the clock and the deque. *)

Expired(t) == now - t >= Window

(* The oldest are dropped until one has not expired.                        *)
Dropped(s) ==
    CHOOSE n \in 0 .. Len(s) :
        /\ \A i \in 1 .. n : Expired(s[i])
        /\ n < Len(s) => ~Expired(s[n + 1])

Remembered(w) == SubSeq(calls[w], Dropped(calls[w]) + 1, Len(calls[w]))

Deadline(t) == t.since + MaxQueueWait

TooLate(t, wait) == now + wait > Deadline(t)

Acquire(c) ==
    LET t == tx[c]
        w == WorkerOf[c]
        recent == Remembered(w)
        wait == Window - (now - Head(recent))
        left == IF Deadline(t) > now THEN Deadline(t) - now ELSE 0
    IN  /\ t.phase = "acquire" /\ t.wake <= now
        /\ IF Len(recent) < MaxCalls
           THEN /\ calls' = [calls EXCEPT ![w] = Append(recent, now)]
                /\ made' = [made EXCEPT ![w] = Append(@, now)]
                /\ Go(c, [IdleTx EXCEPT !.phase = "ask", !.gtin = t.gtin, !.seen = t.seen])
           ELSE /\ calls' = [calls EXCEPT ![w] = recent]
                /\ IF TooLate(t, wait) THEN Unavailable(c)
                   ELSE Go(c, [t EXCEPT !.wake = now + (IF wait < left THEN wait ELSE left)])
                /\ UNCHANGED made
    /\ UNCHANGED <<now, upstream, row, issued, edits>>

-----------------------------------------------------------------------------
(* The HTTP call.  A response that is lost, or not what the service sends   *)
(* of a product, is no answer.                                              *)

Responses == [status : {200, 302, 403, 404, 429, 503},
              body : {"product", "product_not_found", "other_json", "not_json"}]
Product == [status |-> 200, body |-> "product"]
NotFound == [status |-> 404, body |-> "product_not_found"]
Lost == [status |-> 0, body |-> "not_json"]

Honest(g) == IF upstream[g] = None THEN NotFound ELSE Product
Noise == (Responses \ {Product, NotFound}) \cup {Lost}

Verdict(r) ==
    IF r = NotFound THEN "absent" ELSE IF r = Product THEN "record" ELSE "unavailable"

Ask(c) ==
    LET t == tx[c]
        g == t.gtin
    IN  /\ t.phase = "ask"
        /\ \E response \in Noise \cup {Honest(g)} :
             CASE Verdict(response) = "absent" -> Go(c, [t EXCEPT !.phase = "store"])
               [] Verdict(response) = "record" ->
                    Go(c, [t EXCEPT !.phase = "store", !.record = upstream[g]])
               [] OTHER -> Unavailable(c)
        /\ UNCHANGED <<now, upstream, row, calls, made, issued, edits>>

-----------------------------------------------------------------------------
(* upsert_public and remember_absent: the row is read again, unlocked.      *)

Store(c) ==
    /\ tx[c].phase = "store"
    /\ Go(c, [tx[c] EXCEPT !.phase = "flush", !.base = row[tx[c].gtin], !.at = now])
    /\ UNCHANGED <<now, upstream, row, calls, made, issued, edits>>

Writes(t) == Image(t) # t.base

HoldsRow(d, g) == tx[d].phase = "commit" /\ tx[d].gtin = g /\ Writes(tx[d])

(* The INSERT or UPDATE waits for who has inserted or updated that row; the *)
(* INSERT that finds an entry in uq_product_gtin_global fails the request.  *)
Flush(c) ==
    LET t == tx[c]
    IN  /\ t.phase = "flush"
        /\ Writes(t) => \A d \in Clients \ {c} : ~HoldsRow(d, t.gtin)
        /\ IF t.base = None /\ row[t.gtin] # None
           THEN Answer(c, t.gtin, "error")
           ELSE Go(c, [t EXCEPT !.phase = "commit"])
        /\ UNCHANGED <<now, upstream, row, calls, made, issued, edits>>

(* BarcodeNotFoundError is raised through the session of the request.       *)
Kept(t) == t.record # None

Commit(c) ==
    LET t == tx[c]
        g == t.gtin
    IN  /\ t.phase = "commit"
        /\ row' = IF ~Kept(t) THEN row
                  ELSE IF t.base = None THEN [row EXCEPT ![g] = Image(t)]
                  ELSE [row EXCEPT ![g] = Changed(row[g], t.base, Image(t))]
        /\ IF t.record = None THEN Answer(c, g, "notfound") ELSE Answer(c, g, "found")
        /\ UNCHANGED <<now, upstream, calls, made, issued, edits>>

-----------------------------------------------------------------------------
(* The phone hangs up: what was written is rolled back, a call stays made.  *)
Interrupt(c) ==
    /\ tx[c].phase # "idle"
    /\ Answer(c, tx[c].gtin, "interrupted")
    /\ UNCHANGED <<now, upstream, row, calls, made, issued, edits>>

(* A worker stops, and starts again remembering no call.                    *)
Restart(w) ==
    /\ calls[w] # <<>>
    /\ calls' = [calls EXCEPT ![w] = <<>>]
    /\ made' = [made EXCEPT ![w] = <<>>]
    /\ tx' = [c \in Clients |-> IF WorkerOf[c] = w THEN IdleTx ELSE tx[c]]
    /\ UNCHANGED <<now, upstream, row, reply, issued, edits>>

(* Somebody edits the catalogue.                                            *)
Edit(g) ==
    /\ edits < MaxEdits /\ edits' = edits + 1
    /\ \E r \in Records \cup {None} : r # upstream[g] /\ upstream' = [upstream EXCEPT ![g] = r]
    /\ UNCHANGED <<now, row, calls, made, tx, reply, issued>>

Tick ==
    /\ now < MaxNow /\ now' = now + 1
    /\ UNCHANGED <<upstream, row, calls, made, tx, reply, issued, edits>>

Finished ==
    /\ issued = MaxRequests /\ \A c \in Clients : tx[c].phase = "idle"
    /\ UNCHANGED vars

Serve(c) == Acquire(c) \/ Ask(c) \/ Store(c) \/ Flush(c) \/ Commit(c)

Next ==
    \/ \E c \in Clients, g \in Gtins : Lookup(c, g)
    \/ \E c \in Clients : Serve(c) \/ Interrupt(c)
    \/ \E w \in Workers : Restart(w)
    \/ \E g \in Gtins \ Internal : Edit(g)
    \/ Tick
    \/ Finished

Spec == Init /\ [][Next]_vars

-----------------------------------------------------------------------------
(* A row that every household can see, and that says something.             *)
Known(p) == p # None /\ ~IsAbsence(p) /\ p.archived = None

Phases == {"idle", "acquire", "ask", "store", "flush", "commit"}
Outcomes == {"internal", "found", "notfound", "unavailable", "error", "interrupted"}

TxType(wakes) ==
    [phase : Phases, gtin : Gtins \cup {None}, seen : Row \cup {None}, since : Times,
     wake : wakes, record : Records \cup {None}, base : Row \cup {None}, at : Times]

(* Every variable keeps its shape; a worker remembers at most one window of *)
(* calls (RateLimiter._calls).                                              *)
TypeOK ==
    /\ now \in Times
    /\ upstream \in [Gtins -> Records \cup {None}]
    /\ row \in [Gtins -> Row \cup {None}]
    /\ \A w \in Workers : Len(calls[w]) <= MaxCalls /\ \A i \in DOMAIN calls[w] : calls[w][i] \in Times
    /\ \A w \in Workers : \A i \in DOMAIN made[w] : made[w][i] \in Times
    /\ tx \in [Clients -> TxType(Nat)]
    /\ reply \in [Clients -> [outcome : Outcomes \cup {None}, gtin : Gtins \cup {None}, at : Times]]
    /\ issued \in 0 .. MaxRequests /\ edits \in 0 .. MaxEdits

(* "The window refuses the burst": however many callers sleep and contend   *)
(* for a slot, a worker makes no more calls than the budget in any window.  *)
CallsWithinBudget ==
    \A w \in Workers : \A i, j \in DOMAIN made[w] :
        j >= i + MaxCalls => made[w][j] >= made[w][i] + Window

(* "A known product that has since disappeared upstream keeps its data",    *)
(* and what a human corrected "wins over any later refresh", whatever       *)
(* lookups cross one another.                                               *)
KnownIsKept ==
    [][\A g \in Gtins : Known(row[g]) =>
         /\ Known(row'[g])
         /\ row[g].source = "manual" => row'[g] = [row[g] EXCEPT !.synced = row'[g].synced]]_vars

(* "A code absent from Open Food Facts must not trigger a call on every     *)
(* scan": once a phone has been told, no lookup goes past the cache while   *)
(* that answer would be fresh.                                              *)
AbsencesAreRemembered ==
    [][\A c \in Clients : tx[c].phase = "idle" /\ tx'[c].phase = "acquire" =>
         ~ \E d \in Clients : /\ reply[d].outcome = "notfound" /\ reply[d].gtin = tx'[c].gtin
                              /\ now - reply[d].at < Ttl]_vars
=============================================================================
