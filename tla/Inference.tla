------------------------------ MODULE Inference ------------------------------
(***************************************************************************)
(* One use of the household's model: the adapter built for its             *)
(* configuration, the addresses it may be reached at, the attempts made,   *)
(* and what is read from the answers (infra/llm, domain/llm_ports.py).     *)
(* An Ollama is reached at addresses resolved twice, since a household     *)
(* chose its name; the hosted providers are reached by name.  Prompts are  *)
(* what they carry of the stock; headers, certificates and the shapes of   *)
(* the payloads are left out.                                              *)
(***************************************************************************)
EXTENDS Integers, FiniteSets, Sequences, SequencesExt

CONSTANTS
    Addresses,   \* numbers, in the order of _dial_order
    Configs,     \* the configurations a household may have
    OwnsInstance,\* this household is the one that may spend the operator's key
    OperatorKey, \* whether the instance holds a key
    Texts,       \* the answers a model may give
    Reports,     \* the counters an answer may carry
    Stock,       \* Seq of the days an item has left, or None
    Keep,        \* DEGRADED_INVENTORY_LIMIT
    MaxRead,     \* MAX_SUGGESTIONS_READ, MAX_RECEIPT_LINES
    Suggestions, \* max_suggestions of a request
    None,
    MaxCalls, MaxChanges \* bounds: calls, and answers of the name service that differ

Hosted == {"anthropic", "openai", "mistral", "gemini"}

(* url: what validate_ollama_base_url makes of it; key: what is stored for  *)
(* the household; probed: the capabilities of an Ollama, or None.           *)
HouseholdProviderConfig ==
    [mode : {"ollama", "byok", "instance_owner"}, provider : Hosted \cup {"ollama", "unheard"},
     model : {"large", "small", "unheard"}, url : {"allowed", "other", None},
     key : {"held", "lost", None},
     probed : [schema : BOOLEAN, vision : BOOLEAN, long : BOOLEAN] \cup {None}]

(* whole: an entry with its title and steps, or its label; partial: an      *)
(* object without them; text: not an object.                                *)
Answers == [object : BOOLEAN, list : BOOLEAN, entries : Seq({"whole", "partial", "text"})]

(* prompt: of the whole prompt, or of what was not cached (Anthropic);      *)
(* written: what was put in the cache; None where nothing is said.          *)
Counters == [prompt : Nat \cup {None}, written : Nat \cup {None}, cached : Nat \cup {None}, output : Nat \cup {None}]

Usages == [input : Nat \cup {None}, cached : Nat \cup {None}, output : Nat \cup {None}]

InferenceAssumption ==
    /\ Addresses \subseteq Nat /\ IsFiniteSet(Addresses) /\ OwnsInstance \in BOOLEAN /\ OperatorKey \in BOOLEAN
    /\ Configs \subseteq HouseholdProviderConfig /\ Texts \subseteq Answers
    /\ Reports \subseteq Counters /\ Stock \in Seq(Nat \cup {None})
    /\ None \notin Nat \cup Texts \cup Usages /\ \A set \in SUBSET Addresses : set # None
    /\ {Keep, MaxRead, Suggestions} \subseteq Nat \ {0} /\ {MaxCalls, MaxChanges} \subseteq Nat

VARIABLES
    dns,       \* what the name resolves to now: a set, or None when it fails
    call,      \* the call in progress
    delivered, \* the bodies that reached a peer for it, in order
    result,    \* what the last call came to
    placed, changed

vars == <<dns, call, delivered, result, placed, changed>>

Nowhere == [step |-> "idle", feature |-> None, config |-> None, pin |-> None, first |-> None,
            attempt |-> 0, targets |-> <<>>, tries |-> 0, spent |-> <<>>, text |-> None]

Init ==
    /\ dns \in SUBSET Addresses /\ call = Nowhere /\ delivered = <<>> /\ result = None
    /\ placed = 0 /\ changed = 0

Raise(error) == call' = Nowhere /\ result' = [error |-> error] /\ UNCHANGED delivered

-----------------------------------------------------------------------------
(* What a model can do: a table for the hosted ones, the probe for Ollama.  *)
Large == [schema |-> TRUE, vision |-> TRUE, long |-> TRUE]

StaticCapabilities(provider, model) ==
    CASE model = "large" -> Large
      [] model = "small" /\ provider = "mistral" -> [Large EXCEPT !.vision = FALSE, !.long = FALSE]
      [] OTHER -> None

CapabilitiesFor(config) ==
    IF config.provider = "ollama" THEN config.probed
    ELSE IF config.provider \in Hosted THEN StaticCapabilities(config.provider, config.model)
    ELSE None

HouseholdKey(config) == IF config.key = "held" THEN "held" ELSE "not_configured"

InstanceOwnerKey ==
    IF ~OwnsInstance THEN "not_permitted" ELSE IF ~OperatorKey THEN "not_configured" ELSE "held"

ResolveApiKey(config) ==
    IF config.mode = "instance_owner" THEN InstanceOwnerKey
    ELSE IF config.provider \notin Hosted THEN "not_configured"
    ELSE HouseholdKey(config)

(* The pin of an Ollama is what its name resolves to while it is built.     *)
ResolvePin(url) ==
    IF url # "allowed" THEN "not_configured"
    ELSE IF dns = None THEN "unavailable"
    ELSE IF dns = {} THEN "not_configured" ELSE "pinned"

BuildOllama(config) ==
    IF config.provider # "ollama" \/ config.url = None \/ CapabilitiesFor(config) = None
    THEN "not_configured" ELSE ResolvePin(config.url)

BuildTransport(config) ==
    IF config.mode = "ollama" THEN BuildOllama(config)
    ELSE IF ResolveApiKey(config) # "held" THEN ResolveApiKey(config)
    ELSE IF config.provider \notin Hosted \/ CapabilitiesFor(config) = None THEN "not_configured"
    ELSE "built"

Guarded(config) == config.mode = "ollama"
Can == CapabilitiesFor(call.config)

(* A feature is asked for: the adapter is built, and a receipt needs eyes.  *)
Build(config, feature) ==
    /\ call = Nowhere /\ placed < MaxCalls /\ placed' = placed + 1
    /\ delivered' = <<>>
    /\ LET built == BuildTransport(config) IN
       IF built \in {"pinned", "built"} /\ (feature = "receipts" => CapabilitiesFor(config).vision)
       THEN /\ call' = [Nowhere EXCEPT !.step = "resolve", !.feature = feature, !.config = config,
                            !.pin = IF Guarded(config) THEN dns ELSE None, !.first = dns]
            /\ result' = None
       ELSE /\ call' = Nowhere
            /\ result' = [error |-> IF built \in {"pinned", "built"} THEN "capability_unavailable" ELSE built]
    /\ UNCHANGED <<dns, changed>>

(* The inventory that fits: of a short context, the items nearest expiry.   *)
Sooner(a, b) == a # None /\ (b = None \/ a < b)

TrimInventory(items) ==
    IF Len(items) <= Keep THEN items ELSE SubSeq(SortSeq(items, Sooner), 1, Keep)

Prompted == IF call.feature = "receipts" THEN <<>> ELSE IF Can.long THEN Stock ELSE TrimInventory(Stock)

LongContextNotice ==
    IF Can.long THEN None ELSE IF Len(Stock) > Keep THEN "trimmed" ELSE "fitted"

-----------------------------------------------------------------------------

(* Resolve again, and refuse a name that has moved.                         *)
StableResolution == dns # {} /\ dns \subseteq call.pin

DialOrder(addresses) ==
    CHOOSE s \in [1 .. Cardinality(addresses) -> addresses] : \A i, j \in DOMAIN s : i < j => s[i] < s[j]

DialTargets == IF Guarded(call.config) THEN DialOrder(dns) ELSE <<call.config.provider>>

AssertStableResolution ==
    /\ call.step = "resolve"
    /\ IF ~Guarded(call.config) \/ (dns # None /\ StableResolution)
       THEN /\ call' = [call EXCEPT !.step = "dial", !.targets = DialTargets, !.tries = 0]
            /\ UNCHANGED <<delivered, result>>
       ELSE Raise(IF dns = None THEN "unavailable" ELSE "not_configured")
    /\ UNCHANGED <<dns, placed, changed>>

(* A connection is accepted, and the body is written to that peer.          *)
Connect ==
    /\ call.step = "dial"
    /\ delivered' = Append(delivered, [attempt |-> call.attempt, to |-> Head(call.targets),
                                       items |-> Prompted, reported |-> None, text |-> None])
    /\ call' = [call EXCEPT !.step = "sent"]
    /\ UNCHANGED <<dns, result, placed, changed>>

(* anthropic.AsyncAnthropic(max_retries=2): the client sends again.         *)
SdkRetries == call.config.provider = "anthropic" /\ call.tries < 2
SendAgain ==
    /\ call' = [call EXCEPT !.step = "dial", !.tries = call.tries + 1]
    /\ UNCHANGED <<delivered, result>>

(* No connection: nothing was written, so the next address is tried.        *)
ConnectFails ==
    /\ call.step = "dial"
    /\ IF Len(call.targets) > 1
       THEN call' = [call EXCEPT !.targets = Tail(call.targets)] /\ UNCHANGED <<delivered, result>>
       ELSE IF SdkRetries THEN SendAgain ELSE Raise("unavailable")
    /\ UNCHANGED <<dns, placed, changed>>

(* Mutant: a peer that accepts and then fails is replaced by the next one.  *)
MutDropped ==
    IF Len(call.targets) > 1
    THEN call' = [call EXCEPT !.step = "dial", !.targets = Tail(call.targets)] /\ UNCHANGED <<delivered, result>>
    ELSE Raise("unavailable")

(* The connection was up: whatever fails now is final.                      *)
Dropped == Raise("unavailable")

TransportFails ==
    /\ call.step = "sent"
    /\ IF SdkRetries THEN SendAgain ELSE Dropped
    /\ UNCHANGED <<dns, placed, changed>>

(* status: quota is 402, 429, or a 400 that speaks of money.                *)
TranslateHttpStatus(status) ==
    CASE status \in {"credentials", "not_found"} -> "not_configured"
      [] status \in {"rate", "quota"} -> "quota_exceeded"
      [] OTHER -> "unavailable"

Statuses == {"credentials", "not_found", "rate", "quota", "too_large", "server", "redirect"}

Refused(status) ==
    /\ call.step = "sent"
    /\ IF status \in {"rate", "server"} /\ SdkRetries THEN SendAgain ELSE Raise(TranslateHttpStatus(status))
    /\ UNCHANGED <<dns, placed, changed>>

(* Too long, not an object, or without a text: the call ends, whoever asks. *)
Unusable == call.step = "sent" /\ Raise("response_invalid") /\ UNCHANGED <<dns, placed, changed>>

-----------------------------------------------------------------------------
(* What the readers accept of an answer.                                    *)
Entries(text) == SubSeq(text.entries, 1, IF Len(text.entries) < MaxRead THEN Len(text.entries) ELSE MaxRead)
Listed(text) == text.object /\ text.list /\ \A i \in DOMAIN Entries(text) : text.entries[i] = "whole"

ReadReceipt(text) == Listed(text)
ReadRecipes(text) == Listed(text) /\ text.entries # <<>>

Reads(feature, text) == IF feature = "receipts" THEN ReadReceipt(text) ELSE ReadRecipes(text)

Attempts == IF Can.schema THEN 1 ELSE 2

(* Three counters out of five vocabularies: a prompt that includes what was *)
(* cached is split, and a vendor who says nothing has reported nothing.     *)
SubtractCached(prompt, cached) ==
    IF prompt = None \/ cached = None THEN prompt ELSE IF prompt > cached THEN prompt - cached ELSE 0

UsageOf(provider, report) ==
    LET said(v) == IF v = None THEN 0 ELSE v
        usage == CASE provider = "ollama" -> [input |-> report.prompt, cached |-> 0, output |-> report.output]
                   [] provider = "anthropic" ->
                        [input |-> IF report.written = None THEN report.prompt ELSE said(report.prompt) + report.written,
                         cached |-> report.cached, output |-> report.output]
                   [] OTHER -> [input |-> SubtractCached(report.prompt, report.cached),
                                cached |-> report.cached, output |-> report.output]
        known == IF provider = "ollama" THEN {"input", "output"} ELSE DOMAIN usage
    IN IF \A f \in known : usage[f] = None THEN None ELSE usage

Sum(left, right) == IF left = None \/ right = None THEN None ELSE left + right
Plus(left, right) == [f \in DOMAIN left |-> Sum(left[f], right[f])]

(* A call that was not reported makes the whole unknown.                    *)
TotalUsage(spent) ==
    IF \E i \in DOMAIN spent : spent[i] = None THEN None ELSE FoldLeft(Plus, Head(spent), Tail(spent))

Answered(text, report) ==
    /\ call.step = "sent"
    /\ LET last == Len(delivered)
           usage == UsageOf(call.config.provider, report)
       IN /\ delivered' = [delivered EXCEPT ![last].reported = usage, ![last].text = text]
          /\ call' = [call EXCEPT !.step = "read", !.text = text, !.spent = Append(@, usage)]
    /\ UNCHANGED <<dns, result, placed, changed>>

(* The number of suggestions or lines that are handed back.                 *)
Fewest(m, n) == IF m < n THEN m ELSE n
Returned == IF call.feature = "receipts" THEN Len(Entries(call.text)) ELSE Fewest(Len(Entries(call.text)), Suggestions)

Suggested ==
    [kind |-> call.feature, size |-> Returned, answer |-> call.text,
     usage |-> IF call.feature = "receipts" THEN None ELSE TotalUsage(call.spent),
     notice |-> IF call.feature = "receipts" THEN None ELSE LongContextNotice]

(* Read the answer, ask once more if the model was only told of the shape,  *)
(* and report what the last answer came to.                                 *)
Retry == call.attempt + 1 < Attempts

Read ==
    /\ call.step = "read"
    /\ IF Reads(call.feature, call.text)
       THEN call' = Nowhere /\ result' = Suggested /\ UNCHANGED delivered
       ELSE IF Retry
       THEN /\ call' = [call EXCEPT !.step = "resolve", !.attempt = call.attempt + 1, !.text = None]
            /\ UNCHANGED <<delivered, result>>
       ELSE Raise("response_invalid")
    /\ UNCHANGED <<dns, placed, changed>>

(* The name is pointed elsewhere, or no longer answers.                     *)
Repoint ==
    /\ changed < MaxChanges /\ changed' = changed + 1
    /\ dns' \in ((SUBSET Addresses) \cup {None}) \ {dns}
    /\ UNCHANGED <<call, delivered, result, placed>>

Finished == call = Nowhere /\ placed = MaxCalls

Next ==
    \/ \E config \in Configs, feature \in {"recipes", "receipts"} : Build(config, feature)
    \/ AssertStableResolution \/ Connect \/ ConnectFails
    \/ TransportFails \/ Unusable \/ Read \/ Repoint
    \/ \E status \in Statuses : Refused(status)
    \/ \E text \in Texts, report \in Reports : Answered(text, report)
    \/ Finished /\ UNCHANGED vars

Spec == Init /\ [][Next]_vars

-----------------------------------------------------------------------------
(* What a household's stock or receipt is written to is an address its name *)
(* gave when the call was permitted, one per attempt whatever fails there,  *)
(* and nobody once an answer could be read.                                 *)
OnePeerPerAttempt ==
    call # Nowhere /\ Guarded(call.config) =>
        /\ \A i \in DOMAIN delivered : delivered[i].to \in call.first
        /\ \A i, j \in DOMAIN delivered : i # j => delivered[i].attempt # delivered[j].attempt
        /\ \A i \in 1 .. Len(delivered) - 1 :
              delivered[i].text # None /\ ~Reads(call.feature, delivered[i].text)

(* A number of tokens shown beside suggestions covers every attempt that    *)
(* was answered, and is not shown when one of them did not say.             *)
BillIsWhole ==
    result # None /\ "usage" \in DOMAIN result /\ result.usage # None =>
        LET answered == {i \in DOMAIN delivered : delivered[i].text # None} IN
        \A f \in DOMAIN result.usage : result.usage[f] # None =>
            /\ \A i \in answered : delivered[i].reported # None /\ delivered[i].reported[f] # None
            /\ result.usage[f] = SumFunction([i \in answered |-> delivered[i].reported[f]])
=============================================================================
