------------------------------ MODULE MCService ------------------------------
(***************************************************************************)
(* A small instance of Service.  The parts share nothing, so each is       *)
(* explored with the others at rest in one initial state.                  *)
(*                                                                         *)
(* One worker makes one call of the catalogue in two ticks; buckets of one *)
(* token, regained in two ticks, stand before one slot; ann founded a      *)
(* household, bob came in through an invitation, cat and dan are outside;  *)
(* a configuration put away has a successor beside a destination; one      *)
(* household is exported beside another; a model is asked at two addresses *)
(* by Ollamas of every ability and every fault of a row, and by one hosted *)
(* model of each kind.                                                     *)
(***************************************************************************)
EXTENDS Service, FiniteSets

CONSTANTS
    c1, c2, w1, near, cloud, blind, sharp, k1, k2, house, other, i1, i2, i3, i4, s1, s2, m1

MCWorkerOf == (c1 :> w1) @@ (c2 :> w1)

(* One of the pools has one connection, so that the requests can also meet. *)
MCPools == {[session |-> 2, limiter |-> 1], [session |-> 1, limiter |-> 2]}

Blank == [op |-> "status", config |-> None, mode |-> "ollama", url |-> None, model |-> None,
          key |-> None, granted |-> FALSE, disabled |-> None]
New(mode, url, model, key, granted) ==
    [Blank EXCEPT !.op = "create", !.mode = mode, !.url = url, !.model = model, !.key = key, !.granted = granted]
On(op) == [Blank EXCEPT !.op = op, !.config = 1]

MCProviderRequests ==
    {New("ollama", near, blind, None, FALSE), New("ollama", cloud, sharp, None, TRUE),
     New("byok", None, sharp, k1, TRUE), New("instance_owner", None, blind, None, FALSE),
     [On("update") EXCEPT !.url = cloud], [On("update") EXCEPT !.model = blind],
     [On("update") EXCEPT !.key = k2, !.disabled = "yes"], [On("update") EXCEPT !.disabled = "no"],
     On("archive"), On("grant"), On("withdraw"), On("probe"),
     [Blank EXCEPT !.op = "recipes"], [Blank EXCEPT !.op = "receipts"], Blank}

Configured(mode, url, model, key, status, consented) ==
    [mode |-> mode, url |-> url, model |-> model, key |-> key, of |-> <<url, model>>, status |-> status,
     consented |-> consented, revoked |-> FALSE, archived |-> FALSE]
MCExistingConfigs ==
    {None, Configured("ollama", near, blind, None, "verified", FALSE),
     Configured("byok", None, sharp, k1, "unverified", TRUE)}

NoOp == [op |-> "use", who |-> None, house |-> None, role |-> None, on |-> None]
In(op, who, on) == [NoOp EXCEPT !.op = op, !.who = who, !.house = house, !.on = on]
Invite(who, role) == [In("invite", who, None) EXCEPT !.role = role]
Redeem(who, i) == [NoOp EXCEPT !.op = "redeem", !.who = who, !.on = i]
EraseAccount(who) == [NoOp EXCEPT !.op = "erase_account", !.who = who]

AllMembershipRequests ==
    {Invite("ann", "member"), Invite("ann", "viewer"), Invite("ann", "owner"), Invite("bob", "member"),
     In("revoke", "ann", i2), Redeem("cat", i2), Redeem("dan", i2), Redeem("bob", i2), Redeem("cat", i3),
     In("remove", "ann", "ann"), In("remove", "ann", "bob"), In("remove", "bob", "bob"),
     In("remove", "bob", "ann"), In("remove", "ann", "dan"), In("remove", "cat", "cat"),
     In("mint", "bob", None), In("unmint", "bob", k1), [NoOp EXCEPT !.on = k1],
     In("erase_household", "ann", None), EraseAccount("ann"), EraseAccount("cat")}

ErasureRequests == {Invite("ann", "member"), EraseAccount("bob")}

MCAccounts == {"ann", "bob", "cat", "dan"}
MCFounder == house :> "ann"
MCGuests == house :> [a \in MCAccounts |-> IF a = "bob" THEN i1 ELSE None]

Provided(id) == [domain |-> "provider", household |-> house, id |-> id]
Exported == [domain |-> "export", household |-> house, id |-> 3]

(* Nothing, or a configuration that was put away, its successor and a       *)
(* destination.                                                             *)
Sealed(secret, live) == [secret |-> secret, live |-> live]
MCSealedRows == {Provided(1), Provided(2), Exported}
MCExistingKeys ==
    {[r \in MCSealedRows |-> None],
     (Provided(1) :> Sealed(s1, FALSE)) @@ (Provided(2) :> Sealed(s2, TRUE)) @@ (Exported :> Sealed(s1, TRUE))}

Held(table, h, product) == [table |-> table, house |-> h, product |-> product]
Public == Held("product", None, None)

(* Lines that name a public product and one of the household; a line of     *)
(* another household; a line of an own product alone.                       *)
MCDatabases ==
    {<<Public, Held("product", house, None), Held("receipt_line", house, 1), Held("shopping_list_item", house, 2)>>,
     <<Public, Held("product", other, None), Held("shopping_list_item", house, 1), Held("receipt_line", other, 2)>>,
     <<Held("product", house, None), Held("receipt_line", house, 1), None, None>>}

MCTables == <<"product", "receipt_line", "shopping_list_item">>

Ollama == [mode |-> "ollama", provider |-> "ollama", model |-> "large", url |-> "allowed", key |-> None,
           probed |-> [schema |-> FALSE, vision |-> FALSE, long |-> FALSE]]
HostedBy(provider, model, key) ==
    [Ollama EXCEPT !.mode = "byok", !.provider = provider, !.model = model, !.url = None, !.key = key, !.probed = None]
Answering(object, list, entries) == [object |-> object, list |-> list, entries |-> entries]
Report(prompt, written, cached, output) == [prompt |-> prompt, written |-> written, cached |-> cached, output |-> output]

MCModelConfigs ==
    {Ollama, [Ollama EXCEPT !.probed = None], [Ollama EXCEPT !.url = "other"],
     [Ollama EXCEPT !.url = None], [Ollama EXCEPT !.provider = "openai"]}
    \cup {[Ollama EXCEPT !.probed = [schema |-> s, vision |-> TRUE, long |-> TRUE]] : s \in BOOLEAN}
    \cup {HostedBy("anthropic", "large", "held"), HostedBy("mistral", "small", "held"),
          HostedBy("gemini", "large", "lost"), HostedBy("openai", "unheard", "held"),
          HostedBy("ollama", "large", "held"),
          [HostedBy("anthropic", "large", None) EXCEPT !.mode = "instance_owner"]}
MCTexts == {Answering(TRUE, TRUE, <<"whole", "whole", "text">>), Answering(TRUE, TRUE, <<>>),
            Answering(TRUE, TRUE, <<"whole", "partial">>), Answering(FALSE, FALSE, <<>>)}
MCReports == {Report(None, None, None, None), Report(3, 1, 1, 2), Report(1, None, 2, None)}
MCLarder == <<None, 3, 1>>

(* The session and the token are of one account.                            *)
MCHolderOf == [x \in Sessions \cup Tokens |-> "bob"]

-----------------------------------------------------------------------------
(* The parts that are not explored wait.                                    *)
MCServiceInit ==
    /\ ServiceInit /\ master = m1
    /\ part # "catalogue" => \A g \in Gtins : upstream[g] = None /\ row[g] = None
    /\ part # "limits" => pool = [session |-> 1, limiter |-> 2]
    /\ part # "providers" => local = {} /\ configs[1] = None
    /\ part # "exports" => pending = {}
    /\ part # "sealing" => rows[Exported] = None
    /\ part # "inference" => dns = {}
    /\ part # "document" => residents = {Requester} /\ held[4] = None

(* Bound: a suggestion and a credential do not meet, and two credentials,   *)
(* of which a sweep may take one, meet while their holder may use both.     *)
FewMeet ==
    /\ begun = {} \/ \A g \in Suggestions : suggestions[g] = None
    /\ begun = Sessions \cup Tokens => disabled = {} /\ enrolled = Holders /\ ~shut

MCServiceSpec == MCServiceInit /\ [][ServiceNext /\ FewMeet']_everything

(* The phones and browsers are alike.                                       *)
ClientSymmetry == Permutations(Clients)
=============================================================================
