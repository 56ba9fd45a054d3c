-------------------------------- MODULE MCEdge --------------------------------
(***************************************************************************)
(* Small instances of what stands at the edge of the service: the phone of *)
(* CalendarFeed, which is published one task at most over two days, and    *)
(* the entry of HomeAssistant, with a token that opens everything and one  *)
(* that opens the inventory alone.  They share nothing, so each is         *)
(* explored with the other at rest in one of its initial states.           *)
(***************************************************************************)
EXTENDS CalendarFeed

CONSTANTS
    full, bare,
    Addresses   \* of the instance, for Home Assistant

MCDues == {1, 2, None}

VARIABLES
    today, lots, list, live, spent, entry, coordinator, entities, poll, edit, form,
    altered, faults, edits, forms, part

assistant == <<today, lots, list, live, spent, entry, coordinator, entities, poll, edit, form,
               altered, faults, edits, forms>>

Opened == [t \in {full, bare} |->
             IF t = full THEN {"inventory", "shopping", "write", "budget"} ELSE {"inventory"}]

A == INSTANCE HomeAssistant WITH
        Items <- {1, 2}, Tokens <- {full, bare}, Holds <- Opened, Urls <- Addresses,
        Dues <- {1}, Withins <- {0, 1}, Currencies <- {1}, PageSize <- 1, MaxPages <- 2, LastDay <- 1,
        MaxChanges <- 1, MaxFaults <- 1, MaxEdits <- 1, MaxFlows <- 2, changes <- altered

EdgeInit ==
    /\ part \in {"feed", "assistant"}
    /\ Init /\ (part # "feed" => stock = [l \in Lots |-> None])
    /\ A!Init /\ (part # "assistant" => lots = [l \in Lots |-> None])

EdgeNext ==
    /\ UNCHANGED part
    /\ \/ part = "feed" /\ Next /\ UNCHANGED assistant
       \/ part = "assistant" /\ A!Next /\ UNCHANGED vars
EdgeSpec == EdgeInit /\ [][EdgeNext]_<<part, vars, assistant>>

(* The fairness of CalendarFeed, while the phone is what is explored, and   *)
(* that of HomeAssistant, whose entry does nothing of itself at rest.       *)
Feeding == part = "feed"
FairFeed ==
    /\ WF_vars(Feeding /\ Poll /\ tx' # tx) /\ WF_vars(Feeding /\ Authenticate)
    /\ WF_vars(Feeding /\ SyncCollection) /\ WF_vars(Feeding /\ Refill)
    /\ SF_vars(Feeding /\ Subscribe) /\ \A o \in Owners : WF_vars(Feeding /\ CommitRevocation(o))
FairEdgeSpec == EdgeSpec /\ FairFeed /\ A!Fairness

(* As in HomeAssistant: the entities end up showing the household.          *)
EntitiesCatchUp == part = "assistant" => A!EntitiesCatchUp

(* As in CalendarFeed: the phone ends up showing what is published.         *)
PhoneShowsTheFeed == part = "feed" => PhoneCatchesUp
=============================================================================
