------------------------------- MODULE Upkeep -------------------------------
(***************************************************************************)
(* The retention of what the service keeps, swept by two timers of the     *)
(* operator (scripts/purge_expired_credentials.py,                         *)
(* scripts/purge_retained_data.py): sessions and machine tokens that       *)
(* opened nothing for a while are deleted, and the inventory frozen with a *)
(* suggestion of recipes is forgotten.  Meanwhile sessions are resolved    *)
(* and slide (services/auth.py), accounts are disabled and enabled, and    *)
(* their holders leave the household and come back, which closes their     *)
(* tokens without touching them.  The buckets swept by the second timer    *)
(* are those of Throttling; the quota of tokens is in Memberships.         *)
(***************************************************************************)
EXTENDS Integers

CONSTANTS
    Sessions, Tokens, Suggestions,
    Holders, HolderOf, \* the accounts, and whose each session and token is
    Absolute,   \* days a session may last
    Sliding,    \* days it may lie unused
    Lives,      \* days a token may be given
    Retention,  \* --retention-days
    Frozen,     \* --snapshot-days
    None,
    LastDay     \* bound: days

UserSession == [revoked : Int \cup {None}, expires : Int, idle : Int]
MachineToken == [revoked : Int \cup {None}, expires : Int \cup {None}]
RecipeSuggestion == [created : Int, snapshot : BOOLEAN]

Credentials == Sessions \cup Tokens

UpkeepAssumption ==
    /\ Absolute \in Nat \ {0} /\ Sliding \in Nat \ {0} /\ Lives \subseteq Nat \ {0}
    /\ Retention \in Nat \ {0} /\ Frozen \in Nat \ {0} /\ LastDay \in Nat
    /\ Sessions \cap Tokens = {} /\ HolderOf \in [Credentials -> Holders] /\ None \notin Int
    /\ None \notin UserSession /\ None \notin MachineToken /\ None \notin RecipeSuggestion

VARIABLES
    today,
    sessions,    \* the deadlines and the revocation of each session, or None
    tokens,      \* the same of each machine token
    suggestions, \* the day of each suggestion and whether it still holds the inventory
    disabled,    \* the accounts that are
    enrolled,    \* those that belong to the household of the tokens
    shut,        \* whether that household is archived
    \* History variables:
    begun,       \* the credentials that were ever given
    endedSince,  \* the day since which the row of each is over
    deadSince    \* the day since which each opens nothing

vars == <<today, sessions, tokens, suggestions, disabled, enrolled, shut, begun, endedSince, deadSince>>
credentials == <<sessions, tokens, begun>>
belonging == <<disabled, enrolled, shut>>

Init ==
    /\ today = 0
    /\ sessions = [s \in Sessions |-> None] /\ tokens = [t \in Tokens |-> None]
    /\ suggestions = [g \in Suggestions |-> None]
    /\ disabled = {} /\ enrolled = Holders /\ shut = FALSE
    /\ begun = {}
    /\ endedSince = [x \in Credentials |-> None] /\ deadSince = [x \in Credentials |-> None]

(* What its own dates allow a row.                                          *)
SessionRuns(s) ==
    sessions[s] # None /\ sessions[s].revoked = None /\ sessions[s].expires > today /\ sessions[s].idle > today
TokenRuns(t) ==
    tokens[t] # None /\ tokens[t].revoked = None /\ (tokens[t].expires = None \/ tokens[t].expires > today)

(* What AuthService.resolve and the resolver of tokens let through: whose   *)
(* account is disabled opens nothing, and a token nothing either once its   *)
(* holder has left or the household is archived.                            *)
Resolves(s) == SessionRuns(s) /\ HolderOf[s] \notin disabled
Admits(t) == TokenRuns(t) /\ HolderOf[t] \in enrolled \ disabled /\ ~shut

Stored(x) == IF x \in Sessions THEN sessions[x] # None ELSE tokens[x] # None
Runs(x) == IF x \in Sessions THEN SessionRuns(x) ELSE TokenRuns(x)
Opens(x) == IF x \in Sessions THEN Resolves(x) ELSE Admits(x)

(* What each history remembers of the credentials a step leaves good.       *)
Since(since, good) ==
    [x \in Credentials |->
        IF x \in good THEN None ELSE IF x \in begun' /\ since[x] = None THEN today' ELSE since[x]]

Noted ==
    /\ endedSince' = Since(endedSince, {x \in Credentials : Runs(x)'})
    /\ deadSince' = Since(deadSince, {x \in Credentials : Opens(x)'})

-----------------------------------------------------------------------------
(* Whoever was let in a moment ago may have been disabled, or have left,    *)
(* since: neither is tested again where the row is written.                 *)
IssueSession(s) ==
    /\ s \notin begun /\ begun' = begun \cup {s}
    /\ sessions' = [sessions EXCEPT ![s] =
          [revoked |-> None, expires |-> today + Absolute, idle |-> today + Sliding]]
    /\ UNCHANGED <<today, tokens, suggestions, belonging>>

Touch(s) ==
    /\ Resolves(s)
    /\ sessions' = [sessions EXCEPT ![s].idle = today + Sliding]
    /\ UNCHANGED <<today, tokens, suggestions, belonging, begun>>

(* What is revoked twice keeps the first date.                              *)
Revoke(s) ==
    /\ sessions[s] # None /\ sessions[s].revoked = None
    /\ sessions' = [sessions EXCEPT ![s].revoked = today]
    /\ UNCHANGED <<today, tokens, suggestions, belonging, begun>>

Mint(t, life) ==
    /\ t \notin begun /\ begun' = begun \cup {t}
    /\ tokens' = [tokens EXCEPT ![t] =
          [revoked |-> None, expires |-> IF life = None THEN None ELSE today + life]]
    /\ UNCHANGED <<today, sessions, suggestions, belonging>>

RevokeToken(t) ==
    /\ tokens[t] # None /\ tokens[t].revoked = None
    /\ tokens' = [tokens EXCEPT ![t].revoked = today]
    /\ UNCHANGED <<today, sessions, suggestions, belonging, begun>>

(* A removal touches no other table, and an invitation redeemed neither.    *)
Remove(a) ==
    /\ enrolled' = enrolled \ {a}
    /\ UNCHANGED <<today, credentials, suggestions, disabled, shut>>

Redeem(a) ==
    /\ enrolled' = enrolled \cup {a}
    /\ UNCHANGED <<today, credentials, suggestions, disabled, shut>>

(* The operator.                                                            *)
Disable(a) ==
    /\ disabled' = disabled \cup {a}
    /\ UNCHANGED <<today, credentials, suggestions, enrolled, shut>>

Enable(a) ==
    /\ disabled' = disabled \ {a}
    /\ UNCHANGED <<today, credentials, suggestions, enrolled, shut>>

Shutter ==
    /\ shut' = ~shut
    /\ UNCHANGED <<today, credentials, suggestions, disabled, enrolled>>

Suggest(g) ==
    /\ suggestions[g] = None
    /\ suggestions' = [suggestions EXCEPT ![g] = [created |-> today, snapshot |-> TRUE]]
    /\ UNCHANGED <<today, credentials, belonging>>

-----------------------------------------------------------------------------
(* SQL: NULL is before nothing.                                             *)
Before(day, cutoff) == day # None /\ day < cutoff

(* Mutant: a session that merely idled out is not looked at.                *)
MutDeadSessions(cutoff) ==
    {s \in Sessions : sessions[s] # None /\
        (Before(sessions[s].revoked, cutoff) \/ Before(sessions[s].expires, cutoff))}

DeadSessions(cutoff) ==
    {s \in Sessions : sessions[s] # None /\
        \/ Before(sessions[s].revoked, cutoff)
        \/ Before(sessions[s].expires, cutoff)
        \/ Before(sessions[s].idle, cutoff)}

DeadTokens(cutoff) ==
    {t \in Tokens : tokens[t] # None /\
        (Before(tokens[t].revoked, cutoff) \/ Before(tokens[t].expires, cutoff))}

StaleSnapshots ==
    {g \in Suggestions : suggestions[g] # None /\ suggestions[g].snapshot
                                               /\ Before(suggestions[g].created, today - Frozen)}

(* Both tables in one transaction, to one date.                             *)
PurgeCredentials ==
    LET cutoff == today - Retention
    IN  /\ sessions' = [s \in Sessions |-> IF s \in DeadSessions(cutoff) THEN None ELSE sessions[s]]
        /\ tokens' = [t \in Tokens |-> IF t \in DeadTokens(cutoff) THEN None ELSE tokens[t]]
        /\ UNCHANGED <<today, suggestions, belonging, begun>>

(* The suggestion stays, with its steps and its rating.                     *)
PurgeRetained ==
    /\ suggestions' = [g \in Suggestions |->
          IF g \in StaleSnapshots THEN [suggestions[g] EXCEPT !.snapshot = FALSE] ELSE suggestions[g]]
    /\ UNCHANGED <<today, credentials, belonging>>

NextDay ==
    /\ today < LastDay /\ today' = today + 1
    /\ UNCHANGED <<credentials, suggestions, belonging>>

Next ==
    /\ \/ \E s \in Sessions : IssueSession(s) \/ Touch(s) \/ Revoke(s)
       \/ \E t \in Tokens : RevokeToken(t) \/ \E life \in Lives \cup {None} : Mint(t, life)
       \/ \E a \in Holders : Remove(a) \/ Redeem(a) \/ Disable(a) \/ Enable(a)
       \/ \E g \in Suggestions : Suggest(g)
       \/ Shutter \/ PurgeCredentials \/ PurgeRetained \/ NextDay
    /\ Noted

Spec == Init /\ [][Next]_vars

-----------------------------------------------------------------------------
(* purge_expired_credentials.py:11-27: a sweep leaves no row that has been  *)
(* over, by its own dates, for longer than the retention, and takes none    *)
(* that has been over for less; and what it takes opened nothing within the *)
(* retention, whoever was disabled or left and came back meanwhile.  An     *)
(* inventory is forgotten once it is old enough and not before.             *)
SweepsTakeOnlyTheDead ==
    [][ /\ PurgeCredentials =>
              \A x \in begun : Stored(x) =>
                  /\ Stored(x)' <=> endedSince[x] = None \/ today - endedSince[x] <= Retention
                  /\ ~Stored(x)' => deadSince[x] # None /\ today - deadSince[x] > Retention
        /\ \A g \in Suggestions : suggestions[g] # None /\ suggestions'[g] # suggestions[g] =>
              /\ suggestions'[g] = [suggestions[g] EXCEPT !.snapshot = FALSE]
              /\ today - suggestions[g].created > Frozen ]_vars
=============================================================================
