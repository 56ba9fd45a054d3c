------------------------------- MODULE Sealing -------------------------------
(***************************************************************************)
(* The keys a household entrusts to the service: the key of its model      *)
(* provider and the token of its task application, encrypted under the     *)
(* master key of the instance and bound to the row that holds them         *)
(* (infra/crypto.py, infra/todo/credentials.py, services/providers.py,     *)
(* services/export_targets.py, infra/llm/factory.py).                      *)
(*                                                                         *)
(* Around the requests are the events that separate a ciphertext from what *)
(* opens it: a restart under another master key, a dump restored, a        *)
(* maintenance that carries the columns of one row to another or cuts a    *)
(* column short.  They happen with the service stopped.                    *)
(***************************************************************************)
EXTENDS Integers

CONSTANTS
    Clients,     \* requests that can be in flight together
    Rows,        \* the rows of llm_provider_config and shopping_export_target
    Secrets,     \* what can be pasted that is long enough
    Short,       \* what can be pasted that is not
    Masters,     \* values of CHAUDRON_CREDENTIAL_ENCRYPTION_KEY
    Existing,    \* what the rows may have been entered with, and whether they are live
    Households, Ids, None,
    MaxRequests, \* bound: requests issued
    MaxEvents    \* bound: restarts and maintenance

Domains == {"provider", "export"}

VARIABLES
    rows,    \* what each row holds, committed, or None
    master,  \* the master key this instance was started with
    dump,    \* a backup of the database, with what was in force in it
    entered, \* every secret that was ever entered for each row, a history variable
    due,     \* what must open each row, and under which key, or None, a history variable
    tx, answer, issued, events

stored == <<rows, master, dump, entered, due>>
vars == <<stored, tx, answer, issued, events>>

(* Mutant: bound to the household and the purpose, not to the row.          *)
MutAad(r) == <<r.domain, r.household>>

Aad(r) == <<r.domain, r.household, r.id>>

(* What a row can hold, what must open it, and why it may not.              *)
Ciphertexts == [secret : Secrets, under : Masters, bound : {Aad(r) : r \in Rows}, whole : BOOLEAN]
StoredRows == [live : BOOLEAN, key : Masters, ciphertext : Ciphertexts]
Dues == [secret : Secrets, under : Masters]
Failures == {"rotated", "truncated", "not_its_own"}

SealingAssumption ==
    /\ Rows \subseteq [domain : Domains, household : Households, id : Ids]
    /\ Existing \subseteq [Rows -> [secret : Secrets, live : BOOLEAN] \cup {None}]
    /\ None \notin Secrets \cup Rows \cup Ciphertexts \cup StoredRows \cup Dues \cup Failures
    /\ Short \notin Secrets \cup {None}
    /\ MaxRequests \in Nat /\ MaxEvents \in Nat

Encrypt(secret, r) == [secret |-> secret, under |-> master, bound |-> Aad(r), whole |-> TRUE]

(* The refusals, in their order: a rotated key, a column cut short, a       *)
(* ciphertext of another row, purpose or key.                               *)
Failure(key, ciphertext, r) ==
    IF key # master THEN "rotated"
    ELSE IF ~ciphertext.whole THEN "truncated"
    ELSE IF ciphertext.under # master \/ ciphertext.bound # Aad(r) THEN "not_its_own"
    ELSE None

(* The household of an export is told one thing, and the journal which.     *)
Told(failure, r) == IF r.domain = "export" THEN "unreadable" ELSE failure

Idle == [step |-> "idle", op |-> None, of |-> None, secret |-> None, read |-> None,
         ciphertext |-> None, first |-> None, second |-> None]

NoAnswer == [of |-> None, outcome |-> None, secret |-> None, first |-> None, second |-> None]

Init ==
    /\ master \in Masters
    /\ \E e \in Existing :
          /\ rows = [r \in Rows |-> IF e[r] = None THEN None
                                   ELSE [live |-> e[r].live, key |-> master, ciphertext |-> Encrypt(e[r].secret, r)]]
          /\ due = [r \in Rows |-> IF e[r] = None THEN None ELSE [secret |-> e[r].secret, under |-> master]]
          /\ entered = [r \in Rows |-> IF e[r] = None THEN {} ELSE {e[r].secret}]
    /\ dump = [rows |-> rows, due |-> due]
    /\ tx = [c \in Clients |-> Idle] /\ answer = [c \in Clients |-> NoAnswer]
    /\ issued = 0 /\ events = 0

Go(c, t) == tx' = [tx EXCEPT ![c] = t] /\ UNCHANGED <<stored, answer, issued, events>>
Answer(c, outcome, secret) ==
    LET t == tx[c]
    IN  /\ tx' = [tx EXCEPT ![c] = Idle]
        /\ answer' = [answer EXCEPT ![c] = [of |-> t.of, outcome |-> outcome, secret |-> secret,
                                            first |-> t.first, second |-> t.second]]
        /\ UNCHANGED <<issued, events>>
Refuse(c, outcome) == Answer(c, outcome, None) /\ UNCHANGED stored

Live(row) == row # None /\ row.live

(* One live configuration per household, and one destination of a kind.     *)
Taken(r) == \E q \in Rows \ {r} : q.domain = r.domain /\ q.household = r.household /\ Live(rows[q])

-----------------------------------------------------------------------------
(* A key or a token is pasted, for a row that exists or is to be created.   *)
Begin(c, op, r, secret) ==
    /\ tx[c].step = "idle" /\ issued < MaxRequests
    /\ tx' = [tx EXCEPT ![c] = [Idle EXCEPT !.step = "read", !.op = op, !.of = r, !.secret = secret]]
    /\ answer' = [answer EXCEPT ![c] = NoAnswer]
    /\ issued' = issued + 1
    /\ UNCHANGED <<stored, events>>

ReadRow(c) ==
    LET t == tx[c]
        row == rows[t.of]
    IN  /\ t.step = "read" /\ t.op \in {"enter", "archive"}
        /\ IF t.op = "enter" /\ t.secret = Short THEN Refuse(c, "too_short")
           ELSE IF IF row = None THEN t.op = "archive" \/ Taken(t.of) ELSE ~row.live
           THEN Refuse(c, "not_configured")
           ELSE Go(c, [t EXCEPT !.read = row, !.step = "write"])

(* The ciphertext is always written, the key's name when it is another than *)
(* was read; an insertion meets the unique index.                           *)
SealInto(c) ==
    LET t == tx[c]
        r == t.of
        sealed == Encrypt(t.secret, r)
    IN  /\ t.step = "write" /\ t.op = "enter"
        /\ IF t.read = None /\ (rows[r] # None \/ Taken(r)) THEN Refuse(c, "conflict")
           ELSE /\ rows' = [rows EXCEPT ![r] =
                      IF t.read = None THEN [live |-> TRUE, key |-> master, ciphertext |-> sealed]
                      ELSE [rows[r] EXCEPT !.key = IF t.read.key = master THEN rows[r].key ELSE master,
                                           !.ciphertext = sealed]]
                /\ entered' = [entered EXCEPT ![r] = @ \cup {t.secret}]
                /\ due' = [due EXCEPT ![r] = [secret |-> t.secret, under |-> master]]
                /\ UNCHANGED <<master, dump>>
                /\ Answer(c, "ok", None)

(* A configuration that is put away keeps its columns; a destination is     *)
(* never put away.                                                          *)
Archive(c) ==
    LET t == tx[c]
    IN  /\ t.step = "write" /\ t.op = "archive" /\ t.of.domain = "provider"
        /\ rows' = [rows EXCEPT ![t.of].live = FALSE]
        /\ UNCHANGED <<master, dump, entered, due>>
        /\ Answer(c, "ok", None)

-----------------------------------------------------------------------------
(* A configuration is read, then its ciphertext by a query of its own; a    *)
(* destination is read with its ciphertext.                                 *)
Load(c) ==
    LET t == tx[c]
        row == rows[t.of]
    IN  /\ t.step = "read" /\ t.op = "use"
        /\ IF ~Live(row) THEN Refuse(c, "not_configured")
           ELSE Go(c, [t EXCEPT !.read = row, !.first = due[t.of], !.second = due[t.of],
                                !.ciphertext = row.ciphertext,
                                !.step = IF t.of.domain = "provider" THEN "fetch" ELSE "open"])

SealedCredential(c) ==
    /\ tx[c].step = "fetch"
    /\ Go(c, [tx[c] EXCEPT !.ciphertext = rows[tx[c].of].ciphertext, !.second = due[tx[c].of],
                           !.step = "open"])

(* As late as possible, and for the call it is wanted for.                  *)
Decrypt(c) ==
    LET t == tx[c]
        failure == Failure(t.read.key, t.ciphertext, t.of)
    IN  /\ t.step = "open"
        /\ IF failure = None THEN Answer(c, "sent", t.ciphertext.secret) /\ UNCHANGED stored
           ELSE Refuse(c, Told(failure, t.of))

-----------------------------------------------------------------------------
(* The instance is stopped: what was in flight is rolled back.              *)
Stopped ==
    /\ events < MaxEvents /\ events' = events + 1
    /\ tx' = [c \in Clients |-> Idle] /\ answer' = [c \in Clients |-> NoAnswer]
    /\ UNCHANGED issued

Restart(m) == Stopped /\ master' = m /\ UNCHANGED <<rows, dump, entered, due>>

Backup == Stopped /\ dump' = [rows |-> rows, due |-> due] /\ UNCHANGED <<rows, master, entered, due>>

Restore(m) ==
    /\ Stopped
    /\ rows' = dump.rows /\ due' = dump.due /\ master' = m
    /\ UNCHANGED <<dump, entered>>

(* What a row held is lost or replaced: nothing need open it any more.      *)
Spoil(r, row) ==
    /\ Stopped
    /\ rows' = [rows EXCEPT ![r] = row] /\ due' = [due EXCEPT ![r] = None]
    /\ UNCHANGED <<master, dump, entered>>

Carry(q, r) ==
    /\ rows[q] # None /\ rows[r] # None
    /\ Spoil(r, [rows[r] EXCEPT !.key = rows[q].key, !.ciphertext = rows[q].ciphertext])

Truncate(r) == rows[r] # None /\ Spoil(r, [rows[r] EXCEPT !.ciphertext.whole = FALSE])

Finished == (\A c \in Clients : tx[c].step = "idle") /\ UNCHANGED vars

Next ==
    \/ \E c \in Clients, r \in Rows :
          \/ \E s \in Secrets \cup {Short} : Begin(c, "enter", r, s)
          \/ Begin(c, "use", r, None)
          \/ r.domain = "provider" /\ Begin(c, "archive", r, None)
    \/ \E c \in Clients :
          ReadRow(c) \/ SealInto(c) \/ Archive(c) \/ Load(c) \/ SealedCredential(c) \/ Decrypt(c)
    \/ \E m \in Masters : Restart(m) \/ Restore(m)
    \/ Backup
    \/ \E r \in Rows : Truncate(r) \/ \E q \in Rows \ {r} : Carry(q, r)
    \/ Finished

Spec == Init /\ [][Next]_vars

-----------------------------------------------------------------------------
(* crypto.py:233-271: whatever was rotated, restored, carried over or cut   *)
(* short, a secret that is sent was entered for the very row it is sent for,*)
(* and what was last entered under the key in use opens.                    *)
KeysOpenOnlyAtHome ==
    \A c \in Clients :
        LET a == answer[c]
        IN  /\ a.secret # None => a.secret \in entered[a.of]
            /\ a.first # None /\ a.first.under = master => a.secret = a.second.secret
=============================================================================
