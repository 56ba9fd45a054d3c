--------------------------- MODULE SealingProofs ---------------------------
(***************************************************************************)
(* A secret opens only for the row it was entered for, and what was last   *)
(* entered under the key in use does open, for any number of requests,     *)
(* rows, secrets and master keys.                                          *)
(***************************************************************************)
EXTENDS Sealing, TLAPS

Table == [Rows -> StoredRows \cup {None}]

Transaction ==
    [step : {"idle", "read", "write", "fetch", "open"}, op : {"enter", "archive", "use", None},
     of : Rows \cup {None}, secret : Secrets \cup {Short, None}, read : StoredRows \cup {None},
     ciphertext : Ciphertexts \cup {None}, first : Dues \cup {None}, second : Dues \cup {None}]

Outcomes == {"ok", "sent", "too_short", "not_configured", "conflict", "rotated", "truncated",
             "not_its_own", "unreadable", None}

Answered ==
    [of : Rows \cup {None}, outcome : Outcomes, secret : Secrets \cup {None},
     first : Dues \cup {None}, second : Dues \cup {None}]

Types ==
    /\ master \in Masters
    /\ rows \in Table /\ due \in [Rows -> Dues \cup {None}]
    /\ dump \in [rows : Table, due : [Rows -> Dues \cup {None}]]
    /\ entered \in [Rows -> SUBSET Secrets]
    /\ tx \in [Clients -> Transaction]
    /\ answer \in [Clients -> Answered]

(* The row a ciphertext is bound to was entered with its secret.            *)
Rooted(x) == \A r \in Rows : x.bound = Aad(r) => x.secret \in entered[r]

RootedTable(table) == \A r \in Rows : table[r] # None => Rooted(table[r].ciphertext)

(* What is due of a row is what the row holds, whole and in its place.      *)
SealedAs(d, r) == [secret |-> d.secret, under |-> d.under, bound |-> Aad(r), whole |-> TRUE]

Holds(table, dues) ==
    \A r \in Rows : dues[r] # None =>
        /\ table[r] # None
        /\ table[r].key = dues[r].under
        /\ table[r].ciphertext = SealedAs(dues[r], r)

(* A request that is to write over a row finds one, whose key is no older   *)
(* than the one it read.                                                    *)
Writing(t) ==
    /\ t.of # None /\ t.first = None
    /\ t.op = "enter" => t.secret \in Secrets
    /\ t.op = "archive" => t.read # None
    /\ t.read # None => /\ rows[t.of] # None
                        /\ t.read.key = master => rows[t.of].key = master

(* A request that is to ask for the ciphertext of a row it has read.        *)
Fetching(t) ==
    /\ t.of # None /\ t.read # None /\ rows[t.of] # None
    /\ t.first # None => /\ t.read.key = t.first.under
                         /\ due[t.of] # None
                         /\ due[t.of].under \in {t.first.under, master}

(* A request that is to open what it read.                                  *)
Opening(t) ==
    /\ t.of # None /\ t.read # None /\ t.ciphertext # None
    /\ Rooted(t.ciphertext)
    /\ t.first # None => /\ t.read.key = t.first.under
                         /\ t.second # None
                         /\ t.ciphertext = SealedAs(t.second, t.of)
                         /\ t.second.under \in {t.first.under, master}

Coherent(t) ==
    /\ t.step = "read" => t.of # None /\ t.first = None /\ (t.op = "enter" => t.secret # None)
    /\ t.step = "write" => Writing(t)
    /\ t.step = "fetch" => Fetching(t)
    /\ t.step = "open" => Opening(t)

Sound(a) ==
    /\ a.secret # None => a.of # None /\ a.secret \in entered[a.of]
    /\ a.first # None /\ a.first.under = master => a.secret = a.second.secret

TablesAreSound ==
    /\ RootedTable(rows) /\ RootedTable(dump.rows)
    /\ Holds(rows, due) /\ Holds(dump.rows, dump.due)

SealingInv ==
    /\ Types
    /\ TablesAreSound
    /\ \A c \in Clients : Coherent(tx[c]) /\ Sound(answer[c])

-----------------------------------------------------------------------------
(* Bindings and ciphertexts.                                                *)

(* A binding names one row.                                                 *)
LEMMA BindingsAreDistinct ==
    ASSUME SealingAssumption, NEW q \in Rows, NEW r \in Rows, Aad(q) = Aad(r)
    PROVE  q = r
  BY DEF SealingAssumption, Aad

LEMMA EncryptionIsRooted ==
    ASSUME SealingAssumption, master \in Masters, NEW s \in Secrets, NEW r \in Rows
    PROVE  /\ Encrypt(s, r) \in Ciphertexts
           /\ Encrypt(s, r) = SealedAs([secret |-> s, under |-> master], r)
           /\ \A q \in Rows : Encrypt(s, r).bound = Aad(q) => q = r
  BY BindingsAreDistinct DEF Encrypt, Ciphertexts, SealedAs

(* What is due of a row, under the key in use, opens for that row.          *)
LEMMA WhatIsDueOpens ==
    ASSUME NEW d \in Dues, NEW r \in Rows, d.under = master
    PROVE  Failure(master, SealedAs(d, r), r) = None
  BY DEF Failure, SealedAs, Dues

(* Nothing opens for a row that was not bound to it.                        *)
LEMMA WhatOpensIsBound ==
    ASSUME SealingAssumption, NEW key, NEW x, NEW r \in Rows, Failure(key, x, r) = None
    PROVE  x.bound = Aad(r)
  BY DEF Failure, Failures, SealingAssumption

-----------------------------------------------------------------------------
(* The initial states.                                                      *)

LEMMA InitIsSealed ==
    ASSUME SealingAssumption, Init
    PROVE  SealingInv
<1>1. PICK e \in Existing :
        /\ rows = [r \in Rows |-> IF e[r] = None THEN None
                                  ELSE [live |-> e[r].live, key |-> master,
                                        ciphertext |-> Encrypt(e[r].secret, r)]]
        /\ due = [r \in Rows |-> IF e[r] = None THEN None
                                 ELSE [secret |-> e[r].secret, under |-> master]]
        /\ entered = [r \in Rows |-> IF e[r] = None THEN {} ELSE {e[r].secret}]
  BY DEF Init
<1>2. \A r \in Rows : e[r] # None => e[r].secret \in Secrets /\ e[r].live \in BOOLEAN
  BY DEF SealingAssumption
<1>3. master \in Masters
  BY DEF Init
<1>4. \A r \in Rows : e[r] # None =>
        /\ Encrypt(e[r].secret, r) \in Ciphertexts
        /\ Encrypt(e[r].secret, r) = SealedAs([secret |-> e[r].secret, under |-> master], r)
        /\ \A q \in Rows : Encrypt(e[r].secret, r).bound = Aad(q) => q = r
        /\ Encrypt(e[r].secret, r).secret = e[r].secret
  BY <1>2, <1>3, EncryptionIsRooted DEF Encrypt
<1>5. rows \in Table /\ due \in [Rows -> Dues \cup {None}] /\ entered \in [Rows -> SUBSET Secrets]
  BY <1>1, <1>2, <1>3, <1>4 DEF Table, StoredRows, Dues
<1>6. Types
  BY <1>3, <1>5 DEF Init, Types, Idle, NoAnswer, Transaction, Answered, Outcomes
<1>7. Holds(rows, due)
  <2>1. SUFFICES ASSUME NEW r \in Rows, due[r] # None
                 PROVE  /\ rows[r] # None
                        /\ rows[r].key = due[r].under
                        /\ rows[r].ciphertext = SealedAs(due[r], r)
    BY DEF Holds
  <2>2. e[r] # None /\ due[r] = [secret |-> e[r].secret, under |-> master]
    BY <1>1, <2>1
  <2>3. rows[r] = [live |-> e[r].live, key |-> master, ciphertext |-> Encrypt(e[r].secret, r)]
    BY <1>1, <2>2
  <2>4. Encrypt(e[r].secret, r) = SealedAs(due[r], r)
    BY <1>4, <2>2
  <2>5. rows[r] # None
    <3>1. rows[r] \in StoredRows
      BY <1>2, <1>3, <1>4, <2>2, <2>3 DEF StoredRows
    <3>2. QED
      BY <3>1 DEF SealingAssumption
  <2>6. QED
    BY <2>2, <2>3, <2>4, <2>5
<1>8. RootedTable(rows)
  <2>1. SUFFICES ASSUME NEW r \in Rows, rows[r] # None
                 PROVE  Rooted(rows[r].ciphertext)
    BY DEF RootedTable
  <2>2. e[r] # None /\ rows[r].ciphertext = Encrypt(e[r].secret, r) /\ entered[r] = {e[r].secret}
    BY <1>1, <2>1
  <2>3. SUFFICES ASSUME NEW q \in Rows, rows[r].ciphertext.bound = Aad(q)
                 PROVE  rows[r].ciphertext.secret \in entered[q]
    BY DEF Rooted
  <2>4. q = r
    BY <1>4, <2>2, <2>3
  <2>5. QED
    BY <1>4, <2>2, <2>4
<1>9. TablesAreSound
  BY <1>7, <1>8 DEF Init, TablesAreSound
<1>10. QED
  BY <1>6, <1>9 DEF Init, SealingInv, Coherent, Sound, Idle, NoAnswer

-----------------------------------------------------------------------------
(* What the requests share.                                                 *)

(* A request that changes no row moves alone.                               *)
LEMMA RequestsMoveAlone ==
    ASSUME SealingInv, UNCHANGED stored, NEW c \in Clients,
           NEW t \in Transaction, NEW a \in Answered,
           tx' = [tx EXCEPT ![c] = t], answer' = [answer EXCEPT ![c] = a],
           Coherent(t), Sound(a)
    PROVE  SealingInv'
<1>1. Types'
  BY DEF SealingInv, Types, stored
<1>2. TablesAreSound'
  BY DEF SealingInv, TablesAreSound, RootedTable, Rooted, Holds, stored
<1>3. ASSUME NEW d \in Clients
      PROVE  Coherent(tx[d])' /\ Sound(answer[d])'
  <2>1. Coherent(tx'[d]) /\ Sound(answer'[d])
    BY DEF SealingInv, Types
  <2>2. tx'[d] = (IF d = c THEN t ELSE tx[d]) /\ answer'[d] = (IF d = c THEN a ELSE answer[d])
    BY DEF SealingInv, Types
  <2>3. QED
    BY <2>1, <2>2 DEF Coherent, Writing, Fetching, Opening, Rooted, Sound, stored
<1>4. QED
  BY <1>1, <1>2, <1>3 DEF SealingInv
(* A request that only goes on, or that is refused.                         *)
LEMMA GoingOnIsSealed ==
    ASSUME SealingInv, NEW c \in Clients, NEW t \in Transaction, Go(c, t), Coherent(t)
    PROVE  SealingInv'
<1>1. answer[c] \in Answered /\ Sound(answer[c]) /\ answer' = [answer EXCEPT ![c] = answer[c]]
  BY DEF SealingInv, Types, Go
<1>2. QED
  BY <1>1, RequestsMoveAlone DEF Go

LEMMA IdleIsCoherent == Idle \in Transaction /\ Coherent(Idle)
  BY DEF Idle, Transaction, Coherent

LEMMA RefusalIsSealed ==
    ASSUME SealingInv, NEW c \in Clients, NEW outcome \in Outcomes, Refuse(c, outcome),
           tx[c].first = None \/ tx[c].first.under # master
    PROVE  SealingInv'
<1> DEFINE a == [of |-> tx[c].of, outcome |-> outcome, secret |-> None,
                 first |-> tx[c].first, second |-> tx[c].second]
<1>1. a \in Answered
  BY DEF SealingInv, Types, Transaction, Answered
<1>2. Sound(a)
  BY DEF Sound
<1>3. UNCHANGED stored /\ tx' = [tx EXCEPT ![c] = Idle] /\ answer' = [answer EXCEPT ![c] = a]
  BY DEF Refuse, Answer
<1>4. QED
  BY <1>1, <1>2, <1>3, IdleIsCoherent, RequestsMoveAlone

-----------------------------------------------------------------------------
(* The steps of a request.                                                  *)

LEMMA BeginIsSealed ==
    ASSUME SealingAssumption, SealingInv, NEW c \in Clients, NEW op \in {"enter", "use", "archive"}, NEW r \in Rows,
           NEW secret \in Secrets \cup {Short, None}, op = "enter" => secret # None,
           Begin(c, op, r, secret)
    PROVE  SealingInv'
<1> DEFINE t == [Idle EXCEPT !.step = "read", !.op = op, !.of = r, !.secret = secret]
<1>1. t \in Transaction /\ Coherent(t)
  BY DEF SealingAssumption, Idle, Transaction, Coherent
<1>2. NoAnswer \in Answered /\ Sound(NoAnswer)
  BY DEF NoAnswer, Answered, Outcomes, Sound
<1>3. UNCHANGED stored /\ tx' = [tx EXCEPT ![c] = t] /\ answer' = [answer EXCEPT ![c] = NoAnswer]
  BY DEF Begin
<1>4. QED
  BY <1>1, <1>2, <1>3, RequestsMoveAlone

LEMMA ReadRowIsSealed ==
    ASSUME SealingInv, NEW c \in Clients, ReadRow(c)
    PROVE  SealingInv'
<1> DEFINE t == tx[c]
           u == [t EXCEPT !.read = rows[t.of], !.step = "write"]
<1>1. t \in Transaction /\ Coherent(t) /\ t.step = "read" /\ t.of \in Rows /\ t.first = None
  BY DEF SealingInv, Types, Transaction, Coherent, ReadRow
<1>2. CASE \E outcome \in Outcomes : Refuse(c, outcome)
  BY <1>1, <1>2, RefusalIsSealed
<1>3. CASE /\ Go(c, u)
           /\ ~(t.op = "enter" /\ t.secret = Short)
           /\ ~(IF rows[t.of] = None THEN t.op = "archive" \/ Taken(t.of) ELSE ~rows[t.of].live)
  <2>1. u \in Transaction
    BY <1>1 DEF SealingInv, Types, Table, Transaction
  <2>2. Coherent(u)
    BY <1>1, <1>3 DEF SealingInv, Types, Table, StoredRows, Transaction, Coherent, Writing
  <2>3. QED
    BY <1>3, <2>1, <2>2, GoingOnIsSealed
<1>4. QED
  BY <1>2, <1>3 DEF ReadRow, Outcomes
(* A key is entered: the row holds what is due of it, sealed for it, and    *)
(* what was entered of a row stays so.                                      *)
LEMMA SealIntoIsSealed ==
    ASSUME SealingAssumption, SealingInv, NEW c \in Clients, SealInto(c)
    PROVE  SealingInv'
<1> DEFINE t == tx[c]
           r == t.of
           sealed == Encrypt(t.secret, r)
           d == [secret |-> t.secret, under |-> master]
<1>1. /\ t \in Transaction /\ t.step = "write" /\ t.op = "enter" /\ Writing(t)
      /\ r \in Rows /\ t.secret \in Secrets /\ t.first = None /\ master \in Masters
  BY DEF SealingInv, Types, Transaction, Coherent, Writing, SealInto
<1>2. CASE Refuse(c, "conflict")
  BY <1>1, <1>2, RefusalIsSealed DEF Outcomes
<1>3. CASE ~Refuse(c, "conflict")
  <2>1. PICK row \in StoredRows :
           /\ row.key = master /\ row.ciphertext = sealed
           /\ rows' = [rows EXCEPT ![r] = row]
    <3>1. sealed \in Ciphertexts
      BY <1>1, EncryptionIsRooted
    <3>2. CASE t.read = None
      <4>1. [live |-> TRUE, key |-> master, ciphertext |-> sealed] \in StoredRows
        BY <1>1, <3>1 DEF StoredRows
      <4>2. rows' = [rows EXCEPT ![r] = [live |-> TRUE, key |-> master, ciphertext |-> sealed]]
        BY <1>3, <3>2 DEF SealInto
      <4>3. QED
        BY <4>1, <4>2
    <3>3. CASE t.read # None
      <4> DEFINE row == [rows[r] EXCEPT !.key = IF t.read.key = master THEN @ ELSE master,
                                        !.ciphertext = sealed]
      <4>1. rows[r] \in StoredRows /\ (t.read.key = master => rows[r].key = master)
        BY <1>1, <3>3 DEF SealingInv, Types, Table, Writing
      <4>2. row \in StoredRows /\ row.key = master /\ row.ciphertext = sealed
        BY <1>1, <3>1, <4>1 DEF StoredRows
      <4>3. rows' = [rows EXCEPT ![r] = row]
        BY <1>3, <3>3 DEF SealInto
      <4>4. QED
        BY <4>2, <4>3
    <3>4. QED
      BY <3>2, <3>3
  <2>2. /\ entered' = [entered EXCEPT ![r] = @ \cup {t.secret}]
        /\ due' = [due EXCEPT ![r] = d]
        /\ UNCHANGED <<master, dump>> /\ Answer(c, "ok", None)
    BY <1>3 DEF SealInto
  <2>3. sealed \in Ciphertexts /\ sealed = SealedAs(d, r) /\ sealed.secret = t.secret
        /\ \A q \in Rows : sealed.bound = Aad(q) => q = r
    BY <1>1, EncryptionIsRooted DEF Encrypt
  <2>4. row # None
    BY <2>1 DEF SealingAssumption
  <2>5. \A q \in Rows : entered[q] \subseteq entered'[q] /\ t.secret \in entered'[r]
    BY <1>1, <2>2 DEF SealingInv, Types
  <2>6. \A x : Rooted(x) => Rooted(x)'
    BY <2>5 DEF Rooted
  <2>7. Rooted(row.ciphertext)'
    <3>1. \A q \in Rows : sealed.bound = Aad(q) => sealed.secret \in entered'[q]
      BY <2>3, <2>5
    <3>2. QED
      BY <2>1, <3>1 DEF Rooted
  <2>8. d \in Dues /\ d # None
    BY <1>1 DEF SealingAssumption, Dues
  <2>9. \A q \in Rows : /\ rows'[q] = (IF q = r THEN row ELSE rows[q])
                        /\ due'[q] = (IF q = r THEN d ELSE due[q])
    BY <2>1, <2>2 DEF SealingInv, Types, Table
  <2>10. \A e \in Clients :
            /\ tx'[e] = (IF e = c THEN Idle ELSE tx[e])
            /\ e # c => answer'[e] = answer[e]
    BY <2>2 DEF Answer, SealingInv, Types
  <2>11. /\ answer'[c].secret = None /\ answer'[c].first = None
         /\ answer' \in [Clients -> Answered]
    BY <1>1, <2>2 DEF Answer, SealingInv, Types, Transaction, Answered, Outcomes
  <2>12. Types'
    <3>1. rows' \in Table /\ due' \in [Rows -> Dues \cup {None}] /\ entered' \in [Rows -> SUBSET Secrets]
      BY <1>1, <2>1, <2>2, <2>8 DEF SealingInv, Types, Table
    <3>2. tx' \in [Clients -> Transaction]
      BY <2>2, IdleIsCoherent DEF Answer, SealingInv, Types
    <3>3. QED
      BY <2>2, <2>11, <3>1, <3>2 DEF SealingInv, Types
  <2>13. TablesAreSound'
    <3>1. RootedTable(rows)'
      BY <2>1, <2>6, <2>7, <2>9 DEF SealingInv, TablesAreSound, RootedTable
    <3>2. RootedTable(dump.rows)'
      BY <2>2, <2>6 DEF SealingInv, TablesAreSound, RootedTable
    <3>3. Holds(rows, due)'
      BY <2>1, <2>3, <2>4, <2>9 DEF SealingInv, TablesAreSound, Holds
    <3>4. Holds(dump.rows, dump.due)'
      BY <2>2 DEF SealingInv, TablesAreSound, Holds
    <3>5. QED
      BY <3>1, <3>2, <3>3, <3>4 DEF TablesAreSound
  <2>14. ASSUME NEW e \in Clients PROVE Coherent(tx[e])'
    <3>1. CASE e = c
      BY <2>10, <3>1 DEF Idle, Coherent
    <3>2. CASE e # c
      <4>1. tx'[e] = tx[e] /\ Coherent(tx[e]) /\ tx[e] \in Transaction /\ master' = master
        BY <2>2, <2>10, <3>2 DEF SealingInv, Types
      <4>2. Writing(tx[e]) => Writing(tx[e])'
        BY <2>1, <2>4, <2>9, <4>1 DEF Writing, Transaction
      <4>3. Fetching(tx[e]) => Fetching(tx[e])'
        BY <2>4, <2>8, <2>9, <4>1 DEF Fetching, Transaction
      <4>4. Opening(tx[e]) => Opening(tx[e])'
        BY <2>6, <4>1 DEF Opening
      <4>5. QED
        BY <4>1, <4>2, <4>3, <4>4 DEF Coherent
    <3>3. QED
      BY <3>1, <3>2
  <2>15. ASSUME NEW e \in Clients PROVE Sound(answer[e])'
    <3>1. CASE e = c
      BY <2>11, <3>1 DEF Sound
    <3>2. CASE e # c
      BY <2>2, <2>5, <2>10, <3>2 DEF SealingInv, Types, Answered, Sound
    <3>3. QED
      BY <3>1, <3>2
  <2>16. QED
    BY <2>12, <2>13, <2>14, <2>15 DEF SealingInv
<1>4. QED
  BY <1>2, <1>3

(* A configuration put away keeps its key and its ciphertext.               *)
LEMMA ArchiveIsSealed ==
    ASSUME SealingAssumption, SealingInv, NEW c \in Clients, Archive(c)
    PROVE  SealingInv'
<1> DEFINE r == tx[c].of
           row == [rows[r] EXCEPT !.live = FALSE]
<1>1. /\ r \in Rows /\ rows[r] \in StoredRows /\ tx[c].first = None /\ tx[c] \in Transaction
      /\ rows[r] # None
  BY DEF SealingInv, Types, Table, Transaction, Coherent, Writing, Archive
<1>2. row \in StoredRows /\ row.key = rows[r].key /\ row.ciphertext = rows[r].ciphertext
  BY <1>1 DEF StoredRows
<1>3. row # None
  BY <1>2 DEF SealingAssumption
<1>4. /\ rows' = [rows EXCEPT ![r] = row]
      /\ UNCHANGED <<master, dump, entered, due>> /\ Answer(c, "ok", None)
  BY DEF Archive, SealingInv, Types, Table
<1>5. \A q \in Rows : rows'[q] = (IF q = r THEN row ELSE rows[q])
  BY <1>4 DEF SealingInv, Types, Table
<1>6. \A e \in Clients :
         /\ tx'[e] = (IF e = c THEN Idle ELSE tx[e])
         /\ e # c => answer'[e] = answer[e]
  BY <1>4 DEF Answer, SealingInv, Types
<1>7. /\ answer'[c].secret = None /\ answer'[c].first = None
      /\ answer' \in [Clients -> Answered]
  BY <1>1, <1>4 DEF Answer, SealingInv, Types, Transaction, Answered, Outcomes
<1>8. Types'
  <2>1. rows' \in Table
    BY <1>1, <1>2, <1>4 DEF SealingInv, Types, Table
  <2>2. tx' \in [Clients -> Transaction]
    BY <1>4, IdleIsCoherent DEF Answer, SealingInv, Types
  <2>3. QED
    BY <1>4, <1>7, <2>1, <2>2 DEF SealingInv, Types
<1>9. TablesAreSound'
  BY <1>1, <1>2, <1>3, <1>4, <1>5 DEF SealingInv, TablesAreSound, RootedTable, Rooted, Holds
<1>10. ASSUME NEW e \in Clients PROVE Coherent(tx[e])' /\ Sound(answer[e])'
  <2>1. CASE e = c
    BY <1>6, <1>7, <2>1 DEF Idle, Coherent, Sound
  <2>2. CASE e # c
    <3>1. /\ tx'[e] = tx[e] /\ Coherent(tx[e]) /\ tx[e] \in Transaction
          /\ answer'[e] = answer[e] /\ Sound(answer[e])
      BY <1>6, <2>2 DEF SealingInv, Types
    <3>2. Writing(tx[e]) => Writing(tx[e])'
      BY <1>2, <1>3, <1>4, <1>5, <3>1 DEF Writing, Transaction
    <3>3. Fetching(tx[e]) => Fetching(tx[e])'
      BY <1>3, <1>4, <1>5, <3>1 DEF Fetching, Transaction
    <3>4. Opening(tx[e]) => Opening(tx[e])'
      BY <1>4, <3>1 DEF Opening, Rooted
    <3>5. Sound(answer[e])'
      BY <1>4, <3>1 DEF Sound
    <3>6. QED
      BY <3>1, <3>2, <3>3, <3>4, <3>5 DEF Coherent
  <2>3. QED
    BY <2>1, <2>2
<1>11. QED
  BY <1>8, <1>9, <1>10 DEF SealingInv

LEMMA LoadIsSealed ==
    ASSUME SealingAssumption, SealingInv, NEW c \in Clients, Load(c)
    PROVE  SealingInv'
<1> DEFINE t == tx[c]
           r == t.of
           next == IF r.domain = "provider" THEN "fetch" ELSE "open"
           u == [t EXCEPT !.read = rows[r], !.first = due[r], !.second = due[r],
                          !.ciphertext = rows[r].ciphertext, !.step = next]
<1>1. t \in Transaction /\ Coherent(t) /\ t.step = "read" /\ r \in Rows /\ t.first = None /\ r # None
  BY DEF SealingInv, Types, Transaction, Coherent, Load
<1>2. CASE ~Live(rows[r])
  BY <1>1, <1>2, RefusalIsSealed DEF Load, Outcomes
<1>3. CASE Live(rows[r])
  <2>1. Go(c, u)
    BY <1>3 DEF Load
  <2>2. /\ rows[r] \in StoredRows /\ rows[r] # None /\ rows[r].ciphertext \in Ciphertexts
        /\ due[r] \in Dues \cup {None}
    BY <1>1, <1>3 DEF SealingInv, Types, Table, StoredRows, Live
  <2>3. rows[r].ciphertext # None
    BY <2>2 DEF SealingAssumption
  <2>4. Rooted(rows[r].ciphertext)
    BY <1>1, <2>2 DEF SealingInv, TablesAreSound, RootedTable
  <2>5. due[r] # None => /\ rows[r].key = due[r].under
                         /\ rows[r].ciphertext = SealedAs(due[r], r)
    BY <1>1 DEF SealingInv, TablesAreSound, Holds
  <2>6. next \in {"fetch", "open"}
    OBVIOUS
  <2> HIDE DEF next
  <2>7. u \in Transaction
    BY <1>1, <2>2, <2>6 DEF Transaction
  <2>8. /\ u.of = r /\ u.read = rows[r] /\ u.first = due[r] /\ u.second = due[r]
        /\ u.ciphertext = rows[r].ciphertext /\ u.step = next
    BY <1>1 DEF Transaction
  <2> HIDE DEF u
  <2>9. Fetching(u) /\ Opening(u)
    BY <1>1, <2>2, <2>3, <2>4, <2>5, <2>8 DEF Fetching, Opening
  <2>10. Coherent(u)
    BY <2>6, <2>8, <2>9 DEF Coherent
  <2>11. QED
    BY <2>1, <2>7, <2>10, GoingOnIsSealed
<1>4. QED
  BY <1>2, <1>3

(* The ciphertext is read by a query of its own: if the key was entered     *)
(* anew in between, it is still one that must open.                         *)
LEMMA SealedCredentialIsSealed ==
    ASSUME SealingAssumption, SealingInv, NEW c \in Clients, SealedCredential(c)
    PROVE  SealingInv'
<1> DEFINE t == tx[c]
           r == t.of
           u == [t EXCEPT !.ciphertext = rows[r].ciphertext, !.second = due[r], !.step = "open"]
<1>1. t \in Transaction /\ t.step = "fetch" /\ Fetching(t) /\ r \in Rows /\ rows[r] # None
  BY DEF SealingInv, Types, Transaction, Coherent, Fetching, SealedCredential
<1>2. /\ rows[r] \in StoredRows /\ rows[r].ciphertext \in Ciphertexts /\ due[r] \in Dues \cup {None}
  BY <1>1 DEF SealingInv, Types, Table, StoredRows
<1>3. rows[r].ciphertext # None /\ Rooted(rows[r].ciphertext)
  BY <1>1, <1>2 DEF SealingAssumption, SealingInv, TablesAreSound, RootedTable
<1>4. due[r] # None => rows[r].ciphertext = SealedAs(due[r], r)
  BY <1>1 DEF SealingInv, TablesAreSound, Holds
<1>5. u \in Transaction
  BY <1>1, <1>2 DEF Transaction
<1>6. /\ u.of = r /\ u.read = t.read /\ u.first = t.first /\ u.second = due[r]
      /\ u.ciphertext = rows[r].ciphertext /\ u.step = "open"
  BY <1>1 DEF Transaction
<1>7. Go(c, u)
  BY DEF SealedCredential
<1> HIDE DEF u
<1>8. Coherent(u)
  BY <1>1, <1>3, <1>4, <1>6 DEF Fetching, Opening, Coherent
<1>9. QED
  BY <1>5, <1>7, <1>8, GoingOnIsSealed

(* What opens was entered for the row it is opened for, and what was last   *)
(* entered under the key in use opens.                                      *)
LEMMA DecryptIsSealed ==
    ASSUME SealingAssumption, SealingInv, NEW c \in Clients, Decrypt(c)
    PROVE  SealingInv'
<1> DEFINE t == tx[c]
           failure == Failure(t.read.key, t.ciphertext, t.of)
           a == [of |-> t.of, outcome |-> "sent", secret |-> t.ciphertext.secret,
                 first |-> t.first, second |-> t.second]
<1>1. /\ t \in Transaction /\ Opening(t) /\ t.of \in Rows /\ t.of # None
      /\ t.ciphertext \in Ciphertexts
  BY DEF SealingInv, Types, Transaction, Coherent, Opening, Decrypt
<1>2. ASSUME t.first # None, t.first.under = master
      PROVE  failure = None /\ t.ciphertext.secret = t.second.secret
  <2>1. /\ t.second \in Dues /\ t.second.under = master /\ t.read.key = master
        /\ t.ciphertext = SealedAs(t.second, t.of)
    BY <1>1, <1>2 DEF Opening, Transaction
  <2>2. QED
    BY <1>1, <2>1, WhatIsDueOpens DEF SealedAs
<1>3. CASE failure = None
  <2>1. t.ciphertext.secret \in entered[t.of]
    BY <1>1, <1>3, WhatOpensIsBound DEF Opening, Rooted
  <2>2. a \in Answered
    BY <1>1 DEF Transaction, Ciphertexts, Answered, Outcomes
  <2>3. Sound(a)
    BY <1>1, <1>2, <2>1 DEF Sound
  <2>4. UNCHANGED stored /\ tx' = [tx EXCEPT ![c] = Idle] /\ answer' = [answer EXCEPT ![c] = a]
    BY <1>3 DEF Decrypt, Answer
  <2> HIDE DEF a
  <2>5. QED
    BY <2>2, <2>3, <2>4, IdleIsCoherent, RequestsMoveAlone
<1>4. CASE failure # None
  <2>1. t.first = None \/ t.first.under # master
    BY <1>2, <1>4
  <2>2. Told(failure, t.of) \in Outcomes
    BY DEF Told, Failure, Outcomes
  <2>3. Refuse(c, Told(failure, t.of))
    BY <1>4 DEF Decrypt
  <2> HIDE DEF failure
  <2>4. QED
    BY <2>1, <2>2, <2>3, RefusalIsSealed
<1>5. QED
  BY <1>3, <1>4

-----------------------------------------------------------------------------
(* What happens with the service stopped.                                   *)

LEMMA StoppedLeavesNobody ==
    ASSUME Stopped
    PROVE  /\ tx' \in [Clients -> Transaction] /\ answer' \in [Clients -> Answered]
           /\ \A c \in Clients : tx'[c] = Idle /\ answer'[c] = NoAnswer
  BY DEF Stopped, Idle, NoAnswer, Transaction, Answered, Outcomes

LEMMA TheIdleAreSound ==
    ASSUME NEW c \in Clients, tx'[c] = Idle, answer'[c] = NoAnswer
    PROVE  Coherent(tx[c])' /\ Sound(answer[c])'
  BY DEF Idle, NoAnswer, Coherent, Sound

LEMMA RestartIsSealed ==
    ASSUME SealingInv, NEW m \in Masters, Restart(m) \/ Restore(m) \/ Backup
    PROVE  SealingInv'
<1>1. Stopped /\ UNCHANGED entered
  BY DEF Restart, Restore, Backup
<1>2. Types'
  BY <1>1, StoppedLeavesNobody DEF Restart, Restore, Backup, SealingInv, Types
<1>3. TablesAreSound'
  BY <1>1 DEF Restart, Restore, Backup, SealingInv, TablesAreSound, RootedTable, Rooted, Holds
<1>4. QED
  BY <1>1, <1>2, <1>3, StoppedLeavesNobody, TheIdleAreSound DEF SealingInv

(* A row whose columns were spoilt holds a ciphertext of some row, and      *)
(* nothing is due of it.                                                    *)
LEMMA SpoilIsSealed ==
    ASSUME SealingAssumption, SealingInv, NEW r \in Rows, NEW row \in StoredRows,
           Rooted(row.ciphertext), Spoil(r, row)
    PROVE  SealingInv'
<1>1. Stopped /\ UNCHANGED <<master, dump, entered>>
      /\ rows' = [rows EXCEPT ![r] = row] /\ due' = [due EXCEPT ![r] = None]
  BY DEF Spoil
<1>2. Types'
  BY <1>1, StoppedLeavesNobody DEF SealingInv, Types, Table
<1>3. \A q \in Rows : /\ rows'[q] = (IF q = r THEN row ELSE rows[q])
                      /\ due'[q] = (IF q = r THEN None ELSE due[q])
  BY <1>1 DEF SealingInv, Types, Table
<1>4. TablesAreSound'
  BY <1>1, <1>3 DEF SealingInv, TablesAreSound, RootedTable, Rooted, Holds
<1>5. QED
  BY <1>1, <1>2, <1>4, StoppedLeavesNobody, TheIdleAreSound DEF SealingInv

LEMMA MaintenanceIsSealed ==
    ASSUME SealingAssumption, SealingInv, NEW q \in Rows, NEW r \in Rows,
           Carry(q, r) \/ Truncate(r)
    PROVE  SealingInv'
<1>1. CASE Carry(q, r)
  <2> DEFINE row == [rows[r] EXCEPT !.key = rows[q].key, !.ciphertext = rows[q].ciphertext]
  <2>1. rows[q] \in StoredRows /\ rows[r] \in StoredRows /\ Rooted(rows[q].ciphertext)
    BY <1>1 DEF Carry, SealingInv, Types, Table, TablesAreSound, RootedTable
  <2>2. row \in StoredRows /\ row.ciphertext = rows[q].ciphertext
    BY <2>1 DEF StoredRows
  <2>3. Spoil(r, row)
    BY <1>1 DEF Carry
  <2> HIDE DEF row
  <2>4. QED
    BY <2>1, <2>2, <2>3, SpoilIsSealed
<1>2. CASE Truncate(r)
  <2> DEFINE cut == [rows[r].ciphertext EXCEPT !.whole = FALSE]
             row == [rows[r] EXCEPT !.ciphertext = cut]
  <2>1. rows[r] \in StoredRows /\ Rooted(rows[r].ciphertext) /\ rows[r].ciphertext \in Ciphertexts
    BY <1>2 DEF Truncate, SealingInv, Types, Table, TablesAreSound, RootedTable, StoredRows
  <2>2. cut \in Ciphertexts /\ cut.bound = rows[r].ciphertext.bound
        /\ cut.secret = rows[r].ciphertext.secret
    BY <2>1 DEF Ciphertexts
  <2>3. Spoil(r, row)
    BY <1>2 DEF Truncate
  <2> HIDE DEF cut
  <2>4. row \in StoredRows /\ row.ciphertext = cut /\ Rooted(cut)
    BY <2>1, <2>2 DEF StoredRows, Rooted
  <2> HIDE DEF row
  <2>5. QED
    BY <2>3, <2>4, SpoilIsSealed
<1>3. QED
  BY <1>1, <1>2

-----------------------------------------------------------------------------
LEMMA NextIsSealed ==
    ASSUME SealingAssumption, SealingInv, [Next]_vars
    PROVE  SealingInv'
<1>1. ASSUME NEW c \in Clients, NEW r \in Rows,
             \/ \E s \in Secrets \cup {Short} : Begin(c, "enter", r, s)
             \/ Begin(c, "use", r, None)
             \/ Begin(c, "archive", r, None)
      PROVE  SealingInv'
  <2>1. None \notin Secrets \cup {Short}
    BY DEF SealingAssumption
  <2>2. QED
    BY <1>1, <2>1, BeginIsSealed
<1>2. ASSUME NEW c \in Clients,
             ReadRow(c) \/ SealInto(c) \/ Archive(c) \/ Load(c) \/ SealedCredential(c) \/ Decrypt(c)
      PROVE  SealingInv'
  BY <1>2, ReadRowIsSealed, SealIntoIsSealed, ArchiveIsSealed, LoadIsSealed,
     SealedCredentialIsSealed, DecryptIsSealed
<1>3. CASE \E m \in Masters : Restart(m) \/ Restore(m)
  BY <1>3, RestartIsSealed
<1>4. CASE Backup
  BY <1>4, RestartIsSealed DEF SealingInv, Types
<1>5. CASE \E r \in Rows : Truncate(r) \/ \E q \in Rows \ {r} : Carry(q, r)
  BY <1>5, MaintenanceIsSealed
<1>6. CASE UNCHANGED vars
  BY <1>6 DEF vars, stored, SealingInv, Types, TablesAreSound, RootedTable, Rooted, Holds,
     Coherent, Writing, Fetching, Opening, Sound
<1>7. QED
  BY <1>1, <1>2, <1>3, <1>4, <1>5, <1>6 DEF Next, Finished

(* Whatever was rotated, restored, carried over or cut short, a secret that *)
(* is sent was entered for the row it is sent for; and what was entered     *)
(* last, under the key in use, is what is sent.                             *)
THEOREM SecretsOpenAtHome ==
    ASSUME SealingAssumption
    PROVE  Spec => []KeysOpenOnlyAtHome
<1>1. Init => SealingInv
  BY InitIsSealed
<1>2. SealingInv /\ [Next]_vars => SealingInv'
  BY NextIsSealed
<1>3. SealingInv => KeysOpenOnlyAtHome
  BY DEF SealingInv, Sound, KeysOpenOnlyAtHome
<1>4. QED
  BY <1>1, <1>2, <1>3, PTL DEF Spec

=============================================================================
