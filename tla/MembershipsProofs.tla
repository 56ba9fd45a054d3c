--------------------------- MODULE MembershipsProofs ---------------------------
(***************************************************************************)
(* For any accounts, households, invitations, tokens, clients and          *)
(* requests: an erasure leaves nothing behind, a household that stands     *)
(* keeps its owner, every other member spent an invitation of its own, and *)
(* what was withdrawn gets nothing.  What keeps them is who holds which    *)
(* row: a row that is written is held by one transaction, and a row that   *)
(* is named by a foreign key is not deleted by another meanwhile.          *)
(***************************************************************************)
EXTENDS Memberships, FiniteSetTheorems, TLAPS

Lockable ==
    {HouseholdRow(h) : h \in Households} \cup {AccountRow(a) : a \in Accounts}
    \cup {MemberRow(h, a) : h \in Households, a \in Accounts}
    \cup {InvitationRow(i) : i \in Invitations} \cup {TokenRow(k) : k \in Tokens}

Phases == {"idle", "auth", "count", "insert", "resolve", "check", "update", "join", "actor",
           "target", "delete", "touch", "cascade", "commit"}

Transaction ==
    [phase : Phases, req : Requests \cup {None}, id : Invitations \cup Tokens \cup {None},
     past : SUBSET Invitations, late : BOOLEAN, seen : Invitation \cup {None},
     own : SUBSET Lockable, shared : SUBSET Lockable]

Outcomes == {"ok", "unauthenticated", "forbidden", "role_not_allowed", "too_many", "integrity",
             "not_accepted", "already_member", "not_permitted", "no_such_member", "last_owner",
             "incomplete", "would_orphan", "check_violation", "interrupted", "deadlock", None}

Types ==
    /\ accounts \subseteq Accounts /\ households \subseteq Households
    /\ members \in [Households -> [Accounts -> Roles \cup {None}]]
    /\ invitations \in [Invitations -> Invitation \cup {None, Gone}]
    /\ tokens \in [Tokens -> Token \cup {None, Gone}]
    /\ tx \in [Clients -> Transaction]
    /\ reply \in [Clients -> [op : Ops \cup {None}, outcome : Outcomes]]

Erasing == {"erase_household", "erase_account"}

(* The operations that are in each phase.                                   *)
During(phase) ==
    CASE phase = "auth" -> Ops \ {"use"}
      [] phase \in {"count", "insert"} -> {"invite", "mint"}
      [] phase = "resolve" -> {"redeem", "use"}
      [] phase = "check" -> {"redeem"} \cup Erasing
      [] phase = "update" -> {"redeem", "revoke", "unmint"}
      [] phase = "join" -> {"redeem"}
      [] phase \in {"actor", "target"} -> {"remove"}
      [] phase = "delete" -> {"remove"} \cup Erasing
      [] phase = "touch" -> {"use"}
      [] phase = "cascade" -> Erasing
      [] phase = "commit" -> Ops
      [] OTHER -> {}

Reading == {"auth", "count", "insert", "resolve", "check", "update", "actor", "target", "delete",
            "touch"}

(* The rows a transaction holds, by what it does with them.                 *)
Holds(t) ==
    /\ \A h \in Households : HouseholdRow(h) \in t.own =>
          t.req.op = "erase_household" /\ t.req.house = h
    /\ \A a \in Accounts : AccountRow(a) \in t.own => t.req.op = "erase_account" /\ t.req.who = a
    /\ \A h \in Households, a \in Accounts : MemberRow(h, a) \in t.own =>
          \/ t.req.op = "remove" /\ h = t.req.house /\ a = t.req.on
          \/ t.req.op = "redeem" /\ h = t.seen.house /\ a = t.req.who /\ t.phase = "commit"
          \/ t.req.op = "erase_household" /\ h = t.req.house
          \/ t.req.op = "erase_account" /\ a = t.req.who
    /\ \A i \in Invitations : InvitationRow(i) \in t.own =>
          /\ Stored(invitations[i])
          /\ \/ t.req.op \in {"revoke", "redeem"} /\ i = t.req.on
             \/ t.req.op = "erase_household" /\ invitations[i].house = t.req.house
             \/ t.req.op = "erase_account" /\ t.req.who \in {invitations[i].issuer, invitations[i].by}
    /\ \A k \in Tokens : TokenRow(k) \in t.own =>
          Stored(tokens[k]) /\ t.req.op \in {"unmint", "use"} \cup Erasing
    /\ \A row \in t.shared : Living(row)

Same(i, j) == i.house = j.house /\ i.issuer = j.issuer /\ i.role = j.role

(* What a redemption has resolved, spends and joins.                        *)
Redeems(t) ==
    LET i == invitations[t.req.on]
    IN  /\ t.phase \in {"check", "update", "join", "commit"} =>
              /\ t.seen \in Invitation /\ t.seen.role # "owner"
              /\ Stored(i) => Same(i, t.seen)
        /\ t.phase \in {"join", "commit"} =>
              /\ InvitationRow(t.req.on) \in t.own /\ ~i.redeemed
              /\ AccountRow(t.req.who) \in t.shared
        /\ t.phase = "commit" =>
              /\ HouseholdRow(t.seen.house) \in t.shared
              /\ MemberRow(t.seen.house, t.req.who) \in t.own
              /\ members[t.seen.house][t.req.who] # "owner"

(* What an erasure has found, and takes with it.                            *)
Takes(t) ==
    /\ t.req.op = "erase_account" /\ t.phase \in {"delete", "cascade", "commit"} =>
          \A h \in Households : members[h][t.req.who] # "owner"
    /\ t.phase \in {"cascade", "commit"} =>
          \/ OfHousehold(t) /\ (HouseholdRow(t.req.house) \in t.own \/ t.req.house \notin households)
          \/ ~OfHousehold(t) /\ (AccountRow(t.req.who) \in t.own \/ t.req.who \notin accounts)
    /\ t.phase = "commit" => Dependents(t) \subseteq t.own

(* The identifier a request creates a row with is still free.               *)
Creates(t) ==
    /\ t.req.op = "invite" => t.id \in Invitations /\ invitations[t.id] = None
    /\ t.req.op = "mint" => t.id \in Tokens /\ tokens[t.id] = None
    /\ t.req.op \notin {"invite", "mint"} => t.id = None
    /\ t.req.op \in {"invite", "mint"} /\ t.phase = "commit" =>
          HouseholdRow(t.req.house) \in t.shared /\ AccountRow(t.req.who) \in t.shared
    /\ t.req.op = "invite" /\ t.phase \in {"count", "insert", "commit"} =>
          t.req.role # "owner" /\ t.req.who = Founder[t.req.house]

Stands(t) ==
    IF t.phase = "idle" THEN t = IdleTx
    ELSE /\ t.req \in Requests /\ t.req.op \in During(t.phase)
         /\ t.phase \in Reading => t.own = {} /\ t.shared = {}
         /\ t.req.op \in {"revoke", "redeem"} => invitations[t.req.on] # None
         /\ Creates(t)
         /\ t.req.op = "redeem" => Redeems(t)
         /\ t.req.op = "remove" /\ t.phase \in {"delete", "commit"} =>
               members[t.req.house][t.req.on] # "owner"
         /\ t.req.op \in Erasing => Takes(t)
         /\ t.late => t.phase \in {"auth", "resolve"} /\ Dead(t.req, t.past)

(* Two transactions neither hold one row nor create one.                    *)
Apart(c, d) ==
    /\ tx[c].own \cap (tx[d].own \cup tx[d].shared) = {}
    /\ tx[c].id = tx[d].id => tx[c].id = None

(* Nobody is an owner who did not found the household, and its invitations  *)
(* are the founder's, for other roles.                                      *)
Founded ==
    /\ \A h \in Households, a \in Accounts : members[h][a] = "owner" => a = Founder[h]
    /\ \A h \in households : members[h][Founder[h]] = "owner"
    /\ \A i \in Invitations : Stored(invitations[i]) =>
          /\ invitations[i].role # "owner" /\ invitations[i].issuer = Founder[invitations[i].house]
          /\ invitations[i].by # None => invitations[i].redeemed

IInv ==
    /\ Types
    /\ \A c \in Clients : Holds(tx[c]) /\ Stands(tx[c])
    /\ \A c, d \in Clients : c # d => Apart(c, d)
    /\ Founded /\ ErasureIsComplete /\ MembershipsAreEarned

-----------------------------------------------------------------------------
(* A row has one name.                                                      *)
LEMMA RowsDiffer ==
    /\ \A h, g : HouseholdRow(h) = HouseholdRow(g) => h = g
    /\ \A a, b : AccountRow(a) = AccountRow(b) => a = b
    /\ \A h, a, g, b : MemberRow(h, a) = MemberRow(g, b) => h = g /\ a = b
    /\ \A i, j : InvitationRow(i) = InvitationRow(j) => i = j
    /\ \A k, j : TokenRow(k) = TokenRow(j) => k = j
    /\ \A h, a : HouseholdRow(h) # AccountRow(a)
    /\ \A h, g, a : HouseholdRow(h) # MemberRow(g, a)
    /\ \A h, i : HouseholdRow(h) # InvitationRow(i)
    /\ \A h, k : HouseholdRow(h) # TokenRow(k)
    /\ \A b, g, a : AccountRow(b) # MemberRow(g, a)
    /\ \A a, i : AccountRow(a) # InvitationRow(i)
    /\ \A a, k : AccountRow(a) # TokenRow(k)
    /\ \A h, a, i : MemberRow(h, a) # InvitationRow(i)
    /\ \A h, a, k : MemberRow(h, a) # TokenRow(k)
    /\ \A i, k : InvitationRow(i) # TokenRow(k)
  BY DEF HouseholdRow, AccountRow, MemberRow, InvitationRow, TokenRow

LEMMA IdleIsTyped ==
    ASSUME MembershipsAssumption
    PROVE  /\ IdleTx \in Transaction
           /\ \A outcome \in Outcomes, op \in Ops \cup {None} :
                 [op |-> op, outcome |-> outcome] \in [op : Ops \cup {None}, outcome : Outcomes]
  BY DEF IdleTx, Transaction, Phases

LEMMA InitEstablishes ==
    ASSUME MembershipsAssumption, Init
    PROVE  IInv
  <1> USE DEF MembershipsAssumption
  <1> DEFINE Initial(i) == CHOOSE m \in GuestOf(i) : TRUE
             Redemption(m) ==
                [house |-> m[1], issuer |-> Founder[m[1]], role |-> "member", by |-> m[2],
                 redeemed |-> TRUE, revoked |-> FALSE, expired |-> FALSE]
  <1>1. ASSUME NEW i \in Invitations
        PROVE  \/ GuestOf(i) = {} /\ invitations[i] = None
               \/ Initial(i) \in GuestOf(i) /\ invitations[i] = Redemption(Initial(i))
    BY DEF Init
  <1>2. ASSUME NEW m \in Households \X Accounts PROVE Redemption(m) \in Invitation
    BY DEF Invitation, Roles
  <1>3. ASSUME NEW i \in Invitations, Stored(invitations[i])
        PROVE  /\ invitations[i] \in Invitation /\ invitations[i].role = "member"
               /\ invitations[i].redeemed /\ invitations[i].issuer = Founder[invitations[i].house]
               /\ invitations[i].house \in Households /\ invitations[i].issuer \in Accounts
    <2>1. Initial(i) \in Households \X Accounts /\ invitations[i] = Redemption(Initial(i))
      BY <1>1, <1>3 DEF Stored, GuestOf
    <2> QED
      BY <1>2, <2>1
  <1>4. Types
    <2>1. members \in [Households -> [Accounts -> Roles \cup {None}]]
      BY DEF Init, Roles
    <2>2. invitations \in [Invitations -> Invitation \cup {None, Gone}]
      <3>1. \A i \in Invitations : invitations[i] \in Invitation \cup {None}
        <4> SUFFICES ASSUME NEW i \in Invitations PROVE invitations[i] \in Invitation \cup {None}
          OBVIOUS
        <4> HIDE DEF Initial, Redemption
        <4>1. CASE GuestOf(i) = {}
          BY <1>1, <4>1
        <4>2. CASE Initial(i) \in GuestOf(i) /\ invitations[i] = Redemption(Initial(i))
          BY <1>2, <4>2 DEF GuestOf
        <4> QED
          BY <1>1, <4>1, <4>2
      <3> QED
        BY <3>1 DEF Init
    <2> QED
      BY <2>1, <2>2, IdleIsTyped DEF Init, Types, NoReply, Outcomes
  <1>5. ASSUME NEW c \in Clients PROVE Holds(tx[c]) /\ Stands(tx[c])
    BY DEF Init, Holds, Stands, IdleTx
  <1>6. ASSUME NEW c \in Clients, NEW d \in Clients PROVE Apart(c, d)
    BY DEF Init, Apart, IdleTx
  <1>7. Founded
    BY <1>3 DEF Init, Founded, Roles
  <1>8. ErasureIsComplete
    BY <1>3 DEF Init, ErasureIsComplete, Stored
  <1>9. MembershipsAreEarned
    <2> SUFFICES ASSUME NEW h \in Households, NEW a \in Accounts, members[h][a] \notin {None, "owner"}
                 PROVE  \E i \in Invitations :
                           /\ Stored(invitations[i]) /\ invitations[i].by = a
                           /\ invitations[i].house = h /\ invitations[i].role = members[h][a]
      BY DEF MembershipsAreEarned
    <2> DEFINE i == Guests[h][a]
    <2>1. i \in Invitations /\ members[h][a] = "member"
      BY DEF Init
    <2>2. <<h, a>> \in GuestOf(i)
      BY DEF GuestOf
    <2>3. Initial(i) \in GuestOf(i) /\ invitations[i] = Redemption(Initial(i))
      BY <1>1, <2>1, <2>2
    <2>4. Initial(i) \in Households \X Accounts /\ Initial(i)[1] = h /\ Initial(i)[2] = a
      <3> HIDE DEF Initial
      <3>1. PICK m \in Households \X Accounts : m = Initial(i) /\ Guests[m[1]][m[2]] = i
        BY <2>3 DEF GuestOf
      <3> QED
        BY <2>1, <3>1
    <2>5. invitations[i] \in Invitation
      BY <1>2, <2>3, <2>4
    <2>6. Stored(invitations[i])
      BY <2>5 DEF Stored
    <2>7. invitations[i].by = a /\ invitations[i].house = h /\ invitations[i].role = "member"
      <3> HIDE DEF Initial
      <3> QED
        BY <2>3, <2>4
    <2> HIDE DEF i
    <2> QED
      BY <2>1, <2>6, <2>7
  <1> QED
    BY <1>4, <1>5, <1>6, <1>7, <1>8, <1>9 DEF IInv

-----------------------------------------------------------------------------
(* Steps that commit nothing: the transaction of one client moves.          *)
Local(c) ==
    /\ UNCHANGED stored
    /\ reply' \in [Clients -> [op : Ops \cup {None}, outcome : Outcomes]]
    /\ \A d \in Clients : d # c => tx'[d] = tx[d]
    /\ tx' = [tx EXCEPT ![c] = tx'[c]]

LEMMA LocalStep ==
    ASSUME IInv, NEW c \in Clients, Local(c), tx'[c] \in Transaction,
           Holds(tx'[c]), Stands(tx'[c]),
           \A d \in Clients : d # c => Apart(c, d)' /\ Apart(d, c)'
    PROVE  IInv'
  <1>1. Types'
    BY DEF IInv, Types, Local, stored
  <1>2. ASSUME NEW d \in Clients PROVE Holds(tx[d])' /\ Stands(tx[d])'
    <2>1. Holds(tx'[d]) /\ Stands(tx'[d])
      BY DEF IInv, Local
    <2>2. Holds(tx[d])'
      BY <2>1 DEF Holds, Local, stored, Living, Stored
    <2>3. Creates(tx'[d]) => Creates(tx[d])'
      BY DEF Creates, Local, stored
    <2>4. Redeems(tx'[d]) => Redeems(tx[d])'
      BY DEF Redeems, Local, stored, Stored, Same
    <2>5. Takes(tx'[d]) => Takes(tx[d])'
      BY DEF Takes, Local, stored, Dependents, Ended, Stored, OfHousehold
    <2>6. Dead(tx'[d].req, tx'[d].past) => Dead(tx[d].req, tx[d].past)'
      BY DEF Dead, Local, stored, Live, Owners, Stored
    <2>7. Stands(tx[d])'
      BY <2>1, <2>3, <2>4, <2>5, <2>6 DEF Stands, Local, stored
    <2> QED
      BY <2>2, <2>7
  <1>3. ASSUME NEW d \in Clients, NEW e \in Clients, d # e PROVE Apart(d, e)'
    BY <1>3 DEF IInv, Local, Apart
  <1>4. Founded' /\ ErasureIsComplete' /\ MembershipsAreEarned'
    BY DEF IInv, Local, stored, Founded, ErasureIsComplete, MembershipsAreEarned, Stored
  <1> QED
    BY <1>1, <1>2, <1>3, <1>4 DEF IInv

LEMMA RollbackStep ==
    ASSUME MembershipsAssumption, IInv, NEW c \in Clients, tx[c].phase # "idle",
           NEW outcome \in Outcomes, Rollback(c, outcome)
    PROVE  IInv'
  <1>1. Local(c) /\ tx'[c] = IdleTx
    <2>1. tx[c].req.op \in Ops
      BY DEF IInv, Stands, MembershipsAssumption, Request
    <2>2. [op |-> tx[c].req.op, outcome |-> outcome] \in [op : Ops \cup {None}, outcome : Outcomes]
      BY <2>1
    <2> QED
      BY <2>2 DEF Rollback, Answer, Local, IInv, Types
  <1>2. Holds(IdleTx) /\ Stands(IdleTx)
    BY DEF Holds, Stands, IdleTx
  <1>3. ASSUME NEW d \in Clients, d # c PROVE Apart(c, d)' /\ Apart(d, c)'
    BY <1>1 DEF Apart, IdleTx
  <1> QED
    BY <1>1, <1>2, <1>3, IdleIsTyped, LocalStep

(* A step that takes no row.                                                *)
LEMMA GoStep ==
    ASSUME IInv, NEW c \in Clients, NEW t \in Transaction, Go(c, t), Holds(t), Stands(t),
           t.own = tx[c].own, t.shared = tx[c].shared, t.id = tx[c].id
    PROVE  IInv'
  <1>1. Local(c) /\ tx'[c] = t
    BY DEF Go, Local, IInv, Types
  <1>2. ASSUME NEW d \in Clients, d # c PROVE Apart(c, d)' /\ Apart(d, c)'
    BY <1>1, <1>2 DEF IInv, Apart, Local
  <1> QED
    BY <1>1, <1>2, LocalStep

(* A step that takes rows waits for whoever holds them.                     *)
LEMMA WriteStep ==
    ASSUME IInv, NEW c \in Clients, NEW t \in Transaction, Go(c, t), Holds(t), Stands(t), Free(c),
           t.own = tx[c].own \cup Written(tx[c]), t.shared = tx[c].shared \cup Shared(tx[c]),
           t.id = tx[c].id
    PROVE  IInv'
  <1>1. Local(c) /\ tx'[c] = t
    BY DEF Go, Local, IInv, Types
  <1>2. ASSUME NEW d \in Clients, d # c PROVE Apart(c, d)' /\ Apart(d, c)'
    <2>1. Apart(c, d) /\ Apart(d, c) /\ tx'[d] = tx[d]
      BY <1>1, <1>2 DEF IInv, Local
    <2>2. /\ Written(tx[c]) \cap (tx[d].own \cup tx[d].shared) = {}
          /\ Shared(tx[c]) \cap tx[d].own = {}
      BY <1>2 DEF Free, WaitsFor
    <2> QED
      BY <1>1, <2>1, <2>2 DEF Apart
  <1> QED
    BY <1>1, <1>2, LocalStep

LEMMA RequestsAreTyped ==
    ASSUME MembershipsAssumption, NEW req \in Requests
    PROVE  WellFormed(req) /\ req \in Request
  BY DEF MembershipsAssumption

(* The identifier a request begins with is nobody else's.                   *)
LEMMA FreshIdentifier ==
    ASSUME MembershipsAssumption, IInv, NEW op \in Ops, Fresh(op) # {}, NEW id, id = CHOOSE i \in Fresh(op) : TRUE
    PROVE  /\ op = "invite" => id \in Invitations /\ invitations[id] = None
           /\ op = "mint" => id \in Tokens /\ tokens[id] = None
           /\ op \notin {"invite", "mint"} => id = None
           /\ \A d \in Clients : tx[d].id = id => id = None
  <1>1. id \in Fresh(op)
    OBVIOUS
  <1>2. CASE op = "invite"
    BY <1>1, <1>2 DEF Fresh
  <1>3. CASE op = "mint"
    BY <1>1, <1>3 DEF Fresh
  <1>4. CASE op \notin {"invite", "mint"}
    BY <1>1, <1>4 DEF Fresh
  <1> QED
    BY <1>2, <1>3, <1>4

LEMMA BeginStep ==
    ASSUME MembershipsAssumption, IInv, NEW c \in Clients, NEW req \in Requests, Begin(c, req)
    PROVE  IInv'
  <1>1. WellFormed(req) /\ req \in Request /\ req.op \in Ops
    BY RequestsAreTyped DEF Request
  <1>2. PICK id : id = CHOOSE i \in Fresh(req.op) : TRUE
    OBVIOUS
  <1> DEFINE t == [IdleTx EXCEPT !.phase = IF req.op = "use" THEN "resolve" ELSE "auth",
                                 !.req = req, !.id = id, !.past = Expired,
                                 !.late = Dead(req, Expired)]
  <1>3. Local(c) /\ tx'[c] = t
    <2>1. NoReply \in [op : Ops \cup {None}, outcome : Outcomes]
      BY DEF NoReply, Outcomes
    <2> QED
      BY <1>2, <2>1 DEF Begin, Local, IInv, Types
  <1>4. /\ req.op = "invite" => id \in Invitations /\ invitations[id] = None
        /\ req.op = "mint" => id \in Tokens /\ tokens[id] = None
        /\ req.op \notin {"invite", "mint"} => id = None
        /\ \A d \in Clients : tx[d].id = id => id = None
    BY <1>1, <1>2, FreshIdentifier DEF Begin
  <1>5. t \in Transaction
    <2>1. Dead(req, Expired) \in BOOLEAN /\ Expired \in SUBSET Invitations
      BY Zenon DEF Dead, Expired
    <2> QED
      BY <1>4, <2>1 DEF IdleTx, Transaction, Phases
  <1>6. /\ t.phase = IF req.op = "use" THEN "resolve" ELSE "auth"
        /\ t.req = req /\ t.id = id /\ t.past = Expired /\ t.late = Dead(req, Expired)
        /\ t.own = {} /\ t.shared = {}
    BY DEF IdleTx
  <1> HIDE DEF t
  <1>7. Holds(t)
    BY <1>6 DEF Holds
  <1>8. Stands(t)
    <2>1. Creates(t)
      BY <1>4, <1>6 DEF Creates
    <2>2. Redeems(t)
      BY <1>6 DEF Redeems
    <2>3. Takes(t)
      BY <1>6 DEF Takes
    <2>4. t.req.op \in During(t.phase) /\ t.phase # "idle"
      BY <1>1, <1>6 DEF During, Ops
    <2>5. t.req.op \in {"revoke", "redeem"} => invitations[t.req.on] # None
      BY <1>6 DEF Begin, Handed
    <2>6. t.late => t.phase \in {"auth", "resolve"} /\ Dead(t.req, t.past)
      BY <1>6
    <2> QED
      BY <1>6, <2>1, <2>2, <2>3, <2>4, <2>5, <2>6 DEF Stands
  <1>9. ASSUME NEW d \in Clients, d # c PROVE Apart(c, d)' /\ Apart(d, c)'
    BY <1>3, <1>4, <1>6, <1>9 DEF Apart, Local
  <1> QED
    BY <1>3, <1>5, <1>7, <1>8, <1>9, LocalStep

-----------------------------------------------------------------------------
(* A step to another phase that takes no row.                               *)
LEMMA Phase ==
    ASSUME IInv, NEW c \in Clients, tx[c].phase # "idle", NEW phase \in Phases \ {"idle"},
           NEW t, t = [tx[c] EXCEPT !.phase = phase]
    PROVE  /\ t \in Transaction /\ t.phase = phase /\ t.req = tx[c].req /\ t.id = tx[c].id
           /\ t.past = tx[c].past /\ t.late = tx[c].late /\ t.seen = tx[c].seen
           /\ t.own = tx[c].own /\ t.shared = tx[c].shared
  BY DEF IInv, Types, Transaction

LEMMA AuthoriseStep ==
    ASSUME MembershipsAssumption, IInv, NEW c \in Clients, Authorise(c)
    PROVE  IInv'
  <1> DEFINE t == tx[c]
  <1>1. /\ t.phase = "auth" /\ t.req \in Requests /\ t.req.op \in Ops \ {"use"}
        /\ Holds(t) /\ Stands(t) /\ t.own = {} /\ t.shared = {}
    BY DEF Authorise, IInv, Stands, During, Reading
  <1>2. WellFormed(t.req)
    BY <1>1, RequestsAreTyped
  <1>3. CASE /\ t.req.house # None => members[t.req.house][t.req.who] \in Required(t.req.op)
             /\ ~(t.req.op = "invite" /\ t.req.role = "owner")
             /\ Go(c, [t EXCEPT !.phase = First(t.req.op)])
    <2>1. PICK u : u = [t EXCEPT !.phase = First(t.req.op)]
      OBVIOUS
    <2>2. /\ First(t.req.op) \in Phases \ {"idle", "commit", "cascade", "delete", "join"}
          /\ t.req.op \in During(First(t.req.op)) /\ First(t.req.op) \in Reading
          /\ t.req.op = "redeem" => First(t.req.op) = "resolve"
          /\ t.req.op \in Erasing => First(t.req.op) = "check"
      BY <1>1 DEF First, Ops, Phases, During, Reading, Erasing
    <2>3. /\ u \in Transaction /\ u.phase = First(t.req.op) /\ u.req = t.req /\ u.id = t.id
          /\ u.past = t.past /\ u.late = t.late /\ u.own = {} /\ u.shared = {}
      BY <1>1, <2>1, <2>2, Phase
    <2>4. Holds(u)
      BY <2>3 DEF Holds
    <2>5. Creates(u)
      <3>1. t.req.op = "invite" => t.req.role # "owner" /\ t.req.who = Founder[t.req.house]
        <4> SUFFICES ASSUME t.req.op = "invite" PROVE t.req.who = Founder[t.req.house]
          BY <1>3
        <4>1. t.req.house # None /\ t.req.house \in Households /\ t.req.who \in Accounts
          BY <1>1, <1>2, RequestsAreTyped DEF WellFormed, Request
        <4>2. members[t.req.house][t.req.who] = "owner"
          BY <1>3, <4>1 DEF Required
        <4> QED
          BY <4>1, <4>2 DEF IInv, Founded
      <3> QED
        BY <1>1, <2>2, <2>3, <3>1 DEF Creates, Stands
    <2>6. t.req.op = "redeem" => Redeems(u)
      BY <2>2, <2>3 DEF Redeems
    <2>7. t.req.op \in Erasing => Takes(u)
      BY <2>2, <2>3 DEF Takes
    <2>8. t.late => First(t.req.op) = "resolve" /\ Dead(t.req, t.past)
      BY <1>1, <2>2 DEF Stands, Dead
    <2>9. Stands(u)
      BY <1>1, <2>2, <2>3, <2>5, <2>6, <2>7, <2>8 DEF Stands
    <2> QED
      BY <1>1, <1>3, <2>1, <2>3, <2>4, <2>9, GoStep
  <1> QED
    BY <1>1, <1>3, RollbackStep DEF Authorise, Outcomes

(* A step from one reading to the next, by a request that is not late.      *)
LEMMA ReadStep ==
    ASSUME IInv, NEW c \in Clients, tx[c].phase \in Reading, NEW t \in Transaction, Go(c, t),
           t.phase \in Reading \cup {"commit"}, t.req = tx[c].req, t.id = tx[c].id,
           t.own = tx[c].own, t.shared = tx[c].shared, ~t.late,
           t.req.op \in During(t.phase),
           t.phase = "commit" => t.req.op = "use",
           t.req.op = "invite" /\ t.phase \in {"count", "insert"} => tx[c].phase = "count",
           t.req.op = "redeem" => Redeems(t),
           t.req.op = "remove" /\ t.phase = "delete" => members[t.req.house][t.req.on] # "owner",
           t.req.op = "erase_account" /\ t.phase = "delete" =>
              \A h \in Households : members[h][t.req.who] # "owner"
    PROVE  IInv'
  <1>1. Holds(tx[c]) /\ Stands(tx[c]) /\ tx[c].phase # "idle" /\ t.phase # "idle"
    BY DEF IInv, Reading
  <1>2. t.own = {} /\ t.shared = {}
    BY <1>1 DEF Stands
  <1>3. Holds(t)
    BY <1>2 DEF Holds
  <1>4. Creates(t)
    BY <1>1 DEF Stands, Creates
  <1>5. t.req.op \in Erasing => Takes(t)
    BY DEF Takes, Erasing, Reading
  <1>6. Stands(t)
    BY <1>1, <1>2, <1>4, <1>5 DEF Stands
  <1> QED
    BY <1>3, <1>6, GoStep

LEMMA CountStep ==
    ASSUME MembershipsAssumption, IInv, NEW c \in Clients, CountHeld(c)
    PROVE  IInv'
  <1> DEFINE t == tx[c]
  <1>1. t.phase = "count" /\ Stands(t) /\ t.phase \in Reading /\ t.phase # "idle"
    BY DEF CountHeld, IInv, Reading
  <1>2. t.req.op \in {"invite", "mint"} /\ ~t.late
    BY <1>1 DEF Stands, During
  <1>3. CASE Go(c, [t EXCEPT !.phase = "insert"])
    <2>1. PICK u : u = [t EXCEPT !.phase = "insert"]
      OBVIOUS
    <2>2. /\ u \in Transaction /\ u.phase = "insert" /\ u.req = t.req /\ u.id = t.id /\ u.late = t.late
          /\ u.own = t.own /\ u.shared = t.shared
      BY <1>1, <2>1, Phase DEF Phases
    <2> QED
      BY <1>1, <1>2, <1>3, <2>1, <2>2, ReadStep DEF During, Reading
  <1> QED
    BY <1>1, <1>3, RollbackStep DEF CountHeld, Outcomes

LEMMA ResolveStep ==
    ASSUME MembershipsAssumption, IInv, NEW c \in Clients, Resolve(c) \/ CheckMember(c)
    PROVE  IInv'
  <1> DEFINE t == tx[c]
  <1>1. Stands(t) /\ t.phase \in {"resolve", "check"} /\ t.phase \in Reading /\ t.phase # "idle"
        /\ t.req.op = "redeem" /\ t \in Transaction
    BY DEF Resolve, CheckMember, IInv, Types, Reading
  <1>2. CASE /\ t.phase = "resolve" /\ Resolves(t.req.on, t.past)
             /\ Go(c, [t EXCEPT !.phase = "check", !.seen = invitations[t.req.on]])
    <2>1. PICK u : u = [t EXCEPT !.phase = "check", !.seen = invitations[t.req.on]]
      OBVIOUS
    <2>2. t.req.on \in Invitations /\ Stored(invitations[t.req.on])
          /\ invitations[t.req.on] \in Invitation /\ ~t.late
      <3>1. t.req.on \in Invitations
        BY <1>1, RequestsAreTyped DEF Stands, WellFormed
      <3>2. Stored(invitations[t.req.on])
        BY <1>2 DEF Resolves, Live
      <3>3. invitations[t.req.on] \in Invitation
        BY <3>1, <3>2 DEF IInv, Types, Stored
      <3>4. ~Dead(t.req, t.past)
        BY <1>1, <1>2, <3>3 DEF Resolves, Dead, Owners, Invitation
      <3> QED
        BY <1>1, <3>1, <3>2, <3>3, <3>4 DEF Stands
    <2>3. /\ u \in Transaction /\ u.phase = "check" /\ u.req = t.req /\ u.id = t.id
          /\ u.seen = invitations[t.req.on] /\ u.late = t.late
          /\ u.own = t.own /\ u.shared = t.shared
      BY <1>1, <2>1, <2>2 DEF Transaction, Phases
    <2>4. Redeems(u)
      BY <2>2, <2>3 DEF Redeems, Same, IInv, Founded
    <2>5. u.phase \in Reading \cup {"commit"} /\ u.req.op \in During(u.phase)
      BY <1>1, <2>3 DEF During, Reading
    <2>6. Go(c, u)
      BY <1>2, <2>1
    <2> QED
      BY <1>1, <2>2, <2>3, <2>4, <2>5, <2>6, ReadStep
  <1>3. CASE t.phase = "check" /\ Go(c, [t EXCEPT !.phase = "update"])
    <2>1. PICK u : u = [t EXCEPT !.phase = "update"]
      OBVIOUS
    <2>2. /\ u \in Transaction /\ u.phase = "update" /\ u.req = t.req /\ u.id = t.id /\ u.late = t.late
          /\ u.own = t.own /\ u.shared = t.shared /\ u.seen = t.seen
      BY <1>1, <2>1, Phase DEF Phases
    <2>3. Redeems(u) /\ ~u.late
      BY <1>1, <1>3, <2>2 DEF Stands, Redeems
    <2>4. u.phase \in Reading \cup {"commit"} /\ u.req.op \in During(u.phase)
      BY <1>1, <2>2 DEF During, Reading
    <2>5. Go(c, u)
      BY <1>3, <2>1
    <2> QED
      BY <1>1, <2>2, <2>3, <2>4, <2>5, ReadStep
  <1> QED
    BY <1>1, <1>2, <1>3, RollbackStep DEF Resolve, CheckMember, Outcomes

LEMMA RemoveStep ==
    ASSUME MembershipsAssumption, IInv, NEW c \in Clients, CheckActor(c) \/ CheckTarget(c)
    PROVE  IInv'
  <1> DEFINE t == tx[c]
  <1>1. /\ Stands(t) /\ t.phase \in {"actor", "target"} /\ t.phase \in Reading /\ t.phase # "idle"
        /\ t.req.op = "remove" /\ ~t.late
    BY DEF CheckActor, CheckTarget, IInv, Reading, Stands, During
  <1>2. CASE t.phase = "actor" /\ Go(c, [t EXCEPT !.phase = "target"])
    <2>1. PICK u : u = [t EXCEPT !.phase = "target"]
      OBVIOUS
    <2>2. /\ u \in Transaction /\ u.phase = "target" /\ u.req = t.req /\ u.id = t.id /\ u.late = t.late
          /\ u.own = t.own /\ u.shared = t.shared
      BY <1>1, <2>1, Phase DEF Phases
    <2>3. u.phase \in Reading \cup {"commit"} /\ u.req.op \in During(u.phase)
      BY <1>1, <2>2 DEF During, Reading
    <2>4. Go(c, u)
      BY <1>2, <2>1
    <2> QED
      BY <1>1, <2>2, <2>3, <2>4, ReadStep
  <1>3. CASE /\ t.phase = "target" /\ ~LastOwner(t.req.house, t.req.on)
             /\ Go(c, [t EXCEPT !.phase = "delete"])
    <2>1. PICK u : u = [t EXCEPT !.phase = "delete"]
      OBVIOUS
    <2>2. /\ u \in Transaction /\ u.phase = "delete" /\ u.req = t.req /\ u.id = t.id /\ u.late = t.late
          /\ u.own = t.own /\ u.shared = t.shared
      BY <1>1, <2>1, Phase DEF Phases
    <2>3. members[t.req.house][t.req.on] # "owner"
      <3> SUFFICES ASSUME members[t.req.house][t.req.on] = "owner" PROVE FALSE
        OBVIOUS
      <3>1. t.req.house \in Households /\ t.req.on \in Accounts
        BY <1>1, RequestsAreTyped DEF Stands, WellFormed, Request
      <3>2. Owners(t.req.house) = {t.req.on}
        BY <3>1 DEF Owners, IInv, Founded
      <3>3. Cardinality(Owners(t.req.house)) = 1
        BY <3>2, FS_Singleton
      <3> QED
        BY <1>3, <3>3 DEF LastOwner
    <2>4. u.phase \in Reading \cup {"commit"} /\ u.req.op \in During(u.phase)
      BY <1>1, <2>2 DEF During, Reading
    <2>5. Go(c, u)
      BY <1>3, <2>1
    <2> QED
      BY <1>1, <2>2, <2>3, <2>4, <2>5, ReadStep
  <1> QED
    BY <1>1, <1>2, <1>3, RollbackStep DEF CheckActor, CheckTarget, Outcomes

LEMMA UseStep ==
    ASSUME MembershipsAssumption, IInv, NEW c \in Clients, UseToken(c)
    PROVE  IInv'
  <1> DEFINE t == tx[c]
  <1>1. /\ Stands(t) /\ t.phase = "resolve" /\ t.phase \in Reading /\ t.phase # "idle"
        /\ t.req.op = "use"
    BY DEF UseToken, IInv, Reading
  <1>2. ASSUME TokenResolves(t.req.on), NEW next \in {"touch", "commit"},
               Go(c, [t EXCEPT !.phase = next])
        PROVE  IInv'
    <2>1. PICK u : u = [t EXCEPT !.phase = next]
      OBVIOUS
    <2>2. /\ u \in Transaction /\ u.phase = next /\ u.req = t.req /\ u.id = t.id /\ u.late = t.late
          /\ u.own = t.own /\ u.shared = t.shared
      BY <1>1, <2>1, Phase DEF Phases
    <2>3. ~t.late
      BY <1>1, <1>2 DEF Stands, Dead, TokenResolves
    <2>4. u.phase \in Reading \cup {"commit"} /\ u.req.op \in During(u.phase)
      BY <1>1, <2>2 DEF During, Reading, Ops
    <2>5. Go(c, u)
      BY <1>2, <2>1
    <2> QED
      BY <1>1, <2>2, <2>3, <2>4, <2>5, ReadStep
  <1> QED
    BY <1>1, <1>2, RollbackStep DEF UseToken, Outcomes

LEMMA SurveyStep ==
    ASSUME MembershipsAssumption, IInv, NEW c \in Clients, Survey(c)
    PROVE  IInv'
  <1> DEFINE t == tx[c]
             a == t.req.who
             orphans == {h \in Households : members[h][a] # None /\ Owners(h) \ {a} = {}}
  <1>1. /\ Stands(t) /\ t.phase = "check" /\ t.phase \in Reading /\ t.phase # "idle"
        /\ t.req.op \in Erasing /\ ~t.late
    BY DEF Survey, IInv, Reading, Stands, During, Erasing
  <1>2. CASE /\ t.req.op = "erase_account" => orphans = {}
             /\ Go(c, [t EXCEPT !.phase = "delete"])
    <2>1. PICK u : u = [t EXCEPT !.phase = "delete"]
      OBVIOUS
    <2>2. /\ u \in Transaction /\ u.phase = "delete" /\ u.req = t.req /\ u.id = t.id /\ u.late = t.late
          /\ u.own = t.own /\ u.shared = t.shared
      BY <1>1, <2>1, Phase DEF Phases
    <2>3. ASSUME t.req.op = "erase_account", NEW h \in Households
          PROVE  members[h][a] # "owner"
      <3> SUFFICES ASSUME members[h][a] = "owner" PROVE FALSE
        OBVIOUS
      <3>1. a \in Accounts
        BY <1>1, <2>3, RequestsAreTyped DEF Stands, WellFormed
      <3>2. Owners(h) \ {a} = {}
        BY <3>1 DEF Owners, IInv, Founded
      <3>3. "owner" # None
        BY DEF MembershipsAssumption, Roles
      <3> QED
        BY <1>2, <2>3, <3>2, <3>3
    <2>4. u.phase \in Reading \cup {"commit"} /\ u.req.op \in During(u.phase)
      BY <1>1, <2>2 DEF During, Reading, Erasing
    <2>5. Go(c, u)
      BY <1>2, <2>1
    <2>6. /\ u.phase = "delete" /\ u.req.op \notin {"redeem", "remove", "invite"}
          /\ u.req.op = "erase_account" => \A h \in Households : members[h][u.req.who] # "owner"
      BY <1>1, <2>2, <2>3 DEF Erasing
    <2> QED
      BY <1>1, <2>2, <2>4, <2>5, <2>6, ReadStep
  <1>3. ASSUME NEW outcome \in {"incomplete", "would_orphan"}, Rollback(c, outcome)
        PROVE  IInv'
    BY <1>1, <1>3, RollbackStep DEF Outcomes
  <1>4. \/ Rollback(c, "incomplete") \/ Rollback(c, "would_orphan")
        \/ /\ t.req.op = "erase_account" => orphans = {}
           /\ Go(c, [t EXCEPT !.phase = "delete"])
    BY DEF Survey
  <1> QED
    BY <1>2, <1>3, <1>4

-----------------------------------------------------------------------------
(* A statement that writes: it gets its rows, or a foreign key fails it.    *)
LEMMA Statement ==
    ASSUME IInv, NEW c \in Clients, tx[c].phase # "idle", NEW phase \in Phases \ {"idle"},
           Written(tx[c]) \subseteq Lockable, Shared(tx[c]) \subseteq Lockable, Write(c, phase)
    PROVE  \/ Rollback(c, "integrity")
           \/ \E u \in Transaction :
                 /\ Go(c, u) /\ Free(c) /\ \A row \in Shared(tx[c]) : Living(row)
                 /\ u.phase = phase /\ u.req = tx[c].req /\ u.id = tx[c].id /\ u.late = tx[c].late
                 /\ u.seen = tx[c].seen /\ u.own = tx[c].own \cup Written(tx[c])
                 /\ u.shared = tx[c].shared \cup Shared(tx[c])
  <1>1. SUFFICES ASSUME ~Rollback(c, "integrity")
                 PROVE  \E u \in Transaction :
                 /\ Go(c, u) /\ Free(c) /\ \A row \in Shared(tx[c]) : Living(row)
                 /\ u.phase = phase /\ u.req = tx[c].req /\ u.id = tx[c].id /\ u.late = tx[c].late
                 /\ u.seen = tx[c].seen /\ u.own = tx[c].own \cup Written(tx[c])
                 /\ u.shared = tx[c].shared \cup Shared(tx[c])
    OBVIOUS
  <1>2. tx[c] \in Transaction
    BY DEF IInv, Types
  <1>3. PICK w : w = Written(tx[c])
    OBVIOUS
  <1>4. PICK s : s = Shared(tx[c])
    OBVIOUS
  <1>5. PICK u : u = [tx[c] EXCEPT !.phase = phase, !.own = @ \cup w, !.shared = @ \cup s]
    OBVIOUS
  <1>6. /\ u \in Transaction /\ u.phase = phase /\ u.req = tx[c].req /\ u.id = tx[c].id
        /\ u.late = tx[c].late /\ u.seen = tx[c].seen /\ u.own = tx[c].own \cup w
        /\ u.shared = tx[c].shared \cup s
    BY <1>2, <1>3, <1>4, <1>5 DEF Transaction
  <1>7. Go(c, u) /\ Free(c) /\ \A row \in Shared(tx[c]) : Living(row)
    BY <1>1, <1>3, <1>4, <1>5 DEF Write
  <1> QED
    BY <1>3, <1>4, <1>6, <1>7

LEMMA InsertStep ==
    ASSUME MembershipsAssumption, IInv, NEW c \in Clients, Insert(c)
    PROVE  IInv'
  <1>1. PICK t : t = tx[c]
    OBVIOUS
  <1>2. /\ Holds(t) /\ Stands(t) /\ t.phase = "insert" /\ t.phase \in Reading /\ t.phase # "idle"
        /\ t.req.op \in {"invite", "mint"} /\ ~t.late /\ t.req \in Requests
    BY <1>1 DEF Insert, IInv, Reading, Stands, During
  <1>3. t.req.house \in Households /\ t.req.who \in Accounts
    BY <1>2, RequestsAreTyped DEF WellFormed, Request
  <1>4. Written(t) = {} /\ Shared(t) = {HouseholdRow(t.req.house), AccountRow(t.req.who)}
    BY <1>2 DEF Written, Shared
  <1>5. Written(t) \subseteq Lockable /\ Shared(t) \subseteq Lockable
    BY <1>3, <1>4 DEF Lockable
  <1>6. CASE Rollback(c, "integrity")
    BY <1>1, <1>2, <1>6, RollbackStep DEF Outcomes
  <1>7. ASSUME NEW u \in Transaction, Go(c, u), Free(c), \A row \in Shared(t) : Living(row),
               u.phase = "commit", u.req = t.req, u.id = t.id, u.late = t.late,
               u.own = t.own \cup Written(t), u.shared = t.shared \cup Shared(t)
        PROVE  IInv'
    <2>1. u.own = {} /\ u.shared = Shared(t)
      BY <1>2, <1>4, <1>7 DEF Stands
    <2>2. Holds(u)
      BY <1>7, <2>1 DEF Holds
    <2>3. Creates(u)
      BY <1>2, <1>4, <1>7, <2>1 DEF Creates, Stands
    <2>4. Stands(u)
      BY <1>2, <1>7, <2>3 DEF Stands, During, Reading, Ops, Erasing
    <2> QED
      BY <1>1, <1>7, <2>2, <2>4, WriteStep
  <1> QED
    BY <1>1, <1>2, <1>5, <1>6, <1>7, Statement DEF Insert, Phases

LEMMA RevokeStep ==
    ASSUME MembershipsAssumption, IInv, NEW c \in Clients, Revoke(c)
    PROVE  IInv'
  <1>1. PICK t : t = tx[c]
    OBVIOUS
  <1>2. /\ Holds(t) /\ Stands(t) /\ t.phase = "update" /\ t.phase \in Reading /\ t.phase # "idle"
        /\ t.req.op \in {"revoke", "unmint"} /\ ~t.late /\ t.req \in Requests
    BY <1>1 DEF Revoke, IInv, Reading, Stands, During
  <1>3. /\ t.req.op = "revoke" => t.req.on \in Invitations
        /\ t.req.op = "unmint" => t.req.on \in Tokens
    BY <1>2, RequestsAreTyped DEF WellFormed, Request
  <1>4. Written(t) = Revocable(t.req) /\ Shared(t) = {}
    BY <1>2 DEF Written, Shared
  <1>5. \/ t.req.op = "revoke" /\ \A row \in Written(t) :
              row = InvitationRow(t.req.on) /\ Stored(invitations[t.req.on])
        \/ t.req.op = "unmint" /\ \A row \in Written(t) :
              row = TokenRow(t.req.on) /\ Stored(tokens[t.req.on])
    BY <1>2, <1>4 DEF Revocable
  <1>6. Written(t) \subseteq Lockable /\ Shared(t) \subseteq Lockable
    BY <1>3, <1>4, <1>5 DEF Lockable
  <1>7. CASE Rollback(c, "integrity")
    BY <1>1, <1>2, <1>7, RollbackStep DEF Outcomes
  <1>8. ASSUME NEW u \in Transaction, Go(c, u), Free(c),
               u.phase = "commit", u.req = t.req, u.id = t.id, u.late = t.late,
               u.own = t.own \cup Written(t), u.shared = t.shared \cup Shared(t)
        PROVE  IInv'
    <2>1. u.own = Written(t) /\ u.shared = {}
      BY <1>2, <1>4, <1>8 DEF Stands
    <2>2. Holds(u)
      BY <1>5, <1>8, <2>1, RowsDiffer DEF Holds
    <2>3. Creates(u)
      BY <1>2, <1>8 DEF Creates, Stands
    <2>4. Stands(u)
      BY <1>2, <1>8, <2>3 DEF Stands, During, Reading, Ops, Erasing
    <2> QED
      BY <1>1, <1>8, <2>2, <2>4, WriteStep
  <1> QED
    BY <1>1, <1>2, <1>6, <1>7, <1>8, Statement DEF Revoke, Phases

LEMMA SpendStep ==
    ASSUME MembershipsAssumption, IInv, NEW c \in Clients, Spend(c)
    PROVE  IInv'
  <1>1. PICK t : t = tx[c]
    OBVIOUS
  <1>2. /\ Holds(t) /\ Stands(t) /\ t.phase = "update" /\ t.phase \in Reading /\ t.phase # "idle"
        /\ t.req.op = "redeem" /\ ~t.late /\ t.req \in Requests
    BY <1>1 DEF Spend, IInv, Reading, Stands, During
  <1>3. t.req.on \in Invitations /\ t.req.who \in Accounts
    BY <1>2, RequestsAreTyped DEF WellFormed, Request
  <1>4. CASE Spendable(t) = {}
    BY <1>1, <1>2, <1>4, RollbackStep DEF Spend, Outcomes
  <1>5. CASE Spendable(t) # {}
    <2>1. /\ Written(t) = {InvitationRow(t.req.on)} /\ Shared(t) = {AccountRow(t.req.who)}
          /\ Stored(invitations[t.req.on]) /\ ~invitations[t.req.on].redeemed
      BY <1>2, <1>5 DEF Written, Shared, Spendable
    <2>2. Written(t) \subseteq Lockable /\ Shared(t) \subseteq Lockable
      BY <1>3, <2>1 DEF Lockable
    <2>3. CASE Rollback(c, "integrity")
      BY <1>1, <1>2, <2>3, RollbackStep DEF Outcomes
    <2>4. ASSUME NEW u \in Transaction, Go(c, u), Free(c), \A row \in Shared(t) : Living(row),
                 u.phase = "join", u.req = t.req, u.id = t.id, u.late = t.late, u.seen = t.seen,
                 u.own = t.own \cup Written(t), u.shared = t.shared \cup Shared(t)
          PROVE  IInv'
      <3>1. u.own = {InvitationRow(t.req.on)} /\ u.shared = {AccountRow(t.req.who)}
        BY <1>2, <2>1, <2>4 DEF Stands
      <3>2. Holds(u)
        BY <1>2, <2>1, <2>4, <3>1, RowsDiffer DEF Holds
      <3>3. Creates(u)
        BY <1>2, <2>4 DEF Creates, Stands
      <3>4. Redeems(u)
        BY <1>2, <2>1, <2>4, <3>1 DEF Redeems, Stands
      <3>5. Stands(u)
        BY <1>2, <2>4, <3>3, <3>4 DEF Stands, During, Reading, Erasing
      <3> QED
        BY <1>1, <2>4, <3>2, <3>5, WriteStep
    <2> QED
      BY <1>1, <1>2, <1>5, <2>2, <2>3, <2>4, Statement DEF Spend, Phases
  <1> QED
    BY <1>4, <1>5

LEMMA JoinStep ==
    ASSUME MembershipsAssumption, IInv, NEW c \in Clients, Join(c)
    PROVE  IInv'
  <1>1. PICK t : t = tx[c]
    OBVIOUS
  <1>2. /\ Holds(t) /\ Stands(t) /\ t.phase = "join" /\ t.phase # "idle"
        /\ t.req.op = "redeem" /\ ~t.late /\ t.req \in Requests /\ Redeems(t)
    BY <1>1 DEF Join, IInv, Stands, During
  <1>3. t.req.who \in Accounts /\ t.seen.house \in Households /\ t.seen.issuer \in Accounts
    BY <1>2, RequestsAreTyped DEF WellFormed, Request, Redeems, Invitation
  <1>4. CASE Rollback(c, "integrity")
    BY <1>1, <1>2, <1>4, RollbackStep DEF Outcomes
  <1>5. CASE members[t.seen.house][t.req.who] = None /\ Write(c, "commit")
    <2>1. /\ Written(t) = {MemberRow(t.seen.house, t.req.who)}
          /\ Shared(t) = {HouseholdRow(t.seen.house), AccountRow(t.req.who),
                          AccountRow(t.seen.issuer)}
      BY <1>2 DEF Written, Shared
    <2>2. Written(t) \subseteq Lockable /\ Shared(t) \subseteq Lockable
      BY <1>3, <2>1 DEF Lockable
    <2>3. ASSUME NEW u \in Transaction, Go(c, u), Free(c), \A row \in Shared(t) : Living(row),
                 u.phase = "commit", u.req = t.req, u.id = t.id, u.late = t.late, u.seen = t.seen,
                 u.own = t.own \cup Written(t), u.shared = t.shared \cup Shared(t)
          PROVE  IInv'
      <3>1. Holds(u)
        BY <1>2, <2>1, <2>3, RowsDiffer DEF Holds
      <3>2. Creates(u)
        BY <1>2, <2>3 DEF Creates, Stands
      <3>3. members[t.seen.house][t.req.who] # "owner"
        BY <1>5 DEF MembershipsAssumption, Roles
      <3>4. Redeems(u)
        BY <1>2, <2>1, <2>3, <3>3 DEF Redeems
      <3>5. Stands(u)
        BY <1>2, <2>3, <3>2, <3>4 DEF Stands, During, Reading, Erasing, Ops
      <3> QED
        BY <1>1, <2>3, <3>1, <3>5, WriteStep
    <2> QED
      BY <1>1, <1>2, <1>4, <1>5, <2>2, <2>3, Statement DEF Phases
  <1> QED
    BY <1>1, <1>4, <1>5 DEF Join

LEMMA DeleteMemberStep ==
    ASSUME MembershipsAssumption, IInv, NEW c \in Clients, DeleteMember(c)
    PROVE  IInv'
  <1>1. PICK t : t = tx[c]
    OBVIOUS
  <1>2. /\ Holds(t) /\ Stands(t) /\ t.phase = "delete" /\ t.phase \in Reading /\ t.phase # "idle"
        /\ t.req.op = "remove" /\ ~t.late /\ t.req \in Requests
    BY <1>1 DEF DeleteMember, IInv, Reading, Stands, During
  <1>3. t.req.on \in Accounts /\ t.req.house \in Households
    BY <1>2, RequestsAreTyped DEF WellFormed, Request
  <1>4. Written(t) \subseteq {MemberRow(t.req.house, t.req.on)} /\ Shared(t) = {}
    BY <1>2 DEF Written, Shared
  <1>5. Written(t) \subseteq Lockable /\ Shared(t) \subseteq Lockable
    BY <1>3, <1>4 DEF Lockable
  <1>6. CASE Rollback(c, "integrity")
    BY <1>1, <1>2, <1>6, RollbackStep DEF Outcomes
  <1>7. ASSUME NEW u \in Transaction, Go(c, u), Free(c),
               u.phase = "commit", u.req = t.req, u.id = t.id, u.late = t.late,
               u.own = t.own \cup Written(t), u.shared = t.shared \cup Shared(t)
        PROVE  IInv'
    <2>1. u.own \subseteq {MemberRow(t.req.house, t.req.on)} /\ u.shared = {}
      BY <1>2, <1>4, <1>7 DEF Stands
    <2>2. Holds(u)
      BY <1>2, <1>7, <2>1, RowsDiffer DEF Holds
    <2>3. Creates(u)
      BY <1>2, <1>7 DEF Creates, Stands
    <2>4. Stands(u)
      BY <1>2, <1>7, <2>3 DEF Stands, During, Reading, Ops, Erasing
    <2> QED
      BY <1>1, <1>7, <2>2, <2>4, WriteStep
  <1> QED
    BY <1>1, <1>2, <1>5, <1>6, <1>7, Statement DEF DeleteMember, Phases

LEMMA TouchStep ==
    ASSUME MembershipsAssumption, IInv, NEW c \in Clients, Touch(c)
    PROVE  IInv'
  <1>1. PICK t : t = tx[c]
    OBVIOUS
  <1>2. /\ Holds(t) /\ Stands(t) /\ t.phase = "touch" /\ t.phase \in Reading /\ t.phase # "idle"
        /\ t.req.op = "use" /\ ~t.late /\ t.req \in Requests
    BY <1>1 DEF Touch, IInv, Reading, Stands, During
  <1>3. t.req.on \in Tokens
    BY <1>2, RequestsAreTyped DEF WellFormed, Request
  <1>4. /\ \A row \in Written(t) : row = TokenRow(t.req.on) /\ Stored(tokens[t.req.on])
        /\ Shared(t) = {}
    BY <1>2 DEF Written, Shared
  <1>5. Written(t) \subseteq Lockable /\ Shared(t) \subseteq Lockable
    BY <1>3, <1>4 DEF Lockable
  <1>6. CASE Rollback(c, "integrity")
    BY <1>1, <1>2, <1>6, RollbackStep DEF Outcomes
  <1>7. ASSUME NEW u \in Transaction, Go(c, u), Free(c),
               u.phase = "commit", u.req = t.req, u.id = t.id, u.late = t.late,
               u.own = t.own \cup Written(t), u.shared = t.shared \cup Shared(t)
        PROVE  IInv'
    <2>1. u.own = Written(t) /\ u.shared = {}
      BY <1>2, <1>4, <1>7 DEF Stands
    <2>2. Holds(u)
      BY <1>2, <1>4, <1>7, <2>1, RowsDiffer DEF Holds
    <2>3. Creates(u)
      BY <1>2, <1>7 DEF Creates, Stands
    <2>4. Stands(u)
      BY <1>2, <1>7, <2>3 DEF Stands, During, Reading, Ops, Erasing
    <2> QED
      BY <1>1, <1>7, <2>2, <2>4, WriteStep
  <1> QED
    BY <1>1, <1>2, <1>5, <1>6, <1>7, Statement DEF Touch, Phases

LEMMA DeleteRootStep ==
    ASSUME MembershipsAssumption, IInv, NEW c \in Clients, DeleteRoot(c)
    PROVE  IInv'
  <1>1. PICK t : t = tx[c]
    OBVIOUS
  <1>2. /\ Holds(t) /\ Stands(t) /\ t.phase = "delete" /\ t.phase \in Reading /\ t.phase # "idle"
        /\ t.req.op \in Erasing /\ ~t.late /\ t.req \in Requests
    BY <1>1 DEF DeleteRoot, IInv, Reading, Stands, During, Erasing
  <1>3. /\ t.req.op = "erase_household" => t.req.house \in Households
        /\ t.req.op = "erase_account" => t.req.who \in Accounts
    BY <1>2, RequestsAreTyped DEF WellFormed, Request
  <1>4. Written(t) = Root(t) /\ Shared(t) = {}
    BY <1>2 DEF Written, Shared, Erasing
  <1>5. \/ /\ t.req.op = "erase_household"
           /\ Root(t) \subseteq {HouseholdRow(t.req.house)}
           /\ HouseholdRow(t.req.house) \in Root(t) \/ t.req.house \notin households
        \/ /\ t.req.op = "erase_account"
           /\ Root(t) \subseteq {AccountRow(t.req.who)}
           /\ AccountRow(t.req.who) \in Root(t) \/ t.req.who \notin accounts
    BY <1>2 DEF Root, Erasing
  <1>6. Written(t) \subseteq Lockable /\ Shared(t) \subseteq Lockable
    BY <1>3, <1>4, <1>5 DEF Lockable
  <1>7. CASE Rollback(c, "integrity")
    BY <1>1, <1>2, <1>7, RollbackStep DEF Outcomes
  <1>8. ASSUME NEW u \in Transaction, Go(c, u), Free(c),
               u.phase = "cascade", u.req = t.req, u.id = t.id, u.late = t.late,
               u.own = t.own \cup Written(t), u.shared = t.shared \cup Shared(t)
        PROVE  IInv'
    <2>1. u.own = Root(t) /\ u.shared = {}
      BY <1>2, <1>4, <1>8 DEF Stands
    <2>2. Holds(u)
      BY <1>5, <1>8, <2>1, RowsDiffer DEF Holds
    <2>3. Creates(u)
      BY <1>2, <1>8 DEF Creates, Stands, Erasing
    <2>4. Takes(u)
      BY <1>2, <1>5, <1>8, <2>1 DEF Takes, Stands, OfHousehold
    <2>5. Stands(u)
      BY <1>2, <1>8, <2>3, <2>4 DEF Stands, During, Reading, Ops, Erasing
    <2> QED
      BY <1>1, <1>8, <2>2, <2>5, WriteStep
  <1> QED
    BY <1>1, <1>2, <1>6, <1>7, <1>8, Statement DEF DeleteRoot, Phases

LEMMA CascadeStep ==
    ASSUME MembershipsAssumption, IInv, NEW c \in Clients, Cascade(c)
    PROVE  IInv'
  <1>1. PICK t : t = tx[c]
    OBVIOUS
  <1>2. /\ Holds(t) /\ Stands(t) /\ t.phase = "cascade" /\ t.phase # "idle"
        /\ t.req.op \in Erasing /\ ~t.late /\ t.req \in Requests /\ Takes(t)
    BY <1>1 DEF Cascade, IInv, Stands, During, Erasing
  <1>3. Written(t) = Dependents(t) /\ Shared(t) = {}
    BY <1>2 DEF Written, Shared
  <1>4. \A row \in Dependents(t) :
           \/ \E h \in Households, a \in Accounts :
                 /\ row = MemberRow(h, a)
                 /\ IF OfHousehold(t) THEN h = t.req.house ELSE a = t.req.who
           \/ \E i \in Invitations :
                 /\ row = InvitationRow(i) /\ Stored(invitations[i])
                 /\ IF OfHousehold(t) THEN invitations[i].house = t.req.house
                    ELSE t.req.who \in {invitations[i].issuer, invitations[i].by}
           \/ \E k \in Tokens : row = TokenRow(k) /\ Stored(tokens[k])
    BY DEF Dependents, Ended
  <1>5. Written(t) \subseteq Lockable /\ Shared(t) \subseteq Lockable
    BY <1>3, <1>4 DEF Lockable
  <1>6. CASE \E outcome \in Outcomes : Rollback(c, outcome)
    BY <1>1, <1>2, <1>6, RollbackStep
  <1>7. ASSUME NEW u \in Transaction, Go(c, u), Free(c),
               u.phase = "commit", u.req = t.req, u.id = t.id, u.late = t.late,
               u.own = t.own \cup Written(t), u.shared = t.shared \cup Shared(t)
        PROVE  IInv'
    <2>1. u.own = t.own \cup Dependents(t) /\ u.shared = t.shared
      BY <1>3, <1>7
    <2>2. OfHousehold(t) <=> t.req.op = "erase_household"
      BY DEF OfHousehold
    <2>3. Holds(u)
      BY <1>2, <1>4, <1>7, <2>1, <2>2, RowsDiffer DEF Holds, Erasing
    <2>4. Creates(u)
      BY <1>2, <1>7 DEF Creates, Stands, Erasing
    <2>5. Dependents(u) = Dependents(t)
      BY <1>7 DEF Dependents, Ended, OfHousehold
    <2>6. Takes(u)
      BY <1>2, <1>7, <2>1, <2>5 DEF Takes, OfHousehold
    <2>7. Stands(u)
      BY <1>2, <1>7, <2>4, <2>6 DEF Stands, During, Reading, Ops, Erasing
    <2> QED
      BY <1>1, <1>7, <2>3, <2>7, WriteStep
  <1> QED
    <2>1. \/ Rollback(c, "check_violation")
          \/ Write(c, "commit")
      BY DEF Cascade
    <2> QED
      BY <1>1, <1>2, <1>5, <1>6, <1>7, <2>1, Statement DEF Phases, Outcomes

-----------------------------------------------------------------------------
(* Steps that change what is stored: what the other transactions rely on.   *)

(* What may happen to what t relies on, while another moves.                *)
Respects(t) ==
    /\ \A i \in Invitations :
          /\ invitations[i] # None => invitations'[i] # None
          /\ invitations[i] # None /\ Stored(invitations'[i]) =>
                Stored(invitations[i]) /\ Same(invitations'[i], invitations[i])
          /\ InvitationRow(i) \in t.own =>
                /\ Stored(invitations'[i]) /\ invitations'[i].by = invitations[i].by
                /\ invitations'[i].redeemed = invitations[i].redeemed
          /\ i = t.id /\ invitations[i] = None => invitations'[i] = None
    /\ \A k \in Tokens :
          /\ TokenRow(k) \in t.own => Stored(tokens'[k])
          /\ k = t.id /\ tokens[k] = None => tokens'[k] = None
    /\ \A row \in t.shared : Living(row) => Living(row)'
    /\ \A h \in Households, a \in Accounts : members'[h][a] = "owner" => members[h][a] = "owner"
    /\ accounts' \subseteq accounts /\ households' \subseteq households
    /\ t.req.op \in Erasing /\ t.phase = "commit" => Dependents(t)' \subseteq t.own

LEMMA OthersStand ==
    ASSUME MembershipsAssumption, IInv, NEW t, Holds(t), Stands(t), Respects(t), NEW u,
           IF t.phase = "idle" THEN u = IdleTx
           ELSE /\ u.phase = t.phase /\ u.req = t.req /\ u.id = t.id /\ u.past = t.past
                /\ u.seen = t.seen /\ u.own = t.own /\ u.shared = t.shared
                /\ u.late => t.late /\ Dead(t.req, t.past)'
    PROVE  Holds(u)' /\ Stands(u)'
  <1>1. CASE t.phase = "idle"
    BY <1>1 DEF IdleTx, Holds, Stands
  <1>2. CASE t.phase # "idle"
    <2>1. /\ t.req \in Requests /\ t.req.op \in During(t.phase) /\ WellFormed(t.req) /\ t.req \in Request
          /\ u.phase = t.phase /\ u.req = t.req /\ u.id = t.id /\ u.past = t.past
          /\ u.seen = t.seen /\ u.own = t.own /\ u.shared = t.shared
      BY <1>2, RequestsAreTyped DEF Stands
    <2>2. Holds(u)'
      <3>1. \A i \in Invitations : InvitationRow(i) \in t.own =>
               /\ Stored(invitations[i]) /\ Stored(invitations'[i])
               /\ invitations'[i].house = invitations[i].house
               /\ invitations'[i].issuer = invitations[i].issuer
               /\ invitations'[i].by = invitations[i].by
        BY DEF Holds, Respects, Same, Stored
      <3>2. \A k \in Tokens : TokenRow(k) \in t.own => Stored(tokens'[k])
        BY DEF Respects
      <3>3. \A row \in t.shared : Living(row)'
        BY DEF Holds, Respects
      <3> QED
        BY <2>1, <3>1, <3>2, <3>3 DEF Holds
    <2>3. Creates(u)'
      BY <1>2, <2>1 DEF Creates, Stands, Respects
    <2>4. t.req.op = "redeem" => Redeems(u)'
      <3> SUFFICES ASSUME t.req.op = "redeem" PROVE Redeems(u)'
        OBVIOUS
      <3>1. t.req.on \in Invitations /\ Redeems(t) /\ invitations[t.req.on] # None
        BY <1>2, <2>1 DEF WellFormed, Stands
      <3>2. /\ Stored(invitations'[t.req.on]) =>
                  Stored(invitations[t.req.on]) /\ Same(invitations'[t.req.on], invitations[t.req.on])
            /\ InvitationRow(t.req.on) \in t.own =>
                  invitations'[t.req.on].redeemed = invitations[t.req.on].redeemed
        BY <3>1 DEF Respects
      <3>3. t.phase = "commit" => members'[t.seen.house][t.req.who] # "owner"
        BY <2>1, <3>1 DEF Redeems, Respects, Invitation, WellFormed
      <3> QED
        BY <2>1, <3>1, <3>2, <3>3 DEF Redeems, Same
    <2>5. t.req.op = "remove" /\ t.phase \in {"delete", "commit"} =>
             members'[t.req.house][t.req.on] # "owner"
      BY <1>2, <2>1 DEF Stands, Respects, WellFormed, Request
    <2>6. t.req.op \in Erasing => Takes(u)'
      <3> SUFFICES ASSUME t.req.op \in Erasing PROVE Takes(u)'
        OBVIOUS
      <3>1. Takes(t)
        BY <1>2 DEF Stands
      <3>2. t.req.op = "erase_account" => t.req.who \in Accounts
        BY <2>1 DEF WellFormed
      <3>3. t.phase = "commit" => Dependents(u)' \subseteq t.own
        BY <2>1 DEF Respects, Dependents, Ended, OfHousehold
      <3>4. accounts' \subseteq accounts /\ households' \subseteq households
        BY DEF Respects
      <3>5. t.req.op = "erase_account" /\ t.phase \in {"delete", "cascade", "commit"} =>
               \A h \in Households : members'[h][t.req.who] # "owner"
        BY <3>1, <3>2 DEF Takes, Respects
      <3> QED
        BY <2>1, <3>1, <3>3, <3>4, <3>5 DEF Takes, OfHousehold
    <2>7. t.req.op \in {"revoke", "redeem"} => invitations'[t.req.on] # None
      BY <1>2, <2>1 DEF Stands, Respects, WellFormed
    <2>8. u.late => t.phase \in {"auth", "resolve"} /\ Dead(u.req, u.past)'
      <3>1. Dead(t.req, t.past)' => Dead(u.req, u.past)'
        BY <2>1 DEF Dead, Live, Owners, Stored
      <3> QED
        BY <1>2, <3>1 DEF Stands
    <2> QED
      BY <1>2, <2>1, <2>2, <2>3, <2>4, <2>5, <2>6, <2>7, <2>8 DEF Stands
  <1> QED
    BY <1>1, <1>2

LEMMA ExpireStep ==
    ASSUME MembershipsAssumption, IInv, NEW i \in Invitations, Expire(i)
    PROVE  IInv'
  <1>1. /\ Stored(invitations[i]) /\ invitations[i] \in Invitation
        /\ accounts' = accounts /\ households' = households /\ members' = members
        /\ tokens' = tokens /\ tx' = tx /\ reply' = reply
    BY DEF Expire, Live, Stored, IInv, Types
  <1>2. PICK e : e = [invitations[i] EXCEPT !.expired = TRUE]
    OBVIOUS
  <1>3. /\ e \in Invitation /\ Same(e, invitations[i]) /\ e.by = invitations[i].by
        /\ e.redeemed = invitations[i].redeemed /\ e.revoked = invitations[i].revoked
    BY <1>1, <1>2 DEF Invitation, Same
  <1>4. invitations' = [invitations EXCEPT ![i] = e]
    BY <1>2 DEF Expire
  <1>5. Stored(e)
    BY <1>3 DEF Stored, MembershipsAssumption
  <1>6. \A j \in Invitations :
           /\ Stored(invitations'[j]) <=> Stored(invitations[j])
           /\ invitations[j] = None <=> invitations'[j] = None
           /\ Stored(invitations[j]) =>
                 /\ Same(invitations'[j], invitations[j]) /\ invitations'[j].by = invitations[j].by
                 /\ invitations'[j].redeemed = invitations[j].redeemed
                 /\ invitations'[j].revoked = invitations[j].revoked
    <2> SUFFICES ASSUME NEW j \in Invitations
                 PROVE  /\ Stored(invitations'[j]) <=> Stored(invitations[j])
                        /\ invitations[j] = None <=> invitations'[j] = None
                        /\ Stored(invitations[j]) =>
                             /\ Same(invitations'[j], invitations[j])
                             /\ invitations'[j].by = invitations[j].by
                             /\ invitations'[j].redeemed = invitations[j].redeemed
                             /\ invitations'[j].revoked = invitations[j].revoked
      OBVIOUS
    <2>1. CASE j = i
      BY <1>1, <1>3, <1>4, <1>5, <2>1 DEF IInv, Types, Stored
    <2>2. CASE j # i
      BY <1>4, <2>2 DEF IInv, Types, Same
    <2> QED
      BY <2>1, <2>2
  <1>7. Types'
    BY <1>1, <1>3, <1>4 DEF IInv, Types
  <1>8. ASSUME NEW c \in Clients PROVE Holds(tx[c])' /\ Stands(tx[c])'
    <2>1. PICK t : t = tx[c]
      OBVIOUS
    <2>2. Holds(t) /\ Stands(t)
      BY <2>1 DEF IInv
    <2>3. Dependents(t)' = Dependents(t)
      BY <1>1, <1>6 DEF Dependents, Ended, OfHousehold, Same
    <2>4. Respects(t)
      <3>1. \A row : Living(row) => Living(row)'
        BY <1>1 DEF Living
      <3>2. t.req.op \in Erasing /\ t.phase = "commit" => Dependents(t)' \subseteq t.own
        BY <2>2, <2>3 DEF Stands, Takes
      <3> QED
        BY <1>1, <1>6, <2>2, <3>1, <3>2 DEF Respects, Holds
    <2>5. t.late => Dead(t.req, t.past)'
      <3> SUFFICES ASSUME t.late PROVE Dead(t.req, t.past)'
        OBVIOUS
      <3>1. t.phase # "idle" /\ t.req \in Requests /\ Dead(t.req, t.past)
        BY <2>2 DEF Stands, IdleTx
      <3>2. CASE t.req.op = "redeem"
        <4>1. t.req.on \in Invitations
          BY <3>1, <3>2, RequestsAreTyped DEF WellFormed
        <4> QED
          BY <1>1, <1>6, <3>1, <3>2, <4>1 DEF Dead, Live, Owners, Same
      <3>3. CASE t.req.op # "redeem"
        BY <1>1, <3>1, <3>3 DEF Dead, Stored
      <3> QED
        BY <3>2, <3>3
    <2>6. t.phase = "idle" => t = IdleTx
      BY <2>2 DEF Stands
    <2>7. Holds(t)' /\ Stands(t)'
      BY <2>2, <2>4, <2>5, <2>6, OthersStand
    <2> QED
      <3>1. tx'[c] = t
        BY <1>1, <2>1
      <3> QED
        BY <2>7, <3>1
  <1>9. ASSUME NEW c \in Clients, NEW d \in Clients, c # d PROVE Apart(c, d)'
    BY <1>1, <1>9 DEF IInv, Apart
  <1>10. Founded'
    BY <1>1, <1>6 DEF IInv, Founded, Same
  <1>11. ErasureIsComplete'
    BY <1>1, <1>6 DEF IInv, ErasureIsComplete, Same
  <1>12. MembershipsAreEarned'
    BY <1>1, <1>6 DEF IInv, MembershipsAreEarned, Same
  <1> QED
    BY <1>7, <1>8, <1>9, <1>10, <1>11, <1>12 DEF IInv

-----------------------------------------------------------------------------
(* What a commit of t does to an invitation, a token and a membership.      *)
InvitationMoves(t, i) ==
    \/ /\ t.req.op \in Erasing /\ InvitationRow(i) \in t.own
       /\ Stored(invitations[i]) /\ invitations'[i] = Gone
    \/ /\ t.req.op = "invite" /\ i = t.id /\ invitations[i] = None /\ InvitationRow(i) \notin t.own
       /\ invitations'[i] = [house |-> t.req.house, issuer |-> t.req.who, role |-> t.req.role,
                             by |-> None, redeemed |-> FALSE, revoked |-> FALSE, expired |-> FALSE]
    \/ /\ t.req.op = "revoke" /\ InvitationRow(i) \in t.own
       /\ Stored(invitations[i]) /\ invitations'[i] = [invitations[i] EXCEPT !.revoked = TRUE]
    \/ /\ t.req.op = "redeem" /\ i = t.req.on /\ InvitationRow(i) \in t.own
       /\ Stored(invitations[i]) /\ ~invitations[i].redeemed
       /\ invitations'[i] = Redeemed(t, invitations[i])
    \/ invitations'[i] = invitations[i] /\ InvitationRow(i) \notin t.own

TokenMoves(t, k) ==
    \/ t.req.op \in Erasing /\ TokenRow(k) \in t.own /\ Stored(tokens[k]) /\ tokens'[k] = Gone
    \/ /\ t.req.op = "mint" /\ k = t.id /\ tokens[k] = None /\ TokenRow(k) \notin t.own
       /\ tokens'[k] = [house |-> t.req.house, user |-> t.req.who, revoked |-> FALSE]
    \/ /\ t.req.op \notin Erasing /\ TokenRow(k) \in t.own /\ Stored(tokens[k])
       /\ tokens'[k] \in {tokens[k], [tokens[k] EXCEPT !.revoked = TRUE]}
    \/ tokens'[k] = tokens[k] /\ TokenRow(k) \notin t.own

MemberMoves(t, h, a) ==
    \/ /\ t.req.op = "remove" /\ h = t.req.house /\ a = t.req.on /\ members[h][a] # "owner"
       /\ members'[h][a] = None
    \/ t.req.op = "erase_household" /\ h = t.req.house /\ members'[h][a] = None
    \/ t.req.op = "erase_account" /\ a = t.req.who /\ members[h][a] # "owner" /\ members'[h][a] = None
    \/ /\ t.req.op = "redeem" /\ h = t.seen.house /\ a = t.req.who /\ members[h][a] # "owner"
       /\ members'[h][a] = t.seen.role
    \/ members'[h][a] = members[h][a] /\ MemberRow(h, a) \notin t.own

Committing(c, t) ==
    /\ t = tx[c] /\ t \in Transaction /\ Holds(t) /\ Stands(t) /\ t.phase = "commit"
    /\ t.req \in Requests /\ t.req \in Request /\ WellFormed(t.req)
    /\ accounts' = {a \in accounts : AccountRow(a) \notin t.own}
    /\ households' = {h \in households : HouseholdRow(h) \notin t.own}
    /\ members' = MembersAfter(t) /\ invitations' = InvitationsAfter(t) /\ tokens' = TokensAfter(t)

LEMMA CommitMoves ==
    ASSUME MembershipsAssumption, IInv, NEW c \in Clients, NEW t, Committing(c, t)
    PROVE  /\ \A i \in Invitations : InvitationMoves(t, i)
           /\ \A k \in Tokens : TokenMoves(t, k)
           /\ \A h \in Households, a \in Accounts : MemberMoves(t, h, a)
  <1>1. Holds(t) /\ Stands(t) /\ t.phase = "commit" /\ Creates(t) /\ t.req.op \in Ops
        /\ WellFormed(t.req) /\ t.req \in Request
    BY DEF Committing, Stands, Request
  <1>2. ASSUME NEW i \in Invitations PROVE InvitationMoves(t, i)
    <2>1. invitations'[i] =
            IF Erases(t, InvitationRow(i)) THEN Gone
            ELSE IF i = t.id
            THEN [house |-> t.req.house, issuer |-> t.req.who, role |-> t.req.role, by |-> None,
                  redeemed |-> FALSE, revoked |-> FALSE, expired |-> FALSE]
            ELSE IF InvitationRow(i) \notin t.own THEN invitations[i]
            ELSE IF t.req.op = "revoke" THEN [invitations[i] EXCEPT !.revoked = TRUE]
            ELSE Redeemed(t, invitations[i])
      BY DEF Committing, InvitationsAfter
    <2>2. CASE InvitationRow(i) \in t.own
      <3>1. Stored(invitations[i]) /\ t.req.op \in {"revoke", "redeem"} \cup Erasing
            /\ (t.req.op \in {"revoke", "redeem"} => i = t.req.on)
        BY <1>1, <2>2 DEF Holds, Erasing
      <3>2. i # t.id
        BY <1>1, <3>1 DEF Creates, MembershipsAssumption, Erasing
      <3>3. t.req.op = "redeem" => ~invitations[i].redeemed
        BY <1>1, <3>1 DEF Stands, Redeems
      <3> QED
        BY <2>1, <2>2, <3>1, <3>2, <3>3 DEF Erases, Erasing, InvitationMoves
    <2>3. CASE InvitationRow(i) \notin t.own
      <3>1. i = t.id => t.req.op = "invite" /\ invitations[i] = None
        BY <1>1 DEF Creates, MembershipsAssumption, Ops
      <3> QED
        BY <2>1, <2>3, <3>1 DEF Erases, InvitationMoves
    <2> QED
      BY <2>2, <2>3
  <1>3. ASSUME NEW k \in Tokens PROVE TokenMoves(t, k)
    <2>1. tokens'[k] =
            IF Erases(t, TokenRow(k)) THEN Gone
            ELSE IF k = t.id THEN [house |-> t.req.house, user |-> t.req.who, revoked |-> FALSE]
            ELSE IF TokenRow(k) \in t.own /\ t.req.op = "unmint"
            THEN [tokens[k] EXCEPT !.revoked = TRUE]
            ELSE tokens[k]
      BY DEF Committing, TokensAfter
    <2>2. CASE TokenRow(k) \in t.own
      <3>1. Stored(tokens[k]) /\ t.req.op \in {"unmint", "use"} \cup Erasing
        BY <1>1, <2>2 DEF Holds
      <3>2. k # t.id
        BY <1>1, <3>1 DEF Creates, MembershipsAssumption, Erasing
      <3> QED
        BY <2>1, <2>2, <3>1, <3>2 DEF Erases, Erasing, TokenMoves
    <2>3. CASE TokenRow(k) \notin t.own
      <3>1. k = t.id => t.req.op = "mint" /\ tokens[k] = None
        BY <1>1 DEF Creates, MembershipsAssumption, Ops
      <3> QED
        BY <2>1, <2>3, <3>1 DEF Erases, TokenMoves
    <2> QED
      BY <2>2, <2>3
  <1>4. ASSUME NEW h \in Households, NEW a \in Accounts PROVE MemberMoves(t, h, a)
    <2>1. members'[h][a] = IF Erases(t, MemberRow(h, a)) THEN None
                           ELSE IF MemberRow(h, a) \in t.own THEN t.seen.role
                           ELSE members[h][a]
      BY DEF Committing, MembersAfter
    <2>2. CASE MemberRow(h, a) \in t.own
      <3>1. \/ t.req.op = "remove" /\ h = t.req.house /\ a = t.req.on
            \/ t.req.op = "redeem" /\ h = t.seen.house /\ a = t.req.who
            \/ t.req.op = "erase_household" /\ h = t.req.house
            \/ t.req.op = "erase_account" /\ a = t.req.who
        BY <1>1, <2>2 DEF Holds
      <3>2. /\ t.req.op = "remove" => members[t.req.house][t.req.on] # "owner"
            /\ t.req.op = "redeem" => members[t.seen.house][t.req.who] # "owner"
            /\ t.req.op = "erase_account" => \A g \in Households : members[g][t.req.who] # "owner"
        BY <1>1 DEF Stands, Redeems, Takes, Erasing
      <3> QED
        BY <2>1, <2>2, <3>1, <3>2 DEF Erases, MemberMoves
    <2>3. CASE MemberRow(h, a) \notin t.own
      BY <2>1, <2>3 DEF Erases, MemberMoves
    <2> QED
      BY <2>2, <2>3
  <1> QED
    BY <1>2, <1>3, <1>4

(* What is stored keeps its type, and what an invitation says stays.        *)
LEMMA CommitKeeps ==
    ASSUME MembershipsAssumption, IInv, NEW c \in Clients, NEW t, Committing(c, t)
    PROVE  /\ \A i \in Invitations :
                 /\ invitations'[i] \in Invitation \cup {None, Gone}
                 /\ invitations[i] # None => invitations'[i] # None
                 /\ invitations[i] # None /\ Stored(invitations'[i]) =>
                       /\ Stored(invitations[i]) /\ Same(invitations'[i], invitations[i])
                       /\ \/ invitations'[i].by = invitations[i].by
                          \/ t.req.op = "redeem" /\ invitations'[i].by = t.req.who
                       /\ invitations[i].redeemed => invitations'[i].by = invitations[i].by
                       /\ invitations'[i].by # None => invitations'[i].redeemed
           /\ \A k \in Tokens :
                 /\ tokens'[k] \in Token \cup {None, Gone}
                 /\ tokens[k] # None /\ Stored(tokens'[k]) =>
                       /\ Stored(tokens[k]) /\ tokens'[k].house = tokens[k].house
                       /\ tokens'[k].user = tokens[k].user
           /\ \A h \in Households, a \in Accounts :
                 /\ members'[h][a] \in Roles \cup {None}
                 /\ members'[h][a] = "owner" => members[h][a] = "owner"
  <1>1. /\ \A i \in Invitations : InvitationMoves(t, i)
        /\ \A k \in Tokens : TokenMoves(t, k)
        /\ \A h \in Households, a \in Accounts : MemberMoves(t, h, a)
    BY CommitMoves
  <1>2. /\ t.req.op = "invite" => /\ t.req.house \in Households /\ t.req.who \in Accounts
                                  /\ t.req.role \in Roles
        /\ t.req.op = "mint" => t.req.house \in Households /\ t.req.who \in Accounts
        /\ t.req.op = "redeem" => /\ t.req.who \in Accounts /\ t.seen \in Invitation
                                  /\ t.seen.role # "owner"
    BY DEF Committing, WellFormed, Request, Stands, Redeems
  <1>3. None \notin Invitation \cup Token /\ Gone \notin Invitation \cup Token /\ Gone # None
        /\ None \notin Roles
    BY DEF MembershipsAssumption
  <1>4. ASSUME NEW i \in Invitations
        PROVE  /\ invitations'[i] \in Invitation \cup {None, Gone}
               /\ invitations[i] # None => invitations'[i] # None
               /\ invitations[i] # None /\ Stored(invitations'[i]) =>
                     /\ Stored(invitations[i]) /\ Same(invitations'[i], invitations[i])
                     /\ \/ invitations'[i].by = invitations[i].by
                        \/ t.req.op = "redeem" /\ invitations'[i].by = t.req.who
                     /\ invitations[i].redeemed => invitations'[i].by = invitations[i].by
                     /\ invitations'[i].by # None => invitations'[i].redeemed
    <2>1. PICK old : old = invitations[i]
      OBVIOUS
    <2>2. /\ old \in Invitation \cup {None, Gone}
          /\ Stored(old) => old \in Invitation
          /\ Stored(old) => (old.by # None => old.redeemed)
      BY <2>1 DEF IInv, Types, Stored, Founded
    <2>3. CASE /\ t.req.op \in Erasing /\ InvitationRow(i) \in t.own
               /\ Stored(old) /\ invitations'[i] = Gone
      BY <1>3, <2>3 DEF Stored
    <2>4. CASE /\ t.req.op = "invite" /\ old = None
               /\ invitations'[i] = [house |-> t.req.house, issuer |-> t.req.who, role |-> t.req.role,
                                     by |-> None, redeemed |-> FALSE, revoked |-> FALSE, expired |-> FALSE]
      BY <1>2, <2>1, <2>4 DEF Invitation
    <2>5. CASE /\ t.req.op = "revoke" /\ Stored(old) /\ invitations'[i] = [old EXCEPT !.revoked = TRUE]
      <3>1. PICK new : new = [old EXCEPT !.revoked = TRUE]
        OBVIOUS
      <3>2. new \in Invitation
        BY <2>2, <2>5, <3>1 DEF Invitation
      <3>3. Same(new, old) /\ new.by = old.by
        BY <2>2, <2>5, <3>1 DEF Invitation, Same
      <3>4. new.redeemed = old.redeemed
        BY <2>2, <2>5, <3>1 DEF Invitation
      <3>5. new # None
        BY <1>3, <3>2
      <3>6. invitations'[i] = new
        BY <2>5, <3>1
      <3> QED
        BY <2>1, <2>2, <2>5, <3>2, <3>3, <3>4, <3>5, <3>6, Zenon
    <2>6. CASE /\ t.req.op = "redeem" /\ Stored(old) /\ ~old.redeemed
               /\ invitations'[i] = Redeemed(t, old)
      <3>1. PICK new : new = Redeemed(t, old)
        OBVIOUS
      <3>2. new \in Invitation
        BY <1>2, <2>2, <2>6, <3>1 DEF Invitation, Redeemed
      <3>3. Same(new, old) /\ new.by = t.req.who
        BY <1>2, <2>2, <2>6, <3>1 DEF Invitation, Same, Redeemed
      <3>4. new.redeemed
        BY <2>2, <2>6, <3>1 DEF Invitation, Redeemed
      <3>5. new # None
        BY <1>3, <3>2
      <3>6. invitations'[i] = new
        BY <2>6, <3>1
      <3> QED
        BY <2>1, <2>2, <2>6, <3>2, <3>3, <3>4, <3>5, <3>6, Zenon
    <2>7. CASE invitations'[i] = old
      <3>1. Same(old, old)
        BY DEF Same
      <3> QED
        BY <2>1, <2>2, <2>7, <3>1, Zenon
    <2> QED
      BY <1>1, <2>1, <2>3, <2>4, <2>5, <2>6, <2>7 DEF InvitationMoves
  <1>5. ASSUME NEW k \in Tokens
        PROVE  /\ tokens'[k] \in Token \cup {None, Gone}
               /\ tokens[k] # None /\ Stored(tokens'[k]) =>
                     /\ Stored(tokens[k]) /\ tokens'[k].house = tokens[k].house
                     /\ tokens'[k].user = tokens[k].user
    <2>1. PICK old : old = tokens[k]
      OBVIOUS
    <2>2. old \in Token \cup {None, Gone} /\ (Stored(old) => old \in Token)
      BY <2>1 DEF IInv, Types, Stored
    <2>3. CASE tokens'[k] = Gone
      BY <2>3 DEF Stored
    <2>4. CASE /\ t.req.op = "mint" /\ old = None
               /\ tokens'[k] = [house |-> t.req.house, user |-> t.req.who, revoked |-> FALSE]
      BY <1>2, <2>1, <2>4 DEF Token
    <2>5. CASE Stored(old) /\ tokens'[k] = [old EXCEPT !.revoked = TRUE]
      BY <2>1, <2>2, <2>5 DEF Token
    <2>6. CASE tokens'[k] = old
      BY <2>1, <2>2, <2>6 DEF Stored
    <2> QED
      BY <1>1, <2>1, <2>3, <2>4, <2>5, <2>6 DEF TokenMoves
  <1>6. ASSUME NEW h \in Households, NEW a \in Accounts
        PROVE  /\ members'[h][a] \in Roles \cup {None}
               /\ members'[h][a] = "owner" => members[h][a] = "owner"
    <2>1. members[h][a] \in Roles \cup {None} /\ "owner" # None
      BY <1>3 DEF IInv, Types, Roles
    <2>2. t.req.op = "redeem" => t.seen.role \in Roles /\ t.seen.role # "owner"
      BY <1>2 DEF Invitation
    <2> QED
      BY <1>1, <2>1, <2>2 DEF MemberMoves
  <1> QED
    BY <1>4, <1>5, <1>6

(* An erasure of r has the rows of what another commits: what t creates     *)
(* names rows that t shares, and r deletes none of those.                   *)
LEMMA CommitIsTaken ==
    ASSUME MembershipsAssumption, IInv, NEW c \in Clients, NEW d \in Clients, c # d,
           NEW t, Committing(c, t), NEW r, r = tx[d], r.req.op \in Erasing, r.phase = "commit"
    PROVE  Dependents(r)' \subseteq r.own
  <1>1. /\ Holds(t) /\ Creates(t) /\ t.phase = "commit"
        /\ t.req.op = "redeem" => Redeems(t)
        /\ Holds(r) /\ Takes(r) /\ r.req \in Requests
        /\ r.own \cap t.shared = {}
    BY DEF Committing, IInv, Stands, Apart
  <1>2. /\ r.req.op = "erase_household" => r.req.house \in Households
        /\ r.req.op = "erase_account" => r.req.who \in Accounts
        /\ OfHousehold(r) <=> r.req.op = "erase_household"
        /\ ~OfHousehold(r) => r.req.op = "erase_account"
    BY <1>1, RequestsAreTyped DEF WellFormed, Request, OfHousehold, Erasing
  <1>3. ASSUME NEW h, OfHousehold(r), HouseholdRow(h) \in t.shared PROVE h # r.req.house
    <2>1. h \in households
      BY <1>1, <1>3, RowsDiffer DEF Holds, Living
    <2> QED
      BY <1>1, <1>3, <2>1 DEF Takes
  <1>4. ASSUME NEW a, ~OfHousehold(r), AccountRow(a) \in t.shared PROVE a # r.req.who
    <2>1. a \in accounts
      BY <1>1, <1>4, RowsDiffer DEF Holds, Living
    <2> QED
      BY <1>1, <1>4, <2>1 DEF Takes
  <1>5. Dependents(r) \subseteq r.own
    BY <1>1 DEF Takes
  <1>6. ASSUME NEW h \in Households, NEW a \in Accounts, members'[h][a] # None,
               IF OfHousehold(r) THEN h = r.req.house ELSE a = r.req.who
        PROVE  MemberRow(h, a) \in r.own
    <2>1. CASE members[h][a] # None
      <3>1. <<h, a>> \in Ended(r)
        BY <1>6, <2>1 DEF Ended
      <3> QED
        BY <1>5, <3>1 DEF Dependents
    <2>2. CASE members[h][a] = None
      <3>1. t.req.op = "redeem" /\ h = t.seen.house /\ a = t.req.who
        BY <1>6, <2>2, CommitMoves DEF MemberMoves
      <3>2. HouseholdRow(h) \in t.shared /\ AccountRow(a) \in t.shared
        BY <1>1, <3>1 DEF Redeems
      <3> QED
        BY <1>3, <1>4, <1>6, <3>2
    <2> QED
      BY <2>1, <2>2
  <1>7. ASSUME NEW i \in Invitations, Stored(invitations'[i]),
               IF OfHousehold(r) THEN invitations'[i].house = r.req.house
               ELSE r.req.who \in {invitations'[i].issuer, invitations'[i].by}
        PROVE  InvitationRow(i) \in r.own
    <2>1. CASE invitations[i] # None
      <3>1. /\ Stored(invitations[i]) /\ Same(invitations'[i], invitations[i])
            /\ \/ invitations'[i].by = invitations[i].by
               \/ t.req.op = "redeem" /\ invitations'[i].by = t.req.who
        BY <1>7, <2>1, CommitKeeps
      <3>2. t.req.op = "redeem" => AccountRow(t.req.who) \in t.shared
        BY <1>1 DEF Redeems
      <3>3. IF OfHousehold(r) THEN invitations[i].house = r.req.house
            ELSE r.req.who \in {invitations[i].issuer, invitations[i].by}
        BY <1>4, <1>7, <3>1, <3>2 DEF Same
      <3> QED
        BY <1>5, <3>1, <3>3 DEF Dependents
    <2>2. CASE invitations[i] = None
      <3>1. InvitationMoves(t, i)
        BY CommitMoves
      <3>2. /\ t.req.op = "invite" /\ invitations'[i].house = t.req.house
            /\ invitations'[i].issuer = t.req.who /\ invitations'[i].by = None
        BY <1>7, <2>2, <3>1 DEF InvitationMoves, Stored
      <3>3. HouseholdRow(t.req.house) \in t.shared /\ AccountRow(t.req.who) \in t.shared
        BY <1>1, <3>2 DEF Creates
      <3>4. ~OfHousehold(r) => r.req.who # None
        BY <1>2 DEF MembershipsAssumption
      <3> QED
        BY <1>3, <1>4, <1>7, <3>2, <3>3, <3>4
    <2> QED
      BY <2>1, <2>2
  <1>8. ASSUME NEW k \in Tokens, Stored(tokens'[k]),
               IF OfHousehold(r) THEN tokens'[k].house = r.req.house ELSE tokens'[k].user = r.req.who
        PROVE  TokenRow(k) \in r.own
    <2>1. CASE tokens[k] # None
      <3>1. /\ Stored(tokens[k]) /\ tokens'[k].house = tokens[k].house
            /\ tokens'[k].user = tokens[k].user
        BY <1>8, <2>1, CommitKeeps
      <3> QED
        BY <1>5, <1>8, <3>1 DEF Dependents
    <2>2. CASE tokens[k] = None
      <3>1. TokenMoves(t, k)
        BY CommitMoves
      <3>2. t.req.op = "mint" /\ tokens'[k].house = t.req.house /\ tokens'[k].user = t.req.who
        BY <1>8, <2>2, <3>1 DEF TokenMoves, Stored
      <3>3. HouseholdRow(t.req.house) \in t.shared /\ AccountRow(t.req.who) \in t.shared
        BY <1>1, <3>2 DEF Creates
      <3> QED
        BY <1>3, <1>4, <1>8, <3>2, <3>3
    <2> QED
      BY <2>1, <2>2
  <1> QED
    BY <1>6, <1>7, <1>8 DEF Dependents, Ended, OfHousehold

LEMMA CommitIsRespectful ==
    ASSUME MembershipsAssumption, IInv, NEW c \in Clients, NEW d \in Clients, c # d,
           NEW t, Committing(c, t), NEW r, r = tx[d]
    PROVE  Respects(r)
  <1>1. /\ Holds(t) /\ Creates(t) /\ Holds(r)
        /\ t.own \cap (r.own \cup r.shared) = {}
        /\ t.id = r.id => t.id = None
    BY DEF Committing, IInv, Stands, Apart
  <1>2. ASSUME NEW i \in Invitations, InvitationRow(i) \in r.own
        PROVE  /\ Stored(invitations'[i]) /\ invitations'[i].by = invitations[i].by
               /\ invitations'[i].redeemed = invitations[i].redeemed
    <2>1. InvitationRow(i) \notin t.own /\ Stored(invitations[i])
      BY <1>1, <1>2 DEF Holds
    <2>2. InvitationMoves(t, i)
      BY CommitMoves
    <2>3. invitations'[i] = invitations[i]
      BY <2>1, <2>2 DEF InvitationMoves, Stored
    <2> QED
      BY <2>1, <2>3
  <1>3. ASSUME NEW i \in Invitations, i = r.id, invitations[i] = None
        PROVE  invitations'[i] = None
    <2>1. t.id # i
      BY <1>1, <1>3 DEF MembershipsAssumption
    <2>2. InvitationMoves(t, i)
      BY CommitMoves
    <2> QED
      BY <1>3, <2>1, <2>2 DEF InvitationMoves, Stored
  <1>4. ASSUME NEW k \in Tokens
        PROVE  /\ TokenRow(k) \in r.own => Stored(tokens'[k])
               /\ k = r.id /\ tokens[k] = None => tokens'[k] = None
    <2>1. TokenMoves(t, k)
      BY CommitMoves
    <2>2. k = r.id => t.id # k
      BY <1>1 DEF MembershipsAssumption
    <2>3. TokenRow(k) \in r.own => TokenRow(k) \notin t.own /\ Stored(tokens[k])
      BY <1>1 DEF Holds
    <2> QED
      BY <2>1, <2>2, <2>3 DEF TokenMoves, Stored
  <1>5. ASSUME NEW row \in r.shared, Living(row) PROVE Living(row)'
    <2>1. row \notin t.own
      BY <1>1
    <2> QED
      BY <1>5, <2>1 DEF Living, Committing
  <1>6. accounts' \subseteq accounts /\ households' \subseteq households
    BY DEF Committing
  <1>7. r.req.op \in Erasing /\ r.phase = "commit" => Dependents(r)' \subseteq r.own
    BY CommitIsTaken
  <1>8. \A i \in Invitations :
           /\ invitations[i] # None => invitations'[i] # None
           /\ invitations[i] # None /\ Stored(invitations'[i]) =>
                 Stored(invitations[i]) /\ Same(invitations'[i], invitations[i])
    BY CommitKeeps
  <1>9. \A h \in Households, a \in Accounts : members'[h][a] = "owner" => members[h][a] = "owner"
    BY CommitKeeps
  <1> QED
    BY <1>2, <1>3, <1>4, <1>5, <1>6, <1>7, <1>8, <1>9 DEF Respects

LEMMA CommitFounds ==
    ASSUME MembershipsAssumption, IInv, NEW c \in Clients, NEW t, Committing(c, t)
    PROVE  Founded'
  <1>1. ASSUME NEW h \in Households, NEW a \in Accounts, members'[h][a] = "owner"
        PROVE  a = Founder[h]
    BY <1>1, CommitKeeps DEF IInv, Founded
  <1>2. ASSUME NEW h \in households' PROVE members'[h][Founder[h]] = "owner"
    <2>1. h \in households /\ HouseholdRow(h) \notin t.own
      BY <1>2 DEF Committing
    <2>2. h \in Households /\ Founder[h] \in Accounts /\ members[h][Founder[h]] = "owner"
      BY <2>1 DEF IInv, Types, Founded, MembershipsAssumption
    <2>3. MemberMoves(t, h, Founder[h])
      BY <2>2, CommitMoves
    <2>4. t.req.op = "erase_household" => t.req.house # h
      BY <2>1 DEF Committing, Stands, Takes, Erasing, OfHousehold
    <2> QED
      BY <2>2, <2>3, <2>4 DEF MemberMoves
  <1>3. ASSUME NEW i \in Invitations, Stored(invitations'[i])
        PROVE  /\ invitations'[i].role # "owner"
               /\ invitations'[i].issuer = Founder[invitations'[i].house]
               /\ invitations'[i].by # None => invitations'[i].redeemed
    <2>1. CASE invitations[i] # None
      BY <1>3, <2>1, CommitKeeps DEF IInv, Founded, Same
    <2>2. CASE invitations[i] = None
      <3>1. InvitationMoves(t, i)
        BY CommitMoves
      <3>2. /\ t.req.op = "invite" /\ invitations'[i].house = t.req.house
            /\ invitations'[i].issuer = t.req.who /\ invitations'[i].by = None
            /\ invitations'[i].role = t.req.role
        BY <1>3, <2>2, <3>1 DEF InvitationMoves, Stored
      <3>3. t.req.role # "owner" /\ t.req.who = Founder[t.req.house]
        BY <3>2 DEF Committing, Stands, Creates
      <3> QED
        BY <3>2, <3>3
    <2> QED
      BY <2>1, <2>2
  <1> QED
    BY <1>1, <1>2, <1>3 DEF Founded

LEMMA CommitErases ==
    ASSUME MembershipsAssumption, IInv, NEW c \in Clients, NEW t, Committing(c, t)
    PROVE  ErasureIsComplete'
  <1>1. /\ Holds(t) /\ Creates(t) /\ t.phase = "commit"
        /\ t.req.op = "redeem" => Redeems(t)
        /\ t.req.op \in Erasing => Takes(t)
        /\ accounts' = {a \in accounts : AccountRow(a) \notin t.own}
        /\ households' = {h \in households : HouseholdRow(h) \notin t.own}
    BY DEF Committing, Stands
  <1>2. ASSUME NEW h, HouseholdRow(h) \in t.shared, t.req.op \notin Erasing PROVE h \in households'
    <2>1. h \in households
      BY <1>1, <1>2, RowsDiffer DEF Holds, Living
    <2>2. HouseholdRow(h) \notin t.own
      BY <1>1, <1>2, <2>1 DEF Holds, IInv, Types, Erasing
    <2> QED
      BY <1>1, <2>1, <2>2
  <1>3. ASSUME NEW a, AccountRow(a) \in t.shared, t.req.op \notin Erasing PROVE a \in accounts'
    <2>1. a \in accounts
      BY <1>1, <1>3, RowsDiffer DEF Holds, Living
    <2>2. AccountRow(a) \notin t.own
      BY <1>1, <1>3, <2>1 DEF Holds, IInv, Types, Erasing
    <2> QED
      BY <1>1, <2>1, <2>2
  <1>4. ASSUME NEW h \in households, h \notin households'
        PROVE  t.req.op = "erase_household" /\ h = t.req.house /\ OfHousehold(t)
    BY <1>1, <1>4 DEF Holds, IInv, Types, OfHousehold
  <1>5. ASSUME NEW a \in accounts, a \notin accounts'
        PROVE  t.req.op = "erase_account" /\ a = t.req.who /\ ~OfHousehold(t)
    BY <1>1, <1>5 DEF Holds, IInv, Types, OfHousehold
  <1>6. t.req.op \in Erasing => Dependents(t) \subseteq t.own
    BY <1>1 DEF Takes
  <1>7. ASSUME NEW h \in Households, NEW a \in Accounts, members'[h][a] # None
        PROVE  h \in households' /\ a \in accounts'
    <2>1. MemberMoves(t, h, a)
      BY CommitMoves
    <2>2. CASE t.req.op = "redeem" /\ h = t.seen.house /\ a = t.req.who
      <3>1. HouseholdRow(h) \in t.shared /\ AccountRow(a) \in t.shared
        BY <1>1, <2>2 DEF Redeems
      <3> QED
        BY <1>2, <1>3, <2>2, <3>1 DEF Erasing
    <2>3. CASE members'[h][a] = members[h][a] /\ MemberRow(h, a) \notin t.own
      <3>1. h \in households /\ a \in accounts
        BY <1>7, <2>3 DEF IInv, ErasureIsComplete
      <3>2. h \in households'
        <4> SUFFICES ASSUME h \notin households' PROVE FALSE
          OBVIOUS
        <4>1. <<h, a>> \in Ended(t)
          BY <1>4, <1>7, <2>3, <3>1 DEF Ended
        <4>2. MemberRow(h, a) \in Dependents(t)
          BY <4>1 DEF Dependents
        <4> QED
          BY <1>4, <1>6, <2>3, <3>1, <4>2 DEF Erasing
      <3>3. a \in accounts'
        <4> SUFFICES ASSUME a \notin accounts' PROVE FALSE
          OBVIOUS
        <4>1. <<h, a>> \in Ended(t)
          BY <1>5, <1>7, <2>3, <3>1 DEF Ended
        <4>2. MemberRow(h, a) \in Dependents(t)
          BY <4>1 DEF Dependents
        <4> QED
          BY <1>5, <1>6, <2>3, <3>1, <4>2 DEF Erasing
      <3> QED
        BY <3>2, <3>3
    <2> QED
      BY <1>7, <2>1, <2>2, <2>3 DEF MemberMoves
  <1>8. ASSUME NEW i \in Invitations, Stored(invitations'[i])
        PROVE  invitations'[i].house \in households' /\ invitations'[i].issuer \in accounts'
    <2>1. InvitationMoves(t, i)
      BY CommitMoves
    <2>2. CASE invitations[i] # None
      <3>1. Stored(invitations[i]) /\ Same(invitations'[i], invitations[i])
        BY <1>8, <2>2, CommitKeeps
      <3>2. invitations[i].house \in households /\ invitations[i].issuer \in accounts
        BY <3>1 DEF IInv, ErasureIsComplete
      <3>3. t.req.op \in Erasing => InvitationRow(i) \notin t.own
        BY <1>8, <2>1 DEF InvitationMoves, Stored, Erasing
      <3>4. invitations[i].house \in households'
        <4> SUFFICES ASSUME invitations[i].house \notin households' PROVE FALSE
          OBVIOUS
        <4>1. t.req.op = "erase_household" /\ invitations[i].house = t.req.house /\ OfHousehold(t)
          BY <1>4, <3>2
        <4>2. InvitationRow(i) \in Dependents(t)
          BY <3>1, <4>1 DEF Dependents
        <4> QED
          BY <1>6, <3>3, <4>1, <4>2 DEF Erasing
      <3>5. invitations[i].issuer \in accounts'
        <4> SUFFICES ASSUME invitations[i].issuer \notin accounts' PROVE FALSE
          OBVIOUS
        <4>1. t.req.op = "erase_account" /\ invitations[i].issuer = t.req.who /\ ~OfHousehold(t)
          BY <1>5, <3>2
        <4>2. InvitationRow(i) \in Dependents(t)
          BY <3>1, <4>1 DEF Dependents
        <4> QED
          BY <1>6, <3>3, <4>1, <4>2 DEF Erasing
      <3> QED
        BY <3>1, <3>4, <3>5 DEF Same
    <2>3. CASE invitations[i] = None
      <3>1. /\ t.req.op = "invite" /\ invitations'[i].house = t.req.house
            /\ invitations'[i].issuer = t.req.who
        BY <1>8, <2>1, <2>3 DEF InvitationMoves, Stored
      <3>2. HouseholdRow(t.req.house) \in t.shared /\ AccountRow(t.req.who) \in t.shared
        BY <1>1, <3>1 DEF Creates
      <3> QED
        BY <1>2, <1>3, <3>1, <3>2 DEF Erasing
    <2> QED
      BY <2>2, <2>3
  <1>9. ASSUME NEW k \in Tokens, Stored(tokens'[k])
        PROVE  tokens'[k].house \in households' /\ tokens'[k].user \in accounts'
    <2>1. TokenMoves(t, k)
      BY CommitMoves
    <2>2. CASE tokens[k] # None
      <3>1. /\ Stored(tokens[k]) /\ tokens'[k].house = tokens[k].house
            /\ tokens'[k].user = tokens[k].user
        BY <1>9, <2>2, CommitKeeps
      <3>2. tokens[k].house \in households /\ tokens[k].user \in accounts
        BY <3>1 DEF IInv, ErasureIsComplete
      <3>3. t.req.op \in Erasing => TokenRow(k) \notin t.own
        BY <1>9, <2>1 DEF TokenMoves, Stored, Erasing
      <3>4. tokens[k].house \in households'
        <4> SUFFICES ASSUME tokens[k].house \notin households' PROVE FALSE
          OBVIOUS
        <4>1. t.req.op = "erase_household" /\ tokens[k].house = t.req.house /\ OfHousehold(t)
          BY <1>4, <3>2
        <4>2. TokenRow(k) \in Dependents(t)
          BY <3>1, <4>1 DEF Dependents
        <4> QED
          BY <1>6, <3>3, <4>1, <4>2 DEF Erasing
      <3>5. tokens[k].user \in accounts'
        <4> SUFFICES ASSUME tokens[k].user \notin accounts' PROVE FALSE
          OBVIOUS
        <4>1. t.req.op = "erase_account" /\ tokens[k].user = t.req.who /\ ~OfHousehold(t)
          BY <1>5, <3>2
        <4>2. TokenRow(k) \in Dependents(t)
          BY <3>1, <4>1 DEF Dependents
        <4> QED
          BY <1>6, <3>3, <4>1, <4>2 DEF Erasing
      <3> QED
        BY <3>1, <3>4, <3>5
    <2>3. CASE tokens[k] = None
      <3>1. /\ t.req.op = "mint" /\ tokens'[k].house = t.req.house /\ tokens'[k].user = t.req.who
        BY <1>9, <2>1, <2>3 DEF TokenMoves, Stored
      <3>2. HouseholdRow(t.req.house) \in t.shared /\ AccountRow(t.req.who) \in t.shared
        BY <1>1, <3>1 DEF Creates
      <3> QED
        BY <1>2, <1>3, <3>1, <3>2 DEF Erasing
    <2> QED
      BY <2>2, <2>3
  <1> QED
    BY <1>7, <1>8, <1>9 DEF ErasureIsComplete

(* A membership is earned: the invitation it was given for goes only when   *)
(* the household does.                                                      *)
LEMMA CommitEarns ==
    ASSUME MembershipsAssumption, IInv, NEW c \in Clients, NEW t, Committing(c, t)
    PROVE  MembershipsAreEarned'
  <1> SUFFICES ASSUME NEW h \in Households, NEW a \in Accounts, members'[h][a] \notin {None, "owner"}
               PROVE  \E i \in Invitations :
                         /\ Stored(invitations'[i]) /\ invitations'[i].by = a
                         /\ invitations'[i].house = h /\ invitations'[i].role = members'[h][a]
    BY DEF MembershipsAreEarned
  <1>1. /\ Holds(t) /\ t.phase = "commit" /\ t.req \in Requests /\ WellFormed(t.req)
        /\ t.req.op = "redeem" => Redeems(t)
        /\ t.req.op \in Erasing => Takes(t)
    BY DEF Committing, Stands
  <1>2. MemberMoves(t, h, a) /\ a # None
    BY CommitMoves DEF MembershipsAssumption
  <1>3. CASE t.req.op = "redeem" /\ h = t.seen.house /\ a = t.req.who /\ members'[h][a] = t.seen.role
    <2>1. PICK i \in Invitations : i = t.req.on
      BY <1>1, <1>3 DEF WellFormed
    <2>2. InvitationRow(i) \in t.own /\ Stored(invitations[i]) /\ Same(invitations[i], t.seen)
      BY <1>1, <1>3, <2>1 DEF Redeems, Holds
    <2>3. invitations'[i] = Redeemed(t, invitations[i])
      BY <1>3, <2>1, <2>2, CommitMoves DEF InvitationMoves, Erasing
    <2>4. invitations[i] \in Invitation
      BY <2>2 DEF IInv, Types, Stored
    <2>5. invitations'[i].by = a /\ invitations'[i].house = h /\ invitations'[i].role = members'[h][a]
      BY <1>3, <2>2, <2>3, <2>4 DEF Redeemed, Same, Invitation
    <2>6. Stored(invitations'[i])
      <3>1. invitations'[i] \in Invitation \cup {None, Gone} /\ invitations'[i] # None
        BY <2>2, CommitKeeps DEF Stored
      <3>2. Redeemed(t, invitations[i]) \in Invitation
        BY <1>1, <1>3, <2>4 DEF Redeemed, Invitation
      <3> QED
        BY <2>3, <3>2 DEF Stored, MembershipsAssumption
    <2> QED
      BY <2>5, <2>6
  <1>4. CASE members'[h][a] = members[h][a] /\ MemberRow(h, a) \notin t.own
    <2>1. PICK i \in Invitations :
             /\ Stored(invitations[i]) /\ invitations[i].by = a
             /\ invitations[i].house = h /\ invitations[i].role = members[h][a]
      BY <1>4 DEF IInv, MembershipsAreEarned
    <2>2. invitations[i].redeemed /\ invitations[i].issuer = Founder[h]
      BY <1>2, <2>1 DEF IInv, Founded
    <2>3. invitations[i] # None
      BY <2>1 DEF Stored
    <2>4. h \in households
      BY <1>4 DEF IInv, ErasureIsComplete
    <2>5. Stored(invitations'[i])
      <3> SUFFICES ASSUME ~Stored(invitations'[i]) PROVE FALSE
        OBVIOUS
      <3>1. t.req.op \in Erasing /\ InvitationRow(i) \in t.own
        <4>1. invitations'[i] \in Invitation \cup {None, Gone} /\ invitations'[i] # None
          BY <2>3, CommitKeeps
        <4>2. InvitationMoves(t, i)
          BY CommitMoves
        <4>3. invitations[i] \in Invitation
          BY <2>1 DEF IInv, Types, Stored
        <4>4. t.req.op = "revoke" => [invitations[i] EXCEPT !.revoked = TRUE] \in Invitation
          BY <4>3 DEF Invitation
        <4> QED
          BY <2>1, <2>2, <2>3, <4>1, <4>2, <4>4 DEF InvitationMoves, Stored, MembershipsAssumption
      <3>2. CASE t.req.op = "erase_household"
        <4>1. h = t.req.house /\ OfHousehold(t)
          BY <1>1, <2>1, <3>1, <3>2 DEF Holds, OfHousehold
        <4>2. <<h, a>> \in Ended(t)
          BY <1>4, <4>1 DEF Ended
        <4>3. MemberRow(h, a) \in Dependents(t)
          BY <4>2 DEF Dependents
        <4> QED
          BY <1>1, <1>4, <3>1, <4>3 DEF Takes
      <3>3. CASE t.req.op = "erase_account" /\ a = t.req.who
        <4>1. ~OfHousehold(t)
          BY <3>3 DEF OfHousehold
        <4>2. <<h, a>> \in Ended(t)
          BY <1>4, <3>3, <4>1 DEF Ended
        <4>3. MemberRow(h, a) \in Dependents(t)
          BY <4>2 DEF Dependents
        <4> QED
          BY <1>1, <1>4, <3>1, <4>3 DEF Takes
      <3>4. CASE t.req.op = "erase_account" /\ a # t.req.who
        <4>1. t.req.who = Founder[h]
          BY <1>1, <2>1, <2>2, <3>1, <3>4 DEF Holds
        <4>2. members[h][Founder[h]] = "owner"
          BY <2>4 DEF IInv, Founded
        <4> QED
          BY <1>1, <3>1, <3>4, <4>1, <4>2 DEF Takes
      <3> QED
        BY <3>1, <3>2, <3>3, <3>4 DEF Erasing
    <2>6. Same(invitations'[i], invitations[i]) /\ invitations'[i].by = invitations[i].by
      BY <2>2, <2>3, <2>5, CommitKeeps
    <2> QED
      BY <1>4, <2>1, <2>5, <2>6 DEF Same
  <1> QED
    BY <1>2, <1>3, <1>4 DEF MemberMoves

LEMMA CommitStep ==
    ASSUME MembershipsAssumption, IInv, NEW c \in Clients, Commit(c)
    PROVE  IInv'
  <1>1. PICK t : t = tx[c]
    OBVIOUS
  <1>2. Committing(c, t)
    <2>1. t \in Transaction /\ Holds(t) /\ Stands(t) /\ t.phase = "commit"
      BY <1>1 DEF Commit, IInv, Types
    <2>2. t.req \in Requests /\ t.req \in Request /\ WellFormed(t.req)
      BY <2>1, RequestsAreTyped DEF Stands
    <2> QED
      BY <1>1, <2>1, <2>2 DEF Commit, Committing
  <1>3. ASSUME NEW d \in Clients, d # c
        PROVE  /\ tx'[d] \in Transaction /\ Holds(tx[d])' /\ Stands(tx[d])'
               /\ tx'[d].own = tx[d].own /\ tx'[d].shared = tx[d].shared /\ tx'[d].id = tx[d].id
    <2>1. PICK r : r = tx[d]
      OBVIOUS
    <2>2. r \in Transaction /\ Holds(r) /\ Stands(r)
      BY <2>1 DEF IInv, Types
    <2>3. PICK b : b = (r.late /\ \E req \in {r.req}, past \in {r.past} : Dead(req, past)')
      OBVIOUS
    <2>4. PICK u : u = [r EXCEPT !.late = b]
      OBVIOUS
    <2>5. tx'[d] = u
      BY <1>3, <2>1, <2>3, <2>4 DEF Commit, StillLate
    <2>6. b \in BOOLEAN /\ (b => r.late /\ Dead(r.req, r.past)')
      BY <2>3, Zenon
    <2>7. /\ u \in Transaction /\ u.late = b
          /\ u.phase = r.phase /\ u.req = r.req /\ u.id = r.id /\ u.past = r.past
          /\ u.seen = r.seen /\ u.own = r.own /\ u.shared = r.shared
      BY <2>2, <2>4, <2>6 DEF Transaction
    <2>8. r.phase = "idle" => u = IdleTx
      <3> SUFFICES ASSUME r.phase = "idle" PROVE u = IdleTx
        OBVIOUS
      <3>1. r = IdleTx
        BY <2>2 DEF Stands
      <3>2. b = FALSE
        BY <2>6, <3>1 DEF IdleTx
      <3> QED
        BY <2>4, <3>1, <3>2 DEF IdleTx
    <2>9. Respects(r)
      BY <1>2, <1>3, <2>1, CommitIsRespectful
    <2>10. Holds(u)' /\ Stands(u)'
      BY <2>2, <2>6, <2>7, <2>8, <2>9, OthersStand
    <2> QED
      BY <2>1, <2>5, <2>7, <2>10
  <1>4. /\ tx'[c] = IdleTx /\ Holds(tx[c])' /\ Stands(tx[c])'
    <2>1. tx'[c] = IdleTx
      BY DEF Commit
    <2>2. Holds(IdleTx)' /\ Stands(IdleTx)'
      BY DEF Holds, Stands, IdleTx
    <2> QED
      BY <2>1, <2>2
  <1>5. Types'
    <2>1. tx' \in [Clients -> Transaction]
      BY <1>3, <1>4, IdleIsTyped DEF Commit
    <2>2. reply' \in [Clients -> [op : Ops \cup {None}, outcome : Outcomes]]
      <3>1. t.req.op \in Ops
        BY <1>2 DEF Committing, Request
      <3>2. [op |-> t.req.op, outcome |-> "ok"] \in [op : Ops \cup {None}, outcome : Outcomes]
        BY <3>1 DEF Outcomes
      <3> QED
        BY <1>1, <3>2 DEF Commit, IInv, Types
    <2>3. invitations' \in [Invitations -> Invitation \cup {None, Gone}]
      <3>1. \A i \in Invitations : invitations'[i] \in Invitation \cup {None, Gone}
        BY <1>2, CommitKeeps
      <3> QED
        BY <1>2, <3>1 DEF Committing, InvitationsAfter
    <2>4. tokens' \in [Tokens -> Token \cup {None, Gone}]
      <3>1. \A k \in Tokens : tokens'[k] \in Token \cup {None, Gone}
        BY <1>2, CommitKeeps
      <3> QED
        BY <1>2, <3>1 DEF Committing, TokensAfter
    <2>5. members' \in [Households -> [Accounts -> Roles \cup {None}]]
      <3>1. \A h \in Households, a \in Accounts : members'[h][a] \in Roles \cup {None}
        BY <1>2, CommitKeeps
      <3> QED
        BY <1>2, <3>1 DEF Committing, MembersAfter
    <2>6. accounts' \subseteq Accounts /\ households' \subseteq Households
      BY <1>2 DEF Committing, IInv, Types
    <2> QED
      BY <2>1, <2>2, <2>3, <2>4, <2>5, <2>6 DEF Types
  <1>6. ASSUME NEW d \in Clients, NEW e \in Clients, d # e PROVE Apart(d, e)'
    <2>1. CASE d = c \/ e = c
      BY <1>4, <2>1 DEF Apart, IdleTx
    <2>2. CASE d # c /\ e # c
      BY <1>3, <1>6, <2>2 DEF Apart, IInv
    <2> QED
      BY <2>1, <2>2
  <1>7. Founded' /\ ErasureIsComplete' /\ MembershipsAreEarned'
    BY <1>2, CommitFounds, CommitErases, CommitEarns
  <1>8. ASSUME NEW d \in Clients PROVE Holds(tx[d])' /\ Stands(tx[d])'
    BY <1>3, <1>4
  <1> QED
    BY <1>5, <1>6, <1>7, <1>8 DEF IInv

-----------------------------------------------------------------------------
LEMMA NextKeeps ==
    ASSUME MembershipsAssumption, IInv, [Next]_vars
    PROVE  IInv'
  <1>1. ASSUME NEW c \in Clients, NEW req \in Requests, Begin(c, req) PROVE IInv'
    BY <1>1, BeginStep
  <1>2. ASSUME NEW c \in Clients, Serve(c) PROVE IInv'
    <2>1. CASE Authorise(c)
      BY <2>1, AuthoriseStep
    <2>2. CASE CountHeld(c)
      BY <2>2, CountStep
    <2>3. CASE Insert(c)
      BY <2>3, InsertStep
    <2>4. CASE Revoke(c)
      BY <2>4, RevokeStep
    <2>5. CASE Resolve(c) \/ CheckMember(c)
      BY <2>5, ResolveStep
    <2>6. CASE Spend(c)
      BY <2>6, SpendStep
    <2>7. CASE Join(c)
      BY <2>7, JoinStep
    <2>8. CASE CheckActor(c) \/ CheckTarget(c)
      BY <2>8, RemoveStep
    <2>9. CASE DeleteMember(c)
      BY <2>9, DeleteMemberStep
    <2>10. CASE UseToken(c)
      BY <2>10, UseStep
    <2>11. CASE Touch(c)
      BY <2>11, TouchStep
    <2>12. CASE Survey(c)
      BY <2>12, SurveyStep
    <2>13. CASE DeleteRoot(c)
      BY <2>13, DeleteRootStep
    <2>14. CASE Cascade(c)
      BY <2>14, CascadeStep
    <2>15. CASE Commit(c)
      BY <2>15, CommitStep
    <2>16. CASE DeadlockVictim(c)
      <3>1. PICK e \in Clients : WaitsFor(c, e)
        BY <2>16 DEF DeadlockVictim, Deadlocked
      <3>2. tx[c].phase # "idle"
        BY <3>1 DEF WaitsFor, Written, Shared
      <3> QED
        BY <2>16, <3>2, RollbackStep DEF DeadlockVictim, Outcomes
    <2> QED
      BY <1>2, <2>1, <2>2, <2>3, <2>4, <2>5, <2>6, <2>7, <2>8, <2>9, <2>10, <2>11, <2>12, <2>13,
         <2>14, <2>15, <2>16 DEF Serve
  <1>3. ASSUME NEW c \in Clients, Interrupt(c) PROVE IInv'
    BY <1>3, RollbackStep DEF Interrupt, Outcomes
  <1>4. ASSUME NEW i \in Invitations, Expire(i) PROVE IInv'
    BY <1>4, ExpireStep
  <1>5. CASE UNCHANGED vars
    <2>1. Types'
      BY <1>5 DEF vars, stored, IInv, Types
    <2>2. ASSUME NEW c \in Clients PROVE Holds(tx[c])' /\ Stands(tx[c])'
      <3>1. Holds(tx[c]) /\ Stands(tx[c])
        BY DEF IInv
      <3>2. Holds(tx[c])'
        BY <1>5, <3>1 DEF vars, stored, Holds, Living, Stored
      <3>3. Creates(tx[c]) => Creates(tx[c])'
        BY <1>5 DEF Creates, vars, stored
      <3>4. Redeems(tx[c]) => Redeems(tx[c])'
        BY <1>5 DEF Redeems, vars, stored, Stored, Same
      <3>5. Takes(tx[c]) => Takes(tx[c])'
        BY <1>5 DEF Takes, vars, stored, Dependents, Ended, Stored, OfHousehold
      <3>6. Dead(tx[c].req, tx[c].past) => Dead(tx[c].req, tx[c].past)'
        BY <1>5 DEF Dead, vars, stored, Live, Owners, Stored
      <3>7. Stands(tx[c])'
        BY <1>5, <3>1, <3>3, <3>4, <3>5, <3>6 DEF Stands, vars, stored
      <3> QED
        BY <3>2, <3>7
    <2>3. \A c, d \in Clients : c # d => Apart(c, d)'
      BY <1>5 DEF vars, IInv, Apart
    <2>4. Founded' /\ ErasureIsComplete' /\ MembershipsAreEarned'
      BY <1>5 DEF vars, stored, IInv, Founded, ErasureIsComplete, MembershipsAreEarned, Stored
    <2> QED
      BY <2>1, <2>2, <2>3, <2>4 DEF IInv
  <1> QED
    BY <1>1, <1>2, <1>3, <1>4, <1>5 DEF Next, Finished

LEMMA Invariance == ASSUME MembershipsAssumption PROVE Spec => []IInv
  <1>1. Init => IInv
    BY InitEstablishes
  <1>2. IInv /\ [Next]_vars => IInv'
    BY NextKeeps
  <1> QED
    BY <1>1, <1>2, PTL DEF Spec

(* An erasure leaves nothing behind, whatever was being written.            *)
THEOREM ErasureLeavesNothing == ASSUME MembershipsAssumption PROVE Spec => []ErasureIsComplete
  <1>1. IInv => ErasureIsComplete
    BY DEF IInv
  <1> QED
    BY <1>1, Invariance, PTL

(* A household that stands has an owner, its founder, through every removal *)
(* and account erasure, and every other member spent an invitation.         *)
THEOREM MembershipsStaySound == ASSUME MembershipsAssumption PROVE Spec => []MembershipsAreSound
  <1>1. IInv => MembershipsAreSound
    <2> SUFFICES ASSUME IInv PROVE HouseholdsKeepAnOwner
      BY DEF IInv, MembershipsAreSound
    <2> QED
      BY DEF HouseholdsKeepAnOwner, IInv, Types, Founded, Owners, MembershipsAssumption
  <1> QED
    BY <1>1, Invariance, PTL

(* A request that presents what was dead when it began, and has been since, *)
(* never gets past its first reading: it has written nothing to commit.     *)
THEOREM WithdrawnGetsNothing == ASSUME MembershipsAssumption PROVE Spec => WithdrawnIsFinal
  <1> DEFINE Refused == \A c \in Clients :
                tx[c].late /\ tx'[c].phase = "idle" => reply'[c].outcome # "ok"
  <1>1. ASSUME IInv, [Next]_vars PROVE [Refused]_vars
    <2> SUFFICES ASSUME NEW c \in Clients, tx[c].late, tx'[c].phase = "idle", Next
                 PROVE  reply'[c].outcome # "ok"
      BY <1>1
    <2>1. /\ tx[c].phase \in {"auth", "resolve"} /\ c \in DOMAIN reply
          /\ tx \in [Clients -> Transaction]
      BY <1>1 DEF IInv, Types, Stands, IdleTx
    <2>2. ASSUME NEW outcome, outcome # "ok", Rollback(c, outcome) PROVE reply'[c].outcome # "ok"
      BY <1>1, <2>2 DEF Rollback, Answer, IInv, Types
    <2>3. ASSUME NEW t, Go(c, t), t.phase # "idle" PROVE FALSE
      BY <2>1, <2>3 DEF Go
    <2>4. ASSUME tx'[c] = tx[c] PROVE FALSE
      BY <2>1, <2>4
    <2>5. ASSUME NEW d \in Clients, NEW outcome, Rollback(d, outcome), d # c PROVE FALSE
      BY <2>1, <2>4, <2>5 DEF Rollback, Answer
    <2>6. ASSUME NEW d \in Clients, NEW t, Go(d, t), d # c PROVE FALSE
      BY <2>1, <2>4, <2>6 DEF Go
    <2>7. ASSUME NEW d \in Clients, NEW req \in Requests, Begin(d, req) PROVE FALSE
      BY <2>1, <2>4, <2>7 DEF Begin
    <2>8. ASSUME NEW d \in Clients, Commit(d) PROVE FALSE
      <3>1. d # c
        BY <2>1, <2>8 DEF Commit
      <3>2. tx'[c] = StillLate(tx[c])
        BY <2>8, <3>1 DEF Commit
      <3>3. tx'[c].phase = tx[c].phase
        BY <2>1, <3>2 DEF StillLate, Transaction
      <3> QED
        BY <2>1, <3>3
    <2>9. CASE Authorise(c)
      <3>1. First(tx[c].req.op) # "idle"
        BY <1>1, <2>9 DEF Authorise, IInv, Stands, During, Ops, First
      <3>2. PICK t : t = [tx[c] EXCEPT !.phase = First(tx[c].req.op)]
        OBVIOUS
      <3>3. t.phase # "idle"
        BY <2>1, <3>1, <3>2 DEF Transaction
      <3> QED
        BY <2>2, <2>3, <2>9, <3>2, <3>3 DEF Authorise
    <2>10. CASE Resolve(c)
      <3>1. PICK t : t = [tx[c] EXCEPT !.phase = "check", !.seen = invitations[tx[c].req.on]]
        OBVIOUS
      <3>2. t.phase # "idle"
        BY <2>1, <3>1 DEF Transaction
      <3> QED
        BY <2>2, <2>3, <2>10, <3>1, <3>2 DEF Resolve
    <2>11. CASE UseToken(c)
      <3>1. ASSUME NEW next \in {"touch", "commit"}, Go(c, [tx[c] EXCEPT !.phase = next]) PROVE FALSE
        <4>1. PICK t : t = [tx[c] EXCEPT !.phase = next]
          OBVIOUS
        <4>2. t.phase # "idle"
          BY <2>1, <4>1 DEF Transaction
        <4> QED
          BY <2>3, <3>1, <4>1, <4>2
      <3> QED
        BY <2>2, <2>11, <3>1 DEF UseToken
    <2>12. CASE Interrupt(c) \/ DeadlockVictim(c)
      BY <2>2, <2>12 DEF Interrupt, DeadlockVictim
    <2>13. ASSUME NEW d \in Clients, Serve(d) \/ Interrupt(d), d # c PROVE FALSE
      <3>1. ASSUME NEW phase, Write(d, phase) PROVE FALSE
        BY <2>5, <2>6, <2>13, <3>1 DEF Write
      <3> QED
        BY <2>5, <2>6, <2>8, <2>13, <3>1
           DEF Serve, Interrupt, Authorise, CountHeld, Insert, Revoke, Resolve, CheckMember, Spend,
               Join, CheckActor, CheckTarget, DeleteMember, UseToken, Touch, Survey, DeleteRoot,
               Cascade, DeadlockVictim
    <2>14. CASE Serve(c) \/ Interrupt(c)
      BY <2>1, <2>8, <2>9, <2>10, <2>11, <2>12, <2>14
         DEF Serve, CountHeld, Insert, Revoke, CheckMember, Spend, Join, CheckActor, CheckTarget,
             DeleteMember, Touch, Survey, DeleteRoot, Cascade
    <2>15. ASSUME (\E i \in Invitations : Expire(i)) \/ Finished PROVE FALSE
      BY <2>4, <2>15 DEF Expire, Finished, vars
    <2> QED
      BY <2>7, <2>13, <2>14, <2>15 DEF Next
  <1>2. IInv /\ [Next]_vars => [Refused]_vars
    BY <1>1
  <1>3. Spec => [][Refused]_vars
    BY <1>2, Invariance, PTL DEF Spec
  <1> QED
    BY <1>3 DEF WithdrawnIsFinal
=============================================================================
