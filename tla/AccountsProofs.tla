---------------------------- MODULE AccountsProofs ----------------------------
(***************************************************************************)
(* What is proved of Accounts for every value of its constants: nothing    *)
(* that was withdrawn comes back, a remedy reaches every session there was *)
(* when it looked, and a dead credential opens nothing.                    *)
(***************************************************************************)
EXTENDS Accounts, WellFoundedInduction, TLAPS

(***************************************************************************)
(* Routes.  A request has a tail of its route left, so how many statements *)
(* are left says which comes next.                                         *)
(***************************************************************************)
Steps == {"resolve", "touch", "revoke", "aim_sessions", "sweep", "open", "current", "rekey",
          "aim_links", "consume", "verify", "present", "find", "link", "follow", "holder", "insert"}

Signed == {"read", "logout", "revoke_all", "change"}  \* by a session
Looks == Signed \cup {"reset"}                        \* that see the sessions of an account

Size(op) == Len(Route(op))
Step(op, n) == Route(op)[Size(op) - n + 1]

(* How many are left of a remedy when it sweeps.                            *)
Sweeping(op) == IF op = "reset" THEN 1 ELSE 2

IsTail(todo, op) ==
    /\ todo \in Seq(Steps) /\ Len(todo) <= Size(op)
    /\ \A i \in 1 .. Len(todo) : todo[i] = Route(op)[Size(op) - Len(todo) + i]

(* What the order of the statements promises.                               *)
Order(op, n) ==
    LET step == Step(op, n)
    IN  /\ step = "resolve" => op \in Signed /\ n = Size(op)
        /\ step = "follow" => op = "reset" /\ n = Size(op)
        /\ n = Size(op) /\ op \in Signed => step = "resolve"
        /\ n = Size(op) /\ op = "reset" => step = "follow"
        /\ n = Size(op) /\ op = "login" => step = "verify"
        /\ step = "verify" => op = "login" /\ n = 5
        /\ step = "present" <=> op = "login" /\ n = 3
        /\ step = "find" <=> op \in {"forgot", "register"} /\ n = 4
        /\ step = "insert" <=> op = "register" /\ n = 5
        /\ op \in Remedies => (step = "aim_sessions" <=> n = Sweeping(op) + 1)
        /\ op \in Remedies => (step = "sweep" <=> n = Sweeping(op))
        /\ step = "rekey" => op \in {"login", "change", "reset"}
        /\ step = "touch" => op \in Signed
        /\ step = "revoke" => (op = "logout" /\ n = 1) \/ (op = "login" /\ n = 2)
        /\ step = "open" => op \in {"revoke_all", "change", "login"} /\ n = 1
        /\ step = "link" => op \in {"forgot", "register"} /\ n = 1

LEMMA RouteOfEach ==
    /\ Route("read") = ReadSession
    /\ Route("logout") = Logout
    /\ Route("revoke_all") = RevokeAllSessions
    /\ Route("change") = ChangePassword
    /\ Route("login") = Login
    /\ Route("forgot") = RequestReset
    /\ Route("reset") = CompleteReset
    /\ Route("register") = Register
  BY DEF Route

LEMMA ReadSessionRuns ==
    /\ Route("read") \in Seq(Steps) /\ Size("read") = 2
    /\ \A n \in 1 .. 2 : Order("read", n)
  <1> DEFINE r == ReadSession
  <1>1. r \in Seq(Steps) /\ Len(r) = 2
    BY DEF ReadSession, Steps
  <1>2. /\ r[1] = "resolve" /\ r[2] = "touch"
    BY DEF ReadSession
  <1>3. Route("read") = r
    BY RouteOfEach
  <1> HIDE DEF r
  <1>4. Size("read") = 2
    BY <1>1, <1>3 DEF Size
  <1>5. ASSUME NEW n \in 1 .. 2 PROVE Order("read", n)
    <2>1. Step("read", n) = r[3 - n]
      BY <1>3, <1>4 DEF Step
    <2>2. n = 1 \/ n = 2
      OBVIOUS
    <2> QED
      BY <1>2, <1>4, <2>1, <2>2 DEF Order, Signed, Remedies, Sweeping
  <1> QED
    BY <1>1, <1>3, <1>4, <1>5

LEMMA LogoutRuns ==
    /\ Route("logout") \in Seq(Steps) /\ Size("logout") = 3
    /\ \A n \in 1 .. 3 : Order("logout", n)
  <1> DEFINE r == Logout
  <1>1. r \in Seq(Steps) /\ Len(r) = 3
    BY DEF Logout, Steps
  <1>2. /\ r[1] = "resolve" /\ r[2] = "touch" /\ r[3] = "revoke"
    BY DEF Logout
  <1>3. Route("logout") = r
    BY RouteOfEach
  <1> HIDE DEF r
  <1>4. Size("logout") = 3
    BY <1>1, <1>3 DEF Size
  <1>5. ASSUME NEW n \in 1 .. 3 PROVE Order("logout", n)
    <2>1. Step("logout", n) = r[4 - n]
      BY <1>3, <1>4 DEF Step
    <2>2. n = 1 \/ n = 2 \/ n = 3
      OBVIOUS
    <2> QED
      BY <1>2, <1>4, <2>1, <2>2 DEF Order, Signed, Remedies, Sweeping
  <1> QED
    BY <1>1, <1>3, <1>4, <1>5

LEMMA RevokeAllSessionsRuns ==
    /\ Route("revoke_all") \in Seq(Steps) /\ Size("revoke_all") = 5
    /\ \A n \in 1 .. 5 : Order("revoke_all", n)
  <1> DEFINE r == RevokeAllSessions
  <1>1. r \in Seq(Steps) /\ Len(r) = 5
    BY DEF RevokeAllSessions, Steps
  <1>2. /\ r[1] = "resolve" /\ r[2] = "touch" /\ r[3] = "aim_sessions" /\ r[4] = "sweep"
        /\ r[5] = "open"
    BY DEF RevokeAllSessions
  <1>3. Route("revoke_all") = r
    BY RouteOfEach
  <1> HIDE DEF r
  <1>4. Size("revoke_all") = 5
    BY <1>1, <1>3 DEF Size
  <1>5. ASSUME NEW n \in 1 .. 5 PROVE Order("revoke_all", n)
    <2>1. Step("revoke_all", n) = r[6 - n]
      BY <1>3, <1>4 DEF Step
    <2>2. n = 1 \/ n = 2 \/ n = 3 \/ n = 4 \/ n = 5
      OBVIOUS
    <2> QED
      BY <1>2, <1>4, <2>1, <2>2 DEF Order, Signed, Remedies, Sweeping
  <1> QED
    BY <1>1, <1>3, <1>4, <1>5

LEMMA ChangePasswordRuns ==
    /\ Route("change") \in Seq(Steps) /\ Size("change") = 9
    /\ \A n \in 1 .. 9 : Order("change", n)
  <1> DEFINE r == ChangePassword
  <1>1. r \in Seq(Steps) /\ Len(r) = 9
    BY DEF ChangePassword, Steps
  <1>2. /\ r[1] = "resolve" /\ r[2] = "touch" /\ r[3] = "current" /\ r[4] = "rekey"
        /\ r[5] = "aim_links" /\ r[6] = "consume" /\ r[7] = "aim_sessions" /\ r[8] = "sweep"
        /\ r[9] = "open"
    BY DEF ChangePassword
  <1>3. Route("change") = r
    BY RouteOfEach
  <1> HIDE DEF r
  <1>4. Size("change") = 9
    BY <1>1, <1>3 DEF Size
  <1>5. ASSUME NEW n \in 1 .. 9 PROVE Order("change", n)
    <2>1. Step("change", n) = r[10 - n]
      BY <1>3, <1>4 DEF Step
    <2>2. n = 1 \/ n = 2 \/ n = 3 \/ n = 4 \/ n = 5 \/ n = 6 \/ n = 7 \/ n = 8 \/ n = 9
      OBVIOUS
    <2> QED
      BY <1>2, <1>4, <2>1, <2>2 DEF Order, Signed, Remedies, Sweeping
  <1> QED
    BY <1>1, <1>3, <1>4, <1>5

LEMMA LoginRuns ==
    /\ Route("login") \in Seq(Steps) /\ Size("login") = 5
    /\ \A n \in 1 .. 5 : Order("login", n)
  <1> DEFINE r == Login
  <1>1. r \in Seq(Steps) /\ Len(r) = 5
    BY DEF Login, Steps
  <1>2. /\ r[1] = "verify" /\ r[2] = "rekey" /\ r[3] = "present" /\ r[4] = "revoke"
        /\ r[5] = "open"
    BY DEF Login
  <1>3. Route("login") = r
    BY RouteOfEach
  <1> HIDE DEF r
  <1>4. Size("login") = 5
    BY <1>1, <1>3 DEF Size
  <1>5. ASSUME NEW n \in 1 .. 5 PROVE Order("login", n)
    <2>1. Step("login", n) = r[6 - n]
      BY <1>3, <1>4 DEF Step
    <2>2. n = 1 \/ n = 2 \/ n = 3 \/ n = 4 \/ n = 5
      OBVIOUS
    <2> QED
      BY <1>2, <1>4, <2>1, <2>2 DEF Order, Signed, Remedies, Sweeping
  <1> QED
    BY <1>1, <1>3, <1>4, <1>5

LEMMA RequestResetRuns ==
    /\ Route("forgot") \in Seq(Steps) /\ Size("forgot") = 4
    /\ \A n \in 1 .. 4 : Order("forgot", n)
  <1> DEFINE r == RequestReset
  <1>1. r \in Seq(Steps) /\ Len(r) = 4
    BY DEF RequestReset, Steps
  <1>2. /\ r[1] = "find" /\ r[2] = "aim_links" /\ r[3] = "consume" /\ r[4] = "link"
    BY DEF RequestReset
  <1>3. Route("forgot") = r
    BY RouteOfEach
  <1> HIDE DEF r
  <1>4. Size("forgot") = 4
    BY <1>1, <1>3 DEF Size
  <1>5. ASSUME NEW n \in 1 .. 4 PROVE Order("forgot", n)
    <2>1. Step("forgot", n) = r[5 - n]
      BY <1>3, <1>4 DEF Step
    <2>2. n = 1 \/ n = 2 \/ n = 3 \/ n = 4
      OBVIOUS
    <2> QED
      BY <1>2, <1>4, <2>1, <2>2 DEF Order, Signed, Remedies, Sweeping
  <1> QED
    BY <1>1, <1>3, <1>4, <1>5

LEMMA CompleteResetRuns ==
    /\ Route("reset") \in Seq(Steps) /\ Size("reset") = 7
    /\ \A n \in 1 .. 7 : Order("reset", n)
  <1> DEFINE r == CompleteReset
  <1>1. r \in Seq(Steps) /\ Len(r) = 7
    BY DEF CompleteReset, Steps
  <1>2. /\ r[1] = "follow" /\ r[2] = "holder" /\ r[3] = "rekey" /\ r[4] = "aim_links"
        /\ r[5] = "consume" /\ r[6] = "aim_sessions" /\ r[7] = "sweep"
    BY DEF CompleteReset
  <1>3. Route("reset") = r
    BY RouteOfEach
  <1> HIDE DEF r
  <1>4. Size("reset") = 7
    BY <1>1, <1>3 DEF Size
  <1>5. ASSUME NEW n \in 1 .. 7 PROVE Order("reset", n)
    <2>1. Step("reset", n) = r[8 - n]
      BY <1>3, <1>4 DEF Step
    <2>2. n = 1 \/ n = 2 \/ n = 3 \/ n = 4 \/ n = 5 \/ n = 6 \/ n = 7
      OBVIOUS
    <2> QED
      BY <1>2, <1>4, <2>1, <2>2 DEF Order, Signed, Remedies, Sweeping
  <1> QED
    BY <1>1, <1>3, <1>4, <1>5

LEMMA RegisterRuns ==
    /\ Route("register") \in Seq(Steps) /\ Size("register") = 5
    /\ \A n \in 1 .. 5 : Order("register", n)
  <1> DEFINE r == Register
  <1>1. r \in Seq(Steps) /\ Len(r) = 5
    BY DEF Register, RequestReset, Steps
  <1>2. /\ r[1] = "insert" /\ r[2] = "find" /\ r[3] = "aim_links" /\ r[4] = "consume"
        /\ r[5] = "link"
    BY DEF Register, RequestReset
  <1>3. Route("register") = r
    BY RouteOfEach
  <1> HIDE DEF r
  <1>4. Size("register") = 5
    BY <1>1, <1>3 DEF Size
  <1>5. ASSUME NEW n \in 1 .. 5 PROVE Order("register", n)
    <2>1. Step("register", n) = r[6 - n]
      BY <1>3, <1>4 DEF Step
    <2>2. n = 1 \/ n = 2 \/ n = 3 \/ n = 4 \/ n = 5
      OBVIOUS
    <2> QED
      BY <1>2, <1>4, <2>1, <2>2 DEF Order, Signed, Remedies, Sweeping
  <1> QED
    BY <1>1, <1>3, <1>4, <1>5

LEMMA RoutesRun ==
    ASSUME NEW op \in Ops
    PROVE  /\ Route(op) \in Seq(Steps) /\ Size(op) \in Nat \ {0, 1}
           /\ op \in Signed \cap Remedies => Size(op) > Sweeping(op) + 2
           /\ \A n \in 1 .. Size(op) : Order(op, n)
  <1>1. CASE op = "read"
    BY <1>1, ReadSessionRuns DEF Signed, Remedies, Sweeping
  <1>2. CASE op = "logout"
    BY <1>2, LogoutRuns DEF Signed, Remedies, Sweeping
  <1>3. CASE op = "revoke_all"
    BY <1>3, RevokeAllSessionsRuns DEF Signed, Remedies, Sweeping
  <1>4. CASE op = "change"
    BY <1>4, ChangePasswordRuns DEF Signed, Remedies, Sweeping
  <1>5. CASE op = "login"
    BY <1>5, LoginRuns DEF Signed, Remedies, Sweeping
  <1>6. CASE op = "forgot"
    BY <1>6, RequestResetRuns DEF Signed, Remedies, Sweeping
  <1>7. CASE op = "reset"
    BY <1>7, CompleteResetRuns DEF Signed, Remedies, Sweeping
  <1>8. CASE op = "register"
    BY <1>8, RegisterRuns DEF Signed, Remedies, Sweeping
  <1> QED
    BY <1>1, <1>2, <1>3, <1>4, <1>5, <1>6, <1>7, <1>8 DEF Ops

(* What comes next, by what is left, and what is left after it.             *)
LEMMA NextOfTail ==
    ASSUME NEW op \in Ops, NEW todo, IsTail(todo, op), todo # <<>>
    PROVE  /\ Len(todo) \in 1 .. Size(op)
           /\ Head(todo) = Step(op, Len(todo))
           /\ Order(op, Len(todo))
           /\ IsTail(Tail(todo), op) /\ Len(Tail(todo)) = Len(todo) - 1
  <1> DEFINE k == Len(todo)
  <1>1. Size(op) \in Nat /\ todo \in Seq(Steps) /\ k \in Nat /\ k <= Size(op) /\ k # 0
    BY RoutesRun DEF IsTail
  <1>2. Head(todo) = todo[1]
    BY <1>1
  <1>3. todo[1] = Route(op)[Size(op) - k + 1]
    BY <1>1 DEF IsTail
  <1>4. Order(op, k)
    BY <1>1, RoutesRun
  <1>5. /\ Tail(todo) \in Seq(Steps) /\ Len(Tail(todo)) = k - 1
        /\ \A i \in 1 .. k - 1 : Tail(todo)[i] = todo[i + 1]
    BY <1>1
  <1>6. \A i \in 1 .. k - 1 : todo[i + 1] = Route(op)[Size(op) - k + (i + 1)]
    BY <1>1 DEF IsTail
  <1>7. \A i \in 1 .. k - 1 : Size(op) - k + (i + 1) = Size(op) - (k - 1) + i
    BY <1>1
  <1>8. IsTail(Tail(todo), op)
    BY <1>1, <1>5, <1>6, <1>7 DEF IsTail
  <1> QED
    BY <1>1, <1>2, <1>3, <1>4, <1>5, <1>8 DEF Step

(* A statement can be left out.                                             *)
LEMMA NextButOne ==
    ASSUME NEW op \in Ops, NEW todo, IsTail(todo, op), Len(todo) \in Nat \ {0, 1}
    PROVE  IsTail(Tail(Tail(todo)), op) /\ Len(Tail(Tail(todo))) = Len(todo) - 2
  <1> DEFINE rest == Tail(todo)
  <1>1. todo # <<>>
    OBVIOUS
  <1>2. IsTail(rest, op) /\ Len(rest) = Len(todo) - 1
    BY <1>1, NextOfTail
  <1> HIDE DEF rest
  <1>3. rest # <<>>
    BY <1>2
  <1>4. IsTail(Tail(rest), op) /\ Len(Tail(rest)) = Len(rest) - 1
    BY <1>2, <1>3, NextOfTail
  <1>5. Len(rest) - 1 = Len(todo) - 2
    BY <1>2
  <1> QED
    BY <1>4, <1>5 DEF rest

LEMMA RouteIsTail ==
    ASSUME NEW op \in Ops
    PROVE  IsTail(Route(op), op) /\ Len(Route(op)) = Size(op) /\ Route(op) # <<>>
  BY RoutesRun DEF IsTail, Size

LEMMA NothingIsTail ==
    ASSUME NEW op \in Ops
    PROVE  IsTail(<<>>, op) /\ Len(<<>>) = 0
  BY RoutesRun DEF IsTail, Size

(***************************************************************************)
(* What a request has in hand                                              *)
(***************************************************************************)
Fields == {"todo", "req", "who", "via", "seen", "new", "session", "link", "founds", "target",
           "own", "before", "late", "mail", "answered"}

Left(t) == Len(t.todo)

(* The rows there are, or that may be inserted.                             *)
Standing ==
    {UserRow(a) : a \in Addresses} \cup {AddressKey(a) : a \in Addresses}
    \cup {SessionRow(s) : s \in {s \in Sessions : sessions[s] # None}}
    \cup {LinkRow(l) : l \in {l \in Links : links[l] # None}}

(* It follows its route, over rows that stand; those it inserted are none   *)
(* yet.                                                                     *)
Routed(t) ==
    /\ DOMAIN t = Fields
    /\ t.req # None => t.req \in Requests /\ IsTail(t.todo, t.req.op)
    /\ t.own \cup t.target \subseteq Standing
    /\ t.via # None => t.via \in Sessions /\ sessions[t.via] # None
    /\ t.who # None => t.who \in Addresses
    /\ t.session # None => t.who # None /\ t.session \in Sessions /\ sessions[t.session] = None
    /\ t.link # None => t.who # None /\ t.link \in Links /\ links[t.link] = None

(* What it has found by now: the account, and the session to write.         *)
Finds(t) ==
    t.req # None =>
      /\ t.req.op \in Looks \cup {"login"} /\ Left(t) < Size(t.req.op) => t.who # None
      /\ t.req.op \in {"forgot", "register"} /\ Left(t) \in 1 .. 3 => t.who # None
      /\ t.req.op \in Signed /\ Left(t) < Size(t.req.op) => t.via # None
      /\ t.req.op = "login" /\ Left(t) = 2 => t.via # None

(* The sessions it saw are still those of the account it found.             *)
Remembers(t) ==
    /\ t.before # {} => t.req # None /\ t.req.op \in Looks
    /\ \A s \in t.before : s \in Sessions /\ sessions[s] # None /\ sessions[s].user = t.who

(* A remedy that has aimed has each of them in its aim, and one that has    *)
(* swept has written it, unless it is revoked by now.                       *)
Reaches(t) ==
    t.req # None /\ t.req.op \in Remedies =>
      /\ Left(t) = Sweeping(t.req.op) =>
           \A s \in t.before : sessions[s].revoked \/ SessionRow(s) \in t.target
      /\ Left(t) < Sweeping(t.req.op) =>
           \A s \in t.before : sessions[s].revoked \/ SessionRow(s) \in t.own

(* Who came too late has done nothing, and what it presents is still dead.  *)
Waits(t) ==
    t.late => /\ t.req # None /\ t.req.op \in Looks /\ t.todo = Route(t.req.op)
              /\ ~t.answered /\ Spent(t.req)

InHand(t) == Routed(t) /\ Finds(t) /\ Remembers(t) /\ Reaches(t) /\ Waits(t)

Tables ==
    /\ sessions \in [Sessions -> UserSession \cup {None}]
    /\ links \in [Links -> PasswordResetToken \cup {None}]
    /\ DOMAIN tx = Clients

(* No two requests insert one row.                                          *)
Apart ==
    \A c, d \in Clients : c # d =>
      /\ tx[c].session # None => tx[c].session # tx[d].session
      /\ tx[c].link # None => tx[c].link # tx[d].link

IInv == Tables /\ Apart /\ \A c \in Clients : InHand(tx[c])

(***************************************************************************)
(* What the others keep                                                    *)
(***************************************************************************)
(* Rows that stand go on standing, of the same account, and never come back *)
(* from a withdrawal or a deadline.                                         *)
RowsGoOn ==
    /\ \A s \in Sessions : sessions[s] # None =>
         /\ sessions'[s] # None /\ sessions'[s].user = sessions[s].user
         /\ sessions[s].revoked => sessions'[s].revoked
         /\ sessions[s].expired => sessions'[s].expired
    /\ \A l \in Links : links[l] # None =>
         /\ links'[l] # None
         /\ links[l].consumed => links'[l].consumed
         /\ links[l].expired => links'[l].expired

LEMMA RequestsAreShaped ==
    ASSUME NEW req \in Requests
    PROVE  /\ req.op \in Ops
           /\ req.by \in Sessions \cup {None} /\ req.at \in Addresses \cup {None}
           /\ req.link \in Links \cup {None}
           /\ req.op \in {"login", "forgot", "register"} => req.at \in Addresses
           /\ req.op = "reset" => req.link \in Links
  BY AccountsAssumption DEF Request

LEMMA OthersKeepTheirs ==
    ASSUME IInv, RowsGoOn, NEW d \in Clients, tx'[d] = tx[d],
           tx[d].session # None => sessions'[tx[d].session] = None,
           tx[d].link # None => links'[tx[d].link] = None
    PROVE  InHand(tx[d])'
  <1> DEFINE t == tx[d]
  <1>1. InHand(t)
    BY DEF IInv
  <1>2. Standing \subseteq Standing'
    BY DEF Standing, RowsGoOn
  <1>3. Routed(t)'
    BY <1>1, <1>2 DEF InHand, Routed, RowsGoOn
  <1>4. Finds(t)'
    BY <1>1 DEF InHand, Finds, Left
  <1>5. Remembers(t)'
    BY <1>1 DEF InHand, Remembers, RowsGoOn
  <1>6. Reaches(t)'
    BY <1>1 DEF InHand, Reaches, Remembers, RowsGoOn, Left
  <1>7. Waits(t)'
    <2>1. t.late /\ t.req \in Requests => Spent(t.req)'
      BY <1>1, RequestsAreShaped DEF InHand, Waits, Spent, RowsGoOn
    <2> QED
      BY <1>1, <2>1 DEF InHand, Waits, Routed
  <1> QED
    BY <1>3, <1>4, <1>5, <1>6, <1>7 DEF InHand

(* A step that changes no row of a session or a link, and one request.      *)
LEMMA OneMoves ==
    ASSUME IInv, NEW c \in Clients, UNCHANGED <<sessions, links>>,
           tx' = [tx EXCEPT ![c] = tx'[c]],
           InHand(tx'[c]),
           tx'[c].session \in {None, tx[c].session} \cup FreshSessions,
           tx'[c].link \in {None, tx[c].link} \cup FreshLinks
    PROVE  IInv'
  <1>1. DOMAIN tx = Clients
    BY DEF IInv, Tables
  <1>2. \A d \in Clients : d # c => tx'[d] = tx[d]
    BY <1>1
  <1>3. Tables'
    BY <1>1 DEF IInv, Tables
  <1>4. Apart'
    <2>1. \A d \in Clients : d # c /\ tx'[c].session # None => tx'[c].session # tx[d].session
      BY DEF IInv, Apart, FreshSessions
    <2>2. \A d \in Clients : d # c /\ tx'[c].link # None => tx'[c].link # tx[d].link
      BY DEF IInv, Apart, FreshLinks
    <2> QED
      BY <1>2, <2>1, <2>2 DEF IInv, Apart
  <1>5. ASSUME NEW d \in Clients PROVE InHand(tx[d])'
    <2>1. CASE d = c
      <3>1. Standing' = Standing
        BY DEF Standing
      <3>2. Routed(tx[c])' /\ Finds(tx[c])' /\ Remembers(tx[c])' /\ Reaches(tx[c])'
        BY <3>1 DEF InHand, Routed, Finds, Remembers, Reaches, Left
      <3>3. Waits(tx[c])'
        BY DEF InHand, Waits, Spent
      <3> QED
        BY <2>1, <3>2, <3>3 DEF InHand
    <2>2. CASE d # c
      <3>1. RowsGoOn
        BY DEF RowsGoOn
      <3>2. /\ tx[d].session # None => sessions'[tx[d].session] = None
            /\ tx[d].link # None => links'[tx[d].link] = None
        BY DEF IInv, InHand, Routed
      <3> QED
        BY <1>2, <2>2, <3>1, <3>2, OthersKeepTheirs
    <2> QED
      BY <2>1, <2>2
  <1> QED
    BY <1>3, <1>4, <1>5 DEF IInv

LEMMA IdleKeeps ==
    ASSUME IInv, NEW c \in Clients, UNCHANGED <<sessions, links>>, tx' = [tx EXCEPT ![c] = IdleTx]
    PROVE  IInv'
  <1>1. tx'[c] = IdleTx
    BY DEF IInv, Tables
  <1>2. /\ DOMAIN IdleTx = Fields /\ IdleTx.req = None /\ IdleTx.own \cup IdleTx.target = {}
        /\ IdleTx.via = None /\ IdleTx.who = None /\ IdleTx.session = None /\ IdleTx.link = None
        /\ IdleTx.before = {} /\ ~IdleTx.late
    BY DEF IdleTx, Fields
  <1>3. InHand(tx'[c])
    BY <1>1, <1>2 DEF InHand, Routed, Finds, Remembers, Reaches, Waits
  <1> QED
    BY <1>1, <1>2, <1>3, OneMoves

LEMMA LeastIsOne ==
    ASSUME NEW S \in SUBSET Nat, S # {}
    PROVE  Least(S) \in S
  <1> DEFINE Less == OpToRel(<, Nat)
  <1>1. IsWellFoundedOn(Less, Nat)
    BY NatLessThanWellFounded
  <1>2. PICK n \in S : \A m \in S : <<m, n>> \notin Less
    <2> HIDE DEF Less
    <2> QED
      BY <1>1, WFMin
  <1>3. \A m \in S : m < n => <<m, n>> \in Less
    <2> SUFFICES ASSUME NEW m \in S, m < n PROVE <<m, n>> \in Less
      OBVIOUS
    <2>1. <<m, n>> \in Nat \X Nat /\ <<m, n>>[1] = m /\ <<m, n>>[2] = n
      OBVIOUS
    <2>2. Less = {ss \in Nat \X Nat : ss[1] < ss[2]}
      BY Zenon DEF OpToRel
    <2> QED
      BY <2>1, <2>2
  <1>4. \A m \in S : ~(m < n)
    BY <1>2, <1>3
  <1>5. \A m \in S : n <= m
    BY <1>4
  <1> QED
    BY <1>5 DEF Least

(***************************************************************************)
(* The statements                                                          *)
(***************************************************************************)
LEMMA AtAStatement ==
    ASSUME IInv, NEW c \in Clients, NEW step, At(c, step)
    PROVE  /\ InHand(tx[c]) /\ tx[c].req # None
           /\ tx[c].req \in Requests /\ tx[c].req.op \in Ops
           /\ Left(tx[c]) \in 1 .. Size(tx[c].req.op) /\ Size(tx[c].req.op) \in Nat \ {0, 1}
           /\ step = Step(tx[c].req.op, Left(tx[c]))
           /\ Order(tx[c].req.op, Left(tx[c]))
           /\ IsTail(Tail(tx[c].todo), tx[c].req.op)
           /\ Len(Tail(tx[c].todo)) = Left(tx[c]) - 1
  <1> DEFINE t == tx[c]
  <1>1. InHand(t) /\ t.req # None /\ t.todo # <<>> /\ Head(t.todo) = step
    BY DEF At, IInv
  <1>2. t.req \in Requests /\ IsTail(t.todo, t.req.op)
    BY <1>1 DEF InHand, Routed
  <1>3. t.req.op \in Ops
    BY <1>2, RequestsAreShaped
  <1> HIDE DEF t
  <1>4. /\ Len(t.todo) \in 1 .. Size(t.req.op)
        /\ Head(t.todo) = Step(t.req.op, Len(t.todo))
        /\ Order(t.req.op, Len(t.todo))
        /\ IsTail(Tail(t.todo), t.req.op) /\ Len(Tail(t.todo)) = Len(t.todo) - 1
    BY <1>1, <1>2, <1>3, NextOfTail
  <1>5. Size(t.req.op) \in Nat \ {0, 1}
    BY <1>3, RoutesRun
  <1> QED
    BY <1>1, <1>2, <1>3, <1>4, <1>5 DEF Left, t

(* Only the look of a route that looks is met by a request that came late.  *)
LEMMA LateAreAtTheirLook ==
    ASSUME IInv, NEW c \in Clients, NEW step, At(c, step), tx[c].late
    PROVE  step \in {"resolve", "follow"} /\ Spent(tx[c].req)
  <1> DEFINE t == tx[c]
  <1>1. /\ InHand(t) /\ t.req.op \in Ops /\ Order(t.req.op, Left(t)) /\ step = Step(t.req.op, Left(t))
    BY AtAStatement
  <1>2. t.req.op \in Looks /\ t.todo = Route(t.req.op) /\ Spent(t.req)
    BY <1>1 DEF InHand, Waits
  <1>3. Left(t) = Size(t.req.op)
    BY <1>2 DEF Left, Size
  <1> QED
    BY <1>1, <1>2, <1>3 DEF Order, Looks

(* A statement that settles nothing of what is found, and only goes on.     *)
LEMMA GoesOn ==
    ASSUME IInv, NEW c \in Clients, NEW step, At(c, step),
           step \notin {"resolve", "follow", "verify", "present", "find"},
           UNCHANGED <<sessions, links>>, tx' = [tx EXCEPT ![c] = tx'[c]],
           DOMAIN tx'[c] = Fields,
           tx'[c].todo = Tail(tx[c].todo), tx'[c].req = tx[c].req,
           tx'[c].who = tx[c].who, tx'[c].via = tx[c].via, tx'[c].before = tx[c].before,
           tx'[c].late = tx[c].late,
           \/ tx'[c].session = tx[c].session
           \/ tx[c].who # None /\ tx'[c].session \in FreshSessions,
           \/ tx'[c].link = tx[c].link
           \/ tx[c].who # None /\ tx'[c].link \in FreshLinks,
           tx'[c].own \cup tx'[c].target \subseteq Standing,
           Reaches(tx'[c])
    PROVE  IInv'
  <1> DEFINE t == tx[c]
             u == tx'[c]
             op == t.req.op
  <1>1. /\ InHand(t) /\ t.req # None /\ t.req \in Requests /\ op \in Ops
        /\ Left(t) \in 1 .. Size(op) /\ Size(op) \in Nat \ {0, 1}
        /\ step = Step(op, Left(t)) /\ Order(op, Left(t))
        /\ IsTail(u.todo, op) /\ Left(u) = Left(t) - 1
    BY AtAStatement DEF Left
  <1>2. ~u.late
    BY LateAreAtTheirLook
  <1>3. op \in Looks \cup {"login"} => Left(t) < Size(op)
    <2>1. op \in Looks \cup {"login"} => Left(t) # Size(op)
      BY <1>1 DEF Order, Looks
    <2> QED
      BY <1>1, <2>1
  <1>4. op \in {"forgot", "register"} => Left(t) # 4
    BY <1>1 DEF Order
  <1>5. op = "login" => Left(t) # 3
    BY <1>1 DEF Order
  <1>6. Finds(u)
    BY <1>1, <1>3, <1>4, <1>5 DEF InHand, Finds, Looks
  <1>7. Routed(u)
    BY <1>1 DEF InHand, Routed, FreshSessions, FreshLinks
  <1>8. Remembers(u)
    BY <1>1 DEF InHand, Remembers
  <1>9. InHand(u)
    BY <1>2, <1>6, <1>7, <1>8 DEF InHand, Waits
  <1> QED
    BY <1>9, OneMoves

LEMMA ReachesBeforeAndAfter ==
    ASSUME IInv, NEW c \in Clients, NEW step, At(c, step),
           step \notin {"resolve", "follow", "aim_sessions", "sweep"},
           tx'[c].todo = Tail(tx[c].todo), tx'[c].req = tx[c].req, tx'[c].before = tx[c].before,
           tx[c].own \subseteq tx'[c].own
    PROVE  Reaches(tx'[c])
  <1> DEFINE t == tx[c]
             u == tx'[c]
             op == t.req.op
  <1>1. /\ InHand(t) /\ t.req # None /\ op \in Ops
        /\ Left(t) \in 1 .. Size(op)
        /\ step = Step(op, Left(t)) /\ Order(op, Left(t))
        /\ Left(u) = Left(t) - 1
    BY AtAStatement DEF Left
  <1>2. op \in Remedies => Left(t) # Sweeping(op) /\ Left(t) # Sweeping(op) + 1
    BY <1>1 DEF Order
  <1>3. Sweeping(op) \in Nat
    BY DEF Sweeping
  <1>4. op \in Remedies => Left(u) # Sweeping(op)
    BY <1>1, <1>2, <1>3
  <1>5. op \in Remedies /\ Left(u) < Sweeping(op) => Left(t) < Sweeping(op)
    BY <1>1, <1>2, <1>3
  <1>6. op \in Remedies /\ Left(t) < Sweeping(op) =>
          \A s \in t.before : sessions[s].revoked \/ SessionRow(s) \in t.own
    BY <1>1 DEF InHand, Reaches
  <1> QED
    BY <1>4, <1>5, <1>6 DEF Reaches

LEMMA ResolveKeeps ==
    ASSUME IInv, NEW c \in Clients, Resolve(c)
    PROVE  IInv'
  <1> DEFINE t == tx[c]
             s == t.req.by
             op == t.req.op
             v == tx'[c]
             u(aged) == [t EXCEPT !.who = sessions[s].user, !.via = s,
                                  !.seen = accounts[sessions[s].user].password,
                                  !.before = Unrevoked(sessions[s].user),
                                  !.todo = IF aged THEN Tail(@) ELSE Tail(Tail(@))]
  <1>1. /\ At(c, "resolve") /\ InHand(t) /\ t.req # None /\ t.req \in Requests /\ op \in Ops
        /\ Left(t) \in 1 .. Size(op) /\ Size(op) \in Nat \ {0, 1}
        /\ "resolve" = Step(op, Left(t)) /\ Order(op, Left(t))
        /\ IsTail(Tail(t.todo), op) /\ Len(Tail(t.todo)) = Left(t) - 1
    BY AtAStatement DEF Resolve
  <1>2. CASE s = None \/ ~Live(s)
    BY <1>1, <1>2, IdleKeeps DEF Resolve, Rollback, stored
  <1>3. CASE s # None /\ Live(s)
    <2>1. PICK aged \in BOOLEAN : Go(c, u(aged))
      BY <1>3 DEF Resolve
    <2>2. /\ UNCHANGED <<sessions, links>> /\ tx' = [tx EXCEPT ![c] = v] /\ v = u(aged)
      BY <2>1 DEF Go, stored, IInv, Tables
    <2>3. /\ s \in Sessions /\ sessions[s] \in UserSession /\ sessions[s] # None
          /\ ~sessions[s].revoked /\ ~sessions[s].expired
      BY <1>1, <1>3, RequestsAreShaped DEF Live, IInv, Tables
    <2>4. /\ op \in Signed /\ Left(t) = Size(op)
      BY <1>1 DEF Order
    <2>5. ~t.late
      <3> SUFFICES ASSUME t.late PROVE FALSE
        OBVIOUS
      <3>1. Spent(t.req)
        BY <1>1, LateAreAtTheirLook
      <3> QED
        BY <2>3, <2>4, <3>1 DEF Spent, Signed
    <2>6. DOMAIN t = Fields
      BY <1>1 DEF InHand, Routed
    <2>7. /\ DOMAIN v = Fields /\ v.req = t.req /\ v.who = sessions[s].user
          /\ v.via = s /\ v.before = Unrevoked(sessions[s].user)
          /\ v.session = t.session /\ v.link = t.link /\ v.own = t.own
          /\ v.target = t.target /\ v.late = t.late
          /\ v.todo = IF aged THEN Tail(t.todo) ELSE Tail(Tail(t.todo))
      BY <2>2, <2>6 DEF Fields
    <2>8. /\ IsTail(v.todo, op) /\ Left(v) \in {Size(op) - 1, Size(op) - 2}
      <3>1. CASE aged
        BY <1>1, <2>4, <2>7, <3>1 DEF Left
      <3>2. CASE ~aged
        <4>1. IsTail(t.todo, op) /\ Len(t.todo) \in Nat \ {0, 1} /\ Len(t.todo) = Size(op)
          BY <1>1, <2>4 DEF InHand, Routed, Left
        <4>2. IsTail(Tail(Tail(t.todo)), op) /\ Len(Tail(Tail(t.todo))) = Len(t.todo) - 2
          BY <1>1, <4>1, NextButOne
        <4>3. v.todo = Tail(Tail(t.todo))
          BY <2>7, <3>2
        <4> QED
          BY <4>1, <4>2, <4>3 DEF Left
      <3> QED
        BY <3>1, <3>2
    <2>9. sessions[s].user \in Addresses /\ sessions[s].user # None
      BY <2>3, AccountsAssumption DEF UserSession
    <2>10. Routed(v)
      BY <1>1, <2>3, <2>7, <2>8, <2>9 DEF InHand, Routed
    <2>11. Finds(v)
      BY <1>3, <2>7, <2>9 DEF Finds
    <2>12. Remembers(v)
      BY <1>1, <2>4, <2>7 DEF Remembers, Unrevoked, SessionsOf, Looks
    <2>13. Reaches(v)
      <3>1. op \in Remedies => Size(op) > Sweeping(op) + 2
        BY <1>1, <2>4, RoutesRun
      <3>2. Sweeping(op) \in Nat
        BY DEF Sweeping
      <3>3. op \in Remedies => Left(v) > Sweeping(op)
        BY <1>1, <2>8, <3>1, <3>2
      <3> QED
        BY <1>1, <2>7, <2>8, <3>2, <3>3 DEF Reaches
    <2>14. InHand(v)
      BY <2>5, <2>7, <2>10, <2>11, <2>12, <2>13 DEF InHand, Waits
    <2> QED
      BY <2>2, <2>7, <2>14, OneMoves
  <1> QED
    BY <1>2, <1>3

LEMMA VerifyKeeps ==
    ASSUME IInv, NEW c \in Clients, Verify(c)
    PROVE  IInv'
  <1> DEFINE t == tx[c]
             u == tx'[c]
             op == t.req.op
             user == accounts[t.req.at]
  <1>1. /\ InHand(t) /\ t.req # None /\ t.req \in Requests /\ op \in Ops
        /\ Left(t) \in 1 .. Size(op)
        /\ "verify" = Step(op, Left(t)) /\ Order(op, Left(t))
        /\ IsTail(Tail(t.todo), op) /\ Len(Tail(t.todo)) = Left(t) - 1
    BY AtAStatement DEF Verify
  <1>2. op = "login" /\ Left(t) = 5 /\ t.req.at \in Addresses /\ t.req.at # None
    BY <1>1, RequestsAreShaped, AccountsAssumption DEF Order
  <1>3. ~t.late /\ t.before = {}
    BY <1>1, <1>2 DEF InHand, Waits, Remembers, Looks, Signed
  <1>4. CASE user = None \/ user.password # t.req.old \/ user.disabled
    BY <1>4, IdleKeeps DEF Verify, Rollback, stored
  <1>5. CASE ~(user = None \/ user.password # t.req.old \/ user.disabled)
    <2>1. /\ UNCHANGED <<sessions, links>> /\ tx' = [tx EXCEPT ![c] = tx'[c]]
          /\ u = [Done(t) EXCEPT !.who = t.req.at, !.new = IF user.outdated THEN t.req.old ELSE None]
      BY <1>5 DEF Verify, Go, stored, IInv, Tables
    <2>2. /\ DOMAIN u = Fields /\ u.req = t.req /\ u.who = t.req.at /\ u.via = t.via
          /\ u.before = t.before /\ u.session = t.session /\ u.link = t.link /\ u.own = t.own
          /\ u.target = t.target /\ u.late = t.late /\ u.todo = Tail(t.todo)
      BY <1>1, <2>1 DEF Done, InHand, Routed, Fields
    <2>3. Left(u) = 4 /\ IsTail(u.todo, op)
      BY <1>1, <1>2, <2>2 DEF Left
    <2>4. Routed(u)
      BY <1>1, <1>2, <2>2, <2>3 DEF InHand, Routed
    <2>5. Finds(u) /\ Remembers(u) /\ Reaches(u) /\ Waits(u)
      BY <1>2, <1>3, <2>2, <2>3 DEF Finds, Remembers, Reaches, Waits, Looks, Signed, Remedies
    <2> QED
      BY <2>1, <2>2, <2>4, <2>5, OneMoves DEF InHand
  <1> QED
    BY <1>4, <1>5

LEMMA PresentKeeps ==
    ASSUME IInv, NEW c \in Clients, Present(c)
    PROVE  IInv'
  <1> DEFINE t == tx[c]
             u == tx'[c]
             op == t.req.op
  <1>1. /\ InHand(t) /\ t.req # None /\ t.req \in Requests /\ op \in Ops
        /\ Left(t) \in 1 .. Size(op)
        /\ "present" = Step(op, Left(t)) /\ Order(op, Left(t))
        /\ IsTail(Tail(t.todo), op) /\ Len(Tail(t.todo)) = Left(t) - 1
    BY AtAStatement DEF Present
  <1>2. op = "login" /\ Left(t) = 3 /\ Size(op) = 5
    BY <1>1, LoginRuns DEF Order
  <1>3. ~t.late /\ t.before = {} /\ t.who # None
    BY <1>1, <1>2 DEF InHand, Waits, Remembers, Finds, Looks, Signed
  <1>4. DOMAIN t = Fields
    BY <1>1 DEF InHand, Routed
  <1>5. CASE t.req.by # None /\ Live(t.req.by)
    <2>1. /\ UNCHANGED <<sessions, links>> /\ tx' = [tx EXCEPT ![c] = tx'[c]]
          /\ u = [Done(t) EXCEPT !.via = t.req.by]
      BY <1>5 DEF Present, Go, stored, IInv, Tables
    <2>2. /\ DOMAIN u = Fields /\ u.req = t.req /\ u.who = t.who /\ u.via = t.req.by
          /\ u.before = t.before /\ u.session = t.session /\ u.link = t.link /\ u.own = t.own
          /\ u.target = t.target /\ u.late = t.late /\ u.todo = Tail(t.todo)
      BY <1>4, <2>1 DEF Done, Fields
    <2>3. t.req.by \in Sessions /\ sessions[t.req.by] # None
      BY <1>1, <1>5, RequestsAreShaped DEF Live
    <2>4. Left(u) = 2 /\ IsTail(u.todo, op)
      BY <1>1, <1>2, <2>2 DEF Left
    <2>5. Routed(u)
      BY <1>1, <2>2, <2>3, <2>4 DEF InHand, Routed
    <2>6. Finds(u) /\ Remembers(u) /\ Reaches(u) /\ Waits(u)
      BY <1>2, <1>3, <1>5, <2>2, <2>4
         DEF Finds, Remembers, Reaches, Waits, Looks, Signed, Remedies
    <2> QED
      BY <2>1, <2>2, <2>5, <2>6, OneMoves DEF InHand
  <1>6. CASE ~(t.req.by # None /\ Live(t.req.by))
    <2>1. /\ UNCHANGED <<sessions, links>> /\ tx' = [tx EXCEPT ![c] = tx'[c]]
          /\ u = [t EXCEPT !.todo = Tail(Tail(@))]
      BY <1>6 DEF Present, Go, stored, IInv, Tables
    <2>2. /\ DOMAIN u = Fields /\ u.req = t.req /\ u.who = t.who /\ u.via = t.via
          /\ u.before = t.before /\ u.session = t.session /\ u.link = t.link /\ u.own = t.own
          /\ u.target = t.target /\ u.late = t.late /\ u.todo = Tail(Tail(t.todo))
      BY <1>4, <2>1 DEF Fields
    <2>3. IsTail(t.todo, op) /\ Len(t.todo) = 3 /\ Len(t.todo) \in Nat \ {0, 1}
      BY <1>1, <1>2 DEF InHand, Routed, Left
    <2>4. IsTail(Tail(Tail(t.todo)), op) /\ Len(Tail(Tail(t.todo))) = Len(t.todo) - 2
      BY <1>1, <2>3, NextButOne
    <2>5. Left(u) = 1 /\ IsTail(u.todo, op)
      BY <2>2, <2>3, <2>4 DEF Left
    <2>6. Routed(u)
      BY <1>1, <2>2, <2>5 DEF InHand, Routed
    <2>7. Finds(u) /\ Remembers(u) /\ Reaches(u) /\ Waits(u)
      BY <1>2, <1>3, <2>2, <2>5 DEF Finds, Remembers, Reaches, Waits, Looks, Signed, Remedies
    <2> QED
      BY <2>1, <2>2, <2>6, <2>7, OneMoves DEF InHand
  <1> QED
    BY <1>5, <1>6

LEMMA FindKeeps ==
    ASSUME IInv, NEW c \in Clients, Find(c)
    PROVE  IInv'
  <1> DEFINE t == tx[c]
             u == tx'[c]
             op == t.req.op
             user == accounts[t.req.at]
  <1>1. /\ InHand(t) /\ t.req # None /\ t.req \in Requests /\ op \in Ops
        /\ Left(t) \in 1 .. Size(op)
        /\ "find" = Step(op, Left(t)) /\ Order(op, Left(t))
        /\ IsTail(Tail(t.todo), op) /\ Len(Tail(t.todo)) = Left(t) - 1
    BY AtAStatement DEF Find
  <1>2. op \in {"forgot", "register"} /\ Left(t) = 4 /\ t.req.at \in Addresses /\ t.req.at # None
    BY <1>1, RequestsAreShaped, AccountsAssumption DEF Order
  <1>3. ~t.late /\ t.before = {}
    BY <1>1, <1>2 DEF InHand, Waits, Remembers, Looks, Signed
  <1>4. DOMAIN t = Fields
    BY <1>1 DEF InHand, Routed
  <1>5. UNCHANGED <<sessions, links>> /\ tx' = [tx EXCEPT ![c] = tx'[c]]
    BY DEF Find, Go, stored, IInv, Tables
  <1>6. /\ DOMAIN u = Fields /\ u.req = t.req /\ u.via = t.via /\ u.who \in {t.who, t.req.at}
        /\ u.before = t.before /\ u.session = t.session /\ u.link = t.link /\ u.own = t.own
        /\ u.target = t.target /\ u.late = t.late
        /\ \/ u.todo = <<>> /\ u.who = t.who
           \/ u.todo = Tail(t.todo) /\ u.who = t.req.at
    <2>1. CASE Go(c, [t EXCEPT !.todo = <<>>])
      BY <1>4, <2>1 DEF Go, Fields, IInv, Tables
    <2>2. CASE Go(c, [t EXCEPT !.todo = <<>>, !.mail = t.req.op = "forgot"])
      BY <1>4, <2>2 DEF Go, Fields, IInv, Tables
    <2>3. CASE Go(c, [Done(t) EXCEPT !.who = t.req.at, !.mail = TRUE])
      BY <1>4, <2>3 DEF Go, Done, Fields, IInv, Tables
    <2> QED
      BY <2>1, <2>2, <2>3 DEF Find
  <1>7. IsTail(u.todo, op) /\ (Left(u) = 0 \/ (Left(u) = 3 /\ u.who = t.req.at))
    <2>1. Len(Tail(t.todo)) = 3
      BY <1>1, <1>2
    <2>2. CASE u.todo = <<>>
      BY <1>1, <2>2, NothingIsTail DEF Left
    <2>3. CASE u.todo = Tail(t.todo) /\ u.who = t.req.at
      BY <1>1, <2>1, <2>3 DEF Left
    <2> QED
      BY <1>6, <2>2, <2>3
  <1>8. Routed(u)
    BY <1>1, <1>2, <1>6, <1>7 DEF InHand, Routed
  <1>9. Finds(u) /\ Remembers(u) /\ Reaches(u) /\ Waits(u)
    BY <1>2, <1>3, <1>6, <1>7 DEF Finds, Remembers, Reaches, Waits, Looks, Signed, Remedies
  <1> QED
    BY <1>5, <1>6, <1>8, <1>9, OneMoves DEF InHand

LEMMA FollowKeeps ==
    ASSUME IInv, NEW c \in Clients, Follow(c)
    PROVE  IInv'
  <1> DEFINE t == tx[c]
             u == tx'[c]
             op == t.req.op
             l == t.req.link
  <1>1. /\ At(c, "follow") /\ InHand(t) /\ t.req # None /\ t.req \in Requests /\ op \in Ops
        /\ Left(t) \in 1 .. Size(op)
        /\ "follow" = Step(op, Left(t)) /\ Order(op, Left(t))
        /\ IsTail(Tail(t.todo), op) /\ Len(Tail(t.todo)) = Left(t) - 1
    BY AtAStatement DEF Follow
  <1>2. op = "reset" /\ Left(t) = 7 /\ Size(op) = 7 /\ l \in Links
    BY <1>1, RequestsAreShaped, CompleteResetRuns DEF Order
  <1>3. CASE ~Usable(l)
    BY <1>3, IdleKeeps DEF Follow, Rollback, stored
  <1>4. CASE Usable(l)
    <2>1. /\ UNCHANGED <<sessions, links>> /\ tx' = [tx EXCEPT ![c] = tx'[c]]
          /\ u = [Done(t) EXCEPT !.who = links[l].user, !.new = t.req.new,
                                 !.before = Unrevoked(links[l].user)]
      BY <1>4 DEF Follow, Go, stored, IInv, Tables
    <2>2. /\ DOMAIN u = Fields /\ u.req = t.req /\ u.who = links[l].user /\ u.via = t.via
          /\ u.before = Unrevoked(links[l].user) /\ u.session = t.session /\ u.link = t.link
          /\ u.own = t.own /\ u.target = t.target /\ u.late = t.late /\ u.todo = Tail(t.todo)
      BY <1>1, <2>1 DEF Done, InHand, Routed, Fields
    <2>3. ~t.late
      <3>1. t.late => Spent(t.req)
        BY <1>1, LateAreAtTheirLook
      <3> QED
        BY <1>2, <1>4, <3>1 DEF Spent, Usable
    <2>4. links[l].user \in Addresses /\ links[l].user # None
      BY <1>2, <1>4, AccountsAssumption DEF Usable, IInv, Tables, PasswordResetToken
    <2>5. Left(u) = 6 /\ IsTail(u.todo, op)
      BY <1>1, <1>2, <2>2 DEF Left
    <2>6. Routed(u)
      BY <1>1, <2>2, <2>4, <2>5 DEF InHand, Routed
    <2>7. Finds(u) /\ Reaches(u) /\ Waits(u)
      BY <1>2, <2>2, <2>3, <2>4, <2>5 DEF Finds, Reaches, Waits, Signed, Sweeping
    <2>8. Remembers(u)
      BY <1>1, <1>2, <2>2 DEF Remembers, Unrevoked, SessionsOf, Looks
    <2> QED
      BY <2>1, <2>2, <2>6, <2>7, <2>8, OneMoves DEF InHand
  <1> QED
    BY <1>3, <1>4

LEMMA InsertAccountKeeps ==
    ASSUME IInv, NEW c \in Clients, InsertAccount(c)
    PROVE  IInv'
  <1> DEFINE t == tx[c]
             u == tx'[c]
             op == t.req.op
  <1>1. /\ At(c, "insert") /\ InHand(t) /\ t.req # None /\ t.req \in Requests /\ op \in Ops
        /\ Left(t) \in 1 .. Size(op)
        /\ "insert" = Step(op, Left(t)) /\ Order(op, Left(t))
    BY AtAStatement DEF InsertAccount
  <1>2. op = "register" /\ t.req.at \in Addresses /\ t.req.at # None
    BY <1>1, RequestsAreShaped, AccountsAssumption DEF Order
  <1>3. ~t.late /\ t.before = {}
    BY <1>1, <1>2 DEF InHand, Waits, Remembers, Looks, Signed
  <1>4. DOMAIN t = Fields
    BY <1>1 DEF InHand, Routed
  <1>5. UNCHANGED <<sessions, links>> /\ tx' = [tx EXCEPT ![c] = tx'[c]]
    BY DEF InsertAccount, Go, stored, IInv, Tables
  <1>6. CASE accounts[t.req.at] # None
    <2>1. u = Done(t)
      BY <1>6 DEF InsertAccount, Go, IInv, Tables
    <2>2. /\ DOMAIN u = Fields /\ u.req = t.req /\ u.who = t.who /\ u.via = t.via
          /\ u.before = t.before /\ u.session = t.session /\ u.link = t.link /\ u.own = t.own
          /\ u.target = t.target /\ u.late = t.late /\ u.todo = Tail(t.todo)
      BY <1>4, <2>1 DEF Done, Fields
    <2>3. Reaches(u)
      BY <1>1, <2>2, ReachesBeforeAndAfter
    <2>4. u.own \cup u.target \subseteq Standing
      BY <1>1, <2>2 DEF InHand, Routed
    <2> QED
      BY <1>1, <1>5, <2>2, <2>3, <2>4, GoesOn
  <1>7. CASE accounts[t.req.at] = None
    <2>1. PICK mail \in BOOLEAN :
            u = [t EXCEPT !.own = @ \cup Inserted(c), !.who = t.req.at, !.new = t.req.new,
                          !.founds = TRUE, !.todo = <<>>, !.mail = mail]
      BY <1>7 DEF InsertAccount, Go, IInv, Tables
    <2>2. /\ DOMAIN u = Fields /\ u.req = t.req /\ u.who = t.req.at /\ u.via = t.via
          /\ u.before = t.before /\ u.session = t.session /\ u.link = t.link
          /\ u.own = t.own \cup {AddressKey(t.req.at)}
          /\ u.target = t.target /\ u.late = t.late /\ u.todo = <<>>
      BY <1>4, <2>1 DEF Inserted, Fields
    <2>3. IsTail(u.todo, op) /\ Left(u) = 0
      BY <1>1, <2>2, NothingIsTail DEF Left
    <2>4. u.own \cup u.target \subseteq Standing
      BY <1>1, <1>2, <2>2 DEF InHand, Routed, Standing
    <2>5. Routed(u)
      BY <1>1, <1>2, <2>2, <2>3, <2>4 DEF InHand, Routed
    <2>6. Finds(u) /\ Remembers(u) /\ Reaches(u) /\ Waits(u)
      BY <1>2, <1>3, <2>2, <2>3 DEF Finds, Remembers, Reaches, Waits, Looks, Signed, Remedies
    <2> QED
      BY <1>5, <2>2, <2>5, <2>6, OneMoves DEF InHand
  <1> QED
    BY <1>6, <1>7

LEMMA CheckCurrentKeeps ==
    ASSUME IInv, NEW c \in Clients, CheckCurrent(c)
    PROVE  IInv'
  <1> DEFINE t == tx[c]
             u == tx'[c]
  <1>1. At(c, "current") /\ InHand(t) /\ DOMAIN t = Fields /\ t.own \cup t.target \subseteq Standing
    BY AtAStatement DEF CheckCurrent, InHand, Routed
  <1>2. CASE t.seen # t.req.old
    BY <1>2, IdleKeeps DEF CheckCurrent, Rollback, stored
  <1>3. CASE t.seen = t.req.old
    <2>1. /\ UNCHANGED <<sessions, links>> /\ tx' = [tx EXCEPT ![c] = tx'[c]]
          /\ u = [Done(t) EXCEPT !.new = t.req.new]
      BY <1>3 DEF CheckCurrent, Go, stored, IInv, Tables
    <2>2. /\ DOMAIN u = Fields /\ u.req = t.req /\ u.who = t.who /\ u.via = t.via
          /\ u.before = t.before /\ u.session = t.session /\ u.link = t.link /\ u.own = t.own
          /\ u.target = t.target /\ u.late = t.late /\ u.todo = Tail(t.todo)
      BY <1>1, <2>1 DEF Done, Fields
    <2>3. Reaches(u)
      BY <1>1, <2>2, ReachesBeforeAndAfter
    <2> QED
      BY <1>1, <2>1, <2>2, <2>3, GoesOn
  <1> QED
    BY <1>2, <1>3

LEMMA HolderKeeps ==
    ASSUME IInv, NEW c \in Clients, Holder(c)
    PROVE  IInv'
  <1> DEFINE t == tx[c]
             u == tx'[c]
  <1>1. At(c, "holder") /\ InHand(t) /\ DOMAIN t = Fields /\ t.own \cup t.target \subseteq Standing
    BY AtAStatement DEF Holder, InHand, Routed
  <1>2. CASE accounts[t.who].disabled
    BY <1>2, IdleKeeps DEF Holder, Rollback, stored
  <1>3. CASE ~accounts[t.who].disabled
    <2>1. /\ UNCHANGED <<sessions, links>> /\ tx' = [tx EXCEPT ![c] = tx'[c]] /\ u = Done(t)
      BY <1>3 DEF Holder, Go, stored, IInv, Tables
    <2>2. /\ DOMAIN u = Fields /\ u.req = t.req /\ u.who = t.who /\ u.via = t.via
          /\ u.before = t.before /\ u.session = t.session /\ u.link = t.link /\ u.own = t.own
          /\ u.target = t.target /\ u.late = t.late /\ u.todo = Tail(t.todo)
      BY <1>1, <2>1 DEF Done, Fields
    <2>3. Reaches(u)
      BY <1>1, <2>2, ReachesBeforeAndAfter
    <2> QED
      BY <1>1, <2>1, <2>2, <2>3, GoesOn
  <1> QED
    BY <1>2, <1>3

(* An aim takes every session of the account that is not revoked by now.    *)
LEMMA AimKeeps ==
    ASSUME IInv, NEW c \in Clients, Aim(c)
    PROVE  IInv'
  <1> DEFINE t == tx[c]
             u == tx'[c]
             op == t.req.op
             aimed == IF Head(t.todo) = "aim_links"
                      THEN {LinkRow(l) : l \in {l \in LinksOf(t.who) : ~links[l].consumed}}
                      ELSE {SessionRow(s) : s \in Unrevoked(t.who)}
  <1>1. PICK step \in {"aim_links", "aim_sessions"} : At(c, step)
    BY DEF Aim
  <1>2. /\ InHand(t) /\ DOMAIN t = Fields /\ t.own \subseteq Standing
        /\ t.req # None /\ op \in Ops /\ Left(t) \in 1 .. Size(op)
        /\ step = Step(op, Left(t)) /\ Order(op, Left(t)) /\ Len(Tail(t.todo)) = Left(t) - 1
    BY <1>1, AtAStatement DEF InHand, Routed
  <1>3. Head(t.todo) = step
    BY <1>1 DEF At
  <1>4. /\ UNCHANGED <<sessions, links>> /\ tx' = [tx EXCEPT ![c] = tx'[c]]
        /\ u = [Done(t) EXCEPT !.target = aimed]
    BY DEF Aim, Go, stored, IInv, Tables
  <1>5. /\ DOMAIN u = Fields /\ u.req = t.req /\ u.who = t.who /\ u.via = t.via
        /\ u.before = t.before /\ u.session = t.session /\ u.link = t.link /\ u.own = t.own
        /\ u.target = aimed /\ u.late = t.late /\ u.todo = Tail(t.todo)
    BY <1>2, <1>4 DEF Done, Fields
  <1>6. aimed \subseteq Standing
    BY DEF Standing, LinksOf, Unrevoked, SessionsOf
  <1>7. Reaches(u)
    <2>1. CASE step = "aim_links"
      BY <1>1, <1>5, <2>1, ReachesBeforeAndAfter
    <2>2. CASE step = "aim_sessions"
      <3>1. Left(u) = Left(t) - 1
        BY <1>2, <1>5 DEF Left
      <3>2. op \in Remedies => Left(u) = Sweeping(op)
        <4>1. op \in Remedies => Left(t) = Sweeping(op) + 1
          BY <1>2, <2>2 DEF Order
        <4>2. Sweeping(op) \in Nat
          BY DEF Sweeping
        <4> QED
          BY <3>1, <4>1, <4>2
      <3>3. aimed = {SessionRow(s) : s \in Unrevoked(t.who)}
        BY <1>3, <2>2
      <3>4. \A s \in t.before : sessions[s].revoked \/ s \in Unrevoked(t.who)
        BY <1>2 DEF InHand, Remembers, Unrevoked, SessionsOf
      <3>5. \A s \in u.before : sessions[s].revoked \/ SessionRow(s) \in u.target
        BY <1>5, <3>3, <3>4
      <3>6. Sweeping(op) \in Nat
        BY DEF Sweeping
      <3>7. op \in Remedies => ~(Left(u) < Sweeping(op))
        BY <3>2, <3>6
      <3> QED
        BY <1>5, <3>5, <3>7 DEF Reaches
    <2> QED
      BY <2>1, <2>2
  <1> QED
    BY <1>1, <1>2, <1>4, <1>5, <1>6, <1>7, GoesOn

(* What a statement writes is there: it was found before.                   *)
LEMMA NeedsStand ==
    ASSUME IInv, NEW c \in Clients, NEW step, At(c, step)
    PROVE  Needs(c) \subseteq Standing
  <1> DEFINE t == tx[c]
             op == t.req.op
  <1>1. /\ InHand(t) /\ t.req # None /\ t.req \in Requests /\ op \in Ops
        /\ Left(t) \in 1 .. Size(op)
        /\ step = Step(op, Left(t)) /\ Order(op, Left(t)) /\ Head(t.todo) = step
    BY AtAStatement DEF At
  <1>2. \A s : At(c, s) => s = step
    BY <1>1 DEF At
  <1>3. CASE step \in {"touch", "revoke"}
    <2>1. t.via # None
      <3>1. \/ op \in Signed /\ Left(t) # Size(op)
            \/ op = "login" /\ Left(t) = 2
        BY <1>1, <1>3, LogoutRuns DEF Order, Signed
      <3>2. Size(op) \in Nat
        BY <1>1, RoutesRun
      <3>3. \/ op \in Signed /\ Left(t) < Size(op)
            \/ op = "login" /\ Left(t) = 2
        BY <1>1, <3>1, <3>2
      <3> QED
        BY <1>1, <3>3 DEF InHand, Finds
    <2>2. t.via \in Sessions /\ sessions[t.via] # None
      BY <1>1, <2>1 DEF InHand, Routed
    <2>3. Needs(c) = {SessionRow(t.via)}
      BY <1>3 DEF Needs, Touched
    <2> QED
      BY <2>2, <2>3 DEF Standing
  <1>4. CASE step = "rekey"
    <2>1. op \in Looks \cup {"login"} /\ Left(t) < Size(op)
      <3>1. op \in Looks \cup {"login"} /\ Left(t) # Size(op)
        BY <1>1, <1>4 DEF Order, Looks, Signed
      <3>2. Size(op) \in Nat
        BY <1>1, RoutesRun
      <3> QED
        BY <1>1, <3>1, <3>2
    <2>2. t.who \in Addresses
      BY <1>1, <2>1 DEF InHand, Finds, Routed
    <2>3. Needs(c) = {UserRow(t.who)}
      BY <1>2, <1>4 DEF Needs, Rekeyed
    <2> QED
      BY <2>2, <2>3 DEF Standing
  <1>5. CASE step \in {"sweep", "consume"}
    <2>1. Needs(c) = t.target
      BY <1>2, <1>5 DEF Needs, Swept, Consumed
    <2> QED
      BY <1>1, <2>1 DEF InHand, Routed
  <1>6. CASE step = "insert"
    <2>1. Needs(c) = {AddressKey(t.req.at)} /\ op = "register"
      BY <1>1, <1>2, <1>6 DEF Needs, Inserted, Order
    <2>2. t.req.at \in Addresses
      BY <1>1, <2>1, RequestsAreShaped
    <2> QED
      BY <2>1, <2>2 DEF Standing
  <1>7. CASE step \notin {"touch", "revoke", "rekey", "sweep", "consume", "insert"}
    BY <1>2, <1>7 DEF Needs
  <1> QED
    BY <1>3, <1>4, <1>5, <1>6, <1>7

LEMMA WriteKeeps ==
    ASSUME IInv, NEW c \in Clients, NEW step \in {"touch", "rekey", "revoke", "sweep", "consume"},
           Write(c, step)
    PROVE  IInv'
  <1> DEFINE t == tx[c]
             u == tx'[c]
             op == t.req.op
  <1>1. /\ At(c, step) /\ InHand(t) /\ DOMAIN t = Fields /\ t.own \subseteq Standing
        /\ t.req # None /\ op \in Ops /\ Left(t) \in 1 .. Size(op)
        /\ step = Step(op, Left(t)) /\ Order(op, Left(t)) /\ Len(Tail(t.todo)) = Left(t) - 1
    BY AtAStatement DEF Write, InHand, Routed
  <1>2. /\ UNCHANGED <<sessions, links>> /\ tx' = [tx EXCEPT ![c] = tx'[c]]
        /\ u = [Done(t) EXCEPT !.own = @ \cup Needs(c), !.target = {}]
    BY DEF Write, Go, stored, IInv, Tables
  <1>3. /\ DOMAIN u = Fields /\ u.req = t.req /\ u.who = t.who /\ u.via = t.via
        /\ u.before = t.before /\ u.session = t.session /\ u.link = t.link
        /\ u.own = t.own \cup Needs(c) /\ u.target = {} /\ u.late = t.late /\ u.todo = Tail(t.todo)
    BY <1>1, <1>2 DEF Done, Fields
  <1>4. Needs(c) \subseteq Standing
    BY <1>1, NeedsStand
  <1>5. Reaches(u)
    <2>1. CASE step # "sweep"
      BY <1>1, <1>3, <2>1, ReachesBeforeAndAfter
    <2>2. CASE step = "sweep"
      <3>1. Needs(c) = t.target
        BY <1>1, <2>2 DEF Needs, At, Swept
      <3>2. Left(u) = Left(t) - 1 /\ Sweeping(op) \in Nat
        BY <1>1, <1>3 DEF Left, Sweeping
      <3>3. op \in Remedies => Left(t) = Sweeping(op)
        BY <1>1, <2>2 DEF Order
      <3>4. op \in Remedies => \A s \in t.before : sessions[s].revoked \/ SessionRow(s) \in t.target
        BY <1>1, <3>3 DEF InHand, Reaches
      <3> QED
        BY <1>1, <1>3, <3>1, <3>2, <3>3, <3>4 DEF Reaches
    <2> QED
      BY <2>1, <2>2
  <1> QED
    BY <1>1, <1>2, <1>3, <1>4, <1>5, GoesOn

LEMMA InsertLinkKeeps ==
    ASSUME IInv, NEW c \in Clients, InsertLink(c)
    PROVE  IInv'
  <1> DEFINE t == tx[c]
             u == tx'[c]
             op == t.req.op
  <1>1. /\ At(c, "link") /\ InHand(t) /\ DOMAIN t = Fields /\ t.own \cup t.target \subseteq Standing
        /\ t.req # None /\ op \in Ops /\ "link" = Step(op, Left(t)) /\ Order(op, Left(t))
    BY AtAStatement DEF InsertLink, InHand, Routed
  <1>2. t.who # None
    <2>1. op \in {"forgot", "register"} /\ Left(t) \in 1 .. 3
      BY <1>1 DEF Order
    <2> QED
      BY <1>1, <2>1 DEF InHand, Finds
  <1>3. Least(FreshLinks) \in FreshLinks
    BY LeastIsOne, AccountsAssumption DEF InsertLink, FreshLinks
  <1>4. /\ UNCHANGED <<sessions, links>> /\ tx' = [tx EXCEPT ![c] = tx'[c]]
        /\ u = [Done(t) EXCEPT !.link = Least(FreshLinks)]
    BY DEF InsertLink, Go, stored, IInv, Tables
  <1>5. /\ DOMAIN u = Fields /\ u.req = t.req /\ u.who = t.who /\ u.via = t.via
        /\ u.before = t.before /\ u.session = t.session /\ u.link = Least(FreshLinks)
        /\ u.own = t.own /\ u.target = t.target /\ u.late = t.late /\ u.todo = Tail(t.todo)
    BY <1>1, <1>4 DEF Done, Fields
  <1>6. Reaches(u)
    BY <1>1, <1>5, ReachesBeforeAndAfter
  <1> QED
    BY <1>1, <1>2, <1>3, <1>4, <1>5, <1>6, GoesOn

LEMMA IssueSessionKeeps ==
    ASSUME IInv, NEW c \in Clients, IssueSession(c)
    PROVE  IInv'
  <1> DEFINE t == tx[c]
             u == tx'[c]
             op == t.req.op
  <1>1. /\ At(c, "open") /\ InHand(t) /\ DOMAIN t = Fields /\ t.own \cup t.target \subseteq Standing
        /\ t.req # None /\ op \in Ops /\ Size(op) \in Nat \ {0, 1}
        /\ "open" = Step(op, Left(t)) /\ Order(op, Left(t))
    BY AtAStatement DEF IssueSession, InHand, Routed
  <1>2. t.who # None
    <2>1. op \in Looks \cup {"login"} /\ Left(t) < Size(op)
      BY <1>1 DEF Order, Looks, Signed
    <2> QED
      BY <1>1, <2>1 DEF InHand, Finds
  <1>3. Least(FreshSessions) \in FreshSessions
    BY LeastIsOne, AccountsAssumption DEF IssueSession, FreshSessions
  <1>4. /\ UNCHANGED <<sessions, links>> /\ tx' = [tx EXCEPT ![c] = tx'[c]]
        /\ u = [Done(t) EXCEPT !.session = Least(FreshSessions)]
    BY DEF IssueSession, Go, stored, IInv, Tables
  <1>5. /\ DOMAIN u = Fields /\ u.req = t.req /\ u.who = t.who /\ u.via = t.via
        /\ u.before = t.before /\ u.session = Least(FreshSessions) /\ u.link = t.link
        /\ u.own = t.own /\ u.target = t.target /\ u.late = t.late /\ u.todo = Tail(t.todo)
    BY <1>1, <1>4 DEF Done, Fields
  <1>6. Reaches(u)
    BY <1>1, <1>5, ReachesBeforeAndAfter
  <1> QED
    BY <1>1, <1>2, <1>3, <1>4, <1>5, <1>6, GoesOn

(* The answer and the message touch no row.                                 *)
LEMMA AnswersKeep ==
    ASSUME IInv, NEW c \in Clients, Respond(c) \/ Deliver(c)
    PROVE  IInv'
  <1> DEFINE t == tx[c]
             u == tx'[c]
  <1>1. InHand(t) /\ DOMAIN t = Fields /\ t.req # None /\ t.todo = <<>> /\ t.req \in Requests
    BY DEF Respond, Deliver, Ready, IInv, InHand, Routed
  <1>2. /\ UNCHANGED <<sessions, links>> /\ tx' = [tx EXCEPT ![c] = tx'[c]]
        /\ u \in {[t EXCEPT !.answered = TRUE], [t EXCEPT !.mail = FALSE]}
    BY DEF Respond, Deliver, stored, IInv, Tables
  <1>3. /\ DOMAIN u = Fields /\ u.req = t.req /\ u.who = t.who /\ u.via = t.via
        /\ u.before = t.before /\ u.session = t.session /\ u.link = t.link
        /\ u.own = t.own /\ u.target = t.target /\ u.late = t.late /\ u.todo = t.todo
    BY <1>1, <1>2 DEF Fields
  <1>4. ~t.late
    BY <1>1, RequestsAreShaped, RouteIsTail DEF InHand, Waits
  <1>5. InHand(u)
    BY <1>1, <1>3, <1>4 DEF InHand, Routed, Finds, Remembers, Reaches, Waits, Left
  <1> QED
    BY <1>2, <1>3, <1>5, OneMoves

LEMMA BeginKeeps ==
    ASSUME IInv, NEW c \in Clients, NEW req \in Requests, Begin(c, req)
    PROVE  IInv'
  <1> DEFINE u == tx'[c]
  <1>1. /\ UNCHANGED <<sessions, links>> /\ tx' = [tx EXCEPT ![c] = tx'[c]]
        /\ u = [IdleTx EXCEPT !.req = req, !.todo = Route(req.op), !.late = Spent(req)]
    BY DEF Begin, stored, IInv, Tables
  <1>2. /\ DOMAIN u = Fields /\ u.req = req /\ u.todo = Route(req.op) /\ u.who = None /\ u.via = None
        /\ u.before = {} /\ u.session = None /\ u.link = None /\ u.own = {} /\ u.target = {}
        /\ u.late = Spent(req) /\ u.answered = FALSE
    BY <1>1 DEF IdleTx, Fields
  <1>3. req.op \in Ops
    BY RequestsAreShaped
  <1>4. /\ IsTail(u.todo, req.op) /\ Left(u) = Size(req.op)
    BY <1>2, <1>3, RouteIsTail DEF Left
  <1>5. Routed(u) /\ Remembers(u) /\ Reaches(u)
    BY <1>2, <1>4 DEF Routed, Remembers, Reaches
  <1>6. Finds(u)
    <2>1. /\ Size("login") = 5 /\ Size("forgot") = 4 /\ Size("register") = 5
          /\ Size(req.op) \in Nat
      BY <1>3, RoutesRun, LoginRuns, RequestResetRuns, RegisterRuns
    <2> QED
      BY <1>2, <1>4, <2>1 DEF Finds
  <1>7. Waits(u)
    <2>1. Spent(req) => req.op \in Looks
      BY DEF Spent, Looks, Signed
    <2>2. Spent(req) \in BOOLEAN
      BY DEF Spent
    <2>3. u.late => Spent(u.req)
      BY <1>2, <2>2
    <2> QED
      BY <1>2, <2>1, <2>3, RowAssumption DEF Waits
  <1> QED
    BY <1>1, <1>2, <1>5, <1>6, <1>7, OneMoves DEF InHand

(***************************************************************************)
(* What a commit and the passing of time do to the rows                    *)
(***************************************************************************)
LEMMA OwnRowsStand ==
    ASSUME IInv, NEW c \in Clients
    PROVE  /\ \A s \in Sessions : SessionRow(s) \in tx[c].own => sessions[s] # None
           /\ \A l \in Links : LinkRow(l) \in tx[c].own => links[l] # None
  <1>1. tx[c].own \subseteq Standing
    BY DEF IInv, InHand, Routed
  <1>2. \A s \in Sessions : SessionRow(s) \in Standing => sessions[s] # None
    BY DEF Standing, SessionRow, LinkRow, UserRow, AddressKey
  <1>3. \A l \in Links : LinkRow(l) \in Standing => links[l] # None
    BY DEF Standing, SessionRow, LinkRow, UserRow, AddressKey
  <1> QED
    BY <1>1, <1>2, <1>3

(* A commit inserts rows that are none yet, and of those there are sets the *)
(* mark of a withdrawal and moves the idle deadline.                        *)
LEMMA CommitWrites ==
    ASSUME IInv, NEW c \in Clients, Commit(c)
    PROVE  /\ RowsGoOn
           /\ sessions' \in [Sessions -> UserSession \cup {None}]
           /\ links' \in [Links -> PasswordResetToken \cup {None}]
           /\ \A s \in Sessions : sessions[s] = None /\ s # tx[c].session => sessions'[s] = None
           /\ \A l \in Links : links[l] = None /\ l # tx[c].link => links'[l] = None
           /\ \A s \in Sessions :
                SessionRow(s) \in tx[c].own /\ tx[c].req.op # "read" => sessions'[s].revoked
  <1> DEFINE t == tx[c]
  <1>1. /\ InHand(t)
        /\ sessions \in [Sessions -> UserSession \cup {None}]
        /\ links \in [Links -> PasswordResetToken \cup {None}]
    BY DEF IInv, Tables
  <1>2. /\ t.session # None => t.who \in Addresses /\ t.session \in Sessions /\ sessions[t.session] = None
        /\ t.link # None => t.who \in Addresses /\ t.link \in Links /\ links[t.link] = None
    BY <1>1 DEF InHand, Routed
  <1>3. None \notin Sessions /\ None \notin Links /\ None \notin UserSession /\ None \notin PasswordResetToken
    BY AccountsAssumption, RowAssumption
  <1>4. sessions' = SessionsAfter(t) /\ links' = LinksAfter(t)
    BY DEF Commit
  <1>5. ASSUME NEW s \in Sessions
        PROVE  /\ sessions'[s] \in UserSession \cup {None}
               /\ sessions[s] # None =>
                    /\ sessions'[s] # None /\ sessions'[s].user = sessions[s].user
                    /\ sessions[s].revoked => sessions'[s].revoked
                    /\ sessions[s].expired => sessions'[s].expired
               /\ sessions[s] = None /\ s # t.session => sessions'[s] = None
               /\ SessionRow(s) \in t.own /\ t.req.op # "read" => sessions'[s].revoked
    <2>1. CASE s = t.session
      <3>1. /\ sessions[s] = None
            /\ sessions'[s] = [user |-> t.who, revoked |-> FALSE, expired |-> FALSE, idle |-> FALSE]
        BY <1>2, <1>3, <1>4, <2>1 DEF SessionsAfter
      <3>2. sessions'[s] \in UserSession
        BY <1>2, <1>3, <2>1, <3>1 DEF UserSession
      <3>3. SessionRow(s) \notin t.own
        BY <3>1, OwnRowsStand
      <3> QED
        BY <2>1, <3>1, <3>2, <3>3
    <2>2. CASE s # t.session /\ SessionRow(s) \in t.own
      <3>1. sessions[s] # None /\ sessions[s] \in UserSession
        BY <1>1, <2>2, OwnRowsStand
      <3>2. sessions'[s] = SessionAfter(t, s)
        BY <1>4, <2>2 DEF SessionsAfter
      <3>3. /\ SessionAfter(t, s) \in UserSession
            /\ SessionAfter(t, s).user = sessions[s].user
            /\ SessionAfter(t, s).expired = sessions[s].expired
            /\ SessionAfter(t, s).revoked = (sessions[s].revoked \/ t.req.op # "read")
        BY <3>1 DEF SessionAfter, UserSession
      <3> QED
        BY <1>3, <2>2, <3>1, <3>2, <3>3
    <2>3. CASE s # t.session /\ SessionRow(s) \notin t.own
      <3>1. sessions'[s] = sessions[s]
        BY <1>4, <2>3 DEF SessionsAfter
      <3> QED
        BY <1>1, <2>3, <3>1
    <2> QED
      BY <2>1, <2>2, <2>3
  <1>6. ASSUME NEW l \in Links
        PROVE  /\ links'[l] \in PasswordResetToken \cup {None}
               /\ links[l] # None =>
                    /\ links'[l] # None
                    /\ links[l].consumed => links'[l].consumed
                    /\ links[l].expired => links'[l].expired
               /\ links[l] = None /\ l # t.link => links'[l] = None
    <2>1. CASE l = t.link
      <3>1. /\ links[l] = None
            /\ links'[l] = [user |-> t.who, consumed |-> FALSE, expired |-> FALSE]
        BY <1>2, <1>3, <1>4, <2>1 DEF LinksAfter
      <3>2. links'[l] \in PasswordResetToken
        BY <1>2, <1>3, <2>1, <3>1 DEF PasswordResetToken
      <3> QED
        BY <2>1, <3>1, <3>2
    <2>2. CASE l # t.link /\ LinkRow(l) \in t.own
      <3>1. links[l] # None /\ links[l] \in PasswordResetToken
        BY <1>1, <2>2, OwnRowsStand
      <3>2. links'[l] = [links[l] EXCEPT !.consumed = TRUE]
        BY <1>4, <2>2 DEF LinksAfter
      <3>3. /\ links'[l] \in PasswordResetToken
            /\ links'[l].consumed = TRUE /\ links'[l].expired = links[l].expired
        BY <3>1, <3>2 DEF PasswordResetToken
      <3> QED
        BY <1>3, <2>2, <3>1, <3>3
    <2>3. CASE l # t.link /\ LinkRow(l) \notin t.own
      <3>1. links'[l] = links[l]
        BY <1>4, <2>3 DEF LinksAfter
      <3> QED
        BY <1>1, <2>3, <3>1
    <2> QED
      BY <2>1, <2>2, <2>3
  <1>7. DOMAIN sessions' = Sessions /\ sessions' = [s \in Sessions |-> sessions'[s]]
        /\ DOMAIN links' = Links /\ links' = [l \in Links |-> links'[l]]
    BY <1>4 DEF SessionsAfter, LinksAfter
  <1>8. sessions' \in [Sessions -> UserSession \cup {None}]
        /\ links' \in [Links -> PasswordResetToken \cup {None}]
    BY <1>5, <1>6, <1>7
  <1> QED
    BY <1>5, <1>6, <1>8 DEF RowsGoOn

LEMMA CommitKeeps ==
    ASSUME IInv, NEW c \in Clients, Commit(c)
    PROVE  IInv'
  <1>1. /\ RowsGoOn
        /\ sessions' \in [Sessions -> UserSession \cup {None}]
        /\ links' \in [Links -> PasswordResetToken \cup {None}]
        /\ \A s \in Sessions : sessions[s] = None /\ s # tx[c].session => sessions'[s] = None
        /\ \A l \in Links : links[l] = None /\ l # tx[c].link => links'[l] = None
    BY CommitWrites
  <1>2. DOMAIN tx = Clients /\ tx' = [tx EXCEPT ![c] = IdleTx]
    BY DEF IInv, Tables, Commit
  <1>3. tx'[c] = IdleTx /\ \A d \in Clients : d # c => tx'[d] = tx[d]
    BY <1>2
  <1>4. IdleTx.session = None /\ IdleTx.link = None
    BY DEF IdleTx
  <1>5. Tables'
    BY <1>1, <1>2 DEF Tables
  <1>6. Apart'
    BY <1>3, <1>4 DEF IInv, Apart
  <1>7. ASSUME NEW d \in Clients PROVE InHand(tx[d])'
    <2>1. CASE d = c
      <3>1. /\ DOMAIN IdleTx = Fields /\ IdleTx.req = None /\ IdleTx.own \cup IdleTx.target = {}
            /\ IdleTx.via = None /\ IdleTx.who = None
            /\ IdleTx.before = {} /\ ~IdleTx.late
        BY DEF IdleTx, Fields
      <3> QED
        BY <1>3, <1>4, <2>1, <3>1 DEF InHand, Routed, Finds, Remembers, Reaches, Waits
    <2>2. CASE d # c
      <3>1. /\ tx[d].session # None => tx[d].session \in Sessions /\ sessions[tx[d].session] = None
            /\ tx[d].link # None => tx[d].link \in Links /\ links[tx[d].link] = None
        BY DEF IInv, InHand, Routed
      <3>2. /\ tx[d].session # None => tx[d].session # tx[c].session
            /\ tx[d].link # None => tx[d].link # tx[c].link
        BY <2>2 DEF IInv, Apart
      <3>3. /\ tx[d].session # None => sessions'[tx[d].session] = None
            /\ tx[d].link # None => links'[tx[d].link] = None
        BY <1>1, <3>1, <3>2
      <3> QED
        BY <1>1, <1>3, <2>2, <3>3, OthersKeepTheirs
    <2> QED
      BY <2>1, <2>2
  <1> QED
    BY <1>5, <1>6, <1>7 DEF IInv

LEMMA LapseWrites ==
    ASSUME IInv, Lapse
    PROVE  /\ RowsGoOn /\ tx' = tx
           /\ sessions' \in [Sessions -> UserSession \cup {None}]
           /\ links' \in [Links -> PasswordResetToken \cup {None}]
           /\ \A s \in Sessions : sessions[s] = None => sessions'[s] = None
           /\ \A l \in Links : links[l] = None => links'[l] = None
  <1>1. /\ sessions \in [Sessions -> UserSession \cup {None}]
        /\ links \in [Links -> PasswordResetToken \cup {None}]
    BY DEF IInv, Tables
  <1>2. tx' = tx
    BY DEF Lapse
  <1>3. CASE \E s \in Sessions : /\ sessions[s] # None
                                 /\ \/ sessions' = [sessions EXCEPT ![s].expired = TRUE]
                                    \/ sessions' = [sessions EXCEPT ![s].idle = TRUE]
                                 /\ UNCHANGED links
    <2>1. PICK s \in Sessions : /\ sessions[s] # None
                                /\ \/ sessions' = [sessions EXCEPT ![s].expired = TRUE]
                                   \/ sessions' = [sessions EXCEPT ![s].idle = TRUE]
                                /\ UNCHANGED links
      BY <1>3
    <2>2. sessions[s] \in UserSession
      BY <1>1, <2>1
    <2>3. /\ sessions'[s] \in UserSession
          /\ sessions'[s].user = sessions[s].user
          /\ sessions'[s].revoked = sessions[s].revoked
          /\ sessions[s].expired => sessions'[s].expired
      BY <1>1, <2>1, <2>2 DEF UserSession
    <2>4. \A r \in Sessions : r # s => sessions'[r] = sessions[r]
      BY <1>1, <2>1
    <2>5. sessions' \in [Sessions -> UserSession \cup {None}]
      BY <1>1, <2>1, <2>3, <2>4
    <2>6. sessions'[s] # None
      BY <2>3, RowAssumption
    <2> QED
      BY <1>1, <1>2, <2>1, <2>3, <2>4, <2>5, <2>6 DEF RowsGoOn
  <1>4. CASE \E l \in Links : /\ links[l] # None
                              /\ links' = [links EXCEPT ![l].expired = TRUE]
                              /\ UNCHANGED sessions
    <2>1. PICK l \in Links : /\ links[l] # None
                             /\ links' = [links EXCEPT ![l].expired = TRUE]
                             /\ UNCHANGED sessions
      BY <1>4
    <2>2. links[l] \in PasswordResetToken
      BY <1>1, <2>1
    <2>3. /\ links'[l] \in PasswordResetToken
          /\ links'[l].consumed = links[l].consumed
          /\ links[l].expired => links'[l].expired
      BY <1>1, <2>1, <2>2 DEF PasswordResetToken
    <2>4. \A m \in Links : m # l => links'[m] = links[m]
      BY <1>1, <2>1
    <2>5. links' \in [Links -> PasswordResetToken \cup {None}]
      BY <1>1, <2>1, <2>3, <2>4
    <2>6. links'[l] # None
      BY <2>3, RowAssumption
    <2> QED
      BY <1>1, <1>2, <2>1, <2>3, <2>4, <2>5, <2>6 DEF RowsGoOn
  <1> QED
    BY <1>3, <1>4 DEF Lapse

LEMMA TimeKeeps ==
    ASSUME IInv, Lapse \/ UNCHANGED <<sessions, links, tx>>
    PROVE  IInv'
  <1>1. /\ RowsGoOn /\ tx' = tx
        /\ sessions' \in [Sessions -> UserSession \cup {None}]
        /\ links' \in [Links -> PasswordResetToken \cup {None}]
        /\ \A s \in Sessions : sessions[s] = None => sessions'[s] = None
        /\ \A l \in Links : links[l] = None => links'[l] = None
    <2>1. CASE Lapse
      BY <2>1, LapseWrites
    <2>2. CASE UNCHANGED <<sessions, links, tx>>
      BY <2>2 DEF IInv, Tables, RowsGoOn
    <2> QED
      BY <2>1, <2>2
  <1>2. ASSUME NEW d \in Clients PROVE InHand(tx[d])'
    <2>1. /\ tx[d].session # None => tx[d].session \in Sessions /\ sessions[tx[d].session] = None
          /\ tx[d].link # None => tx[d].link \in Links /\ links[tx[d].link] = None
      BY DEF IInv, InHand, Routed
    <2> QED
      BY <1>1, <2>1, OthersKeepTheirs
  <1>3. Tables' /\ Apart'
    BY <1>1 DEF IInv, Tables, Apart
  <1> QED
    BY <1>2, <1>3 DEF IInv

(***************************************************************************)
(* The theorems                                                            *)
(***************************************************************************)
LEMMA InitIsSound == Init => IInv
  <1> SUFFICES ASSUME Init PROVE IInv
    OBVIOUS
  <1>1. Tables
    BY AccountsAssumption DEF Init, Tables, UserSession
  <1>2. \A c \in Clients : tx[c] = IdleTx
    BY DEF Init
  <1>3. /\ DOMAIN IdleTx = Fields /\ IdleTx.req = None /\ IdleTx.own \cup IdleTx.target = {}
        /\ IdleTx.via = None /\ IdleTx.who = None /\ IdleTx.session = None /\ IdleTx.link = None
        /\ IdleTx.before = {} /\ ~IdleTx.late
    BY DEF IdleTx, Fields
  <1>4. Apart
    BY <1>2, <1>3 DEF Apart
  <1>5. \A c \in Clients : InHand(tx[c])
    BY <1>2, <1>3 DEF InHand, Routed, Finds, Remembers, Reaches, Waits
  <1> QED
    BY <1>1, <1>4, <1>5 DEF IInv

LEMMA ServingKeeps ==
    ASSUME IInv, NEW c \in Clients, Serve(c) \/ Interrupt(c)
    PROVE  IInv'
  <1>1. CASE Touch(c) \/ Rekey(c) \/ Revoke(c) \/ RevokeAll(c) \/ InvalidateLinks(c)
    BY <1>1, WriteKeeps DEF Touch, Rekey, Revoke, RevokeAll, InvalidateLinks
  <1>2. CASE DeadlockVictim(c) \/ Interrupt(c)
    BY <1>2, IdleKeeps DEF DeadlockVictim, Interrupt, Rollback, stored
  <1>3. CASE Resolve(c)
    BY <1>3, ResolveKeeps
  <1>4. CASE Verify(c)
    BY <1>4, VerifyKeeps
  <1>5. CASE Present(c)
    BY <1>5, PresentKeeps
  <1>6. CASE CheckCurrent(c)
    BY <1>6, CheckCurrentKeeps
  <1>7. CASE Find(c)
    BY <1>7, FindKeeps
  <1>8. CASE Follow(c)
    BY <1>8, FollowKeeps
  <1>9. CASE Holder(c)
    BY <1>9, HolderKeeps
  <1>10. CASE Aim(c)
    BY <1>10, AimKeeps
  <1>11. CASE InsertAccount(c)
    BY <1>11, InsertAccountKeeps
  <1>12. CASE InsertLink(c)
    BY <1>12, InsertLinkKeeps
  <1>13. CASE IssueSession(c)
    BY <1>13, IssueSessionKeeps
  <1>14. CASE Respond(c) \/ Deliver(c)
    BY <1>14, AnswersKeep
  <1>15. CASE Commit(c)
    BY <1>15, CommitKeeps
  <1> QED
    BY <1>1, <1>2, <1>3, <1>4, <1>5, <1>6, <1>7, <1>8, <1>9, <1>10, <1>11, <1>12, <1>13, <1>14,
       <1>15 DEF Serve

LEMMA NextKeeps == IInv /\ [Next]_vars => IInv'
  <1> SUFFICES ASSUME IInv, [Next]_vars PROVE IInv'
    OBVIOUS
  <1>1. CASE \E c \in Clients : \E req \in Requests : Begin(c, req)
    BY <1>1, BeginKeeps
  <1>2. CASE \E c \in Clients : Serve(c) \/ Interrupt(c)
    BY <1>2, ServingKeeps
  <1>3. CASE Lapse
    BY <1>3, TimeKeeps
  <1>4. CASE (\E a \in Addresses : Disable(a)) \/ Finished \/ UNCHANGED vars
    BY <1>4, TimeKeeps DEF Disable, Finished, vars, stored
  <1> QED
    BY <1>1, <1>2, <1>3, <1>4 DEF Next

LEMMA HandsAreSound == Spec => []IInv
  BY InitIsSound, NextKeeps, PTL DEF Spec

(* Only a commit and the passing of time change the rows of sessions and    *)
(* links; both leave standing rows withdrawn as they were.                  *)
LEMMA RowsAlwaysGoOn == IInv /\ [Next]_vars => RowsGoOn
  <1> SUFFICES ASSUME IInv, [Next]_vars PROVE RowsGoOn
    OBVIOUS
  <1>1. CASE UNCHANGED <<sessions, links>>
    BY <1>1 DEF RowsGoOn
  <1>2. CASE Lapse
    BY <1>2, LapseWrites
  <1>3. CASE \E c \in Clients : Commit(c)
    BY <1>3, CommitWrites
  <1>4. \/ UNCHANGED <<sessions, links>> \/ Lapse \/ \E c \in Clients : Commit(c)
    <2>1. ASSUME NEW c \in Clients, Serve(c) \/ Interrupt(c)
          PROVE  UNCHANGED <<sessions, links>> \/ Commit(c)
      BY <2>1 DEF Serve, Interrupt, Resolve, Verify, Present, CheckCurrent, Find, Follow, Holder, Aim,
                  Touch, Rekey, Revoke, RevokeAll, InvalidateLinks, Write, InsertAccount, InsertLink,
                  IssueSession, Respond, Deliver, DeadlockVictim, Rollback, Go, stored
    <2>2. ASSUME NEW c \in Clients, NEW req \in Requests, Begin(c, req)
          PROVE  UNCHANGED <<sessions, links>>
      BY <2>2 DEF Begin, stored
    <2>3. ASSUME NEW a \in Addresses, Disable(a)
          PROVE  UNCHANGED <<sessions, links>>
      BY <2>3 DEF Disable
    <2>4. Finished \/ UNCHANGED vars => UNCHANGED <<sessions, links>>
      BY DEF Finished, vars, stored
    <2> QED
      BY <2>1, <2>2, <2>3, <2>4 DEF Next
  <1> QED
    BY <1>1, <1>2, <1>3, <1>4

(* A session that was revoked and a link that was consumed never come back, *)
(* whatever request was touching or reading them when that was committed.   *)
THEOREM WithdrawnStaysWithdrawn == Spec => WithdrawnIsFinal
  <1>1. IInv /\ [Next]_vars =>
          [ /\ \A s \in Sessions : sessions[s] # None /\ sessions[s].revoked => sessions'[s].revoked
            /\ \A l \in Links : links[l] # None /\ links[l].consumed => links'[l].consumed ]_vars
    BY RowsAlwaysGoOn DEF RowsGoOn
  <1> QED
    BY <1>1, HandsAreSound, PTL DEF Spec, WithdrawnIsFinal

(* A sign-out everywhere, a change of password and a reset that commit have *)
(* revoked every session the account had when they looked.                  *)
THEOREM RemediesReachAll == Spec => RemediesReachEverySession
  <1> DEFINE Reach ==
        \A c \in Clients :
          tx[c].req # None /\ tx[c].req.op \in Remedies /\ tx[c].answered /\ ~tx[c].mail
             /\ tx'[c].req = None /\ stored' # stored
          => \A s \in tx[c].before : sessions'[s].revoked
  <1>1. IInv /\ [Next]_vars => [Reach]_vars
    <2> SUFFICES ASSUME IInv, Next, NEW c \in Clients,
                        tx[c].req # None, tx[c].req.op \in Remedies, tx[c].answered,
                        tx'[c].req = None, stored' # stored,
                        NEW s \in tx[c].before
                 PROVE  sessions'[s].revoked
      BY DEF vars, stored
    <2>1. Commit(c)
      <3>1. DOMAIN tx = Clients
        BY DEF IInv, Tables
      <3>2. ASSUME NEW d \in Clients, Serve(d) \/ Interrupt(d) PROVE Commit(d)
        BY <3>2 DEF Serve, Interrupt, Resolve, Verify, Present, CheckCurrent, Find, Follow, Holder, Aim,
                    Touch, Rekey, Revoke, RevokeAll, InvalidateLinks, Write, InsertAccount, InsertLink,
                    IssueSession, Respond, Deliver, DeadlockVictim, Rollback, Go
      <3>3. ASSUME NEW d \in Clients, Commit(d) PROVE d = c
        BY <3>1, <3>3 DEF Commit
      <3>4. ~Lapse /\ ~\E a \in Addresses : Disable(a)
        BY DEF Lapse, Disable
      <3>5. ~Finished
        BY DEF Finished, vars
      <3>6. ~\E d \in Clients : \E req \in Requests : Begin(d, req)
        BY DEF Begin
      <3> QED
        BY <3>2, <3>3, <3>4, <3>5, <3>6 DEF Next
    <2>2. InHand(tx[c]) /\ tx[c].todo = <<>>
      BY <2>1 DEF IInv, Commit, Ready
    <2>3. s \in Sessions /\ sessions[s] # None
      BY <2>2 DEF InHand, Remembers
    <2>4. sessions[s].revoked \/ SessionRow(s) \in tx[c].own
      <3>1. Left(tx[c]) = 0 /\ Sweeping(tx[c].req.op) > 0
        BY <2>2 DEF Left, Sweeping
      <3> QED
        BY <2>2, <3>1 DEF InHand, Reaches
    <2>5. tx[c].req.op # "read"
      BY DEF Remedies
    <2> QED
      BY <2>1, <2>3, <2>4, <2>5, CommitWrites DEF RowsGoOn
  <1> QED
    BY <1>1, HandsAreSound, PTL DEF Spec, RemediesReachEverySession

(* A request that began with a cookie or a link that was revoked, consumed  *)
(* or past its deadline never gets an answer that is not a refusal.         *)
THEOREM DeadCredentialsGetNothing == Spec => DeadCredentialsOpenNothing
  <1>1. IInv /\ [Next]_vars => [\A c \in Clients : tx[c].late => ~tx'[c].answered]_vars
    <2> SUFFICES ASSUME IInv, Next, NEW c \in Clients, tx[c].late PROVE ~tx'[c].answered
      OBVIOUS
    <2>1. DOMAIN tx = Clients /\ InHand(tx[c]) /\ ~tx[c].answered /\ tx[c].req # None
      BY DEF IInv, Tables, InHand, Waits
    <2>2. tx[c].todo # <<>>
      BY <2>1, RequestsAreShaped, RouteIsTail DEF InHand, Waits, Routed
    <2>3. CASE tx'[c].answered = tx[c].answered
      BY <2>1, <2>3
    <2>4. CASE tx' = [tx EXCEPT ![c] = IdleTx]
      BY <2>1, <2>4 DEF IdleTx
    <2>5. ASSUME NEW d \in Clients, Serve(d) \/ Interrupt(d)
          PROVE  tx'[c].answered = tx[c].answered \/ tx' = [tx EXCEPT ![c] = IdleTx]
      <3>1. CASE d # c
        <4>1. tx'[c] = tx[c]
          BY <2>1, <2>5, <3>1
             DEF Serve, Interrupt, Resolve, Verify, Present, CheckCurrent, Find, Follow, Holder, Aim,
                 Touch, Rekey, Revoke, RevokeAll, InvalidateLinks, Write, InsertAccount, InsertLink,
                 IssueSession, Respond, Deliver, DeadlockVictim, Rollback, Go, Commit
        <4> QED
          BY <4>1
      <3>2. CASE d = c
        <4>1. ~Respond(c) /\ ~Deliver(c) /\ ~Commit(c)
          BY <2>2 DEF Respond, Deliver, Commit, Ready
        <4>2. \A step : At(c, step) => step \in {"resolve", "follow"}
          BY LateAreAtTheirLook
        <4>3. CASE Resolve(c)
          <5>1. At(c, "resolve")
            BY <4>3 DEF Resolve
          <5>2. Spent(tx[c].req) /\ tx[c].req.op \in Signed
            BY <5>1, LateAreAtTheirLook, AtAStatement DEF Order
          <5>3. tx[c].req.by = None \/ ~Live(tx[c].req.by)
            BY <5>2 DEF Spent, Live, Signed
          <5> QED
            BY <4>3, <5>3 DEF Resolve, Rollback
        <4>4. CASE Follow(c)
          <5>1. At(c, "follow")
            BY <4>4 DEF Follow
          <5>2. Spent(tx[c].req) /\ tx[c].req.op = "reset"
            BY <5>1, LateAreAtTheirLook, AtAStatement DEF Order
          <5>3. ~Usable(tx[c].req.link)
            BY <5>2 DEF Spent, Usable
          <5> QED
            BY <4>4, <5>3 DEF Follow, Rollback
        <4>5. CASE DeadlockVictim(c) \/ Interrupt(c)
          BY <4>5 DEF DeadlockVictim, Interrupt, Rollback
        <4>6. ~Verify(c) /\ ~Present(c) /\ ~CheckCurrent(c) /\ ~Find(c) /\ ~Holder(c) /\ ~Aim(c)
          BY <4>2 DEF Verify, Present, CheckCurrent, Find, Holder, Aim
        <4>7. ~Touch(c) /\ ~Rekey(c) /\ ~Revoke(c) /\ ~RevokeAll(c) /\ ~InvalidateLinks(c)
          BY <4>2 DEF Touch, Rekey, Revoke, RevokeAll, InvalidateLinks, Write
        <4>8. ~InsertAccount(c) /\ ~InsertLink(c) /\ ~IssueSession(c)
          <5>1. InsertAccount(c) => At(c, "insert")
            BY DEF InsertAccount
          <5>2. InsertLink(c) => At(c, "link")
            BY DEF InsertLink
          <5>3. IssueSession(c) => At(c, "open")
            BY DEF IssueSession
          <5> QED
            BY <4>2, <5>1, <5>2, <5>3
        <4> QED
          BY <2>5, <3>2, <4>1, <4>3, <4>4, <4>5, <4>6, <4>7, <4>8 DEF Serve
      <3> QED
        BY <3>1, <3>2
    <2>6. ASSUME NEW d \in Clients, NEW req \in Requests, Begin(d, req)
          PROVE  tx'[c].answered = tx[c].answered
      BY <2>1, <2>6 DEF Begin
    <2>7. Lapse \/ (\E a \in Addresses : Disable(a)) \/ Finished => tx' = tx
      BY DEF Lapse, Disable, Finished, vars
    <2> QED
      BY <2>3, <2>4, <2>5, <2>6, <2>7 DEF Next
  <1> QED
    BY <1>1, HandsAreSound, PTL DEF Spec, DeadCredentialsOpenNothing
=============================================================================
