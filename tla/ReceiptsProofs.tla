--------------------------- MODULE ReceiptsProofs ---------------------------
(***************************************************************************)
(* For any clients, receipts, files, lines, products and requests: a       *)
(* receipt and its lines tell one story, the stock included.  What keeps   *)
(* them together is who may write a receipt: one transaction at a time,    *)
(* and of a row that is there.                                             *)
(***************************************************************************)
EXTENDS Receipts, FiniteSetTheorems, TLAPS

Intake == [line : LineNos, product : Products \cup {None}, new : BOOLEAN]

Phases == {"idle", "digest", "read", "require", "load", "line", "find", "stock", "mark",
           "settle", "erase", "cascade", "commit"}

Transaction ==
    [phase : Phases, req : Requests \cup {None}, id : Ids \cup {None}, todo : Seq(Decision),
     lines : SUBSET LineNos, kept : SUBSET LineNos, product : Products \cup {None},
     found : BOOLEAN, made : SUBSET Products, stocked : SUBSET Intake, marked : SUBSET LineNos,
     wrote : {"insert", "confirm", "delete", None}]

Types ==
    /\ receipts \in [Ids -> Row \cup {None, Gone}]
    /\ products \subseteq Products
    /\ shelf \in [Products -> Nat]
    /\ intakes \in [Ids -> [LineNos -> Nat]]
    /\ tx \in [Clients -> Transaction]
    /\ \A c \in Clients : IsFiniteSet(tx[c].stocked)

Confirming == {"load", "line", "find", "stock", "mark", "settle"}

(* What a transaction knows of the receipt it is about: that it was stored  *)
(* once, that its own lines are all of them while it still is, and that it  *)
(* is in the state it was written from.                                     *)
Knows(t) ==
    /\ t.phase = "idle" => t = IdleTx
    /\ t.phase \in {"digest", "read"} => t.id = None /\ t.req.file \in Files
    /\ t.phase \in {"require", "erase"} \cup Confirming => t.id \in Ids
    /\ t.phase \in {"erase"} \cup Confirming => receipts[t.id] # None
    /\ t.phase \in {"find", "stock", "mark"} => t.todo # <<>> /\ Head(t.todo).line \in LineNos
    /\ t.phase \in Confirming \ {"load"} /\ Stored(t.id) => t.lines = LineNos
    /\ t.wrote # None => t.id \in Ids /\ t.phase \in {"cascade", "commit"}
    /\ t.wrote = "insert" => receipts[t.id] = None /\ t.req.file \in Files
    /\ t.wrote \in {"confirm", "delete"} => Stored(t.id)
    /\ t.wrote = "confirm" => t.lines = LineNos
    /\ t.stocked # {} => t.phase \in Confirming \ {"load"} \/ t.wrote = "confirm"
    /\ t.phase = "cascade" => t.wrote = "delete"

(* At most one transaction has written a receipt.                           *)
Apart(c, d) == tx[c].wrote # None /\ tx[d].wrote # None => tx[c].id # tx[d].id

NothingWithoutAReceipt ==
    \A r \in Ids : receipts[r] = None => \A n \in LineNos : intakes[r][n] = 0

IInv ==
    /\ Types
    /\ \A c \in Clients : Knows(tx[c])
    /\ \A c, d \in Clients : c # d => Apart(c, d)
    /\ NothingWithoutAReceipt
    /\ LinesFollowTheReceipt

-----------------------------------------------------------------------------
LEMMA InitEstablishes == Init => IInv
  <1> SUFFICES ASSUME Init PROVE IInv
    OBVIOUS
  <1> USE ReceiptsAssumption
  <1>1. IdleTx \in Transaction /\ IsFiniteSet(IdleTx.stocked)
    BY FS_EmptySet DEF IdleTx, Transaction, Phases
  <1>2. Types
    BY <1>1 DEF Init, Types, Products
  <1>3. ASSUME NEW c \in Clients PROVE Knows(tx[c])
    BY DEF Init, Knows, IdleTx, Confirming
  <1>4. ASSUME NEW c \in Clients, NEW d \in Clients PROVE Apart(c, d)
    BY DEF Init, Apart, IdleTx
  <1>5. NothingWithoutAReceipt
    BY DEF Init, NothingWithoutAReceipt
  <1>6. LinesFollowTheReceipt
    BY DEF Init, LinesFollowTheReceipt, ParsedIsUnstocked, ConfirmedIsDecided, Stored, Confirmed
  <1> QED
    BY <1>2, <1>3, <1>4, <1>5, <1>6 DEF IInv

-----------------------------------------------------------------------------
(* Steps that commit nothing: only the transaction of one client moves.     *)
Local(c) ==
    /\ UNCHANGED <<receipts, products, shelf, intakes>>
    /\ \A d \in Clients : d # c => tx'[d] = tx[d]
    /\ tx' = [tx EXCEPT ![c] = tx'[c]]

LEMMA LocalStep ==
    ASSUME IInv, NEW c \in Clients, Local(c),
           tx'[c] \in Transaction, IsFiniteSet(tx'[c].stocked), Knows(tx[c])',
           \A d \in Clients : d # c => Apart(c, d)'
    PROVE  IInv'
  <1>1. Types'
    BY DEF IInv, Types, Local
  <1>2. ASSUME NEW d \in Clients PROVE Knows(tx[d])'
    BY DEF IInv, Local, Knows, Stored
  <1>3. ASSUME NEW d \in Clients, NEW e \in Clients, d # e PROVE Apart(d, e)'
    BY <1>3 DEF IInv, Local, Apart
  <1>4. NothingWithoutAReceipt'
    BY DEF IInv, Local, NothingWithoutAReceipt
  <1>5. LinesFollowTheReceipt'
    BY DEF IInv, Local, LinesFollowTheReceipt, ParsedIsUnstocked, ConfirmedIsDecided, Stored,
           Confirmed
  <1> QED
    BY <1>1, <1>2, <1>3, <1>4, <1>5 DEF IInv

(* A step that writes no receipt.                                           *)
LEMMA GoStep ==
    ASSUME IInv, NEW c \in Clients, NEW t \in Transaction, IsFiniteSet(t.stocked), Knows(t),
           Go(c, t), t.wrote # None => t.wrote = tx[c].wrote /\ t.id = tx[c].id
    PROVE  IInv'
  <1>1. Local(c) /\ tx'[c] = t
    BY DEF Go, Local, IInv, Types
  <1>2. Knows(tx[c])'
    BY <1>1 DEF Local, Knows, Stored
  <1>3. ASSUME NEW d \in Clients, d # c PROVE Apart(c, d)'
    BY <1>1, <1>3 DEF IInv, Apart, Local
  <1> QED
    BY <1>1, <1>2, <1>3, LocalStep

LEMMA RollbackStep ==
    ASSUME IInv, NEW c \in Clients, NEW outcome, NEW named, Rollback(c, outcome, named)
    PROVE  IInv'
  <1> USE ReceiptsAssumption
  <1>1. Local(c) /\ tx'[c] = IdleTx
    BY DEF Rollback, Local, IInv, Types
  <1>2. IdleTx \in Transaction /\ IsFiniteSet(IdleTx.stocked)
    BY FS_EmptySet DEF IdleTx, Transaction, Phases
  <1>3. Knows(tx[c])'
    BY <1>1 DEF Knows, IdleTx, Confirming
  <1>4. ASSUME NEW d \in Clients PROVE Apart(c, d)'
    BY <1>1 DEF Apart, IdleTx
  <1> QED
    BY <1>1, <1>2, <1>3, <1>4, LocalStep

-----------------------------------------------------------------------------
LEMMA DecisionsAreTyped ==
    ASSUME NEW s \in Seq(Decision), s # <<>>
    PROVE  Head(s) \in Decision /\ Tail(s) \in Seq(Decision)
  OBVIOUS

LEMMA FirstOf ==
    ASSUME NEW req \in Requests
    PROVE  /\ req.decisions \in Seq(Decision) /\ req.id \in Ids \cup {None}
           /\ First(req.op) \in {"digest", "require"}
           /\ First(req.op) = "digest" => req.file \in Files /\ req.id = None
           /\ First(req.op) = "require" => req.id \in Ids
  <1>1. CASE \E file \in Files : req = Import(file)
    BY <1>1 DEF Import, First
  <1>2. CASE \E r \in Ids : req = Discard(r)
    BY <1>2 DEF Discard, First
  <1>3. CASE /\ req.id \in Ids /\ req.decisions \in Seq(Decision)
             /\ req = Confirm(req.id, req.decisions)
    BY <1>3 DEF Confirm, First
  <1> QED
    BY <1>1, <1>2, <1>3, ReceiptsAssumption

LEMMA BeginStep ==
    ASSUME IInv, NEW c \in Clients, NEW req \in Requests, Begin(c, req)
    PROVE  IInv'
  <1> USE ReceiptsAssumption
  <1> DEFINE t == [IdleTx EXCEPT !.phase = First(req.op), !.req = req, !.id = req.id,
                                 !.todo = req.decisions]
  <1>1. Local(c) /\ tx'[c] = t
    BY DEF Begin, Local, IInv, Types
  <1>2. t \in Transaction /\ IsFiniteSet(t.stocked)
    BY FirstOf, FS_EmptySet DEF IdleTx, Transaction, Phases
  <1>3. Knows(tx[c])'
    BY <1>1, FirstOf DEF Knows, IdleTx, Confirming
  <1>4. ASSUME NEW d \in Clients PROVE Apart(c, d)'
    BY <1>1 DEF Apart, IdleTx
  <1> QED
    BY <1>1, <1>2, <1>3, <1>4, LocalStep

(* Reading a file in.                                                       *)
LEMMA ImportStep ==
    ASSUME IInv, NEW c \in Clients, CheckDigest(c) \/ ReadFails(c) \/ Store(c)
    PROVE  IInv'
  <1> USE ReceiptsAssumption
  <1> DEFINE t == tx[c]
  <1>1. t \in Transaction /\ IsFiniteSet(t.stocked) /\ Knows(t)
    BY DEF IInv, Types
  <1>2. CASE CheckDigest(c)
    <2>1. CASE Go(c, [t EXCEPT !.phase = "read"])
      <3>1. [t EXCEPT !.phase = "read"] \in Transaction
        BY <1>1 DEF Transaction, Phases
      <3>2. Knows([t EXCEPT !.phase = "read"])
        BY <1>1, <1>2 DEF Knows, CheckDigest, Transaction, Confirming
      <3> QED
        BY <1>1, <2>1, <3>1, <3>2, GoStep DEF Transaction
    <2> QED
      BY <1>2, <2>1, RollbackStep DEF CheckDigest
  <1>3. CASE ReadFails(c)
    BY <1>3, RollbackStep DEF ReadFails
  <1>4. CASE Store(c)
    <2>1. CASE \E r \in Ids : Stored(r) /\ receipts[r].file = t.req.file
      BY <1>4, <2>1, RollbackStep DEF Store
    <2>2. CASE ~\E r \in Ids : Stored(r) /\ receipts[r].file = t.req.file
      <3>1. PICK r \in Ids : /\ receipts[r] = None /\ \A d \in Clients : tx[d].id # r
                             /\ Go(c, [t EXCEPT !.id = r, !.wrote = "insert", !.phase = "commit"])
        BY <1>4, <2>2 DEF Store
      <3> DEFINE u == [t EXCEPT !.id = r, !.wrote = "insert", !.phase = "commit"]
      <3>2. Local(c) /\ tx'[c] = u
        BY <3>1 DEF Go, Local, IInv, Types
      <3>3. u \in Transaction /\ u.stocked = t.stocked
        BY <1>1 DEF Transaction, Phases
      <3>4. Knows(tx[c])'
        BY <1>1, <1>4, <3>1, <3>2 DEF Knows, Store, Transaction, Confirming, Local, Stored
      <3>5. ASSUME NEW d \in Clients, d # c PROVE Apart(c, d)'
        BY <3>1, <3>2, <3>5 DEF Apart, Local, Transaction
      <3> QED
        BY <1>1, <3>2, <3>3, <3>4, <3>5, LocalStep
    <2> QED
      BY <2>1, <2>2
  <1> QED
    BY <1>2, <1>3, <1>4

(* Reviewing a confirmation, before anything is put in stock.               *)
LEMMA ReviewStep ==
    ASSUME IInv, NEW c \in Clients,
           Require(c) \/ LoadLines(c) \/ DropDecision(c) \/ ResolveTarget(c) \/ FindLot(c)
    PROVE  IInv'
  <1> USE ReceiptsAssumption
  <1> DEFINE t == tx[c]
  <1>1. t \in Transaction /\ IsFiniteSet(t.stocked) /\ Knows(t)
    BY DEF IInv, Types
  <1>2. CASE Require(c)
    <2> DEFINE u == [t EXCEPT !.phase = IF t.req.op = "confirm" THEN "load" ELSE "erase"]
    <2>1. CASE Stored(t.id) /\ Go(c, u)
      <3>1. u \in Transaction /\ u.stocked = t.stocked /\ u.wrote = t.wrote /\ u.id = t.id
        BY <1>1 DEF Transaction, Phases
      <3>2. Knows(u)
        BY <1>1, <1>2, <2>1 DEF Knows, Require, Transaction, Confirming, Stored
      <3> QED
        BY <1>1, <2>1, <3>1, <3>2, GoStep
    <2> QED
      BY <1>2, <2>1, RollbackStep DEF Require
  <1>3. CASE LoadLines(c)
    <2> DEFINE u == [t EXCEPT !.lines = IF Stored(t.id) THEN LineNos ELSE {}, !.phase = "line"]
    <2>1. u \in Transaction /\ u.stocked = t.stocked /\ u.wrote = t.wrote /\ u.id = t.id
      BY <1>1 DEF Transaction, Phases
    <2>2. Knows(u)
      BY <1>1, <1>3 DEF Knows, LoadLines, Transaction, Confirming, Stored
    <2> QED
      BY <1>1, <1>3, <2>1, <2>2, GoStep DEF LoadLines
  <1>4. CASE DropDecision(c)
    <2> DEFINE u == [t EXCEPT !.todo = Tail(t.todo)]
    <2>1. u \in Transaction /\ u.stocked = t.stocked /\ u.wrote = t.wrote /\ u.id = t.id
      BY <1>1, <1>4, DecisionsAreTyped DEF Transaction, Phases, DropDecision
    <2>2. Knows(u)
      BY <1>1, <1>4 DEF Knows, DropDecision, Transaction, Confirming, Stored
    <2> QED
      BY <1>1, <1>4, <2>1, <2>2, GoStep DEF DropDecision
  <1>5. CASE ResolveTarget(c)
    <2> DEFINE decision == Head(t.todo)
               next == IF decision.gives = "nothing" THEN "mark" ELSE "find"
               Resolved(p, made) ==
                  [t EXCEPT !.phase = next, !.product = p, !.made = made,
                            !.kept = t.kept \cup {decision.line}]
    <2>1. decision \in Decision /\ decision.line \in LineNos /\ t.todo # <<>>
      BY <1>1, <1>5, DecisionsAreTyped DEF ResolveTarget, Dropped, Transaction
    <2>2. ASSUME NEW p \in Products, NEW made \in SUBSET Products, Go(c, Resolved(p, made))
          PROVE  IInv'
      <3> DEFINE u == Resolved(p, made)
      <3>1. u \in Transaction /\ u.stocked = t.stocked /\ u.wrote = t.wrote /\ u.id = t.id
        BY <1>1, <2>1 DEF Transaction, Phases
      <3>2. Knows(u)
        BY <1>1, <1>5, <2>1 DEF Knows, ResolveTarget, Transaction, Confirming, Stored
      <3> QED
        BY <1>1, <2>2, <3>1, <3>2, GoStep
    <2>3. CASE decision.name = Unknown
      BY <1>5, <2>3, RollbackStep DEF ResolveTarget
    <2>4. CASE decision.name # Unknown /\ {p \in Visible(c) : p[1] = decision.name} # {}
      <3>1. PICK p \in Visible(c) :
                Go(c, [t EXCEPT !.phase = next, !.product = p, !.kept = @ \cup {decision.line}])
        BY <1>5, <2>4 DEF ResolveTarget
      <3>2. p \in Products /\ t.made \in SUBSET Products
        BY <1>1 DEF Visible, IInv, Types, Transaction
      <3>3. [t EXCEPT !.phase = next, !.product = p, !.kept = @ \cup {decision.line}]
              = Resolved(p, t.made)
        BY <1>1 DEF Transaction
      <3> QED
        BY <2>2, <3>1, <3>2, <3>3
    <2>5. CASE decision.name # Unknown /\ {p \in Visible(c) : p[1] = decision.name} = {}
      <3> DEFINE p == <<decision.name, c>>
      <3>1. p \in Products /\ t.made \cup {p} \in SUBSET Products
        BY <1>1, <2>1, <2>5 DEF Products, Decision, Transaction
      <3>2. Go(c, Resolved(p, t.made \cup {p}))
        BY <1>5, <2>5 DEF ResolveTarget
      <3> QED
        BY <2>2, <3>1, <3>2
    <2> QED
      BY <2>3, <2>4, <2>5
  <1>6. CASE FindLot(c)
    <2> DEFINE found == shelf[t.product] > 0 \/ HoldsLot(c, t.product)
               u == [t EXCEPT !.phase = "stock", !.found = found]
    <2>1. CASE Go(c, u)
      <3>0. found \in BOOLEAN
        BY Zenon
      <3>1. u \in Transaction /\ u.stocked = t.stocked /\ u.wrote = t.wrote /\ u.id = t.id
        BY <1>1, <3>0 DEF Transaction, Phases
      <3>2. Knows(u)
        BY <1>1, <1>6 DEF Knows, FindLot, Transaction, Confirming, Stored
      <3> QED
        BY <1>1, <2>1, <3>1, <3>2, GoStep
    <2> QED
      BY <1>6, <2>1, RollbackStep DEF FindLot
  <1> QED
    BY <1>2, <1>3, <1>4, <1>5, <1>6

-----------------------------------------------------------------------------
(* Putting the lines in stock, and settling the receipt.                    *)
LEMMA StockStep ==
    ASSUME IInv, NEW c \in Clients, StockLine(c) \/ MarkLine(c)
    PROVE  IInv'
  <1> USE ReceiptsAssumption
  <1> DEFINE t == tx[c]
  <1>1. t \in Transaction /\ IsFiniteSet(t.stocked) /\ Knows(t)
    BY DEF IInv, Types
  <1>2. CASE StockLine(c)
    <2> DEFINE intake == [line |-> Head(t.todo).line, product |-> t.product, new |-> ~t.found]
               u == [t EXCEPT !.phase = "mark", !.stocked = t.stocked \cup {intake}]
    <2>1. CASE Go(c, u)
      <3>0. (~t.found) \in BOOLEAN
        BY Zenon
      <3>1. intake \in Intake
        BY <1>1, <1>2, <3>0 DEF Intake, Knows, StockLine, Transaction
      <3>2. u \in Transaction /\ u.wrote = t.wrote /\ u.id = t.id /\ u.stocked = t.stocked \cup {intake}
        BY <1>1, <3>1 DEF Transaction, Phases
      <3>3. IsFiniteSet(u.stocked)
        <4> HIDE DEF intake, u
        <4>1. IsFiniteSet(t.stocked \cup {intake})
          BY <1>1, FS_AddElement
        <4> QED
          BY <3>2, <4>1
      <3>4. Knows(u)
        BY <1>1, <1>2 DEF Knows, StockLine, Transaction, Confirming, Stored
      <3> QED
        BY <2>1, <3>2, <3>3, <3>4, GoStep
    <2> QED
      BY <1>1, <1>2, <2>1, RollbackStep DEF StockLine, Transaction
  <1>3. CASE MarkLine(c)
    <2> DEFINE u == [t EXCEPT !.phase = "line", !.marked = t.marked \cup {Head(t.todo).line},
                              !.todo = Tail(t.todo)]
    <2>1. CASE Go(c, u)
      <3>1. u \in Transaction /\ u.stocked = t.stocked /\ u.wrote = t.wrote /\ u.id = t.id
        BY <1>1, <1>3, DecisionsAreTyped DEF Transaction, Phases, MarkLine, Knows
      <3>2. Knows(u)
        BY <1>1, <1>3 DEF Knows, MarkLine, Transaction, Confirming, Stored
      <3> QED
        BY <1>1, <2>1, <3>1, <3>2, GoStep
    <2> QED
      BY <1>1, <1>3, <2>1, RollbackStep DEF MarkLine, Transaction
  <1> QED
    BY <1>2, <1>3

(* A transaction that writes a receipt waits for whoever has written it.    *)
LEMMA WriteStep ==
    ASSUME IInv, NEW c \in Clients, NEW u \in Transaction, Go(c, u), Knows(u),
           IsFiniteSet(u.stocked), u.id = tx[c].id,
           \A d \in Clients : d # c => ~WroteReceipt(d, u.id)
    PROVE  IInv'
  <1>1. Local(c) /\ tx'[c] = u
    BY DEF Go, Local, IInv, Types
  <1>2. Knows(tx[c])'
    BY <1>1 DEF Local, Knows, Stored
  <1>3. ASSUME NEW d \in Clients, d # c PROVE Apart(c, d)'
    BY <1>1, <1>3 DEF Local, Apart, WroteReceipt
  <1> QED
    BY <1>1, <1>2, <1>3, LocalStep

LEMMA SettleStep ==
    ASSUME IInv, NEW c \in Clients, Settle(c)
    PROVE  IInv'
  <1> USE ReceiptsAssumption
  <1> DEFINE t == tx[c]
  <1>1. t \in Transaction /\ IsFiniteSet(t.stocked) /\ Knows(t)
    BY DEF IInv, Types
  <1>2. CASE t.phase = "line" /\ Go(c, [t EXCEPT !.phase = "settle"])
    <2> DEFINE u == [t EXCEPT !.phase = "settle"]
    <2>1. u \in Transaction /\ u.stocked = t.stocked /\ u.wrote = t.wrote /\ u.id = t.id
      BY <1>1 DEF Transaction, Phases
    <2>2. Knows(u)
      BY <1>1, <1>2 DEF Knows, Transaction, Confirming, Stored
    <2> QED
      BY <1>1, <1>2, <2>1, <2>2, GoStep
  <1>3. CASE t.phase = "settle" /\ Free(c) /\ Stored(t.id)
             /\ Go(c, [t EXCEPT !.phase = "commit", !.wrote = "confirm", !.marked = t.lines])
    <2> DEFINE u == [t EXCEPT !.phase = "commit", !.wrote = "confirm", !.marked = t.lines]
    <2>1. u \in Transaction /\ u.stocked = t.stocked /\ u.id = t.id
      BY <1>1 DEF Transaction, Phases
    <2>2. Knows(u)
      BY <1>1, <1>3 DEF Knows, Transaction, Confirming, Stored
    <2>3. \A d \in Clients : d # c => ~WroteReceipt(d, t.id)
      BY <1>3 DEF Free, WaitsFor
    <2> QED
      BY <1>1, <1>3, <2>1, <2>2, <2>3, WriteStep
  <1> QED
    BY <1>2, <1>3, RollbackStep DEF Settle

LEMMA DiscardStep ==
    ASSUME IInv, NEW c \in Clients, Erase(c) \/ Cascade(c)
    PROVE  IInv'
  <1> USE ReceiptsAssumption
  <1> DEFINE t == tx[c]
  <1>1. t \in Transaction /\ IsFiniteSet(t.stocked) /\ Knows(t)
    BY DEF IInv, Types
  <1>2. CASE Erase(c) /\ Stored(t.id)
    <2> DEFINE u == [t EXCEPT !.phase = "cascade", !.wrote = "delete"]
    <2>1. u \in Transaction /\ u.stocked = t.stocked /\ u.id = t.id
      BY <1>1 DEF Transaction, Phases
    <2>2. Knows(u)
      BY <1>1, <1>2 DEF Knows, Transaction, Confirming, Stored, Erase
    <2>3. \A d \in Clients : d # c => ~WroteReceipt(d, t.id)
      BY <1>2 DEF Erase, Free, WaitsFor
    <2> QED
      BY <1>1, <1>2, <2>1, <2>2, <2>3, WriteStep DEF Erase
  <1>3. CASE Erase(c) /\ ~Stored(t.id)
    <2> DEFINE u == [t EXCEPT !.phase = "commit"]
    <2>1. u \in Transaction /\ u.stocked = t.stocked /\ u.wrote = t.wrote /\ u.id = t.id
      BY <1>1 DEF Transaction, Phases
    <2>2. Knows(u)
      BY <1>1, <1>3 DEF Knows, Transaction, Confirming, Stored, Erase
    <2> QED
      BY <1>1, <1>3, <2>1, <2>2, GoStep DEF Erase
  <1>4. CASE Cascade(c)
    <2> DEFINE u == [t EXCEPT !.phase = "commit", !.marked = LineNos]
    <2>1. u \in Transaction /\ u.stocked = t.stocked /\ u.wrote = t.wrote /\ u.id = t.id
      BY <1>1 DEF Transaction, Phases
    <2>2. Knows(u)
      BY <1>1, <1>4 DEF Knows, Transaction, Confirming, Stored, Cascade
    <2> QED
      BY <1>1, <1>4, <2>1, <2>2, GoStep DEF Cascade
  <1> QED
    BY <1>2, <1>3, <1>4

-----------------------------------------------------------------------------
(* A commit leaves every receipt but the one it has written as it was, and  *)
(* that one in one of three states.                                         *)
LEMMA CommitWrites ==
    ASSUME IInv, NEW c \in Clients, Commit(c), NEW r \in Ids, receipts'[r] # receipts[r]
    PROVE  /\ tx[c].wrote # None /\ tx[c].id = r
           /\ \/ receipts[r] = None /\ receipts'[r] = Proposed(tx[c].req.file) /\ tx[c].req.file \in Files
              \/ Stored(r) /\ receipts'[r] = Gone
              \/ /\ tx[c].wrote = "confirm" /\ Stored(r) /\ tx[c].lines = LineNos
                 /\ receipts'[r] = [receipts[r] EXCEPT !.status = "confirmed",
                                                       !.lines = LinesAfter(tx[c], receipts[r].lines)]
  <1> USE ReceiptsAssumption
  <1> DEFINE t == tx[c]
  <1>1. t \in Transaction /\ Knows(t) /\ receipts \in [Ids -> Row \cup {None, Gone}]
        /\ receipts' = ReceiptAfter(t)
    BY DEF IInv, Types, Commit
  <1>2. CASE t.wrote = "insert"
    BY <1>1, <1>2 DEF ReceiptAfter, Knows
  <1>3. CASE t.wrote = "delete"
    BY <1>1, <1>3 DEF ReceiptAfter, Knows
  <1>4. CASE t.wrote = "confirm"
    <2>1. Stored(t.id) /\ t.id \in Ids /\ receipts[t.id] \in Row
      BY <1>1, <1>4 DEF Knows, Stored
    <2> QED
      BY <1>1, <1>4, <2>1 DEF ReceiptAfter, Knows, Row
  <1> QED
    BY <1>1, <1>2, <1>3, <1>4 DEF ReceiptAfter, Transaction

LEMMA IntakesOfOneReceipt ==
    ASSUME Types, NEW c \in Clients, tx[c].stocked # {} => tx[c].id \in Ids
    PROVE  /\ IntakesAfter(tx[c]) \in [Ids -> [LineNos -> Nat]]
           /\ \A r \in Ids : tx[c].stocked = {} \/ r # tx[c].id =>
                 IntakesAfter(tx[c])[r] = intakes[r]
  <1> DEFINE t == tx[c]
             More(n) == Cardinality({s \in t.stocked : s.line = n})
  <1>1. ASSUME NEW n \in LineNos PROVE More(n) \in Nat
    BY FS_Subset, FS_CardinalityType DEF Types
  <1>2. CASE t.stocked = {}
    BY <1>2 DEF IntakesAfter, Types
  <1>3. CASE t.stocked # {}
    <2> HIDE DEF More
    <2>1. IntakesAfter(t) = [intakes EXCEPT ![t.id] = [n \in LineNos |-> intakes[t.id][n] + More(n)]]
      BY <1>3 DEF IntakesAfter, Types, More
    <2>2. [n \in LineNos |-> intakes[t.id][n] + More(n)] \in [LineNos -> Nat]
      BY <1>1, <1>3 DEF Types
    <2> QED
      BY <1>3, <2>1, <2>2 DEF Types
  <1> QED
    BY <1>2, <1>3

LEMMA ShelfIsCounted ==
    ASSUME Types, NEW c \in Clients
    PROVE  ShelfAfter(tx[c]) \in [Products -> Nat]
  <1> DEFINE More(p) == Cardinality({s \in tx[c].stocked : s.product = p})
  <1>1. ASSUME NEW p \in Products PROVE More(p) \in Nat
    BY FS_Subset, FS_CardinalityType DEF Types
  <1> HIDE DEF More
  <1>2. ShelfAfter(tx[c]) = [p \in Products |-> shelf[p] + More(p)]
    BY DEF ShelfAfter, More
  <1> QED
    BY <1>1, <1>2 DEF Types

LEMMA DecidedRow ==
    ASSUME NEW t, NEW row \in Row
    PROVE  [row EXCEPT !.status = "confirmed", !.lines = LinesAfter(t, row.lines)] \in Row
  <1>1. LinesAfter(t, row.lines) \in [LineNos -> LineStates]
    BY DEF LinesAfter, LineStates, Row
  <1> QED
    BY <1>1 DEF Row

LEMMA CommitStep ==
    ASSUME IInv, NEW c \in Clients, Commit(c)
    PROVE  IInv'
  <1> USE ReceiptsAssumption
  <1> DEFINE t == tx[c]
  <1>1. /\ t \in Transaction /\ Knows(t) /\ Types
        /\ receipts' = ReceiptAfter(t) /\ products' = products \cup t.made
        /\ shelf' = ShelfAfter(t) /\ intakes' = IntakesAfter(t)
        /\ tx' = [tx EXCEPT ![c] = IdleTx]
    BY DEF IInv, Types, Commit
  <1>2. /\ t.stocked # {} => t.wrote = "confirm" /\ t.id \in Ids
        /\ t.wrote = "confirm" => Stored(t.id)
    BY <1>1 DEF Knows, Commit, Confirming
  <1>3. ASSUME NEW r \in Ids
        PROVE  /\ receipts'[r] \in Row \cup {None, Gone}
               /\ receipts[r] # None => receipts'[r] # None
               /\ Stored(r)' /\ ~Stored(r) => receipts[r] = None
               /\ ~(tx[c].wrote # None /\ tx[c].id = r) => receipts'[r] = receipts[r]
    <2>1. CASE receipts'[r] = receipts[r]
      BY <1>1, <2>1 DEF Types, Stored
    <2>2. CASE receipts'[r] # receipts[r]
      <3>1. ASSUME NEW file \in Files PROVE Proposed(file) \in Row
        BY DEF Proposed, Row, LineStates
      <3>2. CASE receipts[r] = None /\ receipts'[r] = Proposed(t.req.file) /\ t.req.file \in Files
        BY <2>2, <3>1, <3>2, CommitWrites DEF Stored
      <3>3. CASE Stored(r) /\ receipts'[r] = Gone
        BY <2>2, <3>3, CommitWrites DEF Stored
      <3>4. CASE Stored(r) /\ receipts'[r] = [receipts[r] EXCEPT !.status = "confirmed",
                                                   !.lines = LinesAfter(t, receipts[r].lines)]
        <4>0. receipts[r] \in Row
          BY <1>1, <3>4 DEF Types, Stored
        <4>1. receipts'[r] \in Row
          BY <3>4, <4>0, DecidedRow DEF Row
        <4> QED
          BY <2>2, <3>4, <4>1, CommitWrites DEF Stored
      <3> QED
        BY <2>2, <3>2, <3>3, <3>4, CommitWrites
    <2> QED
      BY <2>1, <2>2
  <1>4. Types'
    <2>1. receipts' \in [Ids -> Row \cup {None, Gone}]
      <3>1. receipts' = [r \in Ids |-> receipts'[r]]
        BY <1>1 DEF ReceiptAfter, Types
      <3> QED
        BY <1>3, <3>1
    <2>2. IdleTx \in Transaction /\ IsFiniteSet(IdleTx.stocked)
      BY FS_EmptySet DEF IdleTx, Transaction, Phases
    <2>3. products' \subseteq Products /\ tx' \in [Clients -> Transaction]
          /\ \A d \in Clients : IsFiniteSet(tx'[d].stocked)
      BY <1>1, <2>2 DEF Types, Transaction
    <2> QED
      BY <1>1, <1>2, <2>1, <2>3, IntakesOfOneReceipt, ShelfIsCounted DEF Types
  <1>5. ASSUME NEW d \in Clients PROVE Knows(tx[d])'
    <2>1. CASE d = c
      BY <1>1, <2>1 DEF Knows, IdleTx, Confirming, Types
    <2>2. CASE d # c
      <3>1. tx'[d] = tx[d] /\ Knows(tx[d]) /\ tx[d].id \in Ids \cup {None} /\ Apart(c, d)
        BY <1>1, <2>2 DEF IInv, Types, Transaction
      <3>2. tx[d].wrote # None => receipts'[tx[d].id] = receipts[tx[d].id]
        BY <1>3, <3>1 DEF Apart, Knows
      <3>3. tx[d].phase \in {"erase"} \cup Confirming =>
              receipts[tx[d].id] # None /\ receipts'[tx[d].id] # None /\ (Stored(tx[d].id)' => Stored(tx[d].id))
        BY <1>3, <3>1 DEF Knows
      <3> QED
        BY <3>1, <3>2, <3>3 DEF Knows, Stored, Confirming
    <2> QED
      BY <2>1, <2>2
  <1>6. ASSUME NEW d \in Clients, NEW e \in Clients, d # e PROVE Apart(d, e)'
    BY <1>1, <1>6 DEF IInv, Apart, IdleTx, Types
  <1>7. ASSUME NEW r \in Ids, ~Confirmed(r)' PROVE intakes'[r] = intakes[r]
    <2>1. CASE t.stocked = {} \/ r # t.id
      BY <1>1, <1>2, <2>1, IntakesOfOneReceipt
    <2>2. CASE t.stocked # {} /\ r = t.id
      <3>1. receipts'[r] = [receipts[r] EXCEPT !.status = "confirmed",
                                               !.lines = LinesAfter(t, receipts[r].lines)]
            /\ receipts[r] \in Row
        BY <1>1, <1>2, <2>2 DEF ReceiptAfter, Types, Row, Stored
      <3>2. receipts'[r] \in Row /\ receipts'[r].status = "confirmed"
        BY <3>1, DecidedRow DEF Row
      <3> QED
        BY <1>7, <3>2 DEF Confirmed, Stored
    <2> QED
      BY <2>1, <2>2
  <1>8. NothingWithoutAReceipt'
    BY <1>3, <1>7 DEF IInv, NothingWithoutAReceipt, Confirmed, Stored
  <1>9. LinesFollowTheReceipt'
    <2> SUFFICES ASSUME NEW r \in Ids, NEW n \in LineNos, Stored(r)'
                 PROVE  IF Confirmed(r)' THEN receipts'[r].lines[n] \in {"confirmed", "ignored"}
                        ELSE intakes'[r][n] = 0 /\ receipts'[r].lines[n] = "proposed"
      BY DEF LinesFollowTheReceipt, ParsedIsUnstocked, ConfirmedIsDecided, Confirmed, Stored
    <2>1. CASE receipts'[r] = receipts[r]
      BY <1>7, <2>1 DEF IInv, LinesFollowTheReceipt, ParsedIsUnstocked, ConfirmedIsDecided, Confirmed, Stored
    <2>2. CASE receipts[r] = None /\ receipts'[r] = Proposed(t.req.file)
      BY <1>7, <2>2 DEF IInv, NothingWithoutAReceipt, Proposed, Confirmed, Stored
    <2>3. CASE t.lines = LineNos /\ Stored(r)
               /\ receipts'[r] = [receipts[r] EXCEPT !.status = "confirmed",
                                                     !.lines = LinesAfter(t, receipts[r].lines)]
      BY <1>1, <2>3 DEF Types, Row, Stored, Confirmed, LinesAfter
    <2> QED
      BY <2>1, <2>2, <2>3, CommitWrites DEF Stored
  <1> QED
    BY <1>4, <1>5, <1>6, <1>8, <1>9 DEF IInv

LEMMA NextKeeps == IInv /\ [Next]_vars => IInv'
  <1> SUFFICES ASSUME IInv, [Next]_vars PROVE IInv'
    OBVIOUS
  <1>1. ASSUME NEW c \in Clients, NEW req \in Requests, Begin(c, req) PROVE IInv'
    BY <1>1, BeginStep
  <1>2. ASSUME NEW c \in Clients, Serve(c) \/ Interrupt(c) PROVE IInv'
    BY <1>2, ImportStep, ReviewStep, StockStep, SettleStep, DiscardStep, CommitStep, RollbackStep
       DEF Serve, Interrupt, DeadlockVictim
  <1>3. CASE UNCHANGED vars
    BY <1>3 DEF vars, IInv, Types, Knows, Stored, Apart, NothingWithoutAReceipt,
           LinesFollowTheReceipt, ParsedIsUnstocked, ConfirmedIsDecided, Confirmed
  <1> QED
    BY <1>1, <1>2, <1>3 DEF Next, Finished

(* A receipt and its lines tell one story, whatever fails, waits, repeats   *)
(* or is interrupted: all of it is a proposal that has put nothing in       *)
(* stock, or all of it is decided.                                          *)
THEOREM ReceiptsAreWhole == Spec => []LinesFollowTheReceipt
  <1>1. Init => IInv
    BY InitEstablishes
  <1>2. IInv /\ [Next]_vars => IInv'
    BY NextKeeps
  <1>3. IInv => LinesFollowTheReceipt
    BY DEF IInv
  <1> QED
    BY <1>1, <1>2, <1>3, PTL DEF Spec
=============================================================================
