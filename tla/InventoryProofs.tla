--------------------------- MODULE InventoryProofs ---------------------------
(***************************************************************************)
(* For every value of the constants: the shape of the rows, the agreement  *)
(* of the stock with its ledger, and the coherence of the transactions     *)
(* that keeps both.                                                        *)
(***************************************************************************)
EXTENDS Inventory, TLAPS

(* ROUND_HALF_UP of a ratio with a positive denominator is a whole number.  *)
LEMMA RoundHalfUpType ==
    ASSUME NEW n \in Int, NEW d \in Nat \ {0}
    PROVE  RoundHalfUp(n, d) \in Int
  BY DEF RoundHalfUp

LEMMA ConversionType ==
    ASSUME NEW n \in Int, NEW u \in Units
    PROVE  /\ Displayed(n) \in Int
           /\ Canonical(n, u) \in Int
           /\ InUnit(n, u) \in Int
           /\ AsAmount(n) \in Int
           /\ Dimension[u] \in Dimensions
  <1>1. Grain \in Nat \ {0} /\ Factor[u] \in Nat \ {0} /\ Dimension[u] \in Dimensions
    BY UnitsAssumption
  <1>2. n * Factor[u] \in Int /\ n * Grain \in Int
    BY <1>1
  <1> QED
    BY <1>1, <1>2, RoundHalfUpType DEF Displayed, Canonical, InUnit, AsAmount

(* The inductive invariant: the ledger agrees with the rows because every   *)
(* transaction accounts for the difference it is about to commit.           *)
IInv == TypeOK /\ LedgerIsTruth /\ TransactionsCoherent

-----------------------------------------------------------------------------
(* The rows the service computes are rows.                                  *)

LEMMA CommandFields ==
    ASSUME NEW cmd \in Commands
    PROVE  cmd \in CommandType
  BY InventoryAssumption

LEMMA NoneIsNoRefusal == None \notin Refusals /\ None # Unset
  BY InventoryAssumption

LEMMA DraftIsRow ==
    ASSUME NEW cmd \in Commands, cmd.op = "add", EarlyRefusal(cmd) = None
    PROVE  /\ Draft(cmd) \in RowType
           /\ Draft(cmd).active
           /\ Draft(cmd).qty = Canonical(cmd.amount, cmd.unit)
  <1>1. cmd \in CommandType /\ Unset \notin {cmd.product, cmd.loc, cmd.unit,
                               cmd.amount, cmd.bestBefore, cmd.opened}
    BY InventoryAssumption
  <1>2. /\ cmd.product \in Products /\ KnownPlace(cmd.loc) /\ cmd.unit \in Units
        /\ ResolveKind(cmd.bestBefore, cmd.kind) # "refused"
    BY NoneIsNoRefusal DEF EarlyRefusal, Refusals
  <1>3. cmd.loc \in Places
    BY <1>1, <1>2 DEF KnownPlace
  <1>4. cmd.amount \in Int /\ cmd.bestBefore \in Int \cup {None}
        /\ cmd.opened \in Int \cup {None} /\ cmd.kind \in DateKinds \cup {Unset}
    BY <1>1 DEF CommandType
  <1>5. ResolveKind(cmd.bestBefore, cmd.kind) \in DateKinds
    BY <1>2, <1>4 DEF ResolveKind, DateKinds
  <1>6. /\ Displayed(cmd.amount) \in Int /\ Canonical(cmd.amount, cmd.unit) \in Int
        /\ Dimension[cmd.unit] \in Dimensions
    BY <1>2, <1>4, ConversionType
  <1> QED
    BY <1>2, <1>3, <1>4, <1>5, <1>6 DEF Draft, RowType

LEMMA MergedIsRow ==
    ASSUME NEW cmd \in Commands, cmd.op = "add", EarlyRefusal(cmd) = None,
           NEW row \in RowType
    PROVE  /\ Merged(cmd, row) \in RowType
           /\ Merged(cmd, row).active = row.active
           /\ Merged(cmd, row).qty = row.qty + Canonical(cmd.amount, cmd.unit)
           /\ Canonical(cmd.amount, cmd.unit) \in Int
  <1>1. row.unit \in Units /\ row.qty \in Int
    BY DEF RowType
  <1>2. Canonical(cmd.amount, cmd.unit) \in Int
    BY DraftIsRow DEF RowType
  <1> DEFINE total == row.qty + Canonical(cmd.amount, cmd.unit)
             shown == InUnit(total, row.unit)
  <1>3. total \in Int
    BY <1>1, <1>2
  <1>4. shown \in Int
    BY <1>1, <1>3, ConversionType
  <1> HIDE DEF total, shown
  <1>5. LET new == [row EXCEPT !.qty = total, !.value = shown]
        IN  new \in RowType /\ new.active = row.active /\ new.qty = total
    BY <1>3, <1>4, Zenon DEF RowType
  <1> QED
    BY <1>2, <1>5, Zenon DEF Merged, total, shown

LEMMA UpdatedIsRow ==
    ASSUME NEW cmd \in Commands, NEW row \in RowType, UpdateRefusal(cmd, row) = None
    PROVE  /\ Updated(cmd, row) \in RowType
           /\ Updated(cmd, row).active = row.active
  <1>1. cmd \in CommandType
    BY CommandFields
  <1>2. /\ KnownPlace(cmd.loc) /\ NewUnit(cmd, row) \in Units
        /\ NewKind(cmd, row) # "refused"
    BY NoneIsNoRefusal DEF UpdateRefusal, Refusals
  <1>3. NewAmount(cmd, row) \in Int
    BY <1>1, ConversionType, row.value \in Int, row.unit \in Units
       DEF NewAmount, CommandType, RowType
  <1>4. Requantify(cmd, row) \in RowType /\ Requantify(cmd, row).active = row.active
    BY <1>2, <1>3, ConversionType DEF Requantify, RowType
  <1>5. NewDate(cmd, row) \in Int \cup {None}
    BY <1>1 DEF NewDate, CommandType, RowType
  <1>6. NewKind(cmd, row) \in DateKinds
    BY <1>1, <1>2 DEF NewKind, ResolveKind, CommandType, RowType, DateKinds
  <1>7. cmd.loc \in Places \cup {Unset} /\ cmd.opened \in Int \cup {None, Unset}
    BY <1>1, <1>2 DEF KnownPlace, CommandType
  <1> DEFINE place == IF cmd.loc = Unset THEN Requantify(cmd, row).loc ELSE cmd.loc
             since == IF cmd.opened = Unset THEN Requantify(cmd, row).opened ELSE cmd.opened
  <1>8. place \in Places
    BY <1>4, <1>7 DEF RowType
  <1>9. since \in Int \cup {None}
    BY <1>4, <1>7 DEF RowType
  <1> HIDE DEF place, since
  <1>10. LET new == [Requantify(cmd, row) EXCEPT !.loc = place, !.kind = NewKind(cmd, row),
                        !.bestBefore = NewDate(cmd, row), !.opened = since]
         IN  new \in RowType /\ new.active = row.active
    BY <1>4, <1>5, <1>6, <1>8, <1>9, Zenon DEF RowType
  <1> QED
    BY <1>10, Zenon DEF Updated, place, since

-----------------------------------------------------------------------------
(* A step of one transaction that respects the locks of the others leaves   *)
(* them coherent.                                                           *)

LEMMA OthersStayCoherent ==
    ASSUME TypeOK, TransactionsCoherent, NEW c \in Clients,
           \A d \in Clients : d # c => tx'[d] = tx[d],
           \A l \in Lots : lock[l] \notin {c, None} =>
                              lock'[l] = lock[l] /\ lots'[l] = lots[l],
           Coherent(c)'
    PROVE  TransactionsCoherent'
  <1> SUFFICES ASSUME NEW d \in Clients, d # c
               PROVE  Coherent(d)'
    BY DEF TransactionsCoherent
  <1>1. Coherent(d) /\ tx'[d] = tx[d] /\ d # None
    BY InventoryAssumption DEF TransactionsCoherent
  <1>2. ReadIsCurrent(d)'
    BY <1>1 DEF Coherent, ReadIsCurrent
  <1>3. WriteIsAccounted(d)'
    BY <1>1 DEF Coherent, WriteIsAccounted
  <1>4. PhaseIsConsistent(d)'
    BY <1>1 DEF Coherent, PhaseIsConsistent
  <1> QED
    BY <1>2, <1>3, <1>4 DEF Coherent

LEMMA IdleIsTx == IdleTx \in TxType
  BY DEF IdleTx, TxType, Phases

LEMMA RollbackKeepsIInv ==
    ASSUME IInv, NEW c \in Clients, NEW outcome, Rollback(c, outcome)
    PROVE  IInv'
  <1> USE DEF IInv, Rollback
  <1>1. tx' = [tx EXCEPT ![c] = IdleTx] /\ tx'[c] = IdleTx
    BY DEF TypeOK
  <1>2. Coherent(c)'
    BY <1>1, NoneIsNoRefusal DEF Coherent, ReadIsCurrent, WriteIsAccounted, PhaseIsConsistent, IdleTx
  <1>3. \A l \in Lots : lock[l] \notin {c, None} =>
                              lock'[l] = lock[l] /\ lots'[l] = lots[l]
    BY DEF Unlocked
  <1>4. TransactionsCoherent'
    BY <1>1, <1>2, <1>3, OthersStayCoherent DEF TypeOK
  <1>5. TypeOK'
    BY <1>1, IdleIsTx DEF TypeOK, Unlocked
  <1>6. LedgerIsTruth'
    BY DEF LedgerIsTruth, Balance
  <1> QED
    BY <1>4, <1>5, <1>6

(* A step that changes one transaction and its locks, and no committed row. *)
LEMMA LocalStep ==
    ASSUME IInv, NEW c \in Clients, NEW new \in TxType,
           tx' = [tx EXCEPT ![c] = new],
           UNCHANGED <<lots, ledger, today, issued>>,
           lock' \in [Lots -> Clients \cup {None}],
           \A l \in Lots : lock[l] \notin {c, None} => lock'[l] = lock[l],
           tx'[c] = new => Coherent(c)'
    PROVE  IInv'
  <1>1. tx'[c] = new /\ \A d \in Clients : d # c => tx'[d] = tx[d]
    BY DEF IInv, TypeOK
  <1>2. TransactionsCoherent'
    BY <1>1, OthersStayCoherent DEF IInv
  <1>3. TypeOK'
    BY DEF IInv, TypeOK
  <1>4. LedgerIsTruth'
    BY DEF IInv, LedgerIsTruth, Balance
  <1> QED
    BY <1>2, <1>3, <1>4 DEF IInv

LEMMA FindRowKeepsIInv ==
    ASSUME IInv, NEW c \in Clients, NEW l \in Lots, FindRow(c, l)
    PROVE  IInv'
  <1> DEFINE t == tx[c]
             new == [t EXCEPT !.phase = "lock", !.lot = l]
  <1>1. t \in TxType /\ t.phase = "find" /\ Coherent(c)
    BY DEF IInv, FindRow, TypeOK, TransactionsCoherent
  <1>2. tx' = [tx EXCEPT ![c] = new]
    BY <1>1, Zenon DEF FindRow, IInv, TypeOK
  <1>3. new \in TxType
    BY <1>1, Zenon DEF TxType, Phases
  <1>4. /\ new.phase = "lock" /\ new.lot = l /\ new.cmd = t.cmd
        /\ new.seen = t.seen /\ new.new = t.new
    BY <1>1, Zenon DEF TxType
  <1>5. tx'[c] = new => Coherent(c)'
    BY <1>1, <1>4 DEF Coherent, ReadIsCurrent, WriteIsAccounted, PhaseIsConsistent
  <1> QED
    BY <1>2, <1>3, <1>5, LocalStep DEF FindRow, IInv, TypeOK

LEMMA FindNothingKeepsIInv ==
    ASSUME IInv, NEW c \in Clients, FindNothingToMerge(c)
    PROVE  IInv'
  <1> DEFINE t == tx[c]
             new == [t EXCEPT !.phase = "write"]
  <1>1. t \in TxType /\ t.phase = "find" /\ t.cmd.op = "add" /\ Coherent(c)
    BY DEF IInv, FindNothingToMerge, TypeOK, TransactionsCoherent
  <1>2. tx' = [tx EXCEPT ![c] = new]
    BY <1>1, Zenon DEF FindNothingToMerge, IInv, TypeOK
  <1>3. new \in TxType
    BY <1>1, Zenon DEF TxType, Phases
  <1>4. /\ new.phase = "write" /\ new.lot = t.lot /\ new.cmd = t.cmd
        /\ new.seen = t.seen /\ new.new = t.new
    BY <1>1, Zenon DEF TxType
  <1>5. tx'[c] = new => Coherent(c)'
    BY <1>1, <1>4 DEF Coherent, ReadIsCurrent, WriteIsAccounted, PhaseIsConsistent
  <1> QED
    BY <1>2, <1>3, <1>5, LocalStep DEF FindNothingToMerge, IInv, TypeOK

LEMMA LockRowKeepsIInv ==
    ASSUME IInv, NEW c \in Clients, LockRow(c)
    PROVE  IInv'
  <1> DEFINE t == tx[c]
             next == IF t.cmd.op \in {"freeze", "thaw"} THEN "decide" ELSE "write"
             new == [t EXCEPT !.seen = lots[t.lot], !.phase = next]
  <1>1. /\ t \in TxType /\ t.phase = "lock" /\ t.lot \in Lots /\ lock[t.lot] = None
        /\ lots[t.lot] \in RowType /\ lots[t.lot].active /\ Coherent(c)
        /\ Matches(t.cmd, t.lot)
    BY DEF IInv, LockRow, TypeOK, TransactionsCoherent, Coherent, PhaseIsConsistent,
           Matches, SameKey, Active
  <1>2. tx' = [tx EXCEPT ![c] = new]
    BY <1>1, Zenon DEF LockRow, IInv, TypeOK
  <1> HIDE DEF next
  <1>3. next \in {"decide", "write"}
    BY DEF next
  <1>4. new \in TxType
    BY <1>1, <1>3, Zenon DEF TxType, Phases
  <1>5. /\ new.phase = next /\ new.lot = t.lot /\ new.cmd = t.cmd
        /\ new.seen = lots[t.lot] /\ new.new = t.new
    BY <1>1, Zenon DEF TxType
  <1>6. new.seen # None /\ (next = "write" => t.cmd.op \notin {"freeze", "thaw"})
    BY <1>1, <1>5, RowAssumption DEF next
  <1>7. lock'[t.lot] = c /\ UNCHANGED lots
    BY <1>1 DEF LockRow, IInv, TypeOK
  <1>8. tx'[c] = new => Coherent(c)'
    BY <1>1, <1>3, <1>5, <1>6, <1>7
       DEF Coherent, ReadIsCurrent, WriteIsAccounted, PhaseIsConsistent
  <1> QED
    BY <1>1, <1>2, <1>4, <1>8, LocalStep DEF LockRow, IInv, TypeOK

LEMMA LockStaleRowKeepsIInv ==
    ASSUME IInv, NEW c \in Clients, LockStaleRow(c)
    PROVE  IInv'
  <1> DEFINE t == tx[c]
             lot == None
             new == [t EXCEPT !.lot = lot, !.phase = "write"]
  <1>1. /\ t \in TxType /\ t.phase = "lock" /\ t.lot \in Lots /\ lock[t.lot] = None
        /\ t.cmd.op = "add" /\ Coherent(c)
    BY DEF IInv, LockStaleRow, TypeOK, TransactionsCoherent, Coherent, PhaseIsConsistent
  <1>2. tx' = [tx EXCEPT ![c] = new]
    BY <1>1, Zenon DEF LockStaleRow, IInv, TypeOK
  <1>6. lot \in Lots \cup {None}
    OBVIOUS
  <1> HIDE DEF lot
  <1>3. new \in TxType
    BY <1>1, <1>6, Zenon DEF TxType, Phases
  <1>4. /\ new.phase = "write" /\ new.cmd = t.cmd
        /\ new.seen = t.seen /\ new.new = t.new
    BY <1>1, Zenon DEF TxType
  <1>5. tx'[c] = new => Coherent(c)'
    BY <1>1, <1>4 DEF Coherent, ReadIsCurrent, WriteIsAccounted, PhaseIsConsistent
  <1>7. /\ lock' = [lock EXCEPT ![t.lot] = c]
        /\ UNCHANGED <<lots, ledger, today, issued>>
    BY DEF LockStaleRow
  <1>8. /\ lock' \in [Lots -> Clients \cup {None}]
        /\ \A l \in Lots : lock[l] \notin {c, None} => lock'[l] = lock[l]
    BY <1>1, <1>7 DEF IInv, TypeOK
  <1> QED
    BY <1>2, <1>3, <1>5, <1>7, <1>8, LocalStep

LEMMA DecideKeepsIInv ==
    ASSUME IInv, NEW c \in Clients, NEW refusal, NEW kind, Decide(c, refusal, kind)
    PROVE  IInv'
  <1> DEFINE t == tx[c]
             dest == Destination(t.lot, kind)
             new == [t EXCEPT !.dest = dest, !.day = today, !.phase = "write"]
  <1>1. CASE refusal # None
    BY <1>1, RollbackKeepsIInv DEF Decide
  <1>2. CASE refusal = None
    <2>1. t \in TxType /\ t.phase = "decide" /\ Coherent(c) /\ today \in Days
      BY DEF IInv, Decide, TypeOK, TransactionsCoherent
    <2>2. tx' = [tx EXCEPT ![c] = new]
      BY <1>2, <2>1, Zenon DEF Decide, IInv, TypeOK
    <2>3. dest \in Locations \cup {Unset}
      BY InventoryAssumption DEF Destination, SoleOfKind
    <2> HIDE DEF dest
    <2>4. new \in TxType
      BY <2>1, <2>3, Zenon DEF TxType, Phases
    <2>5. /\ new.phase = "write" /\ new.lot = t.lot /\ new.cmd = t.cmd
          /\ new.seen = t.seen /\ new.new = t.new /\ new.day = today
      BY <2>1, Zenon DEF TxType
    <2>6. UNCHANGED <<lots, ledger, lock, today, issued>>
      BY <1>2 DEF Decide
    <2>7. tx'[c] = new => Coherent(c)'
      BY <2>1, <2>5, <2>6
         DEF Coherent, ReadIsCurrent, WriteIsAccounted, PhaseIsConsistent
    <2> QED
      BY <2>2, <2>4, <2>6, <2>7, LocalStep DEF IInv, TypeOK
  <1> QED
    BY <1>1, <1>2

(* A write is accounted for when the new version differs from the one that  *)
(* was read by the movement that goes with it.                              *)
LEMMA WriteKeepsIInv ==
    ASSUME IInv, NEW c \in Clients, NEW l \in Lots, NEW row \in RowType,
           NEW kind \in MovementKinds \cup {None}, NEW delta \in Int,
           tx[c].phase = "write",
           Write(c, l, row, kind, delta),
           \/ tx[c].seen = None /\ lots[l] = None /\ lock[l] = None
           \/ tx[c].seen # None /\ l = tx[c].lot,
           row.qty = delta + (IF tx[c].seen = None THEN 0 ELSE tx[c].seen.qty),
           ~row.active => row.qty = 0,
           kind = None => delta = 0
    PROVE  IInv'
  <1> DEFINE t == tx[c]
             next == IF row.active /\ (t.seen = None \/ MergeKey(row) # MergeKey(t.seen))
                     THEN "index" ELSE "commit"
             new == [t EXCEPT !.lot = l, !.new = row, !.kind = kind, !.delta = delta,
                              !.phase = next]
  <1>1. CASE ~ChecksHold(row)
    BY <1>1, RollbackKeepsIInv DEF Write
  <1>2. CASE ChecksHold(row)
    <2>1. /\ t \in TxType /\ Coherent(c) /\ t.phase = "write"
          /\ lock[l] \in {c, None} /\ (t.seen = None => lots[l] = None)
          /\ (t.seen # None => lots[l] = t.seen /\ t.seen.active)
      BY DEF IInv, TypeOK, TransactionsCoherent, Coherent, ReadIsCurrent
    <2>2. tx' = [tx EXCEPT ![c] = new]
      BY <1>2, <2>1, Zenon DEF Write, IInv, TypeOK
    <2>3. next \in {"index", "commit"}
      OBVIOUS
    <2> HIDE DEF next
    <2>4. new \in TxType
      BY <2>1, <2>3, Zenon DEF TxType, Phases
    <2>5. /\ new.phase = next /\ new.lot = l /\ new.cmd = t.cmd /\ new.seen = t.seen
          /\ new.new = row /\ new.kind = kind /\ new.delta = delta
      BY <2>1, Zenon DEF TxType
    <2>6. lock' = [lock EXCEPT ![l] = c] /\ UNCHANGED <<lots, ledger, today, issued>>
      BY <1>2 DEF Write
    <2>7. lock'[l] = c
      BY <2>6 DEF IInv, TypeOK
    <2>8. row # None /\ (row.active <=> row.qty > 0)
      BY <1>2, RowAssumption DEF ChecksHold, RowType
    <2>9. ASSUME tx'[c] = new
          PROVE  Coherent(c)'
      <3>1. ReadIsCurrent(c)'
        BY <2>1, <2>5, <2>6, <2>7, <2>9 DEF ReadIsCurrent
      <3>2. WriteIsAccounted(c)'
        BY <2>1, <2>5, <2>6, <2>7, <2>8, <2>9 DEF WriteIsAccounted
      <3>3. PhaseIsConsistent(c)'
        BY <2>1, <2>3, <2>5, <2>8, <2>9 DEF Coherent, PhaseIsConsistent
      <3> QED
        BY <3>1, <3>2, <3>3 DEF Coherent
    <2> QED
      BY <2>1, <2>2, <2>4, <2>6, <2>9, LocalStep DEF IInv, TypeOK
  <1> QED
    BY <1>1, <1>2

(* What a transaction knows when it is about to write.                      *)
LEMMA AboutToWrite ==
    ASSUME IInv, NEW c \in Clients, tx[c].phase = "write"
    PROVE  /\ tx[c].cmd \in Commands /\ EarlyRefusal(tx[c].cmd) = None
           /\ tx[c].seen # None \/ tx[c].cmd.op = "add"
           /\ tx[c].seen # None =>
                /\ tx[c].lot \in Lots /\ tx[c].seen \in RowType /\ tx[c].seen.active
                /\ tx[c].seen.qty \in Int
           /\ tx[c].cmd.op \in {"freeze", "thaw"} => tx[c].day \in Days
           /\ tx[c].dest \in Locations \cup {Unset}
  <1>1. tx[c] \in TxType /\ Coherent(c)
    BY DEF IInv, TypeOK, TransactionsCoherent
  <1> QED
    BY <1>1 DEF TxType, Coherent, ReadIsCurrent, PhaseIsConsistent, RowType

LEMMA InsertLotKeepsIInv ==
    ASSUME IInv, NEW c \in Clients, NEW l \in Lots, InsertLot(c, l)
    PROVE  IInv'
  <1> DEFINE cmd == tx[c].cmd
             delta == Canonical(cmd.amount, cmd.unit)
  <1>1. /\ tx[c].phase = "write" /\ cmd.op = "add" /\ tx[c].seen = None
        /\ lots[l] = None /\ lock[l] = None
        /\ Write(c, l, Draft(cmd), "intake", delta)
    BY DEF InsertLot
  <1>2. cmd \in Commands /\ EarlyRefusal(cmd) = None
    BY <1>1, AboutToWrite
  <1>3. /\ Draft(cmd) \in RowType /\ Draft(cmd).active /\ Draft(cmd).qty = delta
        /\ delta \in Int
    BY <1>1, <1>2, DraftIsRow DEF RowType
  <1>4. "intake" \in MovementKinds /\ "intake" # None
    BY InventoryAssumption DEF MovementKinds
  <1> HIDE DEF delta
  <1> QED
    BY <1>1, <1>3, <1>4, WriteKeepsIInv

LEMMA MergeKeepsIInv ==
    ASSUME IInv, NEW c \in Clients, MergeIntoLot(c)
    PROVE  IInv'
  <1> DEFINE cmd == tx[c].cmd
             delta == Canonical(cmd.amount, cmd.unit)
             new == Merged(cmd, tx[c].seen)
  <1>1. /\ tx[c].phase = "write" /\ cmd.op = "add" /\ tx[c].seen # None
        /\ Write(c, tx[c].lot, new, "intake", delta)
    BY DEF MergeIntoLot
  <1>2. /\ cmd \in Commands /\ EarlyRefusal(cmd) = None
        /\ tx[c].lot \in Lots /\ tx[c].seen \in RowType /\ tx[c].seen.active
        /\ tx[c].seen.qty \in Int
    BY <1>1, AboutToWrite
  <1>3. /\ new \in RowType /\ new.active /\ new.qty = tx[c].seen.qty + delta
        /\ delta \in Int
    BY <1>1, <1>2, MergedIsRow
  <1>4. "intake" \in MovementKinds /\ "intake" # None
    BY InventoryAssumption DEF MovementKinds
  <1>5. tx[c].seen.qty + delta = delta + tx[c].seen.qty
    BY <1>2, <1>3
  <1> HIDE DEF delta, new
  <1> QED
    BY <1>1, <1>2, <1>3, <1>4, <1>5, WriteKeepsIInv

LEMMA UpdateKeepsIInv ==
    ASSUME IInv, NEW c \in Clients, UpdateLot(c)
    PROVE  IInv'
  <1> DEFINE cmd == tx[c].cmd
             row == tx[c].seen
             new == Updated(cmd, row)
             kind == IF new.qty = row.qty THEN None ELSE "adjustment"
             delta == new.qty - row.qty
  <1>1. CASE UpdateRefusal(cmd, row) # None
    BY <1>1, RollbackKeepsIInv DEF UpdateLot
  <1>2. CASE UpdateRefusal(cmd, row) = None
    <2>1. tx[c].phase = "write" /\ cmd.op = "update" /\ Write(c, tx[c].lot, new, kind, delta)
      BY <1>2 DEF UpdateLot
    <2>2. /\ cmd \in Commands /\ row # None /\ tx[c].lot \in Lots
          /\ row \in RowType /\ row.active /\ row.qty \in Int
      BY <2>1, AboutToWrite
    <2>3. new \in RowType /\ new.active /\ new.qty \in Int
      BY <1>2, <2>2, UpdatedIsRow DEF RowType
    <2>4. kind \in MovementKinds \cup {None} /\ delta \in Int
      BY <2>2, <2>3 DEF MovementKinds
    <2>5. (kind = None => delta = 0) /\ new.qty = delta + row.qty
      <3>1. "adjustment" # None
        BY InventoryAssumption DEF MovementKinds
      <3> HIDE DEF new
      <3> QED
        BY <2>2, <2>3, <3>1
    <2> HIDE DEF new, kind, delta
    <2> QED
      BY <2>1, <2>2, <2>3, <2>4, <2>5, WriteKeepsIInv
  <1> QED
    BY <1>1, <1>2

(* What freezing and thawing write besides the clock: at most the place.    *)
LEMMA RefiledIsRow ==
    ASSUME NEW row \in RowType, NEW dest \in Locations \cup {Unset}
    PROVE  /\ Refiled(row, dest) \in RowType
           /\ Refiled(row, dest).active = row.active
           /\ Refiled(row, dest).qty = row.qty
  BY DEF Refiled, RowType, Places

LEMMA FreezeKeepsIInv ==
    ASSUME IInv, NEW c \in Clients, FreezeLot(c)
    PROVE  IInv'
  <1> DEFINE row == tx[c].seen
             frozen == [row EXCEPT !.frozen = tx[c].day]
             new == Refiled(frozen, tx[c].dest)
  <1>1. /\ tx[c].phase = "write" /\ tx[c].cmd.op = "freeze"
        /\ Write(c, tx[c].lot, new, None, 0)
    BY DEF FreezeLot
  <1>2. /\ row # None /\ tx[c].lot \in Lots /\ row \in RowType /\ row.active
        /\ row.qty \in Int /\ tx[c].day \in Days
        /\ tx[c].dest \in Locations \cup {Unset}
    BY <1>1, AboutToWrite
  <1>3. frozen \in RowType /\ frozen.active /\ frozen.qty = row.qty
    BY <1>2 DEF RowType
  <1> HIDE DEF frozen
  <1>4. new \in RowType /\ new.active /\ new.qty = row.qty
    BY <1>2, <1>3, RefiledIsRow
  <1>5. new.qty = 0 + row.qty
    BY <1>2, <1>4
  <1>6. None \in MovementKinds \cup {None} /\ 0 \in Int
    OBVIOUS
  <1> HIDE DEF new
  <1> QED
    BY <1>1, <1>2, <1>4, <1>5, <1>6, WriteKeepsIInv

LEMMA ThawKeepsIInv ==
    ASSUME IInv, NEW c \in Clients, ThawLot(c)
    PROVE  IInv'
  <1> DEFINE row == tx[c].seen
             thawed == [row EXCEPT !.thawed = tx[c].day]
             new == Refiled(thawed, tx[c].dest)
  <1>1. /\ tx[c].phase = "write" /\ tx[c].cmd.op = "thaw"
        /\ Write(c, tx[c].lot, new, None, 0)
    BY DEF ThawLot
  <1>2. /\ row # None /\ tx[c].lot \in Lots /\ row \in RowType /\ row.active
        /\ row.qty \in Int /\ tx[c].day \in Days
        /\ tx[c].dest \in Locations \cup {Unset}
    BY <1>1, AboutToWrite
  <1>3. thawed \in RowType /\ thawed.active /\ thawed.qty = row.qty
    BY <1>2 DEF RowType
  <1> HIDE DEF thawed
  <1>4. new \in RowType /\ new.active /\ new.qty = row.qty
    BY <1>2, <1>3, RefiledIsRow
  <1>5. new.qty = 0 + row.qty
    BY <1>2, <1>4
  <1>6. None \in MovementKinds \cup {None} /\ 0 \in Int
    OBVIOUS
  <1> HIDE DEF new
  <1> QED
    BY <1>1, <1>2, <1>4, <1>5, <1>6, WriteKeepsIInv

LEMMA DepletedIsRow ==
    ASSUME NEW row \in RowType
    PROVE  /\ Depleted(row) \in RowType
           /\ ~Depleted(row).active /\ Depleted(row).qty = 0
  <1> DEFINE nothing == 0
             gone == FALSE
             new == [row EXCEPT !.qty = nothing, !.active = gone]
  <1>1. nothing \in Int /\ gone \in BOOLEAN
    OBVIOUS
  <1> HIDE DEF nothing, gone
  <1>2. new \in RowType /\ new.active = gone /\ new.qty = nothing
    BY <1>1, Zenon DEF RowType
  <1>3. Depleted(row) = new
    BY DEF Depleted, nothing, gone
  <1> HIDE DEF new
  <1> QED
    BY <1>2, <1>3 DEF nothing, gone

LEMMA RemoveKeepsIInv ==
    ASSUME IInv, NEW c \in Clients, RemoveLot(c)
    PROVE  IInv'
  <1> DEFINE row == tx[c].seen
             new == Depleted(row)
             kind == IF row.qty = 0 THEN None ELSE RemovalKind(tx[c].cmd.reason)
             delta == -row.qty
  <1>1. /\ tx[c].phase = "write" /\ tx[c].cmd.op = "remove"
        /\ Write(c, tx[c].lot, new, kind, delta)
    BY DEF RemoveLot
  <1>2. /\ row # None /\ tx[c].lot \in Lots /\ row \in RowType /\ row.qty \in Int
    BY <1>1, AboutToWrite
  <1>3. new \in RowType /\ ~new.active /\ new.qty = 0
    BY <1>2, DepletedIsRow
  <1>4. kind \in MovementKinds \cup {None} /\ delta \in Int
    BY <1>2 DEF MovementKinds, RemovalKind
  <1>5. None \notin MovementKinds
    BY InventoryAssumption
  <1>6. (kind = None => delta = 0) /\ new.qty = delta + row.qty
    BY <1>2, <1>3, <1>5 DEF RemovalKind, MovementKinds
  <1> HIDE DEF new, kind, delta
  <1> QED
    BY <1>1, <1>2, <1>3, <1>4, <1>6, WriteKeepsIInv

-----------------------------------------------------------------------------
(* The only step that changes the stock and the ledger.                     *)

Moved(old, kind, delta) == [old EXCEPT ![kind] = @ + delta]
Total(sums) == sums["intake"] + sums["consumption"] + sums["waste"] + sums["adjustment"]

LEMMA TotalMoves ==
    ASSUME NEW old \in [MovementKinds -> Int], NEW kind \in MovementKinds, NEW delta \in Int
    PROVE  /\ Moved(old, kind, delta) \in [MovementKinds -> Int]
           /\ Total(Moved(old, kind, delta)) = Total(old) + delta
  BY DEF MovementKinds, Moved, Total

LEMMA CommitKeepsIInv ==
    ASSUME IInv, NEW c \in Clients, Commit(c)
    PROVE  IInv'
  <1> DEFINE t == tx[c]
  <1>1. /\ t \in TxType /\ t.phase = "commit" /\ Coherent(c) /\ t.new # None
        /\ t.lot \in Lots /\ lock[t.lot] = c /\ t.new \in RowType
        /\ t.kind \in MovementKinds \cup {None} /\ t.delta \in Int /\ t.new.qty \in Int
    BY DEF IInv, Commit, TypeOK, TransactionsCoherent, Coherent, PhaseIsConsistent,
           WriteIsAccounted, TxType, RowType
  <1>2. /\ lots' = [lots EXCEPT ![t.lot] = t.new] /\ lock' = Unlocked(c)
        /\ tx' = [tx EXCEPT ![c] = IdleTx] /\ UNCHANGED <<today, issued>>
        /\ ledger' = IF t.kind = None THEN ledger
                     ELSE [ledger EXCEPT ![t.lot][t.kind] = @ + t.delta]
    BY DEF Commit
  <1>3. /\ ledger' \in [Lots -> [MovementKinds -> Int]]
        /\ \A l \in Lots : Balance(l)' = Balance(l) + (IF l = t.lot THEN t.delta ELSE 0)
    <2>1. /\ \A l \in Lots : ledger[l] \in [MovementKinds -> Int] /\ Balance(l) \in Int
          /\ ledger \in [Lots -> [MovementKinds -> Int]]
      BY DEF IInv, TypeOK, Balance, MovementKinds
    <2>2. CASE t.kind = None
      <3>1. ledger' = ledger /\ t.delta = 0
        BY <1>1, <1>2, <2>2 DEF Coherent, WriteIsAccounted
      <3>2. \A l \in Lots : Balance(l)' = Balance(l)
        BY <3>1 DEF Balance
      <3> QED
        BY <2>1, <3>1, <3>2
    <2>3. CASE t.kind \in MovementKinds
      <3> DEFINE moved == Moved(ledger[t.lot], t.kind, t.delta)
      <3>1. t.kind # None
        BY <2>3, InventoryAssumption
      <3>2. ledger' = [ledger EXCEPT ![t.lot] = moved]
        BY <1>1, <1>2, <3>1, <2>1, Zenon DEF Moved
      <3>3. moved \in [MovementKinds -> Int] /\ Total(moved) = Balance(t.lot) + t.delta
        BY <1>1, <2>1, <2>3, TotalMoves DEF Balance, Total
      <3> HIDE DEF moved
      <3>4. ledger' \in [Lots -> [MovementKinds -> Int]]
        BY <1>1, <2>1, <3>2, <3>3
      <3>5. ASSUME NEW l \in Lots
            PROVE  Balance(l)' = Balance(l) + (IF l = t.lot THEN t.delta ELSE 0)
        <4>1. CASE l = t.lot
          BY <1>1, <2>1, <3>2, <3>3, <4>1 DEF Balance, Total
        <4>2. CASE l # t.lot
          <5>1. ledger'[l] = ledger[l]
            BY <1>1, <2>1, <3>2, <4>2
          <5>2. Balance(l)' = Balance(l)
            BY <5>1 DEF Balance
          <5> QED
            BY <2>1, <4>2, <5>2
        <4> QED
          BY <4>1, <4>2
      <3> QED
        BY <3>4, <3>5
    <2> QED
      BY <1>1, <2>2, <2>3
  <1>4. LedgerIsTruth'
    <2> SUFFICES ASSUME NEW l \in Lots
                 PROVE  /\ lots'[l] = None => Balance(l)' = 0
                        /\ lots'[l] # None => /\ Balance(l)' = lots'[l].qty
                                              /\ lots'[l].active <=> lots'[l].qty > 0
      BY DEF LedgerIsTruth
    <2>1. CASE l = t.lot
      <3>1. lots'[l] = t.new /\ Balance(l)' = Balance(l) + t.delta
        BY <1>1, <1>2, <1>3, <2>1 DEF IInv, TypeOK
      <3>2. CASE t.seen = None
        BY <1>1, <2>1, <3>1, <3>2
           DEF IInv, LedgerIsTruth, Coherent, WriteIsAccounted
      <3>3. CASE t.seen # None
        <4>1. lots[l] = t.seen /\ t.seen.qty \in Int
          BY <1>1, <2>1, <3>3 DEF Coherent, ReadIsCurrent, TxType, RowType
        <4>2. Balance(l) = t.seen.qty
          BY <3>3, <4>1 DEF IInv, LedgerIsTruth
        <4> QED
          BY <1>1, <2>1, <3>1, <3>3, <4>1, <4>2 DEF Coherent, WriteIsAccounted
      <3> QED
        BY <3>2, <3>3
    <2>2. CASE l # t.lot
      <3>1. lots'[l] = lots[l] /\ Balance(l)' = Balance(l) + 0
        BY <1>1, <1>2, <1>3, <2>2 DEF IInv, TypeOK
      <3>2. Balance(l) \in Int
        BY DEF IInv, TypeOK, Balance, MovementKinds
      <3> QED
        BY <3>1, <3>2 DEF IInv, LedgerIsTruth
    <2> QED
      BY <2>1, <2>2
  <1>5. Coherent(c)'
    BY <1>2, NoneIsNoRefusal
       DEF IInv, TypeOK, Coherent, ReadIsCurrent, WriteIsAccounted, PhaseIsConsistent, IdleTx
  <1>6. \A l \in Lots : lock[l] \notin {c, None} => lock'[l] = lock[l] /\ lots'[l] = lots[l]
    BY <1>1, <1>2 DEF IInv, TypeOK, Unlocked
  <1>7. TransactionsCoherent'
    BY <1>2, <1>5, <1>6, OthersStayCoherent DEF IInv, TypeOK
  <1>8. TypeOK'
    BY <1>1, <1>2, <1>3, IdleIsTx DEF IInv, TypeOK, Unlocked
  <1> QED
    BY <1>4, <1>7, <1>8 DEF IInv

-----------------------------------------------------------------------------
LEMMA InitImpliesIInv ==
    ASSUME Init
    PROVE  IInv
  <1>1. TypeOK
    BY IdleIsTx, InventoryAssumption DEF Init, TypeOK, NoMovements, Days
  <1>2. LedgerIsTruth
    BY DEF Init, LedgerIsTruth, Balance, NoMovements, MovementKinds
  <1>3. TransactionsCoherent
    BY NoneIsNoRefusal DEF Init, TransactionsCoherent, Coherent, ReadIsCurrent,
       WriteIsAccounted, PhaseIsConsistent, IdleTx
  <1> QED
    BY <1>1, <1>2, <1>3 DEF IInv

LEMMA BeginKeepsIInv ==
    ASSUME IInv, NEW c \in Clients, NEW cmd \in Commands, Begin(c, cmd)
    PROVE  IInv'
  <1> DEFINE new == [IdleTx EXCEPT !.phase = "find", !.cmd = cmd]
  <1>1. /\ tx[c].phase = "idle" /\ UNCHANGED <<lots, ledger, lock, today>>
        /\ issued' \in 0 .. MaxRequests
    BY InventoryAssumption DEF Begin, IInv, TypeOK
  <1>2. \/ UNCHANGED tx
        \/ EarlyRefusal(cmd) = None /\ tx' = [tx EXCEPT ![c] = new]
    BY DEF Begin
  <1>3. CASE UNCHANGED tx
    BY <1>1, <1>3 DEF IInv, TypeOK, LedgerIsTruth, Balance, TransactionsCoherent,
       Coherent, ReadIsCurrent, WriteIsAccounted, PhaseIsConsistent
  <1>4. CASE EarlyRefusal(cmd) = None /\ tx' = [tx EXCEPT ![c] = new]
    <2>1. new \in TxType
      BY IdleIsTx, Zenon DEF TxType, Phases
    <2>2. /\ new.phase = "find" /\ new.cmd = cmd /\ new.lot = None
          /\ new.seen = None /\ new.new = None
      BY DEF IdleTx
    <2>3. tx'[c] = new /\ \A d \in Clients : d # c => tx'[d] = tx[d]
      BY <1>4 DEF IInv, TypeOK
    <2>4. cmd # None
      BY InventoryAssumption
    <2> HIDE DEF new
    <2>8. Coherent(c)'
      BY <1>4, <2>2, <2>3, <2>4
         DEF Coherent, ReadIsCurrent, WriteIsAccounted, PhaseIsConsistent
    <2>5. TransactionsCoherent'
      BY <1>1, <2>3, <2>8, OthersStayCoherent DEF IInv
    <2>6. TypeOK'
      BY <1>1, <1>4, <2>1 DEF IInv, TypeOK
    <2>7. LedgerIsTruth'
      BY <1>1 DEF IInv, LedgerIsTruth, Balance
    <2> QED
      BY <2>5, <2>6, <2>7 DEF IInv
  <1> QED
    BY <1>2, <1>3, <1>4

LEMMA EnterIndexKeepsIInv ==
    ASSUME IInv, NEW c \in Clients, EnterIndex(c)
    PROVE  IInv'
  <1> DEFINE t == tx[c]
             new == [t EXCEPT !.phase = "commit"]
  <1>1. t \in TxType /\ t.phase = "index" /\ Coherent(c)
    BY DEF IInv, EnterIndex, TypeOK, TransactionsCoherent
  <1>2. tx' = [tx EXCEPT ![c] = new]
    BY <1>1, Zenon DEF EnterIndex, IInv, TypeOK
  <1>3. new \in TxType
    BY <1>1, Zenon DEF TxType, Phases
  <1>4. /\ new.phase = "commit" /\ new.lot = t.lot /\ new.cmd = t.cmd /\ new.seen = t.seen
        /\ new.new = t.new /\ new.kind = t.kind /\ new.delta = t.delta
    BY <1>1, Zenon DEF TxType
  <1>5. UNCHANGED <<lots, ledger, lock, today, issued>>
    BY DEF EnterIndex
  <1>6. tx'[c] = new => Coherent(c)'
    BY <1>1, <1>4, <1>5 DEF Coherent, ReadIsCurrent, WriteIsAccounted, PhaseIsConsistent
  <1> QED
    BY <1>2, <1>3, <1>5, <1>6, LocalStep DEF IInv, TypeOK

LEMMA StutterKeepsIInv ==
    ASSUME IInv, UNCHANGED <<lots, ledger, lock, tx, issued>>, today' \in Days
    PROVE  IInv'
  BY DEF IInv, TypeOK, LedgerIsTruth, Balance, TransactionsCoherent,
     Coherent, ReadIsCurrent, WriteIsAccounted, PhaseIsConsistent

LEMMA NextKeepsIInv ==
    ASSUME IInv, [Next]_vars
    PROVE  IInv'
  <1>1. ASSUME NEW c \in Clients, NEW cmd \in Commands, Begin(c, cmd)
        PROVE  IInv'
    BY <1>1, BeginKeepsIInv
  <1>2. ASSUME NEW c \in Clients, Interrupt(c)
        PROVE  IInv'
    BY <1>2, RollbackKeepsIInv DEF Interrupt
  <1>3. ASSUME NEW c \in Clients, Serve(c)
        PROVE  IInv'
    <2>1. ASSUME NEW l \in Lots, FindRow(c, l) \/ InsertLot(c, l)
          PROVE  IInv'
      BY <2>1, FindRowKeepsIInv, InsertLotKeepsIInv
    <2>2. CASE FindNothingToMerge(c) \/ LockRow(c) \/ LockStaleRow(c)
      BY <2>2, FindNothingKeepsIInv, LockRowKeepsIInv, LockStaleRowKeepsIInv
    <2>3. CASE FindNoItem(c) \/ LockGoneItem(c) \/ LoseIndex(c) \/ DeadlockVictim(c)
      BY <2>3, RollbackKeepsIInv DEF FindNoItem, LockGoneItem, LoseIndex, DeadlockVictim
    <2>4. CASE DecideFreeze(c) \/ DecideThaw(c)
      BY <2>4, DecideKeepsIInv DEF DecideFreeze, DecideThaw
    <2>5. CASE MergeIntoLot(c) \/ UpdateLot(c) \/ RemoveLot(c)
      BY <2>5, MergeKeepsIInv, UpdateKeepsIInv, RemoveKeepsIInv
    <2>6. CASE FreezeLot(c) \/ ThawLot(c)
      BY <2>6, FreezeKeepsIInv, ThawKeepsIInv
    <2>7. CASE EnterIndex(c) \/ Commit(c)
      BY <2>7, EnterIndexKeepsIInv, CommitKeepsIInv
    <2> QED
      BY <1>3, <2>1, <2>2, <2>3, <2>4, <2>5, <2>6, <2>7 DEF Serve
  <1>4. CASE Tick \/ Finished \/ UNCHANGED vars
    <2>1. today' \in Days /\ UNCHANGED <<lots, ledger, lock, tx, issued>>
      BY <1>4, InventoryAssumption DEF Tick, Finished, vars, IInv, TypeOK, Days
    <2> QED
      BY <2>1, StutterKeepsIInv
  <1> QED
    BY <1>1, <1>2, <1>3, <1>4 DEF Next

LEMMA SpecKeepsIInv == Spec => []IInv
  <1>1. Init => IInv
    BY InitImpliesIInv
  <1>2. IInv /\ [Next]_vars => IInv'
    BY NextKeepsIInv
  <1> QED
    BY <1>1, <1>2, PTL DEF Spec

(* Every variable keeps its shape, whatever the requests and their number.  *)
THEOREM TypeCorrect == Spec => []TypeOK
  BY SpecKeepsIInv, PTL DEF IInv

(* quantity_canonical is always the sum of the committed movements, and a   *)
(* lot is active exactly when something is left of it.                      *)
THEOREM LedgerCorrect == Spec => []LedgerIsTruth
  BY SpecKeepsIInv, PTL DEF IInv

(* Between its SELECT ... FOR UPDATE and its commit a request works on the  *)
(* committed row, and what it will commit is accounted for.                 *)
THEOREM CoherentTransactions == Spec => []TransactionsCoherent
  BY SpecKeepsIInv, PTL DEF IInv

-----------------------------------------------------------------------------
(* What a commit may replace.                                               *)

LEMMA OnlyCommitWrites ==
    ASSUME [Next]_vars
    PROVE  UNCHANGED <<lots, ledger>> \/ \E c \in Clients : Commit(c)
  <1>1. ASSUME NEW c \in Clients, NEW outcome, Rollback(c, outcome)
        PROVE  UNCHANGED <<lots, ledger>>
    BY <1>1 DEF Rollback
  <1>2. ASSUME NEW c \in Clients, NEW l, NEW row, NEW kind, NEW delta,
               Write(c, l, row, kind, delta)
        PROVE  UNCHANGED <<lots, ledger>>
    BY <1>1, <1>2 DEF Write
  <1>3. ASSUME NEW c \in Clients, NEW refusal, NEW kind, Decide(c, refusal, kind)
        PROVE  UNCHANGED <<lots, ledger>>
    BY <1>1, <1>3 DEF Decide
  <1>4. ASSUME NEW c \in Clients, Serve(c), ~Commit(c)
        PROVE  UNCHANGED <<lots, ledger>>
    <2>1. CASE \E l \in Lots : FindRow(c, l) \/ InsertLot(c, l)
      BY <2>1, <1>2 DEF FindRow, InsertLot
    <2>2. CASE FindNothingToMerge(c) \/ LockRow(c) \/ LockStaleRow(c) \/ EnterIndex(c)
      BY <2>2 DEF FindNothingToMerge, LockRow, LockStaleRow, EnterIndex
    <2>3. CASE FindNoItem(c) \/ LockGoneItem(c) \/ LoseIndex(c) \/ DeadlockVictim(c)
      BY <2>3, <1>1 DEF FindNoItem, LockGoneItem, LoseIndex, DeadlockVictim
    <2>4. CASE DecideFreeze(c) \/ DecideThaw(c)
      BY <2>4, <1>3 DEF DecideFreeze, DecideThaw
    <2>5. CASE MergeIntoLot(c)
      BY <2>5, <1>2 DEF MergeIntoLot
    <2>6. CASE UpdateLot(c)
      BY <2>6, <1>1, <1>2 DEF UpdateLot
    <2>7. CASE RemoveLot(c)
      BY <2>7, <1>2 DEF RemoveLot
    <2>8. CASE FreezeLot(c)
      BY <2>8, <1>2 DEF FreezeLot
    <2>9. CASE ThawLot(c)
      BY <2>9, <1>2 DEF ThawLot
    <2> QED
      BY <1>4, <2>1, <2>2, <2>3, <2>4, <2>5, <2>6, <2>7, <2>8, <2>9 DEF Serve
  <1>5. ASSUME NEW c \in Clients, NEW cmd \in Commands, Begin(c, cmd)
        PROVE  UNCHANGED <<lots, ledger>>
    BY <1>5 DEF Begin
  <1>6. ASSUME NEW c \in Clients, Interrupt(c)
        PROVE  UNCHANGED <<lots, ledger>>
    BY <1>6, <1>1 DEF Interrupt
  <1>7. CASE Tick \/ Finished \/ UNCHANGED vars
    BY <1>7 DEF Tick, Finished, vars
  <1> QED
    BY <1>4, <1>5, <1>6, <1>7 DEF Next

(* The version a commit replaces is the one its request had read.           *)
LEMMA CommitReplacesWhatItRead ==
    ASSUME IInv, NEW c \in Clients, Commit(c)
    PROVE  /\ tx[c].phase = "commit" /\ tx[c].seen = lots[tx[c].lot]
           /\ tx[c].seen # None => tx[c].seen.active
           /\ \A l \in Lots : l # tx[c].lot => lots'[l] = lots[l] /\ ledger'[l] = ledger[l]
  <1>1. /\ tx[c].phase = "commit" /\ tx[c].lot \in Lots /\ tx[c].new # None
        /\ Coherent(c)
    BY DEF Commit, IInv, TransactionsCoherent, Coherent, PhaseIsConsistent, WriteIsAccounted
  <1>2. tx[c].seen = lots[tx[c].lot] /\ (tx[c].seen # None => tx[c].seen.active)
    BY <1>1 DEF Coherent, ReadIsCurrent, WriteIsAccounted
  <1>3. \A l \in Lots : l # tx[c].lot => lots'[l] = lots[l] /\ ledger'[l] = ledger[l]
    BY <1>1 DEF Commit, IInv, TypeOK
  <1> QED
    BY <1>1, <1>2, <1>3

(* No update is lost: a commit replaces the version its request read under  *)
(* the row lock, for any number of requests.                                *)
THEOREM UpdatesAreNotLost == Spec => NoLostUpdate
  <1>1. IInv /\ [Next]_vars => [\A l \in Lots : lots'[l] # lots[l] =>
            \E c \in Clients : /\ tx[c].phase = "commit" /\ tx[c].lot = l
                               /\ tx[c].seen = lots[l]]_vars
    <2> SUFFICES ASSUME IInv, [Next]_vars, NEW l \in Lots, lots'[l] # lots[l]
                 PROVE  \E c \in Clients : /\ tx[c].phase = "commit" /\ tx[c].lot = l
                                           /\ tx[c].seen = lots[l]
      OBVIOUS
    <2>1. PICK c \in Clients : Commit(c)
      BY OnlyCommitWrites
    <2>2. tx[c].phase = "commit" /\ tx[c].lot = l /\ tx[c].seen = lots[l]
      BY <2>1, CommitReplacesWhatItRead
    <2> QED
      BY <2>2
  <1> QED
    BY <1>1, SpecKeepsIInv, PTL DEF Spec, NoLostUpdate

(* A depleted lot and its movements never change again: no request can read *)
(* it for update, so none can commit over it.                               *)
THEOREM DepletionIsFinal == Spec => DepletedIsFinal
  <1>1. IInv /\ [Next]_vars => [\A l \in Lots : lots[l] # None /\ ~lots[l].active =>
            lots'[l] = lots[l] /\ ledger'[l] = ledger[l]]_vars
    <2> SUFFICES ASSUME IInv, [Next]_vars, NEW l \in Lots, lots[l] # None, ~lots[l].active
                 PROVE  lots'[l] = lots[l] /\ ledger'[l] = ledger[l]
      OBVIOUS
    <2>1. CASE UNCHANGED <<lots, ledger>>
      BY <2>1
    <2>2. CASE \E c \in Clients : Commit(c)
      BY <2>2, CommitReplacesWhatItRead
    <2> QED
      BY <2>1, <2>2, OnlyCommitWrites
  <1> QED
    BY <1>1, SpecKeepsIInv, PTL DEF Spec, DepletedIsFinal

-----------------------------------------------------------------------------
(* One active lot per merge key.  A version that has entered the index      *)
(* meets no other committed row, nor another version that has.              *)

IndexedApart(c) ==
    Indexed(c) =>
        /\ \A l \in Lots : l # tx[c].lot => ~SameKey(tx[c].new, lots[l])
        /\ \A d \in Clients : d # c /\ Indexed(d) => ~SameKey(tx[c].new, tx[d].new)

IndexInv == OneLotPerMergeKey /\ \A c \in Clients : IndexedApart(c)

LEMMA SameKeySymmetric ==
    ASSUME NEW row, NEW other
    PROVE  SameKey(row, other) <=> SameKey(other, row)
  BY DEF SameKey

(* A step of one transaction that commits nothing.                          *)
LEMMA LocalStepKeepsIndex ==
    ASSUME IndexInv, NEW c \in Clients, UNCHANGED lots,
           \A d \in Clients : d # c => tx'[d] = tx[d],
           IndexedApart(c)'
    PROVE  IndexInv'
  <1>1. OneLotPerMergeKey'
    BY DEF IndexInv, OneLotPerMergeKey, SameKey, Active, MergeKey
  <1>2. ASSUME NEW e \in Clients, e # c
        PROVE  IndexedApart(e)'
    <2>1. IndexedApart(e) /\ tx'[e] = tx[e]
      BY <1>2 DEF IndexInv
    <2>2. SUFFICES ASSUME Indexed(e)'
                   PROVE  /\ \A l \in Lots : l # tx[e].lot => ~SameKey(tx[e].new, lots[l])
                          /\ \A d \in Clients : d # e /\ Indexed(d)' =>
                                ~SameKey(tx[e].new, tx'[d].new)
      BY <2>1 DEF IndexedApart, SameKey, Active, MergeKey
    <2>3. Indexed(e)
      BY <2>1, <2>2 DEF Indexed, Pending
    <2>4. ASSUME NEW d \in Clients, d # e, Indexed(d)'
          PROVE  ~SameKey(tx[e].new, tx'[d].new)
      <3>1. CASE d = c
        BY <1>2, <2>1, <2>2, <2>4, <3>1, SameKeySymmetric
           DEF IndexedApart, SameKey, Active, MergeKey
      <3>2. CASE d # c
        BY <2>1, <2>3, <2>4, <3>2 DEF IndexedApart, Indexed, Pending
      <3> QED
        BY <3>1, <3>2
    <2> QED
      BY <2>1, <2>3, <2>4 DEF IndexedApart
  <1> QED
    BY <1>1, <1>2 DEF IndexInv

LEMMA RollbackKeepsIndex ==
    ASSUME TypeOK, IndexInv, NEW c \in Clients, NEW outcome, Rollback(c, outcome)
    PROVE  IndexInv'
  <1>1. /\ tx'[c] = IdleTx /\ UNCHANGED lots
        /\ \A d \in Clients : d # c => tx'[d] = tx[d]
    BY DEF Rollback, TypeOK
  <1>2. IndexedApart(c)'
    BY <1>1 DEF IndexedApart, Indexed, Pending, IdleTx
  <1> QED
    BY <1>1, <1>2, LocalStepKeepsIndex

(* A version whose key is that of the row it replaces has it already.       *)
LEMMA WriteKeepsIndex ==
    ASSUME IInv, IndexInv, NEW c \in Clients, NEW l \in Lots, NEW row, NEW kind, NEW delta,
           tx[c].phase = "write", tx[c].seen # None => l = tx[c].lot,
           Write(c, l, row, kind, delta)
    PROVE  IndexInv'
  <1> DEFINE t == tx[c]
             next == IF row.active /\ (t.seen = None \/ MergeKey(row) # MergeKey(t.seen))
                     THEN "index" ELSE "commit"
  <1>1. CASE ~ChecksHold(row)
    BY <1>1, RollbackKeepsIndex DEF Write, IInv
  <1>2. CASE ChecksHold(row)
    <2>1. /\ t \in TxType /\ Coherent(c)
      BY DEF IInv, TypeOK, TransactionsCoherent
    <2>2. /\ \A d \in Clients : d # c => tx'[d] = tx[d]
          /\ UNCHANGED lots
          /\ tx'[c] = [t EXCEPT !.lot = l, !.new = row, !.kind = kind, !.delta = delta,
                                !.phase = next]
      BY <1>2, <2>1 DEF Write, IInv, TypeOK
    <2> HIDE DEF next
    <2>3. tx'[c].lot = l /\ tx'[c].new = row /\ tx'[c].phase = next
      BY <2>1, <2>2 DEF TxType
    <2>4. IndexedApart(c)'
      <3>1. SUFFICES ASSUME Indexed(c)', row # None, row.active
                     PROVE  /\ \A m \in Lots : m # l => ~SameKey(row, lots[m])
                            /\ \A d \in Clients : d # c /\ Indexed(d) => ~SameKey(row, tx[d].new)
        BY <2>2, <2>3 DEF IndexedApart, SameKey, Active, MergeKey, Indexed, Pending
      <3>2. t.seen # None /\ MergeKey(row) = MergeKey(t.seen)
        BY <2>3, <3>1 DEF next, Indexed
      <3>3. l = t.lot /\ lots[l] = t.seen /\ Active(lots[l]) /\ lock[l] = c
        BY <2>1, <3>2 DEF Coherent, ReadIsCurrent, Active
      <3>4. \A other : SameKey(row, other) => SameKey(lots[l], other)
        BY <3>1, <3>2, <3>3 DEF SameKey, Active
      <3>5. ASSUME NEW d \in Clients, d # c, Indexed(d)
            PROVE  ~SameKey(row, tx[d].new)
        <4>1. tx[d].lot # l
          BY <3>3, <3>5 DEF IInv, TransactionsCoherent, Coherent, WriteIsAccounted,
             Indexed, Pending
        <4>2. ~SameKey(tx[d].new, lots[l])
          BY <3>5, <4>1 DEF IndexInv, IndexedApart
        <4> QED
          BY <3>4, <4>2, SameKeySymmetric
      <3> QED
        BY <3>3, <3>4, <3>5 DEF IndexInv, OneLotPerMergeKey
    <2> QED
      BY <2>2, <2>4, LocalStepKeepsIndex
  <1> QED
    BY <1>1, <1>2

(* A version enters once no entry of its key is in doubt or settled.        *)
LEMMA EnterIndexKeepsIndex ==
    ASSUME IInv, IndexInv, NEW c \in Clients, EnterIndex(c)
    PROVE  IndexInv'
  <1>1. /\ tx'[c] = [tx[c] EXCEPT !.phase = "commit"] /\ UNCHANGED lots
        /\ \A d \in Clients : d # c => tx'[d] = tx[d]
        /\ tx[c] \in TxType
    BY DEF EnterIndex, IInv, TypeOK
  <1>2. tx'[c].lot = tx[c].lot /\ tx'[c].new = tx[c].new
    BY <1>1 DEF TxType
  <1>3. ASSUME NEW d \in Clients, d # c, Pending(d)
        PROVE  /\ Indexed(d) => ~SameKey(tx[c].new, tx[d].new)
               /\ ~SameKey(tx[c].new, lots[tx[d].lot])
    BY <1>3 DEF EnterIndex, InDoubt
  <1>4. ASSUME NEW l \in Lots, l # tx[c].lot
        PROVE  ~SameKey(tx[c].new, lots[l])
    <2>1. CASE Superseded(l)
      BY <1>3, <1>4, <2>1 DEF Superseded
    <2>2. CASE ~Superseded(l)
      BY <1>4, <2>2 DEF EnterIndex, Taken
    <2> QED
      BY <2>1, <2>2
  <1>5. IndexedApart(c)'
    BY <1>1, <1>2, <1>3, <1>4 DEF IndexedApart, Indexed, Pending, SameKey, Active, MergeKey
  <1> QED
    BY <1>1, <1>5, LocalStepKeepsIndex

LEMMA CommitKeepsIndex ==
    ASSUME IInv, IndexInv, NEW c \in Clients, Commit(c)
    PROVE  IndexInv'
  <1> DEFINE t == tx[c]
  <1>1. /\ t.lot \in Lots /\ lock[t.lot] = c /\ Indexed(c)
        /\ lots' = [lots EXCEPT ![t.lot] = t.new]
        /\ tx'[c] = IdleTx /\ \A d \in Clients : d # c => tx'[d] = tx[d]
    BY DEF Commit, Indexed, Pending, IInv, TypeOK, TransactionsCoherent, Coherent,
       PhaseIsConsistent, WriteIsAccounted
  <1>2. /\ lots'[t.lot] = t.new
        /\ \A l \in Lots : l # t.lot => lots'[l] = lots[l] /\ ~SameKey(t.new, lots[l])
    BY <1>1 DEF IInv, TypeOK, IndexInv, IndexedApart
  <1>3. OneLotPerMergeKey'
    <2> SUFFICES ASSUME NEW l \in Lots, NEW m \in Lots, l # m
                 PROVE  ~SameKey(lots'[l], lots'[m])
      BY DEF OneLotPerMergeKey, SameKey, Active, MergeKey
    <2> QED
      BY <1>2, SameKeySymmetric DEF IndexInv, OneLotPerMergeKey
  <1>4. ASSUME NEW e \in Clients
        PROVE  IndexedApart(e)'
    <2>1. CASE e = c
      BY <1>1, <2>1 DEF IndexedApart, Indexed, Pending, IdleTx
    <2>2. CASE e # c /\ ~Indexed(e)
      BY <1>1, <2>2 DEF IndexedApart, Indexed, Pending
    <2>3. CASE e # c /\ Indexed(e)
      <3>1. tx'[e] = tx[e] /\ ~SameKey(tx[e].new, t.new)
            /\ \A l \in Lots : l # tx[e].lot => ~SameKey(tx[e].new, lots[l])
        BY <1>1, <2>3 DEF IndexInv, IndexedApart
      <3>2. \A l \in Lots : l # tx[e].lot => ~SameKey(tx[e].new, lots'[l])
        BY <1>2, <3>1
      <3>3. \A d \in Clients : d # e /\ Indexed(d)' => ~SameKey(tx[e].new, tx'[d].new)
        BY <1>1, <2>3 DEF IndexInv, IndexedApart, Indexed, Pending, IdleTx
      <3> QED
        BY <3>1, <3>2, <3>3 DEF IndexedApart, SameKey, Active, MergeKey
    <2> QED
      BY <2>1, <2>2, <2>3
  <1> QED
    BY <1>3, <1>4 DEF IndexInv

(* The steps of a transaction before it writes.                             *)
LEMMA ReadingKeepsIndex ==
    ASSUME TypeOK, IndexInv, NEW c \in Clients, UNCHANGED lots,
           \A d \in Clients : d # c => tx'[d] = tx[d], tx'[c].phase # "commit"
    PROVE  IndexInv'
  <1>1. IndexedApart(c)'
    BY DEF IndexedApart, Indexed
  <1> QED
    BY <1>1, LocalStepKeepsIndex

LEMMA NextKeepsIndex ==
    ASSUME IInv, IndexInv, [Next]_vars
    PROVE  IndexInv'
  <1>1. ASSUME NEW c \in Clients, NEW cmd \in Commands, Begin(c, cmd)
        PROVE  IndexInv'
    BY <1>1, ReadingKeepsIndex DEF Begin, IInv, TypeOK, IdleTx, TxType
  <1>2. ASSUME NEW c \in Clients, Interrupt(c)
        PROVE  IndexInv'
    BY <1>2, RollbackKeepsIndex DEF Interrupt, IInv
  <1>3. ASSUME NEW c \in Clients, Serve(c)
        PROVE  IndexInv'
    <2>0. tx[c] \in TxType /\ tx \in [Clients -> TxType]
      BY DEF IInv, TypeOK
    <2>1. CASE \E l \in Lots : FindRow(c, l)
      BY <2>0, <2>1, ReadingKeepsIndex DEF FindRow, IInv, TxType
    <2>2. CASE FindNothingToMerge(c) \/ LockStaleRow(c)
      BY <2>0, <2>2, ReadingKeepsIndex DEF FindNothingToMerge, LockStaleRow, IInv, TxType
    <2>3. CASE LockRow(c)
      BY <2>0, <2>3, ReadingKeepsIndex DEF LockRow, IInv, TxType
    <2>4. CASE FindNoItem(c) \/ LockGoneItem(c) \/ LoseIndex(c) \/ DeadlockVictim(c)
      BY <2>4, RollbackKeepsIndex DEF FindNoItem, LockGoneItem, LoseIndex, DeadlockVictim, IInv
    <2>5. CASE DecideFreeze(c) \/ DecideThaw(c)
      <3>1. ASSUME NEW refusal, NEW kind, Decide(c, refusal, kind)
            PROVE  IndexInv'
        BY <2>0, <3>1, RollbackKeepsIndex, ReadingKeepsIndex DEF Decide, IInv, TxType
      <3> QED
        BY <2>5, <3>1 DEF DecideFreeze, DecideThaw
    <2>6. CASE \E l \in Lots : InsertLot(c, l)
      BY <2>6, WriteKeepsIndex DEF InsertLot
    <2>7. ASSUME NEW row, NEW kind, NEW delta, tx[c].phase = "write", tx[c].seen # None,
                 Write(c, tx[c].lot, row, kind, delta)
          PROVE  IndexInv'
      BY <2>7, AboutToWrite, WriteKeepsIndex
    <2>8. tx[c].phase = "write" /\ tx[c].cmd.op # "add" => tx[c].seen # None
      BY AboutToWrite
    <2>9. CASE MergeIntoLot(c)
      BY <2>7, <2>9 DEF MergeIntoLot
    <2>10. CASE UpdateLot(c)
      BY <2>7, <2>8, <2>10, RollbackKeepsIndex DEF UpdateLot, IInv
    <2>11. CASE RemoveLot(c)
      BY <2>7, <2>8, <2>11 DEF RemoveLot
    <2>12. CASE FreezeLot(c)
      BY <2>7, <2>8, <2>12 DEF FreezeLot
    <2>13. CASE ThawLot(c)
      BY <2>7, <2>8, <2>13 DEF ThawLot
    <2>14. CASE EnterIndex(c) \/ Commit(c)
      BY <2>14, EnterIndexKeepsIndex, CommitKeepsIndex
    <2> QED
      BY <1>3, <2>1, <2>2, <2>3, <2>4, <2>5, <2>6, <2>9, <2>10, <2>11, <2>12, <2>13, <2>14
         DEF Serve
  <1>4. CASE Tick \/ Finished \/ UNCHANGED vars
    BY <1>4 DEF Tick, Finished, vars, IndexInv, OneLotPerMergeKey, IndexedApart, Indexed,
       Pending, SameKey, Active, MergeKey
  <1> QED
    BY <1>1, <1>2, <1>3, <1>4 DEF Next

(* The unique index keeps one active lot for each merge key, however many   *)
(* requests insert, merge and move lots to each other's place.              *)
THEOREM OneLotPerKey == Spec => []OneLotPerMergeKey
  <1>1. Init => IndexInv
    BY DEF Init, IndexInv, OneLotPerMergeKey, IndexedApart, Indexed, Pending, SameKey,
       Active, IdleTx
  <1>2. IInv /\ IndexInv /\ [Next]_vars => IndexInv'
    BY NextKeepsIndex
  <1>3. IndexInv => OneLotPerMergeKey
    BY DEF IndexInv
  <1> QED
    BY <1>1, <1>2, <1>3, SpecKeepsIInv, PTL DEF Spec

-----------------------------------------------------------------------------
(* The clocks.  A freeze or a thaw was judged on the row its request holds, *)
(* and the version it is about to commit moves no other clock.              *)

LEMMA ExpiryType ==
    ASSUME NEW row \in RowType
    PROVE  Expiry(row) \in Int \cup {None}
  <1>1. /\ row.bestBefore \in Int \cup {None} /\ row.opened \in Int \cup {None}
        /\ row.frozen \in Int \cup {None} /\ row.thawed \in Int \cup {None}
        /\ row.product \in Products
    BY DEF RowType, Days
  <1>2. /\ OpenedDays[row.product] \in Nat \cup {None}
        /\ HomeFrozenDays[row.product] \in Nat \cup {None}
    BY <1>1, InventoryAssumption
  <1>3. /\ Plus(row.opened, OpenedDays[row.product]) \in Int \cup {None}
        /\ Plus(row.frozen, HomeFrozenDays[row.product]) \in Int \cup {None}
    BY <1>1, <1>2 DEF Plus
  <1>4. Least(row.bestBefore, Plus(row.opened, OpenedDays[row.product])) \in Int \cup {None}
    BY <1>1, <1>3 DEF Least
  <1> QED
    BY <1>1, <1>3, <1>4, ShelfLifeAssumption DEF Expiry, EffectiveExpiry

Clocked(c) ==
    LET t == tx[c]
    IN  /\ t.phase = "write" /\ t.cmd.op = "freeze" => MayFreeze(t.seen, t.day)
        /\ t.phase = "write" /\ t.cmd.op = "thaw" => MayThaw(t.seen)
        /\ t.new # None /\ t.seen # None => ClocksMove(t.seen, t.new, t.cmd.op = "update")

Clocks == \A c \in Clients : Clocked(c)

(* A step that judges nothing and leaves the pending version of its client  *)
(* as it is, or takes it away.                                              *)
LEMMA QuietClocks ==
    ASSUME Clocks, NEW c \in Clients,
           \A d \in Clients : d # c => tx'[d] = tx[d],
           tx'[c].phase # "write" \/ tx'[c].cmd.op \notin {"freeze", "thaw"},
           \/ tx'[c].new = None
           \/ /\ tx'[c].new = tx[c].new /\ tx'[c].seen = tx[c].seen
              /\ tx'[c].cmd = tx[c].cmd
    PROVE  Clocks'
  <1>1. ASSUME NEW d \in Clients, d # c
        PROVE  Clocked(d)'
    BY <1>1 DEF Clocks, Clocked
  <1>2. Clocked(c)'
    BY DEF Clocks, Clocked
  <1> QED
    BY <1>1, <1>2 DEF Clocks

LEMMA RollbackKeepsClocks ==
    ASSUME IInv, Clocks, NEW c \in Clients, NEW outcome, Rollback(c, outcome)
    PROVE  Clocks'
  <1>1. tx' = [tx EXCEPT ![c] = IdleTx] /\ tx \in [Clients -> TxType]
    BY DEF Rollback, IInv, TypeOK
  <1>2. /\ tx'[c].new = None /\ tx'[c].phase = "idle"
        /\ \A d \in Clients : d # c => tx'[d] = tx[d]
    BY <1>1 DEF IdleTx
  <1> QED
    BY <1>2, QuietClocks

LEMMA DecideKeepsClocks ==
    ASSUME IInv, Clocks, NEW c \in Clients, NEW refusal, NEW kind, Decide(c, refusal, kind),
           tx[c].cmd.op \in {"freeze", "thaw"},
           refusal = None /\ tx[c].cmd.op = "freeze" => MayFreeze(tx[c].seen, today),
           refusal = None /\ tx[c].cmd.op = "thaw" => MayThaw(tx[c].seen)
    PROVE  Clocks'
  <1> DEFINE t == tx[c]
             dest == Destination(t.lot, kind)
             new == [t EXCEPT !.dest = dest, !.day = today, !.phase = "write"]
  <1>1. CASE refusal # None
    BY <1>1, RollbackKeepsClocks DEF Decide
  <1>2. CASE refusal = None
    <2>1. t \in TxType /\ t.phase = "decide" /\ t.new = None /\ tx \in [Clients -> TxType]
      BY <1>2 DEF IInv, Decide, TypeOK, TransactionsCoherent, Coherent, PhaseIsConsistent
    <2>2. tx' = [tx EXCEPT ![c] = new]
      BY <1>2, <2>1, Zenon DEF Decide
    <2> HIDE DEF dest
    <2>3. /\ new.phase = "write" /\ new.cmd = t.cmd
          /\ new.seen = t.seen /\ new.new = t.new /\ new.day = today
      BY <2>1, Zenon DEF TxType
    <2>4. tx'[c] = new /\ \A d \in Clients : d # c => tx'[d] = tx[d]
      BY <2>1, <2>2
    <2> HIDE DEF new
    <2>5. Clocked(c)'
      BY <1>2, <2>1, <2>3, <2>4 DEF Clocked
    <2>6. ASSUME NEW d \in Clients, d # c
          PROVE  Clocked(d)'
      BY <2>4, <2>6 DEF Clocks, Clocked
    <2> QED
      BY <2>5, <2>6 DEF Clocks
  <1> QED
    BY <1>1, <1>2

(* What the two refusals let through.                                       *)
LEMMA DecidingKeepsClocks ==
    ASSUME IInv, Clocks, NEW c \in Clients, DecideFreeze(c) \/ DecideThaw(c)
    PROVE  Clocks'
  <1>1. /\ tx[c].phase = "decide" /\ tx[c].seen # None /\ tx[c].seen \in RowType
        /\ today \in Int
    BY DEF DecideFreeze, DecideThaw, Decide, IInv, TypeOK, TransactionsCoherent, Coherent,
           PhaseIsConsistent, TxType, Days
  <1> DEFINE row == tx[c].seen
  <1>2. None \notin {"already_thawed", "already_frozen", "already_expired", "not_frozen"}
    BY InventoryAssumption DEF Refusals
  <1>3. CASE DecideFreeze(c)
    <2>1. FreezeRefusal(row) = None => MayFreeze(row, today)
      BY <1>1, <1>2, ExpiryType DEF FreezeRefusal, MayFreeze
    <2> QED
      BY <1>3, <2>1, DecideKeepsClocks DEF DecideFreeze
  <1>4. CASE DecideThaw(c)
    <2>1. ThawRefusal(row) = None => MayThaw(row)
      BY <1>2 DEF ThawRefusal, MayThaw
    <2> QED
      BY <1>4, <2>1, DecideKeepsClocks DEF DecideThaw
  <1> QED
    BY <1>3, <1>4

LEMMA WriteKeepsClocks ==
    ASSUME IInv, Clocks, NEW c \in Clients, NEW l, NEW row, NEW kind, NEW delta,
           Write(c, l, row, kind, delta),
           tx[c].seen # None => ClocksMove(tx[c].seen, row, tx[c].cmd.op = "update")
    PROVE  Clocks'
  <1> DEFINE t == tx[c]
             next == IF row.active /\ (t.seen = None \/ MergeKey(row) # MergeKey(t.seen))
                     THEN "index" ELSE "commit"
             new == [t EXCEPT !.lot = l, !.new = row, !.kind = kind, !.delta = delta,
                              !.phase = next]
  <1>1. CASE ~ChecksHold(row)
    BY <1>1, RollbackKeepsClocks DEF Write
  <1>2. CASE ChecksHold(row)
    <2>1. t \in TxType /\ tx \in [Clients -> TxType]
      BY DEF IInv, TypeOK
    <2>2. tx' = [tx EXCEPT ![c] = new]
      BY <1>2, <2>1, Zenon DEF Write
    <2>0. next # "write"
      OBVIOUS
    <2> HIDE DEF next
    <2>3. new.seen = t.seen /\ new.new = row /\ new.cmd = t.cmd /\ new.phase = next
      BY <2>1, Zenon DEF TxType
    <2>4. tx'[c] = new /\ \A d \in Clients : d # c => tx'[d] = tx[d]
      BY <2>1, <2>2
    <2> HIDE DEF new
    <2>6. Clocked(c)'
      BY <2>0, <2>3, <2>4 DEF Clocked
    <2>7. ASSUME NEW d \in Clients, d # c
          PROVE  Clocked(d)'
      BY <2>4, <2>7 DEF Clocks, Clocked
    <2> QED
      BY <2>6, <2>7 DEF Clocks
  <1> QED
    BY <1>1, <1>2

(* Versions with the dates of the one they replace.                         *)
LEMMA SameDates ==
    ASSUME NEW old, NEW new, NEW edited \in BOOLEAN,
           new.frozen = old.frozen, new.thawed = old.thawed, new.product = old.product,
           new.bestBefore = old.bestBefore, new.opened = old.opened
    PROVE  ClocksMove(old, new, edited)
  BY DEF ClocksMove, Expiry

LEMMA WritingKeepsClocks ==
    ASSUME IInv, Clocks, NEW c \in Clients,
           \/ \E l \in Lots : InsertLot(c, l)
           \/ MergeIntoLot(c) \/ UpdateLot(c)
           \/ FreezeLot(c) \/ ThawLot(c) \/ RemoveLot(c)
    PROVE  Clocks'
  <1> DEFINE cmd == tx[c].cmd
             row == tx[c].seen
             edited == cmd.op = "update"
  <1>1. /\ tx[c].phase = "write"
        /\ row # None => row \in RowType
        /\ row # None \/ cmd.op = "add"
    BY AboutToWrite DEF InsertLot, MergeIntoLot, UpdateLot, FreezeLot, ThawLot, RemoveLot
  <1>0. edited \in BOOLEAN
    OBVIOUS
  <1>2. CASE \E l \in Lots : InsertLot(c, l)
    BY <1>2, WriteKeepsClocks DEF InsertLot
  <1>3. CASE MergeIntoLot(c)
    <2>1. row \in RowType
      BY <1>1, <1>3 DEF MergeIntoLot
    <2>2. LET new == Merged(cmd, row)
          IN  /\ new.frozen = row.frozen /\ new.thawed = row.thawed
              /\ new.product = row.product /\ new.bestBefore = row.bestBefore
              /\ new.opened = row.opened
      BY <2>1 DEF Merged, RowType
    <2>3. ClocksMove(row, Merged(cmd, row), edited)
      BY <1>0, <2>2, SameDates
    <2> QED
      BY <1>3, <2>3, WriteKeepsClocks DEF MergeIntoLot
  <1>4. CASE UpdateLot(c)
    <2> DEFINE new == Updated(cmd, row)
    <2>1. CASE UpdateRefusal(cmd, row) # None
      BY <1>4, <2>1, RollbackKeepsClocks DEF UpdateLot
    <2>2. CASE UpdateRefusal(cmd, row) = None
      <3>1. row \in RowType /\ cmd.op = "update"
        BY <1>1, <1>4 DEF UpdateLot
      <3>2. new.frozen = row.frozen /\ new.thawed = row.thawed
        BY <3>1 DEF Updated, Requantify, RowType
      <3>3. ClocksMove(row, new, edited)
        BY <3>1, <3>2 DEF ClocksMove
      <3> HIDE DEF new
      <3>4. \E kind, delta : Write(c, tx[c].lot, new, kind, delta)
        BY <1>4, <2>2 DEF UpdateLot, new
      <3> QED
        BY <3>3, <3>4, WriteKeepsClocks
    <2> QED
      BY <2>1, <2>2
  <1>5. CASE FreezeLot(c)
    <2> DEFINE frozen == [row EXCEPT !.frozen = tx[c].day]
               new == Refiled(frozen, tx[c].dest)
    <2>1. row \in RowType /\ cmd.op = "freeze" /\ MayFreeze(row, tx[c].day)
      BY <1>1, <1>5 DEF FreezeLot, Clocks, Clocked
    <2>2. frozen.frozen = tx[c].day /\ frozen.thawed = row.thawed
      BY <2>1, Zenon DEF RowType
    <2>3. /\ new.frozen = tx[c].day /\ new.thawed = row.thawed
          /\ new.product = row.product /\ new.bestBefore = row.bestBefore
          /\ new.opened = row.opened
      BY <2>1, <2>2 DEF Refiled, RowType
    <2> HIDE DEF new
    <2>4. ClocksMove(row, new, edited)
      BY <2>1, <2>3 DEF ClocksMove, Expiry
    <2>5. Write(c, tx[c].lot, new, None, 0)
      BY <1>5 DEF FreezeLot, new
    <2> QED
      BY <2>4, <2>5, WriteKeepsClocks
  <1>6. CASE ThawLot(c)
    <2> DEFINE thawed == [row EXCEPT !.thawed = tx[c].day]
               new == Refiled(thawed, tx[c].dest)
    <2>1. row \in RowType /\ cmd.op = "thaw" /\ MayThaw(row)
      BY <1>1, <1>6 DEF ThawLot, Clocks, Clocked
    <2>2. thawed.thawed = tx[c].day /\ thawed.frozen = row.frozen
      BY <2>1, Zenon DEF RowType
    <2>3. /\ new.thawed = tx[c].day /\ new.frozen = row.frozen
          /\ new.product = row.product /\ new.bestBefore = row.bestBefore
          /\ new.opened = row.opened
      BY <2>1, <2>2 DEF Refiled, RowType
    <2> HIDE DEF new
    <2>4. ClocksMove(row, new, edited)
      BY <2>1, <2>3 DEF ClocksMove, Expiry
    <2>5. Write(c, tx[c].lot, new, None, 0)
      BY <1>6 DEF ThawLot, new
    <2> QED
      BY <2>4, <2>5, WriteKeepsClocks
  <1>7. CASE RemoveLot(c)
    <2> DEFINE new == Depleted(row)
    <2>1. row \in RowType
      BY <1>1, <1>7 DEF RemoveLot
    <2>2. /\ new.frozen = row.frozen /\ new.thawed = row.thawed
          /\ new.product = row.product /\ new.bestBefore = row.bestBefore
          /\ new.opened = row.opened
      BY <2>1 DEF Depleted, RowType
    <2> HIDE DEF new
    <2>3. ClocksMove(row, new, edited)
      BY <1>0, <2>2, SameDates
    <2>4. \E kind, delta : Write(c, tx[c].lot, new, kind, delta)
      BY <1>7 DEF RemoveLot, new
    <2> QED
      BY <2>3, <2>4, WriteKeepsClocks
  <1> QED
    BY <1>2, <1>3, <1>4, <1>5, <1>6, <1>7

(* The steps before the first write, and those after the last.              *)
LEMMA OtherStepsKeepClocks ==
    ASSUME IInv, Clocks, NEW c \in Clients,
           \/ \E l \in Lots : FindRow(c, l)
           \/ FindNothingToMerge(c) \/ LockRow(c) \/ LockStaleRow(c)
           \/ EnterIndex(c) \/ Commit(c)
    PROVE  Clocks'
  <1>1. /\ tx[c] \in TxType /\ tx \in [Clients -> TxType]
        /\ tx[c].phase \notin {"index", "commit"} => tx[c].new = None
    BY DEF IInv, TypeOK, TransactionsCoherent, Coherent, PhaseIsConsistent
  <1>2. CASE (\E l \in Lots : FindRow(c, l)) \/ FindNothingToMerge(c)
    BY <1>1, <1>2, QuietClocks DEF FindRow, FindNothingToMerge, TxType
  <1>3. CASE LockRow(c) \/ LockStaleRow(c)
    BY <1>1, <1>3, QuietClocks DEF LockRow, LockStaleRow, TxType
  <1>4. CASE EnterIndex(c)
    BY <1>1, <1>4, QuietClocks DEF EnterIndex, TxType
  <1>5. CASE Commit(c)
    BY <1>1, <1>5, QuietClocks DEF Commit, IdleTx
  <1> QED
    BY <1>2, <1>3, <1>4, <1>5

LEMMA BeginKeepsClocks ==
    ASSUME IInv, Clocks, NEW c \in Clients, NEW cmd \in Commands, Begin(c, cmd)
    PROVE  Clocks'
  <1>1. tx \in [Clients -> TxType]
    BY DEF IInv, TypeOK
  <1>2. CASE EarlyRefusal(cmd) = None
    <2> DEFINE new == [IdleTx EXCEPT !.phase = "find", !.cmd = cmd]
    <2>1. tx' = [tx EXCEPT ![c] = new]
      BY <1>2 DEF Begin
    <2>2. new.new = None /\ new.phase = "find"
      BY DEF IdleTx
    <2> HIDE DEF new
    <2> QED
      BY <1>1, <2>1, <2>2, QuietClocks
  <1>3. CASE EarlyRefusal(cmd) # None
    BY <1>3 DEF Begin, Clocks, Clocked
  <1> QED
    BY <1>2, <1>3

LEMMA NextKeepsClocks ==
    ASSUME IInv, Clocks, [Next]_vars
    PROVE  Clocks'
  <1>1. ASSUME NEW c \in Clients, NEW cmd \in Commands, Begin(c, cmd)
        PROVE  Clocks'
    BY <1>1, BeginKeepsClocks
  <1>2. ASSUME NEW c \in Clients, Interrupt(c)
        PROVE  Clocks'
    BY <1>2, RollbackKeepsClocks DEF Interrupt
  <1>3. ASSUME NEW c \in Clients, Serve(c)
        PROVE  Clocks'
    <2>1. CASE \E l \in Lots : FindRow(c, l) \/ InsertLot(c, l)
      BY <2>1, OtherStepsKeepClocks, WritingKeepsClocks
    <2>2. CASE FindNoItem(c) \/ LockGoneItem(c) \/ LoseIndex(c) \/ DeadlockVictim(c)
      BY <2>2, RollbackKeepsClocks DEF FindNoItem, LockGoneItem, LoseIndex, DeadlockVictim
    <2>3. CASE \/ FindNothingToMerge(c) \/ LockRow(c) \/ LockStaleRow(c)
               \/ EnterIndex(c) \/ Commit(c)
      BY <2>3, OtherStepsKeepClocks
    <2>4. CASE DecideFreeze(c) \/ DecideThaw(c)
      BY <2>4, DecidingKeepsClocks
    <2>5. CASE \/ MergeIntoLot(c) \/ UpdateLot(c)
               \/ FreezeLot(c) \/ ThawLot(c) \/ RemoveLot(c)
      BY <2>5, WritingKeepsClocks
    <2> QED
      BY <1>3, <2>1, <2>2, <2>3, <2>4, <2>5 DEF Serve
  <1>4. CASE Tick \/ Finished \/ UNCHANGED vars
    BY <1>4 DEF Tick, Finished, vars, Clocks, Clocked
  <1> QED
    BY <1>1, <1>2, <1>3, <1>4 DEF Next

(* A date of freezing or of thawing is never overwritten, nothing thawed or *)
(* expired is frozen, and nothing else but a correction moves the day a lot *)
(* becomes unfit, for any number of requests and of days.                   *)
THEOREM NoClockStartsTwice == Spec => ClocksStartOnce
  <1>1. Init => Clocks
    BY DEF Init, Clocks, Clocked, IdleTx
  <1>2. IInv /\ Clocks /\ [Next]_vars => Clocks'
    BY NextKeepsClocks
  <1>3. IInv /\ Clocks /\ [Next]_vars => [\A l \in Lots : lots[l] # None =>
            ClocksMove(lots[l], lots'[l],
                       \E c \in Clients : /\ tx[c].phase = "commit" /\ tx[c].lot = l
                                          /\ tx[c].cmd.op = "update")]_vars
    <2> SUFFICES ASSUME IInv, Clocks, [Next]_vars, NEW l \in Lots, lots[l] # None
                 PROVE  ClocksMove(lots[l], lots'[l],
                                   \E c \in Clients : /\ tx[c].phase = "commit" /\ tx[c].lot = l
                                                      /\ tx[c].cmd.op = "update")
      OBVIOUS
    <2>1. CASE lots'[l] = lots[l]
      BY <2>1 DEF ClocksMove
    <2>2. CASE lots'[l] # lots[l]
      <3>1. PICK c \in Clients : Commit(c)
        BY <2>2, OnlyCommitWrites
      <3>2. tx[c].phase = "commit" /\ tx[c].lot = l /\ tx[c].seen = lots[l]
        BY <2>2, <3>1, CommitReplacesWhatItRead
      <3>3. lots'[l] = tx[c].new /\ tx[c].new # None
        BY <3>1, <3>2 DEF Commit, IInv, TypeOK, TransactionsCoherent, Coherent, PhaseIsConsistent
      <3>4. ClocksMove(lots[l], lots'[l], tx[c].cmd.op = "update")
        BY <3>2, <3>3 DEF Clocks, Clocked
      <3> QED
        BY <3>2, <3>4 DEF ClocksMove
    <2> QED
      BY <2>1, <2>2
  <1> QED
    BY <1>1, <1>2, <1>3, SpecKeepsIInv, PTL DEF Spec, ClocksStartOnce

(***************************************************************************)
(* Refinement                                                              *)
(*                                                                         *)
(* Inventory implements StockLedger for every value of the constants: a    *)
(* request, however long it takes, is one operation on the stock or none.  *)
(***************************************************************************)
(* What the movement of a pending version may be called: a new lot is an    *)
(* intake, an intake adds, and what is consumed or wasted is the whole lot. *)
Labelled(c) ==
    LET t == tx[c]
    IN  t.new # None =>
            /\ t.new.qty >= 0
            /\ t.seen = None => t.kind = "intake"
            /\ t.kind = "intake" => t.delta > 0
            /\ t.kind \in {"consumption", "waste"} => t.new.qty = 0

Labels == \A c \in Clients : Labelled(c)

(* A step that leaves the pending version of its client as it is, or takes  *)
(* it away.                                                                 *)
LEMMA QuietStep ==
    ASSUME Labels, NEW c \in Clients,
           \A d \in Clients : d # c => tx'[d] = tx[d],
           \/ tx'[c].new = None
           \/ /\ tx'[c].new = tx[c].new /\ tx'[c].seen = tx[c].seen
              /\ tx'[c].kind = tx[c].kind /\ tx'[c].delta = tx[c].delta
    PROVE  Labels'
  BY DEF Labels, Labelled

LEMMA RollbackKeepsLabels ==
    ASSUME IInv, Labels, NEW c \in Clients, NEW outcome, Rollback(c, outcome)
    PROVE  Labels'
  <1>1. tx' = [tx EXCEPT ![c] = IdleTx] /\ tx \in [Clients -> TxType]
    BY DEF Rollback, IInv, TypeOK
  <1>2. tx'[c].new = None /\ \A d \in Clients : d # c => tx'[d] = tx[d]
    BY <1>1 DEF IdleTx
  <1> QED
    BY <1>2, QuietStep

LEMMA WriteKeepsLabels ==
    ASSUME IInv, Labels, NEW c \in Clients, NEW l, NEW row, NEW kind, NEW delta,
           Write(c, l, row, kind, delta),
           tx[c].seen = None => kind = "intake",
           kind = "intake" => delta > 0,
           kind \in {"consumption", "waste"} => row.qty = 0
    PROVE  Labels'
  <1> DEFINE t == tx[c]
             next == IF row.active /\ (t.seen = None \/ MergeKey(row) # MergeKey(t.seen))
                     THEN "index" ELSE "commit"
             new == [t EXCEPT !.lot = l, !.new = row, !.kind = kind, !.delta = delta,
                              !.phase = next]
  <1>1. CASE ~ChecksHold(row)
    BY <1>1, RollbackKeepsLabels DEF Write
  <1>2. CASE ChecksHold(row)
    <2>1. t \in TxType /\ tx \in [Clients -> TxType]
      BY DEF IInv, TypeOK
    <2>2. tx' = [tx EXCEPT ![c] = new]
      BY <1>2, <2>1, Zenon DEF Write
    <2> HIDE DEF next
    <2>3. new.seen = t.seen /\ new.new = row /\ new.kind = kind /\ new.delta = delta
      BY <2>1, Zenon DEF TxType
    <2>4. tx'[c] = new /\ \A d \in Clients : d # c => tx'[d] = tx[d]
      BY <2>1, <2>2
    <2>5. row.qty >= 0
      BY <1>2 DEF ChecksHold
    <2> HIDE DEF new
    <2>6. Labelled(c)'
      BY <2>3, <2>4, <2>5 DEF Labelled
    <2> QED
      BY <2>4, <2>6 DEF Labels, Labelled
  <1> QED
    BY <1>1, <1>2

(* The quantity of an accepted intake is above zero.                        *)
LEMMA IntakeIsPositive ==
    ASSUME NEW cmd \in Commands, cmd.op = "add", EarlyRefusal(cmd) = None
    PROVE  Canonical(cmd.amount, cmd.unit) > 0
  BY NoneIsNoRefusal DEF EarlyRefusal, Refusals, ValidQuantity

(* What the words of a movement are.                                        *)
LEMMA KindsOfMovement ==
    /\ \A reason : RemovalKind(reason) \in {"consumption", "waste", "adjustment"}
    /\ None \notin MovementKinds
    /\ MovementKinds = {"intake", "consumption", "waste", "adjustment"}
  BY InventoryAssumption DEF RemovalKind, MovementKinds

LEMMA WritingKeepsLabels ==
    ASSUME IInv, Labels, NEW c \in Clients,
           \/ \E l \in Lots : InsertLot(c, l)
           \/ MergeIntoLot(c) \/ UpdateLot(c)
           \/ FreezeLot(c) \/ ThawLot(c) \/ RemoveLot(c)
    PROVE  Labels'
  <1> DEFINE cmd == tx[c].cmd
             row == tx[c].seen
  <1>1. /\ tx[c].phase = "write" /\ cmd \in Commands /\ EarlyRefusal(cmd) = None
        /\ row # None \/ cmd.op = "add"
    BY AboutToWrite DEF InsertLot, MergeIntoLot, UpdateLot, FreezeLot, ThawLot, RemoveLot
  <1>2. CASE \E l \in Lots : InsertLot(c, l)
    BY <1>1, <1>2, WriteKeepsLabels, IntakeIsPositive DEF InsertLot
  <1>3. CASE MergeIntoLot(c)
    BY <1>1, <1>3, WriteKeepsLabels, IntakeIsPositive DEF MergeIntoLot
  <1>4. CASE UpdateLot(c)
    <2> DEFINE new == Updated(cmd, row)
               kind == IF new.qty = row.qty THEN None ELSE "adjustment"
    <2>1. CASE UpdateRefusal(cmd, row) # None
      BY <1>4, <2>1, RollbackKeepsLabels DEF UpdateLot
    <2>2. CASE UpdateRefusal(cmd, row) = None
      <3>1. Write(c, tx[c].lot, new, kind, new.qty - row.qty) /\ row # None
        BY <1>1, <1>4, <2>2 DEF UpdateLot
      <3>2. kind \notin {"intake", "consumption", "waste"}
        BY KindsOfMovement
      <3> HIDE DEF kind, new
      <3> QED
        BY <3>1, <3>2, WriteKeepsLabels
    <2> QED
      BY <2>1, <2>2
  <1>5. CASE FreezeLot(c) \/ ThawLot(c)
    <2>1. row # None /\ None \notin {"intake", "consumption", "waste"}
      BY <1>1, <1>5, KindsOfMovement DEF FreezeLot, ThawLot
    <2>2. PICK new : Write(c, tx[c].lot, new, None, 0)
      BY <1>5 DEF FreezeLot, ThawLot
    <2> QED
      BY <2>1, <2>2, WriteKeepsLabels
  <1>6. CASE RemoveLot(c)
    <2> DEFINE kind == IF row.qty = 0 THEN None ELSE RemovalKind(cmd.reason)
    <2>1. row # None /\ Write(c, tx[c].lot, Depleted(row), kind, -row.qty)
      BY <1>1, <1>6 DEF RemoveLot
    <2>2. kind # "intake"
      BY KindsOfMovement
    <2>3. Depleted(row).qty = 0
      BY <1>1, <2>1, AboutToWrite, DepletedIsRow
    <2> HIDE DEF kind
    <2> QED
      BY <2>1, <2>2, <2>3, WriteKeepsLabels
  <1> QED
    BY <1>2, <1>3, <1>4, <1>5, <1>6

(* Until it writes, a transaction has no pending version to label.          *)
LEMMA ReadingKeepsLabels ==
    ASSUME IInv, Labels, NEW c \in Clients,
           \/ \E l \in Lots : FindRow(c, l)
           \/ FindNothingToMerge(c)
           \/ LockRow(c) \/ LockStaleRow(c) \/ DecideFreeze(c) \/ DecideThaw(c)
    PROVE  Labels'
  <1>1. /\ tx[c] \in TxType /\ tx \in [Clients -> TxType]
        /\ tx[c].phase \notin {"index", "commit"} => tx[c].new = None
    BY DEF IInv, TypeOK, TransactionsCoherent, Coherent, PhaseIsConsistent
  <1>2. ASSUME NEW refusal, NEW kind, Decide(c, refusal, kind)
        PROVE  Labels'
    <2>1. CASE refusal # None
      BY <1>2, <2>1, RollbackKeepsLabels DEF Decide
    <2>2. CASE refusal = None
      BY <1>1, <1>2, <2>2, QuietStep DEF Decide, TxType
    <2> QED
      BY <2>1, <2>2
  <1>3. CASE (\E l \in Lots : FindRow(c, l)) \/ FindNothingToMerge(c)
    BY <1>1, <1>3, QuietStep DEF FindRow, FindNothingToMerge, TxType
  <1>4. CASE LockRow(c) \/ LockStaleRow(c)
    BY <1>1, <1>4, QuietStep DEF LockRow, LockStaleRow, TxType
  <1> QED
    BY <1>2, <1>3, <1>4 DEF DecideFreeze, DecideThaw

LEMMA EndingKeepsLabels ==
    ASSUME IInv, Labels, NEW c \in Clients, EnterIndex(c) \/ Commit(c)
    PROVE  Labels'
  <1>1. tx[c] \in TxType /\ tx \in [Clients -> TxType]
    BY DEF IInv, TypeOK
  <1>2. CASE EnterIndex(c)
    BY <1>1, <1>2, QuietStep DEF EnterIndex, TxType
  <1>3. CASE Commit(c)
    BY <1>1, <1>3, QuietStep DEF Commit, IdleTx
  <1> QED
    BY <1>2, <1>3

LEMMA BeginKeepsLabels ==
    ASSUME IInv, Labels, NEW c \in Clients, NEW cmd \in Commands, Begin(c, cmd)
    PROVE  Labels'
  <1>1. tx \in [Clients -> TxType]
    BY DEF IInv, TypeOK
  <1>2. CASE EarlyRefusal(cmd) = None
    <2> DEFINE new == [IdleTx EXCEPT !.phase = "find", !.cmd = cmd]
    <2>1. tx' = [tx EXCEPT ![c] = new]
      BY <1>2 DEF Begin
    <2>2. new.new = None
      BY DEF IdleTx
    <2> HIDE DEF new
    <2> QED
      BY <1>1, <2>1, <2>2, QuietStep
  <1>3. CASE EarlyRefusal(cmd) # None
    BY <1>3 DEF Begin, Labels, Labelled
  <1> QED
    BY <1>2, <1>3

LEMMA NextKeepsLabels ==
    ASSUME IInv, Labels, [Next]_vars
    PROVE  Labels'
  <1>1. ASSUME NEW c \in Clients, NEW cmd \in Commands, Begin(c, cmd)
        PROVE  Labels'
    BY <1>1, BeginKeepsLabels
  <1>2. ASSUME NEW c \in Clients, Interrupt(c)
        PROVE  Labels'
    BY <1>2, RollbackKeepsLabels DEF Interrupt
  <1>3. ASSUME NEW c \in Clients, Serve(c)
        PROVE  Labels'
    <2>1. CASE \E l \in Lots : FindRow(c, l) \/ InsertLot(c, l)
      BY <2>1, ReadingKeepsLabels, WritingKeepsLabels
    <2>2. CASE FindNoItem(c) \/ LockGoneItem(c) \/ LoseIndex(c) \/ DeadlockVictim(c)
      BY <2>2, RollbackKeepsLabels DEF FindNoItem, LockGoneItem, LoseIndex, DeadlockVictim
    <2>3. CASE EnterIndex(c) \/ Commit(c)
      BY <2>3, EndingKeepsLabels
    <2>4. CASE \/ FindNothingToMerge(c) \/ LockRow(c) \/ LockStaleRow(c)
               \/ DecideFreeze(c) \/ DecideThaw(c)
      BY <2>4, ReadingKeepsLabels
    <2>5. CASE \/ MergeIntoLot(c) \/ UpdateLot(c)
               \/ FreezeLot(c) \/ ThawLot(c) \/ RemoveLot(c)
      BY <2>5, WritingKeepsLabels
    <2> QED
      BY <1>3, <2>1, <2>2, <2>3, <2>4, <2>5 DEF Serve
  <1>4. CASE Tick \/ Finished \/ UNCHANGED vars
    BY <1>4 DEF Tick, Finished, vars, Labels, Labelled
  <1> QED
    BY <1>1, <1>2, <1>3, <1>4 DEF Next

-----------------------------------------------------------------------------
(* A commit is one operation on the stock, or changes no quantity.          *)

LEMMA CommitIsOneOperation ==
    ASSUME IInv, Labels, NEW c \in Clients, Commit(c)
    PROVE  [Stock!Next]_<<[l \in Lots |-> IF lots[l] = None THEN None ELSE lots[l].qty],
                          ledger>>
  <1> DEFINE t == tx[c]
             held == [l \in Lots |-> IF lots[l] = None THEN None ELSE lots[l].qty]
             before == IF t.seen = None THEN 0 ELSE t.seen.qty
  <1>1. /\ t \in TxType /\ t.lot \in Lots /\ t.new \in RowType /\ t.new # None
        /\ t.new.qty \in Int /\ t.new.qty >= 0 /\ Labelled(c)
        /\ t.new.qty = t.delta + before /\ (t.kind = None => t.delta = 0)
        /\ t.kind \in MovementKinds \cup {None} /\ t.delta \in Int
    BY DEF IInv, Commit, TypeOK, TransactionsCoherent, Coherent, PhaseIsConsistent,
           WriteIsAccounted, TxType, RowType, Labels, Labelled
  <1>m. PICK m \in Lots : m = t.lot
    BY <1>1
  <1>k. PICK kind \in MovementKinds \cup {None} : kind = t.kind
    BY <1>1
  <1>2. /\ lots' = [lots EXCEPT ![m] = t.new]
        /\ ledger' = IF kind = None THEN ledger
                     ELSE [ledger EXCEPT ![m][kind] = @ + t.delta]
    BY <1>m, <1>k DEF Commit
  <1>3. /\ t.seen = lots[m] /\ (t.seen # None => t.seen.qty \in Int /\ t.seen.qty > 0)
        /\ None \notin Int
    <2>1. t.seen = lots[m] /\ (t.seen # None => t.seen.active)
      BY <1>m, CommitReplacesWhatItRead
    <2> QED
      BY <1>1, <2>1, ShelfLifeAssumption DEF IInv, LedgerIsTruth, TxType, RowType
  <1>4. held[m] = (IF t.seen = None THEN None ELSE t.seen.qty) /\ held'[m] = t.new.qty
    BY <1>1, <1>2, <1>3 DEF IInv, TypeOK
  <1>5. held' = [held EXCEPT ![m] = t.new.qty]
    BY <1>1, <1>2, <1>3 DEF IInv, TypeOK
  <1>6. Stock!Amount(held[m]) = before
    BY <1>3, <1>4 DEF Stock!Amount
  <1>7. CASE kind = None
    <2>1. t.seen # None /\ t.new.qty = t.seen.qty
      BY <1>1, <1>3, <1>7, <1>k, KindsOfMovement DEF Labelled
    <2>2. held' = held /\ ledger' = ledger
      BY <1>2, <1>4, <1>5, <1>7, <2>1
    <2> QED
      BY <2>2
  <1>8. CASE kind \in MovementKinds
    <2>1. kind # None
      BY <1>8, KindsOfMovement
    <2>2. t.delta = t.new.qty - before /\ t.new.qty \in Nat
      BY <1>1, <1>3
    <2>3. /\ t.seen = None => held[m] = None /\ kind = "intake" /\ before = 0
          /\ t.seen # None => Stock!InStock(m)
      BY <1>1, <1>k, <1>3, <1>4 DEF Stock!InStock, Labelled
    <2>4. /\ kind = "intake" => t.new.qty > before
          /\ kind \in {"consumption", "waste"} => t.new.qty = 0
          /\ before \in Int
      BY <1>1, <1>k, <1>3, <2>2 DEF Labelled
    <2> HIDE DEF held, before, t
    <2>5. Stock!Post(m, kind)
      BY <1>1, <1>2, <1>4, <1>5, <1>6, <2>1, <2>2 DEF Stock!Post, held
    <2>6. held'[m] = t.new.qty /\ Stock!Amount(held[m]) = before
      BY <1>4, <1>6
    <2>7. CASE kind = "intake"
      <3>1. Stock!Receive(m)
        BY <2>3, <2>4, <2>5, <2>6, <2>7 DEF Stock!Receive, held
      <3> QED
        BY <2>5, <3>1 DEF Stock!Next
    <2>8. CASE kind # "intake" /\ t.new.qty = 0
      <3>1. kind \in Stock!Kinds \ {"intake"} /\ Stock!InStock(m)
        BY <1>8, <2>3, <2>8 DEF Stock!Kinds, MovementKinds
      <3>2. Stock!Empty(m)
        BY <2>5, <2>6, <2>8, <3>1 DEF Stock!Empty, held
      <3> QED
        BY <2>5, <3>2 DEF Stock!Next
    <2>9. CASE kind # "intake" /\ t.new.qty # 0
      <3>1. kind = "adjustment" /\ t.new.qty > 0 /\ Stock!InStock(m)
        BY <1>8, <2>2, <2>3, <2>4, <2>9 DEF MovementKinds
      <3>2. Stock!Recount(m)
        BY <2>5, <2>6, <3>1 DEF Stock!Recount, held
      <3> QED
        BY <2>5, <3>2 DEF Stock!Next
    <2> QED
      BY <2>7, <2>8, <2>9
  <1> QED
    BY <1>7, <1>8

(* Requests that overlap, wait, merge, fail or are interrupted are single   *)
(* operations on the stock, each entered in the ledger under its own kind,  *)
(* for any number of requests, lots and households of any size.             *)
THEOREM RequestsAreSingleOperations == Spec => ImplementsStockLedger
  <1>1. Init => Labels /\ Stock!Init
    BY KindsOfMovement
       DEF Init, Labels, Labelled, IdleTx, Stock!Init, Stock!Kinds, NoMovements
  <1>2. IInv /\ Labels /\ [Next]_vars => Labels'
    BY NextKeepsLabels
  <1>3. IInv /\ Labels /\ [Next]_vars
        => [Stock!Next]_<<[l \in Lots |-> IF lots[l] = None THEN None ELSE lots[l].qty],
                          ledger>>
    <2> SUFFICES ASSUME IInv, Labels, [Next]_vars
                 PROVE  [Stock!Next]_<<[l \in Lots |-> IF lots[l] = None THEN None
                                                       ELSE lots[l].qty], ledger>>
      OBVIOUS
    <2>1. CASE UNCHANGED <<lots, ledger>>
      BY <2>1
    <2>2. CASE \E c \in Clients : Commit(c)
      BY <2>2, CommitIsOneOperation
    <2> QED
      BY <2>1, <2>2, OnlyCommitWrites
  <1> QED
    BY <1>1, <1>2, <1>3, SpecKeepsIInv, PTL DEF Spec, ImplementsStockLedger, Stock!Spec
=============================================================================
