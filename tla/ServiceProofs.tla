--------------------------- MODULE ServiceProofs ---------------------------
(***************************************************************************)
(* What guards the service, proved for every value of the constants.  The  *)
(* parts share nothing, so each theorem is about the part that moves:      *)
(* the keys and the memberships inherit theirs from SealingProofs and      *)
(* MembershipsProofs, under the names the composition gives them; upkeep,  *)
(* the document, the consents, the exports, the catalogue, the limits and  *)
(* the attempts have their invariants here.                                *)
(***************************************************************************)
EXTENDS Service, FiniteSetTheorems, SequenceTheorems, WellFoundedInduction, TLAPS

-----------------------------------------------------------------------------
(* A step of the service is a step of each part, or leaves it alone.        *)
LEMMA ServiceStarts ==
    ServiceInit => Init /\ S!Init /\ M!Init /\ D!Init /\ U!Init /\ P!Init /\ X!Init /\ T!Init /\ I!Init
  BY DEF ServiceInit

LEMMA ServiceSteps ==
    [ServiceNext]_everything =>
        /\ [Next]_vars /\ [S!Next]_sealing /\ [M!Next]_belonging
        /\ [D!Next]_exporting /\ [U!Next]_upkeep
        /\ [P!Next]_providers /\ [X!Next]_exports /\ [T!Next]_throttling
        /\ [I!Next]_attempts
  BY DEF ServiceNext, Others, everything, sealing, belonging, exporting, upkeep, providers, exports, throttling, attempts

-----------------------------------------------------------------------------
(* The window.  A worker has made the calls it remembers and, before them,  *)
(* calls that have left the window; it remembers no more than the budget.   *)
Forgotten(w) == Len(made[w]) - Len(calls[w])

InWindow(w) ==
    /\ calls[w] \in Seq(Int) /\ made[w] \in Seq(Int)
    /\ Forgotten(w) >= 0 /\ Len(calls[w]) <= MaxCalls
    /\ \A i \in 1 .. Len(calls[w]) : made[w][Forgotten(w) + i] = calls[w][i]
    /\ \A i \in 1 .. Forgotten(w) : Expired(made[w][i])
    /\ \A i, j \in 1 .. Len(made[w]) : j >= i + MaxCalls => made[w][j] >= made[w][i] + Window

WindowInv ==
    /\ now \in Int /\ DOMAIN calls = Workers /\ DOMAIN made = Workers
    /\ \A w \in Workers : InWindow(w)

LEMMA WindowFigures == Window \in Nat /\ MaxCalls \in Nat \ {0}
BY CatalogueAssumption

LEMMA LeastExists ==
    ASSUME NEW Q \in SUBSET Nat, Q # {}
    PROVE  \E i \in Q : \A j \in Q : i <= j
<1> DEFINE Less == OpToRel(<, Nat)
<1>1. IsWellFoundedOn(Less, Nat)
  BY NatLessThanWellFounded
<1>2. PICK i \in Q : \A j \in Q : ~ (<<j, i>> \in Less)
  <2> HIDE DEF Less
  <2> QED BY <1>1, WFMin
<1>3. \A j, k \in Nat : j < k => <<j, k>> \in Less
  <2> SUFFICES ASSUME NEW j \in Nat, NEW k \in Nat, j < k PROVE <<j, k>> \in Less
    OBVIOUS
  <2>1. <<j, k>> \in Nat \X Nat /\ <<j, k>>[1] = j /\ <<j, k>>[2] = k
    OBVIOUS
  <2>2. Less = {ss \in Nat \X Nat : ss[1] < ss[2]}
    BY Zenon DEF OpToRel
  <2> QED BY <2>1, <2>2
<1>4. \A j \in Q : ~ (j < i)
  BY <1>2, <1>3
<1> QED BY <1>4

(* The oldest are dropped, as far as the first that has not expired.        *)
LEMMA DroppedHaveExpired ==
    ASSUME NEW s \in Seq(Int)
    PROVE  /\ Dropped(s) \in 0 .. Len(s)
           /\ \A i \in 1 .. Dropped(s) : Expired(s[i])
<1> DEFINE Stops(n) == n < Len(s) => ~Expired(s[n + 1])
           Right(n) == (\A i \in 1 .. n : Expired(s[i])) /\ Stops(n)
           Stopping == {n \in 0 .. Len(s) : Stops(n)}
<1>0. Len(s) \in Nat
  OBVIOUS
<1>1. Stopping \in SUBSET Nat /\ Len(s) \in Stopping
  BY <1>0
<1>2. PICK least \in Stopping : \A j \in Stopping : least <= j
  <2> HIDE DEF Stopping
  <2> QED BY <1>1, LeastExists
<1>3. ASSUME NEW i \in 1 .. least PROVE Expired(s[i])
  <2>1. i - 1 \in 0 .. Len(s) /\ i - 1 < least /\ i - 1 < Len(s) /\ i - 1 + 1 = i
    BY <1>0, <1>2
  <2>2. i - 1 \notin Stopping
    <3> HIDE DEF Stopping
    <3> QED BY <1>1, <1>2, <2>1
  <2> QED BY <2>1, <2>2
<1>4. least \in 0 .. Len(s) /\ Right(least)
  BY <1>2, <1>3
<1>5. Dropped(s) = CHOOSE n \in 0 .. Len(s) : Right(n)
  BY DEF Dropped
<1>6. Dropped(s) \in 0 .. Len(s) /\ Right(Dropped(s))
  <2> HIDE DEF Right
  <2> QED BY <1>4, <1>5
<1> QED BY <1>6

(* Forgetting what has expired leaves the calls of the window.              *)
LEMMA ForgettingIsSafe ==
    ASSUME NEW w \in Workers, InWindow(w)
    PROVE  LET recent == Remembered(w)
               older == Len(made[w]) - Len(recent)
           IN  /\ recent \in Seq(Int) /\ Len(recent) \in Nat /\ Len(recent) <= MaxCalls /\ older >= 0
               /\ \A i \in 1 .. Len(recent) : made[w][older + i] = recent[i]
               /\ \A i \in 1 .. older : Expired(made[w][i])
<1> DEFINE s == calls[w]
           m == Dropped(s)
           recent == Remembered(w)
           older == Len(made[w]) - Len(recent)
<1>1. s \in Seq(Int) /\ Len(s) \in Nat /\ Len(made[w]) \in Nat /\ Len(s) <= MaxCalls /\ MaxCalls \in Nat
      /\ Len(made[w]) - Len(s) >= 0
  BY CatalogueAssumption DEF InWindow, Forgotten
<1>2. m \in 0 .. Len(s) /\ \A i \in 1 .. m : Expired(s[i])
  BY <1>1, DroppedHaveExpired
<1>3. recent = SubSeq(s, m + 1, Len(s))
  BY DEF Remembered
<1>4. \A i \in m + 1 .. Len(s) : s[i] \in Int
  BY <1>1, <1>2
<1>m. m \in Int
  BY <1>1, <1>2
<1> HIDE DEF m, s
<1>5. /\ recent \in Seq(Int) /\ Len(recent) = Len(s) - m
      /\ \A i \in 1 .. Len(s) - m : recent[i] = s[m + i]
  <2>1. /\ SubSeq(s, m + 1, Len(s)) \in Seq(Int)
        /\ Len(SubSeq(s, m + 1, Len(s))) = IF m + 1 <= Len(s) THEN Len(s) - (m + 1) + 1 ELSE 0
        /\ \A i \in 1 .. Len(s) - (m + 1) + 1 : SubSeq(s, m + 1, Len(s))[i] = s[m + 1 + i - 1]
    <3>1. m + 1 \in Int /\ Len(s) \in Int
      BY <1>1, <1>m
    <3> QED BY <1>4, <3>1, SubSeqProperties
  <2>2. Len(s) - (m + 1) + 1 = Len(s) - m /\ \A i \in Int : m + 1 + i - 1 = m + i
    BY <1>1, <1>2
  <2>3. m + 1 <= Len(s) \/ m = Len(s)
    BY <1>1, <1>2
  <2> HIDE DEF recent
  <2>4. \A i \in 1 .. Len(s) - m : recent[i] = s[m + i]
    <3> SUFFICES ASSUME NEW i \in 1 .. Len(s) - m PROVE recent[i] = s[m + i]
      OBVIOUS
    <3>1. recent[i] = s[m + 1 + i - 1]
      BY <1>3, <2>1, <2>2
    <3>2. m + 1 + i - 1 = m + i
      BY <1>1, <1>m
    <3> QED BY <3>1, <3>2
  <2>5. Len(recent) = Len(s) - m
    <3>1. Len(recent) = IF m + 1 <= Len(s) THEN Len(s) - (m + 1) + 1 ELSE 0
      BY <1>3, <2>1
    <3> HIDE DEF recent
    <3> QED BY <1>1, <1>m, <2>3, <3>1
  <2> QED BY <1>3, <2>1, <2>4, <2>5
<1> HIDE DEF recent
<1>6. older = Forgotten(w) + m /\ Forgotten(w) \in Nat
  BY <1>1, <1>m, <1>5 DEF Forgotten, s
<1>7. ASSUME NEW i \in 1 .. Len(recent) PROVE made[w][older + i] = recent[i]
  <2>1. m + i \in 1 .. Len(s) /\ recent[i] = s[m + i] /\ older + i = Forgotten(w) + (m + i)
    <3> HIDE DEF older
    <3>1. i \in 1 .. Len(s) - m
      BY <1>5
    <3>2. recent[i] = s[m + i]
      BY <1>5, <3>1
    <3>3. m + i \in 1 .. Len(s)
      BY <1>1, <1>2, <3>1
    <3>4. older + i = Forgotten(w) + (m + i)
      BY <1>m, <1>6
    <3> QED BY <3>2, <3>3, <3>4
  <2> QED BY <2>1 DEF InWindow, s
<1>8. ASSUME NEW i \in 1 .. older PROVE Expired(made[w][i])
  <2>1. CASE i <= Forgotten(w)
    BY <1>6, <2>1 DEF InWindow
  <2>2. CASE i > Forgotten(w)
    <3>1. i - Forgotten(w) \in 1 .. m /\ i - Forgotten(w) \in 1 .. Len(s) /\ Forgotten(w) + (i - Forgotten(w)) = i
      BY <1>1, <1>2, <1>6, <2>2
    <3>2. made[w][i] = s[i - Forgotten(w)]
      BY <3>1 DEF InWindow, s
    <3> QED BY <1>2, <3>1, <3>2
  <2> QED BY <1>6, <2>1, <2>2
<1> QED
  BY <1>1, <1>2, <1>5, <1>6, <1>7, <1>8 DEF recent

(* A worker that asks forgets, and calls only within the budget.            *)
LEMMA CallsKeepTheWindow ==
    ASSUME WindowInv, NEW c \in Clients, Acquire(c)
    PROVE  WindowInv'
<1> DEFINE w == WorkerOf[c]
           recent == Remembered(w)
           older == Len(made[w]) - Len(recent)
<1>1. w \in Workers /\ MaxCalls \in Nat \ {0} /\ Window \in Nat
  BY CatalogueAssumption
<1>2. /\ recent \in Seq(Int) /\ Len(recent) \in Nat /\ Len(recent) <= MaxCalls /\ older >= 0
      /\ \A i \in 1 .. Len(recent) : made[w][older + i] = recent[i]
      /\ \A i \in 1 .. older : Expired(made[w][i])
  BY <1>1, ForgettingIsSafe DEF WindowInv
<1>3. /\ made[w] \in Seq(Int) /\ Len(made[w]) \in Nat /\ \A i \in 1 .. Len(made[w]) : made[w][i] \in Int
      /\ \A i, j \in 1 .. Len(made[w]) : j >= i + MaxCalls => made[w][j] >= made[w][i] + Window
  BY <1>1 DEF WindowInv, InWindow
<1>4. now' = now /\ now \in Int /\ DOMAIN calls = Workers /\ DOMAIN made = Workers
  BY DEF Acquire, WindowInv
<1>5. \A t : Expired(t)' <=> Expired(t)
  BY <1>4 DEF Expired
<1> HIDE DEF recent
<1>6. CASE Len(recent) < MaxCalls
  <2>1. calls' = [calls EXCEPT ![w] = Append(recent, now)] /\ made' = [made EXCEPT ![w] = Append(made[w], now)]
    BY <1>6 DEF Acquire, recent
  <2>2. /\ DOMAIN calls' = Workers /\ DOMAIN made' = Workers
        /\ calls'[w] = Append(recent, now) /\ made'[w] = Append(made[w], now)
        /\ \A v \in Workers : v # w => calls'[v] = calls[v] /\ made'[v] = made[v]
    BY <1>1, <1>4, <2>1
  <2>3. /\ calls'[w] \in Seq(Int) /\ Len(calls'[w]) = Len(recent) + 1
        /\ \A i \in 1 .. Len(recent) : calls'[w][i] = recent[i]
        /\ calls'[w][Len(recent) + 1] = now
    BY <1>2, <1>4, <2>2, AppendProperties
  <2>4. /\ made'[w] \in Seq(Int) /\ Len(made'[w]) = Len(made[w]) + 1
        /\ \A i \in 1 .. Len(made[w]) : made'[w][i] = made[w][i]
        /\ made'[w][Len(made[w]) + 1] = now
    BY <1>3, <1>4, <2>2, AppendProperties
  <2>5. Forgotten(w)' = older /\ older \in Nat /\ older + Len(recent) = Len(made[w])
    BY <1>2, <1>3, <2>3, <2>4 DEF Forgotten
  <2>6. ASSUME NEW i \in 1 .. Len(calls'[w]) PROVE made'[w][older + i] = calls'[w][i]
    <3>1. CASE i <= Len(recent)
      <4>1. i \in 1 .. Len(recent) /\ older + i \in 1 .. Len(made[w])
        BY <1>2, <1>3, <2>3, <2>5, <3>1
      <4> QED BY <1>2, <2>3, <2>4, <4>1
    <3>2. CASE i = Len(recent) + 1
      <4>1. older + i = Len(made[w]) + 1
        <5>1. older \in Int /\ Len(recent) \in Int /\ Len(made[w]) \in Int /\ older + Len(recent) = Len(made[w])
          BY <1>2, <1>3, <2>5
        <5> HIDE DEF older, w
        <5> QED BY <3>2, <5>1
      <4> QED BY <2>3, <2>4, <3>2, <4>1
    <3> QED BY <1>2, <2>3, <3>1, <3>2
  <2>7. ASSUME NEW i \in 1 .. older PROVE now' - made'[w][i] >= Window
    <3>1. i \in 1 .. Len(made[w]) /\ Expired(made[w][i])
      BY <1>2, <1>3, <2>5
    <3> QED BY <1>4, <2>4, <3>1 DEF Expired
  <2>8. ASSUME NEW i \in 1 .. Len(made'[w]), NEW j \in 1 .. Len(made'[w]), j >= i + MaxCalls
        PROVE  made'[w][j] >= made'[w][i] + Window
    <3>1. i \in 1 .. Len(made[w]) /\ made'[w][i] = made[w][i] /\ made[w][i] \in Int
      <4>1. i \in 1 .. Len(made[w])
        BY <1>1, <1>3, <2>4, <2>8
      <4> QED BY <1>3, <2>4, <4>1
    <3>2. CASE j \in 1 .. Len(made[w])
      BY <1>3, <2>4, <2>8, <3>1, <3>2
    <3>3. CASE j = Len(made[w]) + 1
      <4>1. i \in 1 .. older
        BY <1>1, <1>2, <1>3, <1>6, <2>5, <2>8, <3>1, <3>3
      <4>2. now - made[w][i] >= Window
        BY <1>2, <4>1 DEF Expired
      <4>3. made'[w][j] = now /\ made'[w][i] = made[w][i]
        BY <2>4, <3>1, <3>3
      <4>4. now >= made[w][i] + Window
        BY <1>1, <1>4, <3>1, <4>2
      <4> QED BY <4>3, <4>4
    <3>4. j \in 1 .. Len(made[w]) \/ j = Len(made[w]) + 1
      BY <1>3, <2>4, <2>8
    <3> QED BY <3>2, <3>3, <3>4
  <2>9. InWindow(w)'
    <3>1. Len(calls'[w]) <= MaxCalls
      BY <1>1, <1>2, <1>6, <2>3
    <3>2. \A i \in 1 .. Len(calls'[w]) : made'[w][Forgotten(w)' + i] = calls'[w][i]
      BY <2>5, <2>6
    <3>3. \A i \in 1 .. Forgotten(w)' : Expired(made[w][i])'
      BY <2>5, <2>7 DEF Expired
    <3>4. calls'[w] \in Seq(Int) /\ made'[w] \in Seq(Int) /\ Forgotten(w)' >= 0
      BY <2>3, <2>4, <2>5
    <3> HIDE DEF w
    <3> QED BY <2>8, <3>1, <3>2, <3>3, <3>4 DEF InWindow
  <2>10. ASSUME NEW v \in Workers, v # w PROVE InWindow(v)'
    <3>1. InWindow(v) /\ calls'[v] = calls[v] /\ made'[v] = made[v]
      BY <2>2, <2>10 DEF WindowInv
    <3> QED BY <1>5, <3>1 DEF InWindow, Forgotten
  <2> QED BY <1>4, <2>2, <2>9, <2>10 DEF WindowInv
<1>7. CASE ~(Len(recent) < MaxCalls)
  <2>1. calls' = [calls EXCEPT ![w] = recent] /\ made' = made
    BY <1>7 DEF Acquire, recent
  <2>2. /\ DOMAIN calls' = Workers /\ DOMAIN made' = Workers /\ calls'[w] = recent
        /\ \A v \in Workers : v # w => calls'[v] = calls[v] /\ made'[v] = made[v]
    BY <1>1, <1>4, <2>1
  <2>3. Forgotten(w)' = older
    BY <2>1, <2>2 DEF Forgotten
  <2>4. InWindow(w)'
    <3> HIDE DEF w, older
    <3> QED BY <1>2, <1>3, <1>5, <2>1, <2>2, <2>3 DEF InWindow
  <2>5. ASSUME NEW v \in Workers, v # w PROVE InWindow(v)'
    <3>1. InWindow(v) /\ calls'[v] = calls[v] /\ made'[v] = made[v]
      BY <2>2, <2>5 DEF WindowInv
    <3> QED BY <1>5, <3>1 DEF InWindow, Forgotten
  <2> QED BY <1>4, <2>2, <2>4, <2>5 DEF WindowInv
<1> QED BY <1>6, <1>7

LEMMA WindowStarts == Init => WindowInv
<1> SUFFICES ASSUME Init, NEW w \in Workers PROVE now \in Int /\ DOMAIN calls = Workers /\ DOMAIN made = Workers /\ InWindow(w)
  BY DEF Init, WindowInv
<1>1. calls[w] = <<>> /\ made[w] = <<>> /\ Len(<<>>) = 0 /\ <<>> \in Seq(Int)
  BY DEF Init
<1>2. Forgotten(w) = 0
  BY <1>1 DEF Forgotten
<1> QED BY <1>1, <1>2, CatalogueAssumption DEF Init, InWindow

LEMMA WindowSteps == WindowInv /\ [Next]_vars => WindowInv'
<1> SUFFICES ASSUME WindowInv, [Next]_vars PROVE WindowInv'
  OBVIOUS
<1>1. ASSUME UNCHANGED <<now, calls, made>> PROVE WindowInv'
  BY <1>1 DEF WindowInv, InWindow, Forgotten, Expired
<1>2. ASSUME NEW c \in Clients, Serve(c) PROVE WindowInv'
  <2>1. CASE Acquire(c)
    BY <2>1, CallsKeepTheWindow
  <2>2. CASE Ask(c) \/ Store(c) \/ Flush(c) \/ Commit(c)
    BY <1>1, <2>2 DEF Ask, Store, Flush, Commit
  <2> QED BY <1>2, <2>1, <2>2 DEF Serve
<1>3. ASSUME NEW w \in Workers, Restart(w) PROVE WindowInv'
  <2>1. /\ now' = now /\ now \in Int /\ DOMAIN calls' = Workers /\ DOMAIN made' = Workers
        /\ calls'[w] = <<>> /\ made'[w] = <<>>
        /\ \A v \in Workers : v # w => calls'[v] = calls[v] /\ made'[v] = made[v]
    BY <1>3 DEF Restart, WindowInv
  <2>2. Len(<<>>) = 0 /\ <<>> \in Seq(Int) /\ MaxCalls \in Nat
    BY CatalogueAssumption
  <2>3. Forgotten(w)' = 0
    BY <2>1, <2>2 DEF Forgotten
  <2>4. InWindow(w)'
    BY <2>1, <2>2, <2>3 DEF InWindow
  <2>5. ASSUME NEW v \in Workers, v # w PROVE InWindow(v)'
    <3>1. InWindow(v) /\ calls'[v] = calls[v] /\ made'[v] = made[v]
      BY <2>1, <2>5 DEF WindowInv
    <3> QED BY <2>1, <3>1 DEF InWindow, Forgotten, Expired
  <2> QED BY <2>1, <2>4, <2>5 DEF WindowInv
<1>4. ASSUME Tick PROVE WindowInv'
  <2>1. now \in Int /\ now' = now + 1 /\ UNCHANGED <<calls, made>>
    BY <1>4 DEF Tick, WindowInv
  <2>2. ASSUME NEW w \in Workers PROVE InWindow(w)'
    <3>1. InWindow(w) /\ Forgotten(w)' = Forgotten(w)
      BY <2>1 DEF WindowInv, Forgotten
    <3>2. ASSUME NEW i \in 1 .. Forgotten(w) PROVE Expired(made[w][i])'
      <4>1. made[w][i] \in Int /\ Expired(made[w][i])
        <5>1. Len(calls[w]) \in Nat /\ Len(made[w]) \in Nat /\ Forgotten(w) = Len(made[w]) - Len(calls[w])
          BY <3>1 DEF InWindow, Forgotten
        <5>2. i \in 1 .. Len(made[w])
          BY <5>1
        <5> QED BY <3>1, <5>2 DEF InWindow
      <4> QED BY <2>1, <4>1, WindowFigures DEF Expired
    <3> QED BY <2>1, <3>1, <3>2 DEF InWindow
  <2> QED BY <2>1, <2>2 DEF WindowInv
<1> QED
  BY <1>1, <1>2, <1>3, <1>4 DEF Next, Lookup, Interrupt, Answer, Edit, Finished, vars

LEMMA WindowsHold == WindowInv => CallsWithinBudget
<1> SUFFICES ASSUME WindowInv, NEW w \in Workers
             PROVE  \A i, j \in DOMAIN made[w] : j >= i + MaxCalls => made[w][j] >= made[w][i] + Window
  BY DEF CallsWithinBudget
<1>1. DOMAIN made[w] = 1 .. Len(made[w])
  BY DEF WindowInv, InWindow
<1> QED BY <1>1 DEF WindowInv, InWindow

-----------------------------------------------------------------------------
(* The limits.  A bucket is held by who decides on it or drops it; what was *)
(* granted of it since any time, with what is left in it, is within what    *)
(* the rate allows; a worker counts its requests at work.                   *)
Stages == {"idle", "sweep", "session", "connect", "lock", "ensure", "relock", "decide",
           "slot", "check", "work", "swept", "erase", "erasing"}

LimiterTx == [phase : Stages, op : T!Ops \cup {None}, key : Buckets \cup {None}, at : 0 .. MaxTicks,
              made : T!Bucket \cup {None}, dropped : SUBSET Buckets, refunds : BOOLEAN]

LimiterTypes ==
    /\ pool \in Pools
    /\ clock \in 0 .. MaxTicks
    /\ bucket \in [Buckets -> T!Bucket \cup {None}]
    /\ ttx \in [Clients -> LimiterTx]
    /\ spent \in [Buckets -> [0 .. MaxTicks -> Int]]

(* A request names a key, and sweeps have stages of their own.              *)
Named(t) ==
    /\ t.phase # "idle" => t.key \in Buckets
    /\ t.op = "sweep" <=> t.phase \in {"sweep", "swept"}
    /\ t.phase \in {"erase", "erasing"} => t.op = "erase"

(* No transaction of a limiter is older than a wait.                        *)
Timely(t, n) ==
    t.phase \in T!LimiterPhases \cup {"sweep", "swept"} => t.at <= n /\ n <= t.at + MaxWait

(* A bucket is decided on while it is there, or made because it is not.     *)
Decides(t, b) ==
    IF t.phase = "decide"
    THEN IF t.made = None THEN b[t.key] # None
         ELSE b[t.key] = None /\ t.made = [tokens |-> T!Full, updated |-> t.at]
    ELSE t.made = None

(* What is dropped is there, and of a sweep it has long been idle.          *)
Drops(t, b) ==
    \A k \in t.dropped :
        /\ b[k] # None
        /\ \/ t.phase = "erasing" /\ k = t.key
           \/ t.phase = "swept" /\ b[k].updated < t.at - Cutoff

Grips(t, k) == (t.phase = "decide" /\ t.key = k) \/ k \in t.dropped

(* Nobody else holds a bucket that is held.                                 *)
HeldApart == \A c, d \in Clients : \A k \in Buckets : c # d => ~(Grips(ttx[c], k) /\ Grips(ttx[d], k))

(* By the time n, g tokens were granted since the time a, and r is left.  A *)
(* bucket that is not there would be full.                                  *)
Within(r, n, a, g) ==
    IF r = None THEN g * One <= Rate * (n - a)
    ELSE /\ r.updated <= n
         /\ r.updated + MaxWait < a => g <= 0
         /\ r.updated + MaxWait >= a => g * One + r.tokens <= T!Full + Rate * (r.updated - a + MaxWait)

Afforded(n, a, g) == g * One <= T!Full + Rate * (n - a + MaxWait)

Accounted(k) ==
    /\ \A t \in clock .. MaxTicks : spent[k][t] = spent[k][clock]
    /\ \A a \in 0 .. clock : Within(bucket[k], clock, a, spent[k][clock] - T!Before(k, a))
    /\ \A a, b \in 0 .. clock : a <= b => Afforded(b, a, spent[k][b] - T!Before(k, a))

InHand(t) == Named(t) /\ Timely(t, clock) /\ Decides(t, bucket) /\ Drops(t, bucket)

BudgetInv ==
    /\ LimiterTypes
    /\ \A c \in Clients : InHand(ttx[c])
    /\ HeldApart
    /\ \A k \in Buckets : Accounted(k)

LEMMA Figures ==
    /\ T!Full \in Nat \ {0} /\ One \in Nat \ {0} /\ Rate \in Nat \ {0}
    /\ Cutoff \in Nat /\ MaxWait \in Nat /\ MaxTicks \in Nat
    /\ One <= T!Full
    /\ T!Full <= Rate * (Cutoff - MaxWait)
    /\ Rate * MaxWait <= One
<1>1. /\ One \in Nat \ {0} /\ Rate \in Nat \ {0} /\ Limit \in Nat \ {0}
      /\ Cutoff \in Nat /\ MaxWait \in Nat /\ MaxTicks \in Nat
      /\ T!Full <= Rate * (Cutoff - MaxWait)
      /\ Rate * MaxWait <= One
  BY ThrottlesAssumption DEF T!ThrottlingAssumption, T!CutoffRefills
<1>2. T!Full \in Nat \ {0} /\ One <= T!Full
  <2>1. ASSUME NEW l \in Nat \ {0}, NEW o \in Nat \ {0} PROVE l * o \in Nat \ {0} /\ o <= l * o
    OBVIOUS
  <2> QED BY <1>1, <2>1 DEF T!Full
<1> QED BY <1>1, <1>2

LEMMA RatesGrow ==
    ASSUME NEW r \in Nat, NEW x \in Int, NEW y \in Int, x <= y
    PROVE  r * x \in Int /\ r * y \in Int /\ r * x <= r * y
  OBVIOUS

LEMMA AffordedLater ==
    ASSUME NEW n \in Int, NEW m \in Int, n <= m, NEW a \in Int, NEW g \in Int, Afforded(n, a, g)
    PROVE  Afforded(m, a, g)
<1>1. n - a + MaxWait \in Int /\ m - a + MaxWait \in Int /\ n - a + MaxWait <= m - a + MaxWait
  BY Figures
<1>2. Rate * (n - a + MaxWait) <= Rate * (m - a + MaxWait)
      /\ Rate * (n - a + MaxWait) \in Int /\ Rate * (m - a + MaxWait) \in Int
  BY <1>1, Figures, RatesGrow
<1>3. g * One \in Int /\ T!Full \in Int
  BY Figures
<1> QED BY <1>2, <1>3 DEF Afforded

LEMMA NoneIsNoBucket == None \notin T!Bucket
  BY ThrottlesAssumption DEF T!ThrottlingAssumption

LEMMA BucketsAreFields ==
    /\ \A r \in T!Bucket : r # None /\ r.tokens \in 0 .. T!Full /\ r.updated \in 0 .. MaxTicks
    /\ \A p \in 0 .. T!Full, t \in 0 .. MaxTicks :
         LET q == [tokens |-> p, updated |-> t]
         IN  q \in T!Bucket /\ q.tokens = p /\ q.updated = t
  BY NoneIsNoBucket DEF T!Bucket

LEMMA Spends ==
    ASSUME NEW g \in Int, NEW o \in Int, NEW k \in Int, NEW p \in Int, NEW f \in Int,
           NEW r \in Int, NEW u \in Int, NEW v \in Int, NEW w \in Int,
           g * o + k <= f + r * u, p + o <= k + v * r, w = u + v
    PROVE  (g + 1) * o + p <= f + r * w
<1>1. (g + 1) * o = g * o + o
  OBVIOUS
<1>2. r * w = r * u + v * r
  OBVIOUS
<1>3. g * o \in Int /\ r * u \in Int /\ v * r \in Int
  OBVIOUS
<1> QED BY <1>1, <1>2, <1>3

(* A token is taken from what has been regained, or from a new bucket.      *)
LEMMA SpendingWithin ==
    ASSUME NEW r \in T!Bucket \cup {None}, NEW n \in 0 .. MaxTicks, NEW when \in 0 .. MaxTicks,
           NEW a \in 0 .. n, NEW g \in Int, NEW p \in Nat,
           when <= n, n <= when + MaxWait, Within(r, n, a, g),
           p + One <= T!Full,
           r # None => p + One <= r.tokens + (when - r.updated) * Rate
    PROVE  /\ Within([tokens |-> p, updated |-> when], n, a, g + 1)
           /\ Afforded(n, a, g + 1)
<1> DEFINE q == [tokens |-> p, updated |-> when]
           F == T!Full
<1>f. /\ F \in Nat \ {0} /\ One \in Nat \ {0} /\ Rate \in Nat \ {0}
      /\ MaxWait \in Nat /\ MaxTicks \in Nat
  BY Figures
<1>0. q.tokens = p /\ q.updated = when /\ q # None
  BY BucketsAreFields, <1>f
<1>1. (g + 1) * One + p <= F + Rate * (when - a + MaxWait)
  <2>0. Rate * (n - a) <= Rate * (when - a + MaxWait) /\ 0 <= Rate * (when - a + MaxWait)
    <3>1. n - a <= when - a + MaxWait /\ 0 <= n - a
      BY <1>f
    <3>2. 0 <= Rate * (n - a)
      BY <1>f, <3>1, RatesGrow
    <3> QED BY <1>f, <3>1, <3>2, RatesGrow
  <2>1. CASE r = None
    <3>1. g * One <= Rate * (n - a)
      BY <2>1 DEF Within
    <3> QED BY <3>1, <2>0, <1>f
  <2>2. CASE r # None
    <3>0. r.tokens \in Int /\ r.updated \in Int
      BY <2>2, BucketsAreFields
    <3>1. CASE r.updated + MaxWait < a
      <4>1. g <= 0
        BY <2>2, <3>1 DEF Within
      <4>2. g * One <= 0
        BY <4>1, <1>f
      <4>3. (g + 1) * One = g * One + One
        BY <1>f
      <4>4. g * One \in Int /\ Rate * (when - a + MaxWait) \in Int
        BY <1>f
      <4> QED BY <4>2, <4>3, <4>4, <2>0, <1>f
    <3>2. CASE r.updated + MaxWait >= a
      <4>1. g * One + r.tokens <= F + Rate * (r.updated - a + MaxWait)
        BY <2>2, <3>2 DEF Within
      <4>2. p + One <= r.tokens + (when - r.updated) * Rate
        BY <2>2
      <4>3. when - a + MaxWait = (r.updated - a + MaxWait) + (when - r.updated)
        BY <1>f, <3>0
      <4> QED BY <4>1, <4>2, <4>3, <1>f, <3>0, Spends
    <3> QED BY <3>0, <3>1, <3>2, <1>f
  <2> QED BY <2>1, <2>2
<1>2. when + MaxWait >= a
  BY <1>f
<1>3. Within(q, n, a, g + 1)
  BY <1>0, <1>1, <1>2, <1>f DEF Within
<1>4. Rate * (when - a + MaxWait) <= Rate * (n - a + MaxWait)
  BY <1>f, RatesGrow
<1>5. (g + 1) * One <= F + Rate * (n - a + MaxWait)
  <2> QED BY <1>1, <1>4, <1>f
<1> QED
  BY <1>3, <1>5 DEF Afforded

(* What is given back lowers what was granted as it raises what is left.    *)
LEMMA RefundingWithin ==
    ASSUME NEW r \in T!Bucket \cup {None}, NEW n \in 0 .. MaxTicks, NEW when \in 0 .. MaxTicks,
           NEW a \in 0 .. n, NEW g \in Int, NEW p \in Nat,
           when <= n, n <= when + MaxWait, Within(r, n, a, g),
           p <= T!Full,
           r # None => p <= r.tokens + (when - r.updated) * Rate + One
    PROVE  /\ Within([tokens |-> p, updated |-> when], n, a, g + (-1))
           /\ Afforded(n, a, g + (-1))
<1> DEFINE q == [tokens |-> p, updated |-> when]
<1>f. /\ T!Full \in Nat \ {0} /\ One \in Nat \ {0} /\ Rate \in Nat \ {0}
      /\ MaxWait \in Nat /\ MaxTicks \in Nat
  BY Figures
<1>0. q.tokens = p /\ q.updated = when /\ q # None
  BY BucketsAreFields, <1>f
<1>9. /\ (g + (-1)) * One = g * One - One
      /\ g * One \in Int
      /\ Rate * (when - a + MaxWait) \in Int
  BY <1>f
<1>1. (g + (-1)) * One + p <= T!Full + Rate * (when - a + MaxWait)
  <2>0. Rate * (n - a) <= Rate * (when - a + MaxWait) /\ 0 <= Rate * (when - a + MaxWait)
    <3>1. n - a <= when - a + MaxWait /\ 0 <= n - a
      BY <1>f
    <3>2. 0 <= Rate * (n - a)
      BY <1>f, <3>1, RatesGrow
    <3> QED BY <1>f, <3>1, <3>2, RatesGrow
  <2>1. CASE r = None
    <3>1. g * One <= Rate * (n - a)
      BY <2>1 DEF Within
    <3>2. Rate * (n - a) \in Int
      BY <1>f
    <3> QED BY <3>1, <3>2, <2>0, <1>9, <1>f
  <2>2. CASE r # None
    <3>0. r.tokens \in Int /\ r.updated \in Int
      BY <2>2, BucketsAreFields
    <3>1. CASE r.updated + MaxWait < a
      <4>1. g <= 0
        BY <2>2, <3>1 DEF Within
      <4>2. g * One <= 0
        BY <4>1, <1>f
      <4> QED BY <4>2, <2>0, <1>9, <1>f
    <3>2. CASE r.updated + MaxWait >= a
      <4>1. g * One + r.tokens <= T!Full + Rate * (r.updated - a + MaxWait)
        BY <2>2, <3>2 DEF Within
      <4>2. Rate * (when - a + MaxWait) = Rate * (r.updated - a + MaxWait) + (when - r.updated) * Rate
        BY <1>f, <3>0
      <4>3. Rate * (r.updated - a + MaxWait) \in Int /\ (when - r.updated) * Rate \in Int
        BY <1>f, <3>0
      <4> QED BY <2>2, <4>1, <4>2, <4>3, <1>9, <1>f, <3>0
    <3> QED BY <3>0, <3>1, <3>2, <1>f
  <2> QED BY <2>1, <2>2
<1>2. when + MaxWait >= a
  BY <1>f
<1>3. Within(q, n, a, g + (-1))
  BY <1>0, <1>1, <1>2, <1>f DEF Within
<1>4. Rate * (when - a + MaxWait) <= Rate * (n - a + MaxWait)
  BY <1>f, RatesGrow
<1>5. (g + (-1)) * One <= T!Full + Rate * (n - a + MaxWait)
  <2>1. Rate * (n - a + MaxWait) \in Int
    BY <1>f
  <2> QED BY <1>1, <1>4, <1>9, <1>f, <2>1
<1> QED
  BY <1>3, <1>5 DEF Afforded

(* Time regains, and a bucket idle for the cutoff has regained everything.  *)
LEMMA WaitingWithin ==
    ASSUME NEW r \in T!Bucket \cup {None}, NEW n \in Nat, NEW a \in 0 .. n, NEW g \in Int,
           Within(r, n, a, g)
    PROVE  Within(r, n + 1, a, g)
<1>1. Rate * (n - a) <= Rate * (n + 1 - a) /\ Rate * (n - a) \in Int /\ Rate * (n + 1 - a) \in Int
  BY Figures, RatesGrow
<1>2. r # None => r.updated \in Int
  BY BucketsAreFields
<1>3. g * One \in Int
  BY Figures
<1> QED BY <1>1, <1>2, <1>3 DEF Within

LEMMA NothingWithin ==
    ASSUME NEW r \in T!Bucket \cup {None}, NEW n \in Nat, NEW a \in 0 .. n, r # None => r.updated <= n
    PROVE  Within(r, n, a, 0) /\ Afforded(n, a, 0)
<1>f. /\ T!Full \in Nat \ {0} /\ One \in Nat \ {0} /\ Rate \in Nat \ {0} /\ MaxWait \in Nat
  BY Figures
<1>1. 0 * One = 0
  BY <1>f
<1>2. \A x \in Nat : Rate * x \in Nat
  BY <1>f
<1>3. ASSUME r = None PROVE Within(r, n, a, 0)
  <2>1. Rate * (n - a) \in Nat
    BY <1>2
  <2> QED BY <1>1, <1>3, <2>1 DEF Within
<1>4. ASSUME r # None PROVE Within(r, n, a, 0)
  <2>1. r.tokens \in 0 .. T!Full /\ r.updated \in Nat
    BY <1>4, BucketsAreFields
  <2>2. r.updated + MaxWait >= a => Rate * (r.updated - a + MaxWait) \in Nat
    <3>1. r.updated + MaxWait >= a => r.updated - a + MaxWait \in Nat
      BY <2>1, <1>f
    <3> QED BY <3>1, <1>2
  <2> QED BY <1>1, <1>4, <2>1, <2>2, <1>f DEF Within
<1>5. Afforded(n, a, 0)
  <2>1. Rate * (n - a + MaxWait) \in Nat
    BY <1>2, <1>f
  <2> QED BY <1>1, <2>1, <1>f DEF Afforded
<1> QED BY <1>3, <1>4, <1>5

LEMMA SweepingWithin ==
    ASSUME NEW r \in T!Bucket, NEW n \in Nat, NEW when \in Nat, NEW a \in 0 .. n, NEW g \in Int,
           Within(r, n, a, g), when <= n, r.updated < when - Cutoff
    PROVE  Within(None, n, a, g)
<1>f. /\ T!Full \in Nat \ {0} /\ One \in Nat \ {0} /\ Rate \in Nat \ {0}
      /\ MaxWait \in Nat /\ Cutoff \in Nat /\ T!Full <= Rate * (Cutoff - MaxWait)
  BY Figures
<1>0. r # None /\ r.tokens \in 0 .. T!Full /\ r.updated \in Nat
  BY BucketsAreFields
<1>1. Rate * (n - a) \in Nat
  <2>1. n - a \in Nat
    OBVIOUS
  <2> QED BY <1>f, <2>1
<1>2. g * One \in Int
  BY <1>f
<1>3. CASE r.updated + MaxWait < a
  <2>1. g <= 0
    BY <1>0, <1>3 DEF Within
  <2>2. g * One <= 0
    BY <2>1, <1>f
  <2> QED BY <2>2, <1>1, <1>2 DEF Within
<1>4. CASE r.updated + MaxWait >= a
  <2>1. g * One + r.tokens <= T!Full + Rate * (r.updated - a + MaxWait)
    BY <1>0, <1>4 DEF Within
  <2>2. Rate * (Cutoff - MaxWait) + Rate * (r.updated - a + MaxWait) = Rate * (Cutoff + r.updated - a)
    BY <1>0, <1>f
  <2>3. Rate * (Cutoff + r.updated - a) <= Rate * (n - a)
    BY <1>0, <1>f, RatesGrow
  <2>4. /\ Rate * (Cutoff - MaxWait) \in Int /\ Rate * (r.updated - a + MaxWait) \in Int
        /\ Rate * (Cutoff + r.updated - a) \in Int
    BY <1>0, <1>f
  <2>5. g * One <= Rate * (n - a)
    BY <2>1, <2>2, <2>3, <2>4, <1>0, <1>1, <1>2, <1>f
  <2> QED BY <2>5 DEF Within
<1> QED BY <1>0, <1>3, <1>4, <1>f

-----------------------------------------------------------------------------
LEMMA IdleIsFree ==
    /\ T!IdleTx \in LimiterTx /\ T!IdleTx.phase = "idle" /\ T!IdleTx.op = None
    /\ T!IdleTx.made = None /\ T!IdleTx.dropped = {} /\ T!IdleTx.refunds = FALSE
  BY Figures DEF T!IdleTx, LimiterTx, Stages

(* Who holds a bucket may change it; who takes hold of one waited for it.   *)
LEMMA HandsKeep ==
    ASSUME BudgetInv, NEW c \in Clients, NEW t \in LimiterTx, ttx' = [ttx EXCEPT ![c] = t],
           clock' = clock, bucket' \in [Buckets -> T!Bucket \cup {None}],
           \A k \in Buckets : bucket'[k] # bucket[k] => Grips(ttx[c], k),
           Named(t), Timely(t, clock), Decides(t, bucket'), Drops(t, bucket'),
           \A k \in Buckets : Grips(t, k) => \/ Grips(ttx[c], k)
                                             \/ \A d \in Clients \ {c} : ~Grips(ttx[d], k)
    PROVE  /\ ttx' \in [Clients -> LimiterTx]
           /\ \A d \in Clients : InHand(ttx[d])'
           /\ HeldApart'
<1>1. /\ ttx' \in [Clients -> LimiterTx] /\ ttx'[c] = t
      /\ \A d \in Clients : d # c => ttx'[d] = ttx[d]
  BY DEF BudgetInv, LimiterTypes
<1>2. ASSUME NEW d \in Clients PROVE InHand(ttx[d])'
  <2>1. CASE d = c
    <3>1. Named(ttx'[d]) /\ Timely(ttx'[d], clock') /\ Decides(ttx'[d], bucket') /\ Drops(ttx'[d], bucket')
      BY <1>1, <2>1
    <3> QED BY <3>1 DEF InHand
  <2>2. CASE d # c
    <3>1. ttx[d] \in LimiterTx /\ ttx'[d] = ttx[d] /\ InHand(ttx[d])
      BY <1>1, <2>2 DEF BudgetInv, LimiterTypes
    <3>2. \A k \in Buckets : Grips(ttx[d], k) => bucket'[k] = bucket[k]
      BY <2>2 DEF BudgetInv, HeldApart
    <3>3. Named(ttx[d]) /\ Timely(ttx[d], clock) /\ Decides(ttx[d], bucket) /\ Drops(ttx[d], bucket)
      BY <3>1 DEF InHand
    <3>4. Decides(ttx[d], bucket')
      BY <3>2, <3>3 DEF Decides, Named, Grips
    <3>5. Drops(ttx[d], bucket')
      <4> SUFFICES ASSUME NEW k \in ttx[d].dropped
                   PROVE  /\ bucket'[k] # None
                          /\ \/ ttx[d].phase = "erasing" /\ k = ttx[d].key
                             \/ ttx[d].phase = "swept" /\ bucket'[k].updated < ttx[d].at - Cutoff
        BY DEF Drops
      <4>1. k \in Buckets
        BY <3>1 DEF LimiterTx
      <4>2. bucket'[k] = bucket[k]
        BY <4>1, <3>2 DEF Grips
      <4> QED BY <4>2, <3>3 DEF Drops
    <3> QED BY <3>1, <3>3, <3>4, <3>5 DEF InHand
  <2> QED BY <2>1, <2>2
<1>3. HeldApart'
  <2> SUFFICES ASSUME NEW d \in Clients, NEW e \in Clients, NEW k \in Buckets, d # e,
                      Grips(ttx'[d], k), Grips(ttx'[e], k)
               PROVE  FALSE
    BY DEF HeldApart
  <2>1. \A f \in Clients : f # c => Grips(ttx'[f], k) = Grips(ttx[f], k)
    BY <1>1
  <2>2. CASE d # c /\ e # c
    BY <2>1, <2>2 DEF BudgetInv, HeldApart
  <2>3. CASE d = c
    <3>1. Grips(t, k) /\ Grips(ttx[e], k) /\ e \in Clients \ {c}
      BY <1>1, <2>1, <2>3
    <3> QED BY <3>1, <2>3 DEF BudgetInv, HeldApart
  <2>4. CASE e = c
    <3>1. Grips(t, k) /\ Grips(ttx[d], k) /\ d \in Clients \ {c}
      BY <1>1, <2>1, <2>4
    <3> QED BY <3>1, <2>4 DEF BudgetInv, HeldApart
  <2> QED BY <2>2, <2>3, <2>4
<1> QED BY <1>1, <1>2, <1>3

(* A step that moves no token.                                              *)
LEMMA QuietLimits ==
    ASSUME BudgetInv, NEW c \in Clients, NEW t \in LimiterTx, ttx' = [ttx EXCEPT ![c] = t],
           UNCHANGED <<pool, clock, bucket, spent>>, InHand(t),
           \A k \in Buckets : Grips(t, k) => \/ Grips(ttx[c], k)
                                             \/ \A d \in Clients \ {c} : ~Grips(ttx[d], k)
    PROVE  BudgetInv'
<1>1. /\ bucket' \in [Buckets -> T!Bucket \cup {None}]
      /\ \A k \in Buckets : bucket'[k] # bucket[k] => Grips(ttx[c], k)
      /\ Named(t) /\ Timely(t, clock) /\ Decides(t, bucket') /\ Drops(t, bucket')
  BY DEF BudgetInv, LimiterTypes, InHand
<1>2. /\ ttx' \in [Clients -> LimiterTx]
      /\ \A d \in Clients : InHand(ttx[d])'
      /\ HeldApart'
  BY <1>1, HandsKeep
<1>3. LimiterTypes'
  BY <1>2 DEF BudgetInv, LimiterTypes
<1>4. \A k \in Buckets : Accounted(k)'
  BY DEF BudgetInv, Accounted, T!Before
<1> QED BY <1>2, <1>3, <1>4 DEF BudgetInv

LEMMA FreeIsUngripped ==
    ASSUME NEW c \in Clients, NEW k \in Buckets
    PROVE  T!Free(c, k) <=> \A d \in Clients \ {c} : ~Grips(ttx[d], k)
  BY DEF T!Free, T!HoldsRow, Grips

LEMMA LimitAnswersKeep ==
    ASSUME BudgetInv, NEW c \in Clients, ttx' = [ttx EXCEPT ![c] = T!IdleTx],
           UNCHANGED <<pool, clock, bucket, spent>>
    PROVE  BudgetInv'
<1>1. InHand(T!IdleTx) /\ \A k \in Buckets : ~Grips(T!IdleTx, k)
  BY IdleIsFree, ThrottlesAssumption
     DEF InHand, Named, Timely, Decides, Drops, Grips, T!LimiterPhases, T!ThrottlingAssumption, T!Ops
<1> QED BY <1>1, IdleIsFree, QuietLimits

LEMMA LimitBeginsKeep ==
    ASSUME BudgetInv, NEW c \in Clients, NEW op \in T!Ops, NEW k \in Buckets, T!Begin(c, op, k)
    PROVE  BudgetInv'
<1> DEFINE t == [T!IdleTx EXCEPT !.phase = IF op = "sweep" THEN "sweep" ELSE "session",
                                 !.op = op, !.key = k, !.at = IF op = "sweep" THEN clock ELSE 0]
<1>1. ttx' = [ttx EXCEPT ![c] = t] /\ UNCHANGED <<pool, clock, bucket, spent>>
  BY DEF T!Begin
<1>2. /\ t \in LimiterTx /\ t.phase = (IF op = "sweep" THEN "sweep" ELSE "session")
      /\ t.op = op /\ t.key = k /\ t.made = None /\ t.dropped = {}
      /\ t.at = (IF op = "sweep" THEN clock ELSE 0)
  BY IdleIsFree, Figures DEF LimiterTx, Stages, BudgetInv, LimiterTypes, T!IdleTx
<1>3. InHand(t)
  BY <1>2, Figures DEF InHand, Named, Timely, Decides, Drops, T!LimiterPhases, BudgetInv, LimiterTypes
<1>4. \A j \in Buckets : ~Grips(t, j)
  BY <1>2 DEF Grips
<1> HIDE DEF t
<1> QED BY <1>1, <1>2, <1>3, <1>4, QuietLimits

(* A request that moves on holds what it held, or nothing.                  *)
LEMMA LimitStepsKeep ==
    ASSUME BudgetInv, NEW c \in Clients, NEW phase \in Stages \ {"idle", "sweep", "swept", "decide", "erasing"},
           NEW when \in 0 .. MaxTicks, NEW refunds \in BOOLEAN,
           ttx[c].phase \notin {"idle", "sweep", "swept", "decide", "erasing"},
           phase \in T!LimiterPhases => when <= clock /\ clock <= when + MaxWait,
           phase = "erase" => ttx[c].op = "erase",
           ttx' = [ttx EXCEPT ![c] = [ttx[c] EXCEPT !.phase = phase, !.at = when, !.refunds = refunds]],
           UNCHANGED <<pool, clock, bucket, spent>>
    PROVE  BudgetInv'
<1> DEFINE u == ttx[c]
           t == [u EXCEPT !.phase = phase, !.at = when, !.refunds = refunds]
<1>1. u \in LimiterTx /\ InHand(u)
  BY DEF BudgetInv, LimiterTypes
<1>2. u.made = None /\ u.dropped = {} /\ u.key \in Buckets
  BY <1>1 DEF InHand, Named, Decides, Drops, LimiterTx
<1>3. /\ t \in LimiterTx /\ t.phase = phase /\ t.op = u.op /\ t.key = u.key /\ t.at = when
      /\ t.made = None /\ t.dropped = {}
  BY <1>1, <1>2 DEF LimiterTx
<1>4. InHand(t)
  <2>1. Named(t)
    BY <1>1, <1>2, <1>3 DEF InHand, Named
  <2>2. Timely(t, clock)
    BY <1>3 DEF Timely, Stages
  <2> QED BY <2>1, <2>2, <1>3 DEF InHand, Decides, Drops
<1>5. \A j \in Buckets : ~Grips(t, j)
  BY <1>3 DEF Grips
<1>6. ttx' = [ttx EXCEPT ![c] = t]
  OBVIOUS
<1> HIDE DEF t
<1> QED BY <1>3, <1>4, <1>5, <1>6, QuietLimits

LEMMA LimitWaitsKeep ==
    ASSUME BudgetInv, NEW c \in Clients,
           \/ T!TakeSession(c) \/ T!TakeConnection(c) \/ T!PoolTimeout(c)
           \/ T!TakeSlot(c) \/ T!Finish(c) \/ T!CheckCredential(c)
    PROVE  BudgetInv'
<1>0. ttx[c] \in LimiterTx /\ ttx[c] = [ttx[c] EXCEPT !.at = ttx[c].at, !.refunds = ttx[c].refunds]
  BY DEF BudgetInv, LimiterTypes, LimiterTx
<1>f. clock \in 0 .. MaxTicks /\ clock <= clock + MaxWait
  BY Figures DEF BudgetInv, LimiterTypes
<1>1. CASE T!TakeSession(c)
  <2>1. ttx[c].phase = "session" /\ UNCHANGED <<pool, clock, bucket, spent>>
    BY <1>1 DEF T!TakeSession, T!Go
  <2>2. ASSUME NEW p \in {"erase", "connect"}, p = "erase" => ttx[c].op = "erase",
               ttx' = [ttx EXCEPT ![c] = [ttx[c] EXCEPT !.phase = p]]
        PROVE  BudgetInv'
    <3>0. [ttx[c] EXCEPT !.phase = p] = [ttx[c] EXCEPT !.phase = p, !.at = ttx[c].at, !.refunds = ttx[c].refunds]
      BY <1>0 DEF LimiterTx
    <3>1. ttx' = [ttx EXCEPT ![c] = [ttx[c] EXCEPT !.phase = p, !.at = ttx[c].at, !.refunds = ttx[c].refunds]]
      BY <2>2, <3>0
    <3>2. /\ p \in Stages \ {"idle", "sweep", "swept", "decide", "erasing"}
          /\ p \notin T!LimiterPhases
          /\ ttx[c].at \in 0 .. MaxTicks /\ ttx[c].refunds \in BOOLEAN
      BY <1>0 DEF Stages, LimiterTx, T!LimiterPhases
    <3>3. p \in T!LimiterPhases => ttx[c].at <= clock /\ clock <= ttx[c].at + MaxWait
      BY <3>2
    <3>4. ttx[c].phase \notin {"idle", "sweep", "swept", "decide", "erasing"}
      BY <2>1
    <3> QED BY <2>1, <2>2, <3>1, <3>2, <3>3, <3>4, LimitStepsKeep
  <2> QED BY <1>1, <2>2 DEF T!TakeSession, T!Go
<1>2. CASE T!TakeConnection(c)
  <2>1. ttx' = [ttx EXCEPT ![c] = [ttx[c] EXCEPT !.phase = "lock", !.at = clock, !.refunds = ttx[c].refunds]]
    BY <1>0, <1>2 DEF T!TakeConnection, T!Go, LimiterTx
  <2>2. ttx[c].phase = "connect" /\ UNCHANGED <<pool, clock, bucket, spent>>
    BY <1>2 DEF T!TakeConnection, T!Go
  <2>3. "lock" \in Stages \ {"idle", "sweep", "swept", "decide", "erasing"} /\ ttx[c].refunds \in BOOLEAN
    BY <1>0 DEF Stages, LimiterTx
  <2>4. ASSUME NEW when \in 0 .. MaxTicks, when <= clock, clock <= when + MaxWait,
               ttx' = [ttx EXCEPT ![c] = [ttx[c] EXCEPT !.phase = "lock", !.at = when, !.refunds = ttx[c].refunds]]
        PROVE  BudgetInv'
    BY <2>2, <2>3, <2>4, LimitStepsKeep
  <2>5. clock <= clock
    BY <1>f
  <2> QED BY <2>1, <2>4, <2>5, <1>f
<1>3. CASE T!PoolTimeout(c) \/ T!Finish(c)
  BY <1>3, LimitAnswersKeep DEF T!PoolTimeout, T!Finish, T!Refuse, T!Answer
<1>4. CASE T!TakeSlot(c)
  <2>1. CASE ttx' = [ttx EXCEPT ![c] = T!IdleTx]
    BY <1>4, <2>1, LimitAnswersKeep DEF T!TakeSlot, T!Refuse, T!Answer
  <2>2. CASE ttx' = [ttx EXCEPT ![c].phase = "work"]
    <3>1. ttx' = [ttx EXCEPT ![c] = [ttx[c] EXCEPT !.phase = "work", !.at = ttx[c].at, !.refunds = ttx[c].refunds]]
      BY <1>0, <2>2 DEF LimiterTx
    <3>2. ttx[c].phase = "slot" /\ UNCHANGED <<pool, clock, bucket, spent>>
      BY <1>4 DEF T!TakeSlot, T!Refuse, T!Answer
    <3>3. /\ "work" \in Stages \ {"idle", "sweep", "swept", "decide", "erasing"}
          /\ "work" \notin T!LimiterPhases
          /\ ttx[c].at \in 0 .. MaxTicks /\ ttx[c].refunds \in BOOLEAN
      BY <1>0 DEF Stages, LimiterTx, T!LimiterPhases
    <3> QED BY <3>1, <3>2, <3>3, LimitStepsKeep
  <2> QED BY <1>4, <2>1, <2>2 DEF T!TakeSlot, T!Refuse, T!Answer
<1>5. CASE T!CheckCredential(c)
  <2>1. CASE ttx' = [ttx EXCEPT ![c] = T!IdleTx]
    BY <1>5, <2>1, LimitAnswersKeep DEF T!CheckCredential, T!Go, T!Refuse, T!Answer
  <2>2. CASE ttx' = [ttx EXCEPT ![c] = [ttx[c] EXCEPT !.phase = "connect", !.refunds = TRUE]]
    <3>1. ttx' = [ttx EXCEPT ![c] = [ttx[c] EXCEPT !.phase = "connect", !.at = ttx[c].at, !.refunds = TRUE]]
      BY <1>0, <2>2 DEF LimiterTx
    <3>2. ttx[c].phase = "check" /\ UNCHANGED <<pool, clock, bucket, spent>>
      BY <1>5 DEF T!CheckCredential, T!Go, T!Refuse, T!Answer
    <3>3. /\ "connect" \in Stages \ {"idle", "sweep", "swept", "decide", "erasing"}
          /\ "connect" \notin T!LimiterPhases
          /\ ttx[c].at \in 0 .. MaxTicks
      BY <1>0 DEF Stages, LimiterTx, T!LimiterPhases
    <3> QED BY <3>1, <3>2, <3>3, LimitStepsKeep
  <2> QED BY <1>5, <2>1, <2>2 DEF T!CheckCredential, T!Go, T!Refuse, T!Answer
<1> QED BY <1>1, <1>2, <1>3, <1>4, <1>5

(* Who decides has waited for the bucket, or for whoever was making it.     *)
LEMMA LimitLocksKeep ==
    ASSUME BudgetInv, NEW c \in Clients, T!LockBucket(c) \/ T!EnsureBucket(c) \/ T!RelockBucket(c)
    PROVE  BudgetInv'
<1> DEFINE u == ttx[c]
           holding == [u EXCEPT !.phase = "decide"]
           making == [u EXCEPT !.phase = "decide", !.made = [tokens |-> T!Full, updated |-> u.at]]
<1>1. u \in LimiterTx /\ InHand(u) /\ u.phase \in {"lock", "ensure", "relock"}
  BY DEF BudgetInv, LimiterTypes, T!LockBucket, T!EnsureBucket, T!RelockBucket
<1>2. /\ u.made = None /\ u.dropped = {} /\ u.key \in Buckets
      /\ u.at \in 0 .. MaxTicks /\ u.at <= clock /\ clock <= u.at + MaxWait
      /\ u.op # "sweep"
  BY <1>1 DEF InHand, Named, Timely, Decides, Drops, LimiterTx, T!LimiterPhases
<1>3. UNCHANGED <<pool, clock, bucket, spent>>
  BY DEF T!LockBucket, T!EnsureBucket, T!RelockBucket, T!Go, T!Refuse, T!Answer
<1>4. CASE ttx' = [ttx EXCEPT ![c] = T!IdleTx]
  BY <1>3, <1>4, LimitAnswersKeep
<1>5. CASE \E p \in {"ensure", "relock"} : ttx' = [ttx EXCEPT ![c] = [u EXCEPT !.phase = p]]
  <2>1. PICK p \in {"ensure", "relock"} : ttx' = [ttx EXCEPT ![c] = [u EXCEPT !.phase = p]]
    BY <1>5
  <2>2. p \in Stages \ {"idle", "sweep", "swept", "decide", "erasing"}
    BY DEF Stages
  <2>3. [u EXCEPT !.phase = p] = [u EXCEPT !.phase = p, !.at = u.at, !.refunds = u.refunds]
    BY <1>1 DEF LimiterTx
  <2>4. ttx' = [ttx EXCEPT ![c] = [ttx[c] EXCEPT !.phase = p, !.at = ttx[c].at, !.refunds = ttx[c].refunds]]
    BY <2>1, <2>3
  <2>5. ttx[c].phase \notin {"idle", "sweep", "swept", "decide", "erasing"} /\ u.refunds \in BOOLEAN
    BY <1>1 DEF LimiterTx
  <2> HIDE DEF u
  <2> QED BY <1>2, <1>3, <2>2, <2>4, <2>5, LimitStepsKeep DEF u
<1>6. ASSUME NEW t \in LimiterTx, ttx' = [ttx EXCEPT ![c] = t], t.phase = "decide", t.op = u.op,
             t.key = u.key, t.at = u.at, t.dropped = {}, T!Free(c, u.key),
             \/ t.made = None /\ bucket[u.key] # None
             \/ bucket[u.key] = None /\ t.made = [tokens |-> T!Full, updated |-> u.at]
      PROVE  BudgetInv'
  <2>1. Named(t) /\ Timely(t, clock)
    BY <1>2, <1>6 DEF Named, Timely
  <2>2. Decides(t, bucket) /\ Drops(t, bucket)
    <3>1. CASE t.made = None /\ bucket[u.key] # None
      BY <1>6, <3>1 DEF Decides, Drops
    <3>2. CASE bucket[u.key] = None /\ t.made = [tokens |-> T!Full, updated |-> u.at]
      <4>1. t.made # None
        BY <1>2, <3>2, BucketsAreFields, Figures
      <4> QED BY <1>6, <3>2, <4>1 DEF Decides, Drops
    <3> QED BY <1>6, <3>1, <3>2
  <2>3. ASSUME NEW k \in Buckets, Grips(t, k) PROVE \A d \in Clients \ {c} : ~Grips(ttx[d], k)
    <3>1. k = u.key
      BY <1>6, <2>3 DEF Grips
    <3> QED BY <3>1, <1>6, FreeIsUngripped
  <2> QED BY <1>3, <1>6, <2>1, <2>2, <2>3, QuietLimits DEF InHand
<1>7. CASE ttx' = [ttx EXCEPT ![c] = holding] /\ bucket[u.key] # None /\ T!Free(c, u.key)
  <2>1. holding \in LimiterTx /\ holding.phase = "decide" /\ holding.op = u.op /\ holding.key = u.key
        /\ holding.at = u.at /\ holding.dropped = {} /\ holding.made = None
    BY <1>1, <1>2 DEF LimiterTx, Stages
  <2> HIDE DEF holding
  <2> QED BY <1>6, <1>7, <2>1
<1>8. CASE ttx' = [ttx EXCEPT ![c] = making] /\ bucket[u.key] = None /\ T!Free(c, u.key)
  <2>0. [tokens |-> T!Full, updated |-> u.at] \in T!Bucket
    BY <1>2, BucketsAreFields, Figures
  <2>1. making \in LimiterTx /\ making.phase = "decide" /\ making.op = u.op /\ making.key = u.key
        /\ making.at = u.at /\ making.dropped = {} /\ making.made = [tokens |-> T!Full, updated |-> u.at]
    BY <1>1, <1>2, <2>0 DEF LimiterTx, Stages
  <2> HIDE DEF making
  <2> QED BY <1>6, <1>8, <2>1
<1>9. CASE T!LockBucket(c)
  BY <1>4, <1>5, <1>7, <1>9 DEF T!LockBucket, T!CanLock, T!Go, T!Refuse, T!Answer
<1>10. CASE T!EnsureBucket(c)
  <2>1. CASE bucket[u.key] = None
    BY <1>8, <1>10, <2>1 DEF T!EnsureBucket, T!Go
  <2>2. CASE bucket[u.key] # None
    BY <1>5, <1>10, <2>2 DEF T!EnsureBucket, T!Go
  <2> QED BY <2>1, <2>2
<1>11. CASE T!RelockBucket(c)
  BY <1>4, <1>7, <1>11 DEF T!RelockBucket, T!CanLock, T!Go, T!Refuse, T!Answer
<1> QED BY <1>9, <1>10, <1>11

(* Buckets are dropped by who has waited for them.                          *)
LEMMA LimitDropsKeep ==
    ASSUME BudgetInv, NEW c \in Clients, T!Sweep(c) \/ T!Erase(c)
    PROVE  BudgetInv'
<1> DEFINE u == ttx[c]
<1>1. u \in LimiterTx /\ InHand(u) /\ u.phase \in {"sweep", "erase"}
  BY DEF BudgetInv, LimiterTypes, T!Sweep, T!Erase
<1>2. u.made = None /\ u.dropped = {} /\ u.key \in Buckets
  BY <1>1 DEF InHand, Named, Decides, Drops, LimiterTx
<1>3. UNCHANGED <<pool, clock, bucket, spent>>
  BY DEF T!Sweep, T!Erase, T!Go
<1>4. ASSUME NEW t \in LimiterTx, ttx' = [ttx EXCEPT ![c] = t], t.phase # "decide", InHand(t),
             \A k \in t.dropped : T!Free(c, k)
      PROVE  BudgetInv'
  <2>1. ASSUME NEW k \in Buckets, Grips(t, k) PROVE \A d \in Clients \ {c} : ~Grips(ttx[d], k)
    BY <1>4, <2>1, FreeIsUngripped DEF Grips
  <2> QED BY <1>3, <1>4, <2>1, QuietLimits
<1>5. CASE T!Sweep(c)
  <2> DEFINE idle == {k \in Buckets : bucket[k] # None /\ T!Idle(u, k)}
             t == [u EXCEPT !.phase = "swept", !.dropped = idle]
  <2>1. ttx' = [ttx EXCEPT ![c] = t] /\ \A k \in idle : T!Free(c, k)
    BY <1>5 DEF T!Sweep, T!Go
  <2>2. u.phase = "sweep"
    BY <1>5 DEF T!Sweep
  <2>3. /\ t \in LimiterTx /\ t.phase = "swept" /\ t.dropped = idle /\ t.made = None /\ t.key = u.key
        /\ t.op = u.op /\ t.at = u.at
    BY <1>1, <1>2 DEF LimiterTx, Stages
  <2>4. InHand(t)
    <3>1. Named(t) /\ Timely(t, clock)
      BY <1>1, <1>2, <2>2, <2>3 DEF InHand, Named, Timely
    <3>2. Decides(t, bucket)
      BY <2>3 DEF Decides
    <3>3. Drops(t, bucket)
      BY <2>3 DEF Drops, T!Idle
    <3> QED BY <3>1, <3>2, <3>3 DEF InHand
  <2> HIDE DEF t, idle
  <2> QED BY <2>1, <2>3, <2>4, <1>4
<1>6. CASE T!Erase(c)
  <2> DEFINE those == IF bucket[u.key] = None THEN {} ELSE {u.key}
             t == [u EXCEPT !.phase = "erasing", !.dropped = those]
  <2>1. ttx' = [ttx EXCEPT ![c] = t] /\ \A k \in those : T!Free(c, k)
    BY <1>6 DEF T!Erase, T!Go, T!CanLock
  <2>2. u.phase = "erase"
    BY <1>6 DEF T!Erase
  <2>3. /\ t \in LimiterTx /\ t.phase = "erasing" /\ t.dropped = those /\ t.made = None /\ t.key = u.key
        /\ t.op = u.op /\ t.at = u.at
    BY <1>1, <1>2 DEF LimiterTx, Stages
  <2>4. InHand(t)
    <3>1. Named(t) /\ Timely(t, clock)
      BY <1>1, <1>2, <2>2, <2>3 DEF InHand, Named, Timely, T!LimiterPhases
    <3>2. Decides(t, bucket)
      BY <2>3 DEF Decides
    <3>3. Drops(t, bucket)
      BY <2>3 DEF Drops
    <3> QED BY <3>1, <3>2, <3>3 DEF InHand
  <2> HIDE DEF t, those
  <2> QED BY <2>1, <2>3, <2>4, <1>4
<1> QED BY <1>5, <1>6

LEMMA LimitInterruptsKeep ==
    ASSUME BudgetInv, NEW c \in Clients, T!Interrupt(c)
    PROVE  BudgetInv'
  BY LimitAnswersKeep DEF T!Interrupt, T!Answer

(* One bucket is granted of, or given back to.                              *)
LEMMA GrantsAreAccounted ==
    ASSUME BudgetInv, NEW k \in Buckets, NEW m \in Int, NEW q \in T!Bucket, T!Grant(k, m),
           bucket' = [bucket EXCEPT ![k] = q], clock' = clock,
           \A a \in 0 .. clock : LET g == spent[k][clock] - T!Before(k, a)
                                 IN  Within(q, clock, a, g + m) /\ Afforded(clock, a, g + m)
    PROVE  /\ spent' \in [Buckets -> [0 .. MaxTicks -> Int]]
           /\ \A j \in Buckets : Accounted(j)'
<1>0. clock \in 0 .. MaxTicks /\ spent \in [Buckets -> [0 .. MaxTicks -> Int]] /\ MaxTicks \in Nat
      /\ bucket \in [Buckets -> T!Bucket \cup {None}]
  BY Figures DEF BudgetInv, LimiterTypes
<1>1. /\ spent' \in [Buckets -> [0 .. MaxTicks -> Int]]
      /\ \A t \in 0 .. MaxTicks : spent'[k][t] = IF t < clock THEN spent[k][t] ELSE spent[k][t] + m
      /\ \A j \in Buckets \ {k} : spent'[j] = spent[j]
  BY <1>0 DEF T!Grant
<1>2. bucket'[k] = q /\ \A j \in Buckets \ {k} : bucket'[j] = bucket[j]
  BY <1>0
<1>3. ASSUME NEW j \in Buckets \ {k} PROVE Accounted(j)'
  <2>1. Accounted(j) /\ spent'[j] = spent[j] /\ bucket'[j] = bucket[j]
    BY <1>1, <1>2 DEF BudgetInv
  <2> QED BY <2>1 DEF Accounted, T!Before
<1>4. ASSUME NEW a \in 0 .. clock
      PROVE  /\ T!Before(k, a) \in Int /\ T!Before(k, a)' = T!Before(k, a)
             /\ spent[k][clock] - T!Before(k, a) \in Int
             /\ spent'[k][clock] - T!Before(k, a) = spent[k][clock] - T!Before(k, a) + m
  <2>1. spent[k][clock] \in Int /\ spent'[k][clock] = spent[k][clock] + m
    BY <1>0, <1>1
  <2>2. CASE a = 0
    BY <2>1, <2>2 DEF T!Before
  <2>3. CASE a # 0
    <3>1. a - 1 \in 0 .. MaxTicks /\ a - 1 < clock
      BY <1>0, <2>3
    <3>2. spent[k][a - 1] \in Int /\ spent'[k][a - 1] = spent[k][a - 1]
      BY <1>0, <1>1, <3>1
    <3> QED BY <2>1, <2>3, <3>2 DEF T!Before
  <2> QED BY <2>2, <2>3
<1>5. Accounted(k)'
  <2>1. Accounted(k)
    BY DEF BudgetInv
  <2>2. \A t \in clock .. MaxTicks : spent'[k][t] = spent'[k][clock]
    <3> SUFFICES ASSUME NEW t \in clock .. MaxTicks PROVE spent'[k][t] = spent'[k][clock]
      OBVIOUS
    <3>1. t \in 0 .. MaxTicks /\ ~ (t < clock) /\ clock \in 0 .. MaxTicks
      BY <1>0
    <3>2. spent[k][t] = spent[k][clock]
      BY <2>1 DEF Accounted
    <3> QED BY <1>1, <3>1, <3>2
  <2>3. ASSUME NEW a \in 0 .. clock PROVE Within(q, clock, a, spent'[k][clock] - T!Before(k, a)')
    BY <1>4
  <2>4. ASSUME NEW a \in 0 .. clock, NEW b \in 0 .. clock, a <= b
        PROVE  Afforded(b, a, spent'[k][b] - T!Before(k, a)')
    <3>1. CASE b = clock
      BY <1>4, <3>1
    <3>2. CASE b # clock
      <4>1. b \in 0 .. MaxTicks /\ b < clock
        BY <1>0, <3>2
      <4>2. spent'[k][b] = spent[k][b] /\ T!Before(k, a)' = T!Before(k, a)
        BY <1>1, <1>4, <4>1
      <4> QED BY <2>1, <2>4, <4>2 DEF Accounted
    <3> QED BY <3>1, <3>2
  <2>5. clock' = clock /\ bucket'[k] = q
    BY <1>2
  <2> QED BY <2>2, <2>3, <2>4, <2>5 DEF Accounted
<1> QED BY <1>1, <1>3, <1>5

LEMMA LimitGrantsKeep ==
    ASSUME BudgetInv, NEW c \in Clients, NEW t \in LimiterTx, ttx[c].phase = "decide",
           ttx' = [ttx EXCEPT ![c] = t], t.made = None, t.dropped = {},
           t.phase \notin T!LimiterPhases \cup {"sweep", "swept", "erase", "erasing"}, t.op # "sweep",
           t.phase # "idle" => t.key \in Buckets,
           NEW p \in 0 .. T!Full, NEW m \in Int, T!Put(ttx[c].key, p, ttx[c].at), T!Grant(ttx[c].key, m),
           UNCHANGED <<pool, clock>>,
           \A a \in 0 .. clock : LET g == spent[ttx[c].key][clock] - T!Before(ttx[c].key, a)
                                 IN  /\ Within([tokens |-> p, updated |-> ttx[c].at], clock, a, g + m)
                                     /\ Afforded(clock, a, g + m)
    PROVE  BudgetInv'
<1> DEFINE k == ttx[c].key
           q == [tokens |-> p, updated |-> ttx[c].at]
<1>1. ttx[c] \in LimiterTx /\ InHand(ttx[c])
  BY DEF BudgetInv, LimiterTypes
<1>2. k \in Buckets /\ ttx[c].at \in 0 .. MaxTicks
  BY <1>1 DEF InHand, Named, LimiterTx
<1>3. q \in T!Bucket
  BY <1>2, BucketsAreFields
<1>4. bucket' = [bucket EXCEPT ![k] = q]
  BY DEF T!Put
<1>5. /\ spent' \in [Buckets -> [0 .. MaxTicks -> Int]]
      /\ \A j \in Buckets : Accounted(j)'
  <2>1. T!Grant(k, m) /\ clock' = clock
    OBVIOUS
  <2>2. \A a \in 0 .. clock : LET g == spent[k][clock] - T!Before(k, a)
                              IN  Within(q, clock, a, g + m) /\ Afforded(clock, a, g + m)
    OBVIOUS
  <2> HIDE DEF k, q
  <2> QED BY <1>2, <1>3, <1>4, <2>1, <2>2, GrantsAreAccounted
<1>6. bucket' \in [Buckets -> T!Bucket \cup {None}] /\ \A j \in Buckets : bucket'[j] # bucket[j] => j = k
  BY <1>2, <1>3, <1>4 DEF BudgetInv, LimiterTypes
<1>7. Grips(ttx[c], k)
  BY DEF Grips
<1>8. Named(t) /\ Timely(t, clock) /\ Decides(t, bucket') /\ Drops(t, bucket')
  BY DEF Named, Timely, Decides, Drops, T!LimiterPhases
<1>9. \A j \in Buckets : ~Grips(t, j)
  BY DEF Grips, T!LimiterPhases
<1>10. /\ ttx' \in [Clients -> LimiterTx]
       /\ \A d \in Clients : InHand(ttx[d])'
       /\ HeldApart'
  BY <1>6, <1>7, <1>8, <1>9, HandsKeep
<1>11. LimiterTypes'
  BY <1>5, <1>6, <1>10 DEF BudgetInv, LimiterTypes
<1> QED BY <1>5, <1>10, <1>11 DEF BudgetInv

LEMMA GrantedIsInt ==
    ASSUME BudgetInv, NEW k \in Buckets, NEW a \in 0 .. clock
    PROVE  spent[k][clock] - T!Before(k, a) \in Int
<1>1. /\ clock \in 0 .. MaxTicks /\ MaxTicks \in Nat
      /\ \A t \in 0 .. MaxTicks : spent[k][t] \in Int
  BY Figures DEF BudgetInv, LimiterTypes
<1>2. a # 0 => a - 1 \in 0 .. MaxTicks
  BY <1>1
<1>3. T!Before(k, a) \in Int
  BY <1>1, <1>2 DEF T!Before
<1> QED BY <1>1, <1>3

(* What a transaction of a limiter works on.                                *)
LEMMA TheRowInHand ==
    ASSUME BudgetInv, NEW c \in Clients, ttx[c].phase = "decide"
    PROVE  LET t == ttx[c]
               r == bucket[t.key]
               regained == T!Row(t).tokens + (t.at - T!Row(t).updated) * Rate
           IN  /\ t \in LimiterTx /\ t.key \in Buckets /\ r \in T!Bucket \cup {None}
               /\ t.at \in 0 .. MaxTicks /\ t.at <= clock /\ clock <= t.at + MaxWait
               /\ r # None => T!Row(t) = r /\ r.updated <= clock
               /\ r = None => T!Row(t) = [tokens |-> T!Full, updated |-> t.at] /\ regained = T!Full
               /\ T!Row(t) \in T!Bucket /\ regained \in Int /\ 0 <= regained + One
<1> DEFINE t == ttx[c]
           r == bucket[t.key]
<1>f. /\ T!Full \in Nat \ {0} /\ One \in Nat \ {0} /\ Rate \in Nat \ {0}
      /\ MaxWait \in Nat /\ MaxTicks \in Nat /\ Rate * MaxWait <= One
  BY Figures
<1>1. t \in LimiterTx /\ InHand(t) /\ clock \in 0 .. MaxTicks /\ bucket \in [Buckets -> T!Bucket \cup {None}]
  BY DEF BudgetInv, LimiterTypes
<1>2. /\ t.key \in Buckets /\ r \in T!Bucket \cup {None}
      /\ t.at \in 0 .. MaxTicks /\ t.at <= clock /\ clock <= t.at + MaxWait
  BY <1>1 DEF InHand, Named, Timely, LimiterTx, T!LimiterPhases
<1>3. IF t.made = None THEN r # None ELSE r = None /\ t.made = [tokens |-> T!Full, updated |-> t.at]
  BY <1>1 DEF InHand, Decides
<1>4. CASE r # None
  <2>1. T!Row(t) = r /\ r \in T!Bucket
    BY <1>2, <1>3, <1>4 DEF T!Row
  <2>2. r.updated <= clock
    <3>1. Within(r, clock, 0, spent[t.key][clock] - T!Before(t.key, 0))
      <4>1. Accounted(t.key) /\ 0 \in 0 .. clock
        BY <1>1, <1>2 DEF BudgetInv
      <4> QED BY <4>1 DEF Accounted
    <3> QED BY <3>1, <1>4 DEF Within
  <2>3. r.tokens \in 0 .. T!Full /\ r.updated \in 0 .. MaxTicks
    BY <2>1, BucketsAreFields
  <2>4. (t.at - r.updated) * Rate + One >= 0 /\ (t.at - r.updated) * Rate \in Int
    <3>1. t.at - r.updated \in Int /\ - MaxWait <= t.at - r.updated
      BY <1>1, <1>2, <1>f, <2>2, <2>3
    <3>2. Rate * (- MaxWait) <= Rate * (t.at - r.updated)
      BY <3>1, <1>f, RatesGrow
    <3>3. /\ Rate * (- MaxWait) = - (Rate * MaxWait) /\ (t.at - r.updated) * Rate = Rate * (t.at - r.updated)
          /\ Rate * MaxWait \in Int /\ Rate * (t.at - r.updated) \in Int
      BY <3>1, <1>f
    <3> QED BY <3>2, <3>3, <1>f
  <2> QED BY <1>1, <1>2, <1>4, <1>f, <2>1, <2>2, <2>3, <2>4
<1>5. CASE r = None
  <2>1. T!Row(t) = [tokens |-> T!Full, updated |-> t.at] /\ t.made # None
    BY <1>2, <1>3, <1>5 DEF T!Row
  <2>2. T!Row(t) \in T!Bucket /\ T!Row(t).tokens = T!Full /\ T!Row(t).updated = t.at
    BY <2>1, <1>2, <1>f, BucketsAreFields
  <2>3. (t.at - T!Row(t).updated) * Rate = 0
    BY <2>2, <1>2, <1>f
  <2> QED BY <1>1, <1>2, <1>5, <1>f, <2>1, <2>2, <2>3
<1> QED BY <1>4, <1>5

LEMMA LimitSpendsKeep ==
    ASSUME BudgetInv, NEW c \in Clients, T!Spend(c)
    PROVE  BudgetInv'
<1> DEFINE u == ttx[c]
           r == bucket[u.key]
           regained == T!Row(u).tokens + (u.at - T!Row(u).updated) * Rate
           p == T!Refilled(u) - One
           t == [T!IdleTx EXCEPT !.op = u.op, !.key = u.key,
                                 !.phase = IF u.op = "suggest" THEN "slot" ELSE "check"]
<1>f. T!Full \in Nat \ {0} /\ One \in Nat \ {0} /\ Rate \in Nat \ {0} /\ clock \in 0 .. MaxTicks
  BY Figures DEF BudgetInv, LimiterTypes
<1>0. u.phase = "decide"
  BY DEF T!Spend
<1>1. /\ u \in LimiterTx /\ u.key \in Buckets /\ r \in T!Bucket \cup {None}
      /\ u.at \in 0 .. MaxTicks /\ u.at <= clock /\ clock <= u.at + MaxWait
      /\ r # None => T!Row(u) = r
      /\ regained \in Int
  BY <1>0, TheRowInHand
<1>2. T!Refilled(u) \in Int /\ T!Refilled(u) <= T!Full /\ T!Refilled(u) <= regained
  BY <1>1, <1>f DEF T!Refilled, T!Least
<1>3. CASE T!Refilled(u) >= One
  <2>1. /\ T!Put(u.key, p, u.at) /\ T!Grant(u.key, 1) /\ ttx' = [ttx EXCEPT ![c] = t]
        /\ UNCHANGED <<pool, clock>>
    BY <1>3 DEF T!Spend
  <2>2. p \in Nat /\ p \in 0 .. T!Full /\ p + One <= T!Full /\ p + One <= regained
    BY <1>2, <1>3, <1>f
  <2>3. /\ t \in LimiterTx /\ t.made = None /\ t.dropped = {}
        /\ t.phase \notin T!LimiterPhases \cup {"sweep", "swept", "erase", "erasing"} /\ t.op = u.op
        /\ t.key = u.key
    BY <1>1, IdleIsFree DEF LimiterTx, Stages, T!LimiterPhases, T!IdleTx
  <2>4. t.op # "sweep"
    BY <1>0, <2>3 DEF BudgetInv, InHand, Named
  <2>5. ASSUME NEW a \in 0 .. clock
        PROVE  LET g == spent[u.key][clock] - T!Before(u.key, a)
               IN  /\ Within([tokens |-> p, updated |-> u.at], clock, a, g + 1)
                   /\ Afforded(clock, a, g + 1)
    <3> DEFINE g == spent[u.key][clock] - T!Before(u.key, a)
    <3>1. g \in Int
      BY <1>1, GrantedIsInt
    <3>2. Within(r, clock, a, g)
      BY <1>1 DEF BudgetInv, Accounted
    <3>3. r # None => p + One <= r.tokens + (u.at - r.updated) * Rate
      BY <1>1, <2>2
    <3> HIDE DEF g, p, r, u
    <3>4. u.at \in 0 .. MaxTicks /\ u.at <= clock /\ clock <= u.at + MaxWait /\ clock \in 0 .. MaxTicks
          /\ r \in T!Bucket \cup {None}
      BY <1>1, <1>f
    <3> QED BY <2>2, <3>1, <3>2, <3>3, <3>4, SpendingWithin DEF g
  <2>6. 1 \in Int
    OBVIOUS
  <2> HIDE DEF p, t
  <2> QED BY <1>0, <1>1, <2>1, <2>2, <2>3, <2>4, <2>5, <2>6, LimitGrantsKeep
<1>4. CASE ~ (T!Refilled(u) >= One)
  BY <1>4, LimitAnswersKeep DEF T!Spend, T!Answer
<1> QED BY <1>3, <1>4

LEMMA LimitRefundsKeep ==
    ASSUME BudgetInv, NEW c \in Clients, T!Refund(c)
    PROVE  BudgetInv'
<1> DEFINE u == ttx[c]
           r == bucket[u.key]
           regained == T!Row(u).tokens + (u.at - T!Row(u).updated) * Rate
           p == T!Refunded(u)
<1>f. T!Full \in Nat \ {0} /\ One \in Nat \ {0} /\ Rate \in Nat \ {0} /\ clock \in 0 .. MaxTicks
  BY Figures DEF BudgetInv, LimiterTypes
<1>0. u.phase = "decide"
  BY DEF T!Refund
<1>1. /\ u \in LimiterTx /\ u.key \in Buckets /\ r \in T!Bucket \cup {None}
      /\ u.at \in 0 .. MaxTicks /\ u.at <= clock /\ clock <= u.at + MaxWait
      /\ r # None => T!Row(u) = r
      /\ regained \in Int /\ 0 <= regained + One
  BY <1>0, TheRowInHand
<1>2. p \in 0 .. T!Full /\ p <= regained + One
  BY <1>1, <1>f DEF T!Refunded, T!Least
<1>3. /\ T!Put(u.key, p, u.at) /\ T!Grant(u.key, -1) /\ ttx' = [ttx EXCEPT ![c] = T!IdleTx]
      /\ UNCHANGED <<pool, clock>>
  BY DEF T!Refund, T!Answer
<1>4. ASSUME NEW a \in 0 .. clock
      PROVE  LET g == spent[u.key][clock] - T!Before(u.key, a)
             IN  /\ Within([tokens |-> p, updated |-> u.at], clock, a, g + (-1))
                 /\ Afforded(clock, a, g + (-1))
  <2> DEFINE g == spent[u.key][clock] - T!Before(u.key, a)
  <2>1. g \in Int
    BY <1>1, GrantedIsInt
  <2>2. Within(r, clock, a, g)
    BY <1>1 DEF BudgetInv, Accounted
  <2>3. r # None => p <= r.tokens + (u.at - r.updated) * Rate + One
    BY <1>1, <1>2
  <2>4. p \in Nat /\ p <= T!Full
    BY <1>2, <1>f
  <2> HIDE DEF g, p, r, u
  <2>5. u.at \in 0 .. MaxTicks /\ u.at <= clock /\ clock <= u.at + MaxWait /\ clock \in 0 .. MaxTicks
        /\ r \in T!Bucket \cup {None}
    BY <1>1, <1>f
  <2> QED BY <2>1, <2>2, <2>3, <2>4, <2>5, RefundingWithin DEF g
<1>5. /\ T!IdleTx.phase \notin T!LimiterPhases \cup {"sweep", "swept", "erase", "erasing"} /\ T!IdleTx.op # "sweep"
  BY IdleIsFree, ThrottlesAssumption DEF T!LimiterPhases, T!ThrottlingAssumption, T!Ops
<1>6. -1 \in Int
  OBVIOUS
<1> HIDE DEF p
<1> QED BY <1>0, <1>1, <1>2, <1>3, <1>4, <1>5, <1>6, IdleIsFree, LimitGrantsKeep

LEMMA LimitDeletesKeep ==
    ASSUME BudgetInv, NEW c \in Clients, T!Delete(c)
    PROVE  BudgetInv'
<1> DEFINE u == ttx[c]
<1>f. clock \in 0 .. MaxTicks /\ MaxTicks \in Nat
  BY Figures DEF BudgetInv, LimiterTypes
<1>1. /\ u \in LimiterTx /\ InHand(u) /\ u.phase \in {"swept", "erasing"}
      /\ bucket \in [Buckets -> T!Bucket \cup {None}] /\ spent \in [Buckets -> [0 .. MaxTicks -> Int]]
  BY DEF BudgetInv, LimiterTypes, T!Delete
<1>2. /\ bucket' = [k \in Buckets |-> IF k \in u.dropped THEN None ELSE bucket[k]]
      /\ ttx' = [ttx EXCEPT ![c] = T!IdleTx] /\ UNCHANGED <<pool, clock>>
      /\ IF u.op = "erase" THEN spent' = [spent EXCEPT ![u.key] = [n \in 0 .. MaxTicks |-> 0]]
                            ELSE spent' = spent
  BY DEF T!Delete, T!Answer
<1>3. spent' \in [Buckets -> [0 .. MaxTicks -> Int]]
  BY <1>1, <1>2
<1>4. ASSUME NEW k \in Buckets PROVE Accounted(k)'
  <2>0. Accounted(k) /\ bucket[k] \in T!Bucket \cup {None} /\ bucket'[k] \in T!Bucket \cup {None}
        /\ bucket'[k] \in {None, bucket[k]}
    BY <1>1, <1>2 DEF BudgetInv
  <2>1. bucket[k] # None => bucket[k].updated <= clock
    <3>1. Within(bucket[k], clock, 0, spent[k][clock] - T!Before(k, 0))
      BY <1>f, <2>0 DEF Accounted
    <3> QED BY <3>1 DEF Within
  <2>2. CASE u.op = "erase" /\ k = u.key
    <3>1. \A t \in 0 .. MaxTicks : spent'[k][t] = 0
      <4>1. spent' = [spent EXCEPT ![k] = [n \in 0 .. MaxTicks |-> 0]]
        BY <1>2, <2>2
      <4>2. spent'[k] = [n \in 0 .. MaxTicks |-> 0]
        BY <1>1, <4>1
      <4> QED BY <4>2
    <3>2. ASSUME NEW a \in 0 .. clock PROVE T!Before(k, a)' = 0
      <4>1. CASE a = 0
        BY <4>1 DEF T!Before
      <4>2. CASE a # 0
        <5>1. a - 1 \in 0 .. MaxTicks
          BY <1>f, <4>2
        <5> QED BY <3>1, <4>2, <5>1 DEF T!Before
      <4> QED BY <4>1, <4>2
    <3>3. \A t \in clock .. MaxTicks : spent'[k][t] = spent'[k][clock]
      BY <1>f, <3>1
    <3>4. ASSUME NEW a \in 0 .. clock
          PROVE  Within(bucket'[k], clock, a, spent'[k][clock] - T!Before(k, a)')
      <4>1. spent'[k][clock] - T!Before(k, a)' = 0
        BY <1>f, <3>1, <3>2
      <4>2. bucket'[k] # None => bucket'[k].updated <= clock
        BY <2>0, <2>1
      <4> QED BY <1>f, <2>0, <4>1, <4>2, NothingWithin
    <3>5. ASSUME NEW a \in 0 .. clock, NEW b \in 0 .. clock, a <= b
          PROVE  Afforded(b, a, spent'[k][b] - T!Before(k, a)')
      <4>1. spent'[k][b] - T!Before(k, a)' = 0
        BY <1>f, <3>1, <3>2
      <4>2. b \in Nat /\ a \in 0 .. b
        BY <1>f, <3>5
      <4> QED BY <4>1, <4>2, NothingWithin
    <3> QED BY <1>2, <3>3, <3>4, <3>5 DEF Accounted
  <2>3. CASE ~ (u.op = "erase" /\ k = u.key)
    <3>1. spent'[k] = spent[k]
      BY <1>1, <1>2, <2>3
    <3>2. CASE k \notin u.dropped
      <4>1. bucket'[k] = bucket[k]
        BY <1>2, <3>2
      <4> QED BY <1>2, <2>0, <3>1, <4>1 DEF Accounted, T!Before
    <3>3. CASE k \in u.dropped
      <4>1. bucket'[k] = None /\ bucket[k] # None
        BY <1>1, <1>2, <3>3 DEF InHand, Drops
      <4>2. u.phase = "swept" /\ bucket[k].updated < u.at - Cutoff
        <5>1. u.phase = "erasing" => u.op = "erase"
          BY <1>1 DEF InHand, Named
        <5> QED BY <1>1, <2>3, <3>3, <5>1 DEF InHand, Drops
      <4>3. u.at \in Nat /\ u.at <= clock
        BY <1>1, <4>2 DEF InHand, Timely, LimiterTx
      <4>4. ASSUME NEW a \in 0 .. clock PROVE Within(None, clock, a, spent[k][clock] - T!Before(k, a))
        <5>1. Within(bucket[k], clock, a, spent[k][clock] - T!Before(k, a))
          BY <2>0 DEF Accounted
        <5>2. \A t \in 0 .. MaxTicks : spent[k][t] \in Int
          BY DEF BudgetInv, LimiterTypes
        <5>3. spent[k][clock] - T!Before(k, a) \in Int
          BY <1>f, <5>2 DEF T!Before
        <5> QED BY <1>f, <2>0, <4>1, <4>2, <4>3, <5>1, <5>3, SweepingWithin
      <4> QED BY <1>2, <2>0, <3>1, <4>1, <4>4 DEF Accounted, T!Before
    <3> QED BY <3>2, <3>3
  <2> QED BY <2>2, <2>3
<1>5. /\ bucket' \in [Buckets -> T!Bucket \cup {None}]
      /\ \A k \in Buckets : bucket'[k] # bucket[k] => Grips(u, k)
  BY <1>1, <1>2 DEF Grips
<1>6. /\ Named(T!IdleTx) /\ Timely(T!IdleTx, clock) /\ Decides(T!IdleTx, bucket') /\ Drops(T!IdleTx, bucket')
      /\ \A k \in Buckets : ~Grips(T!IdleTx, k)
  BY IdleIsFree, ThrottlesAssumption
     DEF Named, Timely, Decides, Drops, Grips, T!LimiterPhases, T!ThrottlingAssumption, T!Ops
<1>7. /\ ttx' \in [Clients -> LimiterTx]
      /\ \A d \in Clients : InHand(ttx[d])'
      /\ HeldApart'
  BY <1>2, <1>5, <1>6, IdleIsFree, HandsKeep
<1>8. LimiterTypes'
  BY <1>2, <1>3, <1>5, <1>7 DEF BudgetInv, LimiterTypes
<1> QED BY <1>4, <1>7, <1>8 DEF BudgetInv

LEMMA LimitRestartsKeep ==
    ASSUME BudgetInv, NEW w \in Workers, T!Restart(w)
    PROVE  BudgetInv'
<1>1. UNCHANGED <<pool, clock, bucket, spent>>
  BY DEF T!Restart
<1>2. ttx \in [Clients -> LimiterTx]
  BY DEF BudgetInv, LimiterTypes
<1>3. ASSUME NEW c \in Clients PROVE ttx'[c] = T!IdleTx \/ ttx'[c] = ttx[c]
  BY DEF T!Restart
<1>4. ttx' \in [Clients -> LimiterTx]
  BY <1>2, IdleIsFree DEF T!Restart
<1>5. /\ InHand(T!IdleTx) /\ \A k \in Buckets : ~Grips(T!IdleTx, k)
  BY IdleIsFree, ThrottlesAssumption
     DEF InHand, Named, Timely, Decides, Drops, Grips, T!LimiterPhases, T!ThrottlingAssumption, T!Ops
<1>6. ASSUME NEW c \in Clients PROVE InHand(ttx[c])'
  <2>1. InHand(ttx[c])
    BY DEF BudgetInv
  <2> QED BY <1>1, <1>3, <1>5, <2>1 DEF InHand
<1>7. HeldApart'
  BY <1>3, <1>5 DEF BudgetInv, HeldApart
<1>8. \A k \in Buckets : Accounted(k)'
  BY <1>1 DEF BudgetInv, Accounted, T!Before
<1> QED BY <1>1, <1>4, <1>6, <1>7, <1>8 DEF BudgetInv, LimiterTypes

LEMMA LimitTicksKeep ==
    ASSUME BudgetInv, T!Tick
    PROVE  BudgetInv'
<1>f. /\ clock \in 0 .. MaxTicks /\ MaxTicks \in Nat /\ clock' = clock + 1 /\ clock' \in 0 .. MaxTicks
      /\ MaxWait \in Nat
  BY Figures DEF BudgetInv, LimiterTypes, T!Tick
<1>1. UNCHANGED <<pool, bucket, ttx, spent>>
  BY DEF T!Tick
<1>2. ASSUME NEW c \in Clients PROVE InHand(ttx[c])'
  <2>1. InHand(ttx[c]) /\ ttx[c] \in LimiterTx
    BY DEF BudgetInv, LimiterTypes
  <2>2. Timely(ttx[c], clock + 1)
    BY <1>f, <2>1 DEF InHand, Timely, T!Tick, LimiterTx
  <2> QED BY <1>f, <1>1, <2>1, <2>2 DEF InHand
<1>3. ASSUME NEW k \in Buckets PROVE Accounted(k)'
  <2>0. /\ Accounted(k) /\ bucket[k] \in T!Bucket \cup {None}
        /\ \A t \in 0 .. MaxTicks : spent[k][t] \in Int
        /\ spent'[k] = spent[k] /\ bucket'[k] = bucket[k]
    BY <1>1 DEF BudgetInv, LimiterTypes
  <2>1. spent[k][clock + 1] = spent[k][clock] /\ \A t \in clock + 1 .. MaxTicks : spent[k][t] = spent[k][clock + 1]
    BY <1>f, <2>0 DEF Accounted
  <2>2. ASSUME NEW a \in 0 .. clock + 1
        PROVE  /\ Within(bucket[k], clock + 1, a, spent[k][clock + 1] - T!Before(k, a))
               /\ Afforded(clock + 1, a, spent[k][clock + 1] - T!Before(k, a))
    <3>1. CASE a \in 0 .. clock
      <4>1. /\ Within(bucket[k], clock, a, spent[k][clock] - T!Before(k, a))
            /\ Afforded(clock, a, spent[k][clock] - T!Before(k, a))
        BY <1>f, <2>0, <3>1 DEF Accounted
      <4>2. spent[k][clock] - T!Before(k, a) \in Int
        BY <1>f, <2>0, <3>1 DEF T!Before
      <4>3. Within(bucket[k], clock + 1, a, spent[k][clock] - T!Before(k, a))
        BY <1>f, <2>0, <3>1, <4>1, <4>2, WaitingWithin
      <4>4. Afforded(clock + 1, a, spent[k][clock] - T!Before(k, a))
        BY <1>f, <3>1, <4>1, <4>2, AffordedLater
      <4> QED BY <2>1, <4>3, <4>4
    <3>2. CASE a = clock + 1
      <4>1. T!Before(k, a) = spent[k][clock]
        BY <1>f, <3>2 DEF T!Before
      <4>2. spent[k][clock + 1] - T!Before(k, a) = 0
        BY <1>f, <2>0, <2>1, <4>1
      <4>3. bucket[k] # None => bucket[k].updated <= clock + 1
        <5>1. Within(bucket[k], clock, 0, spent[k][clock] - T!Before(k, 0))
          BY <1>f, <2>0 DEF Accounted
        <5>2. bucket[k] # None => bucket[k].updated \in Int
          BY <2>0, BucketsAreFields
        <5> QED BY <1>f, <5>1, <5>2 DEF Within
      <4> QED BY <1>f, <2>0, <3>2, <4>2, <4>3, NothingWithin
    <3> QED BY <1>f, <3>1, <3>2
  <2>3. ASSUME NEW a \in 0 .. clock + 1, NEW b \in 0 .. clock + 1, a <= b
        PROVE  Afforded(b, a, spent[k][b] - T!Before(k, a))
    <3>1. CASE b = clock + 1
      BY <2>2, <3>1
    <3>2. CASE b # clock + 1
      <4>1. a \in 0 .. clock /\ b \in 0 .. clock
        BY <1>f, <2>3, <3>2
      <4> QED BY <2>0, <2>3, <4>1 DEF Accounted
    <3> QED BY <3>1, <3>2
  <2>4. \A a \in 0 .. clock + 1 : T!Before(k, a)' = T!Before(k, a)
    BY <2>0 DEF T!Before
  <2> QED BY <1>f, <2>0, <2>1, <2>2, <2>3, <2>4 DEF Accounted
<1>4. HeldApart'
  BY <1>1 DEF BudgetInv, HeldApart
<1> QED BY <1>f, <1>1, <1>2, <1>3, <1>4 DEF BudgetInv, LimiterTypes

LEMMA BudgetStarts == T!Init => BudgetInv
<1> SUFFICES ASSUME T!Init PROVE BudgetInv
  OBVIOUS
<1>f. MaxTicks \in Nat /\ clock = 0
  BY Figures DEF T!Init
<1>1. LimiterTypes
  BY <1>f, IdleIsFree DEF LimiterTypes, T!Init
<1>2. /\ InHand(T!IdleTx) /\ \A k \in Buckets : ~Grips(T!IdleTx, k)
  BY IdleIsFree, ThrottlesAssumption
     DEF InHand, Named, Timely, Decides, Drops, Grips, T!LimiterPhases, T!ThrottlingAssumption, T!Ops
<1>3. ASSUME NEW k \in Buckets PROVE Accounted(k)
  <2>1. bucket[k] = None /\ \A t \in 0 .. MaxTicks : spent[k][t] = 0
    BY DEF T!Init
  <2>2. T!Before(k, 0) = 0 /\ spent[k][0] - T!Before(k, 0) = 0
    BY <1>f, <2>1 DEF T!Before
  <2>3. Within(None, 0, 0, 0) /\ Afforded(0, 0, 0)
    BY NothingWithin
  <2>4. \A a \in 0 .. 0 : a = 0
    OBVIOUS
  <2> QED BY <1>f, <2>1, <2>2, <2>3, <2>4 DEF Accounted
<1> QED BY <1>1, <1>2, <1>3 DEF BudgetInv, HeldApart, T!Init

LEMMA BudgetSteps == BudgetInv /\ [T!Next]_throttling => BudgetInv'
<1> SUFFICES ASSUME BudgetInv, [T!Next]_throttling PROVE BudgetInv'
  OBVIOUS
<1>1. CASE UNCHANGED throttling
  <2>1. UNCHANGED <<pool, clock, bucket, ttx, spent>>
    BY <1>1 DEF throttling
  <2> QED BY <2>1 DEF BudgetInv, LimiterTypes, InHand, HeldApart, Accounted, T!Before
<1>2. CASE T!Finished
  BY <1>1, <1>2 DEF T!Finished, T!vars, throttling
<1>3. ASSUME NEW c \in Clients, T!Serve(c) PROVE BudgetInv'
  BY <1>3, LimitWaitsKeep, LimitLocksKeep, LimitSpendsKeep, LimitRefundsKeep, LimitDropsKeep, LimitDeletesKeep
     DEF T!Serve
<1> QED
  BY <1>1, <1>2, <1>3, LimitBeginsKeep, LimitInterruptsKeep, LimitRestartsKeep, LimitTicksKeep DEF T!Next

LEMMA BudgetsHold == BudgetInv => T!BudgetHolds
<1> SUFFICES ASSUME BudgetInv, NEW k \in Buckets, NEW a \in 0 .. MaxTicks, NEW b \in 0 .. MaxTicks, a <= b
             PROVE  (spent[k][b] - T!Before(k, a)) * One <= T!Full + Rate * (b - a + MaxWait)
  BY DEF T!BudgetHolds
<1>f. clock \in 0 .. MaxTicks /\ MaxTicks \in Nat
  BY Figures DEF BudgetInv, LimiterTypes
<1>0. Accounted(k) /\ \A t \in 0 .. MaxTicks : spent[k][t] \in Int
  BY DEF BudgetInv, LimiterTypes
<1>1. CASE b <= clock
  BY <1>f, <1>0, <1>1 DEF Accounted, Afforded
<1>2. CASE b > clock /\ a <= clock
  <2>1. spent[k][b] = spent[k][clock]
    BY <1>f, <1>0, <1>2 DEF Accounted
  <2>2. Afforded(clock, a, spent[k][clock] - T!Before(k, a))
    BY <1>f, <1>0, <1>2 DEF Accounted
  <2>3. spent[k][clock] - T!Before(k, a) \in Int
    BY <1>f, <1>0 DEF T!Before
  <2>4. Afforded(b, a, spent[k][clock] - T!Before(k, a))
    BY <1>f, <1>2, <2>2, <2>3, AffordedLater
  <2> QED BY <2>1, <2>4 DEF Afforded
<1>3. CASE a > clock
  <2>1. spent[k][b] = spent[k][clock] /\ T!Before(k, a) = spent[k][clock]
    <3>1. b \in clock .. MaxTicks /\ a - 1 \in clock .. MaxTicks /\ a # 0
      BY <1>f, <1>3
    <3> QED BY <1>0, <3>1 DEF Accounted, T!Before
  <2>2. spent[k][b] - T!Before(k, a) = 0
    BY <1>f, <1>0, <2>1
  <2>3. Afforded(b, a, 0)
    BY NothingWithin
  <2> QED BY <2>2, <2>3 DEF Afforded
<1> QED BY <1>f, <1>1, <1>2, <1>3

(* The requests of a worker that are at work, and those of one key.         *)
Busy(w) == {c \in Clients : WorkerOf[c] = w /\ ttx[c].phase = "work"}

BusyOn(w, k) == {c \in Busy(w) : ttx[c].key = k}

(* What a worker counts is what it has at work, within the caps.            *)
Counted(w) ==
    /\ IsFiniteSet(Busy(w)) /\ running[w] = Cardinality(Busy(w)) /\ running[w] <= Total
    /\ \A k \in Buckets : inFlight[w][k] = Cardinality(BusyOn(w, k)) /\ inFlight[w][k] <= PerKey

SlotsInv ==
    /\ inFlight \in [Workers -> [Buckets -> Int]]
    /\ running \in [Workers -> Int]
    /\ \A w \in Workers : Counted(w)

LEMMA CountsAlike == \A set : T!Cardinality(set) = Cardinality(set)
BY DEF T!Cardinality, Cardinality

LEMMA OfOneKey == \A w, k : IsFiniteSet(Busy(w)) => IsFiniteSet(BusyOn(w, k))
BY FS_Subset DEF BusyOn

(* Who comes from elsewhere and goes elsewhere holds no slot.               *)
LEMMA SlotsIgnore ==
    ASSUME SlotsInv, LimiterTypes, UNCHANGED <<inFlight, running>>, NEW c \in Clients, NEW t,
           ttx' = [ttx EXCEPT ![c] = t], t.phase # "work", ttx[c].phase # "work"
    PROVE  SlotsInv'
<1>1. \A d \in Clients : /\ ttx'[d].phase = "work" <=> ttx[d].phase = "work"
                         /\ ttx[d].phase = "work" => ttx'[d] = ttx[d]
  BY DEF LimiterTypes
<1>2. \A w : Busy(w)' = Busy(w)
  BY <1>1 DEF Busy
<1>3. \A w, k : BusyOn(w, k)' = BusyOn(w, k)
  BY <1>1, <1>2 DEF BusyOn, Busy
<1> QED BY <1>2, <1>3 DEF SlotsInv, Counted

(* A slot is taken below both caps.                                         *)
LEMMA SlotsAreTaken ==
    ASSUME SlotsInv, BudgetInv, NEW c \in Clients, T!TakeSlot(c)
    PROVE  SlotsInv'
<1> DEFINE w == WorkerOf[c]
<1>a. ttx[c].phase = "slot" /\ ttx[c].key \in Buckets
  BY DEF BudgetInv, LimiterTypes, InHand, Named, T!TakeSlot
<1>k. PICK k \in Buckets : k = ttx[c].key
  BY <1>a
<1>0. /\ ttx \in [Clients -> LimiterTx] /\ ttx[c].phase = "slot" /\ ttx[c].key = k /\ w \in Workers
      /\ PerKey \in Int /\ Total \in Int
  BY <1>a, <1>k, ThrottlesAssumption DEF BudgetInv, LimiterTypes, T!ThrottlingAssumption
<1>1. CASE inFlight[w][k] >= PerKey \/ running[w] >= Total
  <2>1. ttx' = [ttx EXCEPT ![c] = T!IdleTx] /\ UNCHANGED <<inFlight, running>> /\ T!IdleTx.phase # "work"
    BY <1>0, <1>1 DEF T!TakeSlot, T!Refuse, T!Answer, T!IdleTx
  <2>2. ttx[c].phase # "work" /\ LimiterTypes
    BY <1>0 DEF BudgetInv
  <2> QED BY <2>1, <2>2, SlotsIgnore
<1>2. CASE ~(inFlight[w][k] >= PerKey \/ running[w] >= Total)
  <2>1. /\ inFlight' = [inFlight EXCEPT ![w][k] = inFlight[w][k] + 1]
        /\ running' = [running EXCEPT ![w] = running[w] + 1]
        /\ ttx' = [ttx EXCEPT ![c].phase = "work"]
    BY <1>0, <1>2 DEF T!TakeSlot
  <2>2. /\ ttx'[c].phase = "work" /\ ttx'[c].key = k
        /\ \A d \in Clients : d # c => ttx'[d] = ttx[d]
    BY <1>0, <2>1 DEF LimiterTx
  <2>3. /\ c \notin Busy(w) /\ Busy(w)' = Busy(w) \cup {c}
        /\ \A v : v # w => Busy(v)' = Busy(v)
    BY <1>0, <2>2 DEF Busy
  <2>4. /\ c \notin BusyOn(w, k) /\ BusyOn(w, k)' = BusyOn(w, k) \cup {c}
        /\ \A l : l # k => BusyOn(w, l)' = BusyOn(w, l)
    BY <1>0, <2>2, <2>3 DEF BusyOn, Busy
  <2>5. \A v, l : v # w => BusyOn(v, l)' = BusyOn(v, l)
    BY <1>0, <2>2, <2>3 DEF BusyOn, Busy
  <2>6. IsFiniteSet(Busy(w)') /\ Cardinality(Busy(w)') = running[w] + 1
    BY <1>0, <2>3, FS_AddElement DEF SlotsInv, Counted
  <2>7. Cardinality(BusyOn(w, k)') = inFlight[w][k] + 1
    <3>1. IsFiniteSet(BusyOn(w, k)) /\ Cardinality(BusyOn(w, k)) = inFlight[w][k]
      BY <1>0, OfOneKey DEF SlotsInv, Counted
    <3> QED BY <2>4, <3>1, FS_AddElement
  <2>8. inFlight[w][k] \in Int /\ running[w] \in Int
    BY <1>0 DEF SlotsInv
  <2>9. /\ inFlight' \in [Workers -> [Buckets -> Int]] /\ running' \in [Workers -> Int]
        /\ inFlight'[w][k] = inFlight[w][k] + 1 /\ running'[w] = running[w] + 1
        /\ \A l \in Buckets : l # k => inFlight'[w][l] = inFlight[w][l]
        /\ \A v \in Workers : v # w => inFlight'[v] = inFlight[v] /\ running'[v] = running[v]
    BY <1>0, <2>1, <2>8 DEF SlotsInv
  <2>10. Counted(w)'
    <3>1. running[w] + 1 <= Total /\ inFlight[w][k] + 1 <= PerKey
      BY <1>0, <1>2, <2>8
    <3>2. \A l \in Buckets : l # k => inFlight'[w][l] = Cardinality(BusyOn(w, l)') /\ inFlight'[w][l] <= PerKey
      BY <1>0, <2>4, <2>9 DEF SlotsInv, Counted
    <3>3. \A l \in Buckets : inFlight'[w][l] = Cardinality(BusyOn(w, l)') /\ inFlight'[w][l] <= PerKey
      BY <2>7, <2>9, <3>1, <3>2
    <3>4. running'[w] = Cardinality(Busy(w)') /\ running'[w] <= Total
      BY <2>6, <2>9, <3>1
    <3> HIDE DEF w
    <3> QED BY <2>6, <3>3, <3>4 DEF Counted
  <2>11. ASSUME NEW v \in Workers, v # w PROVE Counted(v)'
    <3>1. Counted(v)
      BY DEF SlotsInv
    <3> QED BY <2>3, <2>5, <2>9, <2>11, <3>1 DEF Counted
  <2> QED BY <2>9, <2>10, <2>11 DEF SlotsInv
<1> QED BY <1>1, <1>2

(* Whoever leaves its work gives its slot back.                             *)
LEMMA SlotsAreReleased ==
    ASSUME SlotsInv, BudgetInv, NEW c \in Clients, ttx[c].phase = "work",
           ttx' = [ttx EXCEPT ![c] = T!IdleTx], NEW outcome, T!Release(c, outcome)
    PROVE  SlotsInv'
<1> DEFINE w == WorkerOf[c]
<1>a. ttx[c].key \in Buckets
  BY DEF BudgetInv, LimiterTypes, InHand, Named
<1>k. PICK k \in Buckets : k = ttx[c].key
  BY <1>a
<1>b. w \in Workers /\ PerKey \in Int /\ Total \in Int
  BY ThrottlesAssumption DEF T!ThrottlingAssumption
<1>0. /\ ttx \in [Clients -> LimiterTx] /\ ttx[c].key = k /\ w \in Workers
      /\ PerKey \in Int /\ Total \in Int
  BY <1>k, <1>b DEF BudgetInv, LimiterTypes
<1>1. /\ inFlight' = [inFlight EXCEPT ![w][k] = inFlight[w][k] - 1]
      /\ running' = [running EXCEPT ![w] = running[w] - 1]
  BY <1>0 DEF T!Release
<1>2. ttx'[c].phase # "work" /\ \A d \in Clients : d # c => ttx'[d] = ttx[d]
  BY <1>0 DEF T!IdleTx
<1>3. /\ c \in Busy(w) /\ Busy(w)' = Busy(w) \ {c}
      /\ \A v : v # w => Busy(v)' = Busy(v)
  BY <1>0, <1>2 DEF Busy
<1>4. /\ c \in BusyOn(w, k) /\ BusyOn(w, k)' = BusyOn(w, k) \ {c}
      /\ \A l : l # k => BusyOn(w, l)' = BusyOn(w, l)
  <2>1. \A d \in Busy(w)' : d # c /\ ttx'[d] = ttx[d]
    BY <1>2, <1>3 DEF Busy
  <2>2. c \in BusyOn(w, k) /\ \A l : BusyOn(w, l)' = {d \in Busy(w)' : ttx'[d].key = l}
    BY <1>0, <1>3 DEF BusyOn
  <2>3. \A l : BusyOn(w, l) = {d \in Busy(w) : ttx[d].key = l}
    BY DEF BusyOn
  <2> HIDE DEF w
  <2>4. BusyOn(w, k)' = BusyOn(w, k) \ {c}
    BY <1>0, <1>3, <2>1, <2>2, <2>3
  <2>5. ASSUME NEW l, l # k PROVE BusyOn(w, l)' = BusyOn(w, l)
    <3>1. BusyOn(w, l)' = {d \in Busy(w)' : ttx'[d].key = l} /\ BusyOn(w, l) = {d \in Busy(w) : ttx[d].key = l}
      BY <2>2, <2>3
    <3>2. \A d : d \in Busy(w)' <=> d \in Busy(w) /\ d # c
      BY <1>3
    <3> QED BY <1>0, <2>1, <2>5, <3>1, <3>2
  <2> QED BY <2>2, <2>4, <2>5
<1>5. \A v, l : v # w => BusyOn(v, l)' = BusyOn(v, l)
  BY <1>0, <1>2, <1>3 DEF BusyOn, Busy
<1>6. IsFiniteSet(Busy(w)') /\ Cardinality(Busy(w)') = running[w] - 1
  BY <1>0, <1>3, FS_RemoveElement DEF SlotsInv, Counted
<1>7. Cardinality(BusyOn(w, k)') = inFlight[w][k] - 1
  <2>1. IsFiniteSet(BusyOn(w, k)) /\ Cardinality(BusyOn(w, k)) = inFlight[w][k]
    BY <1>0, OfOneKey DEF SlotsInv, Counted
  <2> QED BY <1>4, <2>1, FS_RemoveElement
<1>8. inFlight[w][k] \in Int /\ running[w] \in Int
  BY <1>0 DEF SlotsInv
<1>9. /\ inFlight' \in [Workers -> [Buckets -> Int]] /\ running' \in [Workers -> Int]
      /\ inFlight'[w][k] = inFlight[w][k] - 1 /\ running'[w] = running[w] - 1
      /\ \A l \in Buckets : l # k => inFlight'[w][l] = inFlight[w][l]
      /\ \A v \in Workers : v # w => inFlight'[v] = inFlight[v] /\ running'[v] = running[v]
  BY <1>0, <1>1, <1>8 DEF SlotsInv
<1>10. Counted(w)'
  <2>1. running[w] - 1 <= Total /\ inFlight[w][k] - 1 <= PerKey
    BY <1>0, <1>8 DEF SlotsInv, Counted
  <2>2. \A l \in Buckets : l # k => inFlight'[w][l] = Cardinality(BusyOn(w, l)') /\ inFlight'[w][l] <= PerKey
    BY <1>0, <1>4, <1>9 DEF SlotsInv, Counted
  <2>3. \A l \in Buckets : inFlight'[w][l] = Cardinality(BusyOn(w, l)') /\ inFlight'[w][l] <= PerKey
    BY <1>7, <1>9, <2>1, <2>2
  <2>4. running'[w] = Cardinality(Busy(w)') /\ running'[w] <= Total
    BY <1>6, <1>9, <2>1
  <2> HIDE DEF w
  <2> QED BY <1>6, <2>3, <2>4 DEF Counted
<1>11. ASSUME NEW v \in Workers, v # w PROVE Counted(v)'
  <2>1. Counted(v)
    BY DEF SlotsInv
  <2> QED BY <1>3, <1>5, <1>9, <1>11, <2>1 DEF Counted
<1> QED BY <1>9, <1>10, <1>11 DEF SlotsInv

(* A worker that starts again has no request, and counts none.              *)
LEMMA SlotsAreReset ==
    ASSUME SlotsInv, BudgetInv, NEW w \in Workers, T!Restart(w)
    PROVE  SlotsInv'
<1>0. /\ ttx \in [Clients -> LimiterTx] /\ PerKey \in Nat /\ Total \in Nat
      /\ \A c \in Clients : ttx[c].phase = "work" => ttx[c].op # "sweep"
  BY ThrottlesAssumption DEF BudgetInv, LimiterTypes, InHand, Named, T!ThrottlingAssumption
<1>1. /\ inFlight' = [inFlight EXCEPT ![w] = [k \in Buckets |-> 0]]
      /\ running' = [running EXCEPT ![w] = 0]
  BY DEF T!Restart
<1>2. /\ \A c \in Clients : WorkerOf[c] = w => ttx'[c].phase # "work"
      /\ \A c \in Clients : WorkerOf[c] # w => ttx'[c] = ttx[c]
  BY <1>0 DEF T!Restart, T!IdleTx
<1>3. Busy(w)' = {} /\ \A k : BusyOn(w, k)' = {}
  BY <1>2 DEF Busy, BusyOn
<1>4. \A v : v # w => Busy(v)' = Busy(v) /\ \A k : BusyOn(v, k)' = BusyOn(v, k)
  BY <1>2 DEF Busy, BusyOn
<1>5. /\ inFlight' \in [Workers -> [Buckets -> Int]] /\ running' \in [Workers -> Int]
      /\ running'[w] = 0 /\ \A k \in Buckets : inFlight'[w][k] = 0
      /\ \A v \in Workers : v # w => inFlight'[v] = inFlight[v] /\ running'[v] = running[v]
  BY <1>1 DEF SlotsInv
<1>6. Counted(w)'
  <2>1. running'[w] = Cardinality(Busy(w)') /\ running'[w] <= Total /\ IsFiniteSet(Busy(w)')
    BY <1>0, <1>3, <1>5, FS_EmptySet
  <2>2. \A k \in Buckets : inFlight'[w][k] = Cardinality(BusyOn(w, k)') /\ inFlight'[w][k] <= PerKey
    <3> SUFFICES ASSUME NEW k \in Buckets
                 PROVE  inFlight'[w][k] = Cardinality(BusyOn(w, k)') /\ inFlight'[w][k] <= PerKey
      OBVIOUS
    <3>1. Cardinality(BusyOn(w, k)') = 0
      BY <1>3, FS_EmptySet
    <3> QED BY <1>0, <1>5, <3>1
  <2> QED BY <2>1, <2>2 DEF Counted
<1>7. ASSUME NEW v \in Workers, v # w PROVE Counted(v)'
  <2>1. Counted(v)
    BY DEF SlotsInv
  <2> QED BY <1>4, <1>5, <1>7, <2>1 DEF Counted
<1> QED BY <1>5, <1>6, <1>7 DEF SlotsInv

LEMMA SlotsStart == T!Init => SlotsInv
<1> SUFFICES ASSUME T!Init PROVE SlotsInv
  OBVIOUS
<1>1. \A w : Busy(w) = {} /\ \A k : BusyOn(w, k) = {}
  BY DEF Busy, BusyOn, T!Init, T!IdleTx
<1>2. PerKey \in Nat /\ Total \in Nat
  BY ThrottlesAssumption DEF T!ThrottlingAssumption
<1>3. /\ inFlight \in [Workers -> [Buckets -> Int]] /\ running \in [Workers -> Int]
      /\ \A w \in Workers : running[w] = 0 /\ \A k \in Buckets : inFlight[w][k] = 0
  BY DEF T!Init
<1>4. IsFiniteSet({}) /\ Cardinality({}) = 0
  BY FS_EmptySet
<1>5. ASSUME NEW w \in Workers PROVE Counted(w)
  <2>1. IsFiniteSet(Busy(w)) /\ running[w] = Cardinality(Busy(w)) /\ running[w] <= Total
    BY <1>1, <1>2, <1>3, <1>4
  <2>2. \A k \in Buckets : inFlight[w][k] = Cardinality(BusyOn(w, k)) /\ inFlight[w][k] <= PerKey
    BY <1>1, <1>2, <1>3, <1>4
  <2> QED BY <2>1, <2>2 DEF Counted
<1> QED BY <1>3, <1>5 DEF SlotsInv

LEMMA ServingKeepsSlots ==
    ASSUME SlotsInv, BudgetInv, NEW c \in Clients, T!Serve(c)
    PROVE  SlotsInv'
<1>0. LimiterTypes /\ ttx[c] \in LimiterTx
  BY DEF BudgetInv, LimiterTypes
<1>1. CASE T!TakeSlot(c)
  BY <1>1, SlotsAreTaken
<1>2. CASE T!Finish(c)
  BY <1>2, SlotsAreReleased DEF T!Finish, T!Answer
<1>3. ASSUME ttx[c].phase # "work", UNCHANGED <<inFlight, running>>, NEW t, t.phase # "work",
             ttx' = [ttx EXCEPT ![c] = t]
      PROVE  SlotsInv'
  BY <1>0, <1>3, SlotsIgnore
<1>4. T!IdleTx.phase # "work"
  BY DEF T!IdleTx
<1>5. ASSUME ttx[c].phase # "work", UNCHANGED <<inFlight, running>>, NEW p, p # "work",
             ttx' = [ttx EXCEPT ![c] = [ttx[c] EXCEPT !.phase = p]]
      PROVE  SlotsInv'
  <2>1. [ttx[c] EXCEPT !.phase = p].phase # "work"
    BY <1>0, <1>5 DEF LimiterTx
  <2> QED BY <1>3, <1>5, <2>1
<1>6. CASE T!TakeSession(c)
  BY <1>5, <1>6 DEF T!TakeSession, T!Go
<1>7. CASE T!TakeConnection(c)
  <2>1. [ttx[c] EXCEPT !.phase = "lock", !.at = clock].phase # "work"
    BY <1>0 DEF LimiterTx
  <2> QED BY <1>3, <1>7, <2>1 DEF T!TakeConnection, T!Go
<1>8. CASE T!PoolTimeout(c)
  BY <1>3, <1>4, <1>8 DEF T!PoolTimeout, T!Refuse, T!Answer
<1>9. CASE T!LockBucket(c)
  BY <1>3, <1>4, <1>5, <1>9 DEF T!LockBucket, T!Refuse, T!Answer, T!Go
<1>10. CASE T!EnsureBucket(c)
  <2>1. \A m : [ttx[c] EXCEPT !.phase = "decide", !.made = m].phase # "work"
    BY <1>0 DEF LimiterTx
  <2> QED BY <1>3, <1>5, <1>10, <2>1 DEF T!EnsureBucket, T!Go
<1>11. CASE T!RelockBucket(c)
  BY <1>3, <1>4, <1>5, <1>11 DEF T!RelockBucket, T!Refuse, T!Answer, T!Go
<1>12. CASE T!Spend(c)
  <2>1. \A o, k, p : p \in {"slot", "check"} => [T!IdleTx EXCEPT !.op = o, !.key = k, !.phase = p].phase # "work"
    BY DEF T!IdleTx
  <2>2. CASE T!Refilled(ttx[c]) >= One
    <3>1. PICK p \in {"slot", "check"} :
             ttx' = [ttx EXCEPT ![c] = [T!IdleTx EXCEPT !.op = ttx[c].op, !.key = ttx[c].key, !.phase = p]]
      BY <1>12, <2>2 DEF T!Spend
    <3>2. [T!IdleTx EXCEPT !.op = ttx[c].op, !.key = ttx[c].key, !.phase = p].phase # "work"
      BY <2>1
    <3>3. ttx[c].phase # "work" /\ UNCHANGED <<inFlight, running>>
      BY <1>12, <2>2 DEF T!Spend
    <3> QED BY <1>3, <3>1, <3>2, <3>3
  <2>3. CASE ~(T!Refilled(ttx[c]) >= One)
    BY <1>3, <1>4, <1>12, <2>3 DEF T!Spend, T!Answer
  <2> QED BY <2>2, <2>3
<1>13. CASE T!Refund(c) \/ T!Delete(c)
  BY <1>3, <1>4, <1>13 DEF T!Refund, T!Delete, T!Answer
<1>14. CASE T!CheckCredential(c)
  <2>1. [ttx[c] EXCEPT !.phase = "connect", !.refunds = TRUE].phase # "work"
    BY <1>0 DEF LimiterTx
  <2> QED BY <1>3, <1>4, <1>14, <2>1 DEF T!CheckCredential, T!Refuse, T!Answer, T!Go
<1>15. CASE T!Sweep(c) \/ T!Erase(c)
  <2>1. \A s : /\ [ttx[c] EXCEPT !.phase = "swept", !.dropped = s].phase # "work"
               /\ [ttx[c] EXCEPT !.phase = "erasing", !.dropped = s].phase # "work"
    BY <1>0 DEF LimiterTx
  <2> QED BY <1>3, <1>15, <2>1 DEF T!Sweep, T!Erase, T!Go
<1> QED
  BY <1>1, <1>2, <1>6, <1>7, <1>8, <1>9, <1>10, <1>11, <1>12, <1>13, <1>14, <1>15 DEF T!Serve

LEMMA SlotsStep == SlotsInv /\ BudgetInv /\ [T!Next]_throttling => SlotsInv'
<1> SUFFICES ASSUME SlotsInv, BudgetInv, [T!Next]_throttling PROVE SlotsInv'
  OBVIOUS
<1>1. ASSUME UNCHANGED <<ttx, inFlight, running>> PROVE SlotsInv'
  BY <1>1 DEF SlotsInv, Counted, Busy, BusyOn
<1>2. CASE UNCHANGED throttling \/ T!Tick \/ T!Finished
  BY <1>1, <1>2 DEF throttling, T!Tick, T!Finished, T!vars
<1>3. ASSUME NEW c \in Clients, NEW op \in T!Ops, NEW k \in Buckets, T!Begin(c, op, k) PROVE SlotsInv'
  <2>1. LimiterTypes /\ ttx[c].phase # "work" /\ UNCHANGED <<inFlight, running>>
    BY <1>3 DEF BudgetInv, T!Begin
  <2>2. ASSUME NEW p \in {"sweep", "session"}, NEW a,
               ttx' = [ttx EXCEPT ![c] = [T!IdleTx EXCEPT !.phase = p, !.op = op, !.key = k, !.at = a]]
        PROVE  SlotsInv'
    <3>1. [T!IdleTx EXCEPT !.phase = p, !.op = op, !.key = k, !.at = a].phase # "work"
      BY DEF T!IdleTx
    <3> QED BY <2>1, <2>2, <3>1, SlotsIgnore
  <2> QED BY <1>3, <2>2 DEF T!Begin
<1>4. ASSUME NEW c \in Clients, T!Interrupt(c) PROVE SlotsInv'
  <2>1. ttx' = [ttx EXCEPT ![c] = T!IdleTx] /\ T!IdleTx.phase # "work" /\ LimiterTypes
    BY <1>4 DEF T!Interrupt, T!Answer, T!IdleTx, BudgetInv
  <2>2. CASE ttx[c].phase = "work"
    BY <1>4, <2>1, <2>2, SlotsAreReleased DEF T!Interrupt
  <2>3. CASE ttx[c].phase # "work"
    BY <1>4, <2>1, <2>3, SlotsIgnore DEF T!Interrupt
  <2> QED BY <2>2, <2>3
<1> QED BY <1>2, <1>3, <1>4, ServingKeepsSlots, SlotsAreReset DEF T!Next

(* What the two say together is what the runs check.                        *)
LEMMA SlotsAreCounted == SlotsInv => T!SlotsAreHeld
<1> SUFFICES ASSUME SlotsInv, NEW w \in Workers
             PROVE  LET working == {c \in Clients : WorkerOf[c] = w /\ ttx[c].phase = "work"}
                    IN  /\ \A k \in Buckets :
                             LET mine == {c \in working : ttx[c].key = k}
                             IN  inFlight[w][k] = T!Cardinality(mine) /\ T!Cardinality(mine) <= PerKey
                        /\ running[w] = T!Cardinality(working) /\ T!Cardinality(working) <= Total
  BY DEF T!SlotsAreHeld
<1>1. Counted(w)
  BY DEF SlotsInv
<1> QED BY <1>1, CountsAlike DEF Counted, Busy, BusyOn

LEMMA WaitersWaitForWork == BudgetInv => T!NoWaitOnWaiters
<1> SUFFICES ASSUME BudgetInv, ~T!ConnectionFree PROVE \E d \in Clients : T!HasConnection(d)
  BY DEF T!NoWaitOnWaiters
<1>1. pool.limiter \in Nat \ {0}
  BY ThrottlesAssumption DEF BudgetInv, LimiterTypes, T!ThrottlingAssumption
<1>2. Cardinality({d \in Clients : T!HasConnection(d)}) # 0
  BY <1>1, CountsAlike DEF T!ConnectionFree
<1> QED BY <1>2, FS_EmptySet

-----------------------------------------------------------------------------
(* products.py, "The window refuses the burst", and rate_limits.py: however *)
(* many callers, workers, sweeps, refunds, interruptions and waits, between *)
(* any two times no more is granted than the window, or the bucket and its  *)
(* rate, allow.                                                             *)
THEOREM CallsAreBudgeted == ServiceSpec => []CallsStayInBudget
<1>1. ServiceSpec => []WindowInv
  BY WindowStarts, WindowSteps, ServiceStarts, ServiceSteps, PTL DEF ServiceSpec
<1>2. ServiceSpec => []BudgetInv
  BY BudgetStarts, BudgetSteps, ServiceStarts, ServiceSteps, PTL DEF ServiceSpec
<1>3. WindowInv /\ BudgetInv => CallsStayInBudget
  BY WindowsHold, BudgetsHold DEF CallsStayInBudget
<1> QED
  BY <1>1, <1>2, <1>3, PTL

(* throttling.py, db.py: a worker counts the requests it has at work and    *)
(* passes no cap, through failures, cancellations and restarts, and nobody  *)
(* waits for a connection that only another waiter could free.              *)
THEOREM NothingIsLost == ServiceSpec => []NothingIsWithheld
<1>1. ServiceSpec => [](BudgetInv /\ SlotsInv)
  <2>1. T!Init => BudgetInv /\ SlotsInv
    BY BudgetStarts, SlotsStart
  <2>2. BudgetInv /\ SlotsInv /\ [T!Next]_throttling => BudgetInv' /\ SlotsInv'
    BY BudgetSteps, SlotsStep
  <2> QED
    BY <2>1, <2>2, ServiceStarts, ServiceSteps, PTL DEF ServiceSpec
<1>2. BudgetInv /\ SlotsInv => NothingIsWithheld
  BY SlotsAreCounted, WaitersWaitForWork DEF NothingIsWithheld
<1> QED
  BY <1>1, <1>2, PTL

-----------------------------------------------------------------------------
(* The sweeps.                                                              *)
UpkeepTypes ==
    /\ today \in Int
    /\ sessions \in [Sessions -> U!UserSession \cup {None}]
    /\ tokens \in [Tokens -> U!MachineToken \cup {None}]
    /\ suggestions \in [Suggestions -> U!RecipeSuggestion \cup {None}]
    /\ endedSince \in [U!Credentials -> Int \cup {None}]
    /\ deadSince \in [U!Credentials -> Int \cup {None}]
    /\ begun \subseteq U!Credentials

(* A row is over since the first of the days that end it.                   *)
SessionsAreDated ==
    \A s \in Sessions : sessions[s] # None =>
        LET r == sessions[s]
        IN  IF endedSince[s] = None THEN r.revoked = None /\ today < r.expires /\ today < r.idle
            ELSE /\ endedSince[s] <= today /\ endedSince[s] \in {r.revoked, r.expires, r.idle}
                 /\ endedSince[s] <= r.expires /\ endedSince[s] <= r.idle
                 /\ r.revoked # None => endedSince[s] <= r.revoked

TokensAreDated ==
    \A t \in Tokens : tokens[t] # None =>
        LET r == tokens[t]
        IN  IF endedSince[t] = None THEN r.revoked = None /\ (r.expires # None => today < r.expires)
            ELSE /\ endedSince[t] <= today /\ endedSince[t] \in {r.revoked, r.expires}
                 /\ r.expires # None => endedSince[t] <= r.expires
                 /\ r.revoked # None => endedSince[t] <= r.revoked

(* What was never begun has no row and no end.                              *)
OnlyTheBegun ==
    /\ \A x \in U!Credentials \ begun : endedSince[x] = None /\ deadSince[x] = None
    /\ \A s \in Sessions : sessions[s] # None => s \in begun
    /\ \A t \in Tokens : tokens[t] # None => t \in begun

(* What is over opens nothing, and has opened nothing for as long.          *)
DeadOnceOver ==
    \A x \in U!Credentials :
        /\ deadSince[x] # None => deadSince[x] <= today
        /\ endedSince[x] # None => deadSince[x] # None /\ deadSince[x] <= endedSince[x]

UpkeepInv == UpkeepTypes /\ SessionsAreDated /\ TokensAreDated /\ OnlyTheBegun /\ DeadOnceOver

LEMMA UpkeepStarts == U!Init => UpkeepInv
  BY DEF U!Init, UpkeepInv, UpkeepTypes, SessionsAreDated, TokensAreDated, OnlyTheBegun, DeadOnceOver

(* What the histories make of a step that gives rows to the begun alone and *)
(* does not turn back the days.                                             *)
LEMMA HistoriesKeep ==
    ASSUME UpkeepInv, U!Noted, today' \in Int, today <= today', begun \subseteq begun', begun' \subseteq U!Credentials
    PROVE  /\ endedSince' = [x \in U!Credentials |->
                 IF U!Runs(x)' THEN None
                 ELSE IF x \in begun' /\ endedSince[x] = None THEN today' ELSE endedSince[x]]
           /\ endedSince' \in [U!Credentials -> Int \cup {None}]
           /\ deadSince' \in [U!Credentials -> Int \cup {None}]
           /\ \A x \in U!Credentials \ begun' : endedSince'[x] = None /\ deadSince'[x] = None
           /\ DeadOnceOver'
<1> USE RetentionAssumption DEF U!UpkeepAssumption, UpkeepInv, UpkeepTypes
<1>1. endedSince' = [x \in U!Credentials |->
        IF U!Runs(x)' THEN None
        ELSE IF x \in begun' /\ endedSince[x] = None THEN today' ELSE endedSince[x]]
  BY DEF U!Noted, U!Since
<1>2. deadSince' = [x \in U!Credentials |->
        IF U!Opens(x)' THEN None
        ELSE IF x \in begun' /\ deadSince[x] = None THEN today' ELSE deadSince[x]]
  BY DEF U!Noted, U!Since
<1>3. \A x \in U!Credentials : U!Opens(x)' => U!Runs(x)'
  BY DEF U!Opens, U!Runs, U!Resolves, U!Admits
<1> HIDE DEF UpkeepInv
<1>4. \A x \in U!Credentials \ begun' : endedSince'[x] = None /\ deadSince'[x] = None
  BY <1>1, <1>2 DEF UpkeepInv, OnlyTheBegun
<1>5. ASSUME NEW x \in U!Credentials
      PROVE  /\ deadSince'[x] # None => deadSince'[x] <= today'
             /\ endedSince'[x] # None => deadSince'[x] # None /\ deadSince'[x] <= endedSince'[x]
  <2>1. /\ endedSince[x] \in Int \cup {None} /\ deadSince[x] \in Int \cup {None} /\ today \in Int
        /\ deadSince[x] # None => deadSince[x] <= today
        /\ endedSince[x] # None => deadSince[x] # None /\ deadSince[x] <= endedSince[x]
        /\ x \notin begun => endedSince[x] = None /\ deadSince[x] = None
    BY DEF UpkeepInv, DeadOnceOver, OnlyTheBegun
  <2>2. /\ endedSince'[x] = IF U!Runs(x)' THEN None
                            ELSE IF x \in begun' /\ endedSince[x] = None THEN today' ELSE endedSince[x]
        /\ deadSince'[x] = IF U!Opens(x)' THEN None
                           ELSE IF x \in begun' /\ deadSince[x] = None THEN today' ELSE deadSince[x]
        /\ U!Opens(x)' => U!Runs(x)'
    BY <1>1, <1>2, <1>3
  <2> QED
    BY <2>1, <2>2
<1> QED
  BY <1>1, <1>2, <1>4, <1>5 DEF DeadOnceOver, UpkeepInv

(* What a step may make of a row: nothing, a new row, one that slid, one    *)
(* that was revoked, or none.                                               *)
SessionMoved(s) ==
    sessions'[s] # None =>
        /\ s \in begun'
        /\ \/ sessions[s] # None /\ sessions'[s] = sessions[s]
           \/ /\ today' = today /\ sessions'[s].revoked = None
              /\ today < sessions'[s].expires /\ today < sessions'[s].idle
              /\ s \notin begun \/ U!SessionRuns(s)
           \/ /\ today' = today /\ sessions[s] # None /\ sessions[s].revoked = None
              /\ sessions'[s] = [sessions[s] EXCEPT !.revoked = today]

TokenMoved(t) ==
    tokens'[t] # None =>
        /\ t \in begun'
        /\ \/ tokens[t] # None /\ tokens'[t] = tokens[t]
           \/ /\ today' = today /\ t \notin begun /\ tokens'[t].revoked = None
              /\ tokens'[t].expires # None => today < tokens'[t].expires
           \/ /\ today' = today /\ tokens[t] # None /\ tokens[t].revoked = None
              /\ tokens'[t] = [tokens[t] EXCEPT !.revoked = today]

LEMMA RowsStayDated ==
    ASSUME UpkeepInv, U!Noted, today' \in {today, today + 1}, begun \subseteq begun', begun' \subseteq U!Credentials,
           sessions' \in [Sessions -> U!UserSession \cup {None}], tokens' \in [Tokens -> U!MachineToken \cup {None}],
           suggestions' \in [Suggestions -> U!RecipeSuggestion \cup {None}],
           \A s \in Sessions : SessionMoved(s), \A t \in Tokens : TokenMoved(t)
    PROVE  UpkeepInv'
<1> USE RetentionAssumption DEF U!UpkeepAssumption
<1>1. UpkeepTypes /\ SessionsAreDated /\ TokensAreDated /\ OnlyTheBegun
  BY DEF UpkeepInv
<1>2. today \in Int /\ today' \in Int /\ today <= today'
  BY <1>1 DEF UpkeepTypes
<1>3. UpkeepTypes' /\ DeadOnceOver'
  BY <1>2, HistoriesKeep DEF UpkeepTypes
<1>4. \A x \in U!Credentials :
        endedSince'[x] = IF U!Runs(x)' THEN None
                         ELSE IF x \in begun' /\ endedSince[x] = None THEN today' ELSE endedSince[x]
  BY <1>2, HistoriesKeep
<1>5. ASSUME NEW s \in Sessions, sessions'[s] # None
      PROVE  LET r == sessions'[s]
             IN  IF endedSince'[s] = None THEN r.revoked = None /\ today' < r.expires /\ today' < r.idle
                 ELSE /\ endedSince'[s] <= today' /\ endedSince'[s] \in {r.revoked, r.expires, r.idle}
                      /\ endedSince'[s] <= r.expires /\ endedSince'[s] <= r.idle
                      /\ r.revoked # None => endedSince'[s] <= r.revoked
  <2> DEFINE r == sessions'[s]
             q == sessions[s]
  <2>1. /\ r \in U!UserSession /\ r.expires \in Int /\ r.idle \in Int /\ r.revoked \in Int \cup {None}
        /\ q \in U!UserSession \cup {None} /\ endedSince[s] \in Int \cup {None}
    BY <1>1, <1>5 DEF UpkeepTypes, U!UserSession, U!Credentials
  <2>2. U!Runs(s)' <=> r.revoked = None /\ r.expires > today' /\ r.idle > today'
    BY <1>5 DEF U!Runs, U!SessionRuns
  <2>3. endedSince'[s] = IF U!Runs(s)' THEN None ELSE IF endedSince[s] = None THEN today' ELSE endedSince[s]
    BY <1>4, <1>5 DEF U!Credentials, SessionMoved
  <2>4. CASE q # None /\ r = q
    BY <1>1, <1>2, <2>1, <2>2, <2>3, <2>4 DEF SessionsAreDated
  <2>5. CASE /\ today' = today /\ r.revoked = None /\ today < r.expires /\ today < r.idle
             /\ s \notin begun \/ U!SessionRuns(s)
    BY <1>2, <2>1, <2>2, <2>3, <2>5
  <2>6. CASE today' = today /\ q # None /\ q.revoked = None /\ r = [q EXCEPT !.revoked = today]
    <3>1. r.revoked = today /\ r.expires = q.expires /\ r.idle = q.idle
      BY <2>1, <2>6 DEF U!UserSession
    <3>2. endedSince'[s] = IF endedSince[s] = None THEN today ELSE endedSince[s]
      BY <1>2, <2>2, <2>3, <2>6, <3>1
    <3> QED
      BY <1>1, <1>2, <2>1, <2>6, <3>1, <3>2 DEF SessionsAreDated
  <2> QED
    BY <1>5, <2>4, <2>5, <2>6 DEF SessionMoved
<1>6. ASSUME NEW t \in Tokens, tokens'[t] # None
      PROVE  LET r == tokens'[t]
             IN  IF endedSince'[t] = None THEN r.revoked = None /\ (r.expires # None => today' < r.expires)
                 ELSE /\ endedSince'[t] <= today' /\ endedSince'[t] \in {r.revoked, r.expires}
                      /\ r.expires # None => endedSince'[t] <= r.expires
                      /\ r.revoked # None => endedSince'[t] <= r.revoked
  <2> DEFINE r == tokens'[t]
             q == tokens[t]
  <2>1. /\ r \in U!MachineToken /\ r.expires \in Int \cup {None} /\ r.revoked \in Int \cup {None}
        /\ q \in U!MachineToken \cup {None} /\ endedSince[t] \in Int \cup {None}
    BY <1>1, <1>6 DEF UpkeepTypes, U!MachineToken, U!Credentials
  <2>2. U!Runs(t)' <=> r.revoked = None /\ (r.expires = None \/ r.expires > today')
    BY <1>6 DEF U!Runs, U!TokenRuns
  <2>3. endedSince'[t] = IF U!Runs(t)' THEN None ELSE IF endedSince[t] = None THEN today' ELSE endedSince[t]
    BY <1>4, <1>6 DEF U!Credentials, TokenMoved
  <2>4. CASE q # None /\ r = q
    BY <1>1, <1>2, <2>1, <2>2, <2>3, <2>4 DEF TokensAreDated
  <2>5. CASE today' = today /\ r.revoked = None /\ (r.expires # None => today < r.expires)
    BY <1>2, <2>1, <2>2, <2>3, <2>5
  <2>6. CASE today' = today /\ q # None /\ q.revoked = None /\ r = [q EXCEPT !.revoked = today]
    <3>1. r.revoked = today /\ r.expires = q.expires
      BY <2>1, <2>6 DEF U!MachineToken
    <3>2. endedSince'[t] = IF endedSince[t] = None THEN today ELSE endedSince[t]
      BY <1>2, <2>2, <2>3, <2>6, <3>1
    <3> QED
      BY <1>1, <1>2, <2>1, <2>6, <3>1, <3>2 DEF TokensAreDated
  <2> QED
    BY <1>6, <2>4, <2>5, <2>6 DEF TokenMoved
<1>7. OnlyTheBegun'
  BY <1>2, HistoriesKeep DEF OnlyTheBegun, SessionMoved, TokenMoved
<1> QED
  BY <1>3, <1>5, <1>6, <1>7 DEF UpkeepInv, SessionsAreDated, TokensAreDated

LEMMA UpkeepSteps == UpkeepInv /\ [U!Next]_upkeep => UpkeepInv'
<1> SUFFICES ASSUME UpkeepInv, U!Next PROVE UpkeepInv'
  BY DEF upkeep, UpkeepInv, UpkeepTypes, SessionsAreDated, TokensAreDated, OnlyTheBegun, DeadOnceOver
<1> USE RetentionAssumption DEF U!UpkeepAssumption
<1>n. U!Noted
  BY DEF U!Next
<1>t. UpkeepTypes /\ OnlyTheBegun /\ UpkeepInv
  BY DEF UpkeepInv
<1>s. ASSUME sessions' = sessions, begun \subseteq begun' PROVE \A s \in Sessions : SessionMoved(s)
  BY <1>s, <1>t DEF SessionMoved, OnlyTheBegun
<1>k. ASSUME tokens' = tokens, begun \subseteq begun' PROVE \A t \in Tokens : TokenMoved(t)
  BY <1>k, <1>t DEF TokenMoved, OnlyTheBegun
<1>1. ASSUME NEW s \in Sessions, U!IssueSession(s) PROVE UpkeepInv'
  <2>1. \A x \in Sessions : SessionMoved(x)
    BY <1>1, <1>t DEF U!IssueSession, SessionMoved, UpkeepTypes, OnlyTheBegun, U!UserSession
  <2>2. sessions' \in [Sessions -> U!UserSession \cup {None}]
    BY <1>1, <1>t DEF U!IssueSession, UpkeepTypes, U!UserSession
  <2> QED
    BY <1>1, <1>n, <1>t, <1>k, <2>1, <2>2, RowsStayDated DEF U!IssueSession, UpkeepTypes, U!Credentials
<1>2. ASSUME NEW s \in Sessions, U!Touch(s) PROVE UpkeepInv'
  <2>1. \A x \in Sessions : SessionMoved(x)
    BY <1>2, <1>t DEF U!Touch, U!Resolves, U!SessionRuns, SessionMoved, UpkeepTypes, OnlyTheBegun, U!UserSession
  <2>2. sessions' \in [Sessions -> U!UserSession \cup {None}]
    BY <1>2, <1>t DEF U!Touch, U!Resolves, U!SessionRuns, UpkeepTypes, U!UserSession
  <2> QED
    BY <1>2, <1>n, <1>t, <1>k, <2>1, <2>2, RowsStayDated DEF U!Touch, UpkeepTypes
<1>3. ASSUME NEW s \in Sessions, U!Revoke(s) PROVE UpkeepInv'
  <2>1. \A x \in Sessions : SessionMoved(x)
    BY <1>3, <1>t DEF U!Revoke, SessionMoved, UpkeepTypes, OnlyTheBegun
  <2>2. sessions' \in [Sessions -> U!UserSession \cup {None}]
    BY <1>3, <1>t DEF U!Revoke, UpkeepTypes, U!UserSession
  <2> QED
    BY <1>3, <1>n, <1>t, <1>k, <2>1, <2>2, RowsStayDated DEF U!Revoke, UpkeepTypes
<1>4. ASSUME NEW t \in Tokens, NEW life \in Lives \cup {None}, U!Mint(t, life) PROVE UpkeepInv'
  <2>1. \A x \in Tokens : TokenMoved(x)
    BY <1>4, <1>t DEF U!Mint, TokenMoved, UpkeepTypes, OnlyTheBegun, U!MachineToken
  <2>2. tokens' \in [Tokens -> U!MachineToken \cup {None}]
    BY <1>4, <1>t DEF U!Mint, UpkeepTypes, U!MachineToken
  <2> QED
    BY <1>4, <1>n, <1>t, <1>s, <2>1, <2>2, RowsStayDated DEF U!Mint, UpkeepTypes, U!Credentials
<1>5. ASSUME NEW t \in Tokens, U!RevokeToken(t) PROVE UpkeepInv'
  <2>1. \A x \in Tokens : TokenMoved(x)
    BY <1>5, <1>t DEF U!RevokeToken, TokenMoved, UpkeepTypes, OnlyTheBegun
  <2>2. tokens' \in [Tokens -> U!MachineToken \cup {None}]
    BY <1>5, <1>t DEF U!RevokeToken, UpkeepTypes, U!MachineToken
  <2> QED
    BY <1>5, <1>n, <1>t, <1>s, <2>1, <2>2, RowsStayDated DEF U!RevokeToken, UpkeepTypes
<1>6. ASSUME NEW g \in Suggestions, U!Suggest(g) PROVE UpkeepInv'
  <2>1. suggestions' \in [Suggestions -> U!RecipeSuggestion \cup {None}]
    BY <1>6, <1>t DEF U!Suggest, UpkeepTypes, U!RecipeSuggestion
  <2> QED
    BY <1>6, <1>n, <1>t, <1>s, <1>k, <2>1, RowsStayDated DEF U!Suggest, U!credentials, UpkeepTypes
<1>7. CASE U!PurgeCredentials
  <2>1. /\ \A x \in Sessions : SessionMoved(x)
        /\ \A x \in Tokens : TokenMoved(x)
    BY <1>7, <1>t DEF U!PurgeCredentials, SessionMoved, TokenMoved, UpkeepTypes, OnlyTheBegun
  <2>2. /\ sessions' \in [Sessions -> U!UserSession \cup {None}]
        /\ tokens' \in [Tokens -> U!MachineToken \cup {None}]
    BY <1>7, <1>t DEF U!PurgeCredentials, UpkeepTypes
  <2> QED
    BY <1>7, <1>n, <1>t, <2>1, <2>2, RowsStayDated DEF U!PurgeCredentials, UpkeepTypes
<1>8. CASE U!PurgeRetained
  <2>1. suggestions' \in [Suggestions -> U!RecipeSuggestion \cup {None}]
    <3> DEFINE emptied(g) == [suggestions[g] EXCEPT !.snapshot = FALSE]
    <3>1. ASSUME NEW g \in U!StaleSnapshots PROVE emptied(g) \in U!RecipeSuggestion
      <4>1. suggestions[g] \in U!RecipeSuggestion
        BY <1>t, <3>1 DEF UpkeepTypes, U!StaleSnapshots
      <4> QED
        BY <4>1 DEF U!RecipeSuggestion
    <3>2. suggestions' = [g \in Suggestions |->
                            IF g \in U!StaleSnapshots THEN emptied(g) ELSE suggestions[g]]
      BY <1>8 DEF U!PurgeRetained
    <3> HIDE DEF emptied
    <3>3. \A g \in Suggestions : suggestions[g] \in U!RecipeSuggestion \cup {None}
      BY <1>t DEF UpkeepTypes
    <3> QED
      BY <3>1, <3>2, <3>3
  <2> QED
    BY <1>8, <1>n, <1>t, <1>s, <1>k, <2>1, RowsStayDated DEF U!PurgeRetained, U!credentials, UpkeepTypes
<1>9. CASE U!NextDay
  BY <1>9, <1>n, <1>t, <1>s, <1>k, RowsStayDated DEF U!NextDay, U!credentials, UpkeepTypes
<1>10. CASE U!Shutter \/ \E a \in Holders : U!Remove(a) \/ U!Redeem(a) \/ U!Disable(a) \/ U!Enable(a)
  <2>1. UNCHANGED <<today, sessions, tokens, suggestions, begun>>
    BY <1>10 DEF U!Shutter, U!Remove, U!Redeem, U!Disable, U!Enable, U!credentials
  <2> QED
    BY <2>1, <1>n, <1>t, <1>s, <1>k, RowsStayDated DEF UpkeepTypes
<1> QED
  BY <1>1, <1>2, <1>3, <1>4, <1>5, <1>6, <1>7, <1>8, <1>9, <1>10 DEF U!Next

Swept ==
    /\ U!PurgeCredentials =>
          \A x \in begun : U!Stored(x) =>
              /\ U!Stored(x)' <=> endedSince[x] = None \/ today - endedSince[x] <= Retention
              /\ ~U!Stored(x)' => deadSince[x] # None /\ today - deadSince[x] > Retention
    /\ \A g \in Suggestions : suggestions[g] # None /\ suggestions'[g] # suggestions[g] =>
          /\ suggestions'[g] = [suggestions[g] EXCEPT !.snapshot = FALSE]
          /\ today - suggestions[g].created > Frozen

LEMMA SweepsAreDated == UpkeepInv /\ [U!Next]_upkeep => [Swept]_upkeep
<1> SUFFICES ASSUME UpkeepInv, U!Next PROVE Swept
  OBVIOUS
<1> USE RetentionAssumption DEF U!UpkeepAssumption, UpkeepInv
<1>1. ASSUME U!PurgeCredentials, NEW s \in Sessions, sessions[s] # None
      PROVE  sessions'[s] # None <=> endedSince[s] = None \/ today - endedSince[s] <= Retention
  BY <1>1 DEF U!PurgeCredentials, U!DeadSessions, U!Before, UpkeepTypes, SessionsAreDated, U!UserSession, U!Credentials
<1>2. ASSUME U!PurgeCredentials, NEW t \in Tokens, tokens[t] # None
      PROVE  tokens'[t] # None <=> endedSince[t] = None \/ today - endedSince[t] <= Retention
  BY <1>2 DEF U!PurgeCredentials, U!DeadTokens, U!Before, UpkeepTypes, TokensAreDated, U!MachineToken, U!Credentials
<1>3. ASSUME NEW g \in Suggestions, suggestions[g] # None, suggestions'[g] # suggestions[g]
      PROVE  /\ suggestions'[g] = [suggestions[g] EXCEPT !.snapshot = FALSE]
             /\ today - suggestions[g].created > Frozen
  <2>1. U!PurgeRetained
    BY <1>3 DEF U!Next, U!IssueSession, U!Touch, U!Revoke, U!Mint, U!RevokeToken, U!Suggest, U!Remove, U!Redeem,
        U!Disable, U!Enable, U!Shutter, U!PurgeCredentials, U!NextDay, UpkeepTypes
  <2> QED
    BY <1>3, <2>1 DEF U!PurgeRetained, U!StaleSnapshots, U!Before, UpkeepTypes, U!RecipeSuggestion
<1>4. ASSUME U!PurgeCredentials, NEW x \in begun, U!Stored(x)
      PROVE  /\ U!Stored(x)' <=> endedSince[x] = None \/ today - endedSince[x] <= Retention
             /\ ~U!Stored(x)' => deadSince[x] # None /\ today - deadSince[x] > Retention
  <2>1. x \in Sessions \cup Tokens
    BY DEF UpkeepTypes, U!Credentials
  <2>2. U!Stored(x)' <=> endedSince[x] = None \/ today - endedSince[x] <= Retention
    BY <1>1, <1>2, <1>4, <2>1 DEF U!Stored
  <2>3. /\ endedSince[x] \in Int \cup {None} /\ deadSince[x] \in Int \cup {None} /\ today \in Int
        /\ endedSince[x] # None => deadSince[x] # None /\ deadSince[x] <= endedSince[x]
    BY DEF UpkeepTypes, DeadOnceOver
  <2> QED
    BY <2>2, <2>3
<1> QED
  BY <1>3, <1>4 DEF Swept

(* purge_expired_credentials.py: a sweep takes the rows that have been over *)
(* for longer than the retention, no others, and none that opened something *)
(* within it, whatever became of its holder meanwhile.                      *)
THEOREM SweepsAreRight == ServiceSpec => SweepsTakeOnlyTheDead
<1>1. ServiceSpec => []UpkeepInv
  BY UpkeepStarts, UpkeepSteps, ServiceStarts, ServiceSteps, PTL DEF ServiceSpec
<1>2. UpkeepInv /\ [ServiceNext]_everything => [Swept]_U!vars
  BY SweepsAreDated, ServiceSteps DEF upkeep, U!vars
<1>3. ServiceSpec => [][Swept]_U!vars
  BY <1>1, <1>2, PTL DEF ServiceSpec
<1> QED
  BY <1>3 DEF SweepsTakeOnlyTheDead, U!SweepsTakeOnlyTheDead, Swept

-----------------------------------------------------------------------------
(* The document.                                                            *)
Entry == [id : RowIds, table : {Tables[i] : i \in DOMAIN Tables},
          house : Households \cup Neighbours \cup {None}, product : RowIds \cup {None}]

DocumentTypes ==
    /\ held \in [RowIds -> D!Row \cup {None}]
    /\ at \in 0 .. D!Done
    /\ residents \subseteq Persons
    /\ steady \subseteq RowIds /\ stayed \subseteq residents /\ late \subseteq RowIds
    /\ document \in [rows : SUBSET Entry, accounts : SUBSET [id : Persons, email : BOOLEAN],
                     public : SUBSET RowIds]

(* The rows are those the schema allows.                                    *)
RowsAreAllowed == \A i \in RowIds : held[i] # None => D!Allowed(held, held[i])

Here(i) == \E r \in document.rows : r.id = i

(* What has stood since the start is in the tables that have been read, and *)
(* a product of the household has stood since, or was born meanwhile.       *)
SteadyRowsAreRead ==
    /\ at = 0 => document = D!Blank
    /\ \A i \in steady : held[i] # None /\ held[i].house = House
    /\ \A i \in steady, k \in DOMAIN Tables : k < at /\ Tables[k] = held[i].table => Here(i)
    /\ \A i \in RowIds : at > 0 /\ held[i] # None /\ held[i].table = Catalogue /\ held[i].house = House
                            => i \in steady \cup late

StayedAreNamed == at > D!AccountsTurn => \A p \in stayed : \E a \in document.accounts : a.id = p

Standing(p) == held[p] # None /\ held[p].table = Catalogue /\ held[p].house = None

(* What a row names is in the document, was born meanwhile or is public.    *)
NamesAreTold ==
    /\ \A r \in document.rows :
          /\ r.house = House /\ (r.table \in References <=> r.product # None)
          /\ r.product # None => Here(r.product) \/ r.product \in late \/ Standing(r.product)
          /\ r.product # None /\ at = D!Done => Here(r.product) \/ r.product \in late \cup document.public

DocumentInv == DocumentTypes /\ RowsAreAllowed /\ SteadyRowsAreRead /\ StayedAreNamed /\ NamesAreTold

LEMMA LengthIsNat == Len(Tables) \in Nat /\ DOMAIN Tables = 1 .. Len(Tables)
  BY DocumentAssumption DEF D!HouseholdExportAssumption

LEMMA DocumentStarts == D!Init => DocumentInv
<1> SUFFICES ASSUME D!Init PROVE DocumentInv
  OBVIOUS
<1> USE DocumentAssumption, LengthIsNat DEF D!HouseholdExportAssumption, D!Init, D!Blank
<1>1. DocumentTypes
  BY DEF DocumentTypes, D!Done
<1>2. RowsAreAllowed
  BY DEF RowsAreAllowed
<1> QED
  BY <1>1, <1>2 DEF DocumentInv, SteadyRowsAreRead, StayedAreNamed, NamesAreTold, D!AccountsTurn, D!Done

(* What the members do meanwhile.                                           *)
LEMMA MeanwhileKeeps ==
    ASSUME DocumentInv, NEW changed, NEW there, D!Meanwhile(changed, there),
           changed \in [RowIds -> D!Row \cup {None}], there \subseteq Persons,
           \A i \in RowIds : changed[i] # None => D!Allowed(changed, changed[i]),
           \A i \in RowIds : held[i] # None /\ held[i].table = Catalogue =>
              changed[i] = held[i] \/ (changed[i] = None /\ held[i].house = House),
           \A i \in RowIds : changed[i] # None /\ changed[i].table = Catalogue => held[i] \in {None, changed[i]}
    PROVE  DocumentInv'
<1> USE DocumentAssumption, LengthIsNat DEF D!HouseholdExportAssumption, DocumentInv
<1> USE DEF D!Meanwhile
<1>1. DocumentTypes'
  BY DEF DocumentTypes
<1>2. RowsAreAllowed'
  BY DEF RowsAreAllowed
<1>3. SteadyRowsAreRead'
  <2>1. at' = at /\ document' = document /\ held' = changed
    OBVIOUS
  <2>2. \A i \in steady' : i \in steady /\ held'[i] = held[i] /\ i \in RowIds
    BY DEF DocumentTypes
  <2>3. \A i \in RowIds : Here(i)' <=> Here(i)
    BY <2>1 DEF Here
  <2>4. \A i \in RowIds : at > 0 /\ held'[i] # None /\ held'[i].table = Catalogue /\ held'[i].house = House
                            => i \in steady' \cup late'
    BY <2>1 DEF SteadyRowsAreRead, DocumentTypes
  <2> QED
    BY <2>1, <2>2, <2>3, <2>4 DEF SteadyRowsAreRead
<1>4. StayedAreNamed'
  BY DEF StayedAreNamed
<1>5. NamesAreTold'
  <2>1. \A i \in RowIds : Standing(i) => Standing(i)'
    BY None \notin Households \cup Neighbours DEF Standing
  <2>2. \A r \in document.rows : r.product # None => r.product \in RowIds
    BY DEF DocumentTypes, Entry
  <2>3. document' = document /\ at' = at /\ late \subseteq late'
    OBVIOUS
  <2>4. \A i \in RowIds : Here(i)' <=> Here(i)
    BY <2>3 DEF Here
  <2> QED
    BY <2>1, <2>2, <2>3, <2>4 DEF NamesAreTold
<1> QED
  BY <1>1, <1>2, <1>3, <1>4, <1>5

LEMMA MembersKeep ==
    ASSUME DocumentInv, NEW p \in Persons, D!Join(p) \/ D!Leave(p) PROVE DocumentInv'
<1> USE DocumentAssumption DEF D!HouseholdExportAssumption, D!Join, D!Leave, DocumentInv, DocumentTypes, RowsAreAllowed
<1>1. CASE D!Join(p)
  BY <1>1, MeanwhileKeeps
<1>2. CASE D!Leave(p)
  BY <1>2, MeanwhileKeeps
<1> QED
  BY <1>1, <1>2

LEMMA RowsKeep ==
    ASSUME DocumentInv,
           \/ D!Erase
           \/ \E i \in RowIds : \/ D!Delete(i)
                                \/ \E r \in D!Row : D!Insert(i, r)
                                \/ \E p \in RowIds : D!Repoint(i, p)
    PROVE  DocumentInv'
<1> USE DocumentAssumption DEF D!HouseholdExportAssumption
<1>0. /\ held \in [RowIds -> D!Row \cup {None}] /\ residents \subseteq Persons
      /\ \A j \in RowIds : held[j] # None => D!Allowed(held, held[j])
  BY DEF DocumentInv, DocumentTypes, RowsAreAllowed
<1> DEFINE Steady(changed) ==
              /\ \A j \in RowIds : held[j] # None /\ held[j].table = Catalogue =>
                    changed[j] = held[j] \/ (changed[j] = None /\ held[j].house = House)
              /\ \A j \in RowIds : changed[j] # None /\ changed[j].table = Catalogue =>
                    held[j] \in {None, changed[j]}
           Sound(changed) ==
              /\ changed \in [RowIds -> D!Row \cup {None}]
              /\ \A j \in RowIds : changed[j] # None => D!Allowed(changed, changed[j])
<1>1. ASSUME NEW changed, NEW there, D!Meanwhile(changed, there), Sound(changed), Steady(changed),
             there \subseteq Persons
      PROVE  DocumentInv'
  BY <1>1, MeanwhileKeeps
<1>2. ASSUME NEW i \in RowIds, D!Delete(i) PROVE DocumentInv'
  <2> DEFINE changed == [held EXCEPT ![i] = None]
  <2>1. Sound(changed)
    BY <1>0, <1>2 DEF D!Delete, D!Allowed, D!Visible
  <2>2. Steady(changed)
    BY <1>0, <1>2 DEF D!Delete
  <2>3. D!Meanwhile(changed, residents)
    BY <1>2 DEF D!Delete
  <2> HIDE DEF changed, Sound, Steady
  <2> QED
    BY <1>0, <1>1, <2>1, <2>2, <2>3
<1>3. CASE D!Erase
  <2> DEFINE changed == [j \in RowIds |-> IF held[j] # None /\ held[j].house = House THEN None ELSE held[j]]
  <2>1. Sound(changed)
    BY <1>0, <1>3 DEF D!Erase, D!Allowed, D!Visible
  <2>2. Steady(changed)
    BY <1>0, <1>3 DEF D!Erase
  <2>3. D!Meanwhile(changed, {})
    BY <1>3 DEF D!Erase
  <2> HIDE DEF changed, Sound, Steady
  <2> QED
    BY <1>0, <1>1, <2>1, <2>2, <2>3
<1>4. ASSUME NEW i \in RowIds, NEW r \in D!Row, D!Insert(i, r) PROVE DocumentInv'
  <2> DEFINE changed == [held EXCEPT ![i] = r]
  <2>1. Sound(changed)
    BY <1>0, <1>4 DEF D!Insert, D!Allowed, D!Visible
  <2>2. Steady(changed)
    BY <1>0, <1>4 DEF D!Insert
  <2>3. D!Meanwhile(changed, residents)
    BY <1>4 DEF D!Insert
  <2> HIDE DEF changed, Sound, Steady
  <2> QED
    BY <1>0, <1>1, <2>1, <2>2, <2>3
<1>5. ASSUME NEW i \in RowIds, NEW p \in RowIds, D!Repoint(i, p) PROVE DocumentInv'
  <2> DEFINE changed == [held EXCEPT ![i].product = p]
  <2>1. changed \in [RowIds -> D!Row \cup {None}]
    BY <1>0, <1>5 DEF D!Repoint, D!Row
  <2>2. /\ held[i] # None /\ held[i].table = Matched /\ Matched # Catalogue
        /\ \A j \in RowIds \ {i} : changed[j] = held[j]
        /\ changed[i].table = Matched /\ changed[i].house = held[i].house /\ changed[i].product = p
    BY <1>0, <1>5 DEF D!Repoint, D!Row
  <2>3. D!Meanwhile(changed, residents)
    BY <1>5 DEF D!Repoint
  <2>4. p \in D!Visible(held, held[i].house) /\ held[i].house # None /\ changed[i] # None
    <3>1. p \in D!Visible(held, held[i].house)
      BY <1>5 DEF D!Repoint
    <3>2. held[i].house # None
      BY <1>0, <2>2 DEF D!Allowed
    <3>3. changed[i] # None
      BY <1>0, <2>2 DEF D!Row
    <3> QED
      BY <3>1, <3>2, <3>3
  <2> HIDE DEF changed
  <2>5. \A h : D!Visible(changed, h) = D!Visible(held, h)
    BY <2>2, <2>4 DEF D!Visible
  <2>6. D!Allowed(changed, changed[i])
    BY <2>2, <2>4, <2>5 DEF D!Allowed
  <2>7. \A j \in RowIds \ {i} : changed[j] # None => D!Allowed(changed, changed[j])
    BY <1>0, <2>2, <2>5 DEF D!Allowed
  <2>8. Sound(changed)
    BY <2>1, <2>6, <2>7
  <2>9. Steady(changed)
    BY <2>2
  <2> HIDE DEF Sound, Steady
  <2> QED
    BY <1>0, <1>1, <2>3, <2>8, <2>9
<1> QED
  BY <1>2, <1>3, <1>4, <1>5

(* The statements of the export.                                            *)
LEMMA StatementsKeep ==
    ASSUME DocumentInv, \/ D!Begin \/ D!RowsOf \/ D!MemberAccounts \/ D!ReferencedPublicProducts
    PROVE  DocumentInv'
<1> USE DocumentAssumption, LengthIsNat DEF D!HouseholdExportAssumption, DocumentInv, D!home
<1>1. CASE D!Begin
  <2> USE <1>1 DEF D!Begin
  <2>1. DocumentTypes'
    BY DEF DocumentTypes, D!Done
  <2>2. RowsAreAllowed'
    BY DEF RowsAreAllowed, D!Allowed, D!Visible
  <2>3. SteadyRowsAreRead'
    BY DEF SteadyRowsAreRead, DocumentTypes
  <2>4. StayedAreNamed'
    BY DEF StayedAreNamed, D!AccountsTurn
  <2>5. NamesAreTold'
    BY DEF NamesAreTold, SteadyRowsAreRead, D!Blank
  <2> QED
    BY <2>1, <2>2, <2>3, <2>4, <2>5
<1>2. CASE D!RowsOf
  <2> USE <1>2 DEF D!RowsOf
  <2>1. DocumentTypes'
    <3>1. \A i \in D!Rows(Tables[at], House) : D!Written(i) \in Entry
      BY DEF D!Rows, D!Written, Entry, DocumentTypes, D!Row
    <3> QED
      BY <3>1 DEF DocumentTypes, D!Done
  <2>2. RowsAreAllowed'
    BY DEF RowsAreAllowed, D!Allowed, D!Visible
  <2>3. document'.rows = document.rows \cup {D!Written(i) : i \in D!Rows(Tables[at], House)}
    BY DEF DocumentTypes
  <2>4. \A i : Here(i) => Here(i)'
    BY <2>3 DEF Here
  <2>5. ASSUME NEW i \in D!Rows(Tables[at], House) PROVE Here(i)'
    <3>1. D!Written(i) \in document'.rows /\ D!Written(i).id = i
      BY <2>3 DEF D!Written
    <3>2. \E r \in document'.rows : r.id = i
      BY <3>1
    <3> QED
      BY <3>2 DEF Here
  <2>6. SteadyRowsAreRead'
    BY <2>4, <2>5 DEF SteadyRowsAreRead, DocumentTypes, D!Rows
  <2>7. StayedAreNamed'
    BY DEF StayedAreNamed, D!AccountsTurn
  <2>8. ASSUME NEW i \in D!Rows(Tables[at], House)
        PROVE  LET r == D!Written(i)
               IN  /\ r.house = House /\ (r.table \in References <=> r.product # None)
                   /\ r.product # None => Here(r.product) \/ r.product \in late \/ Standing(r.product)
    <3> DEFINE p == held[i].product
    <3>1. D!Allowed(held, held[i]) /\ held[i].house = House /\ held[i].table = Tables[at]
      BY DEF D!Rows, RowsAreAllowed, DocumentTypes
    <3>2. ASSUME p # None PROVE Here(p) \/ p \in late \/ Standing(p)
      <4>1. p \in D!Visible(held, House) /\ Tables[at] \in References
        BY <3>1, <3>2 DEF D!Allowed
      <4>2. CASE held[p].house = None
        BY <4>1, <4>2 DEF D!Visible, Standing
      <4>3. CASE held[p].house = House
        <5>1. p \in steady \cup late
          BY <4>1, <4>3 DEF D!Visible, SteadyRowsAreRead, DocumentTypes
        <5>2. PICK k \in DOMAIN Tables : Tables[k] = Catalogue
          OBVIOUS
        <5>3. k < at
          BY <4>1, <5>2
        <5> QED
          BY <4>1, <5>1, <5>2, <5>3 DEF D!Visible, SteadyRowsAreRead
      <4> QED
        BY <4>1, <4>2, <4>3 DEF D!Visible
    <3> QED
      BY <3>1, <3>2 DEF D!Written, D!Allowed
  <2>9. NamesAreTold'
    <3>1. at' # D!Done /\ at # D!Done
      BY DEF D!Done
    <3>2. \A p : Standing(p) <=> Standing(p)'
      BY DEF Standing
    <3> QED
      BY <2>3, <2>4, <2>8, <3>1, <3>2 DEF NamesAreTold
  <2> QED
    BY <2>1, <2>2, <2>6, <2>7, <2>9
<1>3. CASE D!MemberAccounts
  <2> DEFINE named == {[id |-> p, email |-> p = Requester] : p \in residents}
  <2>0. /\ named \subseteq [id : Persons, email : BOOLEAN]
        /\ \A p \in residents : \E a \in named : a.id = p
    <3>1. \A p \in residents : /\ [id |-> p, email |-> p = Requester] \in [id : Persons, email : BOOLEAN]
                               /\ [id |-> p, email |-> p = Requester].id = p
      BY Zenon DEF DocumentTypes
    <3> DEFINE account(p) == [id |-> p, email |-> p = Requester]
    <3>2. named = {account(p) : p \in residents}
      OBVIOUS
    <3> HIDE DEF account
    <3>3. \A p \in residents : account(p) \in [id : Persons, email : BOOLEAN] /\ account(p).id = p
      BY <3>1 DEF account
    <3> HIDE DEF named
    <3> QED
      BY <3>2, <3>3
  <2>10. /\ at = D!AccountsTurn /\ at' = at + 1 /\ document' = [document EXCEPT !.accounts = named]
         /\ UNCHANGED <<held, residents, standing, changes, steady, stayed, late>>
    BY <1>3 DEF D!MemberAccounts
  <2> HIDE DEF named
  <2> USE <2>10
  <2>1. DocumentTypes'
    BY <2>0 DEF DocumentTypes, D!Done, D!AccountsTurn
  <2>2. RowsAreAllowed'
    BY DEF RowsAreAllowed, D!Allowed, D!Visible
  <2>3. document'.rows = document.rows /\ document'.public = document.public
    BY DEF DocumentTypes
  <2>4. \A i : Here(i) <=> Here(i)'
    BY <2>3 DEF Here
  <2>5. SteadyRowsAreRead'
    BY <2>4 DEF SteadyRowsAreRead, DocumentTypes, D!AccountsTurn
  <2>6. StayedAreNamed'
    BY <2>0 DEF StayedAreNamed, D!AccountsTurn, DocumentTypes
  <2>7. NamesAreTold'
    BY <2>3, <2>4 DEF NamesAreTold, Standing, D!Done, D!AccountsTurn
  <2> QED
    BY <2>1, <2>2, <2>5, <2>6, <2>7
<1>4. CASE D!ReferencedPublicProducts
  <2> USE <1>4 DEF D!ReferencedPublicProducts
  <2>1. DocumentTypes'
    BY DEF DocumentTypes, D!Done, D!ProductsTurn, D!Wanted, D!Rows
  <2>2. RowsAreAllowed'
    BY DEF RowsAreAllowed, D!Allowed, D!Visible
  <2>3. document'.rows = document.rows /\ document'.accounts = document.accounts
    BY DEF DocumentTypes
  <2>4. \A i : Here(i) <=> Here(i)'
    BY <2>3 DEF Here
  <2>5. SteadyRowsAreRead'
    BY <2>4 DEF SteadyRowsAreRead, DocumentTypes, D!ProductsTurn
  <2>6. StayedAreNamed'
    BY <2>3 DEF StayedAreNamed, D!AccountsTurn, D!ProductsTurn
  <2>7. ASSUME NEW r \in document.rows, r.product # None, Standing(r.product)
        PROVE  r.product \in document'.public
    BY <2>7 DEF NamesAreTold, Standing, D!Wanted, D!Rows, DocumentTypes, Entry
  <2>8. NamesAreTold'
    BY <2>3, <2>4, <2>7 DEF NamesAreTold, Standing
  <2> QED
    BY <2>1, <2>2, <2>5, <2>6, <2>8
<1> QED
  BY <1>1, <1>2, <1>3, <1>4

LEMMA DocumentSteps == DocumentInv /\ [D!Next]_exporting => DocumentInv'
<1> SUFFICES ASSUME DocumentInv, [D!Next]_exporting PROVE DocumentInv'
  OBVIOUS
<1>1. CASE UNCHANGED exporting
  BY <1>1 DEF exporting, DocumentInv, DocumentTypes, RowsAreAllowed, D!Allowed, D!Visible, SteadyRowsAreRead,
      Here, StayedAreNamed, NamesAreTold, Standing
<1>2. D!Finished => UNCHANGED exporting
  BY DEF D!Finished, D!vars, D!home, exporting
<1>3. ASSUME NEW i \in RowIds, D!Delete(i) \/ \E r \in D!Row : D!Insert(i, r) PROVE DocumentInv'
  BY <1>3, RowsKeep
<1>4. ASSUME NEW i \in RowIds, NEW p \in RowIds, D!Repoint(i, p) PROVE DocumentInv'
  BY <1>4, RowsKeep
<1>5. CASE D!Erase
  BY <1>5, RowsKeep
<1>6. ASSUME NEW p \in Persons, D!Join(p) \/ D!Leave(p) PROVE DocumentInv'
  BY <1>6, MembersKeep
<1>7. CASE D!Begin \/ D!RowsOf \/ D!MemberAccounts \/ D!ReferencedPublicProducts
  BY <1>7, StatementsKeep
<1> QED
  BY <1>1, <1>2, <1>3, <1>4, <1>5, <1>6, <1>7 DEF D!Next

LEMMA WholeOnceDone == DocumentInv => D!DocumentIsWhole
<1> SUFFICES ASSUME DocumentInv, at = D!Done PROVE D!DocumentIsWhole
  BY DEF D!DocumentIsWhole
<1> USE DocumentAssumption, LengthIsNat DEF D!HouseholdExportAssumption, DocumentInv
<1>1. \A i : Here(i) <=> i \in {r.id : r \in document.rows}
  BY DEF Here
<1>2. \A i \in steady : Here(i)
  <2> TAKE i \in steady
  <2>1. PICK k \in DOMAIN Tables : Tables[k] = held[i].table
    BY DEF SteadyRowsAreRead, DocumentTypes, D!Row
  <2> QED
    BY <2>1 DEF SteadyRowsAreRead, D!Done
<1>3. stayed \subseteq {a.id : a \in document.accounts}
  BY DEF StayedAreNamed, D!AccountsTurn, D!Done
<1> QED
  BY <1>1, <1>2, <1>3 DEF D!DocumentIsWhole, NamesAreTold

(* privacy.py, export: the document holds what the household kept while it  *)
(* was written, and says of every product it names what it is.              *)
THEOREM DocumentsAreWhole == ServiceSpec => []DocumentIsWhole
<1>1. ServiceSpec => []DocumentInv
  BY DocumentStarts, DocumentSteps, ServiceStarts, ServiceSteps, PTL DEF ServiceSpec
<1>2. DocumentInv => DocumentIsWhole
  BY WholeOnceDone DEF DocumentIsWhole
<1> QED
  BY <1>1, <1>2, PTL

-----------------------------------------------------------------------------
(* The uses.                                                                *)
(* A request about a provider has all its fields.                           *)
ProviderRequest(t) == DOMAIN t = {"step", "req", "config", "row", "set", "own"}

(* What a request has known unpermitted all along is so now, and is not     *)
(* what it is about to use.                                                 *)
BarredAreUnpermitted ==
    /\ DOMAIN ptx = Clients /\ barred \in [Clients -> SUBSET Configs]
    /\ \A c \in Clients :
          /\ ProviderRequest(ptx[c])
          /\ barred[c] \subseteq P!Unpermitted
          /\ ptx[c].step \in {"key", "send"} => ptx[c].config \notin barred[c]

LEMMA ProvidersStart == P!Init => BarredAreUnpermitted
  BY DEF P!Init, P!IdleTx, BarredAreUnpermitted, ProviderRequest

LEMMA ProvidersStep == BarredAreUnpermitted /\ [P!Next]_providers => BarredAreUnpermitted'
<1> SUFFICES ASSUME BarredAreUnpermitted, [P!Next]_providers PROVE BarredAreUnpermitted'
  OBVIOUS
<1> USE ConsentsAssumption DEF P!ProvidersAssumption, BarredAreUnpermitted
<1>1. ASSUME NEW c \in Clients, NEW t, P!Go(c, t), ProviderRequest(t),
             t.step \in {"key", "send"} => t.config \notin barred[c]
      PROVE  BarredAreUnpermitted'
  <2>1. /\ barred' = barred /\ P!Unpermitted' = P!Unpermitted
        /\ ptx' = [ptx EXCEPT ![c] = t]
    BY <1>1 DEF P!Go, P!Unpermitted, P!Exempt, P!EndpointIsLocal
  <2>2. \A d \in Clients : ptx'[d] = IF d = c THEN t ELSE ptx[d]
    BY <2>1
  <2>3. DOMAIN ptx' = Clients
    BY <2>1
  <2> QED
    BY <1>1, <2>1, <2>2, <2>3 DEF ProviderRequest
<1>2. ASSUME NEW c \in Clients, NEW outcome, P!Rollback(c, outcome) PROVE BarredAreUnpermitted'
  <2>1. /\ barred' = barred /\ P!Unpermitted' = P!Unpermitted
        /\ ptx' = [ptx EXCEPT ![c] = P!IdleTx]
    BY <1>2 DEF P!Rollback, P!Unpermitted, P!Exempt, P!EndpointIsLocal
  <2>2. \A d \in Clients : ptx'[d] = IF d = c THEN P!IdleTx ELSE ptx[d]
    BY <2>1
  <2>3. DOMAIN ptx' = Clients
    BY <2>1
  <2> QED
    BY <2>1, <2>2, <2>3 DEF ProviderRequest, P!IdleTx
<1>3. ASSUME NEW c \in Clients, NEW req \in ProviderRequests, P!Begin(c, req) PROVE BarredAreUnpermitted'
  <2>1. /\ P!Unpermitted' = P!Unpermitted /\ P!Unpermitted \subseteq Configs
        /\ ptx' = [ptx EXCEPT ![c] = [P!IdleTx EXCEPT !.req = req, !.step = "load"]]
        /\ barred' = [barred EXCEPT ![c] = P!Unpermitted]
    BY <1>3 DEF P!Begin, P!Unpermitted, P!Exempt, P!EndpointIsLocal
  <2>2. \A d \in Clients : ptx'[d] = IF d = c THEN [P!IdleTx EXCEPT !.req = req, !.step = "load"] ELSE ptx[d]
    BY <2>1
  <2>3. DOMAIN ptx' = Clients
    BY <2>1
  <2>4. \A d \in Clients : barred'[d] = IF d = c THEN P!Unpermitted ELSE barred[d]
    BY <2>1
  <2> QED
    BY <2>1, <2>2, <2>3, <2>4 DEF ProviderRequest, P!IdleTx
<1>4. ASSUME NEW c \in Clients, P!Create(c) \/ P!Insert(c) \/ P!Active(c) \/ P!ApplyProbe(c) \/ P!Write(c)
      PROVE  BarredAreUnpermitted'
  <2>1. CASE P!Create(c)
    BY <1>1, <1>2, <2>1 DEF P!Create, ProviderRequest
  <2>2. CASE P!Insert(c)
    BY <1>1, <1>2, <2>2 DEF P!Insert, ProviderRequest
  <2>3. CASE P!Active(c)
    BY <1>1, <1>2, <2>3 DEF P!Active, ProviderRequest
  <2>4. CASE P!ApplyProbe(c)
    BY <1>1, <1>2, <2>4 DEF P!ApplyProbe, ProviderRequest
  <2>5. CASE P!Write(c)
    BY <1>1, <1>2, <2>5 DEF P!Write, ProviderRequest
  <2> QED
    BY <1>4, <2>1, <2>2, <2>3, <2>4, <2>5
<1>5. ASSUME NEW c \in Clients, P!Load(c) PROVE BarredAreUnpermitted'
  <2> DEFINE k == CHOOSE k \in P!LiveConfigs : TRUE
  <2>1. CASE P!LiveConfigs = {} \/ P!Refusal(configs[k]) # None
    BY <1>2, <1>5, <2>1 DEF P!Load
  <2>2. CASE P!LiveConfigs # {} /\ P!Refusal(configs[k]) = None
    <3>1. k \in P!LiveConfigs
      BY <2>2
    <3> HIDE DEF k
    <3>2. k \notin P!Unpermitted
      BY <2>2, <3>1 DEF P!LiveConfigs, P!Unpermitted, P!Refusal, P!ConsentRefusal
    <3>3. P!Go(c, [ptx[c] EXCEPT !.config = k, !.row = configs[k], !.step = "key"])
      BY <1>5, <2>2 DEF P!Load, k
    <3> QED
      BY <1>1, <3>2, <3>3 DEF ProviderRequest
  <2> QED
    BY <2>1, <2>2
<1>6. ASSUME NEW c \in Clients, P!SealedCredential(c) PROVE BarredAreUnpermitted'
  BY <1>1, <1>2, <1>6 DEF P!SealedCredential, ProviderRequest
<1>7. ASSUME NEW c \in Clients, P!Transmit(c) PROVE BarredAreUnpermitted'
  BY <1>1, <1>2, <1>7 DEF P!Transmit, ProviderRequest
<1>8. ASSUME P!StillBarred, DOMAIN ptx' = Clients,
             \A d \in Clients : ptx'[d] = ptx[d] \/ ptx'[d] = P!IdleTx
      PROVE  BarredAreUnpermitted'
  <2>1. \A d \in Clients : barred'[d] = barred[d] \cap P!Unpermitted'
    BY <1>8 DEF P!StillBarred
  <2>2. barred' \in [Clients -> SUBSET Configs]
    BY <1>8 DEF P!StillBarred
  <2> QED
    BY <1>8, <2>1, <2>2 DEF ProviderRequest, P!IdleTx
<1>9. ASSUME NEW c \in Clients, P!Commit(c) PROVE BarredAreUnpermitted'
  BY <1>8, <1>9 DEF P!Commit
<1>10. ASSUME NEW c \in Clients, P!Interrupt(c) PROVE BarredAreUnpermitted'
  BY <1>2, <1>10 DEF P!Interrupt
<1>11. ASSUME NEW url \in Endpoints, P!Repoint(url) PROVE BarredAreUnpermitted'
  BY <1>8, <1>11 DEF P!Repoint
<1>12. CASE UNCHANGED providers
  BY <1>12 DEF providers, P!Unpermitted, P!Exempt, P!EndpointIsLocal
<1>13. P!Finished => UNCHANGED providers
  BY DEF P!Finished, P!vars, providers
<1> QED
  BY <1>3, <1>4, <1>5, <1>6, <1>7, <1>9, <1>10, <1>11, <1>12, <1>13 DEF P!Next

(* A request about an export has all its fields.                            *)
ExportRequest(t) ==
    DOMAIN t = {"step", "op", "who", "row", "set", "own", "account", "lines", "left", "accepted", "rejected"}

(* What a request has known withdrawn all along is so now, and it is past   *)
(* the reading of nothing it knew withdrawn.                                *)
KnownAreWithdrawn ==
    /\ DOMAIN xtx = Clients
    /\ known \in [Clients -> [withdrawn : BOOLEAN, gone : SUBSET Persons]]
    /\ \A c \in Clients :
          /\ ExportRequest(xtx[c])
          /\ known[c].withdrawn => X!Withdrawn
          /\ xtx[c].step \in {"build", "post"} => ~known[c].withdrawn

LEMMA ExportsStart == X!Init => KnownAreWithdrawn
  BY DEF X!Init, X!IdleTx, KnownAreWithdrawn, ExportRequest

LEMMA ExportsStep == KnownAreWithdrawn /\ [X!Next]_exports => KnownAreWithdrawn'
<1> SUFFICES ASSUME KnownAreWithdrawn, [X!Next]_exports PROVE KnownAreWithdrawn'
  OBVIOUS
<1> USE ExportsAssumption DEF X!ListExportsAssumption, KnownAreWithdrawn
<1>1. ASSUME NEW c \in Clients, NEW t, xtx' = [xtx EXCEPT ![c] = t], UNCHANGED <<target, members, known>>,
             ExportRequest(t), t.step \in {"build", "post"} => ~known[c].withdrawn
      PROVE  KnownAreWithdrawn'
  <2>1. \A d \in Clients : xtx'[d] = IF d = c THEN t ELSE xtx[d]
    BY <1>1
  <2>2. DOMAIN xtx' = Clients
    BY <1>1
  <2>3. X!Withdrawn' <=> X!Withdrawn
    BY <1>1 DEF X!Withdrawn
  <2> QED
    BY <1>1, <2>1, <2>2, <2>3 DEF ExportRequest
<1>2. ASSUME NEW c \in Clients, NEW outcome, X!Answer(c, outcome), UNCHANGED <<target, members, known>>
      PROVE  KnownAreWithdrawn'
  BY <1>1, <1>2 DEF X!Answer, X!IdleTx, ExportRequest
<1>3. ASSUME NEW c \in Clients, NEW t, X!Go(c, t), ExportRequest(t),
             t.step \in {"build", "post"} => ~known[c].withdrawn
      PROVE  KnownAreWithdrawn'
  BY <1>1, <1>3 DEF X!Go, X!home
<1>4. ASSUME NEW c \in Clients, NEW outcome, X!Rollback(c, outcome) PROVE KnownAreWithdrawn'
  BY <1>2, <1>4 DEF X!Rollback, X!home
<1>5. ASSUME X!StillKnown, DOMAIN xtx' = Clients,
             \A d \in Clients : xtx'[d] = xtx[d] \/ xtx'[d] = X!IdleTx
      PROVE  KnownAreWithdrawn'
  <2>1. known' \in [Clients -> [withdrawn : BOOLEAN, gone : SUBSET Persons]]
    BY <1>5 DEF X!StillKnown
  <2>2. \A d \in Clients : known'[d].withdrawn = (known[d].withdrawn /\ X!Withdrawn')
    BY <1>5, Zenon DEF X!StillKnown
  <2>3. \A d \in Clients : /\ ExportRequest(xtx[d])'
                           /\ xtx'[d].step \in {"build", "post"} => xtx'[d] = xtx[d]
    BY <1>5 DEF ExportRequest, X!IdleTx
  <2>4. \A d \in Clients : known'[d].withdrawn => X!Withdrawn' /\ known[d].withdrawn
    BY <2>2, Zenon
  <2> QED
    BY <1>5, <2>1, <2>3, <2>4
<1>6. ASSUME NEW c \in Clients, NEW op, NEW p, X!Begin(c, op, p) PROVE KnownAreWithdrawn'
  <2>1. \A d \in Clients : xtx'[d] = IF d = c THEN [X!IdleTx EXCEPT !.op = op, !.who = p, !.step = "read"]
                                     ELSE xtx[d]
    BY <1>6 DEF X!Begin
  <2>2. DOMAIN xtx' = Clients
    BY <1>6 DEF X!Begin
  <2>3. X!Withdrawn' <=> X!Withdrawn
    BY <1>6 DEF X!Begin, X!home, X!Withdrawn
  <2>4. X!Withdrawn \in BOOLEAN
    BY DEF X!Withdrawn
  <2>5. known' = [known EXCEPT ![c] = [withdrawn |-> X!Withdrawn, gone |-> Persons \ members]]
    BY <1>6 DEF X!Begin
  <2>6. known' \in [Clients -> [withdrawn : BOOLEAN, gone : SUBSET Persons]]
    BY <2>4, <2>5
  <2>7. known'[c].withdrawn => X!Withdrawn
    BY <2>5, Zenon
  <2>8. \A d \in Clients \ {c} : known'[d] = known[d]
    BY <2>5
  <2>9. \A d \in Clients : ExportRequest(xtx'[d])
    BY <2>1 DEF ExportRequest, X!IdleTx
  <2>10. \A d \in Clients : known'[d].withdrawn => X!Withdrawn'
    BY <2>3, <2>7, <2>8
  <2>11. \A d \in Clients : xtx'[d].step \in {"build", "post"} => ~known'[d].withdrawn
    <3>1. xtx'[c].step = "read"
      BY <2>1 DEF X!IdleTx
    <3>2. \A d \in Clients \ {c} : xtx'[d] = xtx[d]
      BY <2>1
    <3> QED
      BY <2>8, <3>1, <3>2, Zenon
  <2> QED
    BY <2>2, <2>6, <2>9, <2>10, <2>11 DEF ExportRequest
<1>7. ASSUME NEW c \in Clients, X!Register(c) \/ X!Revoke(c) \/ X!Write(c) PROVE KnownAreWithdrawn'
  <2>1. CASE X!Register(c)
    BY <1>3, <1>4, <2>1 DEF X!Register, ExportRequest
  <2>2. CASE X!Revoke(c)
    BY <1>3, <1>4, <2>2 DEF X!Revoke, ExportRequest
  <2>3. CASE X!Write(c)
    BY <1>3, <1>4, <2>3 DEF X!Write, ExportRequest
  <2> QED
    BY <1>7, <2>1, <2>2, <2>3
<1>8. ASSUME NEW c \in Clients, X!Commit(c) PROVE KnownAreWithdrawn'
  BY <1>5, <1>8 DEF X!Commit, X!Answer
<1>9. ASSUME NEW c \in Clients, X!ExporterFor(c) PROVE KnownAreWithdrawn'
  <2>1. CASE target = None
    <3>1. ~known[c].withdrawn
      BY <2>1 DEF X!Withdrawn
    <3> QED
      BY <1>3, <1>4, <1>9, <2>1, <3>1 DEF X!ExporterFor, ExportRequest
  <2>2. CASE target # None /\ X!Refusal(target) = None
    <3>1. ~known[c].withdrawn
      BY <2>2 DEF X!Withdrawn, X!Refusal, X!RegistrantHasLeft
    <3> QED
      BY <1>3, <1>9, <2>2, <3>1 DEF X!ExporterFor, ExportRequest
  <2>3. CASE target # None /\ X!Refusal(target) # None
    BY <1>4, <1>9, <2>3 DEF X!ExporterFor
  <2> QED
    BY <2>1, <2>2, <2>3
<1>10. ASSUME NEW c \in Clients, X!BuildExport(c) PROVE KnownAreWithdrawn'
  BY <1>3, <1>4, <1>10 DEF X!BuildExport, ExportRequest
<1>11. ASSUME NEW c \in Clients, X!PostBatch(c) PROVE KnownAreWithdrawn'
  BY <1>1, <1>2, <1>11 DEF X!PostBatch, X!home, ExportRequest
<1>12. ASSUME NEW c \in Clients, X!Receipt(c) \/ X!Interrupt(c) PROVE KnownAreWithdrawn'
  BY <1>4, <1>12 DEF X!Receipt, X!Interrupt
<1>13. ASSUME NEW l \in Lines, X!Tick(l) PROVE KnownAreWithdrawn'
  BY <1>13 DEF X!Tick, X!Elsewhere, X!Withdrawn
<1>17. X!Archive => KnownAreWithdrawn'
  BY DEF X!Archive, X!Elsewhere, X!Withdrawn
<1>14. ASSUME NEW p \in Persons, X!Leave(p) \/ X!Rejoin(p) \/ X!EraseAccount(p) PROVE KnownAreWithdrawn'
  BY <1>5, <1>14 DEF X!Leave, X!Rejoin, X!EraseAccount, X!Elsewhere
<1>15. CASE UNCHANGED exports
  BY <1>15 DEF exports, X!Withdrawn
<1>16. X!Finished => UNCHANGED exports
  BY DEF X!Finished, X!vars, X!home, exports
<1> QED
  BY <1>6, <1>7, <1>8, <1>9, <1>10, <1>11, <1>12, <1>13, <1>14, <1>15, <1>16, <1>17 DEF X!Next

(* providers.py, export_targets.py: a withdrawal takes effect at the next   *)
(* use, of a provider as of an export.                                      *)
THEOREM WithdrawalsReachTheNextUse == ServiceSpec => []WithdrawalReachesTheNextUse
<1>1. ServiceSpec => []BarredAreUnpermitted /\ []KnownAreWithdrawn
  BY ProvidersStart, ProvidersStep, ExportsStart, ExportsStep, ServiceStarts, ServiceSteps, PTL DEF ServiceSpec
<1>2. BarredAreUnpermitted /\ KnownAreWithdrawn => WithdrawalReachesTheNextUse
  BY DEF BarredAreUnpermitted, KnownAreWithdrawn, WithdrawalReachesTheNextUse,
      P!WithdrawalReachesTheNextRequest, X!WithdrawalReachesTheNextSend
<1> QED
  BY <1>1, <1>2, PTL

-----------------------------------------------------------------------------
(* The sends.  The lines of a list, in their order, have one place each: a  *)
(* line comes after as many as there are up to it.                          *)
LEMMA ExportsCountAlike == \A set : X!Cardinality(set) = Cardinality(set)
BY DEF X!Cardinality, Cardinality

LEMMA InOrderIsASequence ==
    ASSUME NEW set \in SUBSET Nat, IsFiniteSet(set)
    PROVE  /\ X!InOrder(set) \in Seq(set)
           /\ Len(X!InOrder(set)) = Cardinality(set)
           /\ \A i, j \in DOMAIN X!InOrder(set) : i < j => X!InOrder(set)[i] < X!InOrder(set)[j]
           /\ \A l \in set : \E i \in DOMAIN X!InOrder(set) : X!InOrder(set)[i] = l
<1> DEFINE n == Cardinality(set)
           UpTo(x) == {y \in set : y <= x}
           Place(x) == Cardinality(UpTo(x))
           place == [x \in set |-> Place(x)]
           Sorted(s) == \A i, j \in DOMAIN s : i < j => s[i] < s[j]
           sorted == [k \in 1 .. n |-> CHOOSE x \in set : place[x] = k]
           listed == X!InOrder(set)
<1>1. n \in Nat /\ \A x \in set : x \in Nat
  BY FS_CardinalityType
<1>2. ASSUME NEW x \in set PROVE IsFiniteSet(UpTo(x)) /\ Place(x) \in 1 .. n
  <2>1. UpTo(x) \in SUBSET set /\ x \in UpTo(x)
    BY <1>1
  <2>2. IsFiniteSet(UpTo(x)) /\ Place(x) <= n
    BY <2>1, FS_Subset
  <2>3. Place(x) \in Nat /\ Place(x) # 0
    BY <2>1, <2>2, FS_CardinalityType, FS_EmptySet
  <2> QED
    BY <1>1, <2>2, <2>3
<1>3. ASSUME NEW x \in set, NEW y \in set, x <= y PROVE Place(x) <= Place(y) /\ (Place(x) = Place(y) => x = y)
  <2>1. UpTo(x) \subseteq UpTo(y)
    <3> SUFFICES ASSUME NEW z \in set, z <= x PROVE z <= y
      OBVIOUS
    <3> QED
      BY <1>1, <1>3
  <2>4. y \in UpTo(y)
    BY <1>1
  <2>2. Place(x) <= Place(y) /\ (Place(x) = Place(y) => UpTo(x) = UpTo(y))
    BY <1>2, <2>1, FS_Subset
  <2>3. UpTo(x) = UpTo(y) => y <= x
    BY <2>4
  <2> QED
    BY <1>1, <1>3, <2>2, <2>3
<1>4. /\ place \in [set -> 1 .. n]
      /\ \A x, y \in set : x <= y => place[x] <= place[y] /\ (place[x] = place[y] => x = y)
  BY <1>2, <1>3
<1> HIDE DEF place, n
<1>5. place \in Injection(set, 1 .. n)
  <2>1. \A x, y \in set : place[x] = place[y] => x = y
    BY <1>1, <1>4
  <2> QED
    BY <1>4, <2>1 DEF Injection, IsInjective
<1>6. IsFiniteSet(1 .. n) /\ Cardinality(1 .. n) = n /\ Cardinality(set) = n
  BY <1>1, FS_Interval DEF n
<1>7. place \in Surjection(set, 1 .. n)
  BY <1>5, <1>6, FS_Injection
<1>8. \A k \in 1 .. n : sorted[k] \in set /\ place[sorted[k]] = k
  BY <1>7 DEF Surjection
<1>9. sorted \in [1 .. n -> set] /\ Sorted(sorted)
  <2>1. sorted \in [1 .. n -> set] /\ DOMAIN sorted = 1 .. n
    BY <1>8
  <2> HIDE DEF sorted
  <2>2. ASSUME NEW i \in 1 .. n, NEW j \in 1 .. n, i < j PROVE sorted[i] < sorted[j]
    <3>1. sorted[j] <= sorted[i] => place[sorted[j]] <= place[sorted[i]]
      BY <1>4, <1>8
    <3>2. place[sorted[j]] = j /\ place[sorted[i]] = i /\ sorted[i] \in Nat /\ sorted[j] \in Nat
      BY <1>1, <1>8
    <3> QED
      BY <2>2, <3>1, <3>2
  <2> QED
    BY <2>1, <2>2
<1> HIDE DEF sorted
<1>10. listed \in [1 .. n -> set] /\ Sorted(listed)
  <2>1. listed = CHOOSE s \in [1 .. n -> set] : Sorted(s)
    BY ExportsCountAlike DEF X!InOrder, n
  <2> HIDE DEF Sorted, listed
  <2> QED
    BY <1>9, <2>1
<1> HIDE DEF listed
<1>11. DOMAIN listed = 1 .. n /\ \A i, j \in 1 .. n : i < j => listed[i] < listed[j]
  BY <1>10
<1> HIDE DEF Sorted
<1>12. listed \in Injection(1 .. n, set)
  <2>1. ASSUME NEW i \in 1 .. n, NEW j \in 1 .. n, listed[i] = listed[j] PROVE i = j
    <3>1. listed[i] \in set /\ listed[j] \in set
      BY <1>10
    <3>2. listed[i] \in Nat /\ listed[j] \in Nat
      BY <1>1, <3>1
    <3> QED
      BY <1>11, <2>1, <3>2
  <2> QED
    BY <1>10, <2>1 DEF Injection, IsInjective
<1>13. listed \in Surjection(1 .. n, set)
  BY <1>6, <1>12, FS_Injection
<1>14. listed \in Seq(set) /\ Len(listed) = n
  BY <1>1, <1>10
<1> QED
  BY <1>6, <1>11, <1>13, <1>14 DEF Surjection, listed

(* What a registration or a withdrawal will write: a first row, or columns  *)
(* of the one it has read.                                                  *)
Registers(t, kept) ==
    IF t.row = None THEN t.set \in X!ShoppingExportTarget
    ELSE /\ kept # None
         /\ DOMAIN t.set \subseteq {"token", "by", "revoked"}
         /\ "token" \in DOMAIN t.set => t.set.token \in Persons
         /\ "by" \in DOMAIN t.set => t.set.by \in Persons
         /\ "revoked" \in DOMAIN t.set => t.set.revoked \in BOOLEAN

(* As long as nothing was refused, what is not left has been accepted, line *)
(* by line, and is over there.                                              *)
Posts(t, there) ==
    /\ t.lines \subseteq Lines
    /\ t.left \in Seq(t.lines)
    /\ \A i, j \in DOMAIN t.left : i < j => t.left[i] < t.left[j]
    /\ t.accepted \in Nat /\ t.rejected \in Nat
    /\ t.rejected = 0 =>
         /\ t.accepted + Len(t.left) = Cardinality(t.lines)
         /\ \A l \in t.lines : (\E i \in DOMAIN t.left : t.left[i] = l) \/ there[t.account][l] > 0

Sends(t, kept, there) ==
    /\ ExportRequest(t)
    /\ t.step # "idle" => t.who \in Persons
    /\ t.step \in {"read", "build"} => t.row = None /\ ~t.own /\ t.accepted = 0 /\ t.rejected = 0
    /\ t.step = "write" \/ (t.step = "ready" /\ t.own) => Registers(t, kept)
    /\ t.step \in {"build", "post"} => t.account \in X!Receivers
    /\ t.step = "post" => Posts(t, there)

(* A receipt that was given.                                                *)
Receipted(r, there) ==
    r.outcome = "sent" =>
        /\ r.accepted = Cardinality(r.lines)
        /\ \A l \in r.lines : r.account \in X!Receivers /\ l \in Lines /\ there[r.account][l] > 0

SendsInv ==
    /\ target \in X!ShoppingExportTarget \cup {None}
    /\ pending \subseteq Lines
    /\ outside \in [X!Receivers -> [Lines -> Nat]]
    /\ DOMAIN xtx = Clients /\ DOMAIN xreply = Clients
    /\ \A c \in Clients : Sends(xtx[c], target, outside) /\ Receipted(xreply[c], outside)

(* What is over there stays there, and a destination stays registered.      *)
Onward(kept, there, kept2, there2) ==
    /\ kept # None => kept2 # None
    /\ there2 \in [X!Receivers -> [Lines -> Nat]]
    /\ \A a \in X!Receivers, l \in Lines : there2[a][l] >= there[a][l]

LEMMA SendsGoOn ==
    ASSUME NEW t, NEW kept, NEW there \in [X!Receivers -> [Lines -> Nat]], NEW kept2, NEW there2,
           Onward(kept, there, kept2, there2), Sends(t, kept, there)
    PROVE  Sends(t, kept2, there2)
<1>1. t.step = "write" \/ (t.step = "ready" /\ t.own) => Registers(t, kept2)
  BY DEF Onward, Sends, Registers
<1>2. t.step = "post" => Posts(t, there2)
  <2> SUFFICES ASSUME t.step = "post" PROVE Posts(t, there2)
    OBVIOUS
  <2>1. Posts(t, there) /\ t.account \in X!Receivers
    BY DEF Sends
  <2>2. ASSUME NEW l \in t.lines, there[t.account][l] > 0 PROVE there2[t.account][l] > 0
    <3>1. l \in Lines
      BY <2>1 DEF Posts
    <3>2. there[t.account][l] \in Nat /\ there2[t.account][l] \in Nat /\ there2[t.account][l] >= there[t.account][l]
      BY <2>1, <3>1 DEF Onward
    <3> QED
      BY <2>2, <3>2
  <2> QED
    BY <2>1, <2>2 DEF Posts
<1> QED
  BY <1>1, <1>2 DEF Sends

LEMMA ReceiptsGoOn ==
    ASSUME NEW r, NEW kept, NEW there \in [X!Receivers -> [Lines -> Nat]], NEW kept2, NEW there2,
           Onward(kept, there, kept2, there2), Receipted(r, there)
    PROVE  Receipted(r, there2)
<1> SUFFICES ASSUME r.outcome = "sent", NEW l \in r.lines PROVE there2[r.account][l] > 0
  BY DEF Receipted
<1>1. r.account \in X!Receivers /\ l \in Lines /\ there[r.account][l] > 0
  BY DEF Receipted
<1>2. there[r.account][l] \in Nat /\ there2[r.account][l] \in Nat /\ there2[r.account][l] >= there[r.account][l]
  BY <1>1 DEF Onward
<1> QED
  BY <1>1, <1>2

LEMMA SendsStart == X!Init => SendsInv
<1> SUFFICES ASSUME X!Init PROVE SendsInv
  OBVIOUS
<1>1. outside \in [X!Receivers -> [Lines -> Nat]]
  BY DEF X!Init
<1>2. ASSUME NEW c \in Clients PROVE Sends(xtx[c], target, outside)
  BY DEF X!Init, X!IdleTx, Sends, ExportRequest
<1>3. ASSUME NEW c \in Clients PROVE Receipted(xreply[c], outside)
  <2>1. xreply[c] = [outcome |-> None, account |-> None, lines |-> {}, accepted |-> 0]
    BY DEF X!Init, X!NoReply
  <2> QED
    BY <2>1, FS_EmptySet DEF Receipted
<1> QED
  BY <1>1, <1>2, <1>3 DEF X!Init, SendsInv

(* A step of one request, which may be given its answer.                    *)
LEMMA OneSends ==
    ASSUME SendsInv, NEW c \in Clients, NEW t, NEW r,
           xtx' = [xtx EXCEPT ![c] = t], DOMAIN xreply' = Clients, xreply'[c] = r,
           \A d \in Clients \ {c} : xreply'[d] = xreply[d],
           target' \in X!ShoppingExportTarget \cup {None}, pending' \subseteq Lines,
           Onward(target, outside, target', outside'),
           Sends(t, target', outside'), Receipted(r, outside')
    PROVE  SendsInv'
<1>1. outside' \in [X!Receivers -> [Lines -> Nat]] /\ outside \in [X!Receivers -> [Lines -> Nat]]
  BY DEF Onward, SendsInv
<1>2. DOMAIN xtx' = Clients /\ DOMAIN xreply' = Clients
  BY DEF SendsInv
<1>3. ASSUME NEW d \in Clients PROVE Sends(xtx'[d], target', outside')
  <2>1. CASE d = c
    BY <2>1 DEF SendsInv
  <2>2. CASE d # c
    <3>1. xtx'[d] = xtx[d] /\ Sends(xtx[d], target, outside)
      BY <2>2 DEF SendsInv
    <3> QED
      BY <1>1, <3>1, SendsGoOn
  <2> QED
    BY <2>1, <2>2
<1>4. ASSUME NEW d \in Clients PROVE Receipted(xreply'[d], outside')
  <2>1. CASE d = c
    BY <2>1 DEF SendsInv
  <2>2. CASE d # c
    <3>1. xreply'[d] = xreply[d] /\ Receipted(xreply[d], outside)
      BY <2>2 DEF SendsInv
    <3> QED
      BY <1>1, <3>1, ReceiptsGoOn
  <2> QED
    BY <2>1, <2>2
<1> QED
  BY <1>1, <1>2, <1>3, <1>4 DEF SendsInv

(* The home of the list moves, and no request does.                         *)
LEMMA OthersSend ==
    ASSUME SendsInv, UNCHANGED <<xtx, xreply, outside>>,
           target' \in X!ShoppingExportTarget \cup {None}, target # None => target' # None,
           pending' \subseteq Lines
    PROVE  SendsInv'
<1>1. outside \in [X!Receivers -> [Lines -> Nat]]
  BY DEF SendsInv
<1>2. Onward(target, outside, target', outside')
  BY <1>1 DEF Onward
<1>3. ASSUME NEW d \in Clients PROVE Sends(xtx'[d], target', outside') /\ Receipted(xreply'[d], outside')
  BY <1>1, <1>2, SendsGoOn DEF SendsInv
<1> QED
  BY <1>1, <1>3 DEF SendsInv

LEMMA InPlace == SendsInv => Onward(target, outside, target, outside)
<1> SUFFICES ASSUME SendsInv, NEW a \in X!Receivers, NEW l \in Lines PROVE outside[a][l] >= outside[a][l]
  BY DEF SendsInv, Onward
<1>1. outside[a][l] \in Nat
  BY DEF SendsInv
<1> QED
  BY <1>1

LEMMA IdleSends == \A kept, there : Sends(X!IdleTx, kept, there)
BY DEF X!IdleTx, Sends, ExportRequest

LEMMA GoSends ==
    ASSUME SendsInv, NEW c \in Clients, NEW t, X!Go(c, t), Sends(t, target, outside)
    PROVE  SendsInv'
<1>1. xtx' = [xtx EXCEPT ![c] = t] /\ xreply' = xreply /\ DOMAIN xreply = Clients
  BY DEF X!Go, SendsInv
<1>2. target' = target /\ pending' = pending /\ outside' = outside
  BY DEF X!Go, X!home
<1>3. Receipted(xreply[c], outside)
  BY DEF SendsInv
<1> QED
  BY <1>1, <1>2, <1>3, InPlace, OneSends DEF SendsInv

LEMMA AnswerSends ==
    ASSUME SendsInv, NEW c \in Clients, NEW outcome, X!Answer(c, outcome), outcome # "sent",
           target' \in X!ShoppingExportTarget \cup {None}, pending' \subseteq Lines,
           Onward(target, outside, target', outside')
    PROVE  SendsInv'
<1> DEFINE r == [outcome |-> outcome, account |-> xtx[c].account, lines |-> xtx[c].lines, accepted |-> xtx[c].accepted]
<1>1. /\ xtx' = [xtx EXCEPT ![c] = X!IdleTx] /\ DOMAIN xreply' = Clients
      /\ xreply'[c] = r /\ \A d \in Clients \ {c} : xreply'[d] = xreply[d]
  BY DEF X!Answer, SendsInv
<1>2. Receipted(r, outside')
  BY DEF Receipted
<1> QED
  BY <1>1, <1>2, IdleSends, OneSends

LEMMA RollbackSends ==
    ASSUME SendsInv, NEW c \in Clients, NEW outcome, X!Rollback(c, outcome), outcome # "sent"
    PROVE  SendsInv'
<1>1. target' = target /\ pending' = pending /\ outside' = outside
  BY DEF X!Rollback, X!home
<1> QED
  BY <1>1, InPlace, AnswerSends DEF X!Rollback, SendsInv

LEMMA BeginSends ==
    ASSUME SendsInv, NEW c \in Clients, NEW op, NEW p \in Persons, X!Begin(c, op, p)
    PROVE  SendsInv'
<1> DEFINE t == [X!IdleTx EXCEPT !.op = op, !.who = p, !.step = "read"]
<1>1. Sends(t, target, outside)
  BY DEF X!IdleTx, Sends, ExportRequest
<1>2. /\ xtx' = [xtx EXCEPT ![c] = t] /\ DOMAIN xreply' = Clients
      /\ xreply'[c] = X!NoReply /\ \A d \in Clients \ {c} : xreply'[d] = xreply[d]
  BY DEF X!Begin, SendsInv
<1>3. target' = target /\ pending' = pending /\ outside' = outside
  BY DEF X!Begin, X!home
<1>4. Receipted(X!NoReply, outside)
  BY FS_EmptySet DEF Receipted, X!NoReply
<1> HIDE DEF t
<1> QED
  BY <1>1, <1>2, <1>3, <1>4, InPlace, OneSends DEF SendsInv

LEMMA RegisterSends ==
    ASSUME SendsInv, NEW c \in Clients, X!Register(c) \/ X!Revoke(c) \/ X!Write(c)
    PROVE  SendsInv'
<1> USE ExportsAssumption DEF X!ListExportsAssumption
<1> DEFINE t == xtx[c]
<1>1. Sends(t, target, outside) /\ target \in X!ShoppingExportTarget \cup {None}
  BY DEF SendsInv
<1>2. CASE X!Register(c)
  <2>1. t.step = "read" /\ t.who \in Persons /\ t.row = None /\ ~t.own
    BY <1>1, <1>2 DEF X!Register, Sends
  <2>2. CASE target = None
    <3> DEFINE u == [t EXCEPT !.set = X!Granted(t.who), !.step = "write"]
    <3>1. X!Granted(t.who) \in X!ShoppingExportTarget
      BY <2>1 DEF X!Granted, X!ShoppingExportTarget
    <3>2. Sends(u, target, outside)
      BY <1>1, <2>1, <3>1 DEF Sends, ExportRequest, Registers
    <3>3. X!Go(c, u)
      BY <1>2, <2>2 DEF X!Register
    <3> QED
      BY <3>2, <3>3, GoSends
  <2>3. CASE target # None
    <3> DEFINE set == X!Over(X!Changes(target, X!Granted(t.who)), [token |-> t.who])
               u == [t EXCEPT !.row = target, !.set = set, !.step = "write"]
    <3>1. /\ DOMAIN set \subseteq {"token", "by", "revoked"}
          /\ "token" \in DOMAIN set => set.token \in Persons
          /\ "by" \in DOMAIN set => set.by \in Persons
          /\ "revoked" \in DOMAIN set => set.revoked \in BOOLEAN
      BY <2>1 DEF X!Over, X!Changes, X!Granted
    <3> HIDE DEF set
    <3>2. Sends(u, target, outside)
      BY <1>1, <2>1, <2>3, <3>1 DEF Sends, ExportRequest, Registers
    <3>3. X!Go(c, u)
      BY <1>2, <2>3 DEF X!Register, set
    <3> QED
      BY <3>2, <3>3, GoSends
  <2> QED
    BY <2>2, <2>3
<1>3. CASE X!Revoke(c)
  <2>1. t.step = "read" /\ t.who \in Persons /\ t.row = None /\ ~t.own
    BY <1>1, <1>3 DEF X!Revoke, Sends
  <2>2. CASE target = None
    BY <1>3, <2>2, RollbackSends DEF X!Revoke
  <2>3. CASE target # None /\ target.revoked
    <3>1. Sends([t EXCEPT !.step = "ready"], target, outside)
      BY <1>1, <2>1 DEF Sends, ExportRequest
    <3> QED
      BY <1>3, <2>3, <3>1, GoSends DEF X!Revoke
  <2>4. CASE target # None /\ ~target.revoked
    <3> DEFINE u == [t EXCEPT !.row = target, !.set = [revoked |-> TRUE], !.step = "write"]
    <3>1. Sends(u, target, outside)
      BY <1>1, <2>1, <2>4 DEF Sends, ExportRequest, Registers
    <3>2. X!Go(c, u)
      BY <1>3, <2>4 DEF X!Revoke
    <3> QED
      BY <3>1, <3>2, GoSends
  <2> QED
    BY <2>2, <2>3, <2>4
<1>4. CASE X!Write(c)
  <2> DEFINE u == [t EXCEPT !.own = TRUE, !.step = "ready"]
  <2>1. Sends(u, target, outside)
    BY <1>1, <1>4 DEF X!Write, Sends, ExportRequest, Registers
  <2>2. X!Go(c, u) \/ X!Rollback(c, "conflict")
    BY <1>4 DEF X!Write
  <2> QED
    BY <2>1, <2>2, GoSends, RollbackSends
<1> QED
  BY <1>2, <1>3, <1>4

LEMMA CommitSends ==
    ASSUME SendsInv, NEW c \in Clients, X!Commit(c)
    PROVE  SendsInv'
<1> USE ExportsAssumption DEF X!ListExportsAssumption
<1> DEFINE t == xtx[c]
<1>1. Sends(t, target, outside) /\ target \in X!ShoppingExportTarget \cup {None} /\ t.step = "ready"
  BY DEF SendsInv, X!Commit
<1>2. target' \in X!ShoppingExportTarget \cup {None} /\ (target # None => target' # None)
  <2>1. CASE ~t.own
    BY <1>1, <2>1 DEF X!Commit
  <2>2. CASE t.own /\ t.row = None
    BY <1>1, <2>2 DEF X!Commit, Sends, Registers
  <2>3. CASE t.own /\ t.row # None
    <3>1. target' = X!Over(t.set, target) /\ Registers(t, target)
      BY <1>1, <2>3 DEF X!Commit, Sends
    <3>2. X!Over(t.set, target) \in X!ShoppingExportTarget
      <4>1. target \in X!ShoppingExportTarget /\ DOMAIN t.set \subseteq {"token", "by", "revoked"}
        BY <1>1, <2>3, <3>1 DEF Registers
      <4>2. DOMAIN t.set \cup DOMAIN target = {"token", "by", "revoked"}
        BY <4>1 DEF X!ShoppingExportTarget
      <4>3. X!Over(t.set, target) = [token |-> X!Over(t.set, target).token, by |-> X!Over(t.set, target).by,
                                     revoked |-> X!Over(t.set, target).revoked]
        BY <4>2 DEF X!Over
      <4>4. X!Over(t.set, target).token \in Persons /\ X!Over(t.set, target).by \in Persons \cup {None}
        BY <2>3, <3>1, <4>1, <4>2 DEF X!Over, Registers, X!ShoppingExportTarget
      <4>5. X!Over(t.set, target).revoked \in BOOLEAN
        BY <2>3, <3>1, <4>1, <4>2 DEF X!Over, Registers, X!ShoppingExportTarget
      <4> QED
        BY <4>3, <4>4, <4>5 DEF X!ShoppingExportTarget
    <3> QED
      BY <3>1, <3>2
  <2> QED
    BY <2>1, <2>2, <2>3
<1>3. pending' = pending /\ outside' = outside /\ X!Answer(c, "ok")
  BY DEF X!Commit
<1>4. Onward(target, outside, target', outside')
  BY <1>2, <1>3, InPlace DEF Onward
<1> QED
  BY <1>2, <1>3, <1>4, AnswerSends DEF SendsInv

LEMMA ExporterForSends ==
    ASSUME SendsInv, NEW c \in Clients, X!ExporterFor(c)
    PROVE  SendsInv'
<1> DEFINE t == xtx[c]
           Goes(account) == [t EXCEPT !.account = account, !.step = "build"]
<1>1. Sends(t, target, outside) /\ target \in X!ShoppingExportTarget \cup {None} /\ t.step = "read"
  BY DEF SendsInv, X!ExporterFor
<1>2. ASSUME NEW account \in X!Receivers PROVE Sends(Goes(account), target, outside)
  BY <1>1 DEF Sends, ExportRequest
<1>3. CASE target = None
  <2>1. X!Go(c, Goes(Operator)) \/ X!Rollback(c, "not_configured")
    BY <1>3 DEF X!ExporterFor
  <2>2. Operator \in X!Receivers
    BY DEF X!Receivers
  <2> QED
    BY <1>2, <2>1, <2>2, GoSends, RollbackSends
<1>4. CASE target # None /\ X!Refusal(target) # None
  <2>1. X!Rollback(c, X!Refusal(target))
    BY <1>4 DEF X!ExporterFor
  <2>2. X!Refusal(target) # "sent"
    BY <1>4 DEF X!Refusal
  <2> QED
    BY <2>1, <2>2, RollbackSends
<1>5. CASE target # None /\ X!Refusal(target) = None
  <2>1. X!Go(c, Goes(target.token))
    BY <1>5 DEF X!ExporterFor
  <2>2. target.token \in X!Receivers
    BY <1>1, <1>5 DEF X!ShoppingExportTarget, X!Receivers
  <2> QED
    BY <1>2, <2>1, <2>2, GoSends
<1> QED
  BY <1>3, <1>4, <1>5

LEMMA BuildSends ==
    ASSUME SendsInv, NEW c \in Clients, X!BuildExport(c)
    PROVE  SendsInv'
<1> DEFINE t == xtx[c]
           u == [t EXCEPT !.lines = pending, !.left = X!InOrder(pending), !.step = "post"]
<1>1. Sends(t, target, outside) /\ t.step = "build"
  BY DEF SendsInv, X!BuildExport
<1>2. pending \in SUBSET Nat /\ IsFiniteSet(pending) /\ pending \subseteq Lines
  <2>1. IsFiniteSet(Lines)
    BY ExportsAssumption DEF X!ListExportsAssumption, X!IsFiniteSet, IsFiniteSet
  <2>2. pending \subseteq Lines /\ Lines \subseteq Nat
    BY ExportsAssumption DEF X!ListExportsAssumption, SendsInv
  <2> QED
    BY <2>1, <2>2, FS_Subset
<1>3. Posts(u, outside)
  <2>1. u.lines = pending /\ u.left = X!InOrder(pending) /\ u.accepted = 0 /\ u.rejected = 0
    BY <1>1 DEF Sends, ExportRequest
  <2>2. Cardinality(pending) \in Nat
    BY <1>2, FS_CardinalityType
  <2>3. /\ X!InOrder(pending) \in Seq(pending) /\ Len(X!InOrder(pending)) = Cardinality(pending)
        /\ \A i, j \in DOMAIN X!InOrder(pending) : i < j => X!InOrder(pending)[i] < X!InOrder(pending)[j]
        /\ \A l \in pending : \E i \in DOMAIN X!InOrder(pending) : X!InOrder(pending)[i] = l
    BY <1>2, InOrderIsASequence
  <2> HIDE DEF u
  <2>4. u.accepted + Len(u.left) = Cardinality(u.lines)
    BY <2>1, <2>2, <2>3
  <2>5. \A l \in u.lines : \E i \in DOMAIN u.left : u.left[i] = l
    BY <2>1, <2>3, Zenon
  <2>6. \A i, j \in DOMAIN u.left : i < j => u.left[i] < u.left[j]
    BY <2>1, <2>3, Zenon
  <2>7. u.left \in Seq(u.lines) /\ u.lines \subseteq Lines /\ u.accepted \in Nat /\ u.rejected \in Nat
    BY <1>2, <2>1, <2>3
  <2> QED
    BY <2>4, <2>5, <2>6, <2>7, Zenon DEF Posts
<1>4. Sends(u, target, outside)
  BY <1>1, <1>3 DEF Sends, ExportRequest
<1>5. X!Go(c, u) \/ X!Rollback(c, "list_not_found")
  BY DEF X!BuildExport
<1> HIDE DEF u
<1> QED
  BY <1>4, <1>5, GoSends, RollbackSends

LEMMA ReceiptSends ==
    ASSUME SendsInv, NEW c \in Clients, X!Receipt(c) \/ X!Interrupt(c)
    PROVE  SendsInv'
<1>1. CASE X!Interrupt(c)
  BY <1>1, RollbackSends DEF X!Interrupt
<1>2. CASE X!Receipt(c) /\ xtx[c].rejected > 0
  BY <1>2, RollbackSends DEF X!Receipt
<1>3. CASE X!Receipt(c) /\ ~(xtx[c].rejected > 0)
  <2> DEFINE t == xtx[c]
             r == [outcome |-> "sent", account |-> t.account, lines |-> t.lines, accepted |-> t.accepted]
  <2>1. t.step = "post" /\ t.left = <<>> /\ X!Rollback(c, "sent")
    BY <1>3 DEF X!Receipt
  <2>2. Posts(t, outside) /\ t.account \in X!Receivers
    BY <2>1 DEF SendsInv, Sends
  <2>3. t.rejected = 0
    BY <1>3, <2>2 DEF Posts
  <2>4. Receipted(r, outside)
    <3>1. \A l \in t.lines : l \in Lines /\ outside[t.account][l] > 0
      BY <2>1, <2>2, <2>3 DEF Posts
    <3>2. t.accepted = Cardinality(t.lines)
      BY <2>1, <2>2, <2>3 DEF Posts
    <3> QED
      BY <2>2, <3>1, <3>2 DEF Receipted
  <2>5. target' = target /\ pending' = pending /\ outside' = outside
    BY <2>1 DEF X!Rollback, X!home
  <2>6. /\ xtx' = [xtx EXCEPT ![c] = X!IdleTx] /\ DOMAIN xreply' = Clients
        /\ xreply'[c] = r /\ \A d \in Clients \ {c} : xreply'[d] = xreply[d]
    BY <2>1 DEF X!Rollback, X!Answer, SendsInv
  <2> HIDE DEF t, r
  <2> QED
    BY <2>4, <2>5, <2>6, IdleSends, InPlace, OneSends DEF SendsInv
<1> QED
  BY <1>1, <1>2, <1>3

(* The rest of a sequence in order, after a first part of it.               *)
LEMMA PostSends ==
    ASSUME SendsInv, NEW c \in Clients, X!PostBatch(c)
    PROVE  SendsInv'
<1> DEFINE t == xtx[c]
           size == IF Len(t.left) < BatchSize THEN Len(t.left) ELSE BatchSize
           batch == {t.left[i] : i \in 1 .. size}
<1>1. t.step = "post" /\ t.left # <<>>
  BY DEF X!PostBatch
<1>2. Sends(t, target, outside) /\ Posts(t, outside) /\ t.account \in X!Receivers
  BY <1>1 DEF SendsInv, Sends
<1>3. outside \in [X!Receivers -> [Lines -> Nat]]
  BY DEF SendsInv
<1>4. /\ t.left \in Seq(t.lines) /\ t.lines \subseteq Lines /\ t.accepted \in Nat /\ t.rejected \in Nat
      /\ Len(t.left) \in Nat /\ DOMAIN t.left = 1 .. Len(t.left)
      /\ \A i, j \in DOMAIN t.left : i < j => t.left[i] < t.left[j]
  BY <1>2 DEF Posts
<1>5. size \in 1 .. Len(t.left)
  BY <1>1, <1>4, ExportsAssumption DEF X!ListExportsAssumption
<1> HIDE DEF size
<1>6. \A i \in 1 .. Len(t.left) : t.left[i] \in t.lines /\ t.left[i] \in Nat
  <2>1. Lines \subseteq Nat
    BY ExportsAssumption DEF X!ListExportsAssumption
  <2>2. \A i \in 1 .. Len(t.left) : t.left[i] \in t.lines
    BY <1>4
  <2> QED
    BY <1>4, <2>1, <2>2
<1>7. batch \subseteq t.lines /\ IsFiniteSet(batch) /\ Cardinality(batch) = size
  <2> DEFINE place == [i \in 1 .. size |-> t.left[i]]
  <2>1. place \in Surjection(1 .. size, batch)
    BY DEF Surjection
  <2>2. \A i, j \in 1 .. size : i < j => t.left[i] < t.left[j]
    BY <1>4, <1>5
  <2>3. ASSUME NEW i \in 1 .. size, NEW j \in 1 .. size, t.left[i] = t.left[j] PROVE i = j
    <3>1. i \in 1 .. Len(t.left) /\ j \in 1 .. Len(t.left)
      BY <1>4, <1>5
    <3>2. t.left[i] \in Nat /\ t.left[j] \in Nat
      BY <1>6, <3>1
    <3> QED
      BY <2>2, <2>3, <3>2
  <2>4. place \in Injection(1 .. size, batch)
    BY <2>3 DEF Injection, IsInjective
  <2>5. IsFiniteSet(1 .. size) /\ Cardinality(1 .. size) = size
    BY <1>5, FS_Interval
  <2>6. IsFiniteSet(batch) /\ Cardinality(batch) = size
    BY <2>1, <2>4, <2>5, FS_Surjection
  <2>7. batch \subseteq t.lines
    BY <1>4, <1>5, <1>6
  <2> QED
    BY <2>6, <2>7
<1> HIDE DEF batch
<1>8. PICK created \in SUBSET batch :
        /\ outside' = X!Created(t.account, created)
        /\ UNCHANGED <<X!home, known, xissued>>
        /\ \/ X!Answer(c, "unavailable")
           \/ \E ok \in SUBSET created, errors \in SUBSET (batch \ created) :
                 /\ xtx' = [xtx EXCEPT ![c] = [t EXCEPT
                        !.left = SubSeq(@, size + 1, Len(@)),
                        !.accepted = @ + X!Cardinality(ok),
                        !.rejected = @ + X!RefusedOf(batch, ok, errors)]]
                 /\ UNCHANGED xreply
  BY DEF X!PostBatch, batch, size
<1>9. target' = target /\ pending' = pending
  BY <1>8 DEF X!home
<1>10. /\ outside' \in [X!Receivers -> [Lines -> Nat]]
       /\ \A a \in X!Receivers, l \in Lines :
             outside'[a][l] = outside[a][l] + IF a = t.account /\ l \in created THEN 1 ELSE 0
  <2> DEFINE more == [l \in Lines |-> outside[t.account][l] + IF l \in created THEN 1 ELSE 0]
  <2>1. outside' = [outside EXCEPT ![t.account] = more]
    BY <1>8 DEF X!Created
  <2>2. more \in [Lines -> Nat] /\ \A l \in Lines : more[l] = outside[t.account][l] + IF l \in created THEN 1 ELSE 0
    BY <1>2, <1>3
  <2> HIDE DEF more
  <2>3. outside' \in [X!Receivers -> [Lines -> Nat]]
    BY <1>2, <1>3, <2>1, <2>2
  <2>4. ASSUME NEW a \in X!Receivers, NEW l \in Lines
        PROVE  outside'[a][l] = outside[a][l] + IF a = t.account /\ l \in created THEN 1 ELSE 0
    <3>1. outside[a][l] \in Nat
      BY <1>3
    <3> QED
      BY <1>2, <1>3, <2>1, <2>2, <3>1
  <2> QED
    BY <2>3, <2>4
<1>11. Onward(target, outside, target', outside')
  BY <1>3, <1>9, <1>10 DEF Onward
<1>12. CASE X!Answer(c, "unavailable")
  BY <1>9, <1>11, <1>12, AnswerSends DEF SendsInv
<1>13. ASSUME NEW ok \in SUBSET created, NEW errors \in SUBSET (batch \ created),
              xtx' = [xtx EXCEPT ![c] = [t EXCEPT
                        !.left = SubSeq(@, size + 1, Len(@)),
                        !.accepted = @ + X!Cardinality(ok),
                        !.rejected = @ + X!RefusedOf(batch, ok, errors)]],
              UNCHANGED xreply
       PROVE  SendsInv'
  <2> DEFINE rest == SubSeq(t.left, size + 1, Len(t.left))
             u == [t EXCEPT !.left = rest, !.accepted = t.accepted + Cardinality(ok),
                            !.rejected = t.rejected + (size - Cardinality(ok))]
  <2>1. xtx' = [xtx EXCEPT ![c] = u]
    BY <1>2, <1>7, <1>13, ExportsCountAlike DEF X!RefusedOf, Sends, ExportRequest
  <2>2. /\ IsFiniteSet(ok) /\ Cardinality(ok) \in Nat /\ Cardinality(ok) <= size
        /\ Cardinality(ok) = size => ok = batch
    <3>1. ok \in SUBSET batch
      BY <1>8, <1>13
    <3> QED
      BY <1>7, <3>1, FS_Subset, FS_CardinalityType
  <2>3. /\ rest \in Seq(t.lines) /\ Len(rest) = Len(t.left) - size
        /\ \A i \in 1 .. Len(rest) : rest[i] = t.left[size + i]
    <3> DEFINE m == size + 1
               n == Len(t.left)
               left == t.left
               lines == t.lines
    <3>1. m \in Int /\ n \in Int /\ \A i \in m .. n : left[i] \in lines
      BY <1>4, <1>5, <1>6
    <3> HIDE DEF m, n, left, lines
    <3>2. /\ SubSeq(left, m, n) \in Seq(lines)
          /\ Len(SubSeq(left, m, n)) = IF m <= n THEN n - m + 1 ELSE 0
          /\ \A i \in 1 .. n - m + 1 : SubSeq(left, m, n)[i] = left[m + i - 1]
      BY <3>1, SubSeqProperties
    <3>3. SubSeq(left, m, n) = rest
      BY DEF left, m, n
    <3> HIDE DEF rest
    <3>4. /\ (IF m <= n THEN n - m + 1 ELSE 0) = n - size /\ n - m + 1 = n - size
          /\ \A i \in 1 .. n - size : m + i - 1 = size + i
      BY <1>4, <1>5 DEF m, n
    <3>5. Len(rest) = n - size /\ \A i \in 1 .. n - size : rest[i] = left[size + i]
      BY <3>2, <3>3, <3>4
    <3> QED
      BY <3>2, <3>3, <3>5 DEF n, left, lines
  <2> HIDE DEF rest
  <2>4. \A i, j \in DOMAIN rest : i < j => rest[i] < rest[j]
    <3>1. DOMAIN rest = 1 .. Len(rest)
      BY <2>3
    <3> SUFFICES ASSUME NEW i \in 1 .. Len(rest), NEW j \in 1 .. Len(rest), i < j PROVE rest[i] < rest[j]
      BY <3>1
    <3>2. size + i \in 1 .. Len(t.left) /\ size + j \in 1 .. Len(t.left) /\ size + i < size + j
      BY <1>4, <1>5, <2>3
    <3> QED
      BY <1>4, <2>3, <3>2
  <2>5. /\ u.left = rest /\ u.accepted = t.accepted + Cardinality(ok) /\ u.lines = t.lines
        /\ u.rejected = t.rejected + (size - Cardinality(ok)) /\ u.account = t.account
        /\ u.step = "post" /\ u.who = t.who /\ DOMAIN u = DOMAIN t
    BY <1>1, <1>2 DEF Sends, ExportRequest
  <2> HIDE DEF u
  <2>6. u.accepted \in Nat /\ u.rejected \in Nat /\ size \in Nat
    BY <1>4, <1>5, <2>2, <2>5
  <2>7. ASSUME u.rejected = 0
        PROVE  /\ u.accepted + Len(u.left) = Cardinality(u.lines)
               /\ \A l \in u.lines : (\E i \in DOMAIN u.left : u.left[i] = l) \/ outside'[u.account][l] > 0
    <3>1. t.rejected = 0 /\ Cardinality(ok) = size
      BY <1>4, <2>2, <2>5, <2>6, <2>7
    <3>2. created = batch
      BY <1>8, <1>13, <2>2, <3>1
    <3>3. /\ t.accepted + Len(t.left) = Cardinality(t.lines)
          /\ \A l \in t.lines : (\E i \in DOMAIN t.left : t.left[i] = l) \/ outside[t.account][l] > 0
      BY <1>2, <3>1 DEF Posts
    <3>4. u.accepted + Len(u.left) = Cardinality(u.lines)
      BY <1>4, <2>3, <2>5, <2>6, <3>1, <3>3
    <3>5. ASSUME NEW l \in t.lines, ~(\E i \in DOMAIN rest : rest[i] = l) PROVE outside'[t.account][l] > 0
      <4>1. l \in Lines /\ outside[t.account][l] \in Nat
        BY <1>2, <1>3, <1>4
      <4>2. CASE l \in batch
        BY <1>2, <1>10, <3>2, <4>1, <4>2
      <4>3. CASE outside[t.account][l] > 0
        BY <1>2, <1>10, <4>1, <4>3
      <4>4. ASSUME NEW i \in DOMAIN t.left, t.left[i] = l PROVE l \in batch
        <5>1. CASE i \in 1 .. size
          BY <4>4, <5>1 DEF batch
        <5>2. CASE i > size
          <6>1. i - size \in 1 .. Len(rest) /\ size + (i - size) = i
            BY <1>4, <1>5, <2>3, <4>4, <5>2
          <6>2. rest[i - size] = l /\ DOMAIN rest = 1 .. Len(rest)
            BY <2>3, <4>4, <6>1
          <6> QED
            BY <3>5, <6>1, <6>2
        <5> QED
          BY <1>4, <1>5, <4>4, <5>1, <5>2
      <4> QED
        BY <3>3, <4>2, <4>3, <4>4
    <3> QED
      BY <2>5, <3>4, <3>5
  <2>8. Posts(u, outside')
    BY <1>4, <2>3, <2>4, <2>5, <2>6, <2>7 DEF Posts
  <2>9. Sends(u, target', outside')
    BY <1>1, <1>2, <2>5, <2>8 DEF Sends, ExportRequest
  <2>10. Receipted(xreply[c], outside') /\ DOMAIN xreply = Clients
    BY <1>3, <1>11, ReceiptsGoOn DEF SendsInv
  <2> QED
    BY <1>9, <1>11, <1>13, <2>1, <2>9, <2>10, OneSends DEF SendsInv
<1> QED
  BY <1>8, <1>12, <1>13

LEMMA SendsStep == SendsInv /\ [X!Next]_exports => SendsInv'
<1> SUFFICES ASSUME SendsInv, [X!Next]_exports PROVE SendsInv'
  OBVIOUS
<1> USE ExportsAssumption DEF X!ListExportsAssumption
<1>1. ASSUME NEW l \in Lines, X!Tick(l) PROVE SendsInv'
  <2>1. UNCHANGED <<xtx, xreply, outside, target>> /\ pending' \subseteq Lines
    BY <1>1 DEF X!Tick, X!Elsewhere, SendsInv
  <2> QED
    BY <2>1, OthersSend DEF SendsInv
<1>2. ASSUME NEW p \in Persons, X!Leave(p) \/ X!Rejoin(p) PROVE SendsInv'
  <2>1. UNCHANGED <<xtx, xreply, outside, target, pending>>
    BY <1>2 DEF X!Leave, X!Rejoin, X!Elsewhere
  <2> QED
    BY <2>1, OthersSend DEF SendsInv
<1>3. ASSUME NEW p \in Persons, X!EraseAccount(p) PROVE SendsInv'
  <2>1. UNCHANGED <<xtx, xreply, outside, pending>>
    BY <1>3 DEF X!EraseAccount, X!Elsewhere
  <2>2. target' \in X!ShoppingExportTarget \cup {None} /\ (target # None => target' # None)
    BY <1>3 DEF X!EraseAccount, SendsInv, X!ShoppingExportTarget
  <2> QED
    BY <2>1, <2>2, OthersSend DEF SendsInv
<1>4. CASE UNCHANGED exports
  BY <1>4, OthersSend DEF exports, SendsInv
<1>5. X!Finished => UNCHANGED exports
  BY DEF X!Finished, X!vars, X!home, exports
<1>6. ASSUME X!Archive PROVE SendsInv'
  <2>1. UNCHANGED <<xtx, xreply, outside, target, pending>>
    BY <1>6 DEF X!Archive, X!Elsewhere
  <2> QED
    BY <2>1, OthersSend DEF SendsInv
<1> QED
  BY <1>1, <1>2, <1>3, <1>4, <1>5, <1>6, BeginSends, RegisterSends, CommitSends, ExporterForSends, BuildSends,
     PostSends, ReceiptSends DEF X!Next

LEMMA SendsAreAccepted == SendsInv => X!SentMeansAccepted
<1> SUFFICES ASSUME SendsInv, NEW c \in Clients, xreply[c].outcome = "sent"
             PROVE  /\ xreply[c].accepted = X!Cardinality(xreply[c].lines)
                    /\ \A l \in xreply[c].lines : outside[xreply[c].account][l] > 0
  BY DEF X!SentMeansAccepted
<1>1. Receipted(xreply[c], outside)
  BY DEF SendsInv
<1> QED
  BY <1>1, ExportsCountAlike DEF Receipted

(* shopping_export.py: "An item nobody can account for did not reach        *)
(* anyone's list".  A receipt is given only when every line that was read   *)
(* was accepted and is over there, however the batches fall and whatever    *)
(* the answers leave out.                                                   *)
THEOREM ReceiptsAreHonest == ServiceSpec => []SentMeansAccepted
<1>1. ServiceSpec => []SendsInv
  BY SendsStart, SendsStep, ServiceStarts, ServiceSteps, PTL DEF ServiceSpec
<1>2. SendsInv => SentMeansAccepted
  BY SendsAreAccepted DEF SentMeansAccepted
<1> QED
  BY <1>1, <1>2, PTL

-----------------------------------------------------------------------------
(* The attempts.  Sums of one and of two figures, and what two attempts     *)
(* came to.                                                                 *)
LEMMA SumOfOne ==
    ASSUME NEW F, NEW i, F[i] \in Nat
    PROVE  I!SumFunctionOnSet(F, {i}) = F[i]
<1> DEFINE body(g) == [s \in SUBSET {i} |-> IF s = {} THEN 0 ELSE LET x == CHOOSE x \in s : TRUE IN F[x] + g[s \ {x}]]
           iter == CHOOSE g : g = body(g)
           w == [s \in SUBSET {i} |-> IF s = {} THEN 0 ELSE F[i] + 0]
<1>1. w = body(w)
  OBVIOUS
<1>2. iter = body(iter)
  BY <1>1
<1>3. I!SumFunctionOnSet(F, {i}) = iter[{i}]
  BY DEF I!SumFunctionOnSet, I!FoldFunctionOnSet, I!MapThenFoldSet
<1> HIDE DEF iter
<1>4. iter[{}] = 0
  BY <1>2
<1>5. iter[{i}] = F[i] + iter[{}]
  <2>1. {i} # {} /\ (CHOOSE x \in {i} : TRUE) = i /\ {i} \ {i} = {}
    OBVIOUS
  <2>2. iter[{i}] = F[CHOOSE x \in {i} : TRUE] + iter[{i} \ {CHOOSE x \in {i} : TRUE}]
    BY <1>2, <2>1
  <2> QED
    BY <2>1, <2>2
<1> QED
  BY <1>3, <1>4, <1>5

LEMMA DialsInOrder ==
    ASSUME NEW set \in SUBSET Nat, IsFiniteSet(set), set # {}
    PROVE  I!DialOrder(set) \in Seq(set) /\ I!DialOrder(set) # <<>>
<1>1. I!DialOrder(set) = X!InOrder(set)
  BY DEF I!DialOrder, X!InOrder, I!Cardinality, X!Cardinality, Cardinality
<1>2. X!InOrder(set) \in Seq(set) /\ Len(X!InOrder(set)) = Cardinality(set)
  BY InOrderIsASequence
<1>3. Cardinality(set) # 0
  BY FS_EmptySet
<1>4. X!InOrder(set) # <<>>
  BY <1>2, <1>3
<1> QED
  BY <1>1, <1>2, <1>4

LEMMA SumOfTwo ==
    ASSUME NEW F, NEW i, NEW j, i # j, F[i] \in Nat, F[j] \in Nat
    PROVE  I!SumFunctionOnSet(F, {i, j}) = F[i] + F[j]
<1> DEFINE first(s) == CHOOSE x \in s : TRUE
           body(g) == [s \in SUBSET {i, j} |-> IF s = {} THEN 0 ELSE LET x == CHOOSE x \in s : TRUE IN F[x] + g[s \ {x}]]
           iter == CHOOSE g : g = body(g)
           w == [s \in SUBSET {i, j} |-> IF s = {} THEN 0 ELSE
                    IF s = {i} THEN F[i] ELSE IF s = {j} THEN F[j] ELSE F[i] + F[j]]
<1>0. \A s \in SUBSET {i, j} : s = {} \/ s = {i} \/ s = {j} \/ s = {i, j}
  OBVIOUS
<1>1. w = body(w)
  <2> SUFFICES ASSUME NEW s \in SUBSET {i, j}
               PROVE  w[s] = IF s = {} THEN 0 ELSE F[first(s)] + w[s \ {first(s)}]
    OBVIOUS
  <2>1. CASE s = {}
    BY <2>1
  <2>2. CASE s = {i} \/ s = {j}
    BY <2>2
  <2>3. CASE s = {i, j}
    <3>1. (first(s) = i /\ s \ {first(s)} = {j}) \/ (first(s) = j /\ s \ {first(s)} = {i})
      BY <2>3
    <3>2. w[{i}] = F[i] /\ w[{j}] = F[j] /\ w[s] = F[i] + F[j] /\ s # {}
      BY <2>3
    <3> HIDE DEF w, first
    <3>3. w[s] = F[first(s)] + w[s \ {first(s)}]
      BY <3>1, <3>2
    <3> QED
      BY <3>2, <3>3
  <2> QED
    BY <1>0, <2>1, <2>2, <2>3
<1>2. iter = body(iter)
  BY <1>1
<1>3. I!SumFunctionOnSet(F, {i, j}) = iter[{i, j}]
  BY DEF I!SumFunctionOnSet, I!FoldFunctionOnSet, I!MapThenFoldSet
<1> HIDE DEF iter
<1>4. iter[{}] = 0
  BY <1>2
<1>5. \A s \in SUBSET {i, j} : s # {} => iter[s] = F[first(s)] + iter[s \ {first(s)}]
  BY <1>2
<1>6. iter[{i}] = F[i] /\ iter[{j}] = F[j]
  <2>1. first({i}) = i /\ {i} \ {i} = {} /\ first({j}) = j /\ {j} \ {j} = {}
    OBVIOUS
  <2> HIDE DEF first
  <2>2. iter[{i}] = F[i] + 0 /\ iter[{j}] = F[j] + 0
    BY <1>4, <1>5, <2>1
  <2> QED
    BY <2>2
<1>7. iter[{i, j}] = F[i] + F[j]
  <2>1. (first({i, j}) = i /\ {i, j} \ {i} = {j}) \/ (first({i, j}) = j /\ {i, j} \ {j} = {i})
    OBVIOUS
  <2>2. iter[{i, j}] = F[first({i, j})] + iter[{i, j} \ {first({i, j})}]
    BY <1>5
  <2> HIDE DEF first
  <2>3. CASE first({i, j}) = i /\ {i, j} \ {i} = {j}
    <3>1. iter[{i, j}] = F[i] + iter[{j}]
      BY <2>2, <2>3
    <3> QED
      BY <1>6, <3>1
  <2>4. CASE first({i, j}) = j /\ {i, j} \ {j} = {i}
    <3>1. iter[{i, j}] = F[j] + iter[{i}]
      BY <2>2, <2>4
    <3> QED
      BY <1>6, <3>1
  <2> QED
    BY <2>1, <2>3, <2>4
<1> QED
  BY <1>3, <1>7

LEMMA TotalOfOne ==
    ASSUME NEW bill \in Seq(I!Usages \cup {None}), Len(bill) = 1, bill[1] # None
    PROVE  I!TotalUsage(bill) = bill[1]
<1> DEFINE rest == Tail(bill)
           body(g) == [s \in SUBSET DOMAIN rest |-> IF s = {} THEN Head(bill)
                           ELSE LET x == I!Max(s) IN I!Plus(g[s \ {x}], rest[x])]
           iter == CHOOSE g : g = body(g)
           w == [s \in SUBSET {} |-> Head(bill)]
<1>1. DOMAIN bill = {1} /\ DOMAIN rest = {} /\ Head(bill) = bill[1]
  <2>1. DOMAIN bill = 1 .. 1 /\ Head(bill) = bill[1] /\ bill # <<>>
    OBVIOUS
  <2>2. rest \in Seq(I!Usages \cup {None}) /\ Len(rest) = 0
    BY <2>1, HeadTailProperties
  <2> HIDE DEF rest
  <2>3. DOMAIN rest = 1 .. 0
    BY <2>2
  <2> QED
    BY <2>1, <2>3
<1> HIDE DEF rest
<1>2. w = body(w)
  BY <1>1
<1>3. iter = body(iter)
  BY <1>2
<1>4. I!FoldLeft(I!Plus, Head(bill), rest) = iter[DOMAIN rest]
  BY DEF I!FoldLeft, I!MapThenFoldSet
<1>5. I!TotalUsage(bill) = I!FoldLeft(I!Plus, Head(bill), rest)
  <2>1. ~ \E i \in DOMAIN bill : bill[i] = None
    BY <1>1
  <2> QED
    BY <2>1 DEF I!TotalUsage, rest
<1> HIDE DEF iter
<1>6. iter[{}] = Head(bill)
  BY <1>1, <1>3
<1> QED
  BY <1>1, <1>4, <1>5, <1>6

LEMMA TotalOfTwo ==
    ASSUME NEW bill \in Seq(I!Usages \cup {None}), Len(bill) = 2, bill[1] # None, bill[2] # None
    PROVE  I!TotalUsage(bill) = I!Plus(bill[1], bill[2])
<1> DEFINE rest == Tail(bill)
           body(g) == [s \in SUBSET DOMAIN rest |-> IF s = {} THEN Head(bill)
                           ELSE LET x == I!Max(s) IN I!Plus(g[s \ {x}], rest[x])]
           iter == CHOOSE g : g = body(g)
           w == [s \in SUBSET {1} |-> IF s = {} THEN Head(bill) ELSE I!Plus(Head(bill), rest[1])]
<1>1. DOMAIN bill = {1, 2} /\ DOMAIN rest = {1} /\ Head(bill) = bill[1] /\ rest[1] = bill[2]
  <2>1. DOMAIN bill = 1 .. 2 /\ Head(bill) = bill[1] /\ bill # <<>>
    OBVIOUS
  <2>2. /\ rest \in Seq(I!Usages \cup {None}) /\ Len(rest) = 1
        /\ \A i \in 1 .. Len(rest) : rest[i] = bill[i + 1]
    BY <2>1, HeadTailProperties
  <2> HIDE DEF rest
  <2>3. DOMAIN rest = 1 .. 1 /\ rest[1] = bill[2]
    BY <2>2
  <2> QED
    BY <2>1, <2>3
<1> HIDE DEF rest
<1>2. I!Max({1}) = 1 /\ {1} \ {1} = {} /\ {1} # {}
  <2>1. \E x \in {1} : \A y \in {1} : x >= y
    OBVIOUS
  <2> QED
    BY <2>1 DEF I!Max
<1>3. w = body(w)
  <2> SUFFICES ASSUME NEW s \in SUBSET {1}
               PROVE  w[s] = IF s = {} THEN Head(bill) ELSE I!Plus(w[s \ {I!Max(s)}], rest[I!Max(s)])
    BY <1>1
  <2>1. s = {} \/ s = {1}
    OBVIOUS
  <2> QED
    BY <1>2, <2>1
<1>4. iter = body(iter)
  BY <1>3
<1>5. I!FoldLeft(I!Plus, Head(bill), rest) = iter[DOMAIN rest]
  BY DEF I!FoldLeft, I!MapThenFoldSet
<1>6. I!TotalUsage(bill) = I!FoldLeft(I!Plus, Head(bill), rest)
  <2>1. ~ \E i \in DOMAIN bill : bill[i] = None
    BY <1>1
  <2> QED
    BY <2>1 DEF I!TotalUsage, rest
<1> HIDE DEF iter
<1>7. iter[{}] = Head(bill)
  BY <1>4
<1>8. iter[{1}] = I!Plus(iter[{1} \ {I!Max({1})}], rest[I!Max({1})])
  BY <1>1, <1>2, <1>4
<1> QED
  BY <1>1, <1>2, <1>5, <1>6, <1>7, <1>8

(* The bodies that were answered.                                           *)
Heard(sent) == {i \in DOMAIN sent : sent[i].text # None}

IsSequence(sent) == sent \in Seq({sent[i] : i \in DOMAIN sent})

Body(b) ==
    /\ DOMAIN b = {"attempt", "to", "items", "reported", "text"}
    /\ b.text \in Texts \cup {None} /\ b.reported \in I!Usages \cup {None}

(* One entry of the bill for each body that was answered.                   *)
Billed(bill, sent) ==
    /\ bill \in Seq(I!Usages \cup {None})
    /\ Len(bill) = 0 => Heard(sent) = {}
    /\ Len(bill) = 1 => \E i : Heard(sent) = {i} /\ sent[i].reported = bill[1]
    /\ Len(bill) = 2 => \E i, j : /\ i # j /\ Heard(sent) = {i, j}
                                   /\ sent[i].reported = bill[1] /\ sent[j].reported = bill[2]

Bills(c, sent) ==
    /\ Billed(c.spent, sent)
    /\ Len(c.spent) = c.attempt + IF c.step = "read" THEN 1 ELSE 0
    /\ c.step = "sent" => sent # <<>> /\ sent[Len(sent)].text = None
    /\ c.step = "read" => sent # <<>> /\ c.text \in Texts /\ c.text = sent[Len(sent)].text

(* A call to a household's own model: one body per attempt, each to an      *)
(* address of the first answer of the name, and each but the last unusable. *)
Peers(c, sent) ==
    /\ c.config.provider = "ollama"
    /\ c.pin = c.first /\ c.first \in SUBSET Addresses
    /\ c.step = "dial" => c.targets \in Seq(c.first) /\ c.targets # <<>>
    /\ Len(sent) = c.attempt + IF c.step \in {"sent", "read"} THEN 1 ELSE 0
    /\ \A i \in DOMAIN sent : sent[i].to \in c.first /\ sent[i].attempt = i - 1
    /\ \A i \in 1 .. c.attempt : sent[i].text # None /\ ~I!Reads(c.feature, sent[i].text)

Underway(c, sent) ==
    /\ DOMAIN c = {"step", "feature", "config", "pin", "first", "attempt", "targets", "tries", "spent", "text"}
    /\ c.step \in {"resolve", "dial", "sent", "read"}
    /\ c.attempt \in 0 .. 1
    /\ IsSequence(sent) /\ \A i \in DOMAIN sent : Body(sent[i])
    /\ Bills(c, sent)
    /\ I!Guarded(c.config) => Peers(c, sent)

AskInv ==
    /\ dns \in (SUBSET Addresses) \cup {None}
    /\ call = I!Nowhere \/ (result = None /\ Underway(call, delivered))
    /\ I!BillIsWhole

LEMMA SequencesGrow ==
    ASSUME NEW Narrow, NEW Wide, Narrow \subseteq Wide, NEW s \in Seq(Narrow)
    PROVE  s \in Seq(Wide)
OBVIOUS

LEMMA SequencesHaveLengths ==
    ASSUME NEW sent, IsSequence(sent)
    PROVE  Len(sent) \in Nat /\ DOMAIN sent = 1 .. Len(sent)
BY DEF IsSequence

LEMMA CountedAlike ==
    ASSUME NEW bill, NEW sent, Billed(bill, sent), NEW more, Heard(more) = Heard(sent),
           \A i \in Heard(sent) : more[i].reported = sent[i].reported
    PROVE  Billed(bill, more)
<1>1. CASE Len(bill) = 1
  <2>1. PICK i : Heard(sent) = {i} /\ sent[i].reported = bill[1]
    BY <1>1 DEF Billed
  <2> QED
    BY <1>1, <2>1 DEF Billed
<1>2. CASE Len(bill) = 2
  <2>1. PICK i, j : /\ i # j /\ Heard(sent) = {i, j}
                    /\ sent[i].reported = bill[1] /\ sent[j].reported = bill[2]
    BY <1>2 DEF Billed
  <2>2. more[i].reported = bill[1] /\ more[j].reported = bill[2] /\ Heard(more) = {i, j} /\ i # j
    BY <2>1
  <2>3. bill \in Seq(I!Usages \cup {None})
    BY DEF Billed
  <2> QED
    BY <1>2, <2>2, <2>3 DEF Billed
<1> QED
  BY <1>1, <1>2 DEF Billed

LEMMA CountedOnce ==
    ASSUME NEW bill \in Seq(I!Usages \cup {None}), NEW sent, NEW i,
           Len(bill) = 1, Heard(sent) = {i}, sent[i].reported = bill[1]
    PROVE  Billed(bill, sent)
<1> DEFINE n == Len(bill)
<1>1. n = 1
  OBVIOUS
<1> HIDE DEF n
<1>2. n # 0 /\ n # 2
  BY <1>1
<1>3. Len(bill) # 0 /\ Len(bill) # 2
  BY <1>2 DEF n
<1> QED
  BY <1>3 DEF Billed

LEMMA CountedTwice ==
    ASSUME NEW bill \in Seq(I!Usages \cup {None}), NEW sent, NEW i, NEW j, Len(bill) = 2, i # j,
           Heard(sent) = {i, j}, sent[i].reported = bill[1], sent[j].reported = bill[2]
    PROVE  Billed(bill, sent)
<1> DEFINE n == Len(bill)
<1>1. n = 2
  OBVIOUS
<1> HIDE DEF n
<1>2. n # 0 /\ n # 1
  BY <1>1
<1>3. Len(bill) # 0 /\ Len(bill) # 1
  BY <1>2 DEF n
<1> QED
  BY <1>3 DEF Billed

LEMMA AppendIsASequence ==
    ASSUME NEW sent, IsSequence(sent), NEW b
    PROVE  /\ IsSequence(Append(sent, b)) /\ Len(Append(sent, b)) = Len(sent) + 1
           /\ \A i \in DOMAIN sent : Append(sent, b)[i] = sent[i]
           /\ Append(sent, b)[Len(sent) + 1] = b
           /\ DOMAIN Append(sent, b) = DOMAIN sent \cup {Len(sent) + 1}
<1> DEFINE Wide == {sent[i] : i \in DOMAIN sent} \cup {b}
           longer == Append(sent, b)
<1>1. Len(sent) \in Nat /\ DOMAIN sent = 1 .. Len(sent)
  BY SequencesHaveLengths
<1>2. sent \in Seq(Wide)
  BY <1>1 DEF IsSequence
<1> HIDE DEF Wide
<1>3. b \in Wide
  BY DEF Wide
<1>4. /\ longer \in Seq(Wide) /\ Len(longer) = Len(sent) + 1
      /\ \A i \in 1 .. Len(sent) : longer[i] = sent[i]
      /\ longer[Len(sent) + 1] = b
  BY <1>2, <1>3, AppendProperties
<1> HIDE DEF longer
<1>5. DOMAIN longer = 1 .. Len(sent) + 1
  BY <1>4
<1>6. longer \in [1 .. Len(longer) -> {longer[i] : i \in DOMAIN longer}]
  BY <1>4
<1>7. IsSequence(longer)
  BY <1>1, <1>4, <1>6 DEF IsSequence
<1> QED
  BY <1>1, <1>4, <1>5, <1>7 DEF longer

LEMMA ReplaceIsASequence ==
    ASSUME NEW sent, IsSequence(sent), NEW k \in DOMAIN sent, NEW b
    PROVE  /\ IsSequence([sent EXCEPT ![k] = b]) /\ Len([sent EXCEPT ![k] = b]) = Len(sent)
           /\ DOMAIN [sent EXCEPT ![k] = b] = DOMAIN sent
<1> DEFINE new == [sent EXCEPT ![k] = b]
<1>1. Len(sent) \in Nat /\ DOMAIN sent = 1 .. Len(sent)
  BY SequencesHaveLengths
<1>2. DOMAIN new = 1 .. Len(sent) /\ new = [i \in 1 .. Len(sent) |-> new[i]]
  BY <1>1
<1> HIDE DEF new
<1>3. new \in [1 .. Len(sent) -> {new[i] : i \in DOMAIN new}]
  BY <1>2
<1>4. IsSequence(new) /\ Len(new) = Len(sent)
  BY <1>1, <1>2, <1>3 DEF IsSequence
<1> QED
  BY <1>1, <1>2, <1>4 DEF new

(* What is shown is the sum of what each answer said.                       *)
LEMMA BillOfTheAnswers ==
    ASSUME NEW c, NEW sent, Underway(c, sent), c.step = "read", I!TotalUsage(c.spent) # None,
           NEW f \in DOMAIN I!TotalUsage(c.spent), I!TotalUsage(c.spent)[f] # None
    PROVE  /\ \A i \in Heard(sent) : sent[i].reported # None /\ sent[i].reported[f] # None
           /\ I!TotalUsage(c.spent)[f] = I!SumFunction([i \in Heard(sent) |-> sent[i].reported[f]])
<1> DEFINE bill == c.spent
           F == [i \in Heard(sent) |-> sent[i].reported[f]]
<1>1. /\ bill \in Seq(I!Usages \cup {None}) /\ Len(bill) \in {1, 2}
      /\ Len(bill) = 1 => \E i : Heard(sent) = {i} /\ sent[i].reported = bill[1]
      /\ Len(bill) = 2 => \E i, j : /\ i # j /\ Heard(sent) = {i, j}
                                     /\ sent[i].reported = bill[1] /\ sent[j].reported = bill[2]
  <2>1. Bills(c, sent) /\ c.attempt \in 0 .. 1
    BY DEF Underway
  <2>2. Len(bill) = c.attempt + 1
    BY <2>1 DEF Bills
  <2>3. Len(bill) \in {1, 2}
    BY <2>1, <2>2
  <2> QED
    BY <2>1, <2>3 DEF Bills, Billed
<1>2. \A k \in DOMAIN bill : bill[k] # None /\ bill[k] \in I!Usages
  <2>1. \A k \in DOMAIN bill : bill[k] # None
    BY DEF I!TotalUsage
  <2>2. \A k \in DOMAIN bill : bill[k] \in I!Usages \cup {None}
    BY <1>1
  <2> QED
    BY <2>1, <2>2
<1>3. I!SumFunction(F) = I!SumFunctionOnSet(F, Heard(sent))
  BY DEF I!SumFunction
<1>4. \A u \in I!Usages : \A g \in {"input", "cached", "output"} : u[g] \in Nat \cup {None}
  BY DEF I!Usages
<1>5. \A u \in I!Usages : DOMAIN u = {"input", "cached", "output"}
  BY DEF I!Usages
<1> HIDE DEF bill
<1>6. CASE Len(bill) = 1
  <2>1. PICK i : Heard(sent) = {i} /\ sent[i].reported = bill[1]
    BY <1>1, <1>6
  <2>2. bill[1] \in I!Usages /\ bill[1] # None
    BY <1>1, <1>2, <1>6
  <2>3. I!TotalUsage(bill) = bill[1]
    BY <1>1, <1>6, <2>2, TotalOfOne
  <2>4. F[i] = bill[1][f] /\ bill[1][f] \in Nat /\ bill[1][f] # None
    <3>1. f \in {"input", "cached", "output"} /\ bill[1][f] # None
      BY <1>5, <2>2, <2>3 DEF bill
    <3> QED
      BY <1>4, <2>1, <2>2, <3>1
  <2> HIDE DEF F
  <2>5. I!SumFunctionOnSet(F, {i}) = F[i]
    BY <2>4, SumOfOne
  <2> QED
    BY <1>3, <2>1, <2>2, <2>3, <2>4, <2>5 DEF F, bill
<1>7. CASE Len(bill) = 2
  <2>1. PICK i, j : /\ i # j /\ Heard(sent) = {i, j}
                    /\ sent[i].reported = bill[1] /\ sent[j].reported = bill[2]
    BY <1>1, <1>7
  <2>2. bill[1] \in I!Usages /\ bill[1] # None /\ bill[2] \in I!Usages /\ bill[2] # None
    BY <1>1, <1>2, <1>7
  <2>3. I!TotalUsage(bill) = I!Plus(bill[1], bill[2])
    BY <1>1, <1>7, <2>2, TotalOfTwo
  <2>4. f \in {"input", "cached", "output"} /\ I!TotalUsage(bill)[f] = I!Sum(bill[1][f], bill[2][f])
    BY <1>5, <2>2, <2>3 DEF I!Plus, bill
  <2>5. /\ bill[1][f] # None /\ bill[2][f] # None
        /\ I!TotalUsage(bill)[f] = bill[1][f] + bill[2][f]
    BY <2>4 DEF I!Sum, bill
  <2>6. F[i] = bill[1][f] /\ bill[1][f] \in Nat /\ F[j] = bill[2][f] /\ bill[2][f] \in Nat
    BY <1>4, <2>1, <2>2, <2>4, <2>5
  <2> HIDE DEF F
  <2>7. I!SumFunctionOnSet(F, {i, j}) = F[i] + F[j]
    BY <2>1, <2>6, SumOfTwo
  <2> QED
    BY <1>3, <2>1, <2>2, <2>5, <2>6, <2>7 DEF F, bill
<1> QED
  BY <1>1, <1>6, <1>7

LEMMA AskStarts == I!Init => AskInv
BY DEF I!Init, AskInv, I!BillIsWhole

(* A call that goes on, one that ends in an error.                          *)
LEMMA GoesOn ==
    ASSUME dns' \in (SUBSET Addresses) \cup {None}, result' = None, Underway(call', delivered')
    PROVE  AskInv'
BY DEF AskInv, I!BillIsWhole

LEMMA RaiseEnds ==
    ASSUME NEW error, I!Raise(error), dns' \in (SUBSET Addresses) \cup {None}
    PROVE  AskInv'
<1>1. call' = I!Nowhere /\ result' = [error |-> error]
  BY DEF I!Raise
<1>2. "usage" \notin DOMAIN result'
  BY <1>1
<1> QED
  BY <1>1, <1>2 DEF AskInv, I!BillIsWhole, I!Nowhere

LEMMA BuildAsks ==
    ASSUME AskInv, NEW config \in ModelConfigs, NEW feature, I!Build(config, feature)
    PROVE  AskInv'
<1> DEFINE c == [I!Nowhere EXCEPT !.step = "resolve", !.feature = feature, !.config = config,
                     !.pin = IF I!Guarded(config) THEN dns ELSE None, !.first = dns]
<1>1. dns' = dns /\ delivered' = <<>> /\ dns \in (SUBSET Addresses) \cup {None}
  BY DEF I!Build, AskInv
<1>2. CASE call' = I!Nowhere /\ \E error : result' = [error |-> error]
  <2>1. "usage" \notin DOMAIN result'
    BY <1>2
  <2> QED
    BY <1>1, <1>2, <2>1 DEF AskInv, I!BillIsWhole, I!Nowhere
<1>3. CASE I!BuildTransport(config) \in {"pinned", "built"} /\ call' = c /\ result' = None
  <2>1. /\ DOMAIN c = {"step", "feature", "config", "pin", "first", "attempt", "targets", "tries", "spent", "text"}
        /\ c.step = "resolve" /\ c.attempt = 0 /\ c.spent = <<>> /\ c.config = config /\ c.first = dns
        /\ c.pin = IF I!Guarded(config) THEN dns ELSE None
    BY DEF I!Nowhere
  <2> HIDE DEF c
  <2>2. IsSequence(<<>>) /\ Heard(<<>>) = {} /\ <<>> \in Seq(I!Usages \cup {None})
        /\ Len(<<>>) = 0 /\ DOMAIN <<>> = {} /\ 1 .. 0 = {}
    BY DEF IsSequence, Heard
  <2>3. Bills(c, <<>>)
    <3>1. Billed(<<>>, <<>>)
      BY <2>2 DEF Billed
    <3> QED
      BY <2>1, <2>2, <3>1 DEF Bills
  <2>4. I!Guarded(c.config) => Peers(c, <<>>)
    <3> SUFFICES ASSUME I!Guarded(config) PROVE Peers(c, <<>>)
      BY <2>1
    <3>1. config.provider = "ollama" /\ dns # None
      BY <1>3 DEF I!BuildTransport, I!BuildOllama, I!Guarded, I!ResolvePin
    <3>2. c.config.provider = "ollama" /\ c.pin = c.first /\ c.first \in SUBSET Addresses
      <4>1. c.pin = dns /\ c.first = dns /\ c.config = config
        BY <2>1
      <4> QED
        BY <1>1, <3>1, <4>1
    <3> QED
      BY <2>1, <2>2, <3>2 DEF Peers
  <2> QED
    BY <1>1, <1>3, <2>1, <2>2, <2>3, <2>4, GoesOn DEF Underway
<1> QED
  BY <1>2, <1>3 DEF I!Build

LEMMA ResolveAsks ==
    ASSUME AskInv, I!AssertStableResolution
    PROVE  AskInv'
<1> DEFINE c == [call EXCEPT !.step = "dial", !.targets = I!DialTargets, !.tries = 0]
<1>1. call.step = "resolve" /\ dns' = dns /\ dns \in (SUBSET Addresses) \cup {None}
  BY DEF I!AssertStableResolution, AskInv
<1>2. result = None /\ Underway(call, delivered)
  BY <1>1 DEF AskInv, I!Nowhere
<1>3. CASE \E error : I!Raise(error)
  BY <1>1, <1>3, RaiseEnds
<1>4. CASE /\ ~I!Guarded(call.config) \/ (dns # None /\ I!StableResolution)
           /\ call' = c /\ UNCHANGED <<delivered, result>>
  <2>1. /\ DOMAIN c = DOMAIN call /\ c.step = "dial" /\ c.attempt = call.attempt /\ c.spent = call.spent
        /\ c.config = call.config /\ c.first = call.first /\ c.pin = call.pin /\ c.feature = call.feature
        /\ c.targets = I!DialTargets
    BY <1>2 DEF Underway
  <2> HIDE DEF c
  <2>2. Bills(c, delivered)
    BY <1>1, <1>2, <2>1 DEF Underway, Bills
  <2>3. I!Guarded(c.config) => Peers(c, delivered)
    <3> SUFFICES ASSUME I!Guarded(call.config) PROVE Peers(c, delivered)
      BY <2>1
    <3>1. Peers(call, delivered)
      BY <1>2 DEF Underway
    <3>2. dns \in SUBSET call.first /\ dns # {} /\ IsFiniteSet(dns) /\ dns \in SUBSET Nat
      <4>1. dns \in SUBSET Addresses /\ dns # {} /\ dns \subseteq call.first
        BY <1>1, <1>4, <3>1 DEF I!StableResolution, Peers
      <4>2. Addresses \subseteq Nat
        BY AskingAssumption DEF I!InferenceAssumption
      <4>3. IsFiniteSet(Addresses)
        BY AskingAssumption DEF I!InferenceAssumption, I!IsFiniteSet, IsFiniteSet
      <4> QED
        BY <4>1, <4>2, <4>3, FS_Subset
    <3>3. c.targets = I!DialOrder(dns)
      BY <2>1 DEF I!DialTargets
    <3>4. I!DialOrder(dns) \in Seq(dns) /\ I!DialOrder(dns) # <<>>
      BY <3>2, DialsInOrder
    <3>5. c.targets \in Seq(call.first) /\ c.targets # <<>>
      BY <3>2, <3>3, <3>4, SequencesGrow
    <3> QED
      BY <1>1, <2>1, <3>1, <3>5 DEF Peers
  <2> QED
    BY <1>1, <1>2, <1>4, <2>1, <2>2, <2>3, GoesOn DEF Underway
<1> QED
  BY <1>3, <1>4 DEF I!AssertStableResolution

LEMMA ConnectAsks ==
    ASSUME AskInv, I!Connect
    PROVE  AskInv'
<1> DEFINE c == [call EXCEPT !.step = "sent"]
           b == [attempt |-> call.attempt, to |-> Head(call.targets), items |-> I!Prompted,
                 reported |-> None, text |-> None]
           sent == Append(delivered, b)
<1>1. call.step = "dial" /\ dns' = dns /\ dns \in (SUBSET Addresses) \cup {None}
      /\ call' = c /\ delivered' = sent /\ result' = result
  BY DEF I!Connect, AskInv
<1>2. result = None /\ Underway(call, delivered)
  BY <1>1 DEF AskInv, I!Nowhere
<1>3. /\ DOMAIN c = DOMAIN call /\ c.step = "sent" /\ c.attempt = call.attempt /\ c.spent = call.spent
      /\ c.config = call.config /\ c.first = call.first /\ c.pin = call.pin /\ c.feature = call.feature
  BY <1>2 DEF Underway
<1>4. Body(b) /\ b.text = None /\ b.attempt = call.attempt /\ b.to = Head(call.targets)
  BY DEF Body
<1> HIDE DEF c, b
<1>5. IsSequence(delivered) /\ Len(delivered) \in Nat /\ DOMAIN delivered = 1 .. Len(delivered)
  BY <1>2, SequencesHaveLengths DEF Underway
<1>6. /\ IsSequence(sent) /\ Len(sent) = Len(delivered) + 1
      /\ \A i \in DOMAIN delivered : sent[i] = delivered[i]
      /\ sent[Len(delivered) + 1] = b
      /\ DOMAIN sent = DOMAIN delivered \cup {Len(delivered) + 1}
  BY <1>5, AppendIsASequence
<1> HIDE DEF sent
<1>7. Heard(sent) = Heard(delivered)
  BY <1>4, <1>6 DEF Heard
<1>8. \A i \in DOMAIN sent : Body(sent[i])
  BY <1>2, <1>4, <1>6 DEF Underway
<1>9. Bills(c, sent)
  <2>1. Bills(call, delivered) /\ Heard(delivered) \subseteq DOMAIN delivered
    BY <1>2 DEF Underway, Heard
  <2>2. sent # <<>> /\ sent[Len(sent)].text = None
    BY <1>4, <1>5, <1>6
  <2>3. \A i \in Heard(delivered) : sent[i] = delivered[i]
    BY <1>6, <2>1
  <2>4. Billed(c.spent, sent)
    BY <1>3, <1>7, <2>1, <2>3, CountedAlike DEF Bills
  <2> QED
    BY <1>1, <1>3, <2>1, <2>2, <2>4 DEF Bills
<1>10. I!Guarded(c.config) => Peers(c, sent)
  <2> SUFFICES ASSUME I!Guarded(call.config) PROVE Peers(c, sent)
    BY <1>3
  <2>1. Peers(call, delivered) /\ call.attempt \in Nat
    BY <1>2 DEF Underway
  <2>2. Len(delivered) = call.attempt /\ Head(call.targets) \in call.first
    BY <1>1, <2>1 DEF Peers
  <2>3. \A i \in DOMAIN sent : sent[i].to \in c.first /\ sent[i].attempt = i - 1
    BY <1>3, <1>4, <1>5, <1>6, <2>1, <2>2 DEF Peers
  <2>4. \A i \in 1 .. c.attempt : sent[i].text # None /\ ~I!Reads(c.feature, sent[i].text)
    BY <1>3, <1>5, <1>6, <2>1, <2>2 DEF Peers
  <2> QED
    BY <1>3, <1>6, <2>1, <2>2, <2>3, <2>4 DEF Peers
<1> QED
  BY <1>1, <1>2, <1>3, <1>6, <1>8, <1>9, <1>10, GoesOn DEF Underway

LEMMA SendAgainAsks ==
    ASSUME AskInv, I!SdkRetries, I!SendAgain, dns' = dns, call.step \in {"dial", "sent"}
    PROVE  AskInv'
<1> DEFINE c == [call EXCEPT !.step = "dial", !.tries = call.tries + 1]
<1>1. call' = c /\ delivered' = delivered /\ result' = result /\ dns \in (SUBSET Addresses) \cup {None}
  BY DEF I!SendAgain, AskInv
<1>2. result = None /\ Underway(call, delivered)
  BY DEF AskInv, I!Nowhere
<1>3. /\ DOMAIN c = DOMAIN call /\ c.step = "dial" /\ c.attempt = call.attempt /\ c.spent = call.spent
      /\ c.config = call.config
  BY <1>2 DEF Underway
<1> HIDE DEF c
<1>4. ~I!Guarded(c.config)
  BY <1>2, <1>3 DEF I!SdkRetries, Underway, Peers
<1>5. Bills(c, delivered)
  BY <1>2, <1>3 DEF Underway, Bills
<1> QED
  BY <1>1, <1>2, <1>3, <1>4, <1>5, GoesOn DEF Underway

LEMMA FailsAsks ==
    ASSUME AskInv, I!ConnectFails \/ I!TransportFails \/ I!Unusable \/ (\E status \in I!Statuses : I!Refused(status))
    PROVE  AskInv'
<1>1. dns' = dns /\ dns \in (SUBSET Addresses) \cup {None} /\ call.step \in {"dial", "sent"}
  BY DEF I!ConnectFails, I!TransportFails, I!Unusable, I!Refused, AskInv
<1>2. CASE \E error : I!Raise(error)
  BY <1>1, <1>2, RaiseEnds
<1>3. CASE I!SdkRetries /\ I!SendAgain
  BY <1>1, <1>3, SendAgainAsks
<1>4. CASE /\ call.step = "dial" /\ Len(call.targets) > 1
           /\ call' = [call EXCEPT !.targets = Tail(call.targets)] /\ UNCHANGED <<delivered, result>>
  <2> DEFINE c == [call EXCEPT !.targets = Tail(call.targets)]
  <2>1. result = None /\ Underway(call, delivered)
    BY <1>1 DEF AskInv, I!Nowhere
  <2>2. /\ DOMAIN c = DOMAIN call /\ c.step = "dial" /\ c.attempt = call.attempt /\ c.spent = call.spent
        /\ c.config = call.config /\ c.first = call.first /\ c.pin = call.pin /\ c.feature = call.feature
        /\ c.targets = Tail(call.targets) /\ call' = c /\ Len(call.targets) > 1
    BY <1>4, <2>1 DEF Underway
  <2> HIDE DEF c
  <2>3. Bills(c, delivered)
    BY <1>4, <2>1, <2>2 DEF Underway, Bills
  <2>4. I!Guarded(c.config) => Peers(c, delivered)
    <3> SUFFICES ASSUME I!Guarded(call.config) PROVE Peers(c, delivered)
      BY <2>2
    <3>1. Peers(call, delivered) /\ call.targets \in Seq(call.first) /\ call.targets # <<>>
      BY <1>4, <2>1 DEF Underway, Peers
    <3>2. Tail(call.targets) \in Seq(call.first) /\ Len(Tail(call.targets)) = Len(call.targets) - 1
      BY <3>1, HeadTailProperties
    <3>3. Tail(call.targets) # <<>>
      <4> DEFINE m == Len(call.targets)
                 n == Len(Tail(call.targets))
      <4>1. m \in Nat /\ m > 1 /\ n = m - 1
        BY <2>2, <3>1, <3>2
      <4> HIDE DEF m, n
      <4>4. n # 0
        BY <4>1
      <4>3. Len(Tail(call.targets)) # 0
        BY <4>4 DEF n
      <4>2. Len(<<>>) = 0
        OBVIOUS
      <4> QED
        BY <4>2, <4>3
    <3> QED
      BY <1>4, <2>2, <3>1, <3>2, <3>3 DEF Peers
  <2> QED
    BY <1>1, <1>4, <2>1, <2>2, <2>3, <2>4, GoesOn DEF Underway
<1> QED
  BY <1>2, <1>3, <1>4 DEF I!ConnectFails, I!TransportFails, I!Unusable, I!Refused, I!Dropped

LEMMA UsageIsTyped ==
    ASSUME NEW provider, NEW report \in Reports
    PROVE  I!UsageOf(provider, report) \in I!Usages \cup {None}
<1>1. report \in I!Counters
  BY AskingAssumption DEF I!InferenceAssumption
<1>2. /\ report.prompt \in Nat \cup {None} /\ report.written \in Nat \cup {None}
      /\ report.cached \in Nat \cup {None} /\ report.output \in Nat \cup {None}
  BY <1>1 DEF I!Counters
<1>3. 0 \in Nat \cup {None} /\ I!SubtractCached(report.prompt, report.cached) \in Nat \cup {None}
  BY <1>2 DEF I!SubtractCached
<1>4. report.written # None =>
        (IF report.prompt = None THEN 0 ELSE report.prompt) + (IF report.written = None THEN 0 ELSE report.written) \in Nat
  BY <1>2
<1> QED
  BY <1>2, <1>3, <1>4 DEF I!UsageOf, I!Usages

LEMMA AnsweredAsks ==
    ASSUME AskInv, NEW text \in Texts, NEW report \in Reports, I!Answered(text, report)
    PROVE  AskInv'
<1> DEFINE last == Len(delivered)
           usage == I!UsageOf(call.config.provider, report)
           b == [delivered[last] EXCEPT !.reported = usage, !.text = text]
           sent == [delivered EXCEPT ![last] = b]
           c == [call EXCEPT !.step = "read", !.text = text, !.spent = Append(call.spent, usage)]
<1>1. /\ call.step = "sent" /\ dns' = dns /\ result' = result /\ dns \in (SUBSET Addresses) \cup {None}
      /\ call' = c /\ delivered' = [delivered EXCEPT ![last].reported = usage, ![last].text = text]
  BY DEF I!Answered, AskInv
<1>2. result = None /\ Underway(call, delivered) /\ Bills(call, delivered)
  BY <1>1 DEF AskInv, I!Nowhere, Underway
<1>3. usage \in I!Usages \cup {None}
  BY UsageIsTyped
<1> HIDE DEF usage
<1>4. /\ DOMAIN c = DOMAIN call /\ c.step = "read" /\ c.attempt = call.attempt
      /\ c.spent = Append(call.spent, usage) /\ c.text = text
      /\ c.config = call.config /\ c.first = call.first /\ c.pin = call.pin /\ c.feature = call.feature
  BY <1>2 DEF Underway
<1> HIDE DEF c
<1>5. IsSequence(delivered) /\ last \in Nat /\ DOMAIN delivered = 1 .. last
  BY <1>2, SequencesHaveLengths DEF Underway
<1>6. delivered # <<>> /\ delivered[last].text = None
  BY <1>1, <1>2 DEF Bills
<1>7. last \in DOMAIN delivered
  <2>1. last # 0
    BY <1>5, <1>6 DEF IsSequence
  <2> QED
    BY <1>5, <2>1
<1>8. Body(delivered[last]) /\ \A i \in DOMAIN delivered : Body(delivered[i])
  BY <1>2, <1>7 DEF Underway
<1>9. delivered' = sent
  BY <1>1
<1>10. /\ Body(b) /\ b.text = text /\ b.reported = usage
       /\ b.to = delivered[last].to /\ b.attempt = delivered[last].attempt
  BY <1>3, <1>8 DEF Body
<1> HIDE DEF b
<1>11. IsSequence(sent) /\ Len(sent) = last /\ DOMAIN sent = DOMAIN delivered
  BY <1>5, <1>7, ReplaceIsASequence
<1>12. sent[last] = b /\ \A i \in DOMAIN delivered : i # last => sent[i] = delivered[i]
  BY <1>7
<1> HIDE DEF sent
<1>13. text # None
  BY AskingAssumption DEF I!InferenceAssumption
<1>14. Heard(sent) = Heard(delivered) \cup {last} /\ last \notin Heard(delivered)
  BY <1>6, <1>7, <1>10, <1>11, <1>12, <1>13 DEF Heard
<1>15. \A i \in Heard(delivered) : i # last /\ sent[i] = delivered[i]
  BY <1>12, <1>14 DEF Heard
<1>16. \A i \in DOMAIN sent : Body(sent[i])
  BY <1>8, <1>10, <1>11, <1>12
<1>17. /\ call.spent \in Seq(I!Usages \cup {None}) /\ Len(call.spent) = call.attempt /\ call.attempt \in 0 .. 1
  BY <1>1, <1>2 DEF Bills, Billed, Underway
<1>18. /\ c.spent \in Seq(I!Usages \cup {None}) /\ Len(c.spent) = call.attempt + 1
       /\ c.spent[Len(call.spent) + 1] = usage /\ \A i \in 1 .. Len(call.spent) : c.spent[i] = call.spent[i]
  BY <1>3, <1>4, <1>17, AppendProperties
<1>19. Billed(c.spent, sent)
  <2>1. CASE call.attempt = 0
    <3>1. Heard(delivered) = {} /\ Len(c.spent) = 1 /\ c.spent[1] = usage
      BY <1>2, <1>17, <1>18, <2>1 DEF Bills, Billed
    <3>2. Heard(sent) = {last} /\ sent[last].reported = c.spent[1]
      BY <1>10, <1>12, <1>14, <3>1
    <3> QED
      BY <1>18, <3>1, <3>2, CountedOnce
  <2>2. CASE call.attempt = 1
    <3>1. Len(call.spent) = 1 /\ Len(c.spent) = 2 /\ c.spent[2] = usage /\ c.spent[1] = call.spent[1]
      BY <1>17, <1>18, <2>2
    <3>2. PICK i : Heard(delivered) = {i} /\ delivered[i].reported = call.spent[1]
      BY <1>2, <3>1 DEF Bills, Billed
    <3>3. i # last /\ Heard(sent) = {i, last} /\ sent[i].reported = c.spent[1] /\ sent[last].reported = c.spent[2]
      BY <1>10, <1>12, <1>14, <1>15, <3>1, <3>2
    <3> DEFINE owed == c.spent
    <3>4. /\ owed \in Seq(I!Usages \cup {None}) /\ Len(owed) = 2 /\ i # last /\ Heard(sent) = {i, last}
          /\ sent[i].reported = owed[1] /\ sent[last].reported = owed[2]
      BY <1>18, <3>1, <3>3
    <3> HIDE DEF owed, last
    <3>5. Billed(owed, sent)
      BY <3>4, CountedTwice
    <3> QED
      BY <3>5 DEF owed
  <2> QED
    BY <1>17, <2>1, <2>2
<1>20. Bills(c, sent)
  <2>1. sent # <<>> /\ c.text = sent[Len(sent)].text
    BY <1>4, <1>7, <1>10, <1>11, <1>12
  <2> QED
    BY <1>4, <1>18, <1>19, <2>1 DEF Bills
<1>21. I!Guarded(c.config) => Peers(c, sent)
  <2> SUFFICES ASSUME I!Guarded(call.config) PROVE Peers(c, sent)
    BY <1>4
  <2>1. Peers(call, delivered)
    BY <1>2 DEF Underway
  <2>2. last = call.attempt + 1
    BY <1>1, <2>1 DEF Peers
  <2>3. \A i \in DOMAIN sent : sent[i].to = delivered[i].to /\ sent[i].attempt = delivered[i].attempt
    BY <1>10, <1>11, <1>12
  <2>4. \A i \in 1 .. c.attempt : sent[i] = delivered[i]
    BY <1>4, <1>5, <1>12, <1>17, <2>2
  <2> QED
    BY <1>4, <1>11, <2>1, <2>2, <2>3, <2>4 DEF Peers
<1> QED
  BY <1>1, <1>2, <1>4, <1>9, <1>11, <1>16, <1>20, <1>21, GoesOn DEF Underway

LEMMA ReadAsks ==
    ASSUME AskInv, I!Read
    PROVE  AskInv'
<1> DEFINE c == [call EXCEPT !.step = "resolve", !.attempt = call.attempt + 1, !.text = None]
<1>1. call.step = "read" /\ dns' = dns /\ dns \in (SUBSET Addresses) \cup {None}
  BY DEF I!Read, AskInv
<1>2. result = None /\ Underway(call, delivered) /\ Bills(call, delivered)
  BY <1>1 DEF AskInv, I!Nowhere, Underway
<1>3. CASE call' = I!Nowhere /\ result' = I!Suggested /\ UNCHANGED delivered
  <2>1. /\ "usage" \in DOMAIN result'
        /\ result'.usage = IF call.feature = "receipts" THEN None ELSE I!TotalUsage(call.spent)
    BY <1>3 DEF I!Suggested
  <2>2. ASSUME NEW f, result'.usage # None, f \in DOMAIN result'.usage, result'.usage[f] # None
        PROVE  /\ \A i \in Heard(delivered) : delivered[i].reported # None /\ delivered[i].reported[f] # None
               /\ result'.usage[f] = I!SumFunction([i \in Heard(delivered) |-> delivered[i].reported[f]])
    <3>1. result'.usage = I!TotalUsage(call.spent)
      BY <2>1, <2>2
    <3>2. I!TotalUsage(call.spent) # None /\ f \in DOMAIN I!TotalUsage(call.spent) /\ I!TotalUsage(call.spent)[f] # None
      BY <2>2, <3>1
    <3> QED
      BY <1>1, <1>2, <3>1, <3>2, BillOfTheAnswers
  <2>3. I!BillIsWhole'
    BY <1>3, <2>2 DEF I!BillIsWhole, Heard
  <2> QED
    BY <1>1, <1>3, <2>3 DEF AskInv
<1>4. CASE ~I!Reads(call.feature, call.text) /\ I!Retry /\ call' = c /\ UNCHANGED <<delivered, result>>
  <2>1. /\ DOMAIN c = DOMAIN call /\ c.step = "resolve" /\ c.attempt = call.attempt + 1 /\ c.spent = call.spent
        /\ c.config = call.config /\ c.first = call.first /\ c.pin = call.pin /\ c.feature = call.feature
    BY <1>2 DEF Underway
  <2> HIDE DEF c
  <2>2. call.attempt \in 0 .. 1 /\ call.attempt + 1 < 2
    <3>1. I!Attempts \in {1, 2} /\ call.attempt \in 0 .. 1
      BY <1>2 DEF I!Attempts, Underway
    <3> QED
      BY <1>4, <3>1 DEF I!Retry
  <2>3. c.attempt \in 0 .. 1
    BY <2>1, <2>2
  <2>4. Bills(c, delivered)
    BY <1>1, <1>2, <2>1 DEF Bills
  <2>5. I!Guarded(c.config) => Peers(c, delivered)
    <3> SUFFICES ASSUME I!Guarded(call.config) PROVE Peers(c, delivered)
      BY <2>1
    <3>1. Peers(call, delivered)
      BY <1>2 DEF Underway
    <3>2. Len(delivered) = call.attempt + 1
      BY <1>1, <3>1 DEF Peers
    <3>3. call.text # None /\ call.text = delivered[call.attempt + 1].text
      BY <1>1, <1>2, <3>2, AskingAssumption DEF Bills, I!InferenceAssumption
    <3>4. \A i \in 1 .. c.attempt : delivered[i].text # None /\ ~I!Reads(c.feature, delivered[i].text)
      <4> SUFFICES ASSUME NEW i \in 1 .. c.attempt
                   PROVE  delivered[i].text # None /\ ~I!Reads(call.feature, delivered[i].text)
        BY <2>1
      <4>1. i \in 1 .. call.attempt \/ i = call.attempt + 1
        BY <2>1, <2>2
      <4> QED
        BY <1>4, <3>1, <3>3, <4>1 DEF Peers
    <3> QED
      BY <2>1, <3>1, <3>2, <3>4 DEF Peers
  <2> QED
    BY <1>1, <1>2, <1>4, <2>1, <2>3, <2>4, <2>5, GoesOn DEF Underway
<1>5. CASE \E error : I!Raise(error)
  BY <1>1, <1>5, RaiseEnds
<1> QED
  BY <1>3, <1>4, <1>5 DEF I!Read

LEMMA AskStep == AskInv /\ [I!Next]_attempts => AskInv'
<1> SUFFICES ASSUME AskInv, [I!Next]_attempts PROVE AskInv'
  OBVIOUS
<1>1. ASSUME I!Repoint PROVE AskInv'
  <2>1. dns' \in (SUBSET Addresses) \cup {None} /\ UNCHANGED <<call, delivered, result>>
    BY <1>1 DEF I!Repoint
  <2> QED
    BY <2>1 DEF AskInv, I!BillIsWhole
<1>2. ASSUME UNCHANGED attempts PROVE AskInv'
  BY <1>2 DEF attempts, AskInv, I!BillIsWhole
<1>3. I!Finished /\ UNCHANGED I!vars => UNCHANGED attempts
  BY DEF I!vars, attempts
<1> QED
  BY <1>1, <1>2, <1>3, BuildAsks, ResolveAsks, ConnectAsks, FailsAsks, AnsweredAsks, ReadAsks DEF I!Next

LEMMA AttemptsAreSound == AskInv => I!OnePeerPerAttempt /\ I!BillIsWhole
<1> SUFFICES ASSUME AskInv, call # I!Nowhere, I!Guarded(call.config)
             PROVE  /\ \A i \in DOMAIN delivered : delivered[i].to \in call.first
                    /\ \A i, j \in DOMAIN delivered : i # j => delivered[i].attempt # delivered[j].attempt
                    /\ \A i \in 1 .. Len(delivered) - 1 :
                          delivered[i].text # None /\ ~I!Reads(call.feature, delivered[i].text)
  BY DEF AskInv, I!OnePeerPerAttempt
<1>1. Peers(call, delivered) /\ IsSequence(delivered) /\ call.attempt \in Nat
  BY DEF AskInv, Underway
<1>2. Len(delivered) \in Nat /\ DOMAIN delivered = 1 .. Len(delivered)
  BY <1>1, SequencesHaveLengths
<1>3. \A i \in 1 .. Len(delivered) - 1 : i \in 1 .. call.attempt
  BY <1>1, <1>2 DEF Peers
<1>4. \A i, j \in DOMAIN delivered : i # j => delivered[i].attempt # delivered[j].attempt
  BY <1>1, <1>2 DEF Peers
<1> QED
  BY <1>1, <1>3, <1>4 DEF Peers

(* domain/llm_ports.py, "so an unknown part makes the whole unknown":       *)
(* whatever fails, wherever the name is pointed and however often the model *)
(* is asked, each attempt reaches one permitted peer and no attempt follows *)
(* a usable answer, and a number of tokens that is shown counts them all.   *)
THEOREM EveryAttemptIsAccountedFor == ServiceSpec => []AttemptsAreAccountedFor
<1>1. ServiceSpec => []AskInv
  BY AskStarts, AskStep, ServiceStarts, ServiceSteps, PTL DEF ServiceSpec
<1>2. AskInv => AttemptsAreAccountedFor
  BY AttemptsAreSound DEF AttemptsAreAccountedFor
<1> QED
  BY <1>1, <1>2, PTL

-----------------------------------------------------------------------------
(* The records of consent.                                                  *)
(* The columns of a configuration and what each may hold.                   *)
Column ==
    [mode |-> P!Modes, url |-> Endpoints \cup {None}, model |-> Models, key |-> ProviderKeys \cup {None},
     of |-> (Endpoints \cup {None}) \X Models, status |-> {"unverified", "verified", "disabled"},
     consented |-> BOOLEAN, revoked |-> BOOLEAN, archived |-> BOOLEAN]

Columns(set) ==
    /\ set = [f \in DOMAIN set |-> set[f]]
    /\ DOMAIN set \subseteq DOMAIN Column /\ \A f \in DOMAIN set : set[f] \in Column[f]

(* What an edit writes never takes a row out of the archive, and undoes a   *)
(* withdrawal only when it is an agreement.                                 *)
Keeps(set, op) ==
    /\ "archived" \in DOMAIN set => set.archived = TRUE
    /\ "revoked" \in DOMAIN set /\ op # "grant" => set.revoked = TRUE

LEMMA ColumnsAre ==
    /\ DOMAIN Column = {"mode", "url", "model", "key", "of", "status", "consented", "revoked", "archived"}
    /\ Column["status"] = {"unverified", "verified", "disabled"} /\ Column["archived"] = BOOLEAN
    /\ Column["consented"] = BOOLEAN /\ Column["revoked"] = BOOLEAN
  BY DEF Column

LEMMA AConfigurationIsItsColumns ==
    ASSUME NEW conf PROVE conf \in P!LlmProviderConfig <=> Columns(conf) /\ DOMAIN conf = DOMAIN Column
  BY DEF P!LlmProviderConfig, Columns, Column

LEMMA OverIsTyped ==
    ASSUME NEW a, NEW b, Columns(a), Columns(b)
    PROVE  Columns(P!Over(a, b)) /\ DOMAIN P!Over(a, b) = DOMAIN a \cup DOMAIN b
  BY DEF Columns, P!Over

LEMMA ChangesAreTyped ==
    ASSUME NEW conf, NEW set, Columns(set)
    PROVE  /\ Columns(P!Changes(conf, set)) /\ DOMAIN P!Changes(conf, set) \subseteq DOMAIN set
           /\ \A f \in DOMAIN P!Changes(conf, set) : P!Changes(conf, set)[f] = set[f]
  BY DEF Columns, P!Changes

LEMMA WritingOver ==
    ASSUME NEW conf \in P!LlmProviderConfig, NEW set, Columns(set)
    PROVE  P!Over(set, conf) \in P!LlmProviderConfig
<1>1. Columns(conf) /\ DOMAIN conf = DOMAIN Column
  BY AConfigurationIsItsColumns
<1>2. Columns(P!Over(set, conf)) /\ DOMAIN P!Over(set, conf) = DOMAIN set \cup DOMAIN conf
  BY <1>1, OverIsTyped
<1>3. DOMAIN set \subseteq DOMAIN Column
  BY DEF Columns
<1>4. DOMAIN P!Over(set, conf) = DOMAIN Column
  BY <1>1, <1>2, <1>3
<1> QED
  BY <1>2, <1>4, AConfigurationIsItsColumns

LEMMA NothingIsTyped == Columns(<<>>) /\ DOMAIN <<>> = {}
  BY DEF Columns

LEMMA AskedIsTyped ==
    ASSUME NEW req \in P!Request
    PROVE  /\ Columns(P!Asked(req))
           /\ DOMAIN P!Asked(req) \subseteq {"model", "url", "key", "status"}
<1> DEFINE a == IF req.model = None THEN <<>> ELSE [model |-> req.model]
           b == IF req.url = None THEN <<>> ELSE [url |-> req.url]
           c == IF req.key = None THEN <<>> ELSE [key |-> req.key]
           d == IF req.disabled = "yes" THEN [status |-> "disabled"]
                ELSE IF req.disabled = "no" \/ req.key # None THEN [status |-> "unverified"] ELSE <<>>
<1>1. Columns(a) /\ DOMAIN a \subseteq {"model"}
  <2>1. CASE req.model = None
    BY <2>1, NothingIsTyped
  <2>2. CASE req.model # None
    BY <2>2 DEF Columns, Column, P!Request
  <2> QED
    BY <2>1, <2>2
<1>2. Columns(b) /\ DOMAIN b \subseteq {"url"}
  <2>1. CASE req.url = None
    BY <2>1, NothingIsTyped
  <2>2. CASE req.url # None
    BY <2>2 DEF Columns, Column, P!Request
  <2> QED
    BY <2>1, <2>2
<1>3. Columns(c) /\ DOMAIN c \subseteq {"key"}
  <2>1. CASE req.key = None
    BY <2>1, NothingIsTyped
  <2>2. CASE req.key # None
    BY <2>2 DEF Columns, Column, P!Request
  <2> QED
    BY <2>1, <2>2
<1>4. Columns(d) /\ DOMAIN d \subseteq {"status"}
  <2>1. d \in {[status |-> "disabled"], [status |-> "unverified"], <<>>}
    OBVIOUS
  <2>2. CASE d = <<>>
    BY <2>2, NothingIsTyped
  <2>3. Columns([status |-> "disabled"]) /\ Columns([status |-> "unverified"])
    BY DEF Columns, Column
  <2> QED
    BY <2>1, <2>2, <2>3
<1> HIDE DEF a, b, c, d
<1>5. P!Asked(req) = P!Over(P!Over(a, b), P!Over(c, d))
  BY DEF P!Asked, a, b, c, d
<1>6. Columns(P!Over(a, b)) /\ DOMAIN P!Over(a, b) \subseteq {"model", "url"}
  BY <1>1, <1>2, OverIsTyped
<1>7. Columns(P!Over(c, d)) /\ DOMAIN P!Over(c, d) \subseteq {"key", "status"}
  BY <1>3, <1>4, OverIsTyped
<1>8. /\ Columns(P!Over(P!Over(a, b), P!Over(c, d)))
      /\ DOMAIN P!Over(P!Over(a, b), P!Over(c, d)) \subseteq {"model", "url", "key", "status"}
  <2>1. DOMAIN P!Over(P!Over(a, b), P!Over(c, d)) = DOMAIN P!Over(a, b) \cup DOMAIN P!Over(c, d)
    BY <1>6, <1>7, OverIsTyped
  <2>2. Columns(P!Over(P!Over(a, b), P!Over(c, d)))
    BY <1>6, <1>7, OverIsTyped
  <2> QED
    BY <1>6, <1>7, <2>1, <2>2
<1> QED
  BY <1>5, <1>8

LEMMA EditsKeep ==
    ASSUME NEW req \in P!Request, req.op \in P!Edits, NEW conf \in P!LlmProviderConfig
    PROVE  LET set == P!Changes(conf, P!Edit(req, conf))
           IN  Columns(set) /\ Keeps(set, req.op)
<1> DEFINE Good(set) == /\ Columns(set)
                        /\ "archived" \in DOMAIN set => set.archived = TRUE
                        /\ "revoked" \in DOMAIN set /\ req.op # "grant" => set.revoked = TRUE
<1>1. Good(P!Retire)
  <2>1. /\ DOMAIN P!Retire = {"archived", "status"} /\ P!Retire = [f \in DOMAIN P!Retire |-> P!Retire[f]]
        /\ P!Retire["archived"] = TRUE /\ P!Retire["status"] = "disabled"
    BY DEF P!Retire
  <2> QED
    BY <2>1, ColumnsAre DEF Columns
<1>2. ASSUME req.op = "grant" PROVE Good(P!Grant(conf))
  <2> DEFINE g == [consented |-> TRUE, revoked |-> FALSE]
  <2>1. P!Grant(conf) \in {<<>>, g}
    BY DEF P!Grant
  <2>2. /\ DOMAIN g = {"consented", "revoked"} /\ g = [f \in DOMAIN g |-> g[f]]
        /\ g["consented"] = TRUE /\ g["revoked"] = FALSE
    OBVIOUS
  <2> HIDE DEF g
  <2>3. Columns(g)
    BY <2>2, ColumnsAre DEF Columns
  <2> QED
    BY <1>2, <2>1, <2>2, <2>3, NothingIsTyped
<1>3. Good(P!Withdraw)
  <2>1. /\ DOMAIN P!Withdraw = {"revoked"} /\ P!Withdraw = [f \in DOMAIN P!Withdraw |-> P!Withdraw[f]]
        /\ P!Withdraw["revoked"] = TRUE
    BY DEF P!Withdraw
  <2> QED
    BY <2>1, ColumnsAre DEF Columns
<1>4. Good(<<>>)
  BY NothingIsTyped
<1>5. Good(P!Update(req, conf))
  <2>1. ASSUME req.model # None PROVE Columns([of |-> <<None, req.model>>])
    BY <2>1 DEF Columns, Column, P!Request
  <2>2. Columns(P!Update(req, conf)) /\ DOMAIN P!Update(req, conf) \subseteq {"model", "url", "key", "status", "of"}
    <3>1. CASE req.model # None /\ conf.mode # "ollama"
      BY <2>1, <3>1, AskedIsTyped, OverIsTyped DEF P!Update
    <3>2. CASE ~(req.model # None /\ conf.mode # "ollama")
      BY <3>2, AskedIsTyped DEF P!Update
    <3> QED
      BY <3>1, <3>2
  <2> QED
    BY <2>2
<1>6. Good(P!Edit(req, conf))
  <2> HIDE DEF Good
  <2> QED
    BY <1>1, <1>2, <1>3, <1>4, <1>5, Zenon DEF P!Edit, P!Edits
<1> QED
  BY <1>6, ChangesAreTyped DEF Keeps

(* What a creation inserts is a whole row, in an identifier of its own; an  *)
(* edit changes columns of a row that stays.                                *)
Creation(c) ==
    LET t == ptx[c]
    IN  /\ t.step \in {"load", "probe", "insert", "ready"}
        /\ t.step # "load" => t.set \in P!LlmProviderConfig
        /\ t.own # {} => t.config # None
        /\ t.config # None => /\ configs[t.config] = None
                              /\ \A d \in Clients \ {c} : ptx[d].config # t.config

Change(c) ==
    LET t == ptx[c]
    IN  /\ Columns(t.set) /\ Keeps(t.set, t.req.op)
        /\ t.config # None => configs[t.config] # None
        /\ t.step = "probe" => t.row \in P!LlmProviderConfig
        /\ t.step \in {"probe", "write"} \/ t.own # {} => t.config # None
        /\ t.step # "insert"

Working(c) ==
    LET t == ptx[c]
    IN  /\ ProviderRequest(t) /\ t.config \in Configs \cup {None}
        /\ t.step = "idle" => t.config = None /\ t.own = {}
        /\ t.step # "idle" =>
              /\ t.req \in ProviderRequests
              /\ t.req.op = "create" => Creation(c)
              /\ t.req.op # "create" => Change(c)

ProvidersInv ==
    /\ configs \in [Configs -> P!LlmProviderConfig \cup {None}]
    /\ DOMAIN ptx = Clients
    /\ \A c \in Clients : Working(c)

LEMMA ProvidersInvStart == P!Init => ProvidersInv
  BY ConsentsAssumption DEF P!ProvidersAssumption, P!Init, P!IdleTx, ProvidersInv, Working, ProviderRequest

(* A request moves: the others are as they were, but for its identifier.    *)
LEMMA RequestsMove ==
    ASSUME ProvidersInv, NEW c \in Clients, NEW t, ptx' = [ptx EXCEPT ![c] = t], configs' = configs, Working(c)',
           t.config = None \/ t.config = ptx[c].config \/ configs[t.config] # None
             \/ \A d \in Clients \ {c} : ptx[d].config # t.config
    PROVE  ProvidersInv'
<1> USE DEF ProvidersInv
<1>1. \A d \in Clients : ptx'[d] = IF d = c THEN t ELSE ptx[d]
  OBVIOUS
<1>2. ASSUME NEW d \in Clients \ {c} PROVE Working(d)'
  <2>1. Working(d) /\ Working(c) /\ ptx'[d] = ptx[d] /\ ptx'[c] = t
    BY <1>1
  <2>2. Change(d) => Change(d)'
    BY <2>1 DEF Change, Columns, Keeps
  <2>3. ASSUME Creation(d), ptx[d].step # "idle", ptx[d].req.op = "create" PROVE Creation(d)'
    <3>1. ASSUME ptx[d].config # None PROVE t.config # ptx[d].config
      BY <2>1, <2>3, <3>1 DEF Creation
    <3> QED
      BY <1>1, <2>1, <2>3, <3>1 DEF Creation
  <2> QED
    BY <2>1, <2>2, <2>3 DEF Working, ProviderRequest
<1>3. DOMAIN ptx' = Clients
  OBVIOUS
<1> QED
  BY <1>2, <1>3

LEMMA WorksOn ==
    ASSUME ProvidersInv, NEW c \in Clients, NEW t, P!Go(c, t), ProviderRequest(t), t.config = ptx[c].config,
           ptx[c].step # "idle", t.step \notin {"idle", "insert"}, t.req = ptx[c].req, t.own = ptx[c].own,
           t.req.op = "create" => t.step \in {"load", "probe", "ready"} /\ t.set = ptx[c].set /\ ptx[c].step # "load",
           t.req.op # "create" => /\ Columns(t.set) /\ Keeps(t.set, t.req.op)
                                  /\ t.step = "probe" => t.row \in P!LlmProviderConfig
                                  /\ t.step \in {"probe", "write"} => t.config # None
    PROVE  ProvidersInv'
<1>1. ptx' = [ptx EXCEPT ![c] = t] /\ configs' = configs /\ ptx'[c] = t
  BY DEF P!Go, ProvidersInv
<1>2. Working(c)
  BY DEF ProvidersInv
<1>3. \A d \in Clients \ {c} : ptx'[d] = ptx[d]
  BY <1>1 DEF ProvidersInv
<1>4. t.req.op = "create" => Creation(c)'
  BY <1>1, <1>2, <1>3 DEF Working, Creation
<1>5. t.req.op # "create" => Change(c)'
  BY <1>1, <1>2 DEF Working, Change, Columns, Keeps
<1>6. Working(c)'
  BY <1>1, <1>2, <1>4, <1>5 DEF Working, ProviderRequest
<1> QED
  BY <1>1, <1>6, RequestsMove

LEMMA RequestsEnd ==
    ASSUME ProvidersInv, NEW c \in Clients, ptx' = [ptx EXCEPT ![c] = P!IdleTx], configs' = configs
    PROVE  ProvidersInv'
<1>1. ptx'[c] = P!IdleTx
  BY DEF ProvidersInv
<1>2. Working(c)'
  BY <1>1 DEF Working, ProviderRequest, P!IdleTx
<1> QED
  BY <1>2, RequestsMove DEF P!IdleTx

LEMMA ProvidersInvSteps == ProvidersInv /\ [P!Next]_providers => ProvidersInv'
<1> SUFFICES ASSUME ProvidersInv, [P!Next]_providers PROVE ProvidersInv'
  OBVIOUS
<1> USE ConsentsAssumption DEF P!ProvidersAssumption
<1>0. /\ \A c \in Clients : Working(c) /\ DOMAIN ptx = Clients
      /\ configs \in [Configs -> P!LlmProviderConfig \cup {None}]
  BY DEF ProvidersInv
<1>1. ASSUME NEW c \in Clients, NEW outcome, P!Rollback(c, outcome) PROVE ProvidersInv'
  BY <1>1, RequestsEnd DEF P!Rollback
<1>2. ASSUME NEW c \in Clients, NEW req \in ProviderRequests, P!Begin(c, req) PROVE ProvidersInv'
  <2> DEFINE t == [P!IdleTx EXCEPT !.req = req, !.step = "load"]
  <2>1. /\ ptx' = [ptx EXCEPT ![c] = t] /\ configs' = configs /\ ptx'[c] = t
    BY <1>0, <1>2 DEF P!Begin
  <2>2. /\ ProviderRequest(t) /\ t.config = None /\ t.own = {} /\ t.set = <<>>
        /\ t.step = "load" /\ t.req = req
    BY DEF P!IdleTx, ProviderRequest
  <2> HIDE DEF t
  <2>3. Change(c)'
    BY <2>1, <2>2, NothingIsTyped DEF Change, Keeps
  <2>4. Creation(c)'
    BY <2>1, <2>2 DEF Creation
  <2>5. Working(c)'
    BY <2>1, <2>2, <2>3, <2>4 DEF Working
  <2> QED
    BY <2>1, <2>2, <2>5, RequestsMove
<1>3. ASSUME NEW c \in Clients, P!Create(c) PROVE ProvidersInv'
  <2> DEFINE t == [ptx[c] EXCEPT !.set = P!Declared(ptx[c].req),
                                 !.step = IF ptx[c].req.mode = "ollama" THEN "probe" ELSE "insert"]
  <2>1. CASE P!Go(c, t) /\ P!Coherent(ptx[c].req)
    <3>1. /\ ptx[c].step = "load" /\ ptx[c].req.op = "create" /\ Working(c) /\ ptx[c].req \in ProviderRequests
          /\ Creation(c)
      BY <1>0, <1>3, <2>1 DEF P!Create, Working
    <3>2. P!Declared(ptx[c].req) \in P!LlmProviderConfig
      BY <3>1 DEF P!Declared, P!LlmProviderConfig, P!Request
    <3>3. /\ ProviderRequest(t) /\ t.config = ptx[c].config /\ t.own = ptx[c].own /\ t.req = ptx[c].req
          /\ t.set = P!Declared(ptx[c].req) /\ t.step \in {"probe", "insert"}
      BY <3>1 DEF Working, ProviderRequest
    <3> HIDE DEF t
    <3>4. ptx' = [ptx EXCEPT ![c] = t] /\ configs' = configs /\ ptx'[c] = t
      BY <1>0, <2>1 DEF P!Go
    <3>5. Creation(c)'
      BY <1>0, <3>1, <3>2, <3>3, <3>4 DEF Creation
    <3>6. Working(c)'
      BY <3>1, <3>3, <3>4, <3>5 DEF Working
    <3> QED
      BY <3>3, <3>4, <3>6, RequestsMove
  <2>2. CASE \E outcome : P!Rollback(c, outcome)
    BY <1>1, <2>2
  <2> QED
    BY <1>3, <2>1, <2>2 DEF P!Create
<1>4. ASSUME NEW c \in Clients, P!Insert(c) PROVE ProvidersInv'
  <2>1. CASE P!Rollback(c, "already_exists")
    BY <1>1, <2>1
  <2>2. CASE \E k \in P!Fresh : P!Go(c, [ptx[c] EXCEPT !.config = k, !.own = {P!LiveKey}, !.step = "ready"])
    <3>1. PICK k \in P!Fresh : P!Go(c, [ptx[c] EXCEPT !.config = k, !.own = {P!LiveKey}, !.step = "ready"])
      BY <2>2
    <3> DEFINE t == [ptx[c] EXCEPT !.config = k, !.own = {P!LiveKey}, !.step = "ready"]
    <3>2. /\ ptx[c].step = "insert" /\ ptx[c].req.op = "create" /\ Working(c) /\ Creation(c)
      BY <1>0, <1>4 DEF P!Insert, Working, Change
    <3>3. /\ k \in Configs /\ k # None /\ configs[k] = None /\ \A d \in Clients : ptx[d].config # k
      BY <3>1 DEF P!Fresh, P!Unused
    <3>4. /\ ProviderRequest(t) /\ t.config = k /\ t.own = {P!LiveKey} /\ t.step = "ready"
          /\ t.req = ptx[c].req /\ t.set = ptx[c].set
      BY <3>2 DEF Working, ProviderRequest
    <3>5. P!Go(c, t)
      BY <3>1
    <3> HIDE DEF t
    <3>6. ptx' = [ptx EXCEPT ![c] = t] /\ configs' = configs /\ ptx'[c] = t
          /\ \A d \in Clients \ {c} : ptx'[d] = ptx[d]
      BY <1>0, <3>5 DEF P!Go
    <3>7. Creation(c)'
      BY <3>2, <3>3, <3>4, <3>6 DEF Creation
    <3>8. Working(c)'
      BY <3>2, <3>3, <3>4, <3>6, <3>7 DEF Working
    <3> QED
      BY <3>3, <3>4, <3>6, <3>8, RequestsMove
  <2> QED
    BY <1>4, <2>1, <2>2 DEF P!Insert
<1>5. ASSUME NEW c \in Clients, P!Active(c) PROVE ProvidersInv'
  <2> DEFINE k == ptx[c].req.config
             set == P!Changes(configs[k], P!Edit(ptx[c].req, configs[k]))
             step == IF P!Reprobes(ptx[c].req, configs[k]) THEN "probe"
                     ELSE IF DOMAIN set = {} THEN "ready" ELSE "write"
             t == [ptx[c] EXCEPT !.config = k, !.row = configs[k], !.set = set, !.step = step]
  <2>1. CASE P!Go(c, t) /\ k \in P!LiveConfigs
    <3>1. /\ ptx[c].step = "load" /\ ptx[c].req.op \in P!Edits /\ Working(c) /\ ptx[c].req \in P!Request
          /\ ptx[c].req \in ProviderRequests /\ Change(c)
      BY <1>0, <1>5 DEF P!Active, Working, P!Edits
    <3>2. k \in Configs /\ configs[k] \in P!LlmProviderConfig /\ configs[k] # None
      BY <1>0, <2>1 DEF P!LiveConfigs
    <3>3. Columns(set) /\ Keeps(set, ptx[c].req.op)
      BY <3>1, <3>2, EditsKeep
    <3>4. step \in {"probe", "ready", "write"}
      OBVIOUS
    <3>5. P!Go(c, t)
      BY <2>1
    <3> HIDE DEF k, set, step
    <3>6. /\ ProviderRequest(t) /\ t.config = k /\ t.own = ptx[c].own /\ t.step = step
          /\ t.req = ptx[c].req /\ t.set = set /\ t.row = configs[k]
      BY <3>1 DEF Working, ProviderRequest
    <3> HIDE DEF t
    <3>7. ptx' = [ptx EXCEPT ![c] = t] /\ configs' = configs /\ ptx'[c] = t
      BY <1>0, <3>5 DEF P!Go
    <3>8. k # None
      BY <3>2
    <3>9. Change(c)'
      BY <3>2, <3>3, <3>4, <3>6, <3>7, <3>8 DEF Change
    <3>10. Working(c)'
      BY <3>1, <3>2, <3>4, <3>6, <3>7, <3>9 DEF Working, P!Edits
    <3> QED
      BY <3>2, <3>6, <3>7, <3>10, RequestsMove
  <2>2. CASE \E outcome : P!Rollback(c, outcome)
    BY <1>1, <2>2
  <2> QED
    BY <1>5, <2>1, <2>2 DEF P!Active
<1>6. ASSUME NEW c \in Clients, P!ApplyProbe(c) PROVE ProvidersInv'
  <2> DEFINE seen == P!Over(ptx[c].set, ptx[c].row)
             found(conf) == P!Over([of |-> <<conf.url, conf.model>>, status |-> "verified"], ptx[c].set)
  <2>0. /\ ptx[c].step = "probe" /\ Working(c) /\ ptx[c].req \in ProviderRequests
        /\ ptx[c].req.op = "create" => Creation(c)
        /\ ptx[c].req.op # "create" => Change(c)
    BY <1>0, <1>6 DEF P!ApplyProbe, Working
  <2>1. ASSUME NEW conf \in P!LlmProviderConfig
        PROVE  LET g == [of |-> <<conf.url, conf.model>>, status |-> "verified"]
               IN  Columns(g) /\ DOMAIN g = {"of", "status"}
    BY DEF Columns, Column, P!LlmProviderConfig
  <2>2. CASE P!Rollback(c, "probe_failed")
    BY <1>1, <2>2
  <2>3. CASE ptx[c].req.op = "create" /\ P!Go(c, [ptx[c] EXCEPT !.set = found(ptx[c].set), !.step = "insert"])
    <3> DEFINE t == [ptx[c] EXCEPT !.set = found(ptx[c].set), !.step = "insert"]
    <3>1. Columns(ptx[c].set) /\ DOMAIN ptx[c].set = DOMAIN Column /\ ptx[c].set \in P!LlmProviderConfig
      BY <2>0, <2>3, AConfigurationIsItsColumns DEF Creation
    <3>2. found(ptx[c].set) \in P!LlmProviderConfig
      <4>1. /\ Columns(found(ptx[c].set))
            /\ DOMAIN found(ptx[c].set) = {"of", "status"} \cup DOMAIN ptx[c].set
        BY <2>1, <3>1, OverIsTyped
      <4> HIDE DEF found
      <4> QED
        BY <3>1, <4>1, ColumnsAre, AConfigurationIsItsColumns
    <3>3. P!Go(c, t)
      BY <2>3
    <3> HIDE DEF found
    <3>4. /\ ProviderRequest(t) /\ t.config = ptx[c].config /\ t.own = ptx[c].own /\ t.step = "insert"
          /\ t.req = ptx[c].req /\ t.set \in P!LlmProviderConfig
      BY <2>0, <3>2 DEF Working, ProviderRequest
    <3> HIDE DEF t
    <3>5. ptx' = [ptx EXCEPT ![c] = t] /\ configs' = configs /\ ptx'[c] = t
          /\ \A d \in Clients \ {c} : ptx'[d] = ptx[d]
      BY <1>0, <3>3 DEF P!Go
    <3>6. Creation(c)'
      BY <2>0, <2>3, <3>4, <3>5 DEF Creation
    <3>7. Working(c)'
      BY <2>0, <2>3, <3>4, <3>5, <3>6 DEF Working
    <3> QED
      BY <3>4, <3>5, <3>7, RequestsMove
  <2>4. CASE /\ ptx[c].req.op # "create"
             /\ P!Go(c, [ptx[c] EXCEPT !.set = P!Changes(ptx[c].row, found(seen)), !.step = "write"])
    <3> DEFINE t == [ptx[c] EXCEPT !.set = P!Changes(ptx[c].row, found(seen)), !.step = "write"]
    <3>1. Change(c) /\ Columns(ptx[c].set) /\ Keeps(ptx[c].set, ptx[c].req.op) /\ ptx[c].config # None
      BY <2>0, <2>4 DEF Change
    <3>2. seen \in P!LlmProviderConfig
      BY <2>0, <3>1, WritingOver DEF Change
    <3> DEFINE g == [of |-> <<seen.url, seen.model>>, status |-> "verified"]
    <3>3. /\ Columns(found(seen))
          /\ DOMAIN found(seen) = {"of", "status"} \cup DOMAIN ptx[c].set
          /\ \A f \in DOMAIN ptx[c].set \ {"of", "status"} : found(seen)[f] = ptx[c].set[f]
      <4>1. Columns(g) /\ DOMAIN g = {"of", "status"}
        BY <2>1, <3>2
      <4>2. found(seen) = P!Over(g, ptx[c].set)
        OBVIOUS
      <4> HIDE DEF g, found
      <4>3. /\ Columns(P!Over(g, ptx[c].set)) /\ DOMAIN P!Over(g, ptx[c].set) = DOMAIN g \cup DOMAIN ptx[c].set
        BY <3>1, <4>1, OverIsTyped
      <4>4. \A f \in DOMAIN ptx[c].set \ {"of", "status"} : P!Over(g, ptx[c].set)[f] = ptx[c].set[f]
        BY <4>1 DEF P!Over
      <4> QED
        BY <4>1, <4>2, <4>3, <4>4
    <3>4. P!Go(c, t)
      BY <2>4
    <3> HIDE DEF found, seen
    <3>5. /\ Columns(P!Changes(ptx[c].row, found(seen)))
          /\ Keeps(P!Changes(ptx[c].row, found(seen)), ptx[c].req.op)
      BY <3>1, <3>3, ChangesAreTyped DEF Keeps
    <3>6. /\ ProviderRequest(t) /\ t.config = ptx[c].config /\ t.own = ptx[c].own /\ t.step = "write"
          /\ t.req = ptx[c].req /\ t.set = P!Changes(ptx[c].row, found(seen))
      BY <2>0 DEF Working, ProviderRequest
    <3> HIDE DEF t
    <3> QED
      BY <2>0, <2>4, <3>1, <3>4, <3>5, <3>6, WorksOn
  <2> QED
    BY <1>6, <2>2, <2>3, <2>4 DEF P!ApplyProbe
<1>7. ASSUME NEW c \in Clients, P!Write(c) PROVE ProvidersInv'
  <2> DEFINE t == [ptx[c] EXCEPT !.own = {ptx[c].config}, !.step = "ready"]
  <2>1. /\ ptx[c].step = "write" /\ Working(c) /\ ptx[c].req.op # "create" /\ Change(c)
        /\ P!Go(c, t)
    BY <1>0, <1>7 DEF P!Write, Working, Creation
  <2>2. /\ ProviderRequest(t) /\ t.config = ptx[c].config /\ t.step = "ready"
        /\ t.req = ptx[c].req /\ t.set = ptx[c].set
    BY <2>1 DEF Working, ProviderRequest
  <2> HIDE DEF t
  <2>3. ptx' = [ptx EXCEPT ![c] = t] /\ configs' = configs /\ ptx'[c] = t
    BY <1>0, <2>1 DEF P!Go
  <2>4. Change(c)'
    BY <2>1, <2>2, <2>3 DEF Change, Columns, Keeps
  <2>5. Working(c)'
    BY <2>1, <2>2, <2>3, <2>4 DEF Working
  <2> QED
    BY <2>2, <2>3, <2>5, RequestsMove
<1>8. ASSUME NEW c \in Clients, P!Load(c) PROVE ProvidersInv'
  <2> DEFINE k == CHOOSE k \in P!LiveConfigs : TRUE
             t == [ptx[c] EXCEPT !.config = k, !.row = configs[k], !.step = "key"]
  <2>1. CASE P!LiveConfigs # {} /\ P!Go(c, t)
    <3>1. k \in P!LiveConfigs
      BY <2>1
    <3>2. /\ ptx[c].step = "load" /\ Working(c) /\ ptx[c].req.op # "create" /\ Change(c) /\ P!Go(c, t)
      BY <1>0, <1>8, <2>1 DEF P!Load, P!Uses, Working
    <3> HIDE DEF k
    <3>3. /\ ProviderRequest(t) /\ t.config = k /\ t.step = "key" /\ t.own = ptx[c].own
          /\ t.req = ptx[c].req /\ t.set = ptx[c].set
      BY <3>2 DEF Working, ProviderRequest
    <3> HIDE DEF t
    <3>4. k \in Configs /\ k # None /\ configs[k] # None
      BY <3>1 DEF P!LiveConfigs
    <3>5. ptx' = [ptx EXCEPT ![c] = t] /\ configs' = configs /\ ptx'[c] = t
      BY <1>0, <3>2 DEF P!Go
    <3>6. Change(c)'
      BY <3>2, <3>3, <3>4, <3>5 DEF Change, Columns, Keeps
    <3>7. Working(c)'
      BY <3>2, <3>3, <3>4, <3>5, <3>6 DEF Working
    <3> QED
      BY <3>3, <3>4, <3>5, <3>7, RequestsMove
  <2>2. CASE \E outcome : P!Rollback(c, outcome)
    BY <1>1, <2>2
  <2> QED
    BY <1>8, <2>1, <2>2 DEF P!Load
<1>9. ASSUME NEW c \in Clients, NEW t, P!Go(c, t), ptx[c].step \in {"key", "send"}, t.step \in {"ready", "send"},
             t.config = ptx[c].config, t.own = ptx[c].own, t.req = ptx[c].req, t.set = ptx[c].set,
             DOMAIN t = DOMAIN ptx[c]
      PROVE  ProvidersInv'
  <2>1. Working(c) /\ ptx[c].req.op # "create" /\ Change(c)
    BY <1>0, <1>9 DEF Working, Creation
  <2>2. ProviderRequest(t)
    BY <1>9, <2>1 DEF Working, ProviderRequest
  <2>3. Columns(t.set) /\ Keeps(t.set, t.req.op)
    BY <1>9, <2>1 DEF Change
  <2> QED
    BY <1>9, <2>1, <2>2, <2>3, WorksOn
<1>10. ASSUME NEW c \in Clients, P!SealedCredential(c) PROVE ProvidersInv'
  <2>1. DOMAIN ptx[c] = {"step", "req", "config", "row", "set", "own"} /\ ptx[c].step = "key"
    BY <1>0, <1>10 DEF P!SealedCredential, Working, ProviderRequest
  <2>2. CASE P!Go(c, [ptx[c] EXCEPT !.step = "ready"])
    BY <1>9, <2>1, <2>2
  <2>3. CASE P!Go(c, [ptx[c] EXCEPT !.row.key = configs[ptx[c].config].key, !.step = "send"])
    BY <1>9, <2>1, <2>3
  <2>4. CASE P!Rollback(c, "vision_unavailable")
    BY <1>1, <2>4
  <2> QED
    BY <1>10, <2>2, <2>3, <2>4 DEF P!SealedCredential
<1>11. ASSUME NEW c \in Clients, P!Transmit(c) PROVE ProvidersInv'
  <2>1. DOMAIN ptx[c] = {"step", "req", "config", "row", "set", "own"} /\ ptx[c].step = "send"
    BY <1>0, <1>11 DEF P!Transmit, Working, ProviderRequest
  <2> QED
    BY <1>1, <1>9, <1>11, <2>1 DEF P!Transmit
<1>12. ASSUME NEW c \in Clients, P!Commit(c) PROVE ProvidersInv'
  <2>1. ptx[c].step = "ready" /\ Working(c) /\ ptx' = [ptx EXCEPT ![c] = P!IdleTx]
    BY <1>0, <1>12 DEF P!Commit
  <2>2. CASE ptx[c].own = {}
    BY <1>12, <2>1, <2>2, RequestsEnd DEF P!Commit
  <2>3. CASE ptx[c].own # {}
    <3> DEFINE k == ptx[c].config
    <3>1. k \in Configs /\ k # None
      BY <2>1, <2>3 DEF Working, Creation, Change
    <3>2. P!RowAfter(ptx[c]) \in P!LlmProviderConfig
      <4>1. CASE ptx[c].req.op = "create"
        BY <2>1, <4>1 DEF Working, Creation, P!RowAfter
      <4>2. CASE ptx[c].req.op # "create"
        <5>1. configs[k] \in P!LlmProviderConfig /\ Columns(ptx[c].set)
          BY <1>0, <2>1, <3>1, <4>2 DEF Working, Change
        <5> QED
          BY <4>2, <5>1, WritingOver DEF P!RowAfter
      <4> QED
        BY <4>1, <4>2
    <3>3. configs' = [configs EXCEPT ![k] = P!RowAfter(ptx[c])]
      BY <1>12, <2>3 DEF P!Commit
    <3>4. /\ configs' \in [Configs -> P!LlmProviderConfig \cup {None}] /\ configs'[k] # None
          /\ \A j \in Configs \ {k} : configs'[j] = configs[j]
      BY <1>0, <3>1, <3>2, <3>3
    <3>5. ptx'[c] = P!IdleTx /\ (\A d \in Clients \ {c} : ptx'[d] = ptx[d]) /\ DOMAIN ptx' = Clients
      BY <1>0, <2>1
    <3>6. Working(c)'
      BY <3>5 DEF Working, ProviderRequest, P!IdleTx
    <3>7. ASSUME NEW d \in Clients \ {c} PROVE Working(d)'
      <4>1. Working(d) /\ ptx'[d] = ptx[d] /\ ptx[d].config \in Configs \cup {None}
        BY <1>0, <3>5 DEF Working
      <4>2. Change(d) => Change(d)'
        BY <3>4, <4>1 DEF Change, Columns, Keeps
      <4>3. Creation(d) => Creation(d)'
        <5>1. \A e \in Clients : ptx'[e].config \in {ptx[e].config, None}
          BY <3>5 DEF P!IdleTx
        <5> QED
          BY <3>4, <4>1, <5>1 DEF Creation
      <4> QED
        BY <4>1, <4>2, <4>3 DEF Working, ProviderRequest
    <3> QED
      BY <3>4, <3>5, <3>6, <3>7 DEF ProvidersInv
  <2> QED
    BY <2>2, <2>3
<1>13. ASSUME NEW c \in Clients, P!Interrupt(c) PROVE ProvidersInv'
  BY <1>1, <1>13 DEF P!Interrupt
<1>14. CASE UNCHANGED <<configs, ptx>>
  BY <1>14 DEF ProvidersInv, Working, ProviderRequest, Creation, Change, Columns, Keeps
<1>15. ASSUME NEW url \in Endpoints, P!Repoint(url) PROVE ProvidersInv'
  BY <1>14, <1>15 DEF P!Repoint
<1>16. P!Finished \/ UNCHANGED providers => UNCHANGED <<configs, ptx>>
  BY DEF P!Finished, P!vars, providers
<1> QED
  BY <1>2, <1>3, <1>4, <1>5, <1>6, <1>7, <1>8, <1>10, <1>11, <1>12, <1>13, <1>14, <1>15, <1>16 DEF P!Next

(* What a step does to the records.                                         *)
RecordsKept ==
    \A k \in Configs : configs[k] # None =>
          /\ configs'[k] # None
          /\ configs[k].archived => configs'[k].archived
          /\ configs[k].revoked /\ ~configs'[k].revoked
             => \E c \in Clients : ptx[c].step = "ready" /\ ptx[c].req.op = "grant"

LEMMA EditsKeepRecords == ProvidersInv /\ [P!Next]_providers => [RecordsKept]_providers
<1> SUFFICES ASSUME ProvidersInv, P!Next PROVE RecordsKept
  OBVIOUS
<1>1. CASE configs' = configs
  BY <1>1 DEF RecordsKept
<1>2. ASSUME NEW c \in Clients, P!Commit(c), configs' # configs PROVE RecordsKept
  <2>1. /\ ptx[c].step = "ready" /\ ptx[c].own # {} /\ Working(c)
        /\ configs' = [configs EXCEPT ![ptx[c].config] = P!RowAfter(ptx[c])]
    BY <1>2 DEF P!Commit, ProvidersInv
  <2>2. SUFFICES ASSUME NEW k \in Configs, configs[k] # None, k = ptx[c].config
                 PROVE  /\ configs'[k] # None
                        /\ configs[k].archived => configs'[k].archived
                        /\ configs[k].revoked /\ ~configs'[k].revoked => ptx[c].req.op = "grant"
    BY <2>1 DEF RecordsKept, ProvidersInv
  <2>3. ptx[c].req.op # "create" /\ Change(c)
    BY <2>1, <2>2 DEF Working, Creation
  <2>4. configs[k] \in P!LlmProviderConfig /\ Columns(ptx[c].set)
    BY <2>2, <2>3 DEF Change, ProvidersInv
  <2>5. configs'[k] = P!Over(ptx[c].set, configs[k]) /\ configs'[k] \in P!LlmProviderConfig
    BY <2>1, <2>2, <2>3, <2>4, WritingOver DEF P!RowAfter, ProvidersInv
  <2>6. configs'[k] # None
    BY <2>5, ConsentsAssumption DEF P!ProvidersAssumption
  <2>7. DOMAIN configs[k] = DOMAIN Column
    BY <2>4, AConfigurationIsItsColumns
  <2>8. \A f \in DOMAIN Column :
           configs'[k][f] = IF f \in DOMAIN ptx[c].set THEN ptx[c].set[f] ELSE configs[k][f]
    BY <2>5, <2>7 DEF P!Over
  <2>9. /\ configs'[k]["archived"] = IF "archived" \in DOMAIN ptx[c].set THEN ptx[c].set["archived"]
                                     ELSE configs[k]["archived"]
        /\ configs'[k]["revoked"] = IF "revoked" \in DOMAIN ptx[c].set THEN ptx[c].set["revoked"]
                                    ELSE configs[k]["revoked"]
    BY <2>8, ColumnsAre
  <2>10. Keeps(ptx[c].set, ptx[c].req.op)
    BY <2>3 DEF Change
  <2>11. configs[k].archived => configs'[k].archived
    BY <2>9, <2>10, Zenon DEF Keeps
  <2>12. configs[k].revoked /\ ~configs'[k].revoked => ptx[c].req.op = "grant"
    BY <2>9, <2>10, Zenon DEF Keeps
  <2> QED
    BY <2>6, <2>11, <2>12
<1>3. ASSUME configs' # configs PROVE \E c \in Clients : P!Commit(c)
  BY <1>3 DEF P!Next, P!Begin, P!Create, P!Insert, P!Active, P!ApplyProbe, P!Write, P!Load, P!SealedCredential,
      P!Transmit, P!Interrupt, P!Repoint, P!Finished, P!Go, P!Rollback, P!vars
<1> QED
  BY <1>1, <1>2, <1>3

(* providers.py: nothing leads out of the archive, and a withdrawal is      *)
(* undone by a new agreement and by nothing else.                           *)
THEOREM ConsentRecordsAreKept == ServiceSpec => RecordsAreKept
<1>1. ServiceSpec => []ProvidersInv
  BY ProvidersInvStart, ProvidersInvSteps, ServiceStarts, ServiceSteps, PTL DEF ServiceSpec
<1>2. ProvidersInv /\ [ServiceNext]_everything => [RecordsKept]_P!vars
  BY EditsKeepRecords, ServiceSteps DEF providers, P!vars
<1>3. ServiceSpec => [][RecordsKept]_P!vars
  BY <1>1, <1>2, PTL DEF ServiceSpec
<1> QED
  BY <1>3 DEF RecordsAreKept, P!RecordsAreKept, RecordsKept

-----------------------------------------------------------------------------
(* The catalogue: a product it knows is never lost, hidden or, once         *)
(* corrected, overwritten, for any number of phones, workers, barcodes and  *)
(* records.                                                                 *)
(* What a client holds has its type; when it wakes is left open.            *)
Shaped == \E wakes : tx \in [Clients -> TxType(wakes)]

Types ==
    /\ now \in Times
    /\ upstream \in [Gtins -> Records \cup {None}]
    /\ row \in [Gtins -> Row \cup {None}]
    /\ Shaped
    /\ \A c \in Clients : tx[c].phase # "idle" => tx[c].gtin \in Gtins

Writing(c) == tx[c].phase \in {"flush", "commit"}

(* No absence is ever committed.                                            *)
RowsAreKnown == \A g \in Gtins : row[g] # None => Known(row[g])

(* A row that was read is still there, and still of the same source.        *)
BasesAreReal ==
    \A c \in Clients : (Writing(c) /\ tx[c].base # None) =>
        /\ Known(tx[c].base)
        /\ row[tx[c].gtin] # None
        /\ row[tx[c].gtin].source = tx[c].base.source

(* Who is about to commit a new row finds none.                             *)
EntriesAreNew ==
    \A c \in Clients :
        (tx[c].phase = "commit" /\ tx[c].base = None) => row[tx[c].gtin] = None

(* A row, or the entry of one, has a single writer at a time.               *)
WritersAreSole ==
    \A c, d \in Clients : c # d => \A g \in Gtins : ~(HoldsRow(c, g) /\ HoldsRow(d, g))

CatalogueInv == Types /\ RowsAreKnown /\ BasesAreReal /\ EntriesAreNew /\ WritersAreSole

-----------------------------------------------------------------------------
(* What is written.                                                         *)

LEMMA RecordsMakeRows ==
    ASSUME NEW r \in Records, NEW when \in Times
    PROVE  FromRecord(r, when) \in Row /\ Known(FromRecord(r, when))
  BY CatalogueAssumption, RowAssumption
     DEF FromRecord, Declared, Row, Known, IsAbsence, Absent, Unknown

LEMMA TombstonesAreRows ==
    ASSUME NEW when \in Times
    PROVE  Tombstone(when) \in Row
  BY DEF Tombstone, Row, Absent, Unknown

LEMMA CorrectionsAreRows == Corrected \in Row /\ Known(Corrected)
  BY CatalogueAssumption, RowAssumption DEF Corrected, Row, Known, IsAbsence, Absent

(* The image of a record over what was read is a product from the same      *)
(* source, or one that was imported.                                        *)
LEMMA ImagesAreKnown ==
    ASSUME NEW r \in Records, NEW when \in Times, NEW base \in Row, Known(base)
    PROVE  /\ Upsert(base, r, when) \in Row
           /\ Known(Upsert(base, r, when))
           /\ Upsert(base, r, when).source = base.source
           /\ base.source = "manual" => Upsert(base, r, when) = [base EXCEPT !.synced = when]
  <1>1. CASE base.source = "manual"
    <2>1. Upsert(base, r, when) = [base EXCEPT !.synced = when]
      BY <1>1, RowAssumption DEF Upsert
    <2>2. [base EXCEPT !.synced = when] \in Row /\ Known([base EXCEPT !.synced = when])
      BY RowAssumption DEF Row, Known, IsAbsence
    <2> QED
      BY <2>1, <2>2 DEF Row
  <1>2. CASE base.source # "manual"
    <2>1. Upsert(base, r, when) = FromRecord(r, when)
      BY <1>2 DEF Upsert
    <2>2. base.source = "open_food_facts"
      BY <1>2 DEF Row
    <2> QED
      BY <1>2, <2>1, <2>2, RecordsMakeRows DEF FromRecord
  <1> QED
    BY <1>1, <1>2

(* An UPDATE of some columns of a product leaves a product.                 *)
LEMMA UpdatesKeepProducts ==
    ASSUME NEW current \in Row, NEW base \in Row, NEW image \in Row,
           Known(current), Known(base), Known(image),
           current.source = base.source, image.source = base.source
    PROVE  /\ Changed(current, base, image) \in Row
           /\ Known(Changed(current, base, image))
           /\ Changed(current, base, image).source = current.source
  <1> DEFINE next == Changed(current, base, image)
  <1>1. next \in Row
    BY DEF Changed, Row
  <1>2. next.payload \in {current.payload, image.payload}
    BY DEF Changed, Row
  <1>3. next.archived \in {current.archived, image.archived}
    BY DEF Changed, Row
  <1>4. next.source = current.source
    BY DEF Changed, Row
  <1>5. Known(next)
    BY <1>1, <1>2, <1>3, RowAssumption DEF Known, IsAbsence
  <1> QED
    BY <1>1, <1>4, <1>5

(* Nothing but the age of a row changes when nothing but its age is written.*)
LEMMA CorrectionsStand ==
    ASSUME NEW current \in Row, NEW base \in Row, NEW when \in Times
    PROVE  LET next == Changed(current, base, [base EXCEPT !.synced = when])
           IN  next = [current EXCEPT !.synced = next.synced]
  BY DEF Changed, Row

-----------------------------------------------------------------------------
(* Steps.                                                                   *)

LEMMA TypesHold ==
    ASSUME Types, NEW c \in Clients, NEW wakes, NEW t \in TxType(wakes),
           tx' = [tx EXCEPT ![c] = t], t.phase # "idle" => t.gtin \in Gtins,
           now' \in Times, upstream' \in [Gtins -> Records \cup {None}],
           row' \in [Gtins -> Row \cup {None}]
    PROVE  Types' /\ tx'[c] = t /\ \A d \in Clients : d # c => tx'[d] = tx[d]
  <1>1. PICK instants : tx \in [Clients -> TxType(instants)]
    BY DEF Types, Shaped
  <1>2. tx'[c] = t /\ \A d \in Clients : d # c => tx'[d] = tx[d]
    BY <1>1
  <1>3. TxType(instants) \subseteq TxType(instants \cup wakes) /\ t \in TxType(instants \cup wakes)
    BY DEF TxType
  <1>4. tx' \in [Clients -> TxType(instants \cup wakes)]
    BY <1>1, <1>3
  <1> QED
    BY <1>2, <1>4 DEF Types, Shaped

(* Who does nothing holds what it held.                                     *)
LEMMA OthersHold ==
    ASSUME NEW d \in Clients, NEW g, tx'[d] = tx[d]
    PROVE  HoldsRow(d, g)' = HoldsRow(d, g)
  BY DEF HoldsRow, Writes, Image

(* A client that does not come to write, and leaves the rows alone.         *)
LEMMA QuietStep ==
    ASSUME CatalogueInv, NEW c \in Clients, NEW wakes, NEW t \in TxType(wakes),
           tx' = [tx EXCEPT ![c] = t], t.phase \notin {"flush", "commit"},
           t.phase # "idle" => t.gtin \in Gtins,
           UNCHANGED <<now, upstream, row>>
    PROVE  CatalogueInv'
  <1>1. Types' /\ tx'[c] = t /\ \A d \in Clients : d # c => tx'[d] = tx[d]
    BY TypesHold DEF CatalogueInv, Types
  <1>2. RowsAreKnown'
    BY DEF CatalogueInv, RowsAreKnown, Known, IsAbsence
  <1>3. BasesAreReal'
    BY <1>1 DEF CatalogueInv, BasesAreReal, Writing, Known, IsAbsence
  <1>4. EntriesAreNew'
    BY <1>1 DEF CatalogueInv, EntriesAreNew
  <1>5. \A d \in Clients, g \in Gtins : HoldsRow(d, g)' => HoldsRow(d, g)
    <2> TAKE d \in Clients, g \in Gtins
    <2>1. CASE d = c
      BY <1>1, <2>1 DEF HoldsRow
    <2>2. CASE d # c
      BY <1>1, <2>2, OthersHold
    <2> QED
      BY <2>1, <2>2
  <1>6. WritersAreSole'
    BY <1>5 DEF CatalogueInv, WritersAreSole
  <1> QED
    BY <1>1, <1>2, <1>3, <1>4, <1>6 DEF CatalogueInv

LEMMA IdleIsTyped == IdleTx \in TxType({0})
  BY CatalogueAssumption DEF IdleTx, TxType, Phases, Times

LEMMA AnswerKeeps ==
    ASSUME CatalogueInv, NEW c \in Clients, NEW g, NEW outcome, Answer(c, g, outcome),
           UNCHANGED <<now, upstream, row>>
    PROVE  CatalogueInv'
  BY QuietStep, IdleIsTyped DEF Answer, IdleTx

LEMMA LookupKeeps ==
    ASSUME CatalogueInv, NEW c \in Clients, NEW g \in Gtins, Lookup(c, g)
    PROVE  CatalogueInv'
  <1> DEFINE t == [IdleTx EXCEPT !.phase = "acquire", !.gtin = g, !.seen = row[g],
                                 !.since = now, !.wake = now]
  <1>1. UNCHANGED <<now, upstream, row>>
    BY DEF Lookup
  <1>2. t \in TxType({now}) /\ t.phase = "acquire" /\ t.gtin = g
    BY IdleIsTyped DEF CatalogueInv, Types, TxType, Phases
  <1>3. CASE tx' = [tx EXCEPT ![c] = t]
    BY <1>1, <1>2, <1>3, QuietStep
  <1>4. CASE \E outcome : Answer(c, g, outcome)
    BY <1>1, <1>4, AnswerKeeps
  <1> QED
    BY <1>3, <1>4 DEF Lookup

LEMMA UnavailableKeeps ==
    ASSUME CatalogueInv, NEW c \in Clients, Unavailable(c), UNCHANGED <<now, upstream, row>>
    PROVE  CatalogueInv'
  BY AnswerKeeps DEF Unavailable

LEMMA AcquireKeeps ==
    ASSUME CatalogueInv, NEW c \in Clients, Acquire(c)
    PROVE  CatalogueInv'
  <1> DEFINE t == tx[c]
             asking == [IdleTx EXCEPT !.phase = "ask", !.gtin = t.gtin, !.seen = t.seen]
  <1>1. UNCHANGED <<now, upstream, row>>
    BY DEF Acquire
  <1>2. PICK wakes : tx \in [Clients -> TxType(wakes)]
    BY DEF CatalogueInv, Types, Shaped
  <1>3. t \in TxType(wakes) /\ t.phase = "acquire" /\ t.gtin \in Gtins
    BY <1>2 DEF Acquire, CatalogueInv, Types
  <1>4. asking \in TxType({0}) /\ asking.phase = "ask" /\ asking.gtin \in Gtins
    BY <1>3, IdleIsTyped DEF TxType, Phases
  <1>5. CASE tx' = [tx EXCEPT ![c] = asking]
    BY <1>1, <1>4, <1>5, QuietStep
  <1>6. CASE Unavailable(c)
    BY <1>1, <1>6, UnavailableKeeps
  <1>7. CASE \E wake : tx' = [tx EXCEPT ![c] = [t EXCEPT !.wake = wake]]
    <2>1. PICK wake : tx' = [tx EXCEPT ![c] = [t EXCEPT !.wake = wake]]
      BY <1>7
    <2> DEFINE later == [t EXCEPT !.wake = wake]
    <2>2. later \in TxType({wake}) /\ later.phase = "acquire" /\ later.gtin \in Gtins
      BY <1>3 DEF TxType
    <2> QED
      BY <1>1, <2>1, <2>2, QuietStep
  <1> QED
    BY <1>5, <1>6, <1>7 DEF Acquire, Go

LEMMA AskKeeps ==
    ASSUME CatalogueInv, NEW c \in Clients, Ask(c)
    PROVE  CatalogueInv'
  <1> DEFINE t == tx[c]
             absent == [t EXCEPT !.phase = "store"]
             told == [t EXCEPT !.phase = "store", !.record = upstream[t.gtin]]
  <1>1. UNCHANGED <<now, upstream, row>>
    BY DEF Ask
  <1>2. PICK wakes : tx \in [Clients -> TxType(wakes)]
    BY DEF CatalogueInv, Types, Shaped
  <1>3. t \in TxType(wakes) /\ t.gtin \in Gtins
    BY <1>2 DEF Ask, CatalogueInv, Types
  <1>4. absent \in TxType(wakes) /\ absent.phase = "store" /\ absent.gtin \in Gtins
    BY <1>3 DEF TxType, Phases
  <1>5. told \in TxType(wakes) /\ told.phase = "store" /\ told.gtin \in Gtins
    BY <1>3 DEF TxType, Phases, CatalogueInv, Types
  <1>6. CASE tx' = [tx EXCEPT ![c] = absent]
    BY <1>1, <1>4, <1>6, QuietStep
  <1>7. CASE tx' = [tx EXCEPT ![c] = told]
    BY <1>1, <1>5, <1>7, QuietStep
  <1>8. CASE Unavailable(c)
    BY <1>1, <1>8, UnavailableKeeps
  <1> QED
    BY <1>6, <1>7, <1>8 DEF Ask, Go

(* What a client writes differs from nothing: it is a row.                  *)
LEMMA ImagesAreRows ==
    ASSUME NEW wakes, NEW t \in TxType(wakes), t.base = None
    PROVE  Image(t) \in Row /\ Writes(t)
  <1>1. t.at \in Times /\ t.record \in Records \cup {None}
    BY DEF TxType
  <1>2. CASE t.record = None
    BY <1>1, <1>2, TombstonesAreRows, RowAssumption DEF Image, RememberAbsent, Writes
  <1>3. CASE t.record # None
    BY <1>1, <1>3, RecordsMakeRows, RowAssumption DEF Image, Upsert, Writes
  <1> QED
    BY <1>2, <1>3

LEMMA StoreKeeps ==
    ASSUME CatalogueInv, NEW c \in Clients, Store(c)
    PROVE  CatalogueInv'
  <1> DEFINE new == [tx[c] EXCEPT !.phase = "flush", !.base = row[tx[c].gtin], !.at = now]
  <1>1. UNCHANGED <<now, upstream, row>> /\ tx' = [tx EXCEPT ![c] = new]
    BY DEF Store, Go
  <1>2. PICK wakes : tx \in [Clients -> TxType(wakes)]
    BY DEF CatalogueInv, Types, Shaped
  <1>3. tx[c] \in TxType(wakes) /\ tx[c].gtin \in Gtins
    BY <1>2 DEF Store, CatalogueInv, Types
  <1>4. /\ new \in TxType(wakes) /\ new.phase = "flush" /\ new.gtin = tx[c].gtin
        /\ new.base = row[tx[c].gtin]
    BY <1>3 DEF TxType, Phases, CatalogueInv, Types
  <1>5. Types' /\ tx'[c] = new /\ \A d \in Clients : d # c => tx'[d] = tx[d]
    BY <1>1, <1>3, <1>4, TypesHold DEF CatalogueInv, Types
  <1>6. RowsAreKnown'
    BY <1>1 DEF CatalogueInv, RowsAreKnown, Known, IsAbsence
  <1>7. BasesAreReal'
    BY <1>1, <1>3, <1>4, <1>5
       DEF CatalogueInv, BasesAreReal, RowsAreKnown, Writing, Known, IsAbsence
  <1>8. EntriesAreNew'
    BY <1>1, <1>4, <1>5 DEF CatalogueInv, EntriesAreNew
  <1>9. \A d \in Clients, g \in Gtins : HoldsRow(d, g)' => HoldsRow(d, g)
    BY <1>4, <1>5, OthersHold DEF HoldsRow
  <1>10. WritersAreSole'
    BY <1>9 DEF CatalogueInv, WritersAreSole
  <1> QED
    BY <1>5, <1>6, <1>7, <1>8, <1>10 DEF CatalogueInv

LEMMA FlushKeeps ==
    ASSUME CatalogueInv, NEW c \in Clients, Flush(c)
    PROVE  CatalogueInv'
  <1> DEFINE t == tx[c]
             new == [t EXCEPT !.phase = "commit"]
  <1>1. UNCHANGED <<now, upstream, row>>
    BY DEF Flush
  <1>2. CASE t.base = None /\ row[t.gtin] # None
    <2>1. Answer(c, t.gtin, "error")
      BY <1>2 DEF Flush
    <2> QED
      BY <1>1, <2>1, AnswerKeeps
  <1>3. CASE ~(t.base = None /\ row[t.gtin] # None)
    <2>1. tx' = [tx EXCEPT ![c] = new]
      BY <1>3 DEF Flush, Go
    <2>2. PICK wakes : tx \in [Clients -> TxType(wakes)]
      BY DEF CatalogueInv, Types, Shaped
    <2>3. t \in TxType(wakes) /\ t.gtin \in Gtins
      BY <2>2 DEF Flush, CatalogueInv, Types
    <2>4. /\ new \in TxType(wakes) /\ new.phase = "commit" /\ new.gtin = t.gtin
          /\ new.base = t.base /\ new.record = t.record /\ new.at = t.at
      BY <2>3 DEF TxType, Phases
    <2>5. Types' /\ tx'[c] = new /\ \A d \in Clients : d # c => tx'[d] = tx[d]
      BY <1>1, <2>1, <2>3, <2>4, TypesHold DEF CatalogueInv, Types
    <2>6. RowsAreKnown'
      BY <1>1 DEF CatalogueInv, RowsAreKnown, Known, IsAbsence
    <2>7. BasesAreReal'
      <3>1. \A d \in Clients : Writing(d)' => Writing(d)
        BY <2>5 DEF Writing, Flush
      <3>2. \A d \in Clients : tx'[d].base = tx[d].base /\ tx'[d].gtin = tx[d].gtin
        BY <2>4, <2>5
      <3> QED
        BY <1>1, <3>1, <3>2 DEF CatalogueInv, BasesAreReal, Known, IsAbsence
    <2>8. EntriesAreNew'
      <3>1. \A d \in Clients \ {c} : tx'[d] = tx[d]
        BY <2>5
      <3>2. tx'[c].base = None => row[tx'[c].gtin] = None
        BY <1>3, <2>4, <2>5
      <3> QED
        BY <1>1, <3>1, <3>2 DEF CatalogueInv, EntriesAreNew
    <2>9. Writes(new) = Writes(t)
      BY <2>4 DEF Writes, Image
    <2>10. \A g \in Gtins : HoldsRow(c, g)' => g = t.gtin /\ Writes(t)
      BY <2>4, <2>5, <2>9 DEF HoldsRow, Writes, Image
    <2>11. \A d \in Clients, g \in Gtins : d # c => HoldsRow(d, g)' = HoldsRow(d, g)
      BY <2>5, OthersHold
    <2>12. Writes(t) => \A d \in Clients \ {c} : ~HoldsRow(d, t.gtin)
      BY DEF Flush
    <2>13. WritersAreSole'
      BY <2>10, <2>11, <2>12 DEF CatalogueInv, WritersAreSole
    <2> QED
      BY <2>5, <2>6, <2>7, <2>8, <2>13 DEF CatalogueInv
  <1> QED
    BY <1>2, <1>3

(* What is committed: the new row is a product, of the same source as the   *)
(* one it replaces, and a correction keeps all its columns but its age.     *)
LEMMA WrittenIsKnown ==
    ASSUME CatalogueInv, NEW c \in Clients, Commit(c), tx[c].record # None
    PROVE  LET t == tx[c]
               g == t.gtin
           IN  /\ row' = [row EXCEPT ![g] = row'[g]] /\ row'[g] \in Row /\ Known(row'[g])
               /\ t.base = None => row[g] = None
               /\ row[g] # None =>
                    /\ row'[g].source = row[g].source
                    /\ row[g].source = "manual" =>
                         row'[g] = [row[g] EXCEPT !.synced = row'[g].synced]
  <1> DEFINE t == tx[c]
             g == t.gtin
  <1>1. PICK wakes : tx \in [Clients -> TxType(wakes)]
    BY DEF CatalogueInv, Types, Shaped
  <1>2. /\ t \in TxType(wakes) /\ g \in Gtins /\ t.phase = "commit"
        /\ row \in [Gtins -> Row \cup {None}]
    BY <1>1 DEF Commit, CatalogueInv, Types
  <1>3. t.record \in Records /\ t.at \in Times /\ t.base \in Row \cup {None}
    BY <1>2 DEF TxType
  <1>4. CASE t.base = None
    <2>1. row' = [row EXCEPT ![g] = FromRecord(t.record, t.at)]
      BY <1>4 DEF Commit, Kept, Image, Upsert
    <2>2. row'[g] = FromRecord(t.record, t.at)
      BY <1>2, <2>1
    <2>3. row[g] = None
      BY <1>2, <1>4 DEF CatalogueInv, EntriesAreNew
    <2>4. row'[g] \in Row /\ Known(row'[g])
      BY <1>3, <2>2, RecordsMakeRows DEF Known, IsAbsence
    <2> QED
      BY <2>1, <2>2, <2>3, <2>4
  <1>5. CASE t.base # None
    <2> DEFINE image == Upsert(t.base, t.record, t.at)
               next == Changed(row[g], t.base, image)
    <2>1. /\ t.base \in Row /\ Known(t.base)
          /\ row[g] \in Row /\ Known(row[g]) /\ row[g].source = t.base.source
      BY <1>2, <1>3, <1>5 DEF CatalogueInv, BasesAreReal, RowsAreKnown, Writing
    <2>2. /\ image \in Row /\ Known(image) /\ image.source = t.base.source
          /\ t.base.source = "manual" => image = [t.base EXCEPT !.synced = t.at]
      BY <1>3, <2>1, ImagesAreKnown
    <2>3. next \in Row /\ Known(next) /\ next.source = row[g].source
      BY <2>1, <2>2, UpdatesKeepProducts
    <2>4. row[g].source = "manual" => next = [row[g] EXCEPT !.synced = next.synced]
      BY <1>3, <2>1, <2>2, CorrectionsStand
    <2>5. row' = [row EXCEPT ![g] = next]
      BY <1>5 DEF Commit, Kept, Image
    <2>6. row'[g] = next
      BY <1>2, <2>5
    <2>7. Known(row'[g])
      BY <2>3, <2>6
    <2> HIDE DEF next
    <2> QED
      BY <1>5, <2>3, <2>4, <2>5, <2>6, <2>7
  <1> QED
    BY <1>4, <1>5

LEMMA CommitKeeps ==
    ASSUME CatalogueInv, NEW c \in Clients, Commit(c)
    PROVE  CatalogueInv'
  <1> DEFINE t == tx[c]
             g == t.gtin
  <1>1. UNCHANGED <<now, upstream>> /\ tx' = [tx EXCEPT ![c] = IdleTx] /\ t.phase = "commit"
    BY DEF Commit, Answer
  <1>2. CASE t.record = None
    <2>1. row' = row
      BY <1>2 DEF Commit, Kept
    <2>2. Answer(c, g, "notfound")
      BY <1>2 DEF Commit
    <2> QED
      BY <1>1, <2>1, <2>2, AnswerKeeps
  <1>3. CASE t.record # None
    <2>1. /\ row' = [row EXCEPT ![g] = row'[g]] /\ row'[g] \in Row /\ Known(row'[g])
          /\ t.base = None => row[g] = None
          /\ row[g] # None => row'[g].source = row[g].source
      BY <1>3, WrittenIsKnown
    <2>2. PICK wakes : tx \in [Clients -> TxType(wakes)]
      BY DEF CatalogueInv, Types, Shaped
    <2>3. /\ t \in TxType(wakes) /\ g \in Gtins
          /\ row \in [Gtins -> Row \cup {None}] /\ row' \in [Gtins -> Row \cup {None}]
          /\ \A h \in Gtins : h # g => row'[h] = row[h]
      BY <1>1, <2>1, <2>2 DEF CatalogueInv, Types
    <2>4. IdleTx \in TxType({0}) /\ IdleTx.phase = "idle"
      BY IdleIsTyped DEF IdleTx
    <2>5. Types' /\ tx'[c] = IdleTx /\ \A d \in Clients : d # c => tx'[d] = tx[d]
      BY <1>1, <2>3, <2>4, TypesHold DEF CatalogueInv, Types
    <2>6. RowsAreKnown'
      BY <2>1, <2>3 DEF CatalogueInv, RowsAreKnown, Known, IsAbsence
    <2>7. BasesAreReal'
      <3> SUFFICES ASSUME NEW d \in Clients, Writing(d)', tx'[d].base # None
                   PROVE  /\ Known(tx'[d].base) /\ row'[tx'[d].gtin] # None
                          /\ row'[tx'[d].gtin].source = tx'[d].base.source
        BY DEF BasesAreReal, Known, IsAbsence
      <3>1. d # c /\ tx'[d] = tx[d] /\ tx[d].gtin \in Gtins /\ Writing(d)
        BY <2>4, <2>5 DEF Writing, CatalogueInv, Types
      <3>2. /\ Known(tx[d].base) /\ row[tx[d].gtin] # None
            /\ row[tx[d].gtin].source = tx[d].base.source
        BY <3>1 DEF CatalogueInv, BasesAreReal
      <3>3. Known(tx'[d].base)
        BY <3>1, <3>2 DEF Known, IsAbsence
      <3>4. CASE tx[d].gtin = g
        BY <2>1, <3>1, <3>2, <3>3, <3>4, RowAssumption
      <3>5. CASE tx[d].gtin # g
        BY <2>3, <3>1, <3>2, <3>3, <3>5
      <3> QED
        BY <3>4, <3>5
    <2>8. EntriesAreNew'
      <3> SUFFICES ASSUME NEW d \in Clients, tx'[d].phase = "commit", tx'[d].base = None
                   PROVE  row'[tx'[d].gtin] = None
        BY DEF EntriesAreNew
      <3>1. d # c /\ tx'[d] = tx[d] /\ tx[d].gtin \in Gtins /\ tx[d] \in TxType(wakes)
        BY <2>2, <2>4, <2>5 DEF CatalogueInv, Types
      <3>2. row[tx[d].gtin] = None
        BY <3>1 DEF CatalogueInv, EntriesAreNew
      <3>3. HoldsRow(d, tx[d].gtin)
        BY <3>1, ImagesAreRows DEF HoldsRow
      <3>4. CASE tx[d].gtin = g
        <4>1. t.base = None
          BY <1>1, <3>2, <3>4 DEF CatalogueInv, BasesAreReal, Writing
        <4>2. HoldsRow(c, g)
          BY <1>1, <2>3, <4>1, ImagesAreRows DEF HoldsRow
        <4> QED
          BY <2>3, <3>1, <3>3, <3>4, <4>2 DEF CatalogueInv, WritersAreSole
      <3>5. CASE tx[d].gtin # g
        BY <2>3, <3>1, <3>2, <3>5
      <3> QED
        BY <3>4, <3>5
    <2>9. \A d \in Clients, h \in Gtins : HoldsRow(d, h)' => HoldsRow(d, h)
      BY <2>4, <2>5, OthersHold DEF HoldsRow
    <2>10. WritersAreSole'
      BY <2>9 DEF CatalogueInv, WritersAreSole
    <2> QED
      BY <2>5, <2>6, <2>7, <2>8, <2>10 DEF CatalogueInv
  <1> QED
    BY <1>2, <1>3

(* What is done by nobody, or to a worker: clients at most fall idle.       *)
LEMMA IdlersKeep ==
    ASSUME CatalogueInv, NEW Stopped \in SUBSET Clients,
           tx' = [c \in Clients |-> IF c \in Stopped THEN IdleTx ELSE tx[c]],
           row' = row, now' \in Times, upstream' \in [Gtins -> Records \cup {None}]
    PROVE  CatalogueInv'
  <1>1. PICK wakes : tx \in [Clients -> TxType(wakes)]
    BY DEF CatalogueInv, Types, Shaped
  <1>2. IdleTx \in TxType({0}) /\ IdleTx.phase = "idle"
    BY IdleIsTyped DEF IdleTx
  <1>3. IdleTx \in TxType(wakes \cup {0}) /\ TxType(wakes) \subseteq TxType(wakes \cup {0})
    BY <1>2 DEF TxType
  <1>4. tx' \in [Clients -> TxType(wakes \cup {0})]
    BY <1>1, <1>3
  <1>5. \A d \in Clients : tx'[d].phase # "idle" => tx'[d] = tx[d]
    BY <1>2
  <1>6. Types'
    BY <1>4, <1>5 DEF CatalogueInv, Types, Shaped
  <1>7. RowsAreKnown'
    BY DEF CatalogueInv, RowsAreKnown, Known, IsAbsence
  <1>8. BasesAreReal'
    BY <1>5 DEF CatalogueInv, BasesAreReal, Writing, Known, IsAbsence
  <1>9. EntriesAreNew'
    BY <1>5 DEF CatalogueInv, EntriesAreNew
  <1>10. \A d \in Clients, g \in Gtins : HoldsRow(d, g)' => HoldsRow(d, g)
    <2> TAKE d \in Clients, g \in Gtins
    <2>1. CASE tx'[d].phase = "idle"
      BY <2>1 DEF HoldsRow
    <2>2. CASE tx'[d].phase # "idle"
      BY <1>5, <2>2, OthersHold
    <2> QED
      BY <2>1, <2>2
  <1>11. WritersAreSole'
    BY <1>10 DEF CatalogueInv, WritersAreSole
  <1> QED
    BY <1>6, <1>7, <1>8, <1>9, <1>11 DEF CatalogueInv

LEMMA IdleStep ==
    ASSUME CatalogueInv, UNCHANGED <<tx, row>>, now' \in Times,
           upstream' \in [Gtins -> Records \cup {None}]
    PROVE  CatalogueInv'
  <1>1. tx' = [c \in Clients |-> IF c \in {} THEN IdleTx ELSE tx[c]]
    BY DEF CatalogueInv, Types, Shaped
  <1>2. {} \in SUBSET Clients /\ row' = row
    OBVIOUS
  <1> QED
    BY <1>1, <1>2, IdlersKeep

LEMMA RestartKeeps ==
    ASSUME CatalogueInv, NEW w \in Workers, Restart(w)
    PROVE  CatalogueInv'
  <1> DEFINE Stopped == {c \in Clients : WorkerOf[c] = w}
  <1>1. tx' = [c \in Clients |-> IF c \in Stopped THEN IdleTx ELSE tx[c]]
    BY DEF Restart
  <1>2. UNCHANGED <<now, upstream, row>>
    BY DEF Restart
  <1> QED
    BY <1>1, <1>2, IdlersKeep DEF CatalogueInv, Types

LEMMA InterruptKeeps ==
    ASSUME CatalogueInv, NEW c \in Clients, Interrupt(c)
    PROVE  CatalogueInv'
  BY AnswerKeeps DEF Interrupt

-----------------------------------------------------------------------------
(* The invariant.                                                           *)

LEMMA InitIsGood == Init => CatalogueInv
  <1> SUFFICES ASSUME Init PROVE CatalogueInv
    OBVIOUS
  <1>1. 0 \in Times
    BY CatalogueAssumption DEF Times
  <1>2. \A g \in Gtins : row[g] \in Row \cup {None} /\ (row[g] # None => Known(row[g]))
    BY <1>1, RecordsMakeRows, CorrectionsAreRows DEF Init
  <1>3. row \in [Gtins -> Row \cup {None}] /\ RowsAreKnown
    BY <1>2 DEF Init, RowsAreKnown
  <1>4. IdleTx \in TxType({0}) /\ IdleTx.phase = "idle"
    BY IdleIsTyped DEF IdleTx
  <1>5. tx \in [Clients -> TxType({0})] /\ \A c \in Clients : tx[c].phase = "idle"
    BY <1>4 DEF Init
  <1>6. Types
    BY <1>1, <1>3, <1>5 DEF Init, Types, Shaped
  <1> QED
    BY <1>3, <1>5, <1>6
       DEF CatalogueInv, BasesAreReal, EntriesAreNew, WritersAreSole, HoldsRow, Writing

LEMMA StepKeeps == CatalogueInv /\ [Next]_vars => CatalogueInv'
  <1> SUFFICES ASSUME CatalogueInv, [Next]_vars PROVE CatalogueInv'
    OBVIOUS
  <1>1. ASSUME NEW c \in Clients, NEW g \in Gtins, Lookup(c, g) PROVE CatalogueInv'
    BY <1>1, LookupKeeps
  <1>2. ASSUME NEW c \in Clients, Serve(c) PROVE CatalogueInv'
    BY <1>2, AcquireKeeps, AskKeeps, StoreKeeps, FlushKeeps, CommitKeeps DEF Serve
  <1>3. ASSUME NEW c \in Clients, Interrupt(c) PROVE CatalogueInv'
    BY <1>3, InterruptKeeps
  <1>4. ASSUME NEW w \in Workers, Restart(w) PROVE CatalogueInv'
    BY <1>4, RestartKeeps
  <1>5. ASSUME NEW g \in Gtins \ Internal, Edit(g) PROVE CatalogueInv'
    BY <1>5, IdleStep DEF Edit, CatalogueInv, Types
  <1>6. CASE Tick
    BY <1>6, IdleStep, CatalogueAssumption DEF Tick, CatalogueInv, Types, Times
  <1>7. CASE UNCHANGED vars
    BY <1>7, IdleStep DEF vars, CatalogueInv, Types
  <1> QED
    BY <1>1, <1>2, <1>3, <1>4, <1>5, <1>6, <1>7 DEF Next, Finished

THEOREM CatalogueIsSound == Spec => []CatalogueInv
  BY InitIsGood, StepKeeps, PTL DEF Spec

-----------------------------------------------------------------------------
(* A row changes only when a lookup that found a product commits.           *)
LEMMA StepsKeepProducts ==
    ASSUME CatalogueInv, [Next]_vars, NEW g \in Gtins, Known(row[g])
    PROVE  /\ Known(row'[g])
           /\ row[g].source = "manual" => row'[g] = [row[g] EXCEPT !.synced = row'[g].synced]
  <1>1. row[g] \in Row
    BY DEF CatalogueInv, Types, Known
  <1>2. CASE row'[g] = row[g]
    BY <1>1, <1>2 DEF Known, IsAbsence, Row
  <1>3. ASSUME NEW c \in Clients, Commit(c), tx[c].record # None, row'[g] # row[g]
        PROVE  /\ Known(row'[g])
               /\ row[g].source = "manual" => row'[g] = [row[g] EXCEPT !.synced = row'[g].synced]
    <2>1. row' = [row EXCEPT ![tx[c].gtin] = row'[tx[c].gtin]]
      BY <1>3, WrittenIsKnown
    <2>2. tx[c].gtin = g
      BY <1>3, <2>1 DEF CatalogueInv, Types
    <2> QED
      BY <1>1, <1>3, <2>2, WrittenIsKnown, RowAssumption
  <1>4. ASSUME NEW c \in Clients, Commit(c), tx[c].record = None PROVE row' = row
    BY <1>4, SMTT(20) DEF Commit, Kept
  <1>5. row' # row => \E c \in Clients : Commit(c)
    BY DEF Next, Serve, Lookup, Acquire, Ask, Store, Flush, Interrupt, Restart, Edit, Tick,
           Finished, vars
  <1> QED
    BY <1>2, <1>3, <1>4, <1>5

(* "A known product that has since disappeared upstream keeps its data"     *)
(* (remember_absent), and what a human corrected outlives every refresh     *)
(* (upsert_public), whatever lookups cross one another.                     *)
THEOREM KnownProductsAreKept == Spec => KnownIsKept
  <1>1. CatalogueInv /\ [Next]_vars =>
          [\A g \in Gtins : Known(row[g]) =>
             /\ Known(row'[g])
             /\ row[g].source = "manual" => row'[g] = [row[g] EXCEPT !.synced = row'[g].synced]]_vars
    BY StepsKeepProducts
  <1> QED
    BY <1>1, CatalogueIsSound, PTL DEF Spec, KnownIsKept

(* The same of the catalogue in the service.                                *)
THEOREM ServiceKeepsProducts == ServiceSpec => KnownIsKept
  BY KnownProductsAreKept, ServiceStarts, ServiceSteps, PTL DEF ServiceSpec, Spec

-----------------------------------------------------------------------------
(* What is inherited: the keys and the memberships.                         *)
SP == INSTANCE SealingProofs WITH
        Rows <- SealedRows, Existing <- ExistingKeys, Ids <- RowIds,
        MaxRequests <- WithSealing, MaxEvents <- WithSealing, tx <- stx, issued <- sissued

MP == INSTANCE MembershipsProofs WITH
        Requests <- MembershipRequests, MaxRequests <- WithMemberships,
        accounts <- people, members <- roles, tokens <- keys,
        tx <- mtx, reply <- mreply, issued <- missued

(* The keys.                                                                *)
LEMMA SealingReadsAlike ==
    /\ SP!SealingAssumption
    /\ S!Init => SP!Init
    /\ [S!Next]_sealing => [SP!Next]_SP!vars
    /\ SP!KeysOpenOnlyAtHome <=> S!KeysOpenOnlyAtHome
<1> USE DEF S!Domains, SP!Domains, S!stored, SP!stored, S!vars, SP!vars, S!Aad, SP!Aad, S!Ciphertexts,
         SP!Ciphertexts, S!StoredRows, SP!StoredRows, S!Dues, SP!Dues, S!Failures,
         SP!Failures, S!Encrypt, SP!Encrypt, S!Failure, SP!Failure, S!Told, SP!Told, S!Idle,
         SP!Idle, S!NoAnswer, SP!NoAnswer, S!Go, SP!Go, S!Answer, SP!Answer, S!Refuse,
         SP!Refuse, S!Live, SP!Live, S!Taken, SP!Taken, S!Begin, SP!Begin, S!ReadRow,
         SP!ReadRow, S!SealInto, SP!SealInto, S!Archive, SP!Archive, S!Load, SP!Load,
         S!SealedCredential, SP!SealedCredential, S!Decrypt, SP!Decrypt, S!Stopped,
         SP!Stopped, S!Restart, SP!Restart, S!Backup, SP!Backup, S!Restore, SP!Restore,
         S!Spoil, SP!Spoil, S!Carry, SP!Carry, S!Truncate, SP!Truncate, S!Finished,
         SP!Finished
<1>1. SP!SealingAssumption
  BY KeysAssumption DEF S!SealingAssumption, SP!SealingAssumption
<1>2. S!Init => SP!Init
  BY DEF S!Init, SP!Init
<1>3. [S!Next]_sealing => [SP!Next]_SP!vars
  BY DEF S!Next, SP!Next, sealing
<1>4. SP!KeysOpenOnlyAtHome <=> S!KeysOpenOnlyAtHome
  BY DEF SP!KeysOpenOnlyAtHome, S!KeysOpenOnlyAtHome
<1> QED
  BY <1>1, <1>2, <1>3, <1>4

(* security-model.md: a credential opens for the row and the household it   *)
(* was entered for, after any restart, restore or repair of the columns.    *)
THEOREM KeysOpenAtHome == ServiceSpec => []KeysOpenOnlyAtHome
<1>1. SP!Spec => []SP!KeysOpenOnlyAtHome
  BY SealingReadsAlike, SP!SecretsOpenAtHome
<1>2. ServiceSpec => SP!Spec
  BY SealingReadsAlike, ServiceStarts, ServiceSteps, PTL DEF ServiceSpec, SP!Spec
<1>3. SP!KeysOpenOnlyAtHome => KeysOpenOnlyAtHome
  BY SealingReadsAlike DEF KeysOpenOnlyAtHome
<1> QED
  BY <1>1, <1>2, <1>3, PTL

-----------------------------------------------------------------------------
(* The memberships.                                                         *)
LEMMA MembershipsReadAlike ==
    /\ MP!MembershipsAssumption
    /\ M!Init => MP!Init
    /\ [M!Next]_belonging => [MP!Next]_MP!vars
    /\ MP!ErasureIsComplete <=> M!ErasureIsComplete
    /\ MP!MembershipsAreSound <=> M!MembershipsAreSound
<1> USE DEF M!Roles, MP!Roles, M!Ops, MP!Ops, M!Request, MP!Request, M!stored, MP!stored, M!vars,
         MP!vars, M!Invitation, MP!Invitation, M!Token, MP!Token, M!WellFormed,
         MP!WellFormed, M!HouseholdRow, MP!HouseholdRow, M!AccountRow, MP!AccountRow,
         M!MemberRow, MP!MemberRow, M!InvitationRow, MP!InvitationRow, M!TokenRow,
         MP!TokenRow, M!Stored, MP!Stored, M!Live, MP!Live, M!Expired, MP!Expired,
         M!Resolves, MP!Resolves, M!TokenResolves, MP!TokenResolves, M!Pending, MP!Pending,
         M!Held, MP!Held, M!Owners, MP!Owners, M!IdleTx, MP!IdleTx, M!NoReply, MP!NoReply,
         M!GuestOf, MP!GuestOf, M!Go, MP!Go, M!Answer, MP!Answer, M!Rollback, MP!Rollback,
         M!Fresh, MP!Fresh, M!Handed, MP!Handed, M!Dead, MP!Dead, M!Revocable, MP!Revocable, M!Spendable, MP!Spendable, M!Root, MP!Root,
         M!OfHousehold, MP!OfHousehold, M!Ended, MP!Ended, M!Dependents, MP!Dependents,
         M!Written, MP!Written, M!Shared, MP!Shared, M!Living, MP!Living, M!WaitsFor,
         MP!WaitsFor, M!Free, MP!Free, M!Write, MP!Write, M!Required, MP!Required, M!First,
         MP!First, M!LastOwner, MP!LastOwner, M!HalfRecorded, MP!HalfRecorded, M!Erases, MP!Erases, M!MembersAfter, MP!MembersAfter, M!Redeemed,
         MP!Redeemed, M!InvitationsAfter, MP!InvitationsAfter, M!TokensAfter,
         MP!TokensAfter, M!StillLate, MP!StillLate, M!Deadlocked, MP!Deadlocked,
         MP!Serve
<1>1. MP!MembershipsAssumption
  BY BelongingAssumption DEF M!MembershipsAssumption, MP!MembershipsAssumption
<1>2. M!Init => MP!Init
  BY DEF M!Init, MP!Init
<1>3. [M!Next]_belonging => [MP!Next]_MP!vars
  <2>1. ASSUME NEW c \in Clients PROVE M!Authorise(c) <=> MP!Authorise(c)
    BY DEF M!Authorise, MP!Authorise
  <2>2. ASSUME NEW c \in Clients PROVE M!CountHeld(c) <=> MP!CountHeld(c)
    BY DEF M!CountHeld, MP!CountHeld, M!Cardinality, MP!Cardinality
  <2>3. ASSUME NEW c \in Clients PROVE M!Insert(c) <=> MP!Insert(c)
    BY DEF M!Insert, MP!Insert
  <2>4. ASSUME NEW c \in Clients PROVE M!Revoke(c) <=> MP!Revoke(c)
    BY DEF M!Revoke, MP!Revoke
  <2>5. ASSUME NEW c \in Clients PROVE M!Resolve(c) <=> MP!Resolve(c)
    BY DEF M!Resolve, MP!Resolve
  <2>6. ASSUME NEW c \in Clients PROVE M!CheckMember(c) <=> MP!CheckMember(c)
    BY DEF M!CheckMember, MP!CheckMember
  <2>7. ASSUME NEW c \in Clients PROVE M!Spend(c) <=> MP!Spend(c)
    BY DEF M!Spend, MP!Spend
  <2>8. ASSUME NEW c \in Clients PROVE M!Join(c) <=> MP!Join(c)
    BY DEF M!Join, MP!Join
  <2>9. ASSUME NEW c \in Clients PROVE M!CheckActor(c) <=> MP!CheckActor(c)
    BY DEF M!CheckActor, MP!CheckActor
  <2>10. ASSUME NEW c \in Clients PROVE M!CheckTarget(c) <=> MP!CheckTarget(c)
    BY DEF M!CheckTarget, MP!CheckTarget, M!Cardinality, MP!Cardinality
  <2>11. ASSUME NEW c \in Clients PROVE M!DeleteMember(c) <=> MP!DeleteMember(c)
    BY DEF M!DeleteMember, MP!DeleteMember
  <2>12. ASSUME NEW c \in Clients PROVE M!UseToken(c) <=> MP!UseToken(c)
    BY DEF M!UseToken, MP!UseToken
  <2>13. ASSUME NEW c \in Clients PROVE M!Touch(c) <=> MP!Touch(c)
    BY DEF M!Touch, MP!Touch
  <2>14. ASSUME NEW c \in Clients PROVE M!Survey(c) <=> MP!Survey(c)
    BY DEF M!Survey, MP!Survey
  <2>15. ASSUME NEW c \in Clients PROVE M!DeleteRoot(c) <=> MP!DeleteRoot(c)
    BY DEF M!DeleteRoot, MP!DeleteRoot
  <2>16. ASSUME NEW c \in Clients PROVE M!Cascade(c) <=> MP!Cascade(c)
    BY DEF M!Cascade, MP!Cascade
  <2>17. ASSUME NEW c \in Clients PROVE M!Commit(c) <=> MP!Commit(c)
    BY DEF M!Commit, MP!Commit
  <2>18. ASSUME NEW c \in Clients PROVE M!DeadlockVictim(c) <=> MP!DeadlockVictim(c)
    BY DEF M!DeadlockVictim, MP!DeadlockVictim
  <2>19. ASSUME NEW c \in Clients PROVE M!Interrupt(c) <=> MP!Interrupt(c)
    BY DEF M!Interrupt, MP!Interrupt
  <2>20. ASSUME NEW c \in Clients, NEW req \in MembershipRequests PROVE M!Begin(c, req) <=> MP!Begin(c, req)
    BY DEF M!Begin, MP!Begin
  <2>21. ASSUME NEW i \in Invitations PROVE M!Expire(i) <=> MP!Expire(i)
    BY DEF M!Expire, MP!Expire
  <2>22. M!Finished <=> MP!Finished
    BY DEF M!Finished, MP!Finished
  <2> QED
    BY <2>1, <2>2, <2>3, <2>4, <2>5, <2>6, <2>7, <2>8, <2>9, <2>10, <2>11, <2>12, <2>13, <2>14, <2>15, <2>16, <2>17, <2>18, <2>19, <2>20, <2>21, <2>22 DEF M!Next, MP!Next, M!Serve, MP!Serve, belonging
<1>4. MP!ErasureIsComplete <=> M!ErasureIsComplete
  BY DEF MP!ErasureIsComplete, M!ErasureIsComplete
<1>5. MP!MembershipsAreSound <=> M!MembershipsAreSound
  BY DEF MP!MembershipsAreSound, M!MembershipsAreSound, MP!HouseholdsKeepAnOwner, M!HouseholdsKeepAnOwner,
         MP!MembershipsAreEarned, M!MembershipsAreEarned
<1> QED
  BY <1>1, <1>2, <1>3, <1>4, <1>5

LEMMA ServiceRunsMemberships == ServiceSpec => MP!Spec
  BY MembershipsReadAlike, ServiceStarts, ServiceSteps, PTL DEF ServiceSpec, MP!Spec

(* privacy.py, erase: once an erasure has committed, no row of what it      *)
(* erased is left, whoever was being invited or admitted meanwhile.         *)
THEOREM ErasuresAreComplete == ServiceSpec => []ErasureIsComplete
<1>1. MP!Spec => []MP!ErasureIsComplete
  BY MembershipsReadAlike, MP!ErasureLeavesNothing
<1>2. MP!ErasureIsComplete => ErasureIsComplete
  BY MembershipsReadAlike DEF ErasureIsComplete
<1> QED
  BY <1>1, <1>2, ServiceRunsMemberships, PTL

(* memberships.py: a household that stands has an owner, and every other    *)
(* member came by an invitation of its own, spent once.                     *)
THEOREM MembershipsStaySound == ServiceSpec => []MembershipsAreSound
<1>1. MP!Spec => []MP!MembershipsAreSound
  BY MembershipsReadAlike, MP!MembershipsStaySound
<1>2. MP!MembershipsAreSound => MembershipsAreSound
  BY MembershipsReadAlike DEF MembershipsAreSound
<1> QED
  BY <1>1, <1>2, ServiceRunsMemberships, PTL

(* What was withdrawn, spent or expired before a request presents it gets   *)
(* that request nothing.                                                    *)
THEOREM WithdrawnGetsNothing == ServiceSpec => WithdrawnIsFinal
<1> DEFINE Refused == \A c \in Clients :
              mtx[c].late /\ mtx'[c].phase = "idle" => mreply'[c].outcome # "ok"
<1>1. MP!Spec => [][Refused]_MP!vars
  BY MembershipsReadAlike, MP!WithdrawnGetsNothing DEF MP!WithdrawnIsFinal
<1>2. [Refused]_MP!vars => [Refused]_M!vars
  BY DEF MP!vars, M!vars, MP!stored, M!stored
<1>3. [][Refused]_MP!vars => [][Refused]_M!vars
  BY <1>2, PTL
<1> QED
  BY <1>1, <1>3, ServiceRunsMemberships DEF WithdrawnIsFinal, M!WithdrawnIsFinal
=============================================================================
