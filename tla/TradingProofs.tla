--------------------------- MODULE TradingProofs ---------------------------
(***************************************************************************)
(* The paper-trading ledger and the price alerts: the two parts of the     *)
(* market code whose sums are over tables, so both use the lemmas about    *)
(* the library's sum, which rest on the least-number principle.            *)
(*                                                                         *)
(* The ledger, for any sessions, jobs, markets, stocks, prices and fees,   *)
(* as long as no session commits over what it read too early: a position   *)
(* is closed by one trade, a stock is held once, and the cash and the      *)
(* totals are those the trades and the positions account for.  IInv says   *)
(* what a session that is not stale may rely on: the rows it loaded are    *)
(* the rows in the table, what it means to open is not held, and what it   *)
(* means to close is open.  Books says that the account such a session has *)
(* in hand is the one in the table with the session's own work added.      *)
(*                                                                         *)
(* The alerts, for any scans, rules, limits, edits and crashes: a minute's *)
(* hit and its notification go together, and a rule not raced keeps its    *)
(* repeat mode, its cooldown and its daily limit.  AlertIInv says what a   *)
(* scan that has passed the gate still may rely on (Grip), what was sent   *)
(* (Notified), which triggers are on record (Recorded), and how many       *)
(* notifications the counts in the table, and in rows held, leave room for.*)
(***************************************************************************)
EXTENDS PaperTrading, PriceAlertScan, WellFoundedInduction, FiniteSetTheorems, TLAPS

-----------------------------------------------------------------------------
(* The ledger: its invariant.                                              *)

Sequence(q) == \E S : q \in Seq(S)

Places == {"idle", "signals", "quotes", "entries", "exits", "examine", "manual", "settings"}

ARow(p) == p = [serial |-> p.serial, stock |-> p.stock, price |-> p.price,
                lots |-> p.lots, open |-> p.open]

Shape ==
    /\ \A i \in DOMAIN positions : ARow(positions[i])
    /\ Sequence(positions) /\ Sequence(trades) /\ opened \in Nat
    /\ DOMAIN pc = Sessions /\ DOMAIN todo = Sessions /\ DOMAIN opening = Sessions
    /\ DOMAIN loaded = Sessions /\ DOMAIN closing = Sessions
    /\ \A s \in Sessions :
          pc[s] \in Places /\ Sequence(opening[s]) /\ IsFiniteSet(closing[s])
    /\ crossed \in BOOLEAN

\* What a session holds at each place of its work.
Outset ==
    \A s \in Sessions :
        /\ pc[s] \in {"idle", "signals", "quotes", "settings"} => opening[s] = <<>>
        /\ pc[s] \notin {"examine", "manual"} => loaded[s] = {}
        /\ pc[s] # "examine" => closing[s] = {}

\* Positions and trades are told apart by their serials, and a traded position
\* is closed.
SerialsHold ==
    /\ \A i \in DOMAIN positions : positions[i].serial \in 1..opened
    /\ \A i, j \in DOMAIN positions : positions[i].serial = positions[j].serial => i = j
    /\ \A j \in DOMAIN trades : trades[j].serial \in 1..opened
    /\ \A j, k \in DOMAIN trades : trades[j].serial = trades[k].serial => j = k
    /\ \A i \in OpenIds, j \in DOMAIN trades : positions[i].serial # trades[j].serial

HeldOnce == \A i, j \in OpenIds : positions[i].stock = positions[j].stock => i = j

\* What a scan is about to open is not held, nor twice among its entries.
Apart(s) ==
    pc[s] \in {"quotes", "entries"} =>
        /\ todo[s] \cap OpenStocks = {}
        /\ todo[s] \cap NewStocks(s) = {}
        /\ NewStocks(s) \cap OpenStocks = {}
        /\ \A i, j \in DOMAIN opening[s] : opening[s][i].stock = opening[s][j].stock => i = j

\* What it has loaded is in the table, and open.
LoadedSound(s) ==
    /\ \A row \in loaded[s] : row.id \in OpenIds /\ row.pos = positions[row.id]
    /\ \A q, r \in loaded[s] : q.id = r.id => q = r

\* What it is about to close is open, each position once.
ClosingSound(s) ==
    /\ \A c \in closing[s] : c.id \in OpenIds /\ c.trade.serial = positions[c.id].serial
    /\ \A c, d \in closing[s] : c.id = d.id => c = d

Own(s) ==
    /\ Apart(s) /\ LoadedSound(s) /\ ClosingSound(s)
    /\ \A row \in loaded[s], c \in closing[s] : row.id # c.id

Core == SerialsHold /\ HeldOnce

IInv ==
    /\ Shape /\ Outset
    /\ ~crossed => Core /\ \A s \in Sessions \ stale : Own(s)

-----------------------------------------------------------------------------
(* Sequences whose elements are of no interest.                            *)

LEMMA Positions ==
    ASSUME NEW q, Sequence(q)
    PROVE  Len(q) \in Nat /\ DOMAIN q = 1..Len(q) /\ q = [i \in 1..Len(q) |-> q[i]]
  <1>1. PICK S : q \in Seq(S)
    BY DEF Sequence
  <1> QED
    BY <1>1

LEMMA AFunction ==
    ASSUME NEW n \in Nat, NEW q, DOMAIN q = 1..n, q = [i \in 1..n |-> q[i]]
    PROVE  Sequence(q) /\ Len(q) = n
  <1> DEFINE S == {q[i] : i \in 1..n}
  <1>1. q \in [1..n -> S]
    OBVIOUS
  <1>2. q \in Seq(S)
    BY <1>1
  <1>3. Len(q) = n
    BY <1>1
  <1> QED
    BY <1>2, <1>3 DEF Sequence

LEMMA Concatenation ==
    ASSUME NEW a, NEW b, Sequence(a), Sequence(b)
    PROVE  /\ Sequence(a \o b)
           /\ DOMAIN (a \o b) = 1..(Len(a) + Len(b))
           /\ \A i \in 1..Len(a) : (a \o b)[i] = a[i]
           /\ \A i \in 1..Len(b) : (a \o b)[Len(a) + i] = b[i]
  <1>1. PICK S : a \in Seq(S)
    BY DEF Sequence
  <1>2. PICK T : b \in Seq(T)
    BY DEF Sequence
  <1>3. a \in Seq(S \cup T) /\ b \in Seq(S \cup T)
    <2>1. a \in [1..Len(a) -> S \cup T] /\ b \in [1..Len(b) -> S \cup T]
      BY <1>1, <1>2
    <2>2. Len(a) \in Nat /\ Len(b) \in Nat
      BY <1>1, <1>2
    <2> QED
      BY <2>1, <2>2
  <1>4. a \o b \in Seq(S \cup T)
    BY <1>3
  <1> QED
    BY <1>3, <1>4 DEF Sequence

LEMMA Appending ==
    ASSUME NEW a, NEW x, Sequence(a)
    PROVE  /\ Sequence(Append(a, x))
           /\ DOMAIN Append(a, x) = 1..(Len(a) + 1)
           /\ \A i \in 1..Len(a) : Append(a, x)[i] = a[i]
           /\ Append(a, x)[Len(a) + 1] = x
  <1>1. PICK S : a \in Seq(S)
    BY DEF Sequence
  <1>2. a \in Seq(S \cup {x}) /\ x \in S \cup {x}
    <2>1. a \in [1..Len(a) -> S \cup {x}] /\ Len(a) \in Nat
      BY <1>1
    <2> QED
      BY <2>1
  <1>3. Append(a, x) \in Seq(S \cup {x})
    BY <1>2
  <1> QED
    BY <1>2, <1>3 DEF Sequence

\* The order a set of trades is written in.
LEMMA AnyOrder ==
    ASSUME NEW S, IsFiniteSet(S)
    PROVE  /\ Sequence(SetToSeq(S))
           /\ \A i \in DOMAIN SetToSeq(S) : SetToSeq(S)[i] \in S
           /\ \A i, j \in DOMAIN SetToSeq(S) : SetToSeq(S)[i] = SetToSeq(S)[j] => i = j
  <1> DEFINE n == Cardinality(S)
  <1>1. n \in Nat /\ \E f : f \in Bijection(1..n, S)
    BY FS_CardinalityType DEF ExistsBijection
  <1>2. \E f \in [1..n -> S] : IsInjective(f)
    BY <1>1 DEF Bijection, Injection, IsInjective
  <1>3. SetToSeq(S) \in [1..n -> S] /\ IsInjective(SetToSeq(S))
    BY <1>2 DEF SetToSeq
  <1>4. Sequence(SetToSeq(S))
    <2> HIDE DEF n
    <2>1. SetToSeq(S) \in Seq(S)
      BY <1>1, <1>3
    <2> QED
      BY <2>1 DEF Sequence
  <1> QED
    BY <1>3, <1>4 DEF IsInjective

-----------------------------------------------------------------------------
(* Sessions that hold nothing, and steps that leave the tables alone.      *)

LEMMA NothingHeld ==
    ASSUME Outset, NEW s \in Sessions,
           pc[s] \notin {"quotes", "entries", "examine", "manual"}
    PROVE  Own(s)
BY DEF Outset, Own, Apart, LoadedSound, ClosingSound

\* The sessions of which nothing changed keep what they rely on.
LEMMA OthersKeep ==
    ASSUME NEW t \in Sessions, Own(t), UNCHANGED <<positions>>,
           pc'[t] = pc[t], todo'[t] = todo[t], opening'[t] = opening[t],
           loaded'[t] = loaded[t], closing'[t] = closing[t]
    PROVE  Own(t)'
BY DEF Own, Apart, LoadedSound, ClosingSound, NewStocks, OpenStocks, OpenIds

LEMMA TablesKeep ==
    ASSUME Core, UNCHANGED <<positions, trades, opened>>
    PROVE  Core'
BY DEF Core, SerialsHold, HeldOnce, OpenIds

\* f becomes g, and nothing changes but for s.
OnlyAt(s, f, g) == DOMAIN g = DOMAIN f /\ \A t \in Sessions \ {s} : g[t] = f[t]

Alone(s) ==
    /\ OnlyAt(s, pc, pc') /\ OnlyAt(s, todo, todo') /\ OnlyAt(s, opening, opening')
    /\ OnlyAt(s, loaded, loaded') /\ OnlyAt(s, closing, closing')
    /\ pc'[s] \in Places /\ Sequence(opening'[s]) /\ IsFiniteSet(closing'[s])

\* A step of one session that leaves the tables and the others alone.
Private(s) ==
    /\ UNCHANGED <<positions, trades, opened, crossed>>
    /\ stale' \in {stale, stale \ {s}}
    /\ Alone(s)

HoldsLittle(s) ==
    /\ pc[s] \in {"idle", "signals", "quotes", "settings"} => opening[s] = <<>>
    /\ pc[s] \notin {"examine", "manual"} => loaded[s] = {}
    /\ pc[s] # "examine" => closing[s] = {}

LEMMA SessionsShape ==
    ASSUME IInv, NEW s \in Sessions, Alone(s), HoldsLittle(s)'
    PROVE  /\ DOMAIN pc' = Sessions /\ DOMAIN todo' = Sessions /\ DOMAIN opening' = Sessions
           /\ DOMAIN loaded' = Sessions /\ DOMAIN closing' = Sessions
           /\ \A t \in Sessions :
                 pc'[t] \in Places /\ Sequence(opening'[t]) /\ IsFiniteSet(closing'[t])
           /\ Outset'
  <1>1. \A t \in Sessions \ {s} : /\ pc'[t] = pc[t] /\ opening'[t] = opening[t]
                                  /\ loaded'[t] = loaded[t] /\ closing'[t] = closing[t]
    BY DEF Alone, OnlyAt
  <1>2. \A t \in Sessions :
            pc'[t] \in Places /\ Sequence(opening'[t]) /\ IsFiniteSet(closing'[t])
    BY <1>1 DEF IInv, Shape, Alone
  <1>3. Outset'
    BY <1>1 DEF IInv, Outset, HoldsLittle
  <1> QED
    BY <1>2, <1>3 DEF IInv, Shape, Alone, OnlyAt

LEMMA PrivateStep ==
    ASSUME IInv, NEW s \in Sessions, Private(s), HoldsLittle(s)',
           ~crossed /\ s \notin stale' => Own(s)'
    PROVE  IInv'
  <1>1. Alone(s) /\ UNCHANGED <<positions, trades, opened, crossed>>
    BY DEF Private
  <1>2. Shape' /\ Outset'
    BY <1>1, SessionsShape DEF IInv, Shape
  <1>3. ASSUME ~crossed'
        PROVE  Core' /\ \A t \in Sessions \ stale' : Own(t)'
    <2>1. ~crossed /\ Core /\ \A t \in Sessions \ stale : Own(t)
      BY <1>1, <1>3 DEF IInv
    <2>2. Core'
      BY <1>1, <2>1, TablesKeep
    <2>3. ASSUME NEW t \in Sessions \ stale', t # s
          PROVE  Own(t)'
      <3>1. Own(t) /\ t \in Sessions \ {s}
        BY <2>1, <2>3 DEF Private
      <3>2. /\ pc'[t] = pc[t] /\ todo'[t] = todo[t] /\ opening'[t] = opening[t]
            /\ loaded'[t] = loaded[t] /\ closing'[t] = closing[t]
        BY <1>1, <3>1 DEF Alone, OnlyAt
      <3> QED
        BY <1>1, <3>1, <3>2, OthersKeep
    <2> QED
      BY <2>1, <2>2, <2>3
  <1> QED
    BY <1>2, <1>3 DEF IInv

\* What a session may rely on while it is under way and nobody has committed.
LEMMA Relies ==
    ASSUME IInv, NEW s \in Sessions, ~crossed, s \notin stale
    PROVE  Own(s) /\ Core
BY DEF IInv

-----------------------------------------------------------------------------
(* The steps before a commit.                                              *)

LEMMA NothingThere == Sequence(<<>>) /\ IsFiniteSet({})
  <1>1. <<>> \in Seq({})
    OBVIOUS
  <1> QED
    BY <1>1, FS_EmptySet DEF Sequence

LEMMA FinishedShape ==
    ASSUME IInv, NEW s \in Sessions, Finished(s)
    PROVE  /\ pc'[s] = "idle" /\ todo'[s] = {} /\ opening'[s] = <<>>
           /\ loaded'[s] = {} /\ closing'[s] = {}
           /\ Alone(s) /\ HoldsLittle(s)' /\ Own(s)'
  <1>1. /\ pc'[s] = "idle" /\ todo'[s] = {} /\ opening'[s] = <<>>
        /\ loaded'[s] = {} /\ closing'[s] = {}
    BY DEF IInv, Shape, Finished
  <1>2. Alone(s)
    BY <1>1, NothingThere DEF IInv, Shape, Finished, Alone, OnlyAt, Places
  <1>3. HoldsLittle(s)' /\ Own(s)'
    BY <1>1 DEF HoldsLittle, Own, Apart, LoadedSound, ClosingSound
  <1> QED
    BY <1>1, <1>2, <1>3

LEMMA EndsQuietly ==
    ASSUME IInv, NEW s \in Sessions, Finished(s), Leaves(s), UNCHANGED rows
    PROVE  IInv'
  <1>1. Private(s)
    BY FinishedShape DEF Private, Leaves, rows
  <1> QED
    BY <1>1, FinishedShape, PrivateStep

\* A session moves on, and what it has put together stays.
LEMMA MovesOn ==
    ASSUME IInv, NEW s \in Sessions, NEW place \in Places,
           pc' = [pc EXCEPT ![s] = place],
           UNCHANGED <<positions, trades, opened, opening, loaded, closing, history>>,
           OnlyAt(s, todo, todo'),
           HoldsLittle(s)', ~crossed /\ s \notin stale => Own(s)'
    PROVE  IInv'
  <1>1. Alone(s)
    BY DEF IInv, Shape, Alone, OnlyAt
  <1>2. Private(s)
    BY <1>1 DEF Private, history
  <1> QED
    BY <1>2, PrivateStep DEF history

LEMMA Beginnings ==
    ASSUME IInv, NEW s \in Sessions, ScanBegins(s) \/ SettingsBegins(s)
    PROVE  IInv'
  <1>1. pc[s] = "idle" /\ opening[s] = <<>> /\ loaded[s] = {} /\ closing[s] = {}
    BY DEF ScanBegins, SettingsBegins, IInv, Outset
  <1>2. PICK place \in {"signals", "settings"} : pc' = [pc EXCEPT ![s] = place]
    BY DEF ScanBegins, SettingsBegins
  <1>3. /\ UNCHANGED <<positions, trades, opened, todo, opening, loaded, closing, history>>
        /\ OnlyAt(s, todo, todo') /\ pc'[s] = place /\ place \in Places
    BY <1>2 DEF ScanBegins, SettingsBegins, rows, OnlyAt, IInv, Shape, Places
  <1>4. HoldsLittle(s)' /\ Own(s)'
    BY <1>1, <1>3 DEF HoldsLittle, Own, Apart, LoadedSound, ClosingSound
  <1> QED
    BY <1>2, <1>3, <1>4, MovesOn

LEMMA SignalsStep ==
    ASSUME IInv, NEW s \in Sessions, ReadSignals(s)
    PROVE  IInv'
  <1>1. pc[s] = "signals" /\ opening[s] = <<>> /\ loaded[s] = {} /\ closing[s] = {}
    BY DEF ReadSignals, IInv, Outset
  <1>2. PICK signals : todo' = [todo EXCEPT ![s] = signals \ OpenStocks]
    BY DEF ReadSignals
  <1>3. PICK place \in {"exits", "quotes"} : pc' = [pc EXCEPT ![s] = place]
    BY DEF ReadSignals
  <1>4. /\ UNCHANGED <<positions, trades, opened, opening, loaded, closing, history>>
        /\ OnlyAt(s, todo, todo') /\ pc'[s] = place /\ place \in Places
        /\ todo'[s] = signals \ OpenStocks
    BY <1>2, <1>3 DEF ReadSignals, rows, OnlyAt, IInv, Shape, Places
  <1>5. HoldsLittle(s)'
    BY <1>1, <1>4 DEF HoldsLittle
  <1>6. Own(s)'
    <2>1. OpenStocks' = OpenStocks /\ NewStocks(s)' = {} /\ DOMAIN opening'[s] = {}
      BY <1>1, <1>4 DEF OpenStocks, OpenIds, NewStocks
    <2> QED
      BY <1>1, <1>4, <2>1 DEF Own, Apart, LoadedSound, ClosingSound
  <1> QED
    BY <1>3, <1>4, <1>5, <1>6, MovesOn

LEMMA PoolsStep ==
    ASSUME IInv, NEW s \in Sessions, ReadPools(s) \/ NoEntries(s)
    PROVE  IInv'
  <1>1. pc[s] \in {"quotes", "entries"} /\ loaded[s] = {} /\ closing[s] = {}
    BY DEF ReadPools, NoEntries, IInv, Outset
  <1>2. PICK place \in {"entries", "exits"} : pc' = [pc EXCEPT ![s] = place]
    BY DEF ReadPools, NoEntries
  <1>3. /\ UNCHANGED <<positions, trades, opened, todo, opening, loaded, closing, history>>
        /\ OnlyAt(s, todo, todo') /\ pc'[s] = place /\ place \in Places
    BY <1>2 DEF ReadPools, NoEntries, rows, OnlyAt, IInv, Shape, Places
  <1>4. HoldsLittle(s)'
    BY <1>1, <1>3 DEF HoldsLittle
  <1>5. ASSUME ~crossed, s \notin stale
        PROVE  Own(s)'
    <2>1. Apart(s)
      BY <1>5, Relies DEF Own
    <2> QED
      BY <1>1, <1>3, <2>1 DEF Own, Apart, LoadedSound, ClosingSound, OpenStocks, OpenIds,
                              NewStocks
  <1> QED
    BY <1>2, <1>3, <1>4, <1>5, MovesOn

\* An entry comes from what is still to enter.
LEMMA EnterStep ==
    ASSUME IInv, NEW s \in Sessions, Enter(s)
    PROVE  IInv'
  <1>1. pc[s] = "entries" /\ loaded[s] = {} /\ closing[s] = {}
    BY DEF Enter, IInv, Outset
  <1>2. PICK k, p : /\ k \in todo[s] /\ p.stock = k
                    /\ opening' = [opening EXCEPT ![s] = Append(@, p)]
                    /\ todo' = [todo EXCEPT ![s] = @ \ {k}]
    <2> DEFINE lots(k, price, w) ==
                 _compute_quantity(Budget(cached[s], MarketOf[k]), w, price,
                                   pool[s][MarketOf[k]])
               entry(k, price, w) ==
                 [stock |-> k, price |-> price, lots |-> lots(k, price, w)]
    <2>1. PICK k \in todo[s], price \in Prices, w \in Weights :
             /\ opening' = [opening EXCEPT ![s] = Append(@, entry(k, price, w))]
             /\ todo' = [todo EXCEPT ![s] = @ \ {k}]
      BY ZenonT(30) DEF Enter
    <2>2. entry(k, price, w).stock = k
      OBVIOUS
    <2> HIDE DEF entry
    <2> QED
      BY <2>1, <2>2
  <1>3. /\ opening'[s] = Append(opening[s], p) /\ todo'[s] = todo[s] \ {k}
        /\ OnlyAt(s, opening, opening') /\ OnlyAt(s, todo, todo')
    BY <1>2 DEF IInv, Shape, OnlyAt
  <1>4. UNCHANGED <<positions, trades, opened, pc, loaded, closing, history>>
    BY DEF Enter, rows
  <1>5. Sequence(opening[s])
    BY DEF IInv, Shape
  <1>6. /\ Sequence(opening'[s]) /\ Len(opening[s]) \in Nat
        /\ DOMAIN opening[s] = 1..Len(opening[s])
        /\ DOMAIN opening'[s] = 1..(Len(opening[s]) + 1)
        /\ \A i \in 1..Len(opening[s]) : opening'[s][i] = opening[s][i]
        /\ opening'[s][Len(opening[s]) + 1] = p
    BY <1>3, <1>5, Appending, Positions
  <1>7. Alone(s) /\ Private(s)
    BY <1>1, <1>3, <1>4, <1>6 DEF IInv, Shape, Alone, OnlyAt, Private, history
  <1>8. HoldsLittle(s)'
    BY <1>1, <1>4 DEF HoldsLittle
  <1>9. ASSUME ~crossed, s \notin stale
        PROVE  Own(s)'
    <2>1. Apart(s)
      BY <1>9, Relies DEF Own
    <2>2. OpenStocks' = OpenStocks
      BY <1>4 DEF OpenStocks, OpenIds
    <2>3. \A i \in DOMAIN opening'[s] : i \in DOMAIN opening[s] \/ i = Len(opening[s]) + 1
      BY <1>6
    <2>4. NewStocks(s)' = NewStocks(s) \cup {k}
      <3>1. \A i \in DOMAIN opening[s] : i \in DOMAIN opening'[s]
        BY <1>6
      <3>2. Len(opening[s]) + 1 \in DOMAIN opening'[s]
        BY <1>6
      <3> QED
        BY <1>2, <1>6, <2>3, <3>1, <3>2 DEF NewStocks
    <2>5. k \in todo[s] /\ k \notin NewStocks(s) /\ k \notin OpenStocks
      BY <1>1, <1>2, <2>1 DEF Apart
    <2>6. ASSUME NEW i \in DOMAIN opening'[s], NEW j \in DOMAIN opening'[s],
                 opening'[s][i].stock = opening'[s][j].stock
          PROVE  i = j
      <3>1. \A n \in DOMAIN opening[s] : opening[s][n].stock # k
        BY <2>5 DEF NewStocks
      <3> QED
        BY <1>1, <1>2, <1>6, <2>1, <2>3, <2>6, <3>1 DEF Apart
    <2>7. Apart(s)'
      BY <1>1, <1>3, <2>1, <2>2, <2>4, <2>5, <2>6 DEF Apart
    <2> QED
      BY <1>1, <1>4, <2>7 DEF Own, LoadedSound, ClosingSound
  <1> QED
    BY <1>4, <1>7, <1>8, <1>9, PrivateStep DEF history

LEMMA SkipStep ==
    ASSUME IInv, NEW s \in Sessions, Skip(s)
    PROVE  IInv'
  <1>1. pc[s] = "entries" /\ loaded[s] = {} /\ closing[s] = {}
    BY DEF Skip, IInv, Outset
  <1>2. PICK k : todo' = [todo EXCEPT ![s] = @ \ {k}]
    BY DEF Skip
  <1>3. /\ UNCHANGED <<positions, trades, opened, pc, opening, loaded, closing, history>>
        /\ todo'[s] = todo[s] \ {k} /\ OnlyAt(s, todo, todo')
    BY <1>2 DEF Skip, rows, IInv, Shape, OnlyAt
  <1>4. Private(s)
    BY <1>3 DEF IInv, Shape, Private, Alone, OnlyAt, history
  <1>5. HoldsLittle(s)'
    BY <1>1, <1>3 DEF HoldsLittle
  <1>6. ASSUME ~crossed, s \notin stale
        PROVE  Own(s)'
    <2>1. Apart(s)
      BY <1>6, Relies DEF Own
    <2> QED
      BY <1>1, <1>3, <2>1 DEF Own, Apart, LoadedSound, ClosingSound, OpenStocks, OpenIds,
                              NewStocks
  <1> QED
    BY <1>3, <1>4, <1>5, <1>6, PrivateStep DEF history

\* The rows loaded are the open ones as they are now.
LEMMA ReadPositionsStep ==
    ASSUME IInv, NEW s \in Sessions, ReadPositions(s)
    PROVE  IInv'
  <1>1. CASE OpenIds = {}
    BY <1>1, EndsQuietly DEF ReadPositions
  <1>2. CASE OpenIds # {}
    <2> DEFINE open == {[id |-> i, pos |-> positions[i]] : i \in OpenIds}
    <2>1. pc[s] = "exits" /\ closing[s] = {}
      BY DEF ReadPositions, IInv, Outset
    <2>2. /\ loaded' = [loaded EXCEPT ![s] = open] /\ pc' = [pc EXCEPT ![s] = "examine"]
          /\ UNCHANGED <<positions, trades, opened, todo, opening, closing, history>>
      BY <1>2 DEF ReadPositions, rows
    <2>3. /\ loaded'[s] = open /\ OnlyAt(s, loaded, loaded') /\ OpenIds' = OpenIds
          /\ pc'[s] = "examine" /\ OnlyAt(s, pc, pc')
      BY <2>2 DEF IInv, Shape, OnlyAt, OpenIds
    <2>4. Private(s)
      BY <2>2, <2>3 DEF IInv, Shape, Private, Alone, OnlyAt, Places, history
    <2>5. HoldsLittle(s)'
      BY <2>3 DEF HoldsLittle
    <2>6. Own(s)'
      BY <2>1, <2>2, <2>3 DEF Own, Apart, LoadedSound, ClosingSound
    <2> QED
      BY <2>2, <2>4, <2>5, <2>6, PrivateStep DEF history
  <1> QED
    BY <1>1, <1>2

\* What closing a row adds to the session.
LEMMA Closed ==
    ASSUME NEW s, NEW row, NEW price, _close_position(s, row, price)
    PROVE  \E c : /\ c.id = row.id /\ c.trade.serial = row.pos.serial
                  /\ closing' = [closing EXCEPT ![s] = @ \cup {c}]
  <1> DEFINE gain == Proceeds(row.pos, price) - Outlay(row.pos)
             c == [id |-> row.id, trade |-> [serial |-> row.pos.serial,
                                             stock |-> row.pos.stock, pnl |-> gain]]
  <1>1. closing' = [closing EXCEPT ![s] = @ \cup {c}]
    BY ZenonT(30) DEF _close_position
  <1>2. c.id = row.id /\ c.trade.serial = row.pos.serial
    BY DEF Proceeds, Outlay
  <1> HIDE DEF c
  <1> QED
    BY <1>1, <1>2

\* A row goes over from what is loaded to what is closed.
LEMMA RowCloses ==
    ASSUME IInv, NEW s \in Sessions, NEW row \in loaded[s], NEW price,
           _close_position(s, row, price), NEW left \in SUBSET (loaded[s] \ {row}),
           loaded' = [loaded EXCEPT ![s] = left],
           pc'[s] = "examine", OnlyAt(s, pc, pc'),
           UNCHANGED <<rows, todo, opening, history>>
    PROVE  IInv'
  <1>1. PICK c : /\ c.id = row.id /\ c.trade.serial = row.pos.serial
                 /\ closing' = [closing EXCEPT ![s] = @ \cup {c}]
    BY Closed
  <1>2. /\ closing'[s] = closing[s] \cup {c} /\ OnlyAt(s, closing, closing')
        /\ loaded'[s] = left /\ OnlyAt(s, loaded, loaded')
        /\ UNCHANGED <<positions, trades, opened, stale, crossed>>
    BY <1>1 DEF IInv, Shape, OnlyAt, rows, history
  <1>3. IsFiniteSet(closing'[s])
    BY <1>2, FS_AddElement DEF IInv, Shape
  <1>4. Private(s)
    BY <1>2, <1>3 DEF IInv, Shape, Private, Alone, OnlyAt, Places
  <1>5. HoldsLittle(s)'
    BY DEF HoldsLittle
  <1>6. ASSUME ~crossed, s \notin stale
        PROVE  Own(s)'
    <2>1. Own(s) /\ OpenIds' = OpenIds
      BY <1>2, <1>6, Relies DEF OpenIds
    <2>2. LoadedSound(s)'
      BY <1>2, <2>1 DEF Own, LoadedSound
    <2>3. row.id \in OpenIds /\ c.trade.serial = positions[c.id].serial
      BY <1>1, <2>1 DEF Own, LoadedSound
    <2>4. ClosingSound(s)'
      BY <1>1, <1>2, <2>1, <2>3 DEF Own, ClosingSound
    <2>5. \A r \in loaded'[s], d \in closing'[s] : r.id # d.id
      BY <1>1, <1>2, <2>1 DEF Own, LoadedSound
    <2> QED
      BY <2>2, <2>4, <2>5 DEF Own, Apart
  <1> QED
    BY <1>2, <1>4, <1>5, <1>6, PrivateStep

LEMMA ExitStep ==
    ASSUME IInv, NEW s \in Sessions, Exit(s)
    PROVE  IInv'
  <1>1. PICK row \in loaded[s], price \in Prices :
            /\ _close_position(s, row, price)
            /\ loaded' = [loaded EXCEPT ![s] = @ \ {row}]
    BY DEF Exit
  <1>2. pc'[s] = "examine" /\ OnlyAt(s, pc, pc') /\ UNCHANGED <<rows, todo, opening, history>>
    BY DEF Exit, OnlyAt
  <1> DEFINE left == loaded[s] \ {row}
  <1>3. left \in SUBSET (loaded[s] \ {row}) /\ loaded' = [loaded EXCEPT ![s] = left]
    BY <1>1
  <1> HIDE DEF left
  <1> QED
    BY <1>1, <1>2, <1>3, RowCloses

LEMMA CloseManualStep ==
    ASSUME IInv, NEW s \in Sessions, CloseManual(s)
    PROVE  IInv'
  <1>1. PICK row \in loaded[s], price \in Prices : _close_position(s, row, price)
    BY DEF CloseManual
  <1>2. /\ loaded' = [loaded EXCEPT ![s] = {}] /\ UNCHANGED <<rows, todo, opening, history>>
        /\ pc'[s] = "examine" /\ OnlyAt(s, pc, pc')
    BY DEF CloseManual, OnlyAt, IInv, Shape
  <1>3. {} \in SUBSET (loaded[s] \ {row})
    OBVIOUS
  <1> QED
    BY <1>1, <1>2, <1>3, RowCloses

LEMMA KeepStep ==
    ASSUME IInv, NEW s \in Sessions, Keep(s)
    PROVE  IInv'
  <1>1. PICK row \in loaded[s] : loaded' = [loaded EXCEPT ![s] = @ \ {row}]
    BY DEF Keep
  <1>2. /\ UNCHANGED <<positions, trades, opened, pc, todo, opening, closing, history>>
        /\ pc[s] = "examine"
        /\ loaded'[s] = loaded[s] \ {row} /\ OnlyAt(s, loaded, loaded')
    BY <1>1 DEF Keep, rows, IInv, Shape, OnlyAt
  <1>3. Private(s)
    BY <1>2 DEF IInv, Shape, Private, Alone, OnlyAt, history
  <1>4. HoldsLittle(s)'
    BY <1>2 DEF HoldsLittle
  <1>5. ASSUME ~crossed, s \notin stale
        PROVE  Own(s)'
    <2>1. Own(s)
      BY <1>5, Relies
    <2> QED
      BY <1>2, <2>1 DEF Own, Apart, LoadedSound, ClosingSound, OpenIds
  <1> QED
    BY <1>2, <1>3, <1>4, <1>5, PrivateStep DEF history

LEMMA CloseBeginsStep ==
    ASSUME IInv, NEW s \in Sessions, CloseBegins(s)
    PROVE  IInv'
  <1>1. PICK i \in OpenIds :
            loaded' = [loaded EXCEPT ![s] = {[id |-> i, pos |-> positions[i]]}]
    BY DEF CloseBegins
  <1>2. pc[s] = "idle" /\ closing[s] = {} /\ opening[s] = <<>>
    BY DEF CloseBegins, IInv, Outset
  <1>3. /\ UNCHANGED <<positions, trades, opened, todo, opening, closing, history>>
        /\ pc'[s] = "manual" /\ OnlyAt(s, pc, pc')
        /\ loaded'[s] = {[id |-> i, pos |-> positions[i]]} /\ OnlyAt(s, loaded, loaded')
    BY <1>1 DEF CloseBegins, rows, IInv, Shape, OnlyAt
  <1>4. Private(s)
    BY <1>3 DEF IInv, Shape, Private, Alone, OnlyAt, Places, history
  <1>5. HoldsLittle(s)'
    BY <1>2, <1>3 DEF HoldsLittle
  <1>6. Own(s)'
    BY <1>2, <1>3 DEF Own, Apart, LoadedSound, ClosingSound, OpenIds
  <1> QED
    BY <1>3, <1>4, <1>5, <1>6, PrivateStep DEF history

LEMMA ToggleStep ==
    ASSUME IInv, NEW s \in Sessions, toggle_account(s)
    PROVE  IInv'
  <1>1. UNCHANGED <<positions, trades, opened, pc, todo, opening, loaded, closing,
                    stale, crossed>>
    BY DEF toggle_account, session, history
  <1>2. Private(s)
    BY <1>1 DEF IInv, Shape, Private, Alone, OnlyAt
  <1>3. HoldsLittle(s)'
    BY <1>1 DEF IInv, Outset, HoldsLittle
  <1>4. ASSUME ~crossed, s \notin stale
        PROVE  Own(s)'
    BY <1>1, <1>4, Relies, OthersKeep
  <1> QED
    BY <1>1, <1>2, <1>3, <1>4, PrivateStep

-----------------------------------------------------------------------------
(* The commits.                                                            *)

\* Every other session under way is stale now; the rest hold nothing.
LEMMA CommitStep ==
    ASSUME IInv, NEW s \in Sessions, Commits(s), Alone(s), HoldsLittle(s)',
           pc'[s] \notin {"quotes", "entries", "examine", "manual"},
           Sequence(positions'), Sequence(trades'), opened' \in Nat,
           \A i \in DOMAIN positions' : ARow(positions'[i]),
           ~crossed /\ s \notin stale => Core'
    PROVE  IInv'
  <1>1. crossed' = (crossed \/ s \in stale) /\ crossed' \in BOOLEAN
    BY DEF Commits
  <1>2. Shape' /\ Outset'
    BY <1>1, SessionsShape DEF Shape
  <1>3. ASSUME NEW t \in Sessions \ stale'
        PROVE  Own(t)'
    <2>1. pc'[t] \notin {"quotes", "entries", "examine", "manual"}
      BY <1>3 DEF Commits, Alone, OnlyAt
    <2> QED
      BY <1>2, <2>1 DEF Outset, Own, Apart, LoadedSound, ClosingSound
  <1> QED
    BY <1>1, <1>2, <1>3 DEF IInv

LEMMA SettingsStep ==
    ASSUME IInv, NEW s \in Sessions, update_settings(s)
    PROVE  IInv'
  <1>1. UNCHANGED <<positions, trades, opened>> /\ Commits(s) /\ Finished(s)
    BY DEF update_settings
  <1>2. Sequence(positions') /\ Sequence(trades') /\ opened' \in Nat
        /\ \A i \in DOMAIN positions' : ARow(positions'[i])
    BY <1>1 DEF IInv, Shape
  <1>3. ~crossed /\ s \notin stale => Core'
    BY <1>1, Relies, TablesKeep
  <1> QED
    BY <1>1, <1>2, <1>3, FinishedShape, CommitStep

LEMMA ResetStep ==
    ASSUME IInv, NEW s \in Sessions, reset_account(s)
    PROVE  IInv'
  <1>1. /\ positions' = <<>> /\ trades' = <<>> /\ Commits(s) /\ pc'[s] = "idle"
        /\ UNCHANGED <<opened, pc, todo, opening, loaded, closing>>
    BY DEF reset_account, session
  <1>2. DOMAIN positions' = {} /\ DOMAIN trades' = {}
    BY <1>1
  <1>3. Alone(s)
    BY <1>1 DEF IInv, Shape, Alone, OnlyAt
  <1>4. HoldsLittle(s)'
    BY <1>1 DEF IInv, Outset, HoldsLittle
  <1>5. Core'
    BY <1>2 DEF Core, SerialsHold, HeldOnce, OpenIds
  <1>6. Sequence(positions') /\ Sequence(trades') /\ opened' \in Nat
        /\ \A i \in DOMAIN positions' : ARow(positions'[i])
    BY <1>1, <1>2, NothingThere DEF IInv, Shape
  <1> QED
    BY <1>1, <1>3, <1>4, <1>5, <1>6, CommitStep

\* The entries take the serials that come next and stocks nobody holds.
LEMMA EntriesStep ==
    ASSUME IInv, NEW s \in Sessions, CommitEntries(s)
    PROVE  IInv'
  <1> DEFINE n == Len(positions)
             m == Len(opening[s])
             new == [i \in DOMAIN opening[s] |->
                       [serial |-> opened + i, stock |-> opening[s][i].stock,
                        price |-> opening[s][i].price, lots |-> opening[s][i].lots,
                        open |-> TRUE]]
  <1>1. /\ pc[s] = "entries" /\ positions' = positions \o new /\ opened' = opened + m
        /\ Commits(s) /\ pc' = [pc EXCEPT ![s] = "exits"]
        /\ UNCHANGED <<trades, todo, opening, loaded, closing>>
    BY DEF CommitEntries
  <1>2. /\ Sequence(positions) /\ Sequence(opening[s]) /\ opened \in Nat
        /\ \A i \in DOMAIN positions : ARow(positions[i])
    BY DEF IInv, Shape
  <1>3. n \in Nat /\ DOMAIN positions = 1..n /\ m \in Nat /\ DOMAIN opening[s] = 1..m
    BY <1>2, Positions
  <1>4. Sequence(new) /\ Len(new) = m
    <2>1. DOMAIN new = 1..m /\ new = [i \in 1..m |-> new[i]]
      BY <1>3
    <2> HIDE DEF new
    <2> QED
      BY <1>3, <2>1, AFunction
  <1>5. \A i \in 1..m : /\ new[i].serial = opened + i /\ new[i].stock = opening[s][i].stock
                        /\ new[i].open /\ ARow(new[i])
    BY <1>3 DEF ARow
  <1> HIDE DEF new
  <1>6. /\ Sequence(positions') /\ DOMAIN positions' = 1..(n + m)
        /\ \A i \in 1..n : positions'[i] = positions[i]
        /\ \A i \in 1..m : positions'[n + i] = new[i]
    <2>1. /\ Sequence(positions \o new)
          /\ DOMAIN (positions \o new) = 1..(Len(positions) + Len(new))
          /\ \A i \in 1..Len(positions) : (positions \o new)[i] = positions[i]
          /\ \A i \in 1..Len(new) : (positions \o new)[Len(positions) + i] = new[i]
      BY <1>2, <1>4, Concatenation
    <2> QED
      BY <1>1, <1>4, <2>1
  <1> HIDE DEF n, m
  <1>7. \A i \in DOMAIN positions' : i \in 1..n \/ \E j \in 1..m : i = n + j
    <2>1. \A i \in 1..(n + m) : i \notin 1..n => i - n \in 1..m /\ i = n + (i - n)
      BY <1>3
    <2> QED
      BY <1>6, <2>1
  <1>8. \A i \in DOMAIN positions' : ARow(positions'[i])
    BY <1>2, <1>3, <1>5, <1>6, <1>7
  <1>9. ASSUME ~crossed, s \notin stale
        PROVE  Core'
    <2>1. Apart(s) /\ SerialsHold /\ HeldOnce
      BY <1>9, Relies DEF Own, Core
    <2>2. \A i \in 1..m : /\ \A j \in OpenIds : positions[j].stock # new[i].stock
                          /\ \A j \in 1..m : new[i].stock = new[j].stock => i = j
      <3>1. /\ NewStocks(s) \cap OpenStocks = {}
            /\ \A i, j \in 1..m : opening[s][i].stock = opening[s][j].stock => i = j
        BY <1>1, <1>3, <2>1 DEF Apart
      <3>2. \A i \in 1..m : opening[s][i].stock \in NewStocks(s)
        BY <1>3 DEF NewStocks
      <3>3. \A j \in OpenIds : positions[j].stock \in OpenStocks
        BY DEF OpenStocks
      <3> QED
        BY <1>5, <3>1, <3>2, <3>3
    <2>3. \A i \in OpenIds' : i \in OpenIds \/ \E j \in 1..m : i = n + j
      BY <1>3, <1>6, <1>7 DEF OpenIds
    <2>4. \A i \in OpenIds : i \in 1..n
      BY <1>3 DEF OpenIds
    <2>5. HeldOnce'
      <3> SUFFICES ASSUME NEW i \in OpenIds', NEW j \in OpenIds',
                          positions'[i].stock = positions'[j].stock
                   PROVE  i = j
        BY DEF HeldOnce
      <3>1. CASE i \in OpenIds /\ j \in OpenIds
        BY <1>6, <2>1, <2>4, <3>1 DEF HeldOnce
      <3>2. CASE i \in OpenIds /\ j \notin OpenIds
        BY <1>6, <2>2, <2>3, <2>4, <3>2
      <3>3. CASE i \notin OpenIds /\ j \in OpenIds
        BY <1>6, <2>2, <2>3, <2>4, <3>3
      <3>4. CASE i \notin OpenIds /\ j \notin OpenIds
        BY <1>6, <2>2, <2>3, <3>4
      <3> QED
        BY <3>1, <3>2, <3>3, <3>4
    <2>6. SerialsHold'
      <3>1. \A i \in 1..n : positions'[i].serial \in 1..opened
        BY <1>3, <1>6, <2>1 DEF SerialsHold
      <3>2. \A i \in 1..m : positions'[n + i].serial = opened + i
        BY <1>5, <1>6
      <3>3. \A i \in DOMAIN positions' : positions'[i].serial \in 1..opened'
        <4>1. opened' = opened + m
          BY <1>1
        <4>2. \A i \in 1..n : positions'[i].serial \in 1..(opened + m)
          BY <1>2, <1>3, <3>1
        <4>3. \A i \in 1..m : positions'[n + i].serial \in 1..(opened + m)
          BY <1>2, <1>3, <3>2
        <4> QED
          BY <1>7, <4>1, <4>2, <4>3
      <3>4. ASSUME NEW i \in DOMAIN positions', NEW j \in DOMAIN positions',
                   positions'[i].serial = positions'[j].serial
            PROVE  i = j
        <4>1. CASE i \in 1..n /\ j \in 1..n
          BY <1>3, <1>6, <2>1, <3>4, <4>1 DEF SerialsHold
        <4>2. CASE i \notin 1..n /\ j \notin 1..n
          <5>1. PICK a \in 1..m, b \in 1..m : i = n + a /\ j = n + b
            BY <1>7, <4>2
          <5>2. opened + a = opened + b
            BY <3>2, <3>4, <5>1
          <5> QED
            BY <1>2, <1>3, <5>1, <5>2
        <4>3. CASE (i \in 1..n) # (j \in 1..n)
          BY <1>2, <1>3, <1>7, <3>1, <3>2, <3>4, <4>3
        <4> QED
          BY <4>1, <4>2, <4>3
      <3>5. \A j \in DOMAIN trades' : trades'[j].serial \in 1..opened'
        BY <1>1, <1>2, <1>3, <2>1 DEF SerialsHold, m
      <3>6. \A j, k \in DOMAIN trades' : trades'[j].serial = trades'[k].serial => j = k
        BY <1>1, <2>1 DEF SerialsHold
      <3>7. ASSUME NEW i \in OpenIds', NEW j \in DOMAIN trades'
            PROVE  positions'[i].serial # trades'[j].serial
        <4>1. trades'[j] = trades[j] /\ j \in DOMAIN trades
          BY <1>1
        <4>2. CASE i \in OpenIds
          BY <1>6, <2>1, <2>4, <4>1, <4>2 DEF SerialsHold
        <4>3. CASE i \notin OpenIds
          <5>1. trades[j].serial \in 1..opened
            BY <2>1, <4>1 DEF SerialsHold
          <5> QED
            BY <1>2, <1>3, <2>3, <3>2, <4>1, <4>3, <5>1
        <4> QED
          BY <4>2, <4>3
      <3> QED
        BY <3>3, <3>4, <3>5, <3>6, <3>7 DEF SerialsHold
    <2> QED
      BY <2>5, <2>6 DEF Core
  <1>10. /\ pc'[s] = "exits" /\ OnlyAt(s, pc, pc')
         /\ loaded[s] = {} /\ closing[s] = {}
    BY <1>1 DEF IInv, Shape, Outset, OnlyAt
  <1>11. Alone(s)
    BY <1>1, <1>10 DEF IInv, Shape, Alone, OnlyAt, Places
  <1>12. HoldsLittle(s)'
    BY <1>1, <1>10 DEF HoldsLittle
  <1>13. Sequence(trades') /\ opened' \in Nat
    BY <1>1, <1>2, <1>3 DEF IInv, Shape, m
  <1> QED
    BY <1>1, <1>6, <1>8, <1>9, <1>10, <1>11, <1>12, <1>13, CommitStep

\* The commit of the closes, for the rows of the table.
LEMMA WriteShape ==
    ASSUME Shape, NEW s \in Sessions, WriteCloses(s)
    PROVE  /\ Sequence(positions') /\ DOMAIN positions' = DOMAIN positions
           /\ \A i \in DOMAIN positions :
                 /\ ARow(positions'[i]) /\ positions'[i].serial = positions[i].serial
                 /\ positions'[i].stock = positions[i].stock
           /\ OpenIds' = OpenIds \ {c.id : c \in closing[s]}
           /\ (closing[s] = {} => positions' = positions)
  <1>1. /\ Sequence(positions) /\ \A i \in DOMAIN positions : ARow(positions[i])
    BY DEF Shape
  <1>2. /\ Len(positions) \in Nat /\ DOMAIN positions = 1..Len(positions)
        /\ positions = [i \in DOMAIN positions |-> positions[i]]
    BY <1>1, Positions
  <1> DEFINE gone == {c.id : c \in closing[s]}
  <1>3. positions' = [i \in DOMAIN positions |->
                        IF i \in gone THEN [positions[i] EXCEPT !.open = FALSE]
                        ELSE positions[i]]
    <2>1. \A i : (\E c \in closing[s] : c.id = i) <=> i \in gone
      OBVIOUS
    <2> HIDE DEF gone
    <2> QED
      BY <2>1 DEF WriteCloses
  <1> HIDE DEF gone
  <1>4. DOMAIN positions' = DOMAIN positions
    BY <1>3
  <1>5. Sequence(positions')
    <2>1. DOMAIN positions' = 1..Len(positions)
          /\ positions' = [i \in 1..Len(positions) |-> positions'[i]]
      BY <1>2, <1>3
    <2> QED
      BY <1>2, <2>1, AFunction
  <1>6. ASSUME NEW i \in DOMAIN positions
        PROVE  /\ ARow(positions'[i]) /\ positions'[i].serial = positions[i].serial
               /\ positions'[i].stock = positions[i].stock
               /\ (i \in gone => positions'[i].open = FALSE)
               /\ (i \notin gone => positions'[i] = positions[i])
    <2>1. ARow(positions[i])
      BY <1>1
    <2>2. CASE i \in gone
      <3>1. positions'[i] = [positions[i] EXCEPT !.open = FALSE]
        BY <1>3, <2>2
      <3>2. positions'[i] = [serial |-> positions[i].serial, stock |-> positions[i].stock,
                             price |-> positions[i].price, lots |-> positions[i].lots,
                             open |-> FALSE]
        BY <2>1, <3>1 DEF ARow
      <3> QED
        BY <2>2, <3>2 DEF ARow
    <2>3. CASE i \notin gone
      BY <1>3, <2>1, <2>3
    <2> QED
      BY <2>2, <2>3
  <1>7. OpenIds' = OpenIds \ gone
    BY <1>4, <1>6 DEF OpenIds
  <1>8. closing[s] = {} => positions' = positions
    <2> SUFFICES ASSUME closing[s] = {}
                 PROVE  positions' = positions
      OBVIOUS
    <2>1. gone = {}
      BY DEF gone
    <2> QED
      BY <1>2, <1>3, <2>1
  <1> QED
    BY <1>4, <1>5, <1>6, <1>7, <1>8 DEF gone

\* For the trades: those of the closed rows come after those that are there.
LEMMA WriteTrades ==
    ASSUME Shape, NEW s \in Sessions, WriteCloses(s)
    PROVE  /\ Sequence(trades')
           /\ \A j \in DOMAIN trades : j \in DOMAIN trades' /\ trades'[j] = trades[j]
           /\ \A j \in DOMAIN trades' \ DOMAIN trades :
                 \E c \in closing[s] : trades'[j] = c.trade
           /\ \A j, k \in DOMAIN trades' \ DOMAIN trades :
                 trades'[j] = trades'[k] => j = k
  <1> DEFINE T == {c.trade : c \in closing[s]}
             written == SetToSeq(T)
             n == Len(trades)
             m == Len(written)
  <1>1. trades' = trades \o written
    BY DEF WriteCloses
  <1>2. IsFiniteSet(T)
    <2> DEFINE f == [c \in closing[s] |-> c.trade]
    <2>1. f \in Surjection(closing[s], T)
      BY DEF Surjection
    <2> HIDE DEF f, T
    <2> QED
      BY <2>1, FS_Surjection DEF Shape
  <1> HIDE DEF T
  <1>3. /\ Sequence(written) /\ \A i \in DOMAIN written : written[i] \in T
        /\ \A i, j \in DOMAIN written : written[i] = written[j] => i = j
    BY <1>2, AnyOrder
  <1> HIDE DEF written
  <1>4. Sequence(trades) /\ n \in Nat /\ DOMAIN trades = 1..n
    BY Positions DEF Shape
  <1>5. m \in Nat /\ DOMAIN written = 1..m
    BY <1>3, Positions
  <1>6. /\ Sequence(trades') /\ DOMAIN trades' = 1..(n + m)
        /\ \A i \in 1..n : trades'[i] = trades[i]
        /\ \A i \in 1..m : trades'[n + i] = written[i]
    BY <1>1, <1>3, <1>4, Concatenation
  <1> HIDE DEF n, m
  <1>7. ASSUME NEW j \in DOMAIN trades' \ DOMAIN trades
        PROVE  j - n \in 1..m /\ j = n + (j - n) /\ trades'[j] = written[j - n]
    <2>1. j - n \in 1..m /\ j = n + (j - n)
      BY <1>4, <1>5, <1>6
    <2>2. trades'[n + (j - n)] = written[j - n]
      BY <1>6, <2>1
    <2> QED
      BY <2>1, <2>2
  <1>8. \A j \in DOMAIN trades' \ DOMAIN trades : \E c \in closing[s] : trades'[j] = c.trade
    BY <1>3, <1>5, <1>7 DEF T
  <1>9. ASSUME NEW j \in DOMAIN trades' \ DOMAIN trades,
               NEW k \in DOMAIN trades' \ DOMAIN trades, trades'[j] = trades'[k]
        PROVE  j = k
    <2>1. written[j - n] = written[k - n]
      BY <1>7, <1>9
    <2>2. j - n = k - n
      BY <1>3, <1>5, <1>7, <2>1
    <2> QED
      BY <1>4, <1>5, <1>6, <2>2
  <1>10. \A j \in DOMAIN trades : j \in DOMAIN trades' /\ trades'[j] = trades[j]
    BY <1>4, <1>5, <1>6
  <1> QED
    BY <1>6, <1>8, <1>9, <1>10

LEMMA WriteCore ==
    ASSUME Shape, Core, NEW s \in Sessions, ClosingSound(s), WriteCloses(s), UNCHANGED opened
    PROVE  Core'
  <1> DEFINE gone == {c.id : c \in closing[s]}
             old == DOMAIN trades
             added == DOMAIN trades' \ DOMAIN trades
  <1>1. /\ DOMAIN positions' = DOMAIN positions /\ OpenIds' = OpenIds \ gone
        /\ \A i \in DOMAIN positions : /\ positions'[i].serial = positions[i].serial
                                       /\ positions'[i].stock = positions[i].stock
    BY WriteShape
  <1>2. /\ \A j \in old : trades'[j] = trades[j]
        /\ \A j \in added : \E c \in closing[s] : trades'[j] = c.trade
        /\ \A j, k \in added : trades'[j] = trades'[k] => j = k
    BY WriteTrades
  <1>3. \A c \in closing[s] : /\ c.id \in gone /\ c.id \in OpenIds /\ c.id \in DOMAIN positions
                              /\ c.trade.serial = positions[c.id].serial
    BY DEF ClosingSound, OpenIds
  <1>4. \A j \in DOMAIN trades' : j \in old \/ j \in added
    OBVIOUS
  <1> HIDE DEF gone, old, added
  <1>5. HeldOnce'
    BY <1>1 DEF Core, HeldOnce, OpenIds
  <1>6. \A i \in DOMAIN positions' : positions'[i].serial \in 1..opened'
    BY <1>1 DEF Core, SerialsHold
  <1>7. \A i, j \in DOMAIN positions' : positions'[i].serial = positions'[j].serial => i = j
    BY <1>1 DEF Core, SerialsHold
  <1>8. \A j \in DOMAIN trades' : trades'[j].serial \in 1..opened'
    BY <1>2, <1>3, <1>4 DEF Core, SerialsHold, old
  <1>9. ASSUME NEW j \in DOMAIN trades', NEW k \in DOMAIN trades',
               trades'[j].serial = trades'[k].serial
        PROVE  j = k
    <2>1. \A x \in old, y \in added : trades'[x].serial # trades'[y].serial
      BY <1>2, <1>3 DEF Core, SerialsHold, old
    <2>2. CASE j \in old /\ k \in old
      BY <1>2, <1>9, <2>2 DEF Core, SerialsHold, old
    <2>3. CASE j \in added /\ k \in added
      <3>1. PICK c \in closing[s], d \in closing[s] : trades'[j] = c.trade /\ trades'[k] = d.trade
        BY <1>2, <2>3
      <3>2. c.id = d.id
        BY <1>3, <1>9, <3>1 DEF Core, SerialsHold
      <3>3. c = d
        BY <3>2 DEF ClosingSound
      <3> QED
        BY <1>2, <2>3, <3>1, <3>3
    <2> QED
      BY <1>4, <1>9, <2>1, <2>2, <2>3
  <1>10. ASSUME NEW i \in OpenIds', NEW j \in DOMAIN trades'
         PROVE  positions'[i].serial # trades'[j].serial
    <2>1. i \in OpenIds /\ i \notin gone /\ i \in DOMAIN positions
      BY <1>1 DEF OpenIds
    <2>2. CASE j \in old
      BY <1>1, <1>2, <2>1, <2>2 DEF Core, SerialsHold, old
    <2>3. CASE j \in added
      <3>1. PICK c \in closing[s] : trades'[j] = c.trade
        BY <1>2, <2>3
      <3>2. c.id # i
        BY <1>3, <2>1
      <3> QED
        BY <1>1, <1>3, <2>1, <3>1, <3>2 DEF Core, SerialsHold
    <2> QED
      BY <1>4, <2>2, <2>3
  <1> QED
    BY <1>5, <1>6, <1>7, <1>8, <1>9, <1>10 DEF Core, SerialsHold

LEMMA ExitsStep ==
    ASSUME IInv, NEW s \in Sessions, CommitExits(s)
    PROVE  IInv'
  <1>1. WriteCloses(s) /\ Finished(s) /\ UNCHANGED opened /\ Shape
    BY DEF CommitExits, IInv
  <1>2. /\ Sequence(positions') /\ Sequence(trades') /\ opened' \in Nat
        /\ \A i \in DOMAIN positions' : ARow(positions'[i])
    BY <1>1, WriteShape, WriteTrades DEF Shape
  <1>3. CASE closing[s] # {}
    <2>1. Commits(s)
      BY <1>3 DEF CommitExits
    <2>2. ASSUME ~crossed, s \notin stale
          PROVE  Core'
      BY <1>1, <2>2, Relies, WriteCore DEF Own
    <2> QED
      BY <1>1, <1>2, <2>1, <2>2, FinishedShape, CommitStep
  <1>4. CASE closing[s] = {}
    <2>1. Leaves(s) /\ ClosingSound(s)
      BY <1>4 DEF CommitExits, ClosingSound
    <2>2. positions' = positions
      BY <1>1, <1>4, WriteShape
    <2>3. Alone(s) /\ HoldsLittle(s)' /\ Own(s)'
      BY <1>1, FinishedShape
    <2>4. Shape' /\ Outset'
      BY <1>1, <1>2, <2>1, <2>3, SessionsShape DEF Shape, Leaves
    <2>5. ASSUME ~crossed'
          PROVE  Core' /\ \A t \in Sessions \ stale' : Own(t)'
      <3>1. ~crossed /\ Core /\ \A t \in Sessions \ stale : Own(t)
        BY <2>1, <2>5 DEF IInv, Leaves
      <3>2. Core'
        BY <1>1, <2>1, <3>1, WriteCore
      <3>3. ASSUME NEW t \in Sessions \ stale', t # s
            PROVE  Own(t)'
        <4>1. Own(t) /\ t \in Sessions \ {s}
          BY <2>1, <3>1, <3>3 DEF Leaves
        <4>2. /\ pc'[t] = pc[t] /\ todo'[t] = todo[t] /\ opening'[t] = opening[t]
              /\ loaded'[t] = loaded[t] /\ closing'[t] = closing[t]
          BY <2>3, <4>1 DEF Alone, OnlyAt
        <4> QED
          BY <2>2, <4>1, <4>2, OthersKeep
      <3> QED
        BY <2>3, <3>2, <3>3
    <2> QED
      BY <2>4, <2>5 DEF IInv
  <1> QED
    BY <1>3, <1>4

-----------------------------------------------------------------------------
(* The invariant holds, and the properties follow from it.                 *)

LEMMA Initially == Init => IInv
  <1> SUFFICES ASSUME Init
               PROVE  IInv
    OBVIOUS
  <1>1. /\ positions = <<>> /\ trades = <<>> /\ opened = 0 /\ stale = {} /\ crossed = FALSE
        /\ pc = [s \in Sessions |-> "idle"] /\ todo = [s \in Sessions |-> {}]
        /\ opening = [s \in Sessions |-> <<>>] /\ loaded = [s \in Sessions |-> {}]
        /\ closing = [s \in Sessions |-> {}]
    BY DEF Init
  <1>2. DOMAIN positions = {} /\ DOMAIN trades = {}
    BY <1>1
  <1>3. Shape
    BY <1>1, <1>2, NothingThere DEF Shape, Places
  <1>4. Outset
    BY <1>1 DEF Outset
  <1>5. Core
    BY <1>2 DEF Core, SerialsHold, HeldOnce, OpenIds
  <1>6. \A s \in Sessions : Own(s)
    BY <1>1, <1>4, NothingHeld
  <1> QED
    BY <1>3, <1>4, <1>5, <1>6 DEF IInv

LEMMA FailsStep ==
    ASSUME IInv, NEW s \in Sessions, Fails(s)
    PROVE  IInv'
BY EndsQuietly DEF Fails

LEMMA Stutter ==
    ASSUME IInv, UNCHANGED vars
    PROVE  IInv'
  <1>1. UNCHANGED <<positions, trades, opened, pc, todo, opening, loaded, closing,
                    stale, crossed>>
    BY DEF vars, rows, session, history
  <1>2. Shape' /\ Outset'
    BY <1>1 DEF IInv, Shape, Outset
  <1>3. ASSUME ~crossed'
        PROVE  Core' /\ \A s \in Sessions \ stale' : Own(s)'
    BY <1>1, <1>3, TablesKeep, OthersKeep DEF IInv
  <1> QED
    BY <1>2, <1>3 DEF IInv

LEMMA Inductive == IInv /\ [Next]_vars => IInv'
  <1> SUFFICES ASSUME IInv, [Next]_vars
               PROVE  IInv'
    OBVIOUS
  <1>1. ASSUME NEW s \in Sessions, Scan(s)
        PROVE  IInv'
    BY <1>1, Beginnings, SignalsStep, PoolsStep, EnterStep, SkipStep, EntriesStep,
       ReadPositionsStep, ExitStep, KeepStep, ExitsStep DEF Scan
  <1>2. ASSUME NEW s \in Sessions, Manual(s)
        PROVE  IInv'
    BY <1>2, CloseBeginsStep, CloseManualStep DEF Manual
  <1>3. ASSUME NEW s \in Sessions, Handlers(s)
        PROVE  IInv'
    BY <1>3, ToggleStep, Beginnings, SettingsStep, ResetStep DEF Handlers
  <1>4. ASSUME NEW s \in Sessions, Fails(s)
        PROVE  IInv'
    BY <1>4, FailsStep
  <1>5. CASE UNCHANGED vars
    BY <1>5, Stutter
  <1> QED
    BY <1>1, <1>2, <1>3, <1>4, <1>5 DEF Next

LEMMA InvariantHolds == Spec => []IInv
BY Initially, Inductive, PTL DEF Spec

\* Every position is closed by one trade at most, however scans, manual closes,
\* settings and resets interleave and wherever they fail, until a session
\* commits over a read that is out of date (_close_position, scan's commits).
THEOREM PositionsCloseOnce == Spec => []ClosedOnce
  <1>1. IInv => ClosedOnce
    BY DEF IInv, Core, SerialsHold, ClosedOnce
  <1> QED
    BY <1>1, InvariantHolds, PTL

\* No stock has two open positions, under the same condition (_check_entries
\* selects the stocks before it fetches the quotes it enters at).
THEOREM StocksAreHeldOnce == Spec => []OneOpenPerStock
  <1>1. IInv => OneOpenPerStock
    BY DEF IInv, Core, HeldOnce, OneOpenPerStock
  <1> QED
    BY <1>1, InvariantHolds, PTL

-----------------------------------------------------------------------------
(* Sums over finite sets, which the library defines by recursion over the  *)
(* subsets.  The theorems on induction take an operator; a set of subsets, *)
(* and the least number of elements outside it, does as well.              *)

\* A set of numbers has a least member.
LEMMA LeastNumber ==
    ASSUME NEW T, T \subseteq Nat, T # {}
    PROVE  \E x \in T : \A y \in T : x <= y
  <1>1. IsWellFoundedOn(OpToRel(<, Nat), Nat)
    BY NatLessThanWellFounded
  <1>2. \E x \in T : \A y \in T : <<y, x>> \notin OpToRel(<, Nat)
    BY <1>1, WFMin
  <1>3. \A x, y \in Nat : <<y, x>> \notin OpToRel(<, Nat) => x <= y
    BY DEF OpToRel
  <1> QED
    BY <1>2, <1>3

\* Subsets of a finite set are finite, and one element less is one less.
LEMMA OneLess ==
    ASSUME NEW S, IsFiniteSet(S), NEW T \in SUBSET S
    PROVE  /\ IsFiniteSet(T) /\ Cardinality(T) \in Nat
           /\ (Cardinality(T) = 0 <=> T = {})
           /\ \A x \in T : /\ IsFiniteSet(T \ {x}) /\ T \ {x} \in SUBSET S
                           /\ Cardinality(T \ {x}) = Cardinality(T) - 1
  <1>1. IsFiniteSet(T) /\ Cardinality(T) \in Nat
    BY FS_Subset, FS_CardinalityType
  <1> QED
    BY <1>1, FS_EmptySet, FS_RemoveElement

\* Sets built up by one element at a time.
LEMMA BySubsets ==
    ASSUME NEW S, IsFiniteSet(S), NEW B, {} \in B,
           \A T \in SUBSET S : T # {} /\ (\A x \in T : T \ {x} \in B) => T \in B
    PROVE  \A T \in SUBSET S : T \in B
  <1> DEFINE out == {T \in SUBSET S : T \notin B}
             sizes == {Cardinality(T) : T \in out}
  <1>1. ASSUME out # {}
        PROVE  FALSE
    <2>1. sizes \subseteq Nat /\ sizes # {}
      BY <1>1, OneLess
    <2>2. \E n \in sizes : \A k \in sizes : n <= k
      <3> HIDE DEF sizes
      <3> QED
        BY <2>1, LeastNumber
    <2>3. PICK T \in out : \A U \in out : Cardinality(T) <= Cardinality(U)
      BY <2>2
    <2>4. T \in SUBSET S /\ T \notin B /\ T # {}
      BY <2>3
    <2>5. ASSUME NEW x \in T
          PROVE  T \ {x} \in B
      <3>1. T \ {x} \in SUBSET S /\ Cardinality(T \ {x}) = Cardinality(T) - 1
            /\ Cardinality(T) \in Nat
        BY <2>4, OneLess
      <3>2. T \ {x} \notin out
        BY <2>3, <3>1
      <3> QED
        BY <3>1, <3>2
    <2> QED
      BY <2>4, <2>5
  <1> QED
    BY <1>1

\* The recursion the library's sum is: some function satisfies it.
Adds(f, S, g) ==
    g = [T \in SUBSET S |->
           IF T = {} THEN 0
           ELSE f[CHOOSE x \in T : TRUE] + g[T \ {CHOOSE x \in T : TRUE}]]

LEMMA SumDefinition ==
    ASSUME NEW f, NEW S
    PROVE  SumFunctionOnSet(f, S) = (CHOOSE g : Adds(f, S, g))[S]
BY DEF SumFunctionOnSet, FoldFunctionOnSet, MapThenFoldSet, Adds

LEMMA AddsExists ==
    ASSUME NEW f, NEW S, IsFiniteSet(S)
    PROVE  \E g : Adds(f, S, g)
  <1> DEFINE one(T) == CHOOSE x \in T : TRUE
             entry(g, T) == IF T = {} THEN 0 ELSE f[one(T)] + g[T \ {one(T)}]
             small(k) == {T \in SUBSET S : Cardinality(T) <= k}
             good(g, k) == g = [T \in small(k) |-> entry(g, T)]
             n == Cardinality(S)
             bad == {k \in 0..n : ~ \E g : good(g, k)}
  <1>1. n \in Nat
    BY FS_CardinalityType
  <1>2. \E g : good(g, 0)
    <2> DEFINE g == [T \in small(0) |-> 0]
    <2>1. \A T \in small(0) : T = {}
      <3>1. \A T \in small(0) : T \in SUBSET S /\ Cardinality(T) <= 0
        OBVIOUS
      <3> HIDE DEF small
      <3> QED
        BY <3>1, OneLess
    <2>2. \A T \in small(0) : entry(g, T) = 0
      BY <2>1
    <2> HIDE DEF small, entry
    <2>3. g = [T \in small(0) |-> entry(g, T)]
      BY <2>2
    <2> QED
      BY <2>3
  <1>3. ASSUME NEW k \in 1..n, NEW F, good(F, k - 1)
        PROVE  \E G : good(G, k)
    <2> DEFINE G == [T \in small(k) |-> entry(F, T)]
    <2>1. /\ \A T \in small(k - 1) : T \in small(k)
          /\ \A T \in small(k) : T # {} => T \ {one(T)} \in small(k - 1)
      <3>1. \A T \in SUBSET S : Cardinality(T) \in Nat
        BY OneLess
      <3>2. \A T \in small(k) : T # {} => one(T) \in T
        OBVIOUS
      <3> HIDE DEF one
      <3>3. \A T \in small(k - 1) : T \in small(k)
        BY <1>1, <3>1
      <3>4. ASSUME NEW T \in small(k), T # {}
            PROVE  T \ {one(T)} \in small(k - 1)
        <4>1. /\ T \ {one(T)} \in SUBSET S /\ Cardinality(T) \in Nat
              /\ Cardinality(T \ {one(T)}) = Cardinality(T) - 1
          BY <3>2, <3>4, OneLess
        <4>2. Cardinality(T) <= k
          OBVIOUS
        <4> QED
          BY <1>1, <4>1, <4>2
      <3> QED
        BY <3>3, <3>4
    <2> HIDE DEF entry, small
    <2>2. \A T \in small(k - 1) : G[T] = F[T]
      BY <1>3, <2>1
    <2> HIDE DEF G
    <2>3. \A T \in small(k) : entry(G, T) = entry(F, T)
      BY <2>1, <2>2 DEF entry
    <2>4. G = [T \in small(k) |-> entry(G, T)]
      BY <2>3 DEF G
    <2> QED
      BY <2>4
  <1> HIDE DEF good
  <1>4. ASSUME bad # {}
        PROVE  FALSE
    <2>1. bad \subseteq Nat
      BY <1>1
    <2>2. \E k \in bad : \A j \in bad : k <= j
      <3> HIDE DEF bad
      <3> QED
        BY <1>4, <2>1, LeastNumber
    <2>3. PICK k \in bad : \A j \in bad : k <= j
      BY <2>2
    <2>4. k # 0
      BY <1>2, <2>3
    <2>5. k \in 1..n /\ k - 1 \in 0..n /\ k - 1 \notin bad
      BY <1>1, <2>3, <2>4
    <2> QED
      BY <1>3, <2>3, <2>5
  <1>5. PICK g : good(g, n)
    BY <1>1, <1>4
  <1>6. small(n) = SUBSET S
    <2>1. \A T \in SUBSET S : Cardinality(T) <= Cardinality(S)
      BY FS_Subset
    <2> QED
      BY <2>1
  <1> HIDE DEF small
  <1>7. g = [T \in SUBSET S |-> entry(g, T)]
    BY <1>5, <1>6 DEF good
  <1> QED
    BY <1>7 DEF Adds

\* The sum of a set is that of any function that satisfies the recursion on it
\* and more.
LEMMA AddsAlike ==
    ASSUME NEW f, NEW S, IsFiniteSet(S), NEW U, S \subseteq U, NEW g, Adds(f, U, g)
    PROVE  g[S] = SumFunctionOnSet(f, S)
  <1> DEFINE h == CHOOSE h : Adds(f, S, h)
             B == {T \in SUBSET S : g[T] = h[T]}
  <1>1. Adds(f, S, h)
    <2>1. \E k : Adds(f, S, k)
      BY AddsExists
    <2> HIDE DEF Adds
    <2> QED
      BY <2>1
  <1>2. SumFunctionOnSet(f, S) = h[S]
    BY SumDefinition
  <1> HIDE DEF h
  <1>3. {} \in B
    BY <1>1 DEF Adds
  <1>4. ASSUME NEW T \in SUBSET S, T # {}, \A x \in T : T \ {x} \in B
        PROVE  T \in B
    <2> DEFINE x == CHOOSE x \in T : TRUE
    <2>1. x \in T
      BY <1>4
    <2>2. /\ g[T] = f[x] + g[T \ {x}]
          /\ h[T] = f[x] + h[T \ {x}]
      <3>1. T \in SUBSET U
        OBVIOUS
      <3> QED
        BY <1>1, <1>4, <3>1 DEF Adds
    <2> HIDE DEF x
    <2>3. g[T \ {x}] = h[T \ {x}]
      BY <1>4, <2>1
    <2> QED
      BY <2>2, <2>3
  <1>5. \A T \in SUBSET S : T \in B
    <2> HIDE DEF B
    <2> QED
      BY <1>3, <1>4, BySubsets
  <1> QED
    BY <1>2, <1>5

LEMMA SumUnfolds ==
    ASSUME NEW f, NEW S, IsFiniteSet(S)
    PROVE  /\ S = {} => SumFunctionOnSet(f, S) = 0
           /\ S # {} => \E x \in S :
                 SumFunctionOnSet(f, S) = f[x] + SumFunctionOnSet(f, S \ {x})
  <1>1. PICK g : Adds(f, S, g)
    BY AddsExists
  <1>2. \A T \in SUBSET S : g[T] = SumFunctionOnSet(f, T)
    <2> SUFFICES ASSUME NEW T \in SUBSET S
                 PROVE  g[T] = SumFunctionOnSet(f, T)
      OBVIOUS
    <2>1. IsFiniteSet(T)
      BY FS_Subset
    <2> QED
      BY <1>1, <2>1, AddsAlike
  <1>3. S = {} => g[S] = 0
    BY <1>1 DEF Adds
  <1>4. ASSUME S # {}
        PROVE  \E x \in S : g[S] = f[x] + g[S \ {x}]
    <2> DEFINE x == CHOOSE x \in S : TRUE
    <2>1. x \in S /\ g[S] = f[x] + g[S \ {x}]
      BY <1>1, <1>4 DEF Adds
    <2> QED
      BY <2>1
  <1> QED
    BY <1>2, <1>3, <1>4

LEMMA SumIsAnInteger ==
    ASSUME NEW f, NEW S, IsFiniteSet(S), \A x \in S : f[x] \in Int
    PROVE  SumFunctionOnSet(f, S) \in Int
  <1> DEFINE B == {T \in SUBSET S : SumFunctionOnSet(f, T) \in Int}
  <1>1. {} \in B
    BY SumUnfolds, FS_EmptySet
  <1>2. ASSUME NEW T \in SUBSET S, T # {}, \A x \in T : T \ {x} \in B
        PROVE  T \in B
    <2>1. IsFiniteSet(T)
      BY FS_Subset
    <2>2. PICK x \in T : SumFunctionOnSet(f, T) = f[x] + SumFunctionOnSet(f, T \ {x})
      BY <1>2, <2>1, SumUnfolds
    <2> QED
      BY <1>2, <2>2
  <1> HIDE DEF B
  <1>3. \A T \in SUBSET S : T \in B
    BY <1>1, <1>2, BySubsets
  <1> QED
    BY <1>3 DEF B

\* Any element may be taken out first.
LEMMA SumSplits ==
    ASSUME NEW f, NEW S, IsFiniteSet(S), \A x \in S : f[x] \in Int, NEW y \in S
    PROVE  SumFunctionOnSet(f, S) = f[y] + SumFunctionOnSet(f, S \ {y})
  <1> DEFINE sum(T) == SumFunctionOnSet(f, T)
             B == {T \in SUBSET S : \A x \in T : sum(T) = f[x] + sum(T \ {x})}
  <1>1. {} \in B
    OBVIOUS
  <1>2. \A T \in SUBSET S : IsFiniteSet(T) /\ sum(T) \in Int
    <2> SUFFICES ASSUME NEW T \in SUBSET S
                 PROVE  IsFiniteSet(T) /\ sum(T) \in Int
      OBVIOUS
    <2>1. IsFiniteSet(T)
      BY FS_Subset
    <2> QED
      BY <2>1, SumIsAnInteger
  <1>3. ASSUME NEW T \in SUBSET S, T # {}
        PROVE  \E x \in T : sum(T) = f[x] + sum(T \ {x})
    BY <1>2, <1>3, SumUnfolds
  <1> HIDE DEF sum
  <1>4. ASSUME NEW T \in SUBSET S, T # {}, \A x \in T : T \ {x} \in B
        PROVE  T \in B
    <2>1. PICK c \in T : sum(T) = f[c] + sum(T \ {c})
      BY <1>3, <1>4
    <2>2. ASSUME NEW x \in T
          PROVE  sum(T) = f[x] + sum(T \ {x})
      <3>1. CASE x = c
        BY <2>1, <3>1
      <3>2. CASE x # c
        <4>1. sum(T \ {c}) = f[x] + sum((T \ {c}) \ {x})
          BY <1>4, <3>2
        <4>2. sum(T \ {x}) = f[c] + sum((T \ {x}) \ {c})
          BY <1>4, <3>2
        <4>3. (T \ {c}) \ {x} = (T \ {x}) \ {c} /\ (T \ {x}) \ {c} \in SUBSET S
          OBVIOUS
        <4>4. f[c] \in Int /\ f[x] \in Int /\ sum((T \ {x}) \ {c}) \in Int
          BY <1>2, <4>3
        <4>5. sum(T) = f[c] + (f[x] + sum((T \ {x}) \ {c}))
          BY <2>1, <4>1, <4>3
        <4> QED
          BY <4>2, <4>4, <4>5
      <3> QED
        BY <3>1, <3>2
    <2> QED
      BY <2>2
  <1>5. \A T \in SUBSET S : T \in B
    <2> HIDE DEF B
    <2> QED
      BY <1>1, <1>4, BySubsets
  <1> QED
    BY <1>5 DEF sum

\* A sum along a one-to-one renaming of the elements.
LEMMA SumRenamed ==
    ASSUME NEW f, NEW S, IsFiniteSet(S), NEW g, NEW h, NEW R, R = {h[x] : x \in S},
           \A x, y \in S : h[x] = h[y] => x = y,
           \A x \in S : g[x] \in Int /\ f[h[x]] = g[x]
    PROVE  /\ IsFiniteSet(R) /\ Cardinality(R) = Cardinality(S)
           /\ SumFunctionOnSet(f, R) = SumFunctionOnSet(g, S)
  <1> DEFINE img(T) == {h[x] : x \in T}
             same(T) == /\ IsFiniteSet(img(T))
                        /\ SumFunctionOnSet(f, img(T)) = SumFunctionOnSet(g, T)
                        /\ Cardinality(img(T)) = Cardinality(T)
             B == {T \in SUBSET S : same(T)}
  <1>1. {} \in B
    <2>1. img({}) = {} /\ IsFiniteSet({}) /\ {} \in SUBSET S
      BY FS_EmptySet
    <2>2. SumFunctionOnSet(f, {}) = 0 /\ SumFunctionOnSet(g, {}) = 0
      BY <2>1, SumUnfolds
    <2> HIDE DEF img
    <2> QED
      BY <2>1, <2>2
  <1>2. ASSUME NEW T \in SUBSET S, T # {}, \A x \in T : T \ {x} \in B
        PROVE  T \in B
    <2>1. PICK x \in T : x \in S /\ same(T \ {x})
      BY <1>2
    <2>2. img(T \ {x}) = img(T) \ {h[x]} /\ h[x] \in img(T) /\ h[x] \notin img(T \ {x})
      OBVIOUS
    <2>3. IsFiniteSet(T) /\ \A y \in T : g[y] \in Int
      BY FS_Subset
    <2>4. IsFiniteSet(img(T)) /\ Cardinality(img(T)) = Cardinality(img(T) \ {h[x]}) + 1
      <3> DEFINE rest == img(T) \ {h[x]}
      <3>1. img(T) = rest \cup {h[x]} /\ h[x] \notin rest /\ IsFiniteSet(rest)
        BY <2>1, <2>2
      <3> HIDE DEF rest, img
      <3>2. IsFiniteSet(rest \cup {h[x]}) /\ Cardinality(rest \cup {h[x]}) = Cardinality(rest) + 1
        BY <3>1, FS_AddElement
      <3>3. IsFiniteSet(img(T)) /\ Cardinality(img(T)) = Cardinality(rest) + 1
        BY <3>1, <3>2
      <3> QED
        BY <3>3 DEF rest
    <2>5. \A z \in img(T) : f[z] \in Int
      OBVIOUS
    <2>6. SumFunctionOnSet(g, T) = g[x] + SumFunctionOnSet(g, T \ {x})
      BY <2>3, SumSplits
    <2>7. SumFunctionOnSet(f, img(T)) = f[h[x]] + SumFunctionOnSet(f, img(T) \ {h[x]})
      <3> HIDE DEF img
      <3> QED
        BY <2>2, <2>4, <2>5, SumSplits
    <2>8. Cardinality(T \ {x}) = Cardinality(T) - 1 /\ Cardinality(T) \in Nat
      BY <2>3, OneLess
    <2>9. f[h[x]] = g[x]
      BY <2>1
    <2> HIDE DEF img
    <2>10. SumFunctionOnSet(f, img(T)) = SumFunctionOnSet(g, T)
      BY <2>1, <2>2, <2>6, <2>7, <2>9
    <2>11. Cardinality(img(T)) = Cardinality(T)
      <3>1. Cardinality(img(T) \ {h[x]}) = Cardinality(T \ {x})
        BY <2>1, <2>2
      <3> QED
        BY <2>4, <2>8, <3>1
    <2> QED
      BY <2>4, <2>10, <2>11
  <1>3. \A T \in SUBSET S : T \in B
    <2> HIDE DEF B
    <2> QED
      BY <1>1, <1>2, BySubsets
  <1>4. same(S) /\ img(S) = R
    BY <1>3
  <1> HIDE DEF img
  <1> QED
    BY <1>4

\* Sums of functions that agree.
LEMMA SumSame ==
    ASSUME NEW f, NEW g, NEW S, IsFiniteSet(S), \A x \in S : g[x] \in Int /\ f[x] = g[x]
    PROVE  SumFunctionOnSet(f, S) = SumFunctionOnSet(g, S)
  <1> DEFINE h == [x \in S |-> x]
  <1>1. S = {h[x] : x \in S}
    OBVIOUS
  <1>2. /\ \A x, y \in S : h[x] = h[y] => x = y
        /\ \A x \in S : g[x] \in Int /\ f[h[x]] = g[x]
    OBVIOUS
  <1> HIDE DEF h
  <1> QED
    BY <1>1, <1>2, SumRenamed

\* Of two sets that have no element in common.
LEMMA SumOfBoth ==
    ASSUME NEW f, NEW S, NEW T, IsFiniteSet(S), IsFiniteSet(T), S \cap T = {},
           \A x \in S \cup T : f[x] \in Int
    PROVE  SumFunctionOnSet(f, S \cup T) = SumFunctionOnSet(f, S) + SumFunctionOnSet(f, T)
  <1> DEFINE sum(U) == SumFunctionOnSet(f, U)
             B == {U \in SUBSET T : sum(S \cup U) = sum(S) + sum(U)}
  <1>1. sum(S) \in Int
    BY SumIsAnInteger
  <1>2. {} \in B
    <2>1. sum({}) = 0 /\ S \cup {} = S /\ {} \in SUBSET T
      BY FS_EmptySet, SumUnfolds
    <2> HIDE DEF sum
    <2> QED
      BY <1>1, <2>1
  <1>3. ASSUME NEW U \in SUBSET T, U # {}, \A x \in U : U \ {x} \in B
        PROVE  U \in B
    <2>1. PICK x \in U : sum(S \cup (U \ {x})) = sum(S) + sum(U \ {x})
      BY <1>3
    <2>2. IsFiniteSet(U) /\ IsFiniteSet(S \cup U) /\ IsFiniteSet(U \ {x})
      BY FS_Subset, FS_Union
    <2>3. sum(U) = f[x] + sum(U \ {x})
      BY <2>2, SumSplits
    <2>4. sum(S \cup U) = f[x] + sum((S \cup U) \ {x})
      <3>1. x \in S \cup U /\ \A y \in S \cup U : f[y] \in Int
        OBVIOUS
      <3> QED
        BY <2>2, <3>1, SumSplits
    <2>5. (S \cup U) \ {x} = S \cup (U \ {x})
      OBVIOUS
    <2>6. sum(U \ {x}) \in Int /\ f[x] \in Int
      BY <2>2, SumIsAnInteger
    <2> HIDE DEF sum
    <2>7. sum(S \cup U) = f[x] + (sum(S) + sum(U \ {x}))
      BY <2>1, <2>4, <2>5
    <2>8. sum(S \cup U) = sum(S) + sum(U)
      BY <1>1, <2>3, <2>6, <2>7
    <2> QED
      BY <2>8
  <1>4. \A U \in SUBSET T : U \in B
    <2> HIDE DEF B
    <2> QED
      BY <1>2, <1>3, BySubsets
  <1> QED
    BY <1>4

\* One more element.
LEMMA SumGrows ==
    ASSUME NEW f, NEW g, NEW S, NEW T, IsFiniteSet(S), NEW x, x \notin S, T = S \cup {x},
           \A y \in S : f[y] \in Int /\ g[y] = f[y], g[x] \in Int
    PROVE  /\ SumFunctionOnSet(f, S) \in Int
           /\ SumFunctionOnSet(g, T) = SumFunctionOnSet(f, S) + g[x]
  <1>1. IsFiniteSet(T) /\ T \ {x} = S /\ x \in T /\ \A y \in T : g[y] \in Int
    BY FS_AddElement
  <1>2. SumFunctionOnSet(g, T) = g[x] + SumFunctionOnSet(g, T \ {x})
    BY <1>1, SumSplits
  <1>3. SumFunctionOnSet(g, S) = SumFunctionOnSet(f, S)
    BY SumSame
  <1>4. SumFunctionOnSet(f, S) \in Int
    BY SumIsAnInteger
  <1>5. SumFunctionOnSet(g, T) = g[x] + SumFunctionOnSet(f, S)
    BY <1>1, <1>2, <1>3
  <1> QED
    BY <1>4, <1>5

\* Sums of numbers that are not negative bound each of them.
LEMMA SumOfNaturals ==
    ASSUME NEW f, NEW S, IsFiniteSet(S), \A x \in S : f[x] \in Nat
    PROVE  SumFunctionOnSet(f, S) \in Nat /\ \A x \in S : f[x] <= SumFunctionOnSet(f, S)
  <1> DEFINE B == {T \in SUBSET S : SumFunctionOnSet(f, T) \in Nat}
  <1>1. {} \in B
    BY SumUnfolds, FS_EmptySet
  <1>2. ASSUME NEW T \in SUBSET S, T # {}, \A x \in T : T \ {x} \in B
        PROVE  T \in B
    <2>1. IsFiniteSet(T)
      BY FS_Subset
    <2>2. PICK x \in T : SumFunctionOnSet(f, T) = f[x] + SumFunctionOnSet(f, T \ {x})
      BY <1>2, <2>1, SumUnfolds
    <2>3. f[x] \in Nat /\ SumFunctionOnSet(f, T \ {x}) \in Nat
      BY <1>2
    <2> QED
      BY <2>2, <2>3
  <1> HIDE DEF B
  <1>3. \A T \in SUBSET S : T \in B
    BY <1>1, <1>2, BySubsets
  <1>4. \A T \in SUBSET S : SumFunctionOnSet(f, T) \in Nat
    BY <1>3 DEF B
  <1>5. ASSUME NEW x \in S
        PROVE  f[x] <= SumFunctionOnSet(f, S)
    <2>1. \A y \in S : f[y] \in Int
      OBVIOUS
    <2>2. SumFunctionOnSet(f, S) = f[x] + SumFunctionOnSet(f, S \ {x})
      BY <2>1, SumSplits
    <2>3. f[x] \in Nat /\ SumFunctionOnSet(f, S \ {x}) \in Nat
      BY <1>4
    <2> QED
      BY <2>2, <2>3
  <1> QED
    BY <1>4, <1>5

\* One summand changes.
LEMMA SumChanges ==
    ASSUME NEW f, NEW g, NEW S, IsFiniteSet(S), NEW x \in S,
           \A y \in S : f[y] \in Int /\ g[y] \in Int,
           \A y \in S : y # x => g[y] = f[y]
    PROVE  SumFunctionOnSet(g, S) = SumFunctionOnSet(f, S) - f[x] + g[x]
  <1> DEFINE R == S \ {x}
  <1>1. IsFiniteSet(R)
    BY FS_Subset
  <1>2. \A y \in R : f[y] \in Int /\ g[y] = f[y]
    OBVIOUS
  <1>3. /\ SumFunctionOnSet(f, S) = f[x] + SumFunctionOnSet(f, R)
        /\ SumFunctionOnSet(g, S) = g[x] + SumFunctionOnSet(g, R)
    BY SumSplits
  <1> HIDE DEF R
  <1>4. SumFunctionOnSet(g, R) = SumFunctionOnSet(f, R) /\ SumFunctionOnSet(f, R) \in Int
    BY <1>1, <1>2, SumSame, SumIsAnInteger
  <1> QED
    BY <1>3, <1>4

-----------------------------------------------------------------------------
(* The types, and what a session holds of the account.                     *)

RowsTyped ==
    /\ account \in Account /\ positions \in Seq(Position) /\ trades \in Seq(Trade)
    /\ opened \in 0..MaxOpens

SessionsTyped ==
    /\ pc \in [Sessions -> Places]
    /\ cached \in [Sessions -> Account \cup {Expired}]
    /\ todo \in [Sessions -> SUBSET Stocks]
    /\ pool \in [Sessions -> [Markets -> Int]]
    /\ opening \in [Sessions -> Seq([stock : Stocks, price : Prices, lots : Nat \ {0}])]
    /\ loaded \in [Sessions -> SUBSET [id : Nat, pos : Position]]
    /\ touched \in [Sessions -> SUBSET Nat]
    /\ closing \in [Sessions -> SUBSET [id : Nat, trade : Trade]]

HistoryTyped == stale \subseteq {s \in Sessions : pc[s] # "idle"} /\ crossed \in BOOLEAN

\* A session has the account in hand while it needs it.
InHand ==
    \A s \in Sessions :
        /\ pc[s] = "idle" => cached[s] = Expired
        /\ pc[s] \in {"signals", "quotes", "entries", "manual", "settings"} =>
              cached[s] # Expired
        /\ closing[s] # {} => cached[s] # Expired

Typed == RowsTyped /\ SessionsTyped /\ HistoryTyped /\ InHand

LEMMA TypedTypes == Typed => TypeOK
BY DEF Typed, RowsTyped, SessionsTyped, HistoryTyped, TypeOK, Places

LEMMA NotExpired == Expired \notin Account
  <1> SUFFICES ASSUME Expired \in Account
               PROVE  FALSE
    OBVIOUS
  <1>1. "cash" \in DOMAIN Expired
    BY DEF Account
  <1>2. DOMAIN Expired = {"expired"}
    BY DEF Expired
  <1> QED
    BY <1>1, <1>2

LEMMA Held ==
    ASSUME Typed, NEW s \in Sessions, cached[s] # Expired
    PROVE  cached[s] \in Account
BY DEF Typed, SessionsTyped

\* What a fill costs and brings is an integer.
LEMMA Costs ==
    ASSUME NEW p, p.price \in Prices, p.lots \in Nat
    PROVE  /\ Outlay(p) \in Int /\ p.price * p.lots \in Int
           /\ \A price \in Prices : Proceeds(p, price) \in Int
  <1>1. p.price \in Nat /\ Fee \in Nat /\ \A price \in Prices : price \in Nat
    BY PaperAssumption
  <1>2. p.price * p.lots \in Int /\ \A price \in Prices : price * p.lots \in Int
    BY <1>1
  <1> QED
    BY <1>1, <1>2 DEF Outlay, Proceeds

LEMMA QuantityTyped ==
    ASSUME NEW budget \in Int, NEW weight \in Weights, NEW price \in Prices, NEW cash \in Int
    PROVE  _compute_quantity(budget, weight, price, cash) \in Nat
  <1> DEFINE target == (budget * weight) \div (10 * price)
             wanted == IF target < 1 THEN 1 ELSE target
             fits == {q \in 1..wanted : price * q + Fee <= cash}
             spare == {wanted - q : q \in fits}
  <1>1. weight \in Int /\ price \in Nat \ {0}
    BY PaperAssumption
  <1>2. target \in Int
    <2>1. budget * weight \in Int /\ 10 * price \in Nat \ {0}
      BY <1>1
    <2> QED
      BY <2>1
  <1>3. wanted \in Nat
    BY <1>2
  <1> HIDE DEF target, wanted
  <1>4. \A q \in fits : q \in Nat /\ wanted - q \in Nat
    BY <1>3
  <1>5. fits # {} => Max(fits) \in fits
    <2> HIDE DEF fits
    <2> SUFFICES ASSUME fits # {}
                 PROVE  Max(fits) \in fits
      OBVIOUS
    <2>1. spare \subseteq Nat /\ spare # {}
      BY <1>4
    <2>2. PICK n \in spare : \A k \in spare : n <= k
      <3> HIDE DEF spare
      <3> QED
        BY <2>1, LeastNumber
    <2>3. PICK x \in fits : n = wanted - x
      BY <2>2
    <2>4. \A y \in fits : x >= y
      BY <1>3, <1>4, <2>2, <2>3
    <2> QED
      BY <2>4 DEF Max
  <1>6. _compute_quantity(budget, weight, price, cash) = IF fits = {} THEN 0 ELSE Max(fits)
    BY DEF _compute_quantity, target, wanted
  <1> HIDE DEF fits
  <1> QED
    BY <1>4, <1>5, <1>6

LEMMA BudgetTyped ==
    ASSUME NEW row \in Account, NEW m \in Markets
    PROVE  Budget(row, m) \in Int
  <1>1. row.initial \in Nat /\ row.alloc \in [Markets -> 0..10]
    BY PaperAssumption DEF Account
  <1>2. row.alloc[m] \in 0..10
    BY <1>1
  <1>3. row.initial * row.alloc[m] \in Int
    BY <1>1, <1>2
  <1> QED
    BY <1>3 DEF Budget

\* Places of a sequence are finite in number.
LEMMA FinitePlaces ==
    ASSUME NEW S, NEW q \in Seq(S), NEW T \in SUBSET DOMAIN q
    PROVE  IsFiniteSet(T)
  <1>1. DOMAIN q = 1..Len(q) /\ Len(q) \in Int
    OBVIOUS
  <1>2. IsFiniteSet(DOMAIN q)
    BY <1>1, FS_Interval
  <1> QED
    BY <1>2, FS_Subset

LEMMA PoolTyped ==
    ASSUME RowsTyped, NEW row \in Account, NEW m \in Markets
    PROVE  market_available_cash(row, m) \in Int
  <1> DEFINE J == {k \in DOMAIN trades : MarketOf[trades[k].stock] = m}
             I == {k \in OpenIds : MarketOf[positions[k].stock] = m}
             realized == [j \in J |-> trades[j].pnl]
             cost == [i \in I |-> positions[i].price * positions[i].lots]
  <1>1. IsFiniteSet(J) /\ \A j \in J : realized[j] \in Int
    <2>1. \A j \in DOMAIN trades : trades[j] \in Trade
      BY DEF RowsTyped
    <2>2. \A j \in J : realized[j] \in Int
      BY <2>1 DEF Trade
    <2> QED
      BY <2>2, FinitePlaces DEF RowsTyped
  <1>2. IsFiniteSet(I) /\ \A i \in I : cost[i] \in Int
    <2>1. \A i \in DOMAIN positions : positions[i] \in Position
      BY DEF RowsTyped
    <2>2. \A i \in I : i \in DOMAIN positions
      BY DEF OpenIds
    <2>3. \A i \in I : cost[i] \in Int
      BY <2>1, <2>2, Costs DEF Position
    <2> QED
      BY <2>2, <2>3, FinitePlaces DEF RowsTyped
  <1> HIDE DEF I, J
  <1>3. SumFunctionOnSet(realized, J) \in Int /\ SumFunctionOnSet(cost, I) \in Int
    <2> HIDE DEF realized, cost
    <2> QED
      BY <1>1, <1>2, SumIsAnInteger
  <1>4. SumFunction(realized) \in Int /\ SumFunction(cost) \in Int
    BY <1>3 DEF SumFunction
  <1>5. Budget(row, m) \in Int
    BY BudgetTyped
  <1>6. market_available_cash(row, m) = Budget(row, m) + SumFunction(realized) - SumFunction(cost)
    BY DEF market_available_cash, I, J
  <1> HIDE DEF realized, cost
  <1> QED
    BY <1>4, <1>5, <1>6

-----------------------------------------------------------------------------
(* The types are kept.                                                     *)

LEMMA TypesAtOutset == Init => Typed
  <1> SUFFICES ASSUME Init
               PROVE  Typed
    OBVIOUS
  <1> USE DEF Init
  <1>1. account \in Account
    <2>1. PICK c \in Capitals, a \in Allocations :
             account = [initial |-> c, cash |-> c, pnl |-> 0, trades |-> 0,
                        enabled |-> TRUE, alloc |-> a]
      OBVIOUS
    <2>2. c \in Nat
      BY PaperAssumption
    <2> QED
      BY <2>1, <2>2 DEF Account
  <1>2. RowsTyped
    BY <1>1, PaperAssumption DEF RowsTyped
  <1>3. SessionsTyped
    BY DEF SessionsTyped, Places, EmptyPool
  <1> QED
    BY <1>2, <1>3 DEF Typed, HistoryTyped, InHand

\* The sessions, when one of them takes a step.
LEMMA HistoryKept ==
    ASSUME Typed, NEW s \in Sessions, OnlyAt(s, pc, pc'), pc' \in [Sessions -> Places],
           \/ Commits(s) /\ pc'[s] \in Places
           \/ Leaves(s)
           \/ UNCHANGED history /\ (pc[s] # "idle" => pc'[s] # "idle")
    PROVE  HistoryTyped'
BY DEF Typed, HistoryTyped, OnlyAt, Commits, Leaves, history, SessionsTyped

LEMMA HandKept ==
    ASSUME Typed, NEW s \in Sessions, OnlyAt(s, pc, pc'), OnlyAt(s, cached, cached'),
           OnlyAt(s, closing, closing'),
           pc'[s] = "idle" => cached'[s] = Expired,
           pc'[s] \in {"signals", "quotes", "entries", "manual", "settings"} =>
              cached'[s] # Expired,
           closing'[s] # {} => cached'[s] # Expired
    PROVE  InHand'
BY DEF Typed, InHand, OnlyAt

LEMMA FinishedTyped ==
    ASSUME Typed, NEW s \in Sessions, Finished(s), Commits(s) \/ Leaves(s)
    PROVE  SessionsTyped' /\ HistoryTyped' /\ InHand'
  <1>1. SessionsTyped'
    <2> USE DEF Typed, SessionsTyped, Finished
    <2>1. pc' \in [Sessions -> Places] /\ todo' \in [Sessions -> SUBSET Stocks]
      BY DEF Places
    <2>2. cached' \in [Sessions -> Account \cup {Expired}]
      OBVIOUS
    <2>3. pool' \in [Sessions -> [Markets -> Int]]
      <3>1. EmptyPool \in [Markets -> Int]
        BY DEF EmptyPool
      <3> QED
        BY <3>1
    <2>4. opening' \in [Sessions -> Seq([stock : Stocks, price : Prices, lots : Nat \ {0}])]
      <3> DEFINE E == [stock : Stocks, price : Prices, lots : Nat \ {0}]
      <3>1. opening \in [Sessions -> Seq(E)] /\ opening' = [opening EXCEPT ![s] = <<>>]
        OBVIOUS
      <3> HIDE DEF E, Typed, SessionsTyped, Finished
      <3>2. <<>> \in Seq(E)
        OBVIOUS
      <3>3. opening' \in [Sessions -> Seq(E)]
        BY <3>1, <3>2
      <3> QED
        BY <3>3 DEF E
    <2>5. /\ loaded' \in [Sessions -> SUBSET [id : Nat, pos : Position]]
          /\ touched' \in [Sessions -> SUBSET Nat]
          /\ closing' \in [Sessions -> SUBSET [id : Nat, trade : Trade]]
      OBVIOUS
    <2> QED
      BY <2>1, <2>2, <2>3, <2>4, <2>5
  <1>2. /\ OnlyAt(s, pc, pc') /\ OnlyAt(s, cached, cached') /\ OnlyAt(s, closing, closing')
        /\ pc'[s] = "idle" /\ cached'[s] = Expired /\ closing'[s] = {}
    BY DEF Typed, SessionsTyped, Finished, OnlyAt
  <1>3. HistoryTyped'
    BY <1>1, <1>2, HistoryKept DEF SessionsTyped, Places
  <1>4. InHand'
    BY <1>2, HandKept
  <1> QED
    BY <1>1, <1>3, <1>4

LEMMA FailsTyped ==
    ASSUME Typed, NEW s \in Sessions, Fails(s)
    PROVE  Typed'
BY FinishedTyped DEF Fails, Typed, RowsTyped, rows

LEMMA BeginningsTyped ==
    ASSUME Typed, NEW s \in Sessions, ScanBegins(s) \/ SettingsBegins(s)
    PROVE  Typed'
  <1>1. PICK place \in {"signals", "settings"} :
            /\ pc' = [pc EXCEPT ![s] = place] /\ cached' = [cached EXCEPT ![s] = account]
            /\ UNCHANGED <<rows, todo, pool, opening, loaded, touched, closing, history>>
    BY DEF ScanBegins, SettingsBegins
  <1>2. RowsTyped' /\ account \in Account /\ account # Expired
    BY <1>1, NotExpired DEF Typed, RowsTyped, rows
  <1>3. SessionsTyped'
    BY <1>1, <1>2 DEF Typed, SessionsTyped, Places
  <1>4. /\ OnlyAt(s, pc, pc') /\ OnlyAt(s, cached, cached') /\ OnlyAt(s, closing, closing')
        /\ pc'[s] = place /\ cached'[s] = account /\ closing'[s] = closing[s]
    BY <1>1 DEF Typed, SessionsTyped, OnlyAt
  <1>5. HistoryTyped'
    BY <1>1, <1>3, <1>4, HistoryKept DEF SessionsTyped
  <1>6. InHand'
    BY <1>2, <1>4, HandKept
  <1> QED
    BY <1>2, <1>3, <1>5, <1>6 DEF Typed

\* Steps on which a session keeps the account in hand, or still has none.
LEMMA HandUntouched ==
    ASSUME Typed, NEW s \in Sessions, SessionsTyped', OnlyAt(s, pc, pc'),
           UNCHANGED <<cached, closing, history>>,
           pc[s] # "idle", pc'[s] # "idle",
           pc'[s] \in {"signals", "quotes", "entries", "manual", "settings"} =>
              pc[s] \in {"signals", "quotes", "entries", "manual", "settings"}
    PROVE  HistoryTyped' /\ InHand'
  <1>1. HistoryTyped'
    BY HistoryKept DEF SessionsTyped
  <1>2. InHand'
    BY HandKept DEF Typed, InHand, OnlyAt, SessionsTyped
  <1> QED
    BY <1>1, <1>2

LEMMA SignalsTyped ==
    ASSUME Typed, NEW s \in Sessions, ReadSignals(s)
    PROVE  Typed'
  <1>1. PICK signals \in SUBSET Stocks : todo' = [todo EXCEPT ![s] = signals \ OpenStocks]
    BY DEF ReadSignals
  <1>2. PICK place \in {"exits", "quotes"} : pc' = [pc EXCEPT ![s] = place]
    BY DEF ReadSignals
  <1>3. pc[s] = "signals" /\ UNCHANGED <<rows, cached, pool, opening, loaded, touched, closing, history>>
    BY DEF ReadSignals
  <1>4. SessionsTyped'
    BY <1>1, <1>2, <1>3 DEF Typed, SessionsTyped, Places
  <1>5. OnlyAt(s, pc, pc') /\ pc'[s] = place
    BY <1>2 DEF Typed, SessionsTyped, OnlyAt
  <1>6. HistoryTyped' /\ InHand'
    BY <1>3, <1>4, <1>5, HandUntouched
  <1> QED
    BY <1>3, <1>4, <1>6 DEF Typed, RowsTyped, rows

LEMMA PoolsTyped ==
    ASSUME Typed, NEW s \in Sessions, ReadPools(s)
    PROVE  Typed'
  <1>1. /\ pc[s] = "quotes" /\ pc' = [pc EXCEPT ![s] = "entries"]
        /\ pool' = [pool EXCEPT ![s] = [m \in Markets |-> market_available_cash(cached[s], m)]]
        /\ UNCHANGED <<rows, cached, todo, opening, loaded, touched, closing, history>>
    BY DEF ReadPools
  <1>2. cached[s] \in Account
    BY <1>1, Held DEF Typed, InHand
  <1>3. [m \in Markets |-> market_available_cash(cached[s], m)] \in [Markets -> Int]
    BY <1>2, PoolTyped DEF Typed
  <1>4. SessionsTyped'
    BY <1>1, <1>3 DEF Typed, SessionsTyped, Places
  <1>5. OnlyAt(s, pc, pc') /\ pc'[s] = "entries"
    BY <1>1 DEF Typed, SessionsTyped, OnlyAt
  <1>6. HistoryTyped' /\ InHand'
    BY <1>1, <1>4, <1>5, HandUntouched
  <1> QED
    BY <1>1, <1>4, <1>6 DEF Typed, RowsTyped, rows

LEMMA SkipTyped ==
    ASSUME Typed, NEW s \in Sessions, Skip(s) \/ NoEntries(s) \/ Keep(s)
    PROVE  Typed'
  <1>1. PICK place \in {"entries", "exits", "examine"} :
            /\ pc' = [pc EXCEPT ![s] = place] /\ pc[s] \in {"entries", "examine"}
            /\ place \in {pc[s], "exits"}
    <2>1. pc' = [pc EXCEPT ![s] = "exits"] \/ (pc' = pc /\ pc[s] \in {"entries", "examine"})
      BY DEF Skip, NoEntries, Keep
    <2>2. pc = [pc EXCEPT ![s] = pc[s]]
      BY DEF Typed, SessionsTyped
    <2>3. pc[s] \in {"entries", "examine"}
      BY DEF Skip, NoEntries, Keep
    <2> QED
      BY <2>1, <2>2, <2>3
  <1>2. UNCHANGED <<rows, cached, pool, opening, closing, history>>
    BY DEF Skip, NoEntries, Keep
  <1>3. todo' \in [Sessions -> SUBSET Stocks]
    BY DEF Skip, NoEntries, Keep, Typed, SessionsTyped
  <1>4. /\ loaded' \in [Sessions -> SUBSET [id : Nat, pos : Position]]
        /\ touched' \in [Sessions -> SUBSET Nat]
    <2>1. CASE UNCHANGED <<loaded, touched>>
      BY <2>1 DEF Typed, SessionsTyped
    <2>2. CASE Keep(s)
      <3>1. PICK row \in loaded[s] :
               /\ loaded' = [loaded EXCEPT ![s] = @ \ {row}]
               /\ touched' = touched \/ touched' = [touched EXCEPT ![s] = @ \cup {row.id}]
        BY <2>2 DEF Keep
      <3>2. row \in [id : Nat, pos : Position]
        BY DEF Typed, SessionsTyped
      <3>3. row.id \in Nat
        BY <3>2
      <3> QED
        BY <3>1, <3>3 DEF Typed, SessionsTyped
    <2> QED
      BY <2>1, <2>2 DEF Skip, NoEntries
  <1>5. SessionsTyped'
    BY <1>1, <1>2, <1>3, <1>4 DEF Typed, SessionsTyped, Places
  <1>6. OnlyAt(s, pc, pc') /\ pc'[s] = place
    BY <1>1 DEF Typed, SessionsTyped, OnlyAt
  <1>7. HistoryTyped' /\ InHand'
    BY <1>1, <1>2, <1>5, <1>6, HandUntouched
  <1> QED
    BY <1>2, <1>5, <1>7 DEF Typed, RowsTyped, rows

\* What a session enters at, whatever the choice.
LEMMA Entry ==
    ASSUME Typed, NEW s \in Sessions, Enter(s)
    PROVE  \E p \in [stock : Stocks, price : Prices, lots : Nat \ {0}] :
             /\ opening' = [opening EXCEPT ![s] = Append(@, p)]
             /\ pool' = [pool EXCEPT ![s][MarketOf[p.stock]] = @ - Outlay(p)]
             /\ cached' = [cached EXCEPT ![s].cash = @ - Outlay(p)]
             /\ todo' = [todo EXCEPT ![s] = @ \ {p.stock}]
  <1> DEFINE lots(k, price, w) ==
               _compute_quantity(Budget(cached[s], MarketOf[k]), w, price,
                                 pool[s][MarketOf[k]])
             entry(k, price, w) == [stock |-> k, price |-> price, lots |-> lots(k, price, w)]
  <1>1. PICK k \in todo[s], price \in Prices, w \in Weights :
           /\ lots(k, price, w) > 0
           /\ opening' = [opening EXCEPT ![s] = Append(@, entry(k, price, w))]
           /\ pool' = [pool EXCEPT ![s][MarketOf[k]] = @ - Outlay(entry(k, price, w))]
           /\ cached' = [cached EXCEPT ![s].cash = @ - Outlay(entry(k, price, w))]
           /\ todo' = [todo EXCEPT ![s] = @ \ {k}]
    BY ZenonT(30) DEF Enter
  <1>2. k \in Stocks /\ MarketOf[k] \in Markets
    BY PaperAssumption DEF Typed, SessionsTyped
  <1>3. lots(k, price, w) \in Nat
    <2>1. cached[s] \in Account
      BY Held DEF Typed, InHand, Enter
    <2>2. Budget(cached[s], MarketOf[k]) \in Int
      BY <1>2, <2>1, BudgetTyped
    <2>3. pool[s][MarketOf[k]] \in Int
      BY <1>2 DEF Typed, SessionsTyped
    <2> QED
      BY <2>2, <2>3, QuantityTyped
  <1> HIDE DEF lots
  <1>4. /\ entry(k, price, w) \in [stock : Stocks, price : Prices, lots : Nat \ {0}]
        /\ entry(k, price, w).stock = k
    BY <1>1, <1>2, <1>3
  <1> HIDE DEF entry
  <1> QED
    BY <1>1, <1>4, ZenonT(30)

\* Cash changes, and the rest of the account stays.
LEMMA CashOnly ==
    ASSUME NEW row \in Account, NEW cash \in Int
    PROVE  /\ [row EXCEPT !.cash = cash] \in Account
           /\ [row EXCEPT !.cash = cash].cash = cash
           /\ [row EXCEPT !.cash = cash].initial = row.initial
           /\ [row EXCEPT !.cash = cash].pnl = row.pnl
           /\ [row EXCEPT !.cash = cash].trades = row.trades
BY DEF Account

LEMMA EnterTyped ==
    ASSUME Typed, NEW s \in Sessions, Enter(s)
    PROVE  /\ Typed' /\ OnlyAt(s, cached, cached') /\ OnlyAt(s, opening, opening')
           /\ \E p \in [stock : Stocks, price : Prices, lots : Nat \ {0}] :
                 /\ opening'[s] = Append(opening[s], p)
                 /\ cached'[s] \in Account
                 /\ cached'[s].cash = cached[s].cash - Outlay(p)
                 /\ cached'[s].initial = cached[s].initial
                 /\ cached'[s].pnl = cached[s].pnl
                 /\ cached'[s].trades = cached[s].trades
  <1> DEFINE E == [stock : Stocks, price : Prices, lots : Nat \ {0}]
  <1>1. PICK p \in E :
             /\ opening' = [opening EXCEPT ![s] = Append(@, p)]
             /\ pool' = [pool EXCEPT ![s][MarketOf[p.stock]] = @ - Outlay(p)]
             /\ cached' = [cached EXCEPT ![s].cash = @ - Outlay(p)]
             /\ todo' = [todo EXCEPT ![s] = @ \ {p.stock}]
    BY Entry
  <1>2. pc[s] = "entries" /\ UNCHANGED <<rows, pc, loaded, touched, closing, history>>
    BY DEF Enter
  <1>3. Outlay(p) \in Int /\ MarketOf[p.stock] \in Markets
    BY Costs, PaperAssumption
  <1>4. cached[s] \in Account /\ cached[s].cash \in Int
    BY <1>2, Held DEF Typed, InHand, Account
  <1> DEFINE left == [cached[s] EXCEPT !.cash = cached[s].cash - Outlay(p)]
             room == [pool[s] EXCEPT ![MarketOf[p.stock]] = pool[s][MarketOf[p.stock]] - Outlay(p)]
  <1>5. cached' = [cached EXCEPT ![s] = left]
    BY <1>1, ZenonT(30)
  <1>6. pool' = [pool EXCEPT ![s] = room]
    BY <1>1, ZenonT(30)
  <1>7. /\ left \in Account /\ left.cash = cached[s].cash - Outlay(p)
        /\ left.initial = cached[s].initial /\ left.pnl = cached[s].pnl
        /\ left.trades = cached[s].trades
    <2>1. cached[s].cash - Outlay(p) \in Int
      BY <1>3, <1>4
    <2> QED
      BY <1>4, <2>1, CashOnly
  <1>8. room \in [Markets -> Int]
    BY <1>3 DEF Typed, SessionsTyped
  <1> HIDE DEF left, room
  <1>9. SessionsTyped'
    <2>1. cached' \in [Sessions -> Account \cup {Expired}] /\ pool' \in [Sessions -> [Markets -> Int]]
      BY <1>5, <1>6, <1>7, <1>8 DEF Typed, SessionsTyped
    <2>2. opening' \in [Sessions -> Seq(E)]
      <3>1. opening[s] \in Seq(E)
        BY DEF Typed, SessionsTyped
      <3> HIDE DEF E
      <3>2. Append(opening[s], p) \in Seq(E)
        BY <3>1
      <3> QED
        BY <1>1, <3>2 DEF Typed, SessionsTyped, E
    <2>3. todo' \in [Sessions -> SUBSET Stocks]
      BY <1>1 DEF Typed, SessionsTyped
    <2> QED
      BY <1>2, <2>1, <2>2, <2>3 DEF Typed, SessionsTyped
  <1>10. cached'[s] = left /\ OnlyAt(s, cached, cached') /\ left # Expired
    BY <1>5, <1>7, NotExpired DEF Typed, SessionsTyped, OnlyAt
  <1>11. OnlyAt(s, pc, pc') /\ OnlyAt(s, closing, closing')
    BY <1>2 DEF OnlyAt
  <1>12. HistoryTyped'
    BY <1>2, <1>9, <1>11, HistoryKept DEF SessionsTyped
  <1>13. InHand'
    BY <1>2, <1>10, <1>11, HandKept
  <1>14. Typed'
    BY <1>2, <1>9, <1>12, <1>13 DEF Typed, RowsTyped, rows
  <1>15. opening'[s] = Append(opening[s], p) /\ OnlyAt(s, opening, opening')
    BY <1>1 DEF Typed, SessionsTyped, OnlyAt
  <1> QED
    BY <1>7, <1>10, <1>14, <1>15

LEMMA ReadPositionsTyped ==
    ASSUME Typed, NEW s \in Sessions, ReadPositions(s)
    PROVE  Typed'
  <1>1. CASE OpenIds = {}
    <2>1. Finished(s) /\ Leaves(s) /\ UNCHANGED rows
      BY <1>1 DEF ReadPositions
    <2> QED
      BY <2>1, FinishedTyped DEF Typed, RowsTyped, rows
  <1>2. CASE OpenIds # {}
    <2> DEFINE open == {[id |-> i, pos |-> positions[i]] : i \in OpenIds}
    <2>1. /\ loaded' = [loaded EXCEPT ![s] = open] /\ pc' = [pc EXCEPT ![s] = "examine"]
          /\ pc[s] = "exits"
          /\ UNCHANGED <<rows, cached, todo, pool, opening, touched, closing, history>>
      BY <1>2 DEF ReadPositions
    <2>2. open \in SUBSET [id : Nat, pos : Position]
      BY DEF OpenIds, Typed, RowsTyped
    <2> HIDE DEF open
    <2>3. SessionsTyped'
      BY <2>1, <2>2 DEF Typed, SessionsTyped, Places
    <2>4. OnlyAt(s, pc, pc') /\ pc'[s] = "examine"
      BY <2>1 DEF Typed, SessionsTyped, OnlyAt
    <2>5. HistoryTyped' /\ InHand'
      BY <2>1, <2>3, <2>4, HandUntouched
    <2> QED
      BY <2>1, <2>3, <2>5 DEF Typed, RowsTyped, rows
  <1> QED
    BY <1>1, <1>2

LEMMA CloseBeginsTyped ==
    ASSUME Typed, NEW s \in Sessions, CloseBegins(s)
    PROVE  Typed'
  <1>1. PICK i \in OpenIds :
            /\ loaded' = [loaded EXCEPT ![s] = {[id |-> i, pos |-> positions[i]]}]
            /\ cached' = [cached EXCEPT ![s] = account]
            /\ pc' = [pc EXCEPT ![s] = "manual"]
            /\ UNCHANGED <<rows, todo, pool, opening, touched, closing, history>>
    BY DEF CloseBegins
  <1>2. [id |-> i, pos |-> positions[i]] \in [id : Nat, pos : Position]
    BY DEF OpenIds, Typed, RowsTyped
  <1>3. RowsTyped' /\ account \in Account /\ account # Expired
    BY <1>1, NotExpired DEF Typed, RowsTyped, rows
  <1>4. SessionsTyped'
    BY <1>1, <1>2, <1>3 DEF Typed, SessionsTyped, Places
  <1>5. /\ OnlyAt(s, pc, pc') /\ OnlyAt(s, cached, cached') /\ OnlyAt(s, closing, closing')
        /\ pc'[s] = "manual" /\ cached'[s] = account /\ closing'[s] = closing[s]
    BY <1>1 DEF Typed, SessionsTyped, OnlyAt
  <1>6. HistoryTyped'
    BY <1>1, <1>4, <1>5, HistoryKept DEF SessionsTyped
  <1>7. InHand'
    BY <1>3, <1>5, HandKept
  <1> QED
    BY <1>3, <1>4, <1>6, <1>7 DEF Typed

\* What closing a row adds to the session.
LEMMA Closing ==
    ASSUME Typed, NEW s \in Sessions, NEW row \in loaded[s], NEW price \in Prices,
           _close_position(s, row, price)
    PROVE  \E c \in [id : Nat, trade : Trade] :
             /\ c.id = row.id
             /\ closing' = [closing EXCEPT ![s] = @ \cup {c}]
             /\ touched' = [touched EXCEPT ![s] = @ \cup {row.id}]
             /\ \E book \in Account :
                   /\ cached' = [cached EXCEPT ![s] = book]
                   /\ book.cash = Row(s).cash + c.trade.pnl + Outlay(row.pos)
                   /\ book.pnl = Row(s).pnl + c.trade.pnl
                   /\ book.trades = Row(s).trades + 1
                   /\ book.initial = Row(s).initial
  <1> DEFINE gain == Proceeds(row.pos, price) - Outlay(row.pos)
             c == [id |-> row.id, trade |-> [serial |-> row.pos.serial,
                                             stock |-> row.pos.stock, pnl |-> gain]]
             book == [Row(s) EXCEPT !.cash = @ + Proceeds(row.pos, price),
                                    !.pnl = @ + gain, !.trades = @ + 1]
  <1>1. /\ closing' = [closing EXCEPT ![s] = @ \cup {c}]
        /\ touched' = [touched EXCEPT ![s] = @ \cup {row.id}]
        /\ cached' = [cached EXCEPT ![s] = book]
    BY ZenonT(30) DEF _close_position
  <1>2. row \in [id : Nat, pos : Position]
    BY DEF Typed, SessionsTyped
  <1>3. row.id \in Nat /\ row.pos \in Position
    BY <1>2
  <1>4. row.pos.price \in Prices /\ row.pos.lots \in Nat
    BY <1>3 DEF Position
  <1>5. Proceeds(row.pos, price) \in Int /\ Outlay(row.pos) \in Int /\ gain \in Int
        /\ Proceeds(row.pos, price) = gain + Outlay(row.pos)
    BY <1>4, Costs
  <1>6. Row(s) \in Account
    BY Held DEF Row, Typed, RowsTyped
  <1> HIDE DEF gain
  <1>7. c \in [id : Nat, trade : Trade] /\ c.id = row.id /\ c.trade.pnl = gain
    BY <1>3, <1>5 DEF Position, Trade
  <1>8. /\ book \in Account
        /\ book.cash = Row(s).cash + Proceeds(row.pos, price)
        /\ book.pnl = Row(s).pnl + gain
        /\ book.trades = Row(s).trades + 1
        /\ book.initial = Row(s).initial
    <2> DEFINE r == Row(s)
               x == r.cash + Proceeds(row.pos, price)
               y == r.pnl + gain
               n == r.trades + 1
    <2>1. x \in Int /\ y \in Int /\ n \in Nat
      BY <1>5, <1>6 DEF Account
    <2>2. book = [r EXCEPT !.cash = x, !.pnl = y, !.trades = n]
      BY Zenon
    <2>3. r \in Account
      BY <1>6
    <2> HIDE DEF book, x, y, n, r
    <2>4. /\ book \in Account /\ book.cash = x /\ book.pnl = y /\ book.trades = n
          /\ book.initial = r.initial
      <3>1. book = [[[r EXCEPT !.cash = x] EXCEPT !.pnl = y] EXCEPT !.trades = n]
        BY <2>2
      <3>2. /\ [r EXCEPT !.cash = x] \in Account /\ [r EXCEPT !.cash = x].cash = x
            /\ [r EXCEPT !.cash = x].initial = r.initial
        BY <2>1, <2>3 DEF Account
      <3> QED
        BY <2>1, <3>1, <3>2 DEF Account
    <2> QED
      BY <2>4 DEF r, x, y, n
  <1> HIDE DEF c, book
  <1>9. book.cash = Row(s).cash + c.trade.pnl + Outlay(row.pos)
    <2>1. Row(s).cash \in Int
      BY <1>6 DEF Account
    <2> QED
      BY <1>5, <1>7, <1>8, <2>1
  <1> QED
    BY <1>1, <1>7, <1>8, <1>9

LEMMA ExitTyped ==
    ASSUME Typed, NEW s \in Sessions, Exit(s) \/ CloseManual(s)
    PROVE  Typed'
  <1>1. PICK row \in loaded[s], price \in Prices : _close_position(s, row, price)
    BY DEF Exit, CloseManual
  <1>2. PICK c \in [id : Nat, trade : Trade], book \in Account :
             /\ c.id = row.id
             /\ closing' = [closing EXCEPT ![s] = @ \cup {c}]
             /\ touched' = [touched EXCEPT ![s] = @ \cup {row.id}]
             /\ cached' = [cached EXCEPT ![s] = book]
    BY <1>1, Closing
  <1>3. UNCHANGED <<rows, todo, pool, opening, history>> /\ pc[s] \in {"examine", "manual"}
    BY DEF Exit, CloseManual
  <1>4. pc' = [pc EXCEPT ![s] = "examine"]
    BY DEF Exit, CloseManual, Typed, SessionsTyped
  <1>5. loaded' \in [Sessions -> SUBSET [id : Nat, pos : Position]]
    <2>1. PICK left \in SUBSET loaded[s] : loaded' = [loaded EXCEPT ![s] = left]
      BY DEF Exit, CloseManual
    <2> QED
      BY <2>1 DEF Typed, SessionsTyped
  <1>6. SessionsTyped'
    BY <1>2, <1>3, <1>4, <1>5 DEF Typed, SessionsTyped, Places
  <1>7. /\ OnlyAt(s, pc, pc') /\ OnlyAt(s, cached, cached') /\ OnlyAt(s, closing, closing')
        /\ pc'[s] = "examine" /\ cached'[s] = book
    BY <1>2, <1>4 DEF Typed, SessionsTyped, OnlyAt
  <1>8. HistoryTyped'
    BY <1>3, <1>6, <1>7, HistoryKept DEF SessionsTyped
  <1>9. InHand'
    BY <1>7, NotExpired, HandKept
  <1> QED
    BY <1>3, <1>6, <1>8, <1>9 DEF Typed, RowsTyped, rows

LEMMA ToggleTyped ==
    ASSUME Typed, NEW s \in Sessions, toggle_account(s)
    PROVE  /\ Typed' /\ account'.cash = account.cash /\ account'.initial = account.initial
           /\ account'.pnl = account.pnl /\ account'.trades = account.trades
  <1>1. /\ account' = [account EXCEPT !.enabled = ~@]
        /\ UNCHANGED <<positions, trades, opened, session, history>>
    BY DEF toggle_account
  <1>2. /\ account' \in Account /\ account'.cash = account.cash
        /\ account'.initial = account.initial
        /\ account'.pnl = account.pnl /\ account'.trades = account.trades
    BY <1>1 DEF Typed, RowsTyped, Account
  <1> QED
    BY <1>1, <1>2 DEF Typed, RowsTyped, SessionsTyped, HistoryTyped, InHand, session, history

\* What the settings write.
LEMMA Settings ==
    ASSUME Typed, NEW s \in Sessions, update_settings(s)
    PROVE  \E c \in Capitals :
             /\ account' \in Account /\ account'.initial = c
             /\ account'.cash = IF c = cached[s].initial THEN account.cash
                                ELSE cached[s].cash + c - cached[s].initial
             /\ account'.pnl = account.pnl /\ account'.trades = account.trades
  <1>1. PICK c \in Capitals, a \in Allocations :
          account' = [account EXCEPT !.initial = c, !.alloc = a,
                         !.cash = IF c = cached[s].initial THEN @
                                  ELSE cached[s].cash + c - cached[s].initial]
    BY DEF update_settings
  <1>2. cached[s] \in Account
    BY Held DEF Typed, InHand, update_settings
  <1>3. c \in Nat /\ cached[s].cash \in Int /\ cached[s].initial \in Int
    BY <1>2, PaperAssumption DEF Account
  <1> DEFINE cash == IF c = cached[s].initial THEN account.cash
                     ELSE cached[s].cash + c - cached[s].initial
  <1>4. cash \in Int
    BY <1>3 DEF Typed, RowsTyped, Account
  <1>5. account' = [account EXCEPT !.initial = c, !.alloc = a, !.cash = cash]
    BY <1>1
  <1> HIDE DEF cash
  <1>6. /\ account' \in Account /\ account'.initial = c /\ account'.cash = cash
        /\ account'.pnl = account.pnl /\ account'.trades = account.trades
    BY <1>3, <1>4, <1>5 DEF Typed, RowsTyped, Account
  <1> QED
    BY <1>6 DEF cash

LEMMA SettingsTyped ==
    ASSUME Typed, NEW s \in Sessions, update_settings(s)
    PROVE  Typed'
  <1>1. Finished(s) /\ Commits(s) /\ UNCHANGED <<positions, trades, opened>>
    BY DEF update_settings
  <1>2. account' \in Account
    BY Settings
  <1> QED
    BY <1>1, <1>2, FinishedTyped DEF Typed, RowsTyped

LEMMA ResetTyped ==
    ASSUME Typed, NEW s \in Sessions, reset_account(s)
    PROVE  /\ Typed' /\ account'.cash = account.initial /\ account'.initial = account.initial
           /\ account'.pnl = 0 /\ account'.trades = 0
  <1>1. /\ account' = [account EXCEPT !.cash = account.initial, !.pnl = 0, !.trades = 0,
                                      !.enabled = TRUE]
        /\ positions' = <<>> /\ trades' = <<>> /\ Commits(s) /\ UNCHANGED <<opened, session>>
    BY DEF reset_account
  <1>2. /\ account' \in Account /\ account'.cash = account.initial
        /\ account'.initial = account.initial /\ account'.pnl = 0 /\ account'.trades = 0
    <2>1. /\ account.initial \in Nat /\ account.initial \in Int
          /\ account.alloc \in Allocations
      BY DEF Typed, RowsTyped, Account
    <2>2. account' = [initial |-> account.initial, cash |-> account.initial, pnl |-> 0,
                      trades |-> 0, enabled |-> TRUE, alloc |-> account.alloc]
      BY <1>1 DEF Typed, RowsTyped, Account
    <2> QED
      BY <2>1, <2>2 DEF Account
  <1>3. SessionsTyped' /\ InHand' /\ OnlyAt(s, pc, pc')
    BY <1>1 DEF Typed, SessionsTyped, InHand, session, OnlyAt
  <1>4. HistoryTyped'
    BY <1>1, <1>3, HistoryKept DEF SessionsTyped
  <1>5. positions' \in Seq(Position) /\ trades' \in Seq(Trade)
    BY <1>1
  <1> QED
    BY <1>1, <1>2, <1>3, <1>4, <1>5 DEF Typed, RowsTyped

\* The rows a commit of entries adds.
LEMMA EntriesTyped ==
    ASSUME Typed, IInv, NEW s \in Sessions, CommitEntries(s)
    PROVE  /\ Typed' /\ account'.cash = cached[s].cash /\ account'.initial = account.initial
           /\ account'.pnl = account.pnl /\ account'.trades = account.trades
  <1> DEFINE n == Len(positions)
             m == Len(opening[s])
             new == [i \in DOMAIN opening[s] |->
                       [serial |-> opened + i, stock |-> opening[s][i].stock,
                        price |-> opening[s][i].price, lots |-> opening[s][i].lots,
                        open |-> TRUE]]
             E == [stock : Stocks, price : Prices, lots : Nat \ {0}]
  <1>1. /\ pc[s] = "entries" /\ positions' = positions \o new /\ opened' = opened + m
        /\ opened + m <= MaxOpens /\ Commits(s) /\ pc' = [pc EXCEPT ![s] = "exits"]
        /\ account' = [account EXCEPT !.cash = cached[s].cash]
        /\ cached' = [cached EXCEPT ![s] = Expired]
        /\ UNCHANGED <<trades, todo, pool, opening, loaded, touched, closing>>
    BY DEF CommitEntries
  <1>2. opening[s] \in Seq(E) /\ opened \in 0..MaxOpens /\ MaxOpens \in Nat
    BY PaperAssumption DEF Typed, RowsTyped, SessionsTyped
  <1>3. m \in Nat /\ DOMAIN opening[s] = 1..m /\ \A i \in 1..m : opening[s][i] \in E
    <2> HIDE DEF E
    <2> QED
      BY <1>2
  <1>4. new \in Seq(Position)
    <2>1. \A i \in 1..m : new[i] \in Position
      BY <1>1, <1>2, <1>3 DEF Position
    <2>2. DOMAIN new = 1..m /\ new = [i \in 1..m |-> new[i]]
      BY <1>3
    <2> HIDE DEF new, m
    <2> QED
      BY <1>3, <2>1, <2>2
  <1>5. positions' \in Seq(Position)
    <2> HIDE DEF new
    <2> QED
      BY <1>1, <1>4 DEF Typed, RowsTyped
  <1>6. cached[s] \in Account /\ cached[s].cash \in Int
    BY <1>1, Held DEF Typed, InHand, Account
  <1>7. /\ account' \in Account /\ account'.cash = cached[s].cash
        /\ account'.initial = account.initial
        /\ account'.pnl = account.pnl /\ account'.trades = account.trades
    BY <1>1, <1>6, CashOnly DEF Typed, RowsTyped
  <1> HIDE DEF new, E
  <1>8. RowsTyped'
    BY <1>1, <1>2, <1>3, <1>5, <1>7 DEF Typed, RowsTyped
  <1>9. SessionsTyped'
    BY <1>1 DEF Typed, SessionsTyped, Places
  <1>10. /\ OnlyAt(s, pc, pc') /\ OnlyAt(s, cached, cached') /\ OnlyAt(s, closing, closing')
         /\ pc'[s] = "exits" /\ closing'[s] = {}
    BY <1>1 DEF Typed, SessionsTyped, OnlyAt, IInv, Outset
  <1>11. HistoryTyped'
    BY <1>1, <1>9, <1>10, HistoryKept DEF SessionsTyped
  <1>12. InHand'
    BY <1>10, HandKept
  <1> QED
    BY <1>7, <1>8, <1>9, <1>11, <1>12 DEF Typed

LEMMA ExitsTyped ==
    ASSUME Typed, IInv, NEW s \in Sessions, CommitExits(s)
    PROVE  /\ Typed' /\ account'.initial = account.initial
           /\ closing[s] # {} => /\ account'.cash = cached[s].cash
                                 /\ account'.pnl = cached[s].pnl
                                 /\ account'.trades = cached[s].trades
           /\ closing[s] = {} => account' = account
  <1>1. WriteCloses(s) /\ Finished(s) /\ (Commits(s) \/ Leaves(s)) /\ UNCHANGED opened
    BY DEF CommitExits
  <1>2. positions' \in Seq(Position)
    <2>1. positions' = [i \in DOMAIN positions |->
             IF \E c \in closing[s] : c.id = i
             THEN [positions[i] EXCEPT !.open = FALSE] ELSE positions[i]]
      BY <1>1 DEF WriteCloses
    <2>2. /\ positions \in Seq(Position) /\ Len(positions) \in Nat
          /\ DOMAIN positions = 1..Len(positions)
      BY DEF Typed, RowsTyped
    <2>3. \A i \in 1..Len(positions) : positions[i] \in Position
      BY <2>2
    <2>4. \A p \in Position : [p EXCEPT !.open = FALSE] \in Position
      BY DEF Position
    <2>5. \A i \in 1..Len(positions) : positions'[i] \in Position
      BY <2>1, <2>2, <2>3, <2>4
    <2>6. DOMAIN positions' = 1..Len(positions)
          /\ positions' = [i \in 1..Len(positions) |-> positions'[i]]
      BY <2>1, <2>2
    <2> QED
      BY <2>2, <2>5, <2>6
  <1>3. trades' \in Seq(Trade)
    <2> DEFINE T == {c.trade : c \in closing[s]}
    <2>1. T \subseteq Trade
      BY DEF Typed, SessionsTyped
    <2>2. IsFiniteSet(T)
      <3> DEFINE f == [c \in closing[s] |-> c.trade]
      <3>1. f \in Surjection(closing[s], T)
        BY DEF Surjection
      <3> HIDE DEF f, T
      <3> QED
        BY <3>1, FS_Surjection DEF IInv, Shape
    <2> HIDE DEF T
    <2>3. /\ Sequence(SetToSeq(T)) /\ \A i \in DOMAIN SetToSeq(T) : SetToSeq(T)[i] \in Trade
      BY <2>1, <2>2, AnyOrder
    <2>4. SetToSeq(T) \in Seq(Trade)
      <3> DEFINE q == SetToSeq(T)
      <3> HIDE DEF q
      <3>1. Sequence(q) /\ \A i \in DOMAIN q : q[i] \in Trade
        BY <2>3 DEF q
      <3>2. Len(q) \in Nat /\ DOMAIN q = 1..Len(q) /\ q = [i \in 1..Len(q) |-> q[i]]
        BY <3>1, Positions
      <3>3. q \in Seq(Trade)
        BY <3>1, <3>2
      <3> QED
        BY <3>3 DEF q
    <2>5. trades' = trades \o SetToSeq(T)
      BY <1>1 DEF WriteCloses, T
    <2> QED
      BY <2>4, <2>5 DEF Typed, RowsTyped
  <1>4. CASE closing[s] = {}
    <2>1. account' = account
      BY <1>1, <1>4 DEF WriteCloses
    <2> QED
      BY <1>1, <1>2, <1>3, <1>4, <2>1, FinishedTyped DEF Typed, RowsTyped
  <1>5. CASE closing[s] # {}
    <2>1. account' = [account EXCEPT !.cash = cached[s].cash, !.pnl = cached[s].pnl,
                                     !.trades = cached[s].trades]
      BY <1>1, <1>5 DEF WriteCloses
    <2>2. cached[s] \in Account
      BY <1>5, Held DEF Typed, InHand
    <2>3. /\ cached[s].cash \in Int /\ cached[s].pnl \in Int /\ cached[s].trades \in Nat
      BY <2>2 DEF Account
    <2>4. account' = [initial |-> account.initial, cash |-> cached[s].cash,
                      pnl |-> cached[s].pnl, trades |-> cached[s].trades,
                      enabled |-> account.enabled, alloc |-> account.alloc]
      BY <2>1 DEF Typed, RowsTyped, Account
    <2>5. /\ account.initial \in Nat /\ account.enabled \in BOOLEAN
          /\ account.alloc \in Allocations
      BY DEF Typed, RowsTyped, Account
    <2>6. /\ account' \in Account /\ account'.cash = cached[s].cash
          /\ account'.pnl = cached[s].pnl /\ account'.trades = cached[s].trades
          /\ account'.initial = account.initial
      BY <2>3, <2>4, <2>5 DEF Account
    <2> QED
      BY <1>1, <1>2, <1>3, <1>5, <2>6, FinishedTyped DEF Typed, RowsTyped
  <1> QED
    BY <1>4, <1>5

LEMMA StutterTyped ==
    ASSUME Typed, UNCHANGED vars
    PROVE  Typed'
BY DEF Typed, RowsTyped, SessionsTyped, HistoryTyped, InHand, vars, rows, session, history

-----------------------------------------------------------------------------
(* The money.                                                              *)

\* What a session has taken from the cash for its entries, what the positions
\* it closes have made and what they had cost.
Spent(s) ==
    IF pc[s] = "entries"
    THEN SumFunction([i \in DOMAIN opening[s] |-> Outlay(opening[s][i])]) ELSE 0
Gained(s) == SumFunction([c \in closing[s] |-> c.trade.pnl])
Freed(s)  == SumFunction([c \in closing[s] |-> Outlay(positions[c.id])])

\* The account as the session has it is the account with its own work added.
InStep(s) ==
    /\ Row(s).initial = account.initial
    /\ Row(s).cash = account.cash - Spent(s) + Gained(s) + Freed(s)
    /\ Row(s).pnl = account.pnl + Gained(s)
    /\ Row(s).trades = account.trades + Cardinality(closing[s])

Balanced == CashConserved /\ TotalsAgree

Books == ~crossed => Balanced /\ \A s \in Sessions \ stale : InStep(s)

\* The account's figures are not touched.
SameMoney ==
    /\ account'.cash = account.cash /\ account'.initial = account.initial
    /\ account'.pnl = account.pnl /\ account'.trades = account.trades

LEMMA SumOfNothing ==
    ASSUME NEW f, DOMAIN f = {}
    PROVE  SumFunction(f) = 0
  <1>1. SumFunctionOnSet(f, {}) = 0
    BY FS_EmptySet, SumUnfolds
  <1> QED
    BY <1>1 DEF SumFunction

LEMMA Figures ==
    ASSUME Typed
    PROVE  /\ account.cash \in Int /\ account.pnl \in Int
           /\ account.trades \in Nat /\ account.initial \in Nat
BY DEF Typed, RowsTyped, Account

\* A session that closes nothing.
LEMMA NoCloses ==
    ASSUME NEW s \in Sessions
    PROVE  /\ closing[s] = {} => /\ Gained(s) = 0 /\ Freed(s) = 0
                                 /\ Cardinality(closing[s]) = 0
           /\ closing'[s] = {} => /\ Gained(s)' = 0 /\ Freed(s)' = 0
                                  /\ Cardinality(closing'[s]) = 0
BY SumOfNothing, FS_EmptySet DEF Gained, Freed

\* A session whose account is the one in the table.
LEMMA FreshInStep ==
    ASSUME Typed', NEW s \in Sessions, closing'[s] = {},
           Spent(s)' = 0, cached'[s] \in {account', Expired}
    PROVE  InStep(s)'
  <1>1. Row(s)' = account'
    BY DEF Row
  <1>2. account'.cash \in Int /\ account'.pnl \in Int /\ account'.trades \in Int
    BY DEF Typed, RowsTyped, Account
  <1>3. Gained(s)' = 0 /\ Freed(s)' = 0 /\ Cardinality(closing'[s]) = 0
    BY NoCloses
  <1>4. /\ account'.cash = account'.cash - Spent(s)' + Gained(s)' + Freed(s)'
        /\ account'.pnl = account'.pnl + Gained(s)'
        /\ account'.trades = account'.trades + Cardinality(closing'[s])
    BY <1>2, <1>3
  <1> QED
    BY <1>1, <1>4 DEF InStep

\* A session of which nothing that matters here has changed.
LEMMA StaysInStep ==
    ASSUME NEW s \in Sessions, InStep(s), SameMoney, UNCHANGED positions,
           cached'[s] = cached[s], closing'[s] = closing[s], Spent(s)' = Spent(s)
    PROVE  InStep(s)'
BY DEF InStep, Row, SameMoney, Gained, Freed

LEMMA BalanceStays ==
    ASSUME Balanced, SameMoney, UNCHANGED <<positions, trades>>
    PROVE  Balanced'
BY DEF Balanced, CashConserved, TotalsAgree, SameMoney, OpenIds

\* A step of one session that leaves the tables and the figures alone.
LEMMA BooksPrivate ==
    ASSUME Books, NEW s \in Sessions, SameMoney, UNCHANGED <<positions, trades, crossed>>,
           stale' \in {stale, stale \ {s}}, OnlyAt(s, pc, pc'), OnlyAt(s, cached, cached'),
           OnlyAt(s, opening, opening'), OnlyAt(s, closing, closing'),
           ~crossed /\ s \notin stale' => InStep(s)'
    PROVE  Books'
  <1> SUFFICES ASSUME ~crossed'
               PROVE  Balanced' /\ \A t \in Sessions \ stale' : InStep(t)'
    BY DEF Books
  <1>1. Balanced /\ \A t \in Sessions \ stale : InStep(t)
    BY DEF Books
  <1>2. Balanced'
    BY <1>1, BalanceStays
  <1>3. ASSUME NEW t \in Sessions \ stale', t # s
        PROVE  InStep(t)'
    <2>1. InStep(t) /\ t \in Sessions \ {s}
      BY <1>1, <1>3
    <2>2. /\ pc'[t] = pc[t] /\ cached'[t] = cached[t] /\ opening'[t] = opening[t]
          /\ closing'[t] = closing[t]
      BY <2>1 DEF OnlyAt
    <2>3. Spent(t)' = Spent(t)
      BY <2>2 DEF Spent
    <2> QED
      BY <2>1, <2>2, <2>3, StaysInStep
  <1> QED
    BY <1>2, <1>3

\* After a commit nobody has anything in hand but those who are stale.
LEMMA BooksCommit ==
    ASSUME Typed, Typed', IInv', NEW s \in Sessions, Commits(s),
           OnlyAt(s, pc, pc'), pc'[s] \in {"idle", "exits"}, cached'[s] = Expired,
           ~crossed /\ s \notin stale => Balanced'
    PROVE  Books'
  <1> SUFFICES ASSUME ~crossed'
               PROVE  Balanced' /\ \A t \in Sessions \ stale' : InStep(t)'
    BY DEF Books
  <1>1. Balanced'
    BY DEF Commits
  <1>2. ASSUME NEW t \in Sessions \ stale'
        PROVE  InStep(t)'
    <2>1. pc'[t] \in {"idle", "exits"} /\ cached'[t] = Expired
      <3>1. CASE t = s
        BY <3>1
      <3>2. CASE t # s
        <4>1. pc'[t] = "idle"
          BY <1>2, <3>2 DEF Commits, OnlyAt
        <4> QED
          BY <4>1 DEF Typed, InHand
      <3> QED
        BY <3>1, <3>2
    <2>2. closing'[t] = {} /\ Spent(t)' = 0
      BY <2>1 DEF IInv, Outset, Spent
    <2> QED
      BY <2>1, <2>2, FreshInStep
  <1> QED
    BY <1>1, <1>2

-----------------------------------------------------------------------------
(* The steps before a commit.                                              *)

LEMMA FinishedBooks ==
    ASSUME Typed, Typed', Books, NEW s \in Sessions, Finished(s), Leaves(s), SameMoney,
           UNCHANGED <<positions, trades>>
    PROVE  Books'
  <1>1. /\ pc'[s] = "idle" /\ cached'[s] = Expired /\ closing'[s] = {}
        /\ OnlyAt(s, pc, pc') /\ OnlyAt(s, cached, cached')
        /\ OnlyAt(s, opening, opening') /\ OnlyAt(s, closing, closing')
    BY DEF Typed, SessionsTyped, Finished, OnlyAt
  <1>2. Spent(s)' = 0
    BY <1>1 DEF Spent
  <1>3. InStep(s)'
    BY <1>1, <1>2, FreshInStep
  <1> QED
    BY <1>1, <1>3, BooksPrivate DEF Leaves

LEMMA BeginningBooks ==
    ASSUME Typed, Typed', IInv, Books, NEW s \in Sessions,
           ScanBegins(s) \/ SettingsBegins(s) \/ CloseBegins(s)
    PROVE  Books'
  <1>1. PICK place \in {"signals", "settings", "manual"} : pc' = [pc EXCEPT ![s] = place]
    BY DEF ScanBegins, SettingsBegins, CloseBegins
  <1>2. /\ pc[s] = "idle" /\ cached' = [cached EXCEPT ![s] = account]
        /\ UNCHANGED <<rows, opening, closing, history>>
    BY DEF ScanBegins, SettingsBegins, CloseBegins
  <1>3. /\ pc'[s] = place /\ cached'[s] = account' /\ closing'[s] = {}
        /\ OnlyAt(s, pc, pc') /\ OnlyAt(s, cached, cached')
        /\ OnlyAt(s, opening, opening') /\ OnlyAt(s, closing, closing')
    BY <1>1, <1>2 DEF Typed, SessionsTyped, OnlyAt, rows, IInv, Outset
  <1>4. Spent(s)' = 0
    BY <1>3 DEF Spent
  <1>5. InStep(s)'
    BY <1>3, <1>4, FreshInStep
  <1> QED
    BY <1>2, <1>3, <1>5, BooksPrivate DEF rows, history, SameMoney

\* Steps that read, skip or keep: the account in hand stays what it is.
LEMMA ReadingBooks ==
    ASSUME Typed, Typed', IInv, Books, NEW s \in Sessions,
           \/ ReadSignals(s) \/ ReadPools(s) \/ Skip(s) \/ NoEntries(s)
           \/ Keep(s) \/ (ReadPositions(s) /\ OpenIds # {})
    PROVE  Books'
  <1>1. UNCHANGED <<rows, cached, opening, closing, history>>
    BY DEF ReadSignals, ReadPools, Skip, NoEntries, Keep, ReadPositions
  <1>2. OnlyAt(s, pc, pc') /\ DOMAIN pc = Sessions
    BY DEF ReadSignals, ReadPools, Skip, NoEntries, Keep, ReadPositions, Typed,
           SessionsTyped, OnlyAt
  <1>3. \/ pc'[s] = pc[s]
        \/ pc[s] # "entries" /\ pc'[s] # "entries"
        \/ opening[s] = <<>>
    <2>1. ReadPools(s) => opening[s] = <<>>
      BY DEF ReadPools, IInv, Outset
    <2>2. ReadSignals(s) => pc[s] = "signals" /\ pc'[s] \in {"exits", "quotes"}
      BY <1>2 DEF ReadSignals
    <2>3. ReadPositions(s) /\ OpenIds # {} => pc[s] = "exits" /\ pc'[s] = "examine"
      BY <1>2 DEF ReadPositions
    <2> QED
      BY <2>1, <2>2, <2>3 DEF Skip, NoEntries, Keep
  <1>4. Spent(s)' = Spent(s)
    <2>1. CASE pc'[s] = pc[s]
      BY <1>1, <2>1 DEF Spent
    <2>2. CASE pc[s] # "entries" /\ pc'[s] # "entries"
      BY <2>2 DEF Spent
    <2>3. CASE opening[s] = <<>>
      <3>1. DOMAIN opening[s] = {}
        BY <2>3
      <3>2. DOMAIN [i \in DOMAIN opening[s] |-> Outlay(opening[s][i])] = {}
        BY <3>1
      <3>3. SumFunction([i \in DOMAIN opening[s] |-> Outlay(opening[s][i])]) = 0
        BY <3>2, SumOfNothing
      <3> QED
        BY <1>1, <3>3 DEF Spent
    <2> QED
      BY <1>3, <2>1, <2>2, <2>3
  <1>5. SameMoney /\ UNCHANGED <<positions, trades, stale, crossed>>
    BY <1>1 DEF rows, history, SameMoney
  <1>6. ~crossed /\ s \notin stale' => InStep(s)'
    BY <1>1, <1>4, <1>5, StaysInStep DEF Books
  <1>7. OnlyAt(s, cached, cached') /\ OnlyAt(s, opening, opening') /\ OnlyAt(s, closing, closing')
    BY <1>1 DEF OnlyAt
  <1> QED
    BY <1>2, <1>5, <1>6, <1>7, BooksPrivate

LEMMA ReadPositionsBooks ==
    ASSUME Typed, Typed', IInv, Books, NEW s \in Sessions, ReadPositions(s)
    PROVE  Books'
  <1>1. CASE OpenIds = {}
    BY <1>1, FinishedBooks DEF ReadPositions, rows, SameMoney
  <1>2. CASE OpenIds # {}
    BY <1>2, ReadingBooks
  <1> QED
    BY <1>1, <1>2

\* Finite sums of rows, as integers.
LEMMA Outlays ==
    ASSUME Typed
    PROVE  /\ IsFiniteSet(OpenIds)
           /\ \A i \in OpenIds : i \in DOMAIN positions /\ Outlay(positions[i]) \in Int
           /\ SumFunction([i \in OpenIds |-> Outlay(positions[i])]) \in Int
  <1> DEFINE cost == [i \in OpenIds |-> Outlay(positions[i])]
  <1>1. IsFiniteSet(OpenIds)
    <2>1. OpenIds \in SUBSET DOMAIN positions
      BY DEF OpenIds
    <2> QED
      BY <2>1, FinitePlaces DEF Typed, RowsTyped
  <1>2. \A i \in OpenIds : i \in DOMAIN positions /\ Outlay(positions[i]) \in Int
    <2>1. \A i \in DOMAIN positions : positions[i] \in Position
      BY DEF Typed, RowsTyped
    <2>2. \A i \in DOMAIN positions : positions[i].price \in Prices /\ positions[i].lots \in Nat
      BY <2>1 DEF Position
    <2> QED
      BY <2>2, Costs DEF OpenIds
  <1>3. SumFunctionOnSet(cost, OpenIds) \in Int
    <2>1. \A i \in OpenIds : cost[i] \in Int
      BY <1>2
    <2> HIDE DEF cost
    <2> QED
      BY <1>1, <2>1, SumIsAnInteger
  <1> QED
    BY <1>1, <1>2, <1>3 DEF SumFunction

\* An entry costs what it takes from the cash.
LEMMA SumOfAppended ==
    ASSUME NEW E, NEW q \in Seq(E), NEW p \in E, \A e \in E : Outlay(e) \in Int
    PROVE  /\ SumFunction([i \in DOMAIN q |-> Outlay(q[i])]) \in Int
           /\ SumFunction([i \in DOMAIN Append(q, p) |-> Outlay(Append(q, p)[i])]) =
                 SumFunction([i \in DOMAIN q |-> Outlay(q[i])]) + Outlay(p)
  <1> DEFINE n == Len(q)
             w == Append(q, p)
             f == [i \in DOMAIN q |-> Outlay(q[i])]
             g == [i \in DOMAIN w |-> Outlay(w[i])]
  <1>1. /\ n \in Nat /\ DOMAIN q = 1..n /\ DOMAIN w = 1..(n + 1)
        /\ \A i \in 1..n : w[i] = q[i] /\ q[i] \in E
        /\ w[n + 1] = p
    OBVIOUS
  <1>2. /\ DOMAIN f = 1..n /\ DOMAIN g = 1..(n + 1)
        /\ \A i \in 1..n : g[i] = f[i] /\ f[i] \in Int
        /\ g[n + 1] = Outlay(p) /\ Outlay(p) \in Int
    BY <1>1
  <1> DEFINE S == 1..n
             T == 1..(n + 1)
             x == n + 1
  <1>3. IsFiniteSet(S) /\ T = S \cup {x} /\ x \notin S
    <2> HIDE DEF f, g, w, n
    <2>1. n \in Int /\ 1 \in Int
      BY <1>1
    <2>2. IsFiniteSet(S)
      BY <2>1, FS_Interval
    <2>3. T = S \cup {x} /\ x \notin S
      BY <1>1
    <2> QED
      BY <2>2, <2>3
  <1>4. /\ \A y \in S : f[y] \in Int /\ g[y] = f[y]
        /\ g[x] = Outlay(p) /\ g[x] \in Int /\ DOMAIN f = S /\ DOMAIN g = T
    BY <1>2
  <1> HIDE DEF f, g, n, w, S, T, x
  <1>5. /\ SumFunctionOnSet(f, S) \in Int
        /\ SumFunctionOnSet(g, T) = SumFunctionOnSet(f, S) + g[x]
    BY <1>3, <1>4, SumGrows
  <1>6. SumFunction(g) = SumFunction(f) + Outlay(p) /\ SumFunction(f) \in Int
    BY <1>4, <1>5 DEF SumFunction
  <1> QED
    BY <1>6 DEF f, g, w

LEMMA EnterBooks ==
    ASSUME Typed, Typed', IInv, Books, NEW s \in Sessions, Enter(s)
    PROVE  Books'
  <1> DEFINE E == [stock : Stocks, price : Prices, lots : Nat \ {0}]
  <1>1. PICK p \in E : /\ opening'[s] = Append(opening[s], p)
                       /\ cached'[s] \in Account
                       /\ cached'[s].cash = cached[s].cash - Outlay(p)
                       /\ cached'[s].initial = cached[s].initial
                       /\ cached'[s].pnl = cached[s].pnl
                       /\ cached'[s].trades = cached[s].trades
    BY EnterTyped
  <1>2. pc[s] = "entries" /\ UNCHANGED <<rows, pc, closing, history>>
    BY DEF Enter
  <1>3. OnlyAt(s, cached, cached') /\ OnlyAt(s, opening, opening')
    BY EnterTyped
  <1>4. opening[s] \in Seq(E)
    BY DEF Typed, SessionsTyped
  <1>5. \A e \in E : Outlay(e) \in Int
    BY Costs
  <1> HIDE DEF E
  <1>6. Spent(s) \in Int /\ Spent(s)' = Spent(s) + Outlay(p) /\ Outlay(p) \in Int
    BY <1>1, <1>2, <1>4, <1>5, SumOfAppended DEF Spent
  <1>7. SameMoney /\ UNCHANGED <<positions, trades, stale, crossed>>
    BY <1>2 DEF rows, history, SameMoney
  <1>8. ASSUME ~crossed, s \notin stale
        PROVE  InStep(s)'
    <2>1. InStep(s)
      BY <1>8 DEF Books
    <2>2. /\ Row(s) = cached[s] /\ cached[s] \in Account
          /\ Row(s)' = cached'[s] /\ cached'[s] # Expired
      BY <1>1, <1>2, NotExpired, Held DEF Row, Typed, InHand
    <2>3. closing[s] = {} /\ closing'[s] = {}
      BY <1>2 DEF IInv, Outset
    <2>4. /\ Gained(s) = 0 /\ Freed(s) = 0 /\ Gained(s)' = 0 /\ Freed(s)' = 0
      BY <2>3, NoCloses
    <2>5. cached[s].cash = account.cash - Spent(s)
      <3>1. account.cash \in Int
        BY Figures
      <3>2. cached[s].cash = account.cash - Spent(s) + 0 + 0
        BY <2>1, <2>2, <2>4 DEF InStep
      <3> QED
        BY <1>6, <3>1, <3>2
    <2>6. cached'[s].cash = account'.cash - Spent(s)' + Gained(s)' + Freed(s)'
      <3>1. cached'[s].cash = account.cash - Spent(s) - Outlay(p) /\ account.cash \in Int
        BY <1>1, <2>5, Figures
      <3> QED
        BY <1>6, <1>7, <2>4, <3>1 DEF SameMoney
    <2>7. /\ Row(s).initial = account.initial /\ Row(s).pnl = account.pnl + Gained(s)
          /\ Row(s).trades = account.trades + Cardinality(closing[s])
      BY <2>1 DEF InStep
    <2> QED
      BY <1>1, <1>2, <1>7, <2>2, <2>4, <2>6, <2>7 DEF InStep, SameMoney
  <1> QED
    BY <1>2, <1>3, <1>7, <1>8, BooksPrivate DEF OnlyAt

LEMMA ToggleBooks ==
    ASSUME Typed, Typed', IInv, Books, NEW s \in Sessions, toggle_account(s)
    PROVE  Books'
  <1>1. /\ UNCHANGED <<positions, trades, session, history>> /\ SameMoney
        /\ pc[s] = "idle"
    BY ToggleTyped DEF toggle_account, SameMoney
  <1>2. UNCHANGED <<pc, cached, opening, closing, stale, crossed>>
    BY <1>1 DEF session, history
  <1>3. Spent(s)' = Spent(s)
    BY <1>2 DEF Spent
  <1>4. ~crossed /\ s \notin stale' => InStep(s)'
    BY <1>1, <1>2, <1>3, StaysInStep DEF Books
  <1>5. /\ OnlyAt(s, pc, pc') /\ OnlyAt(s, cached, cached')
        /\ OnlyAt(s, opening, opening') /\ OnlyAt(s, closing, closing')
    BY <1>2 DEF OnlyAt
  <1> QED
    BY <1>1, <1>2, <1>4, <1>5, BooksPrivate

-----------------------------------------------------------------------------
(* Closing, and the commits.                                               *)

LEMMA ExitBooks ==
    ASSUME Typed, Typed', IInv, Books, NEW s \in Sessions, Exit(s) \/ CloseManual(s)
    PROVE  Books'
  <1>1. PICK row \in loaded[s], price \in Prices : _close_position(s, row, price)
    BY DEF Exit, CloseManual
  <1>2. PICK c \in [id : Nat, trade : Trade], book \in Account :
             /\ c.id = row.id
             /\ closing' = [closing EXCEPT ![s] = @ \cup {c}]
             /\ cached' = [cached EXCEPT ![s] = book]
             /\ book.cash = Row(s).cash + c.trade.pnl + Outlay(row.pos)
             /\ book.pnl = Row(s).pnl + c.trade.pnl
             /\ book.trades = Row(s).trades + 1
             /\ book.initial = Row(s).initial
    BY <1>1, Closing
  <1>3. UNCHANGED <<rows, opening, history>> /\ pc[s] \in {"examine", "manual"}
    BY DEF Exit, CloseManual
  <1>4. pc' = [pc EXCEPT ![s] = "examine"]
    BY DEF Exit, CloseManual, Typed, SessionsTyped
  <1>5. /\ OnlyAt(s, pc, pc') /\ OnlyAt(s, cached, cached') /\ OnlyAt(s, opening, opening')
        /\ OnlyAt(s, closing, closing')
        /\ pc'[s] = "examine" /\ cached'[s] = book /\ closing'[s] = closing[s] \cup {c}
    BY <1>2, <1>3, <1>4 DEF Typed, SessionsTyped, OnlyAt
  <1>6. SameMoney /\ UNCHANGED <<positions, trades, stale, crossed>>
    BY <1>3 DEF rows, history, SameMoney
  <1>7. ASSUME ~crossed, s \notin stale
        PROVE  InStep(s)'
    <2>1. InStep(s) /\ Own(s)
      BY <1>7, Relies DEF Books
    <2> DEFINE C == closing[s]
               D == closing'[s]
               gain == [d \in C |-> d.trade.pnl]
               gains == [d \in D |-> d.trade.pnl]
               cost == [d \in C |-> Outlay(positions[d.id])]
               costs == [d \in D |-> Outlay(positions[d.id])]
    <2>2. /\ row.id \in OpenIds /\ row.pos = positions[row.id]
          /\ c \notin C /\ \A d \in C : d.id \in OpenIds
      BY <1>2, <2>1 DEF Own, LoadedSound, ClosingSound
    <2>3. IsFiniteSet(C) /\ D = C \cup {c} /\ C \subseteq [id : Nat, trade : Trade]
      BY <1>5 DEF IInv, Shape, Typed, SessionsTyped
    <2>4. \A d \in [id : Nat, trade : Trade] : d.trade.pnl \in Int
      BY DEF Trade
    <2>5. /\ \A d \in C : gain[d] \in Int /\ gains[d] = gain[d]
          /\ gains[c] \in Int
      BY <2>3, <2>4
    <2>6. gains[c] = c.trade.pnl
      BY <2>3
    <2>7. /\ \A d \in C : cost[d] \in Int /\ costs[d] = cost[d]
          /\ costs[c] = Outlay(row.pos) /\ costs[c] \in Int
      BY <1>2, <2>2, <2>3, Outlays
    <2>8. /\ Gained(s) = SumFunctionOnSet(gain, C) /\ Freed(s) = SumFunctionOnSet(cost, C)
          /\ Gained(s)' = SumFunctionOnSet(gains, D) /\ Freed(s)' = SumFunctionOnSet(costs, D)
      BY <1>6 DEF Gained, Freed, SumFunction
    <2> HIDE DEF C, D, gain, gains, cost, costs
    <2>9. /\ SumFunctionOnSet(gain, C) \in Int
          /\ SumFunctionOnSet(gains, D) = SumFunctionOnSet(gain, C) + gains[c]
      <3>1. IsFiniteSet(C) /\ c \notin C /\ D = C \cup {c}
        BY <2>2, <2>3
      <3> QED
        BY <2>5, <3>1, SumGrows
    <2>10. /\ SumFunctionOnSet(cost, C) \in Int
          /\ SumFunctionOnSet(costs, D) = SumFunctionOnSet(cost, C) + costs[c]
      BY <2>2, <2>3, <2>7, SumGrows
    <2>11. /\ Gained(s) \in Int /\ Gained(s)' = Gained(s) + c.trade.pnl
           /\ Freed(s) \in Int /\ Freed(s)' = Freed(s) + Outlay(row.pos)
           /\ c.trade.pnl \in Int /\ Outlay(row.pos) \in Int
      BY <2>5, <2>7, <2>8, <2>9, <2>10, <2>6
    <2>12. Cardinality(C) \in Nat /\ Cardinality(D) = Cardinality(C) + 1
      BY <2>2, <2>3, FS_AddElement, FS_CardinalityType
    <2>13. Spent(s) = 0 /\ Spent(s)' = 0
      BY <1>3, <1>5 DEF Spent
    <2>14. Row(s)' = book
      BY <1>5, NotExpired DEF Row
    <2>15. /\ Row(s).cash = account.cash + Gained(s) + Freed(s)
           /\ Row(s).pnl = account.pnl + Gained(s) /\ Row(s).initial = account.initial
           /\ Row(s).trades = account.trades + Cardinality(C)
      <3>1. account.cash - 0 = account.cash
        BY Figures
      <3> QED
        BY <2>1, <2>13, <3>1 DEF InStep, C
    <2>16. /\ book.cash = account.cash + Gained(s)' + Freed(s)'
           /\ book.pnl = account.pnl + Gained(s)'
           /\ book.trades = account.trades + Cardinality(D)
      <3>1. /\ book.cash = account.cash + Gained(s) + Freed(s) + c.trade.pnl + Outlay(row.pos)
            /\ book.pnl = account.pnl + Gained(s) + c.trade.pnl
            /\ book.trades = account.trades + Cardinality(C) + 1
        BY <1>2, <2>15
      <3>2. account.cash \in Int /\ account.pnl \in Int /\ account.trades \in Int
        BY Figures
      <3> QED
        BY <2>11, <2>12, <3>1, <3>2
    <2>17. account'.cash - 0 = account.cash
      BY <1>6, Figures DEF SameMoney
    <2> QED
      BY <1>2, <1>6, <2>13, <2>14, <2>15, <2>16, <2>17 DEF InStep, SameMoney, D
  <1> QED
    BY <1>5, <1>6, <1>7, BooksPrivate

LEMMA SettingsBooks ==
    ASSUME Typed, Typed', IInv, IInv', Books, NEW s \in Sessions, update_settings(s)
    PROVE  Books'
  <1>1. /\ Commits(s) /\ Finished(s) /\ UNCHANGED <<positions, trades>> /\ pc[s] = "settings"
    BY DEF update_settings
  <1>2. PICK c \in Capitals :
             /\ account'.initial = c
             /\ account'.cash = IF c = cached[s].initial THEN account.cash
                                ELSE cached[s].cash + c - cached[s].initial
             /\ account'.pnl = account.pnl /\ account'.trades = account.trades
    BY Settings
  <1>3. ASSUME ~crossed, s \notin stale
        PROVE  Balanced'
    <2>1. InStep(s) /\ Balanced
      BY <1>3 DEF Books
    <2>2. Row(s) = cached[s]
      BY <1>1 DEF Row, Typed, InHand
    <2>3. Spent(s) = 0 /\ Gained(s) = 0 /\ Freed(s) = 0
      BY <1>1, NoCloses DEF Spent, IInv, Outset
    <2>4. cached[s].initial = account.initial /\ cached[s].cash = account.cash
      <3>1. account.cash = account.cash - 0 + 0 + 0
        BY Figures
      <3> QED
        BY <2>1, <2>2, <2>3, <3>1 DEF InStep
    <2> DEFINE costs == SumFunction([i \in OpenIds |-> Outlay(positions[i])])
    <2>5. costs \in Int /\ costs' = costs
      BY <1>1, Outlays DEF OpenIds
    <2>6. c \in Int
      BY PaperAssumption
    <2>7. account.cash = account.initial + account.pnl - costs
      BY <2>1 DEF Balanced, CashConserved
    <2> HIDE DEF costs
    <2>8. account'.cash = account'.initial + account'.pnl - costs
      BY <1>2, <2>4, <2>5, <2>6, <2>7, Figures
    <2>9. CashConserved'
      BY <2>5, <2>8 DEF CashConserved, costs
    <2>10. TotalsAgree'
      BY <1>1, <1>2, <2>1 DEF Balanced, TotalsAgree
    <2> QED
      BY <2>9, <2>10 DEF Balanced
  <1>4. OnlyAt(s, pc, pc') /\ pc'[s] = "idle" /\ cached'[s] = Expired
    BY <1>1 DEF Finished, Typed, SessionsTyped, OnlyAt
  <1> QED
    BY <1>1, <1>3, <1>4, BooksCommit

LEMMA ResetBooks ==
    ASSUME Typed, Typed', IInv, IInv', Books, NEW s \in Sessions, reset_account(s)
    PROVE  Books'
  <1>1. /\ Commits(s) /\ positions' = <<>> /\ trades' = <<>> /\ pc[s] = "idle"
        /\ UNCHANGED session
    BY DEF reset_account
  <1>2. /\ account'.cash = account'.initial /\ account'.pnl = 0 /\ account'.trades = 0
        /\ account'.cash \in Int
    BY ResetTyped, Figures
  <1>3. DOMAIN positions' = {} /\ DOMAIN trades' = {} /\ Len(trades') = 0 /\ OpenIds' = {}
    BY <1>1 DEF OpenIds
  <1>4. SumFunction([j \in DOMAIN trades |-> trades[j].pnl])' = 0
    <2>1. DOMAIN [j \in DOMAIN trades' |-> trades'[j].pnl] = {}
      BY <1>3
    <2> QED
      BY <2>1, SumOfNothing
  <1>5. SumFunction([i \in OpenIds |-> Outlay(positions[i])])' = 0
    <2>1. DOMAIN [i \in OpenIds' |-> Outlay(positions'[i])] = {}
      BY <1>3
    <2>2. SumFunction([i \in OpenIds' |-> Outlay(positions'[i])]) = 0
      BY <2>1, SumOfNothing
    <2> QED
      BY <2>2 DEF Outlay
  <1>6. CashConserved'
    <2>1. account'.cash = account'.initial + account'.pnl - 0
      BY <1>2
    <2> QED
      BY <1>5, <2>1 DEF CashConserved
  <1>7. TotalsAgree'
    BY <1>2, <1>3, <1>4 DEF TotalsAgree
  <1>8. OnlyAt(s, pc, pc') /\ pc'[s] = "idle" /\ cached'[s] = Expired
    BY <1>1 DEF session, Typed, InHand, OnlyAt
  <1> QED
    BY <1>1, <1>6, <1>7, <1>8, BooksCommit DEF Balanced

\* A set written down in some order: every member once.
LEMMA WholeOrder ==
    ASSUME NEW S, IsFiniteSet(S)
    PROVE  /\ Len(SetToSeq(S)) = Cardinality(S)
           /\ S = {SetToSeq(S)[i] : i \in DOMAIN SetToSeq(S)}
  <1> DEFINE n == Cardinality(S)
             q == SetToSeq(S)
  <1>1. n \in Nat /\ \E f : f \in Bijection(1..n, S)
    BY FS_CardinalityType DEF ExistsBijection
  <1>2. \E f \in [1..n -> S] : IsInjective(f)
    BY <1>1 DEF Bijection, Injection, IsInjective
  <1>3. q \in [1..n -> S] /\ IsInjective(q)
    BY <1>2 DEF SetToSeq
  <1> HIDE DEF n, q
  <1>4. q \in Seq(S) /\ Len(q) = n /\ DOMAIN q = 1..n
    BY <1>1, <1>3
  <1> DEFINE D == 1..n
             zero == [x \in S |-> 0]
             none == [i \in D |-> 0]
             R == {q[i] : i \in D}
  <1>5. IsFiniteSet(D) /\ Cardinality(D) = n
    BY <1>1, FS_Interval
  <1>6. /\ \A x, y \in D : q[x] = q[y] => x = y
        /\ \A x \in D : none[x] \in Int /\ zero[q[x]] = none[x]
    BY <1>3, <1>4 DEF IsInjective
  <1>7. Cardinality(R) = Cardinality(D)
    <2>1. R = {q[i] : i \in D}
      OBVIOUS
    <2> HIDE DEF D, zero, none, R
    <2>2. /\ Cardinality(R) = Cardinality(D)
          /\ SumFunctionOnSet(zero, R) = SumFunctionOnSet(none, D)
      BY <1>5, <1>6, <2>1, SumRenamed
    <2> QED
      BY <2>2
  <1>8. R \in SUBSET S
    BY <1>3
  <1>9. S = R
    <2> HIDE DEF R
    <2> QED
      BY <1>5, <1>7, <1>8, FS_Subset DEF n
  <1> QED
    BY <1>4, <1>9 DEF n, q

\* New rows cost what the scan has taken from the cash.
LEMMA EntriesBooks ==
    ASSUME Typed, Typed', IInv, IInv', Books, NEW s \in Sessions, CommitEntries(s)
    PROVE  Books'
  <1> DEFINE n == Len(positions)
             m == Len(opening[s])
             new == [i \in DOMAIN opening[s] |->
                       [serial |-> opened + i, stock |-> opening[s][i].stock,
                        price |-> opening[s][i].price, lots |-> opening[s][i].lots,
                        open |-> TRUE]]
             E == [stock : Stocks, price : Prices, lots : Nat \ {0}]
  <1>1. /\ pc[s] = "entries" /\ positions' = positions \o new
        /\ Commits(s) /\ pc' = [pc EXCEPT ![s] = "exits"]
        /\ cached' = [cached EXCEPT ![s] = Expired]
        /\ UNCHANGED trades
    BY DEF CommitEntries
  <1>2. /\ account'.cash = cached[s].cash /\ account'.initial = account.initial
        /\ account'.pnl = account.pnl /\ account'.trades = account.trades
    BY EntriesTyped
  <1>3. /\ opening[s] \in Seq(E) /\ positions \in Seq(Position)
    BY DEF Typed, SessionsTyped, RowsTyped
  <1>4. /\ n \in Nat /\ DOMAIN positions = 1..n /\ m \in Nat /\ DOMAIN opening[s] = 1..m
    <2> HIDE DEF E
    <2> QED
      BY <1>3
  <1>5. /\ Sequence(positions) /\ Sequence(new) /\ Len(new) = m
    <2>1. DOMAIN new = 1..m /\ new = [i \in 1..m |-> new[i]]
      BY <1>4
    <2> HIDE DEF new, m
    <2>2. Sequence(new) /\ Len(new) = m
      BY <1>4, <2>1, AFunction
    <2> QED
      BY <1>3, <2>2 DEF Sequence
  <1>6. \A i \in 1..m : new[i].open /\ Outlay(new[i]) = Outlay(opening[s][i])
    BY <1>4 DEF Outlay
  <1>7. \A i \in 1..m : Outlay(opening[s][i]) \in Int
    <2>1. \A e \in E : Outlay(e) \in Int
      BY Costs
    <2> HIDE DEF E, m
    <2>2. \A i \in 1..m : opening[s][i] \in E
      BY <1>3, <1>4
    <2> QED
      BY <2>1, <2>2
  <1> HIDE DEF new
  <1>8. /\ DOMAIN positions' = 1..(n + m)
        /\ \A i \in 1..n : positions'[i] = positions[i]
        /\ \A i \in 1..m : positions'[n + i] = new[i]
    BY <1>1, <1>5, Concatenation
  <1> HIDE DEF n, m, E
  <1> DEFINE S == 1..m
             O == OpenIds
             put == [i \in S |-> n + i]
             R == {put[i] : i \in S}
             cost == [i \in O |-> Outlay(positions[i])]
             costs == [i \in OpenIds' |-> Outlay(positions'[i])]
             spent == [i \in S |-> Outlay(opening[s][i])]
  <1>9. OpenIds' = O \cup R /\ O \cap R = {}
    <2>1. \A i \in 1..(n + m) : i \notin 1..n => i - n \in S /\ i = n + (i - n)
      BY <1>4
    <2>2. \A i \in S : n + i \in 1..(n + m) /\ n + i \notin 1..n
      BY <1>4
    <2>3. \A i \in 1..n : i \in 1..(n + m)
      BY <1>4
    <2>4. O = {i \in 1..n : positions[i].open}
      BY <1>4 DEF OpenIds
    <2>5. OpenIds' = {i \in 1..(n + m) : positions'[i].open}
      BY <1>8 DEF OpenIds
    <2> HIDE DEF O, S
    <2>6. R = {n + i : i \in S}
      OBVIOUS
    <2> HIDE DEF R
    <2> QED
      BY <1>6, <1>8, <2>1, <2>2, <2>3, <2>4, <2>5, <2>6 DEF S
  <1>10. IsFiniteSet(S) /\ IsFiniteSet(O) /\ \A i \in O : cost[i] \in Int
    BY <1>4, FS_Interval, Outlays
  <1>11. \A i \in O : costs[i] = cost[i] /\ costs[i] \in Int
    <2>1. \A i \in O : i \in 1..n
      BY <1>4 DEF OpenIds
    <2> HIDE DEF R
    <2> QED
      BY <1>8, <1>9, <1>10, <2>1
  <1>12. /\ \A x, y \in S : put[x] = put[y] => x = y
         /\ \A i \in S : spent[i] \in Int /\ costs[put[i]] = spent[i]
    <2>1. \A i \in S : put[i] \in R /\ put[i] = n + i
      OBVIOUS
    <2> HIDE DEF R
    <2>2. \A i \in S : put[i] \in OpenIds'
      BY <1>9, <2>1
    <2>3. \A i \in S : costs[put[i]] = Outlay(new[i])
      BY <1>8, <2>1, <2>2
    <2>4. \A x, y \in S : put[x] = put[y] => x = y
      BY <1>4, <2>1
    <2> QED
      BY <1>6, <1>7, <2>3, <2>4
  <1> HIDE DEF S, O, put, cost, costs, spent
  <1>13. R = {put[i] : i \in S} /\ \A i \in R : costs[i] \in Int
    BY <1>12
  <1> HIDE DEF R
  <1>14. IsFiniteSet(R) /\ SumFunctionOnSet(costs, R) = SumFunctionOnSet(spent, S)
    BY <1>10, <1>12, <1>13, SumRenamed
  <1>15. SumFunctionOnSet(costs, O \cup R) =
            SumFunctionOnSet(costs, O) + SumFunctionOnSet(costs, R)
    BY <1>9, <1>10, <1>11, <1>14, <1>13, SumOfBoth
  <1>16. SumFunctionOnSet(costs, O) = SumFunctionOnSet(cost, O)
    BY <1>10, <1>11, SumSame
  <1>17. /\ SumFunctionOnSet(cost, O) \in Int /\ SumFunctionOnSet(spent, S) \in Int
    BY <1>10, <1>12, SumIsAnInteger
  <1>18. ASSUME ~crossed, s \notin stale
         PROVE  Balanced'
    <2>1. InStep(s) /\ Balanced
      BY <1>18 DEF Books
    <2>2. Row(s) = cached[s]
      BY <1>1 DEF Row, Typed, InHand
    <2>3. Spent(s) = SumFunctionOnSet(spent, S) /\ Gained(s) = 0 /\ Freed(s) = 0
      <3>1. Gained(s) = 0 /\ Freed(s) = 0
        BY <1>1, NoCloses DEF IInv, Outset
      <3>2. spent = [i \in DOMAIN opening[s] |-> Outlay(opening[s][i])] /\ DOMAIN spent = S
        BY <1>4 DEF spent, S
      <3> QED
        BY <1>1, <3>1, <3>2 DEF Spent, SumFunction
    <2>4. account'.cash = account.cash - SumFunctionOnSet(spent, S)
      <3>1. account'.cash = account.cash - SumFunctionOnSet(spent, S) + 0 + 0
        BY <1>2, <2>1, <2>2, <2>3 DEF InStep
      <3> QED
        BY <1>17, <3>1, Figures
    <2>5. account.cash = account.initial + account.pnl - SumFunctionOnSet(cost, O)
      BY <2>1 DEF Balanced, CashConserved, SumFunction, cost, O
    <2>6. SumFunctionOnSet(costs, OpenIds') =
             SumFunctionOnSet(cost, O) + SumFunctionOnSet(spent, S)
      BY <1>9, <1>14, <1>15, <1>16
    <2>7. account'.cash = account'.initial + account'.pnl - SumFunctionOnSet(costs, OpenIds')
      BY <1>2, <1>17, <2>4, <2>5, <2>6, Figures
    <2>8. CashConserved'
      BY <2>7 DEF CashConserved, SumFunction, costs, Outlay
    <2>9. TotalsAgree'
      BY <1>1, <1>2, <2>1 DEF Balanced, TotalsAgree
    <2> QED
      BY <2>8, <2>9 DEF Balanced
  <1>19. OnlyAt(s, pc, pc') /\ pc'[s] = "exits" /\ cached'[s] = Expired
    BY <1>1 DEF Typed, SessionsTyped, OnlyAt
  <1> QED
    BY <1>1, <1>18, <1>19, BooksCommit

\* What a commit closes costs nothing any more.
LEMMA WriteCosts ==
    ASSUME Typed, IInv, NEW s \in Sessions, WriteCloses(s), ClosingSound(s)
    PROVE  /\ Freed(s) \in Int
           /\ SumFunction([i \in OpenIds' |-> Outlay(positions'[i])]) \in Int
           /\ SumFunction([i \in OpenIds |-> Outlay(positions[i])]) =
                 SumFunction([i \in OpenIds' |-> Outlay(positions'[i])]) + Freed(s)
  <1> DEFINE C == closing[s]
             O == OpenIds
             ids == [c \in C |-> c.id]
             gone == {ids[c] : c \in C}
             left == OpenIds'
             cost == [i \in O |-> Outlay(positions[i])]
             costs == [i \in left |-> Outlay(positions'[i])]
             freed == [c \in C |-> Outlay(positions[c.id])]
  <1>1. gone = {c.id : c \in C}
    OBVIOUS
  <1>2. left = O \ gone
    <2> HIDE DEF gone
    <2> QED
      BY <1>1, WriteShape DEF IInv
  <1>3. \A i \in left : i \in O /\ positions'[i] = positions[i]
    <2>1. positions' = [i \in DOMAIN positions |->
              IF \E c \in C : c.id = i
              THEN [positions[i] EXCEPT !.open = FALSE] ELSE positions[i]]
      BY DEF WriteCloses
    <2>2. \A i \in left : i \in O /\ i \in DOMAIN positions /\ ~ \E c \in C : c.id = i
      <3> HIDE DEF gone
      <3>1. \A i \in left : i \in O /\ i \notin gone
        BY <1>2
      <3> QED
        BY <1>1, <3>1 DEF OpenIds
    <2> HIDE DEF left, O, C
    <2> QED
      BY <2>1, <2>2
  <1>4. \A i \in O : cost[i] \in Int
    BY Outlays
  <1>5. /\ \A c \in C : ids[c] \in O /\ cost[ids[c]] = freed[c] /\ freed[c] \in Int
        /\ \A c, d \in C : ids[c] = ids[d] => c = d
    BY <1>4 DEF ClosingSound
  <1>6. IsFiniteSet(C) /\ IsFiniteSet(O) /\ DOMAIN freed = C /\ DOMAIN cost = O
        /\ DOMAIN costs = left
    BY Outlays DEF IInv, Shape
  <1>7. gone = {ids[c] : c \in C}
    OBVIOUS
  <1>8. \A i \in left : costs[i] = cost[i]
    BY <1>3
  <1> HIDE DEF C, O, ids, gone, left, cost, costs, freed
  <1>9. gone \subseteq O
    BY <1>5, <1>7
  <1>10. IsFiniteSet(left)
    BY <1>2, <1>6, FS_Subset
  <1>11. IsFiniteSet(gone) /\ SumFunctionOnSet(cost, gone) = SumFunctionOnSet(freed, C)
    BY <1>5, <1>6, <1>7, SumRenamed
  <1>12. left \cup gone = O /\ left \cap gone = {}
    BY <1>2, <1>9
  <1>13. SumFunctionOnSet(cost, left \cup gone) =
            SumFunctionOnSet(cost, left) + SumFunctionOnSet(cost, gone)
    BY <1>4, <1>10, <1>11, <1>12, SumOfBoth
  <1>14. \A i \in left : cost[i] \in Int
    BY <1>3, <1>4
  <1>15. SumFunctionOnSet(costs, left) = SumFunctionOnSet(cost, left)
    BY <1>8, <1>10, <1>14, SumSame
  <1>16. SumFunctionOnSet(cost, left) \in Int /\ SumFunctionOnSet(freed, C) \in Int
    BY <1>5, <1>6, <1>10, <1>14, SumIsAnInteger
  <1>17. /\ SumFunction(freed) \in Int /\ SumFunction(costs) \in Int
         /\ SumFunction(cost) = SumFunction(costs) + SumFunction(freed)
    BY <1>6, <1>11, <1>12, <1>13, <1>15, <1>16 DEF SumFunction
  <1> QED
    BY <1>17 DEF Freed, C, O, left, cost, costs, freed

\* It leaves one trade for each, with what the session has gained.
LEMMA WriteGains ==
    ASSUME Typed, IInv, NEW s \in Sessions, WriteCloses(s), ClosingSound(s), SerialsHold
    PROVE  /\ Gained(s) \in Int
           /\ SumFunction([j \in DOMAIN trades |-> trades[j].pnl]) \in Int
           /\ SumFunction([j \in DOMAIN trades' |-> trades'[j].pnl]) =
                 SumFunction([j \in DOMAIN trades |-> trades[j].pnl]) + Gained(s)
           /\ Len(trades') = Len(trades) + Cardinality(closing[s])
  <1> DEFINE C == closing[s]
             made == [c \in C |-> c.trade]
             T == {made[c] : c \in C}
             q == SetToSeq(T)
             pnl == [t \in T |-> t.pnl]
             gain == [c \in C |-> c.trade.pnl]
             n == Len(trades)
             m == Len(q)
  <1>1. IsFiniteSet(C) /\ \A c \in C : c.trade \in Trade /\ c.trade.pnl \in Int
    BY DEF IInv, Shape, Typed, SessionsTyped, Trade
  <1>2. \A c, d \in C : made[c] = made[d] => c = d
    <2>1. \A c \in C : /\ c.id \in OpenIds /\ c.trade.serial = positions[c.id].serial
                       /\ c.id \in DOMAIN positions
      BY DEF ClosingSound, OpenIds
    <2>2. \A c, d \in C : c.id = d.id => c = d
      BY DEF ClosingSound
    <2>3. \A c \in C : made[c].serial = positions[c.id].serial
      BY <2>1
    <2> HIDE DEF made, C
    <2>4. ASSUME NEW c \in C, NEW d \in C, made[c] = made[d]
          PROVE  c.id = d.id
      <3>1. positions[c.id].serial = positions[d.id].serial
        BY <2>3, <2>4
      <3> QED
        BY <2>1, <3>1 DEF SerialsHold
    <2> QED
      BY <2>2, <2>4
  <1>3. \A c \in C : gain[c] \in Int /\ pnl[made[c]] = gain[c]
    BY <1>1
  <1>4. T = {c.trade : c \in C}
    OBVIOUS
  <1>5. T = {made[c] : c \in C}
    OBVIOUS
  <1>6. IsFiniteSet(C)
    BY <1>1
  <1>7. trades' = trades \o q
    <2> HIDE DEF T
    <2> QED
      BY <1>4 DEF WriteCloses
  <1>8. \A t \in T : pnl[t] = t.pnl /\ pnl[t] \in Int
    BY <1>1
  <1>9. DOMAIN gain = C
    OBVIOUS
  <1> HIDE DEF C, made, T, pnl, gain
  <1>10. /\ IsFiniteSet(T) /\ Cardinality(T) = Cardinality(C)
         /\ SumFunctionOnSet(pnl, T) = SumFunctionOnSet(gain, C)
    BY <1>2, <1>3, <1>5, <1>6, SumRenamed
  <1>11. /\ m = Cardinality(T) /\ T = {q[i] : i \in DOMAIN q} /\ Sequence(q)
         /\ \A i, j \in DOMAIN q : q[i] = q[j] => i = j
         /\ \A i \in DOMAIN q : q[i] \in T
    BY <1>10, WholeOrder, AnyOrder
  <1> HIDE DEF q
  <1>12. m \in Nat /\ DOMAIN q = 1..m
    BY <1>11, Positions
  <1>13. Sequence(trades) /\ n \in Nat /\ DOMAIN trades = 1..n
    BY Positions DEF IInv, Shape
  <1>14. /\ Sequence(trades') /\ DOMAIN trades' = 1..(n + m)
         /\ \A j \in 1..n : trades'[j] = trades[j]
         /\ \A i \in 1..m : trades'[n + i] = q[i]
    BY <1>7, <1>11, <1>13, Concatenation
  <1>15. Len(trades') = n + m
    <2>1. Len(trades') \in Nat /\ DOMAIN trades' = 1..Len(trades')
      BY <1>14, Positions
    <2> QED
      BY <1>12, <1>13, <1>14, <2>1
  <1> HIDE DEF n, m
  <1> DEFINE D == 1..m
             N == 1..n
             put == [i \in D |-> n + i]
             R == {put[i] : i \in D}
             part == [i \in D |-> q[i].pnl]
             before == [j \in DOMAIN trades |-> trades[j].pnl]
             after == [j \in DOMAIN trades' |-> trades'[j].pnl]
  <1>16. IsFiniteSet(D) /\ IsFiniteSet(N)
    BY <1>12, <1>13, FS_Interval
  <1>17. \A i \in D : part[i] \in Int /\ pnl[q[i]] = part[i]
    BY <1>8, <1>11, <1>12
  <1>18. DOMAIN trades' = N \cup R /\ N \cap R = {}
    <2>1. \A j \in 1..(n + m) : j \notin N => j - n \in D /\ j = n + (j - n)
      BY <1>12, <1>13
    <2>2. \A i \in D : n + i \in 1..(n + m) /\ n + i \notin N
      BY <1>12, <1>13
    <2>3. \A j \in N : j \in 1..(n + m)
      BY <1>12, <1>13
    <2> HIDE DEF N, D
    <2>4. R = {n + i : i \in D}
      OBVIOUS
    <2> HIDE DEF R
    <2> QED
      BY <1>14, <2>1, <2>2, <2>3, <2>4
  <1>19. /\ \A x, y \in D : put[x] = put[y] => x = y
         /\ \A i \in D : part[i] \in Int /\ after[put[i]] = part[i]
    <2>1. \A i \in D : put[i] = n + i /\ n + i \in 1..(n + m)
      BY <1>12, <1>13
    <2>2. \A i \in D : after[n + i] = q[i].pnl
      <3> HIDE DEF D
      <3> QED
        BY <1>14, <2>1 DEF D
    <2>3. \A x, y \in D : put[x] = put[y] => x = y
      BY <1>13, <2>1
    <2> QED
      BY <1>17, <2>1, <2>2, <2>3
  <1>20. \A j \in N : after[j] = before[j] /\ before[j] \in Int
    <2>1. \A j \in N : j \in DOMAIN trades' /\ j \in DOMAIN trades
      BY <1>12, <1>13, <1>14
    <2>2. \A j \in DOMAIN trades : trades[j] \in Trade
      BY DEF Typed, RowsTyped
    <2>3. \A t \in Trade : t.pnl \in Int
      BY DEF Trade
    <2> HIDE DEF N
    <2> QED
      BY <1>14, <2>1, <2>2, <2>3 DEF N
  <1>21. R = {put[i] : i \in D}
    OBVIOUS
  <1>22. T = {q[i] : i \in D}
    BY <1>11, <1>12
  <1>23. \A j \in R : after[j] \in Int
    BY <1>19
  <1>24. DOMAIN before = N /\ DOMAIN after = DOMAIN trades'
    BY <1>13
  <1> HIDE DEF D, N, put, R, part, before, after
  <1>25. IsFiniteSet(R) /\ SumFunctionOnSet(after, R) = SumFunctionOnSet(part, D)
    BY <1>16, <1>19, <1>21, SumRenamed
  <1>26. SumFunctionOnSet(pnl, T) = SumFunctionOnSet(part, D)
    <2>1. \A x, y \in D : q[x] = q[y] => x = y
      BY <1>11, <1>12 DEF D
    <2>2. /\ IsFiniteSet(T) /\ Cardinality(T) = Cardinality(D)
          /\ SumFunctionOnSet(pnl, T) = SumFunctionOnSet(part, D)
      BY <1>16, <1>17, <1>22, <2>1, SumRenamed
    <2> QED
      BY <2>2
  <1>27. SumFunctionOnSet(after, N \cup R) =
            SumFunctionOnSet(after, N) + SumFunctionOnSet(after, R)
    <2>1. \A j \in N \cup R : after[j] \in Int
      BY <1>20, <1>23
    <2> QED
      BY <1>16, <1>18, <1>25, <2>1, SumOfBoth
  <1>28. SumFunctionOnSet(after, N) = SumFunctionOnSet(before, N)
    BY <1>16, <1>20, SumSame
  <1>29. SumFunctionOnSet(before, N) \in Int /\ SumFunctionOnSet(gain, C) \in Int
    BY <1>1, <1>3, <1>16, <1>20, SumIsAnInteger
  <1>30. /\ SumFunction(gain) \in Int /\ SumFunction(before) \in Int
         /\ SumFunction(after) = SumFunction(before) + SumFunction(gain)
    BY <1>9, <1>10, <1>18, <1>24, <1>25, <1>26, <1>27, <1>28, <1>29 DEF SumFunction
  <1>31. Len(trades') = Len(trades) + Cardinality(C)
    BY <1>10, <1>11, <1>15 DEF n
  <1> QED
    BY <1>30, <1>31 DEF Gained, C, gain, before, after

LEMMA WriteBooks ==
    ASSUME Typed, IInv, NEW s \in Sessions, WriteCloses(s), ClosingSound(s), SerialsHold,
           Balanced, account'.initial = account.initial,
           account'.cash = account.cash + Gained(s) + Freed(s),
           account'.pnl = account.pnl + Gained(s),
           account'.trades = account.trades + Cardinality(closing[s])
    PROVE  Balanced'
  <1> DEFINE cost == SumFunction([i \in OpenIds |-> Outlay(positions[i])])
             costs == SumFunction([i \in OpenIds' |-> Outlay(positions'[i])])
             before == SumFunction([j \in DOMAIN trades |-> trades[j].pnl])
             after == SumFunction([j \in DOMAIN trades' |-> trades'[j].pnl])
  <1>1. Freed(s) \in Int /\ costs \in Int /\ cost = costs + Freed(s)
    BY WriteCosts
  <1>2. /\ Gained(s) \in Int /\ before \in Int /\ after = before + Gained(s)
        /\ Len(trades') = Len(trades) + Cardinality(closing[s])
    BY WriteGains
  <1>3. /\ account.cash = account.initial + account.pnl - cost
        /\ account.trades = Len(trades) /\ account.pnl = before
    BY DEF Balanced, CashConserved, TotalsAgree
  <1> HIDE DEF cost, costs, before, after
  <1>4. account'.cash = account'.initial + account'.pnl - costs
    <2>1. account'.cash = account.initial + account.pnl - (costs + Freed(s))
                            + Gained(s) + Freed(s)
      BY <1>1, <1>3
    <2> DEFINE start == account.initial
               pnl == account.pnl
               gained == Gained(s)
               freed == Freed(s)
    <2>2. start \in Int /\ pnl \in Int /\ gained \in Int /\ freed \in Int /\ costs \in Int
      BY <1>1, <1>2, Figures
    <2>3. /\ account'.cash = start + pnl - (costs + freed) + gained + freed
          /\ account'.initial = start /\ account'.pnl = pnl + gained
      BY <2>1
    <2> HIDE DEF start, pnl, gained, freed
    <2> QED
      BY <2>2, <2>3
  <1>5. CashConserved'
    BY <1>4 DEF CashConserved, costs, Outlay
  <1>6. account'.trades = Len(trades') /\ account'.pnl = after
    BY <1>2, <1>3
  <1>7. TotalsAgree'
    BY <1>6 DEF TotalsAgree, after
  <1> QED
    BY <1>5, <1>7 DEF Balanced

LEMMA ExitsBooks ==
    ASSUME Typed, Typed', IInv, IInv', Books, NEW s \in Sessions, CommitExits(s)
    PROVE  Books'
  <1>1. WriteCloses(s) /\ Finished(s) /\ pc[s] = "examine" /\ account'.initial = account.initial
    BY ExitsTyped DEF CommitExits
  <1>2. CASE closing[s] # {}
    <2>1. Commits(s) /\ Row(s) = cached[s] /\ Spent(s) = 0
      BY <1>1, <1>2 DEF CommitExits, Typed, InHand, Row, Spent
    <2>2. /\ account'.cash = cached[s].cash /\ account'.pnl = cached[s].pnl
          /\ account'.trades = cached[s].trades
      BY <1>2, ExitsTyped
    <2>3. ASSUME ~crossed, s \notin stale
          PROVE  Balanced'
      <3>1. InStep(s) /\ Balanced /\ Own(s) /\ Core
        BY <2>3, Relies DEF Books
      <3>2. /\ account'.cash = account.cash + Gained(s) + Freed(s)
            /\ account'.pnl = account.pnl + Gained(s)
            /\ account'.trades = account.trades + Cardinality(closing[s])
        <4>1. account.cash - 0 = account.cash
          BY Figures
        <4> QED
          BY <2>1, <2>2, <3>1, <4>1 DEF InStep
      <3> QED
        BY <1>1, <3>1, <3>2, WriteBooks DEF Own, Core
    <2>4. OnlyAt(s, pc, pc') /\ pc'[s] = "idle" /\ cached'[s] = Expired
      BY <1>1 DEF Finished, Typed, SessionsTyped, OnlyAt
    <2> QED
      BY <2>1, <2>3, <2>4, BooksCommit
  <1>3. CASE closing[s] = {}
    <2>1. account' = account /\ positions' = positions /\ Leaves(s)
      BY <1>1, <1>3, ExitsTyped, WriteShape DEF IInv, CommitExits
    <2>2. trades' = trades
      <3>1. {c.trade : c \in closing[s]} = {}
        BY <1>3
      <3>2. trades' = trades \o SetToSeq({})
        BY <1>1, <3>1 DEF WriteCloses
      <3>3. Sequence(SetToSeq({})) /\ Len(SetToSeq({})) = 0
        BY AnyOrder, WholeOrder, FS_EmptySet
      <3> DEFINE q == SetToSeq({})
      <3> HIDE DEF q
      <3>4. Sequence(q) /\ Len(q) = 0 /\ trades' = trades \o q
        BY <3>2, <3>3 DEF q
      <3>5. trades \in Seq(Trade)
        BY DEF Typed, RowsTyped
      <3>6. DOMAIN q = {}
        BY <3>4, Positions
      <3>7. q = <<>>
        <4>1. DOMAIN q = 1..Len(q) /\ q = [i \in 1..Len(q) |-> q[i]]
          BY <3>4, Positions
        <4> QED
          BY <3>4, <4>1
      <3> QED
        BY <3>4, <3>5, <3>7
    <2> QED
      BY <1>1, <2>1, <2>2, FinishedBooks DEF SameMoney
  <1> QED
    BY <1>2, <1>3

-----------------------------------------------------------------------------
LEMMA FailsBooks ==
    ASSUME Typed, Typed', Books, NEW s \in Sessions, Fails(s)
    PROVE  Books'
BY FinishedBooks DEF Fails, rows, SameMoney

LEMMA StutterBooks ==
    ASSUME Books, UNCHANGED vars
    PROVE  Books'
  <1>1. SameMoney /\ UNCHANGED <<positions, trades, crossed, stale, pc, cached, opening, closing>>
    BY DEF vars, rows, session, history, SameMoney
  <1>2. ASSUME ~crossed'
        PROVE  Balanced' /\ \A t \in Sessions \ stale' : InStep(t)'
    <2>1. Balanced /\ \A t \in Sessions \ stale : InStep(t)
      BY <1>1, <1>2 DEF Books
    <2>2. \A t \in Sessions : Spent(t)' = Spent(t)
      BY <1>1 DEF Spent
    <2> QED
      BY <1>1, <2>1, <2>2, BalanceStays, StaysInStep
  <1> QED
    BY <1>2 DEF Books

LEMMA BooksAtOutset == Init => Books
  <1> SUFFICES ASSUME Init
               PROVE  Books
    OBVIOUS
  <1>1. Typed /\ IInv
    BY TypesAtOutset, Initially
  <1>2. /\ account.cash = account.initial /\ account.pnl = 0 /\ account.trades = 0
        /\ positions = <<>> /\ trades = <<>>
        /\ \A s \in Sessions : pc[s] = "idle" /\ cached[s] = Expired /\ closing[s] = {}
    BY DEF Init
  <1>3. DOMAIN trades = {} /\ OpenIds = {} /\ Len(trades) = 0
    BY <1>2 DEF OpenIds
  <1>4. /\ SumFunction([j \in DOMAIN trades |-> trades[j].pnl]) = 0
        /\ SumFunction([i \in OpenIds |-> Outlay(positions[i])]) = 0
    <2>1. /\ DOMAIN [j \in DOMAIN trades |-> trades[j].pnl] = {}
          /\ DOMAIN [i \in OpenIds |-> Outlay(positions[i])] = {}
      BY <1>3
    <2> QED
      BY <2>1, SumOfNothing
  <1>5. account.cash = account.initial + account.pnl - 0
    BY <1>1, <1>2, Figures
  <1>6. Balanced
    BY <1>2, <1>3, <1>4, <1>5 DEF Balanced, CashConserved, TotalsAgree
  <1>7. ASSUME NEW s \in Sessions
        PROVE  InStep(s)
    <2>1. Spent(s) = 0 /\ Gained(s) = 0 /\ Freed(s) = 0 /\ Cardinality(closing[s]) = 0
      BY <1>2, NoCloses DEF Spent
    <2>2. Row(s) = account
      BY <1>2 DEF Row
    <2>3. /\ account.cash = account.cash - 0 + 0 + 0
          /\ account.pnl = account.pnl + 0 /\ account.trades = account.trades + 0
      BY <1>1, Figures
    <2> QED
      BY <2>1, <2>2, <2>3 DEF InStep
  <1> QED
    BY <1>6, <1>7 DEF Books

Ledger == IInv /\ Typed /\ Books

LEMMA LedgerTyped == Ledger /\ [Next]_vars => Typed'
  <1> SUFFICES ASSUME Ledger, [Next]_vars
               PROVE  Typed'
    OBVIOUS
  <1>1. Typed /\ IInv
    BY DEF Ledger
  <1>2. ASSUME NEW s \in Sessions, Scan(s)
        PROVE  Typed'
    BY <1>1, <1>2, BeginningsTyped, SignalsTyped, PoolsTyped, EnterTyped, SkipTyped,
       EntriesTyped, ReadPositionsTyped, ExitTyped, ExitsTyped DEF Scan
  <1>3. ASSUME NEW s \in Sessions, Manual(s)
        PROVE  Typed'
    BY <1>1, <1>3, CloseBeginsTyped, ExitTyped DEF Manual
  <1>4. ASSUME NEW s \in Sessions, Handlers(s)
        PROVE  Typed'
    BY <1>1, <1>4, ToggleTyped, BeginningsTyped, SettingsTyped, ResetTyped DEF Handlers
  <1>5. ASSUME NEW s \in Sessions, Fails(s)
        PROVE  Typed'
    BY <1>1, <1>5, FailsTyped
  <1>6. CASE UNCHANGED vars
    BY <1>1, <1>6, StutterTyped
  <1> QED
    BY <1>2, <1>3, <1>4, <1>5, <1>6 DEF Next

LEMMA LedgerInductive == Ledger /\ [Next]_vars => Ledger'
  <1> SUFFICES ASSUME Ledger, [Next]_vars
               PROVE  Ledger'
    OBVIOUS
  <1>1. Typed /\ IInv /\ Books /\ Typed' /\ IInv'
    BY LedgerTyped, Inductive DEF Ledger
  <1>2. ASSUME NEW s \in Sessions, Scan(s)
        PROVE  Books'
    BY <1>1, <1>2, BeginningBooks, ReadingBooks, EnterBooks, EntriesBooks,
       ReadPositionsBooks, ExitBooks, ExitsBooks DEF Scan
  <1>3. ASSUME NEW s \in Sessions, Manual(s)
        PROVE  Books'
    BY <1>1, <1>3, BeginningBooks, ExitBooks DEF Manual
  <1>4. ASSUME NEW s \in Sessions, Handlers(s)
        PROVE  Books'
    BY <1>1, <1>4, ToggleBooks, BeginningBooks, SettingsBooks, ResetBooks DEF Handlers
  <1>5. ASSUME NEW s \in Sessions, Fails(s)
        PROVE  Books'
    BY <1>1, <1>5, FailsBooks
  <1>6. ASSUME UNCHANGED vars
        PROVE  Books'
    BY <1>1, <1>6, StutterBooks
  <1>7. Books'
    BY <1>2, <1>3, <1>4, <1>5, <1>6 DEF Next
  <1> QED
    BY <1>1, <1>7 DEF Ledger

\* The rows are well-formed, and until a session commits over a read that is out
\* of date the cash is the capital plus what the trades made minus what the open
\* positions cost, and the account's totals are the trades' (_close_position,
\* _check_entries, update_settings, reset_account).
THEOREM BooksStayBalanced == Spec => []BooksBalance
  <1>1. Init => Ledger
    BY Initially, TypesAtOutset, BooksAtOutset DEF Ledger
  <1>2. Ledger => BooksBalance
    BY TypedTypes DEF Ledger, Books, Balanced, BooksBalance
  <1> QED
    BY <1>1, <1>2, LedgerInductive, PTL DEF Spec

-----------------------------------------------------------------------------
(* The price alerts: types, and who holds the lock.                        *)

TablesTyped ==
    /\ rules \in [Rules -> Rule \cup {Deleted}] /\ hits \subseteq Rules \X Minutes
    /\ lock \in Scans \cup {NoScan}

Stages == {"idle", "rules", "gated", "notify", "sent"}

ScansTyped ==
    /\ stage \in [Scans -> Stages]
    /\ now \in [Scans -> Minutes]
    /\ held \in [Scans -> [Rules -> Rule \cup {ExpiredRow}]]
    /\ dirty \in [Scans -> SUBSET Rules] /\ due \in [Scans -> SUBSET Rules]
    /\ current \in [Scans -> Rules \cup {NoRule}]

WorldTyped ==
    /\ clock \in Minutes /\ sent \in [Rules \X Minutes -> Nat]
    /\ edits \in [Rules -> 0..MaxEvents] /\ crashes \in 0..MaxEvents
    /\ begun \in 0..MaxScans /\ raced \subseteq Rules

Locks ==
    \A s \in Scans :
        /\ stage[s] \in {"notify", "sent"} => lock = s
        /\ lock = s => stage[s] # "idle" /\ (stage[s] = "rules" => dirty[s] # {})

AlertTyped == TablesTyped /\ ScansTyped /\ WorldTyped /\ Locks

LEMMA AlertTypedTypes == AlertTyped => AlertTypeOK
  <1> SUFFICES ASSUME AlertTyped
               PROVE  AlertTypeOK
    OBVIOUS
  <1>1. held \in [Scans -> [Rules -> Rule \cup {ExpiredRow, Deleted}]]
    BY DEF AlertTyped, ScansTyped
  <1> QED
    BY <1>1 DEF AlertTyped, TablesTyped, ScansTyped, WorldTyped, Locks, AlertTypeOK, Stages

\* The marks of a row that is not there are no rows.
LEMMA Marks == ExpiredRow \notin Rule /\ Deleted \notin Rule /\ ExpiredRow # Deleted
  <1>1. "enabled" \notin DOMAIN ExpiredRow /\ "enabled" \notin DOMAIN Deleted
    BY DEF ExpiredRow, Deleted
  <1>2. \A row \in Rule : "enabled" \in DOMAIN row
    BY DEF Rule
  <1>3. DOMAIN ExpiredRow = {"expired"} /\ DOMAIN Deleted = {"deleted"}
    BY DEF ExpiredRow, Deleted
  <1> QED
    BY <1>1, <1>2, <1>3

LEMMA Clocks ==
    /\ Minutes \subseteq Nat /\ 0 \in Minutes /\ IsFiniteSet(Minutes)
    /\ \A m \in Minutes : Day(m) \in Nat
  <1>1. MaxClock \in Nat /\ MinutesInDay \in Nat \ {0}
    BY AlertAssumption
  <1>2. Minutes \subseteq Nat /\ 0 \in Minutes /\ IsFiniteSet(Minutes)
    BY <1>1, FS_Interval DEF Minutes
  <1>3. \A m \in Nat : m \div MinutesInDay \in Nat
    BY <1>1
  <1> QED
    BY <1>2, <1>3 DEF Day

\* The fields of a row.
LEMMA Fields ==
    ASSUME NEW row \in Rule
    PROVE  /\ row.enabled \in BOOLEAN /\ row.last \in Minutes \cup {Never} /\ row.count \in Nat
           /\ row.date \in {Day(m) : m \in Minutes} \cup {Never}
           /\ row.last \in Int /\ row.date \in Int
           /\ row = [enabled |-> row.enabled, last |-> row.last, count |-> row.count,
                     date |-> row.date]
  <1>1. /\ row.enabled \in BOOLEAN /\ row.last \in Minutes \cup {Never} /\ row.count \in Nat
        /\ row.date \in {Day(m) : m \in Minutes} \cup {Never}
        /\ row = [enabled |-> row.enabled, last |-> row.last, count |-> row.count,
                  date |-> row.date]
    BY DEF Rule
  <1>2. row.last \in Int /\ row.date \in Int
    BY <1>1, Clocks DEF Never
  <1> QED
    BY <1>1, <1>2

\* Writing several fields of a row.
LEMMA Rewritten ==
    ASSUME NEW row \in Rule, NEW d, NEW n
    PROVE  [row EXCEPT !.date = d, !.count = n] =
             [enabled |-> row.enabled, last |-> row.last, count |-> n, date |-> d]
  <1>1. row = [enabled |-> row.enabled, last |-> row.last, count |-> row.count, date |-> row.date]
    BY Fields
  <1> DEFINE v == [row EXCEPT !.date = d]
  <1>2. v = [enabled |-> row.enabled, last |-> row.last, count |-> row.count, date |-> d]
    BY <1>1
  <1>3. [row EXCEPT !.date = d, !.count = n] = [v EXCEPT !.count = n]
    BY <1>1
  <1> HIDE DEF v
  <1>4. [v EXCEPT !.count = n] =
          [enabled |-> row.enabled, last |-> row.last, count |-> n, date |-> d]
    BY <1>2
  <1> QED
    BY <1>3, <1>4

LEMMA RolledRow ==
    ASSUME ScansTyped, NEW s \in Scans, NEW row \in Rule
    PROVE  /\ Rolled(s, row) \in Rule
           /\ Rolled(s, row).date = Day(now[s]) /\ Rolled(s, row).last = row.last
           /\ Rolled(s, row).enabled = row.enabled
           /\ Rolled(s, row).count = IF row.date = Day(now[s]) THEN row.count ELSE 0
           /\ (Rolled(s, row) = row <=> row.date = Day(now[s]))
  <1>1. Day(now[s]) \in {Day(m) : m \in Minutes} \cup {Never}
    BY DEF ScansTyped
  <1>2. CASE row.date = Day(now[s])
    BY <1>2 DEF Rolled
  <1>3. CASE row.date # Day(now[s])
    <2> DEFINE d == Day(now[s])
               other == [enabled |-> row.enabled, last |-> row.last, count |-> 0, date |-> d]
    <2>1. Rolled(s, row) = [row EXCEPT !.date = d, !.count = 0]
      BY <1>3 DEF Rolled
    <2> HIDE DEF d
    <2>2. [row EXCEPT !.date = d, !.count = 0] = other
      BY Rewritten
    <2>3. other \in Rule
      BY <1>1, Fields DEF Rule, d
    <2> QED
      BY <1>3, <2>1, <2>2, <2>3 DEF d
  <1> QED
    BY <1>2, <1>3

\* The rows a commit writes.
LEMMA WindowRow ==
    ASSUME ScansTyped, NEW s \in Scans, NEW r \in Rules, NEW row \in Rule,
           r \in dirty[s] => held[s][r] \in Rule
    PROVE  /\ Window(s, r, row) \in Rule
           /\ Window(s, r, row).last = row.last /\ Window(s, r, row).enabled = row.enabled
           /\ r \notin dirty[s] => Window(s, r, row) = row
           /\ r \in dirty[s] => /\ Window(s, r, row).date = Day(now[s])
                                /\ Window(s, r, row).count =
                                     IF held[s][r].count = 0 THEN row.count ELSE 0
  <1>1. Day(now[s]) \in {Day(m) : m \in Minutes} \cup {Never}
    BY DEF ScansTyped
  <1>2. CASE r \notin dirty[s]
    BY <1>2 DEF Window
  <1>3. CASE r \in dirty[s]
    <2> DEFINE d == Day(now[s])
               n == IF held[s][r].count = 0 THEN row.count ELSE 0
               other == [enabled |-> row.enabled, last |-> row.last, count |-> n, date |-> d]
    <2>1. Window(s, r, row) = [row EXCEPT !.date = d, !.count = n]
      BY <1>3 DEF Window
    <2>2. n \in Nat
      BY Fields
    <2> HIDE DEF d, n
    <2>3. [row EXCEPT !.date = d, !.count = n] = other
      BY Rewritten
    <2>4. other \in Rule
      BY <1>1, <2>2, Fields DEF Rule, d
    <2> QED
      BY <1>3, <2>1, <2>3, <2>4 DEF d, n
  <1> QED
    BY <1>2, <1>3

LEMMA TriggeredRow ==
    ASSUME ScansTyped, NEW s \in Scans, NEW r \in Rules, NEW row \in Rule, held[s][r] \in Rule
    PROVE  /\ Triggered(s, r, row) \in Rule
           /\ Triggered(s, r, row).last = now[s]
           /\ Triggered(s, r, row).count = Rolled(s, held[s][r]).count + 1
           /\ Triggered(s, r, row).date = Window(s, r, row).date
  <1> DEFINE w == Window(s, r, row)
             m == now[s]
             n == Rolled(s, held[s][r]).count + 1
             e == w.enabled /\ r \notin OnceRules
             other == [enabled |-> e, last |-> m, count |-> n, date |-> w.date]
  <1>1. w \in Rule /\ m \in Minutes /\ n \in Nat
    <2>1. Rolled(s, held[s][r]) \in Rule
      BY RolledRow
    <2>2. Rolled(s, held[s][r]).count \in Nat
      BY <2>1, Fields
    <2> QED
      BY <2>2, WindowRow DEF ScansTyped
  <1>2. Triggered(s, r, row) = [w EXCEPT !.last = m, !.count = n, !.enabled = e]
    BY DEF Triggered
  <1>3. e \in BOOLEAN
    OBVIOUS
  <1> HIDE DEF w, m, n, e
  <1>4. [w EXCEPT !.last = m, !.count = n, !.enabled = e] = other
    <2>1. w = [enabled |-> w.enabled, last |-> w.last, count |-> w.count, date |-> w.date]
      BY <1>1, Fields
    <2> DEFINE u == [w EXCEPT !.last = m]
               v == [u EXCEPT !.count = n]
    <2>2. u = [enabled |-> w.enabled, last |-> m, count |-> w.count, date |-> w.date]
      BY <2>1
    <2>3. [w EXCEPT !.last = m, !.count = n, !.enabled = e] = [v EXCEPT !.enabled = e]
      BY Zenon
    <2> HIDE DEF u
    <2>4. v = [enabled |-> w.enabled, last |-> m, count |-> n, date |-> w.date]
      BY <2>2
    <2> HIDE DEF v
    <2>5. [v EXCEPT !.enabled = e] = other
      BY <2>4
    <2> QED
      BY <2>3, <2>5
  <1>5. other \in Rule
    BY <1>1, <1>3, Fields DEF Rule
  <1> QED
    BY <1>2, <1>4, <1>5 DEF w, m, n

-----------------------------------------------------------------------------
(* The invariant of the price alerts.                                      *)

Sending(r, m) == \E s \in Scans : stage[s] = "sent" /\ current[s] = r /\ now[s] = m

\* What a scan relies on: what it has changed it has read, and what it is about
\* to trigger it could trigger when it looked.
Grip(s) ==
    /\ stage[s] = "idle" => dirty[s] = {}
    /\ \A r \in Rules : held[s][r] # Deleted
    /\ \A r \in dirty[s] : held[s][r] # ExpiredRow /\ held[s][r].date # Day(now[s])
    /\ stage[s] \in {"gated", "notify", "sent"} =>
          /\ current[s] \in Rules /\ held[s][current[s]] # ExpiredRow
          /\ _can_trigger(s, current[s], Rolled(s, held[s][current[s]]))
          /\ held[s][current[s]].date # Day(now[s]) => current[s] \in dirty[s]
    /\ stage[s] \in {"notify", "sent"} =>
          /\ rules[current[s]] # Deleted /\ <<current[s], now[s]>> \notin hits
          /\ \A r \in dirty[s] : rules[r] # Deleted
          /\ current[s] \notin raced => ~Overtaken(s, current[s])

Notified ==
    /\ \A r \in Rules, m \in Minutes :
          /\ sent[<<r, m>>] <= 1 + crashes
          /\ <<r, m>> \in hits => sent[<<r, m>>] > 0
          /\ rules[r] # Deleted /\ <<r, m>> \notin hits /\ ~Sending(r, m) =>
                sent[<<r, m>>] <= crashes
    /\ \A s \in Scans : stage[s] = "sent" => sent[<<current[s], now[s]>>] > 0

OnRecord(r, row) == row.last # Never => <<r, row.last>> \in hits

Recorded ==
    \A r \in Rules : rules[r] # Deleted =>
        /\ OnRecord(r, rules[r])
        /\ \A s \in Scans : held[s][r] # ExpiredRow => OnRecord(r, held[s][r])

OnceHolds(r) ==
    /\ OnceIsOnce(r)
    /\ r \in OnceRules /\ rules[r] # Deleted /\ rules[r].last = Never
         /\ (\A m \in Minutes : ~Sending(r, m)) => Times(r, Minutes) <= crashes

CooldownHolds(r) ==
    /\ CooldownKept(r)
    /\ crashes = 0 /\ rules[r] # Deleted => \A m \in Minutes :
          sent[<<r, m>>] > 0 /\ ~Sending(r, m) => rules[r].last # Never /\ m <= rules[r].last

Days == {Day(m) : m \in Minutes}
OfDay(d) == {m \in Minutes : Day(m) = d}
Count(r, d) == Times(r, OfDay(d))
Owed(r, d) == IF \E m \in OfDay(d) : Sending(r, m) THEN 1 ELSE 0

\* n more than the edits have allowed.
Within(r, d, n) == Count(r, d) <= MaxPerDay * edits[r] + n + crashes + Owed(r, d)
\* The same, the last edit not counted.
WithinEarlier(r, d, n) == Count(r, d) + MaxPerDay <= MaxPerDay * edits[r] + n + crashes + Owed(r, d)

TableDaily(r) ==
    /\ \A d \in Days : d > rules[r].date => Within(r, d, 0)
    /\ rules[r].date # Never => Within(r, rules[r].date, rules[r].count)

\* A row that says count for day d, against what was sent; if the table's is
\* older, the rule has been edited since.
RowDaily(r, d, row) ==
    LET count == IF row.date = d THEN row.count ELSE 0
    IN  /\ row.date = d \/ rules[r].date <= d => Within(r, d, count)
        /\ row.date = d /\ rules[r].date < d =>
              /\ \A e \in Days : Within(r, e, 0)
              /\ WithinEarlier(r, d, count)

HeldDaily(s, r) == RowDaily(r, Day(now[s]), held[s][r])

DailyHolds(r) ==
    MaxPerDay > 0 =>
        /\ \A d \in Days : Count(r, d) <= MaxPerDay * (1 + edits[r]) + crashes
        /\ rules[r] # Deleted =>
              /\ TableDaily(r)
              /\ \A s \in Scans :
                    held[s][r] # ExpiredRow /\ held[s][r].last = rules[r].last => HeldDaily(s, r)

AlertIInv ==
    /\ AlertTyped
    /\ \A s \in Scans : Grip(s)
    /\ Notified
    /\ Recorded
    /\ \A r \in Rules \ raced : OnceHolds(r) /\ CooldownHolds(r) /\ DailyHolds(r)

-----------------------------------------------------------------------------
(* Scans that look at rules and record hits.                               *)

\* f becomes g, and nothing changes but for s.
Elsewhere(s, f, g) == \A t \in Scans \ {s} : g[t] = f[t]

\* The scan s does not take the lock from another.
HandsOff(s) == lock' = lock \/ (lock \in {NoScan, s} /\ lock' \in {NoScan, s})

Mine(s) ==
    /\ stage[s] \in {"notify", "sent"} => lock = s
    /\ lock = s => stage[s] # "idle" /\ (stage[s] = "rules" => dirty[s] # {})

\* A step of s that sends and writes nothing; a row it then has is the one in
\* the table or one it had.
Quiet(s) ==
    /\ UNCHANGED <<rules, hits, clock, sent, edits, crashes>>
    /\ begun' \in 0..MaxScans /\ raced \subseteq raced' /\ raced' \subseteq Rules
    /\ Elsewhere(s, stage, stage') /\ Elsewhere(s, now, now') /\ Elsewhere(s, held, held')
    /\ Elsewhere(s, dirty, dirty') /\ Elsewhere(s, current, current')
    /\ stage[s] # "sent" /\ stage'[s] # "sent"
    /\ \A r \in Rules :
          \/ held'[s][r] = ExpiredRow
          \/ held'[s][r] = rules[r] /\ rules[r] # Deleted
          \/ held'[s][r] = held[s][r] /\ now'[s] = now[s]
    /\ HandsOff(s)

Goes(s) == Quiet(s) /\ ScansTyped' /\ Mine(s)' /\ Grip(s)'

LEMMA BeginGoes ==
    ASSUME AlertIInv, NEW s \in Scans, AlertScanBegins(s)
    PROVE  Goes(s)
  <1> DEFINE enabled == {r \in Rules : rules[r] # Deleted /\ rules[r].enabled}
             fresh == [r \in Rules |-> IF r \in enabled THEN rules[r] ELSE ExpiredRow]
  <1>1. /\ stage[s] = "idle" /\ begun < MaxScans /\ begun' = begun + 1
        /\ now' = [now EXCEPT ![s] = clock]
        /\ due' = [due EXCEPT ![s] = enabled]
        /\ held' = [held EXCEPT ![s] = fresh]
        /\ stage' = [stage EXCEPT ![s] = "rules"]
        /\ UNCHANGED <<rules, hits, lock, dirty, current, clock, sent, edits, crashes, raced>>
    BY DEF AlertScanBegins, tables
  <1>2. fresh \in [Rules -> Rule \cup {ExpiredRow}]
    BY DEF AlertIInv, AlertTyped, TablesTyped
  <1>3. enabled \subseteq Rules
    OBVIOUS
  <1>4. \A r \in Rules : fresh[r] = ExpiredRow \/ (fresh[r] = rules[r] /\ rules[r] # Deleted)
    OBVIOUS
  <1> HIDE DEF fresh, enabled
  <1>5. ScansTyped'
    BY <1>1, <1>2, <1>3 DEF AlertIInv, AlertTyped, ScansTyped, WorldTyped, Stages
  <1>6. begun' \in 0..MaxScans
    BY <1>1, AlertAssumption DEF AlertIInv, AlertTyped, WorldTyped
  <1>7. /\ dirty[s] = {} /\ lock # s /\ stage'[s] = "rules" /\ held'[s] = fresh
    BY <1>1 DEF AlertIInv, AlertTyped, ScansTyped, Locks, Grip
  <1>8. Mine(s)'
    BY <1>1, <1>7 DEF Mine
  <1>9. Grip(s)'
    BY <1>1, <1>2, <1>7, Marks DEF Grip
  <1>10. Quiet(s)
    BY <1>1, <1>4, <1>6, <1>7
       DEF Quiet, Elsewhere, HandsOff, AlertIInv, AlertTyped, ScansTyped, WorldTyped
  <1> QED
    BY <1>5, <1>8, <1>9, <1>10 DEF Goes

\* Reading a rule puts its row in the session.
LEMMA RowRead ==
    ASSUME AlertIInv, NEW s \in Scans, NEW r \in Rules, Reads(s, r), stage[s] = "rules",
           held' = [held EXCEPT ![s][r] = RuleRow(s, r)]
    PROVE  /\ RuleRow(s, r) \in Rule
           /\ held' \in [Scans -> [Rules -> Rule \cup {ExpiredRow}]]
           /\ held'[s][r] = RuleRow(s, r)
           /\ RuleRow(s, r) = held[s][r] \/ (RuleRow(s, r) = rules[r] /\ rules[r] # Deleted)
           /\ \A q \in Rules \ {r} : held'[s][q] = held[s][q]
           /\ held[s][r] # ExpiredRow => RuleRow(s, r) = held[s][r]
           /\ Elsewhere(s, held, held')
           /\ HandsOff(s) /\ (lock' = lock \/ (lock' = s /\ dirty[s] # {}))
           /\ lock' = s => dirty[s] # {}
  <1> DEFINE row == RuleRow(s, r)
             mine == [held[s] EXCEPT ![r] = row]
  <1>1. row # Deleted /\ row = IF held[s][r] = ExpiredRow THEN rules[r] ELSE held[s][r]
    BY DEF Reads, RuleRow
  <1>2. /\ held \in [Scans -> [Rules -> Rule \cup {ExpiredRow}]]
        /\ rules \in [Rules -> Rule \cup {Deleted}]
    BY DEF AlertIInv, AlertTyped, TablesTyped, ScansTyped
  <1>3. row \in Rule
    BY <1>1, <1>2, Marks
  <1> HIDE DEF row
  <1>4. held' = [held EXCEPT ![s] = mine]
    BY ZenonT(30) DEF row
  <1>5. /\ mine \in [Rules -> Rule \cup {ExpiredRow}] /\ mine[r] = row
        /\ \A q \in Rules \ {r} : mine[q] = held[s][q]
    BY <1>2, <1>3
  <1> HIDE DEF mine
  <1>6. /\ held' \in [Scans -> [Rules -> Rule \cup {ExpiredRow}]] /\ held'[s] = mine
        /\ Elsewhere(s, held, held')
    BY <1>2, <1>4, <1>5 DEF Elsewhere
  <1>7. lock' = lock \/ (lock' = s /\ lock \in {NoScan, s} /\ dirty[s] # {})
    BY DEF Reads, CanFlush
  <1>8. lock = s => dirty[s] # {}
    BY DEF AlertIInv, AlertTyped, Locks
  <1> QED
    BY <1>1, <1>3, <1>5, <1>6, <1>7, <1>8 DEF HandsOff, row

LEMMA PassGoes ==
    ASSUME AlertIInv, NEW s \in Scans, Pass(s)
    PROVE  Goes(s)
  <1>1. PICK r \in due[s] : /\ Reads(s, r)
                            /\ held' = [held EXCEPT ![s][r] = RuleRow(s, r)]
                            /\ due' = [due EXCEPT ![s] = @ \ {r}]
    BY DEF Pass
  <1>2. /\ stage[s] = "rules" /\ UNCHANGED <<rules, hits, stage, now, dirty, current>>
        /\ UNCHANGED <<clock, sent, edits, crashes, begun, raced>>
    BY DEF Pass, world
  <1>3. r \in Rules
    BY <1>1 DEF AlertIInv, AlertTyped, ScansTyped
  <1>4. /\ RuleRow(s, r) \in Rule
        /\ held' \in [Scans -> [Rules -> Rule \cup {ExpiredRow}]]
        /\ held'[s][r] = RuleRow(s, r)
        /\ RuleRow(s, r) = held[s][r] \/ (RuleRow(s, r) = rules[r] /\ rules[r] # Deleted)
        /\ \A q \in Rules \ {r} : held'[s][q] = held[s][q]
        /\ held[s][r] # ExpiredRow => RuleRow(s, r) = held[s][r]
        /\ Elsewhere(s, held, held')
        /\ HandsOff(s) /\ lock' = s => dirty[s] # {}
    BY <1>1, <1>2, <1>3, RowRead
  <1>5. HandsOff(s) /\ (lock' = s => dirty[s] # {})
    BY <1>1, <1>2, <1>3, RowRead
  <1>6. ScansTyped'
    BY <1>1, <1>2, <1>4 DEF AlertIInv, AlertTyped, ScansTyped
  <1>7. Mine(s)'
    BY <1>2, <1>5 DEF Mine
  <1>8. Grip(s)'
    <2>1. Grip(s)
      BY DEF AlertIInv
    <2>2. \A q \in Rules : held'[s][q] # Deleted
      BY <1>6, Marks DEF ScansTyped
    <2>3. \A q \in dirty[s] : held'[s][q] = held[s][q]
      BY <1>4, <2>1 DEF Grip, AlertIInv, AlertTyped, ScansTyped
    <2> QED
      BY <1>2, <2>1, <2>2, <2>3 DEF Grip
  <1>9. Quiet(s)
    <2>1. \A q \in Rules : \/ held'[s][q] = ExpiredRow
                           \/ held'[s][q] = rules[q] /\ rules[q] # Deleted
                           \/ held'[s][q] = held[s][q] /\ now'[s] = now[s]
      BY <1>2, <1>4
    <2>2. begun \in 0..MaxScans /\ raced \subseteq Rules
      BY DEF AlertIInv, AlertTyped, WorldTyped
    <2> QED
      BY <1>2, <1>4, <1>5, <2>1, <2>2 DEF Quiet, Elsewhere
  <1> QED
    BY <1>6, <1>7, <1>8, <1>9 DEF Goes

LEMMA GateGoes ==
    ASSUME AlertIInv, NEW s \in Scans, Gate(s)
    PROVE  Goes(s)
  <1>1. PICK r \in due[s] :
          /\ Reads(s, r)
          /\ LET row == Rolled(s, RuleRow(s, r))
             IN  /\ held' = [held EXCEPT ![s][r] = RuleRow(s, r)]
                 /\ dirty' = [dirty EXCEPT ![s] = IF row = RuleRow(s, r) THEN @ ELSE @ \cup {r}]
                 /\ \/ UNCHANGED <<stage, current>>
                    \/ /\ _can_trigger(s, r, row)
                       /\ stage' = [stage EXCEPT ![s] = "gated"]
                       /\ current' = [current EXCEPT ![s] = r]
          /\ due' = [due EXCEPT ![s] = @ \ {r}]
    BY DEF Gate
  <1>2. /\ stage[s] = "rules" /\ UNCHANGED <<rules, hits, now>>
        /\ UNCHANGED <<clock, sent, edits, crashes, begun, raced>>
    BY DEF Gate, world
  <1>3. r \in Rules
    BY <1>1 DEF AlertIInv, AlertTyped, ScansTyped
  <1>4. /\ RuleRow(s, r) \in Rule
        /\ held' \in [Scans -> [Rules -> Rule \cup {ExpiredRow}]]
        /\ held'[s][r] = RuleRow(s, r)
        /\ RuleRow(s, r) = held[s][r] \/ (RuleRow(s, r) = rules[r] /\ rules[r] # Deleted)
        /\ \A q \in Rules \ {r} : held'[s][q] = held[s][q]
        /\ held[s][r] # ExpiredRow => RuleRow(s, r) = held[s][r]
        /\ Elsewhere(s, held, held')
    BY <1>1, <1>2, <1>3, RowRead
  <1>5. HandsOff(s) /\ (lock' = s => dirty[s] # {})
    BY <1>1, <1>2, <1>3, RowRead
  <1> DEFINE old == RuleRow(s, r)
             row == Rolled(s, old)
             more == IF row = old THEN dirty[s] ELSE dirty[s] \cup {r}
  <1>6. /\ dirty' = [dirty EXCEPT ![s] = more]
        /\ \/ UNCHANGED <<stage, current>>
           \/ /\ _can_trigger(s, r, row)
              /\ stage' = [stage EXCEPT ![s] = "gated"]
              /\ current' = [current EXCEPT ![s] = r]
    BY <1>1
  <1>7. row = old <=> old.date = Day(now[s])
    BY <1>4, RolledRow DEF AlertIInv, AlertTyped
  <1>8. more \in SUBSET Rules /\ dirty[s] \subseteq more
    BY <1>3 DEF AlertIInv, AlertTyped, ScansTyped
  <1>9. ScansTyped
    BY DEF AlertIInv, AlertTyped
  <1>10. \A q \in more : q \in dirty[s] \/ (q = r /\ old.date # Day(now[s]))
    BY <1>7
  <1>11. old.date # Day(now[s]) => r \in more
    BY <1>7
  <1> HIDE DEF more
  <1>12. ScansTyped' /\ dirty'[s] = more /\ Elsewhere(s, dirty, dirty')
    <2>1. due' = [due EXCEPT ![s] = @ \ {r}]
      BY <1>1
    <2>2. held' \in [Scans -> [Rules -> Rule \cup {ExpiredRow}]]
      BY <1>4
    <2> HIDE DEF row, old
    <2>3. dirty' \in [Scans -> SUBSET Rules] /\ dirty'[s] = more /\ Elsewhere(s, dirty, dirty')
      BY <1>6, <1>8, <1>9 DEF ScansTyped, Elsewhere
    <2>4. due' \in [Scans -> SUBSET Rules]
      BY <2>1, <1>9 DEF ScansTyped
    <2>5. stage' \in [Scans -> Stages] /\ current' \in [Scans -> Rules \cup {NoRule}]
      BY <1>3, <1>6, <1>9 DEF ScansTyped, Stages
    <2> QED
      BY <1>2, <1>9, <2>2, <2>3, <2>4, <2>5 DEF ScansTyped
  <1>13. /\ Elsewhere(s, stage, stage') /\ Elsewhere(s, current, current')
         /\ \/ stage'[s] = "rules" /\ current'[s] = current[s]
            \/ stage'[s] = "gated" /\ current'[s] = r /\ _can_trigger(s, r, row)
    BY <1>2, <1>6, <1>9 DEF ScansTyped, Elsewhere
  <1>14. Mine(s)'
    BY <1>5, <1>8, <1>12, <1>13 DEF Mine
  <1>15. Grip(s)'
    <2>1. Grip(s)
      BY DEF AlertIInv
    <2>2. \A q \in Rules : held'[s][q] # Deleted
      BY <1>12, Marks DEF ScansTyped
    <2>3. \A q \in dirty[s] : held'[s][q] = held[s][q]
      BY <1>4, <1>9, <2>1 DEF Grip, ScansTyped
    <2>4. \A q \in more : held'[s][q] # ExpiredRow /\ held'[s][q].date # Day(now[s])
      BY <1>4, <1>10, <2>1, <2>3, Marks DEF Grip
    <2>5. stage'[s] = "gated" =>
            /\ current'[s] \in Rules /\ held'[s][current'[s]] # ExpiredRow
            /\ _can_trigger(s, current[s], Rolled(s, held[s][current[s]]))'
            /\ held'[s][current'[s]].date # Day(now[s]) => current'[s] \in more
      <3> SUFFICES ASSUME stage'[s] = "gated"
                   PROVE  /\ current'[s] \in Rules /\ held'[s][current'[s]] # ExpiredRow
                          /\ _can_trigger(s, current[s], Rolled(s, held[s][current[s]]))'
                          /\ held'[s][current'[s]].date # Day(now[s]) => current'[s] \in more
        OBVIOUS
      <3>1. current'[s] = r /\ _can_trigger(s, r, row) /\ held'[s][r] = old
        BY <1>4, <1>13
      <3>2. _can_trigger(s, current[s], Rolled(s, held[s][current[s]]))'
        BY <1>2, <3>1 DEF _can_trigger, Rolled
      <3> QED
        BY <1>3, <1>4, <1>11, <3>1, <3>2, Marks
    <2>6. stage'[s] \in {"rules", "gated"}
      BY <1>13
    <2> HIDE DEF row, old
    <2> QED
      BY <1>2, <1>12, <2>2, <2>4, <2>5, <2>6 DEF Grip
  <1>16. Quiet(s)
    <2>1. \A q \in Rules : \/ held'[s][q] = ExpiredRow
                           \/ held'[s][q] = rules[q] /\ rules[q] # Deleted
                           \/ held'[s][q] = held[s][q] /\ now'[s] = now[s]
      BY <1>2, <1>4
    <2>2. begun \in 0..MaxScans /\ raced \subseteq Rules
      BY DEF AlertIInv, AlertTyped, WorldTyped
    <2>3. stage[s] # "sent" /\ stage'[s] # "sent"
      BY <1>2, <1>13
    <2> HIDE DEF row, old
    <2> QED
      BY <1>2, <1>4, <1>5, <1>12, <1>13, <2>1, <2>2, <2>3 DEF Quiet, Elsewhere
  <1> QED
    BY <1>12, <1>14, <1>15, <1>16 DEF Goes

LEMMA ClosingGoes ==
    ASSUME AlertIInv, NEW s \in Scans, stage[s] = "rules", SessionCloses(s),
           UNCHANGED <<rules, hits, world>>
    PROVE  Goes(s)
  <1>1. /\ lock' = IF lock = s THEN NoScan ELSE lock
        /\ stage' = [stage EXCEPT ![s] = "idle"]
        /\ held' = [held EXCEPT ![s] = AllExpired]
        /\ dirty' = [dirty EXCEPT ![s] = {}]
        /\ due' = [due EXCEPT ![s] = {}]
        /\ now' = [now EXCEPT ![s] = 0]
        /\ current' = [current EXCEPT ![s] = NoRule]
        /\ UNCHANGED <<rules, hits, clock, sent, edits, crashes, begun, raced>>
    BY DEF SessionCloses, Release, world
  <1>2. ScansTyped /\ WorldTyped /\ lock \in Scans \cup {NoScan}
    BY DEF AlertIInv, AlertTyped, TablesTyped
  <1>3. AllExpired \in [Rules -> Rule \cup {ExpiredRow}] /\ \A r \in Rules : AllExpired[r] = ExpiredRow
    BY DEF AllExpired
  <1>4. ScansTyped'
    BY <1>1, <1>2, <1>3, Clocks DEF ScansTyped, Stages
  <1>5. /\ stage'[s] = "idle" /\ held'[s] = AllExpired /\ dirty'[s] = {} /\ lock' # s
    BY <1>1, <1>2, AlertAssumption DEF ScansTyped
  <1>6. Mine(s)' /\ Grip(s)'
    BY <1>3, <1>5, Marks DEF Mine, Grip
  <1>7. Quiet(s)
    BY <1>1, <1>2, <1>3, <1>5 DEF Quiet, Elsewhere, HandsOff, ScansTyped, WorldTyped
  <1> QED
    BY <1>4, <1>6, <1>7 DEF Goes

LEMMA DuplicatedGoes ==
    ASSUME AlertIInv, NEW s \in Scans, Duplicated(s)
    PROVE  Goes(s)
  <1>1. /\ stage[s] = "gated"
        /\ held' = [held EXCEPT ![s] = AllExpired]
        /\ dirty' = [dirty EXCEPT ![s] = {}]
        /\ lock' = IF lock = s THEN NoScan ELSE lock
        /\ stage' = [stage EXCEPT ![s] = "rules"]
        /\ UNCHANGED <<rules, hits, now, due, current>>
        /\ UNCHANGED <<clock, sent, edits, crashes, begun, raced>>
    BY DEF Duplicated, Release, world
  <1>2. ScansTyped /\ WorldTyped /\ lock \in Scans \cup {NoScan}
    BY DEF AlertIInv, AlertTyped, TablesTyped
  <1>3. AllExpired \in [Rules -> Rule \cup {ExpiredRow}] /\ \A r \in Rules : AllExpired[r] = ExpiredRow
    BY DEF AllExpired
  <1>4. ScansTyped'
    BY <1>1, <1>2, <1>3 DEF ScansTyped, Stages
  <1>5. /\ stage'[s] = "rules" /\ held'[s] = AllExpired /\ dirty'[s] = {} /\ lock' # s
    BY <1>1, <1>2, AlertAssumption DEF ScansTyped
  <1>6. Mine(s)' /\ Grip(s)'
    BY <1>3, <1>5, Marks DEF Mine, Grip
  <1>7. Quiet(s)
    BY <1>1, <1>2, <1>3, <1>5 DEF Quiet, Elsewhere, HandsOff, ScansTyped, WorldTyped
  <1> QED
    BY <1>4, <1>6, <1>7 DEF Goes

LEMMA RecordHitGoes ==
    ASSUME AlertIInv, NEW s \in Scans, RecordHit(s)
    PROVE  Goes(s)
  <1>1. /\ stage[s] = "gated" /\ lock' = s
        /\ raced' = IF Overtaken(s, current[s]) THEN raced \cup {current[s]} ELSE raced
        /\ stage' = [stage EXCEPT ![s] = "notify"]
        /\ UNCHANGED <<rules, hits, now, held, dirty, due, current, clock, sent, edits, crashes, begun>>
    BY DEF RecordHit
  <1>2. /\ lock \in {NoScan, s} /\ rules[current[s]] # Deleted
        /\ <<current[s], now[s]>> \notin hits /\ \A r \in dirty[s] : rules[r] # Deleted
    BY DEF RecordHit, Flushes, CanFlush
  <1>3. ScansTyped /\ WorldTyped /\ Grip(s)
    BY DEF AlertIInv, AlertTyped
  <1>4. ScansTyped' /\ stage'[s] = "notify" /\ Elsewhere(s, stage, stage')
    BY <1>1, <1>3 DEF ScansTyped, Stages, Elsewhere
  <1>5. Mine(s)'
    BY <1>1, <1>4 DEF Mine
  <1>6. current[s] \notin raced' => ~Overtaken(s, current[s])
    BY <1>1
  <1>7. Overtaken(s, current[s])' <=> Overtaken(s, current[s])
    BY <1>1 DEF Overtaken
  <1>8. /\ current[s] \in Rules /\ held[s][current[s]] # ExpiredRow
        /\ _can_trigger(s, current[s], Rolled(s, held[s][current[s]]))
        /\ held[s][current[s]].date # Day(now[s]) => current[s] \in dirty[s]
    BY <1>1, <1>3 DEF Grip
  <1>9. _can_trigger(s, current[s], Rolled(s, held[s][current[s]]))'
    BY <1>1, <1>8 DEF _can_trigger, Rolled
  <1>10. Grip(s)'
    BY <1>1, <1>2, <1>3, <1>4, <1>6, <1>7, <1>8, <1>9 DEF Grip
  <1>11. raced \subseteq raced' /\ raced' \subseteq Rules
    BY <1>1, <1>3, <1>8 DEF WorldTyped
  <1>12. \A r \in Rules : held'[s][r] = held[s][r] /\ now'[s] = now[s]
    BY <1>1
  <1>13. Quiet(s)
    BY <1>1, <1>2, <1>3, <1>4, <1>11, <1>12 DEF Quiet, Elsewhere, HandsOff, WorldTyped
  <1> QED
    BY <1>4, <1>5, <1>10, <1>13 DEF Goes

LEMMA LookingGoes ==
    ASSUME AlertIInv, NEW s \in Scans,
           \/ AlertScanBegins(s) \/ Pass(s) \/ Gate(s) \/ RowGone(s)
           \/ RecordHit(s) \/ Duplicated(s) \/ ScanEnds(s)
    PROVE  Goes(s)
  BY BeginGoes, PassGoes, GateGoes, ClosingGoes, RecordHitGoes, DuplicatedGoes DEF RowGone, ScanEnds

\* What was sent is counted alike while nothing is sent.
LEMMA TimesSame ==
    ASSUME UNCHANGED sent
    PROVE  \A r, S : Times(r, S)' = Times(r, S)
  <1> SUFFICES ASSUME NEW r, NEW S
               PROVE  Times(r, S)' = Times(r, S)
    OBVIOUS
  <1>1. [m \in S |-> sent'[<<r, m>>]] = [m \in S |-> sent[<<r, m>>]]
    OBVIOUS
  <1> QED
    BY <1>1 DEF Times

LEMMA SendingSame ==
    ASSUME NEW s \in Scans, Quiet(s)
    PROVE  \A r, m : Sending(r, m)' <=> Sending(r, m)
  BY DEF Quiet, Elsewhere, Sending

LEMMA WithinSame ==
    ASSUME UNCHANGED <<sent, edits, crashes>>, \A r, m : Sending(r, m)' <=> Sending(r, m)
    PROVE  \A r, d, n : /\ Count(r, d)' = Count(r, d) /\ Owed(r, d)' = Owed(r, d)
                        /\ Within(r, d, n)' <=> Within(r, d, n)
                        /\ WithinEarlier(r, d, n)' <=> WithinEarlier(r, d, n)
  <1> SUFFICES ASSUME NEW r, NEW d, NEW n
               PROVE  /\ Count(r, d)' = Count(r, d) /\ Owed(r, d)' = Owed(r, d)
                      /\ Within(r, d, n)' <=> Within(r, d, n)
                      /\ WithinEarlier(r, d, n)' <=> WithinEarlier(r, d, n)
    OBVIOUS
  <1>1. Count(r, d)' = Count(r, d)
    BY TimesSame DEF Count, OfDay
  <1>2. Owed(r, d)' = Owed(r, d)
    BY DEF Owed, OfDay
  <1> QED
    BY <1>1, <1>2 DEF Within, WithinEarlier

\* A row read from the table counts what the table counts.
LEMMA FreshDaily ==
    ASSUME NEW r \in Rules, rules[r] \in Rule, TableDaily(r)
    PROVE  \A d \in Days : RowDaily(r, d, rules[r])
  <1> SUFFICES ASSUME NEW d \in Days
               PROVE  RowDaily(r, d, rules[r])
    OBVIOUS
  <1>1. rules[r].date \in Int /\ d \in Nat /\ d # Never
    BY Fields, Clocks DEF Days, Never
  <1>2. CASE rules[r].date = d
    BY <1>1, <1>2 DEF RowDaily, TableDaily
  <1>3. CASE rules[r].date # d
    BY <1>1, <1>3 DEF RowDaily, TableDaily
  <1> QED
    BY <1>2, <1>3

LEMMA QuietTyped ==
    ASSUME AlertIInv, NEW s \in Scans, Goes(s)
    PROVE  AlertTyped' /\ \A t \in Scans : Grip(t)'
  <1>1. /\ Quiet(s) /\ ScansTyped' /\ Mine(s)' /\ Grip(s)'
        /\ TablesTyped /\ ScansTyped /\ WorldTyped /\ Locks /\ \A t \in Scans : Grip(t)
    BY DEF Goes, AlertIInv, AlertTyped
  <1>2. TablesTyped' /\ WorldTyped'
    BY <1>1 DEF Quiet, HandsOff, TablesTyped, WorldTyped
  <1>3. ASSUME NEW t \in Scans \ {s}
        PROVE  /\ stage'[t] = stage[t] /\ dirty'[t] = dirty[t] /\ now'[t] = now[t]
               /\ held'[t] = held[t] /\ current'[t] = current[t]
    BY <1>1, <1>3 DEF Quiet, Elsewhere
  <1>4. ASSUME NEW t \in Scans \ {s}
        PROVE  (lock' = t <=> lock = t)
    BY <1>1, <1>4, AlertAssumption DEF Quiet, HandsOff
  <1>5. Locks'
    BY <1>1, <1>3, <1>4 DEF Locks, Mine
  <1>6. ASSUME NEW t \in Scans \ {s}
        PROVE  Grip(t)'
    <2>1. Grip(t)
      BY <1>1
    <2>2. /\ stage'[t] = stage[t] /\ dirty'[t] = dirty[t] /\ now'[t] = now[t]
          /\ held'[t] = held[t] /\ current'[t] = current[t]
      BY <1>3
    <2>3. rules' = rules /\ hits' = hits /\ raced \subseteq raced'
      BY <1>1 DEF Quiet
    <2>4. Overtaken(t, current[t])' <=> Overtaken(t, current[t])
      BY <2>2, <2>3 DEF Overtaken
    <2>5. _can_trigger(t, current[t], Rolled(t, held[t][current[t]]))' <=>
            _can_trigger(t, current[t], Rolled(t, held[t][current[t]]))
      BY <2>2 DEF _can_trigger, Rolled
    <2> QED
      BY <2>1, <2>2, <2>3, <2>4, <2>5 DEF Grip
  <1> QED
    BY <1>1, <1>2, <1>5, <1>6 DEF AlertTyped

LEMMA QuietNotified ==
    ASSUME AlertIInv, NEW s \in Scans, Goes(s)
    PROVE  Notified' /\ Recorded'
  <1>1. Quiet(s) /\ Notified /\ Recorded
    BY DEF Goes, AlertIInv
  <1>2. \A r, m : Sending(r, m)' <=> Sending(r, m)
    BY <1>1, SendingSame
  <1>3. rules' = rules /\ hits' = hits /\ sent' = sent /\ crashes' = crashes
    BY <1>1 DEF Quiet
  <1>4. \A t \in Scans : stage'[t] = "sent" =>
          stage[t] = "sent" /\ current'[t] = current[t] /\ now'[t] = now[t]
    BY <1>1 DEF Quiet, Elsewhere
  <1>5. Notified'
    BY <1>1, <1>2, <1>3, <1>4 DEF Notified
  <1>6. \A r, row : OnRecord(r, row)' <=> OnRecord(r, row)
    BY <1>3 DEF OnRecord
  <1>7. \A r \in Rules, t \in Scans : \/ held'[t][r] = ExpiredRow
                                      \/ held'[t][r] = held[t][r]
                                      \/ held'[t][r] = rules[r] /\ rules[r] # Deleted
    BY <1>1 DEF Quiet, Elsewhere
  <1>8. Recorded'
    BY <1>1, <1>3, <1>6, <1>7 DEF Recorded
  <1> QED
    BY <1>5, <1>8

LEMMA QuietLimits ==
    ASSUME AlertIInv, NEW s \in Scans, Goes(s), NEW r \in Rules \ raced'
    PROVE  (OnceHolds(r) /\ CooldownHolds(r) /\ DailyHolds(r))'
  <1>1. Quiet(s) /\ ScansTyped /\ ScansTyped' /\ TablesTyped
    BY DEF Goes, AlertIInv, AlertTyped
  <1>2. OnceHolds(r) /\ CooldownHolds(r) /\ DailyHolds(r)
    BY <1>1 DEF AlertIInv, Quiet
  <1>3. \A q, m : Sending(q, m)' <=> Sending(q, m)
    BY <1>1, SendingSame
  <1>4. rules' = rules /\ sent' = sent /\ crashes' = crashes /\ edits' = edits
    BY <1>1 DEF Quiet
  <1>5. OnceHolds(r)'
    <2>1. Times(r, Minutes)' = Times(r, Minutes)
      BY <1>4, TimesSame
    <2> QED
      BY <1>2, <1>3, <1>4, <2>1 DEF OnceHolds, OnceIsOnce
  <1>6. CooldownHolds(r)'
    BY <1>2, <1>3, <1>4 DEF CooldownHolds, CooldownKept
  <1>7. \A q, d, n : /\ Count(q, d)' = Count(q, d)
                     /\ Within(q, d, n)' <=> Within(q, d, n)
                     /\ WithinEarlier(q, d, n)' <=> WithinEarlier(q, d, n)
    BY <1>3, <1>4, WithinSame
  <1>8. \A d, row : RowDaily(r, d, row)' <=> RowDaily(r, d, row)
    BY <1>4, <1>7 DEF RowDaily
  <1>9. DailyHolds(r)'
    <2> SUFFICES ASSUME MaxPerDay > 0
                 PROVE  /\ \A d \in Days : Count(r, d)' <= MaxPerDay * (1 + edits'[r]) + crashes'
                        /\ rules'[r] # Deleted =>
                              /\ TableDaily(r)'
                              /\ \A t \in Scans :
                                    held'[t][r] # ExpiredRow /\ held'[t][r].last = rules'[r].last =>
                                       HeldDaily(t, r)'
      BY DEF DailyHolds
    <2>1. \A d \in Days : Count(r, d)' <= MaxPerDay * (1 + edits'[r]) + crashes'
      BY <1>2, <1>4, <1>7 DEF DailyHolds
    <2>2. rules[r] # Deleted => TableDaily(r)'
      BY <1>2, <1>4, <1>7 DEF DailyHolds, TableDaily
    <2>3. ASSUME rules[r] # Deleted, NEW t \in Scans, held'[t][r] # ExpiredRow,
                 held'[t][r].last = rules[r].last
          PROVE  RowDaily(r, Day(now'[t]), held'[t][r])
      <3>1. Day(now'[t]) \in Days
        BY <1>1 DEF ScansTyped, Days
      <3>2. rules[r] \in Rule
        BY <1>1, <2>3 DEF TablesTyped
      <3>3. CASE held'[t][r] = rules[r]
        BY <1>2, <2>3, <3>1, <3>2, <3>3, FreshDaily DEF DailyHolds
      <3>4. CASE held'[t][r] # rules[r]
        <4>1. held'[t][r] = held[t][r] /\ now'[t] = now[t]
          BY <1>1, <2>3, <3>4 DEF Quiet, Elsewhere
        <4>2. HeldDaily(t, r)
          BY <1>2, <2>3, <4>1 DEF DailyHolds
        <4> QED
          BY <4>1, <4>2 DEF HeldDaily
      <3> QED
        BY <3>3, <3>4
    <2>4. \A t \in Scans : HeldDaily(t, r)' <=> RowDaily(r, Day(now'[t]), held'[t][r])
      BY <1>8 DEF HeldDaily
    <2> QED
      BY <1>4, <2>1, <2>2, <2>3, <2>4
  <1> QED
    BY <1>5, <1>6, <1>9

LEMMA QuietStep ==
    ASSUME AlertIInv, NEW s \in Scans, Goes(s)
    PROVE  AlertIInv'
  BY QuietTyped, QuietNotified, QuietLimits DEF AlertIInv

LEMMA TimesNatural ==
    ASSUME WorldTyped, NEW r \in Rules, NEW S \in SUBSET Minutes
    PROVE  Times(r, S) \in Nat
  <1> DEFINE f == [m \in S |-> sent[<<r, m>>]]
  <1>1. IsFiniteSet(S)
    BY Clocks, FS_Subset
  <1>2. \A m \in S : f[m] \in Nat
    BY DEF WorldTyped
  <1>3. Times(r, S) = SumFunctionOnSet(f, S)
    BY DEF Times, SumFunction
  <1> HIDE DEF f
  <1> QED
    BY <1>1, <1>2, <1>3, SumOfNaturals

LEMMA CountNatural ==
    ASSUME WorldTyped, NEW r \in Rules
    PROVE  \A d : Count(r, d) \in Nat /\ Owed(r, d) \in {0, 1}
  <1> SUFFICES ASSUME NEW d
               PROVE  Count(r, d) \in Nat /\ Owed(r, d) \in {0, 1}
    OBVIOUS
  <1>1. OfDay(d) \in SUBSET Minutes
    BY DEF OfDay
  <1> QED
    BY <1>1, TimesNatural DEF Count, Owed

\* Nothing sent adds up to nothing.
LEMMA NothingSent ==
    ASSUME NEW r \in Rules, NEW S \in SUBSET Minutes, \A m \in Minutes : sent[<<r, m>>] = 0
    PROVE  Times(r, S) = 0
  <1> DEFINE f == [m \in S |-> sent[<<r, m>>]]
             B == {T \in SUBSET S : SumFunctionOnSet(f, T) = 0}
  <1>1. IsFiniteSet(S)
    BY Clocks, FS_Subset
  <1>2. \A m \in S : f[m] = 0
    OBVIOUS
  <1>3. Times(r, S) = SumFunctionOnSet(f, S)
    BY DEF Times, SumFunction
  <1> HIDE DEF f
  <1>4. {} \in B
    BY SumUnfolds, FS_EmptySet
  <1>5. ASSUME NEW T \in SUBSET S, T # {}, \A x \in T : T \ {x} \in B
        PROVE  T \in B
    <2>1. IsFiniteSet(T)
      BY <1>1, FS_Subset
    <2>2. PICK x \in T : SumFunctionOnSet(f, T) = f[x] + SumFunctionOnSet(f, T \ {x})
      BY <1>5, <2>1, SumUnfolds
    <2> QED
      BY <1>2, <1>5, <2>2
  <1> HIDE DEF B
  <1>6. S \in B
    BY <1>1, <1>4, <1>5, BySubsets
  <1> QED
    BY <1>3, <1>6 DEF B

\* One more notification is one more in the sums that hold its minute.
LEMMA OneMoreSent ==
    ASSUME WorldTyped, NEW q \in Rules, NEW k \in Minutes,
           sent' = [sent EXCEPT ![<<q, k>>] = @ + 1]
    PROVE  \A r \in Rules, S \in SUBSET Minutes :
              Times(r, S)' = Times(r, S) + IF r = q /\ k \in S THEN 1 ELSE 0
  <1> SUFFICES ASSUME NEW r \in Rules, NEW S \in SUBSET Minutes
               PROVE  Times(r, S)' = Times(r, S) + IF r = q /\ k \in S THEN 1 ELSE 0
    OBVIOUS
  <1> DEFINE f == [m \in S |-> sent[<<r, m>>]]
             g == [m \in S |-> sent'[<<r, m>>]]
  <1>1. IsFiniteSet(S)
    BY Clocks, FS_Subset
  <1>2. Times(r, S) = SumFunctionOnSet(f, S) /\ Times(r, S)' = SumFunctionOnSet(g, S)
    BY DEF Times, SumFunction
  <1>3. /\ \A m \in S : f[m] \in Int /\ g[m] \in Int
        /\ \A m \in S : g[m] = IF r = q /\ m = k THEN f[m] + 1 ELSE f[m]
    BY DEF WorldTyped
  <1> HIDE DEF f, g
  <1>4. CASE r = q /\ k \in S
    <2>1. \A m \in S : m # k => g[m] = f[m]
      BY <1>3
    <2>2. SumFunctionOnSet(g, S) = SumFunctionOnSet(f, S) - f[k] + g[k]
      BY <1>1, <1>3, <1>4, <2>1, SumChanges
    <2>3. SumFunctionOnSet(f, S) \in Int
      BY <1>1, <1>3, SumIsAnInteger
    <2>4. g[k] = f[k] + 1 /\ f[k] \in Int
      BY <1>3, <1>4
    <2> QED
      BY <1>2, <1>4, <2>2, <2>3, <2>4
  <1>5. CASE ~(r = q /\ k \in S)
    <2>1. \A m \in S : f[m] \in Int /\ g[m] = f[m]
      BY <1>3, <1>5
    <2>2. SumFunctionOnSet(g, S) = SumFunctionOnSet(f, S)
      BY <1>1, <2>1, SumSame
    <2>3. SumFunctionOnSet(f, S) \in Int
      BY <1>1, <1>3, SumIsAnInteger
    <2> QED
      BY <1>2, <1>5, <2>2, <2>3
  <1> QED
    BY <1>4, <1>5

\* There is room for one more crash or edit.
LEMMA EventsBounded ==
    ASSUME WorldTyped, Events < MaxEvents
    PROVE  crashes + 1 \in 0..MaxEvents /\ \A r \in Rules : edits[r] + 1 \in 0..MaxEvents
  <1>1. IsFiniteSet(Rules) /\ MaxEvents \in Nat
    BY AlertAssumption
  <1>2. \A r \in Rules : edits[r] \in Nat
    BY <1>1 DEF WorldTyped
  <1>3. /\ SumFunctionOnSet(edits, Rules) \in Nat
        /\ \A r \in Rules : edits[r] <= SumFunctionOnSet(edits, Rules)
    BY <1>1, <1>2, SumOfNaturals
  <1> QED
    BY <1>1, <1>2, <1>3 DEF Events, WorldTyped

LEMMA AlertStarts == AlertInit => AlertIInv
  <1> SUFFICES ASSUME AlertInit
               PROVE  AlertIInv
    OBVIOUS
  <1> DEFINE new == [enabled |-> TRUE, last |-> Never, count |-> 0, date |-> Never]
  <1>1. new \in Rule /\ new # Deleted
    <2>1. new \in Rule
      BY DEF Rule
    <2> QED
      BY <2>1, Marks
  <1>2. /\ rules = [r \in Rules |-> new] /\ hits = {} /\ lock = NoScan
        /\ stage = [s \in Scans |-> "idle"] /\ now = [s \in Scans |-> 0]
        /\ held = [s \in Scans |-> AllExpired] /\ dirty = [s \in Scans |-> {}]
        /\ due = [s \in Scans |-> {}] /\ current = [s \in Scans |-> NoRule]
        /\ clock = 0 /\ sent = [k \in Rules \X Minutes |-> 0] /\ edits = [r \in Rules |-> 0]
        /\ crashes = 0 /\ begun = 0 /\ raced = {}
    BY DEF AlertInit
  <1>3. AllExpired \in [Rules -> Rule \cup {ExpiredRow}] /\ \A r \in Rules : AllExpired[r] = ExpiredRow
    BY DEF AllExpired
  <1>4. AlertTyped
    BY <1>1, <1>2, <1>3, Clocks, AlertAssumption
       DEF AlertTyped, TablesTyped, ScansTyped, WorldTyped, Locks, Stages
  <1>5. \A s \in Scans : Grip(s)
    BY <1>2, <1>3, Marks DEF Grip
  <1>6. \A r \in Rules, m \in Minutes : sent[<<r, m>>] = 0
    BY <1>2
  <1>7. Notified
    BY <1>2, <1>6 DEF Notified
  <1>8. \A r \in Rules : rules[r] = new /\ new.last = Never /\ new.date = Never
    BY <1>2
  <1>9. Recorded
    BY <1>2, <1>3, <1>8 DEF Recorded, OnRecord
  <1>10. \A r \in Rules, S \in SUBSET Minutes : Times(r, S) = 0
    BY <1>6, NothingSent
  <1>11. ASSUME NEW r \in Rules
         PROVE  OnceHolds(r) /\ CooldownHolds(r) /\ DailyHolds(r)
    <2>1. OnceHolds(r)
      BY <1>2, <1>10 DEF OnceHolds, OnceIsOnce
    <2>2. CooldownHolds(r)
      BY <1>6 DEF CooldownHolds, CooldownKept
    <2>3. \A d : Count(r, d) = 0 /\ Owed(r, d) = 0
      <3>1. \A d : OfDay(d) \in SUBSET Minutes
        BY DEF OfDay
      <3> QED
        BY <1>2, <1>10, <3>1 DEF Count, Owed, Sending
    <2>4. edits[r] = 0 /\ crashes = 0 /\ MaxPerDay \in Nat
      BY <1>2, AlertAssumption
    <2>5. MaxPerDay * edits[r] = 0 /\ MaxPerDay * (1 + edits[r]) = MaxPerDay
      BY <2>4
    <2>6. DailyHolds(r)
      BY <1>2, <1>3, <1>8, <2>3, <2>4, <2>5 DEF DailyHolds, TableDaily, Within
    <2> QED
      BY <2>1, <2>2, <2>6
  <1> QED
    BY <1>4, <1>5, <1>7, <1>9, <1>11 DEF AlertIInv

\* Time and other steps that leave tables, scans and notifications alone.
LEMMA NothingMoves ==
    ASSUME AlertIInv, clock' \in Minutes,
           UNCHANGED <<tables, scan, sent, edits, crashes, begun, raced>>
    PROVE  AlertIInv'
  <1>1. UNCHANGED <<rules, hits, lock, stage, now, held, dirty, due, current,
                    sent, edits, crashes, begun, raced>>
    BY DEF tables, scan
  <1>2. AlertTyped'
    BY <1>1 DEF AlertIInv, AlertTyped, TablesTyped, ScansTyped, WorldTyped, Locks
  <1>3. \A s \in Scans : Grip(s)'
    BY <1>1 DEF AlertIInv, Grip, _can_trigger, Rolled, Overtaken
  <1>4. \A q, m : Sending(q, m)' <=> Sending(q, m)
    BY <1>1 DEF Sending
  <1>5. Notified' /\ Recorded'
    BY <1>1, <1>4 DEF AlertIInv, Notified, Recorded, OnRecord
  <1>6. ASSUME NEW r \in Rules \ raced'
        PROVE  (OnceHolds(r) /\ CooldownHolds(r) /\ DailyHolds(r))'
    <2>1. OnceHolds(r) /\ CooldownHolds(r) /\ DailyHolds(r)
      BY <1>1 DEF AlertIInv
    <2>2. \A S : Times(r, S)' = Times(r, S)
      BY <1>1, TimesSame
    <2>3. OnceHolds(r)' /\ CooldownHolds(r)'
      BY <1>1, <1>4, <2>1, <2>2 DEF OnceHolds, OnceIsOnce, CooldownHolds, CooldownKept
    <2>4. \A d, n : /\ Count(r, d)' = Count(r, d)
                    /\ Within(r, d, n)' <=> Within(r, d, n)
                    /\ WithinEarlier(r, d, n)' <=> WithinEarlier(r, d, n)
      BY <1>1, <1>4, WithinSame
    <2>5. TableDaily(r)' <=> TableDaily(r)
      BY <1>1, <2>4 DEF TableDaily
    <2>6. \A s \in Scans : HeldDaily(s, r)' <=> HeldDaily(s, r)
      BY <1>1, <2>4 DEF HeldDaily, RowDaily
    <2>7. DailyHolds(r)'
      BY <1>1, <2>1, <2>4, <2>5, <2>6 DEF DailyHolds
    <2> QED
      BY <2>3, <2>7
  <1> QED
    BY <1>2, <1>3, <1>5, <1>6 DEF AlertIInv

LEMMA CrashKeeps ==
    ASSUME AlertIInv, Crash
    PROVE  AlertIInv'
  <1>1. /\ Events < MaxEvents /\ crashes' = crashes + 1 /\ lock' = NoScan
        /\ stage' = [s \in Scans |-> "idle"] /\ held' = [s \in Scans |-> AllExpired]
        /\ dirty' = [s \in Scans |-> {}] /\ due' = [s \in Scans |-> {}]
        /\ now' = [s \in Scans |-> 0] /\ current' = [s \in Scans |-> NoRule]
        /\ UNCHANGED <<rules, hits, clock, sent, edits, begun, raced>>
    BY DEF Crash
  <1>2. TablesTyped /\ WorldTyped /\ Notified /\ Recorded
    BY DEF AlertIInv, AlertTyped
  <1>3. crashes' \in 0..MaxEvents
    BY <1>1, <1>2, EventsBounded
  <1>4. AllExpired \in [Rules -> Rule \cup {ExpiredRow}] /\ \A r \in Rules : AllExpired[r] = ExpiredRow
    BY DEF AllExpired
  <1>5. AlertTyped'
    BY <1>1, <1>2, <1>3, <1>4, Clocks, AlertAssumption
       DEF AlertTyped, TablesTyped, ScansTyped, WorldTyped, Locks, Stages
  <1>6. \A s \in Scans : Grip(s)'
    BY <1>1, <1>4, Marks DEF Grip
  <1>7. crashes \in Nat /\ crashes' = crashes + 1
    BY <1>1, <1>2, AlertAssumption DEF WorldTyped
  <1>8. Notified'
    <2>1. \A r \in Rules, m \in Minutes : sent[<<r, m>>] \in Nat /\ sent[<<r, m>>] <= 1 + crashes
      BY <1>2 DEF Notified, WorldTyped
    <2> QED
      BY <1>1, <1>2, <1>7, <2>1 DEF Notified
  <1>9. Recorded'
    BY <1>1, <1>2, <1>4 DEF Recorded, OnRecord
  <1>10. ASSUME NEW r \in Rules \ raced'
         PROVE  (OnceHolds(r) /\ CooldownHolds(r) /\ DailyHolds(r))'
    <2>1. OnceHolds(r) /\ CooldownHolds(r) /\ DailyHolds(r)
      BY <1>1 DEF AlertIInv
    <2>2. Times(r, Minutes)' = Times(r, Minutes) /\ Times(r, Minutes) \in Nat
      BY <1>1, <1>2, TimesSame, TimesNatural
    <2>3. OnceHolds(r)'
      BY <1>7, <2>1, <2>2 DEF OnceHolds, OnceIsOnce
    <2>4. CooldownHolds(r)'
      BY <1>7 DEF CooldownHolds, CooldownKept
    <2>5. \A d : Count(r, d)' = Count(r, d)
      BY <1>1, TimesSame DEF Count, OfDay
    <2>6. \A d : Owed(r, d)' = 0
      BY <1>1 DEF Owed, Sending
    <2>7. \A d : Count(r, d) \in Nat /\ Owed(r, d) \in {0, 1}
      BY <1>2, CountNatural
    <2>8. edits[r] \in Nat /\ MaxPerDay \in Nat
      BY <1>2, AlertAssumption DEF WorldTyped
    <2> DEFINE p == MaxPerDay * edits[r]
               most == MaxPerDay * (1 + edits[r])
    <2>9. p \in Nat /\ most \in Nat
      BY <2>8
    <2>10. \A d : Count(r, d) <= most + crashes => Count(r, d)' <= most + crashes'
      <3> HIDE DEF most
      <3> QED
        BY <1>7, <2>5, <2>7, <2>9
    <2>11. \A d : \A n \in Nat : Within(r, d, n) => Within(r, d, n)'
      <3> SUFFICES ASSUME NEW d, NEW n \in Nat, Count(r, d) <= p + n + crashes + Owed(r, d)
                   PROVE  Count(r, d)' <= p + n + crashes' + Owed(r, d)'
        BY <1>1 DEF Within
      <3> HIDE DEF p
      <3> QED
        BY <1>7, <2>5, <2>6, <2>7, <2>9
    <2>12. rules[r] # Deleted => rules[r].count \in Nat
      BY <1>2, Fields DEF TablesTyped
    <2>13. TableDaily(r) /\ rules[r] # Deleted => TableDaily(r)'
      <3>1. 0 \in Nat /\ rules' = rules
        BY <1>1
      <3> HIDE DEF p, most
      <3> QED
        BY <2>11, <2>12, <3>1 DEF TableDaily
    <2>14. DailyHolds(r)'
      BY <1>1, <1>4, <2>1, <2>10, <2>13 DEF DailyHolds
    <2> QED
      BY <2>3, <2>4, <2>14
  <1> QED
    BY <1>5, <1>6, <1>8, <1>9, <1>10 DEF AlertIInv

\* Nobody holds the lock, so nobody is notifying.
LEMMA NobodySends ==
    ASSUME AlertIInv, lock = NoScan
    PROVE  (\A s \in Scans : stage[s] \notin {"notify", "sent"}) /\ \A r, m : ~Sending(r, m)
  <1>1. \A s \in Scans : stage[s] \notin {"notify", "sent"}
    BY AlertAssumption DEF AlertIInv, AlertTyped, Locks
  <1> QED
    BY <1>1 DEF Sending

\* An edit leaves scans alone, and allows its rule another day's notifications.
LEMMA EditCounts ==
    ASSUME AlertIInv, NEW r \in Rules, Edit(r), UNCHANGED <<scan, sent, crashes>>
    PROVE  /\ edits' \in [Rules -> 0..MaxEvents] /\ \A q \in Rules \ {r} : edits'[q] = edits[q]
           /\ \A d : Count(r, d) <= MaxPerDay * (1 + edits[r]) + crashes =>
                 /\ Within(r, d, 0)'
                 /\ Count(r, d)' <= MaxPerDay * (1 + edits'[r]) + crashes'
           /\ \A d : \A n \in Nat : Within(r, d, n) => Within(r, d, n)' /\ WithinEarlier(r, d, n)'
  <1>1. /\ Events < MaxEvents /\ edits' = [edits EXCEPT ![r] = @ + 1] /\ lock = NoScan
        /\ UNCHANGED <<stage, now, current, sent, crashes>>
    BY DEF Edit, scan
  <1>2. WorldTyped
    BY DEF AlertIInv, AlertTyped
  <1>3. /\ edits' \in [Rules -> 0..MaxEvents] /\ \A q \in Rules \ {r} : edits'[q] = edits[q]
        /\ edits'[r] = edits[r] + 1
    BY <1>1, <1>2, EventsBounded DEF WorldTyped
  <1>4. edits[r] \in Nat /\ crashes \in Nat /\ MaxPerDay \in Nat
    BY <1>2, AlertAssumption DEF WorldTyped
  <1> DEFINE p == MaxPerDay * edits[r]
  <1>5. /\ p \in Nat /\ MaxPerDay * edits'[r] = p + MaxPerDay
        /\ MaxPerDay * (1 + edits[r]) = p + MaxPerDay
        /\ MaxPerDay * (1 + edits'[r]) = p + MaxPerDay + MaxPerDay
    <2> DEFINE n == edits[r]
    <2>1. n \in Nat /\ MaxPerDay \in Nat /\ edits'[r] = n + 1
      BY <1>3, <1>4
    <2> HIDE DEF n
    <2>2. /\ MaxPerDay * n \in Nat /\ MaxPerDay * (n + 1) = MaxPerDay * n + MaxPerDay
          /\ MaxPerDay * (1 + n) = MaxPerDay * n + MaxPerDay
          /\ MaxPerDay * (1 + (n + 1)) = MaxPerDay * n + MaxPerDay + MaxPerDay
      BY <2>1
    <2> QED
      BY <2>1, <2>2 DEF n
  <1>6. \A d : Count(r, d)' = Count(r, d) /\ Owed(r, d) = 0 /\ Owed(r, d)' = 0
    <2>1. \A d : Count(r, d)' = Count(r, d)
      BY <1>1, TimesSame DEF Count, OfDay
    <2>2. \A m : ~Sending(r, m) /\ ~Sending(r, m)'
      <3>1. \A m : ~Sending(r, m)
        BY <1>1, NobodySends
      <3> QED
        BY <1>1, <3>1 DEF Sending
    <2> QED
      BY <2>1, <2>2 DEF Owed, OfDay
  <1>7. \A d : Count(r, d) \in Nat
    BY <1>2, CountNatural
  <1>8. ASSUME NEW d, Count(r, d) <= MaxPerDay * (1 + edits[r]) + crashes
        PROVE  /\ Within(r, d, 0)'
               /\ Count(r, d)' <= MaxPerDay * (1 + edits'[r]) + crashes'
    <2>1. Count(r, d) <= p + MaxPerDay + crashes
      BY <1>5, <1>8
    <2>2. Within(r, d, 0)' <=>
            Count(r, d)' <= MaxPerDay * edits'[r] + 0 + crashes' + Owed(r, d)'
      BY DEF Within
    <2> HIDE DEF p
    <2> QED
      BY <1>1, <1>4, <1>5, <1>6, <1>7, <2>1, <2>2
  <1>9. ASSUME NEW d, NEW n \in Nat, Within(r, d, n)
        PROVE  Within(r, d, n)' /\ WithinEarlier(r, d, n)'
    <2>1. Count(r, d) <= p + n + crashes + Owed(r, d)
      BY <1>9 DEF Within
    <2>2. /\ Within(r, d, n)' <=>
               Count(r, d)' <= MaxPerDay * edits'[r] + n + crashes' + Owed(r, d)'
          /\ WithinEarlier(r, d, n)' <=>
               Count(r, d)' + MaxPerDay <= MaxPerDay * edits'[r] + n + crashes' + Owed(r, d)'
      BY DEF Within, WithinEarlier
    <2> HIDE DEF p
    <2> QED
      BY <1>1, <1>4, <1>5, <1>6, <1>7, <2>1, <2>2
  <1> QED
    BY <1>3, <1>8, <1>9

\* What holds of the rules but the edited one, and of scans.
LEMMA EditOthers ==
    ASSUME AlertIInv, NEW r \in Rules, Edit(r),
           UNCHANGED <<lock, scan, clock, sent, crashes, begun, raced>>,
           rules' \in [Rules -> Rule \cup {Deleted}], \A q \in Rules \ {r} : rules'[q] = rules[q]
    PROVE  /\ ScansTyped' /\ WorldTyped' /\ Locks'
           /\ \A s \in Scans : Grip(s)'
           /\ \A q \in Rules \ (raced \cup {r}) : (OnceHolds(q) /\ CooldownHolds(q) /\ DailyHolds(q))'
           /\ \A q, m : ~Sending(q, m)'
  <1>1. /\ lock = NoScan
        /\ UNCHANGED <<lock, stage, now, held, dirty, due, current, clock, sent, crashes, begun, raced>>
    BY DEF Edit, scan
  <1>2. ScansTyped /\ WorldTyped /\ Locks
    BY DEF AlertIInv, AlertTyped
  <1>3. edits' \in [Rules -> 0..MaxEvents] /\ \A q \in Rules \ {r} : edits'[q] = edits[q]
    BY <1>1, EditCounts
  <1>4. ScansTyped' /\ WorldTyped' /\ Locks'
    BY <1>1, <1>2, <1>3 DEF ScansTyped, WorldTyped, Locks
  <1>5. (\A s \in Scans : stage[s] \notin {"notify", "sent"}) /\ \A q, m : ~Sending(q, m)
    BY <1>1, NobodySends
  <1>6. \A s \in Scans : Grip(s)'
    BY <1>1, <1>5 DEF AlertIInv, Grip, _can_trigger, Rolled
  <1>7. \A q, m : ~Sending(q, m)'
    BY <1>1, <1>5 DEF Sending
  <1>8. ASSUME NEW q \in Rules \ (raced \cup {r})
        PROVE  (OnceHolds(q) /\ CooldownHolds(q) /\ DailyHolds(q))'
    <2>1. OnceHolds(q) /\ CooldownHolds(q) /\ DailyHolds(q)
      BY <1>1 DEF AlertIInv
    <2>2. \A S : Times(q, S)' = Times(q, S)
      BY <1>1, TimesSame
    <2>3. rules'[q] = rules[q] /\ edits'[q] = edits[q]
      BY <1>3
    <2>4. OnceHolds(q)' /\ CooldownHolds(q)'
      BY <1>1, <1>5, <1>7, <2>1, <2>2, <2>3 DEF OnceHolds, OnceIsOnce, CooldownHolds, CooldownKept
    <2>5. \A d : Count(q, d)' = Count(q, d) /\ Owed(q, d)' = Owed(q, d)
      BY <1>5, <1>7, <2>2 DEF Count, Owed, OfDay
    <2>6. \A d, n : /\ Within(q, d, n)' <=> Within(q, d, n)
                    /\ WithinEarlier(q, d, n)' <=> WithinEarlier(q, d, n)
      BY <1>1, <2>3, <2>5 DEF Within, WithinEarlier
    <2>7. TableDaily(q)' <=> TableDaily(q)
      BY <2>3, <2>6 DEF TableDaily
    <2>8. \A s \in Scans : HeldDaily(s, q)' <=> HeldDaily(s, q)
      BY <1>1, <2>3, <2>6 DEF HeldDaily, RowDaily
    <2>9. DailyHolds(q)'
      BY <1>1, <2>1, <2>3, <2>5, <2>7, <2>8 DEF DailyHolds
    <2> QED
      BY <2>4, <2>9
  <1> QED
    BY <1>4, <1>6, <1>7, <1>8

\* Writing a rule without its last trigger: the daily window stays or starts anew.
LEMMA RewriteKeeps ==
    ASSUME AlertIInv, NEW r \in Rules, Edit(r), NEW new \in Rule,
           UNCHANGED <<hits, lock, scan, clock, sent, crashes, begun, raced>>,
           rules' = [rules EXCEPT ![r] = new], new.last = rules[r].last,
           \/ new.count = rules[r].count /\ new.date = rules[r].date
           \/ new.date = Never
    PROVE  AlertIInv'
  <1>1. TablesTyped /\ ScansTyped /\ WorldTyped /\ Notified /\ Recorded /\ rules[r] # Deleted /\ lock = NoScan
    BY DEF AlertIInv, AlertTyped, Edit
  <1>2. UNCHANGED <<hits, lock, sent, crashes, raced, stage, held, now>>
    BY DEF scan
  <1>3. /\ rules' \in [Rules -> Rule \cup {Deleted}] /\ rules'[r] = new
        /\ \A q \in Rules \ {r} : rules'[q] = rules[q]
    BY <1>1 DEF TablesTyped
  <1>4. /\ ScansTyped' /\ WorldTyped' /\ Locks'
        /\ \A s \in Scans : Grip(s)'
        /\ \A q \in Rules \ (raced \cup {r}) : (OnceHolds(q) /\ CooldownHolds(q) /\ DailyHolds(q))'
        /\ \A q, m : ~Sending(q, m)'
    BY <1>3, EditOthers
  <1>5. TablesTyped'
    BY <1>1, <1>2, <1>3 DEF TablesTyped
  <1>6. (\A s \in Scans : stage[s] \notin {"notify", "sent"}) /\ \A q, m : ~Sending(q, m)
    BY <1>1, NobodySends
  <1>7. new # Deleted
    BY Marks
  <1>8. \A q \in Rules : /\ rules'[q] # Deleted <=> rules[q] # Deleted
                         /\ rules[q] # Deleted => rules'[q].last = rules[q].last
    BY <1>1, <1>3, <1>7
  <1>9. Notified'
    BY <1>1, <1>2, <1>4, <1>6, <1>8 DEF Notified
  <1>10. Recorded'
    BY <1>1, <1>2, <1>8 DEF Recorded, OnRecord
  <1>11. ASSUME r \notin raced
         PROVE  (OnceHolds(r) /\ CooldownHolds(r) /\ DailyHolds(r))'
    <2>1. OnceHolds(r) /\ CooldownHolds(r) /\ DailyHolds(r)
      BY <1>11 DEF AlertIInv
    <2>2. Times(r, Minutes)' = Times(r, Minutes)
      BY <1>2, TimesSame
    <2>3. OnceHolds(r)' /\ CooldownHolds(r)'
      BY <1>1, <1>2, <1>4, <1>6, <1>8, <2>1, <2>2
         DEF OnceHolds, OnceIsOnce, CooldownHolds, CooldownKept
    <2>4. DailyHolds(r)'
      <3> SUFFICES ASSUME MaxPerDay > 0
                   PROVE  /\ \A d \in Days : Count(r, d)' <= MaxPerDay * (1 + edits'[r]) + crashes'
                          /\ TableDaily(r)'
                          /\ \A s \in Scans :
                                held[s][r] # ExpiredRow /\ held[s][r].last = rules[r].last =>
                                   HeldDaily(s, r)'
        BY <1>2, <1>8 DEF DailyHolds
      <3>1. /\ \A d \in Days : Count(r, d) <= MaxPerDay * (1 + edits[r]) + crashes
            /\ TableDaily(r)
            /\ \A s \in Scans :
                  held[s][r] # ExpiredRow /\ held[s][r].last = rules[r].last => HeldDaily(s, r)
        BY <1>1, <2>1 DEF DailyHolds
      <3>2. \A d \in Days : Within(r, d, 0)' /\ Count(r, d)' <= MaxPerDay * (1 + edits'[r]) + crashes'
        BY <1>2, <3>1, EditCounts
      <3>3. \A d : \A n \in Nat : Within(r, d, n) => Within(r, d, n)' /\ WithinEarlier(r, d, n)'
        BY <1>2, EditCounts
      <3>4. rules[r] \in Rule
        BY <1>1 DEF TablesTyped
      <3>5. TableDaily(r)'
        <4>1. rules[r].count \in Nat
          BY <3>4, Fields
        <4>2. rules'[r].date # Never =>
                rules'[r].count = rules[r].count /\ rules'[r].date = rules[r].date
          BY <1>3
        <4> QED
          BY <3>1, <3>2, <3>3, <4>1, <4>2 DEF TableDaily
      <3>6. ASSUME NEW s \in Scans, held[s][r] # ExpiredRow, held[s][r].last = rules[r].last
            PROVE  HeldDaily(s, r)'
        <4> DEFINE d == Day(now[s])
                   row == held[s][r]
                   count == IF row.date = d THEN row.count ELSE 0
        <4>1. row \in Rule /\ d \in Days
          BY <1>1, <3>6 DEF ScansTyped, Days
        <4>2. count \in Nat
          BY <4>1, Fields
        <4>3. RowDaily(r, d, row)
          BY <3>1, <3>6 DEF HeldDaily
        <4>4. row.date = d => Within(r, d, count)
          BY <4>3 DEF RowDaily
        <4>5. row.date = d => Within(r, d, count)' /\ WithinEarlier(r, d, count)'
          BY <3>3, <4>2, <4>4, <1>2
        <4>6. row.date # d => Within(r, d, count)'
          BY <3>2, <4>1, <1>2
        <4>7. now'[s] = now[s] /\ held'[s][r] = held[s][r]
          BY <1>2
        <4>8. HeldDaily(s, r)' <=>
                /\ row.date = d \/ rules'[r].date <= d => Within(r, d, count)'
                /\ row.date = d /\ rules'[r].date < d =>
                      /\ \A e \in Days : Within(r, e, 0)'
                      /\ WithinEarlier(r, d, count)'
          BY <4>7 DEF HeldDaily, RowDaily
        <4> QED
          BY <3>2, <4>5, <4>6, <4>8
      <3> QED
        BY <3>2, <3>5, <3>6
    <2> QED
      BY <2>3, <2>4
  <1> QED
    BY <1>2, <1>4, <1>5, <1>9, <1>10, <1>11 DEF AlertIInv, AlertTyped

LEMMA ToggleKeeps ==
    ASSUME AlertIInv, NEW r \in Rules, toggle_alert_rule(r)
    PROVE  AlertIInv'
  <1> DEFINE row == rules[r]
             e == ~row.enabled
             new == [row EXCEPT !.enabled = e]
  <1>1. /\ Edit(r) /\ rules' = [rules EXCEPT ![r].enabled = ~@]
        /\ UNCHANGED <<hits, lock, scan, clock, sent, crashes, begun, raced>>
    BY DEF toggle_alert_rule
  <1>2. row \in Rule
    BY <1>1 DEF Edit, AlertIInv, AlertTyped, TablesTyped
  <1>3. rules' = [rules EXCEPT ![r] = new]
    BY <1>1, ZenonT(30)
  <1> HIDE DEF row
  <1>4. e \in BOOLEAN
    OBVIOUS
  <1> HIDE DEF e
  <1>5. new = [enabled |-> e, last |-> row.last, count |-> row.count, date |-> row.date]
    BY <1>2, Fields
  <1>6. new \in Rule
    BY <1>2, <1>4, <1>5, Fields DEF Rule
  <1>7. new.last = row.last /\ new.count = row.count /\ new.date = row.date
    BY <1>5
  <1> HIDE DEF new
  <1> QED
    BY <1>1, <1>3, <1>6, <1>7, RewriteKeeps DEF row

LEMMA UpdateKeeps ==
    ASSUME AlertIInv, NEW r \in Rules, update_alert_rule(r)
    PROVE  AlertIInv'
  <1> DEFINE row == rules[r]
             new == [row EXCEPT !.count = 0, !.date = Never]
             middle == [row EXCEPT !.count = 0]
             first == [rules EXCEPT ![r] = middle]
  <1>1. /\ Edit(r) /\ rules' = [rules EXCEPT ![r].count = 0, ![r].date = Never]
        /\ UNCHANGED <<hits, lock, scan, clock, sent, crashes, begun, raced>>
    BY DEF update_alert_rule
  <1>2. row \in Rule /\ rules \in [Rules -> Rule \cup {Deleted}]
    BY <1>1 DEF Edit, AlertIInv, AlertTyped, TablesTyped
  <1>3. middle = [enabled |-> row.enabled, last |-> row.last, count |-> 0, date |-> row.date]
    <2>1. row = [enabled |-> row.enabled, last |-> row.last, count |-> row.count, date |-> row.date]
      BY <1>2, Fields
    <2> HIDE DEF row
    <2> QED
      BY <2>1
  <1> DEFINE last == [middle EXCEPT !.date = Never]
  <1>4. last = [enabled |-> row.enabled, last |-> row.last, count |-> 0, date |-> Never]
    <2> HIDE DEF row, middle
    <2> QED
      BY <1>3
  <1>5. rules' = [[rules EXCEPT ![r].count = 0] EXCEPT ![r].date = Never]
    BY <1>1, ZenonT(30)
  <1>6. [rules EXCEPT ![r].count = 0] = [rules EXCEPT ![r] = [rules[r] EXCEPT !.count = 0]]
    BY ZenonT(30)
  <1>7. first[r] = middle
    BY <1>2
  <1> HIDE DEF first, middle
  <1>8. [first EXCEPT ![r].date = Never] = [first EXCEPT ![r] = last]
    BY <1>7, ZenonT(30)
  <1>9. rules' = [first EXCEPT ![r] = last]
    <2>1. [rules EXCEPT ![r].count = 0] = first
      BY <1>6 DEF first, middle
    <2> QED
      BY <1>5, <1>8, <2>1
  <1> HIDE DEF middle, last
  <1>10. rules' = [rules EXCEPT ![r] = last]
    BY <1>2, <1>9 DEF first
  <1>11. last \in Rule
    BY <1>2, <1>4, Fields DEF Rule
  <1>12. last.last = row.last /\ last.date = Never
    BY <1>4
  <1> QED
    BY <1>1, <1>10, <1>11, <1>12, RewriteKeeps DEF row

LEMMA DeleteKeeps ==
    ASSUME AlertIInv, NEW r \in Rules, delete_alert_rule(r)
    PROVE  AlertIInv'
  <1>1. /\ Edit(r) /\ rules' = [rules EXCEPT ![r] = Deleted]
        /\ hits' = {h \in hits : h[1] # r}
        /\ UNCHANGED <<lock, scan, clock, sent, crashes, begun, raced>>
    BY DEF delete_alert_rule
  <1>2. TablesTyped /\ ScansTyped /\ WorldTyped /\ Notified /\ Recorded /\ lock = NoScan
    BY <1>1 DEF AlertIInv, AlertTyped, Edit
  <1>3. UNCHANGED <<lock, sent, crashes, raced, stage, held, now, current>>
    BY <1>1 DEF scan
  <1>4. /\ rules' \in [Rules -> Rule \cup {Deleted}] /\ rules'[r] = Deleted
        /\ \A q \in Rules \ {r} : rules'[q] = rules[q]
    BY <1>1, <1>2 DEF TablesTyped
  <1>5. /\ ScansTyped' /\ WorldTyped' /\ Locks'
        /\ \A s \in Scans : Grip(s)'
        /\ \A q \in Rules \ (raced \cup {r}) : (OnceHolds(q) /\ CooldownHolds(q) /\ DailyHolds(q))'
        /\ \A q, m : ~Sending(q, m)'
    BY <1>1, <1>4, EditOthers
  <1>6. TablesTyped'
    BY <1>1, <1>2, <1>3, <1>4 DEF TablesTyped
  <1>7. (\A s \in Scans : stage[s] \notin {"notify", "sent"}) /\ \A q, m : ~Sending(q, m)
    BY <1>2, NobodySends
  <1>8. \A q \in Rules \ {r} : \A m : <<q, m>> \in hits' <=> <<q, m>> \in hits
    BY <1>1
  <1>9. hits' \subseteq hits
    BY <1>1
  <1>10. Notified'
    BY <1>2, <1>3, <1>4, <1>5, <1>7, <1>8, <1>9 DEF Notified
  <1>11. Recorded'
    BY <1>2, <1>3, <1>4, <1>8 DEF Recorded, OnRecord
  <1>12. ASSUME r \notin raced
         PROVE  (OnceHolds(r) /\ CooldownHolds(r) /\ DailyHolds(r))'
    <2>1. OnceHolds(r) /\ CooldownHolds(r) /\ DailyHolds(r)
      BY <1>12 DEF AlertIInv
    <2>2. Times(r, Minutes)' = Times(r, Minutes)
      BY <1>3, TimesSame
    <2>3. OnceHolds(r)' /\ CooldownHolds(r)'
      BY <1>3, <1>4, <2>1, <2>2 DEF OnceHolds, OnceIsOnce, CooldownHolds, CooldownKept
    <2>4. MaxPerDay > 0 => \A d \in Days : Count(r, d) <= MaxPerDay * (1 + edits[r]) + crashes
      BY <2>1 DEF DailyHolds
    <2>5. \A d : Count(r, d) <= MaxPerDay * (1 + edits[r]) + crashes =>
             Count(r, d)' <= MaxPerDay * (1 + edits'[r]) + crashes'
      BY <1>1, <1>3, EditCounts
    <2>6. DailyHolds(r)'
      BY <1>4, <2>4, <2>5 DEF DailyHolds
    <2> QED
      BY <2>3, <2>6
  <1> QED
    BY <1>3, <1>5, <1>6, <1>10, <1>11, <1>12 DEF AlertIInv, AlertTyped

\* The scan that holds the lock notifies alone, of a rule it could trigger.
LEMMA OneNotifies ==
    ASSUME AlertIInv, NEW s \in Scans, stage[s] \in {"notify", "sent"}
    PROVE  /\ lock = s /\ current[s] \in Rules /\ now[s] \in Minutes /\ held[s][current[s]] \in Rule
           /\ rules[current[s]] \in Rule /\ rules[current[s]] # Deleted
           /\ \A t \in Scans \ {s} : stage[t] \notin {"notify", "sent"}
           /\ \A r, m : Sending(r, m) <=> (stage[s] = "sent" /\ r = current[s] /\ m = now[s])
  <1>1. Grip(s) /\ TablesTyped /\ ScansTyped /\ Locks
    BY DEF AlertIInv, AlertTyped
  <1>2. lock = s /\ \A t \in Scans \ {s} : stage[t] \notin {"notify", "sent"}
    BY <1>1 DEF Locks
  <1>3. /\ current[s] \in Rules /\ held[s][current[s]] # ExpiredRow /\ rules[current[s]] # Deleted
    BY <1>1 DEF Grip
  <1>4. now[s] \in Minutes /\ held[s][current[s]] \in Rule /\ rules[current[s]] \in Rule
    BY <1>1, <1>3 DEF ScansTyped, TablesTyped
  <1>5. \A r, m : Sending(r, m) <=> (stage[s] = "sent" /\ r = current[s] /\ m = now[s])
    BY <1>2 DEF Sending
  <1> QED
    BY <1>2, <1>3, <1>4, <1>5

\* What the gate looked at is what the table still says, unless the rule is raced.
LEMMA StillAllowed ==
    ASSUME AlertIInv, NEW s \in Scans, stage[s] \in {"notify", "sent"}, current[s] \notin raced
    PROVE  LET r == current[s] row == held[s][r] d == Day(now[s])
               count == IF row.date = d THEN row.count ELSE 0
           IN  /\ row.last = rules[r].last /\ rules[r].date <= d /\ d \in Days
               /\ count \in Nat /\ count = Rolled(s, row).count /\ (MaxPerDay > 0 => count + 1 <= MaxPerDay)
               /\ r \in OnceRules => rules[r].last = Never
               /\ rules[r].last # Never => now[s] - rules[r].last >= Cooldown
               /\ MaxPerDay > 0 => RowDaily(r, d, row)
               /\ OnceHolds(r) /\ CooldownHolds(r) /\ DailyHolds(r)
  <1> DEFINE r == current[s]
             row == held[s][r]
             d == Day(now[s])
             count == IF row.date = d THEN row.count ELSE 0
  <1>1. Grip(s) /\ ScansTyped /\ OnceHolds(r) /\ CooldownHolds(r) /\ DailyHolds(r)
    BY OneNotifies DEF AlertIInv, AlertTyped
  <1>2. r \in Rules /\ row \in Rule /\ rules[r] \in Rule /\ rules[r] # Deleted /\ now[s] \in Minutes
    BY OneNotifies
  <1>3. ~Overtaken(s, r) /\ _can_trigger(s, r, Rolled(s, row))
    BY <1>1 DEF Grip
  <1>4. d \in Days /\ d \in Int /\ rules[r].date \in Int
    BY <1>2, Fields, Clocks DEF Days
  <1>5. row.last = rules[r].last /\ rules[r].date <= d
    BY <1>2, <1>3, <1>4 DEF Overtaken
  <1>6. Rolled(s, row).last = row.last /\ Rolled(s, row).count = count
    BY <1>1, <1>2, RolledRow
  <1>7. row.count \in Nat /\ MaxPerDay \in Nat
    BY <1>2, Fields, AlertAssumption
  <1>8. count \in Nat
    BY <1>7
  <1>9. /\ MaxPerDay > 0 => count < MaxPerDay
        /\ r \in OnceRules => rules[r].last = Never
        /\ rules[r].last # Never => now[s] - rules[r].last >= Cooldown
    BY <1>3, <1>5, <1>6 DEF _can_trigger
  <1>10. MaxPerDay > 0 => RowDaily(r, d, row)
    BY <1>1, <1>2, <1>5, Marks DEF DailyHolds, HeldDaily
  <1>11. MaxPerDay > 0 => count + 1 <= MaxPerDay
    BY <1>7, <1>8, <1>9
  <1> QED
    BY <1>1, <1>4, <1>5, <1>6, <1>8, <1>9, <1>10, <1>11

LEMMA NotifyCounts ==
    ASSUME AlertIInv, NEW s \in Scans, _send_notify(s)
    PROVE  /\ \A r \in Rules, S \in SUBSET Minutes : Times(r, S)' =
                 Times(r, S) + IF r = current[s] /\ now[s] \in S THEN 1 ELSE 0
           /\ \A r, m : ~Sending(r, m) /\ (Sending(r, m)' <=> r = current[s] /\ m = now[s])
           /\ \A r \in Rules : \A d : \A n \in Nat : Within(r, d, n) => Within(r, d, n)'
           /\ \A r \in Rules : \A d : \A n \in Nat : WithinEarlier(r, d, n) => WithinEarlier(r, d, n)'
           /\ \A r \in Rules : \A d :
                 /\ Count(r, d)' = Count(r, d) + IF r = current[s] /\ Day(now[s]) = d THEN 1 ELSE 0
                 /\ Count(r, d) \in Nat
  <1> DEFINE q == current[s]
             k == now[s]
  <1>1. /\ stage[s] = "notify" /\ sent' = [sent EXCEPT ![<<q, k>>] = @ + 1]
        /\ stage' = [stage EXCEPT ![s] = "sent"]
        /\ UNCHANGED <<now, current, edits, crashes>>
    BY DEF _send_notify
  <1>2. WorldTyped /\ ScansTyped
    BY DEF AlertIInv, AlertTyped
  <1>3. /\ q \in Rules /\ k \in Minutes /\ \A t \in Scans \ {s} : stage[t] \notin {"notify", "sent"}
        /\ \A r, m : ~Sending(r, m)
    BY <1>1, OneNotifies
  <1>4. \A t \in Scans : stage'[t] = "sent" <=> t = s
    BY <1>1, <1>2, <1>3 DEF ScansTyped
  <1>5. \A r, m : Sending(r, m)' <=> r = q /\ m = k
    BY <1>1, <1>4 DEF Sending
  <1>6. \A r \in Rules, S \in SUBSET Minutes :
            Times(r, S)' = Times(r, S) + IF r = q /\ k \in S THEN 1 ELSE 0
    <2> HIDE DEF q, k
    <2> QED
      BY <1>1, <1>2, <1>3, OneMoreSent
  <1>7. \A d : OfDay(d) \in SUBSET Minutes /\ (k \in OfDay(d) <=> Day(k) = d)
    BY <1>3 DEF OfDay
  <1>8. \A r \in Rules : \A d : /\ Count(r, d)' = Count(r, d) + IF r = q /\ Day(k) = d THEN 1 ELSE 0
                                /\ Count(r, d) \in Nat
    BY <1>2, <1>6, <1>7, CountNatural DEF Count, OfDay
  <1>9. \A r \in Rules : \A d : Owed(r, d) = 0 /\ Owed(r, d)' = IF r = q /\ Day(k) = d THEN 1 ELSE 0
    <2>1. \A d, m : m \in OfDay(d)' <=> m \in OfDay(d)
      BY DEF OfDay
    <2> QED
      BY <1>3, <1>5, <1>7, <2>1 DEF Owed
  <1>10. ASSUME NEW r \in Rules, NEW d, NEW n \in Nat
         PROVE  /\ Within(r, d, n) => Within(r, d, n)'
                /\ WithinEarlier(r, d, n) => WithinEarlier(r, d, n)'
    <2> DEFINE p == MaxPerDay * edits[r]
               c == Count(r, d)
               more == IF r = q /\ Day(k) = d THEN 1 ELSE 0
    <2>1. p \in Nat /\ MaxPerDay \in Nat /\ crashes \in Nat
      BY <1>2, AlertAssumption DEF WorldTyped
    <2>2. c \in Nat /\ more \in {0, 1}
      BY <1>8
    <2>3. Count(r, d)' = c + more /\ Owed(r, d) = 0 /\ Owed(r, d)' = more
      BY <1>8, <1>9
    <2>4. edits'[r] = edits[r] /\ crashes' = crashes
      BY <1>1
    <2> HIDE DEF c, more
    <2>5. /\ Within(r, d, n) <=> Count(r, d) <= p + n + crashes + Owed(r, d)
          /\ WithinEarlier(r, d, n) <=> Count(r, d) + MaxPerDay <= p + n + crashes + Owed(r, d)
          /\ Within(r, d, n)' <=> Count(r, d)' <= p + n + crashes + Owed(r, d)'
          /\ WithinEarlier(r, d, n)' <=> Count(r, d)' + MaxPerDay <= p + n + crashes + Owed(r, d)'
      BY <2>4 DEF Within, WithinEarlier
    <2> HIDE DEF p
    <2>6. /\ Within(r, d, n) <=> c <= p + n + crashes + 0
          /\ WithinEarlier(r, d, n) <=> c + MaxPerDay <= p + n + crashes + 0
          /\ Within(r, d, n)' <=> c + more <= p + n + crashes + more
          /\ WithinEarlier(r, d, n)' <=> (c + more) + MaxPerDay <= p + n + crashes + more
      BY <2>3, <2>5 DEF c
    <2> QED
      BY <2>1, <2>2, <2>6
  <1>11. \A r, m : ~Sending(r, m) /\ (Sending(r, m)' <=> r = q /\ m = k)
    BY <1>3, <1>5
  <1> QED
    BY <1>6, <1>8, <1>10, <1>11

LEMMA NotifyKeeps ==
    ASSUME AlertIInv, NEW s \in Scans, _send_notify(s)
    PROVE  AlertIInv'
  <1> DEFINE q == current[s]
             k == now[s]
  <1>1. /\ stage[s] = "notify" /\ sent' = [sent EXCEPT ![<<q, k>>] = @ + 1]
        /\ stage' = [stage EXCEPT ![s] = "sent"]
        /\ UNCHANGED <<rules, hits, lock, now, held, dirty, due, current,
                       clock, edits, crashes, begun, raced>>
    BY DEF _send_notify, tables
  <1>2. /\ TablesTyped /\ ScansTyped /\ WorldTyped /\ Locks /\ Notified /\ Recorded
        /\ \A t \in Scans : Grip(t)
    BY DEF AlertIInv, AlertTyped
  <1>3. /\ q \in Rules /\ k \in Minutes /\ rules[q] # Deleted /\ lock = s
        /\ \A t \in Scans \ {s} : stage[t] \notin {"notify", "sent"}
    BY <1>1, OneNotifies
  <1>4. /\ \A r \in Rules, S \in SUBSET Minutes : Times(r, S)' =
              Times(r, S) + IF r = q /\ k \in S THEN 1 ELSE 0
        /\ \A r, m : ~Sending(r, m) /\ (Sending(r, m)' <=> r = q /\ m = k)
        /\ \A r \in Rules : \A d : \A n \in Nat : Within(r, d, n) => Within(r, d, n)'
        /\ \A r \in Rules : \A d : \A n \in Nat : WithinEarlier(r, d, n) => WithinEarlier(r, d, n)'
        /\ \A r \in Rules : \A d :
              /\ Count(r, d)' = Count(r, d) + IF r = q /\ Day(k) = d THEN 1 ELSE 0
              /\ Count(r, d) \in Nat
    BY NotifyCounts
  <1> HIDE DEF q, k
  <1>5. /\ \A r \in Rules, m \in Minutes :
             /\ sent[<<r, m>>] \in Nat
             /\ sent'[<<r, m>>] = IF r = q /\ m = k THEN sent[<<r, m>>] + 1 ELSE sent[<<r, m>>]
        /\ sent' \in [Rules \X Minutes -> Nat]
    BY <1>1, <1>2, <1>3 DEF WorldTyped
  <1>6. stage'[s] = "sent" /\ \A t \in Scans \ {s} : stage'[t] = stage[t]
    BY <1>1, <1>2 DEF ScansTyped
  <1>7. AlertTyped'
    <2>1. TablesTyped' /\ ScansTyped' /\ WorldTyped'
      BY <1>1, <1>2, <1>5 DEF TablesTyped, ScansTyped, WorldTyped, Stages
    <2>2. Locks'
      BY <1>1, <1>2, <1>3, <1>6 DEF Locks
    <2> QED
      BY <2>1, <2>2 DEF AlertTyped
  <1>8. ASSUME NEW t \in Scans
        PROVE  Grip(t)'
    <2>1. Grip(t) /\ (t = s => stage[t] = "notify" /\ stage'[t] = "sent")
                  /\ (t # s => stage'[t] = stage[t])
      BY <1>1, <1>2, <1>6
    <2>2. /\ _can_trigger(t, current[t], Rolled(t, held[t][current[t]]))' <=>
               _can_trigger(t, current[t], Rolled(t, held[t][current[t]]))
          /\ Overtaken(t, current[t])' <=> Overtaken(t, current[t])
      BY <1>1 DEF _can_trigger, Rolled, Overtaken
    <2> QED
      BY <1>1, <2>1, <2>2 DEF Grip
  <1>9. crashes \in Nat
    BY <1>2, AlertAssumption DEF WorldTyped
  <1>10. sent[<<q, k>>] <= crashes
    BY <1>1, <1>2, <1>3, <1>4 DEF Notified, Grip, q, k
  <1>11. Notified'
    <2>1. \A t \in Scans : stage'[t] = "sent" => t = s /\ current'[t] = q /\ now'[t] = k
      BY <1>1, <1>3, <1>6 DEF q, k
    <2>2. ASSUME NEW r \in Rules, NEW m \in Minutes
          PROVE  /\ sent'[<<r, m>>] <= 1 + crashes
                 /\ <<r, m>> \in hits => sent'[<<r, m>>] > 0
                 /\ rules[r] # Deleted /\ <<r, m>> \notin hits /\ ~(r = q /\ m = k) =>
                       sent'[<<r, m>>] <= crashes
      <3>1. /\ sent[<<r, m>>] <= 1 + crashes
            /\ <<r, m>> \in hits => sent[<<r, m>>] > 0
            /\ rules[r] # Deleted /\ <<r, m>> \notin hits => sent[<<r, m>>] <= crashes
        BY <1>2, <1>4 DEF Notified
      <3>2. CASE r = q /\ m = k
        <4>1. sent'[<<r, m>>] = sent[<<r, m>>] + 1 /\ sent[<<r, m>>] \in Nat
          BY <1>5, <3>2
        <4>2. sent[<<r, m>>] <= crashes
          BY <1>10, <3>2
        <4> QED
          BY <1>9, <3>2, <4>1, <4>2
      <3>3. CASE ~(r = q /\ m = k)
        BY <1>5, <3>1, <3>3
      <3> QED
        BY <3>2, <3>3
    <2>3. sent'[<<q, k>>] > 0
      BY <1>3, <1>5
    <2> QED
      BY <1>1, <1>4, <2>1, <2>2, <2>3 DEF Notified
  <1>12. Recorded'
    BY <1>1, <1>2 DEF Recorded, OnRecord
  <1>13. ASSUME NEW r \in Rules \ raced'
         PROVE  (OnceHolds(r) /\ CooldownHolds(r) /\ DailyHolds(r))'
    <2>1. /\ OnceHolds(r) /\ CooldownHolds(r) /\ DailyHolds(r)
      BY <1>1 DEF AlertIInv
    <2>2. Times(r, Minutes) \in Nat /\ Times(r, Minutes)' = Times(r, Minutes) + IF r = q THEN 1 ELSE 0
      <3>1. Minutes \in SUBSET Minutes
        OBVIOUS
      <3> QED
        BY <1>2, <1>3, <1>4, <3>1, TimesNatural
    <2>3. r = q => /\ r \in OnceRules => rules[r].last = Never
                   /\ rules[r].last # Never => k - rules[r].last >= Cooldown
                   /\ rules[r].last \in Int
      <3>1. r = q => /\ r \in OnceRules => rules[r].last = Never
                     /\ rules[r].last # Never => k - rules[r].last >= Cooldown
        BY <1>1, StillAllowed DEF q, k
      <3>2. r = q => rules[r] \in Rule
        BY <1>2, <1>3 DEF TablesTyped
      <3> QED
        BY <3>1, <3>2, Fields
    <2>4. OnceHolds(r)'
      <3>1. OnceIsOnce(r)'
        <4>1. CASE r = q
          BY <1>1, <1>3, <1>4, <1>9, <2>1, <2>2, <2>3, <4>1 DEF OnceHolds, OnceIsOnce
        <4>2. CASE r # q
          BY <1>1, <2>1, <2>2, <4>2 DEF OnceHolds, OnceIsOnce
        <4> QED
          BY <4>1, <4>2
      <3>2. r = q => \E m \in Minutes : Sending(r, m)'
        BY <1>3, <1>4
      <3>3. r # q => (\A m \in Minutes : ~Sending(r, m) /\ ~Sending(r, m)')
        BY <1>4
      <3> QED
        BY <1>1, <2>1, <2>2, <3>1, <3>2, <3>3 DEF OnceHolds
    <2>5. CooldownHolds(r)'
      <3> SUFFICES ASSUME crashes = 0
                   PROVE  CooldownHolds(r)'
        BY <1>1 DEF CooldownHolds, CooldownKept
      <3>1. rules[r] # Deleted => \A m \in Minutes :
              sent[<<r, m>>] > 0 => rules[r].last # Never /\ m <= rules[r].last
        BY <1>4, <2>1 DEF CooldownHolds
      <3>2. \A m, n \in Minutes :
              m < n /\ sent[<<r, m>>] > 0 /\ sent[<<r, n>>] > 0 => n - m >= Cooldown
        BY <2>1 DEF CooldownHolds, CooldownKept
      <3>3. Cooldown \in Nat /\ Minutes \subseteq Nat
        BY Clocks, AlertAssumption
      <3>4. ASSUME NEW m \in Minutes, NEW n \in Minutes, m < n, sent'[<<r, m>>] > 0, sent'[<<r, n>>] > 0
            PROVE  n - m >= Cooldown
        <4>1. CASE r = q /\ n = k
          BY <1>3, <1>5, <2>3, <3>1, <3>3, <3>4, <4>1
        <4>2. CASE r = q /\ m = k
          BY <1>3, <1>5, <2>3, <3>1, <3>3, <3>4, <4>2
        <4>3. CASE ~(r = q /\ n = k) /\ ~(r = q /\ m = k)
          BY <1>5, <3>2, <3>4, <4>3
        <4> QED
          BY <4>1, <4>2, <4>3
      <3>5. rules[r] # Deleted => \A m \in Minutes :
              sent'[<<r, m>>] > 0 /\ ~(r = q /\ m = k) => rules[r].last # Never /\ m <= rules[r].last
        BY <1>5, <3>1
      <3> QED
        BY <1>1, <1>4, <3>4, <3>5 DEF CooldownHolds, CooldownKept
    <2>6. DailyHolds(r)'
      <3> SUFFICES ASSUME MaxPerDay > 0
                   PROVE  DailyHolds(r)'
        BY DEF DailyHolds
      <3>1. /\ \A d \in Days : Count(r, d) <= MaxPerDay * (1 + edits[r]) + crashes
            /\ rules[r] # Deleted =>
                  /\ TableDaily(r)
                  /\ \A t \in Scans :
                        held[t][r] # ExpiredRow /\ held[t][r].last = rules[r].last => HeldDaily(t, r)
        BY <2>1 DEF DailyHolds
      <3>2. \A d \in Days : Count(r, d)' <= MaxPerDay * (1 + edits[r]) + crashes
        <4>1. CASE r # q
          <5>1. \A d : Count(r, d)' = Count(r, d) + 0 /\ Count(r, d) \in Nat
            BY <1>4, <4>1
          <5>2. \A d : Count(r, d)' = Count(r, d)
            BY <5>1
          <5> QED
            BY <3>1, <5>2
        <4>2. CASE r = q
          <5> DEFINE d == Day(k)
                     row == held[s][r]
                     count == IF row.date = d THEN row.count ELSE 0
                     p == MaxPerDay * edits[r]
                     most == MaxPerDay * (1 + edits[r])
          <5>1. /\ rules[r].date <= d /\ count \in Nat /\ count + 1 <= MaxPerDay /\ RowDaily(r, d, row)
            BY <1>1, <4>2, StillAllowed DEF q, k
          <5>2. Within(r, d, count)
            BY <5>1 DEF RowDaily
          <5>3. Owed(r, d) = 0 /\ Count(r, d) \in Nat
            BY <1>2, <1>4, CountNatural DEF Owed
          <5>4. edits[r] \in Nat /\ MaxPerDay \in Nat
            BY <1>2, AlertAssumption DEF WorldTyped
          <5>5. p \in Nat /\ most = p + MaxPerDay
            BY <5>4
          <5>6. Count(r, d) <= p + count + crashes + 0
            BY <5>2, <5>3 DEF Within
          <5> HIDE DEF p, most
          <5>7. Count(r, d) + 1 <= most + crashes
            <6>1. count \in Nat /\ count + 1 <= MaxPerDay
              BY <5>1
            <6>2. Count(r, d) \in Nat
              BY <5>3
            <6> HIDE DEF count, d, row
            <6> QED
              BY <1>9, <5>4, <5>5, <5>6, <6>1, <6>2
          <5>8. \A e : Count(r, e)' = Count(r, e) + IF d = e THEN 1 ELSE 0
            BY <1>4, <4>2
          <5>9. \A e : Count(r, e) \in Nat
            BY <1>2, CountNatural
          <5>10. \A e \in Days : Count(r, e) <= most + crashes
            BY <3>1 DEF most
          <5> HIDE DEF d
          <5>11. \A e \in Days : Count(r, e)' <= most + crashes
            BY <1>9, <5>5, <5>7, <5>8, <5>9, <5>10
          <5> QED
            BY <5>11 DEF most
        <4> QED
          BY <4>1, <4>2
      <3>3. rules[r] # Deleted => TableDaily(r)'
        <4>1. rules[r] # Deleted => rules[r].count \in Nat
          BY <1>2, Fields DEF TablesTyped
        <4>2. 0 \in Nat /\ rules' = rules
          BY <1>1
        <4> QED
          BY <1>4, <3>1, <4>1, <4>2 DEF TableDaily
      <3>4. ASSUME rules[r] # Deleted, NEW t \in Scans, held[t][r] # ExpiredRow,
                   held[t][r].last = rules[r].last
            PROVE  HeldDaily(t, r)'
        <4> DEFINE d == Day(now[t])
                   row == held[t][r]
                   count == IF row.date = d THEN row.count ELSE 0
        <4>1. count \in Nat
          BY <1>2, <3>4, Fields DEF ScansTyped
        <4>2. RowDaily(r, d, row)
          BY <3>1, <3>4 DEF HeldDaily
        <4>3. rules' = rules /\ now' = now /\ held' = held /\ 0 \in Nat
          BY <1>1
        <4>4. /\ Within(r, d, count) => Within(r, d, count)'
              /\ WithinEarlier(r, d, count) => WithinEarlier(r, d, count)'
              /\ \A e \in Days : Within(r, e, 0) => Within(r, e, 0)'
          BY <1>1, <1>4, <4>1, <4>3
        <4>5. /\ row.date = d \/ rules[r].date <= d => Within(r, d, count)
              /\ row.date = d /\ rules[r].date < d =>
                    /\ \A e \in Days : Within(r, e, 0)
                    /\ WithinEarlier(r, d, count)
          BY <4>2 DEF RowDaily
        <4>6. HeldDaily(t, r)' <=>
                /\ row.date = d \/ rules[r].date <= d => Within(r, d, count)'
                /\ row.date = d /\ rules[r].date < d =>
                      /\ \A e \in Days : Within(r, e, 0)'
                      /\ WithinEarlier(r, d, count)'
          BY <4>3 DEF HeldDaily, RowDaily
        <4> HIDE DEF d, row, count
        <4> QED
          BY <4>4, <4>5, <4>6
      <3> QED
        BY <1>1, <3>2, <3>3, <3>4 DEF DailyHolds
    <2> QED
      BY <2>4, <2>5, <2>6
  <1> QED
    BY <1>7, <1>8, <1>11, <1>12, <1>13 DEF AlertIInv

\* What a commit writes.
LEMMA CommitWrites ==
    ASSUME AlertIInv, NEW s \in Scans, Commit(s)
    PROVE  /\ rules' \in [Rules -> Rule \cup {Deleted}]
           /\ \A r \in Rules : rules'[r] # Deleted <=> rules[r] # Deleted
           /\ rules'[current[s]] = Triggered(s, current[s], rules[current[s]])
           /\ \A r \in Rules \ {current[s]} : rules'[r] = Window(s, r, rules[r])
           /\ \A r \in Rules \ ({current[s]} \cup dirty[s]) : rules'[r] = rules[r]
           /\ \A r \in dirty[s] : r \in Rules /\ rules[r] \in Rule /\ held[s][r] \in Rule
  <1>1. TablesTyped /\ ScansTyped /\ Grip(s) /\ stage[s] = "sent"
    BY DEF AlertIInv, AlertTyped, Commit
  <1>2. rules' = [r \in Rules |->
          IF r = current[s] THEN Triggered(s, r, rules[r]) ELSE Window(s, r, rules[r])]
    BY DEF Commit
  <1>3. \A r \in dirty[s] : r \in Rules /\ rules[r] \in Rule /\ held[s][r] \in Rule
    BY <1>1 DEF Grip, TablesTyped, ScansTyped
  <1>4. ASSUME NEW r \in Rules, r # current[s]
        PROVE  /\ Window(s, r, rules[r]) \in Rule \cup {Deleted}
               /\ Window(s, r, rules[r]) # Deleted <=> rules[r] # Deleted
               /\ r \notin dirty[s] => Window(s, r, rules[r]) = rules[r]
    <2>1. CASE r \in dirty[s]
      <3>1. Window(s, r, rules[r]) \in Rule
        BY <1>1, <1>3, <2>1, WindowRow
      <3> QED
        BY <1>3, <2>1, <3>1, Marks
    <2>2. CASE r \notin dirty[s]
      BY <1>1, <2>2 DEF Window, TablesTyped
    <2> QED
      BY <2>1, <2>2
  <1>5. /\ Triggered(s, current[s], rules[current[s]]) \in Rule
        /\ rules[current[s]] # Deleted /\ current[s] \in Rules
    BY <1>1, OneNotifies, TriggeredRow
  <1> QED
    BY <1>2, <1>3, <1>4, <1>5, Marks

LEMMA CommitTypes ==
    ASSUME AlertIInv, NEW s \in Scans, Commit(s)
    PROVE  /\ AlertTyped' /\ \A t \in Scans : Grip(t)'
           /\ \A t \in Scans \ {s} : held'[t] = held[t] /\ now'[t] = now[t]
           /\ \A r \in Rules : held'[s][r] = ExpiredRow
           /\ \A r, m : ~Sending(r, m)'
  <1>1. /\ stage[s] = "sent" /\ lock' = NoScan
        /\ hits' = hits \cup {<<current[s], now[s]>>}
        /\ held' = [held EXCEPT ![s] = AllExpired]
        /\ dirty' = [dirty EXCEPT ![s] = {}]
        /\ stage' = [stage EXCEPT ![s] = "rules"]
        /\ raced' = raced \cup {r \in dirty[s] : Overtaken(s, r)}
        /\ UNCHANGED <<now, due, current, clock, sent, edits, crashes, begun>>
    BY DEF Commit
  <1>2. /\ TablesTyped /\ ScansTyped /\ WorldTyped /\ Locks /\ \A t \in Scans : Grip(t)
    BY DEF AlertIInv, AlertTyped
  <1>3. /\ current[s] \in Rules /\ now[s] \in Minutes /\ lock = s
        /\ \A t \in Scans \ {s} : stage[t] \notin {"notify", "sent"}
    BY <1>1, OneNotifies
  <1>4. AllExpired \in [Rules -> Rule \cup {ExpiredRow}] /\ \A r \in Rules : AllExpired[r] = ExpiredRow
    BY DEF AllExpired
  <1>5. rules' \in [Rules -> Rule \cup {Deleted}]
    BY CommitWrites
  <1>6. TablesTyped'
    BY <1>1, <1>2, <1>3, <1>5 DEF TablesTyped
  <1>7. ScansTyped' /\ WorldTyped'
    BY <1>1, <1>2, <1>4 DEF ScansTyped, WorldTyped, Stages
  <1>8. /\ stage'[s] = "rules" /\ dirty'[s] = {} /\ held'[s] = AllExpired
        /\ \A t \in Scans \ {s} : /\ stage'[t] = stage[t] /\ dirty'[t] = dirty[t]
                                  /\ held'[t] = held[t] /\ now'[t] = now[t] /\ current'[t] = current[t]
    BY <1>1, <1>2 DEF ScansTyped
  <1>9. \A t \in Scans : stage'[t] \notin {"notify", "sent"}
    BY <1>3, <1>8
  <1>10. Locks'
    BY <1>1, <1>9, AlertAssumption DEF Locks
  <1>11. Grip(s)'
    BY <1>4, <1>8, Marks DEF Grip
  <1>12. ASSUME NEW t \in Scans \ {s}
         PROVE  Grip(t)'
    <2>1. _can_trigger(t, current[t], Rolled(t, held[t][current[t]]))' <=>
             _can_trigger(t, current[t], Rolled(t, held[t][current[t]]))
      BY <1>8 DEF _can_trigger, Rolled
    <2> QED
      BY <1>2, <1>3, <1>8, <2>1 DEF Grip
  <1>13. \A r, m : ~Sending(r, m)'
    BY <1>9 DEF Sending
  <1> QED
    BY <1>4, <1>6, <1>7, <1>8, <1>10, <1>11, <1>12, <1>13 DEF AlertTyped

LEMMA CommitRecords ==
    ASSUME AlertIInv, NEW s \in Scans, Commit(s)
    PROVE  Notified' /\ Recorded'
  <1> DEFINE q == current[s]
             k == now[s]
  <1>1. /\ stage[s] = "sent" /\ hits' = hits \cup {<<q, k>>} /\ UNCHANGED <<sent, crashes>>
    BY DEF Commit
  <1>2. Notified /\ Recorded /\ TablesTyped /\ ScansTyped
    BY DEF AlertIInv, AlertTyped
  <1>3. /\ q \in Rules /\ k \in Minutes /\ rules[q] \in Rule /\ held[s][q] \in Rule
        /\ \A r, m : Sending(r, m) <=> (r = q /\ m = k)
    BY <1>1, OneNotifies
  <1>4. /\ \A r \in Rules : rules'[r] # Deleted <=> rules[r] # Deleted
        /\ rules'[q] = Triggered(s, q, rules[q])
        /\ \A r \in Rules \ {q} : rules'[r] = Window(s, r, rules[r])
        /\ \A r \in Rules \ ({q} \cup dirty[s]) : rules'[r] = rules[r]
        /\ \A r \in dirty[s] : r \in Rules /\ rules[r] \in Rule /\ held[s][r] \in Rule
    BY CommitWrites
  <1>5. /\ \A t \in Scans \ {s} : held'[t] = held[t] /\ now'[t] = now[t]
        /\ \A r \in Rules : held'[s][r] = ExpiredRow
        /\ \A r, m : ~Sending(r, m)' 
        /\ \A t \in Scans : stage'[t] # "sent"
    <2>1. /\ \A t \in Scans \ {s} : held'[t] = held[t] /\ now'[t] = now[t]
          /\ \A r \in Rules : held'[s][r] = ExpiredRow
          /\ \A r, m : ~Sending(r, m)'
      BY CommitTypes
    <2>2. \A t \in Scans : stage'[t] # "sent"
      BY <1>1, <1>2, OneNotifies DEF Commit, ScansTyped
    <2> QED
      BY <2>1, <2>2
  <1>6. sent[<<q, k>>] > 0
    BY <1>1, <1>2 DEF Notified
  <1> HIDE DEF q, k
  <1>7. Notified'
    <2>1. \A r \in Rules, m \in Minutes : <<r, m>> \in hits' <=> <<r, m>> \in hits \/ (r = q /\ m = k)
      BY <1>1
    <2> QED
      BY <1>1, <1>2, <1>3, <1>4, <1>5, <1>6, <2>1 DEF Notified
  <1>8. ASSUME NEW r \in Rules, rules[r] # Deleted
        PROVE  rules'[r].last # Never => <<r, rules'[r].last>> \in hits'
    <2>1. CASE r = q
      <3>1. rules'[q].last = k
        BY <1>2, <1>3, <1>4, TriggeredRow DEF q, k
      <3> QED
        BY <1>1, <2>1, <3>1
    <2>2. CASE r # q
      <3>1. rules'[r].last = rules[r].last
        <4>1. CASE r \in dirty[s]
          BY <1>2, <1>4, <2>2, <4>1, WindowRow
        <4>2. CASE r \notin dirty[s]
          BY <1>4, <2>2, <4>2
        <4> QED
          BY <4>1, <4>2
      <3> QED
        BY <1>1, <1>2, <1>8, <3>1 DEF OnRecord, Recorded
    <2> QED
      BY <2>1, <2>2
  <1>9. ASSUME NEW r \in Rules, rules[r] # Deleted, NEW t \in Scans, held'[t][r] # ExpiredRow
        PROVE  held'[t][r].last # Never => <<r, held'[t][r].last>> \in hits'
    <2>1. held'[t][r] = held[t][r]
      BY <1>5, <1>9
    <2>2. OnRecord(r, held[t][r])
      BY <1>2, <1>9, <2>1 DEF Recorded
    <2> QED
      BY <1>1, <2>1, <2>2 DEF OnRecord
  <1>10. Recorded'
    BY <1>4, <1>8, <1>9 DEF Recorded, OnRecord
  <1> QED
    BY <1>7, <1>10

\* The once and cooldown parts after a commit.
LEMMA CommitSpacing ==
    ASSUME AlertIInv, NEW s \in Scans, Commit(s), NEW r \in Rules \ raced'
    PROVE  (OnceHolds(r) /\ CooldownHolds(r))'
  <1> DEFINE q == current[s]
             k == now[s]
  <1>1. /\ stage[s] = "sent" /\ UNCHANGED <<sent, crashes>> /\ raced \subseteq raced'
    BY DEF Commit
  <1>2. TablesTyped /\ ScansTyped /\ OnceHolds(r) /\ CooldownHolds(r)
    BY <1>1 DEF AlertIInv, AlertTyped
  <1>3. /\ q \in Rules /\ k \in Minutes /\ rules[q] \in Rule /\ held[s][q] \in Rule
        /\ \A p, m : Sending(p, m) <=> (p = q /\ m = k)
    BY <1>1, OneNotifies
  <1>4. /\ \A p \in Rules : rules'[p] # Deleted <=> rules[p] # Deleted
        /\ rules'[q] = Triggered(s, q, rules[q])
        /\ \A p \in Rules \ {q} : rules'[p] = Window(s, p, rules[p])
        /\ \A p \in Rules \ ({q} \cup dirty[s]) : rules'[p] = rules[p]
        /\ \A p \in dirty[s] : p \in Rules /\ rules[p] \in Rule /\ held[s][p] \in Rule
    BY CommitWrites
  <1>5. \A p, m : ~Sending(p, m)'
    BY CommitTypes
  <1>6. Times(r, Minutes)' = Times(r, Minutes)
    BY <1>1, TimesSame
  <1>7. CASE r = q
    <2>1. rules'[r].last = k /\ k # Never /\ k \in Nat
      <3>1. rules'[q].last = k
        BY <1>2, <1>3, <1>4, TriggeredRow
      <3>2. k \in Nat
        BY <1>3, Clocks
      <3> HIDE DEF q, k
      <3> QED
        BY <1>7, <3>1, <3>2 DEF Never
    <2>2. OnceHolds(r)'
      BY <1>1, <1>2, <1>6, <2>1 DEF OnceHolds, OnceIsOnce
    <2>3. rules[r].last # Never => k - rules[r].last >= Cooldown /\ rules[r].last \in Int
      BY <1>1, <1>3, <1>7, StillAllowed, Fields
    <2>4. Cooldown \in Nat /\ Minutes \subseteq Nat
      BY Clocks, AlertAssumption
    <2>5. CooldownHolds(r)'
      <3> SUFFICES ASSUME crashes = 0
                   PROVE  /\ CooldownKept(r)'
                          /\ \A m \in Minutes : sent[<<r, m>>] > 0 => m <= k
        <4> HIDE DEF k
        <4>1. crashes # 0 => CooldownKept(r)'
          BY <1>1 DEF CooldownKept
        <4> QED
          BY <1>1, <2>1, <4>1 DEF CooldownHolds
      <3>1. CooldownKept(r)'
        BY <1>1, <1>2 DEF CooldownHolds, CooldownKept
      <3>2. ASSUME NEW m \in Minutes, sent[<<r, m>>] > 0
            PROVE  m <= k
        <4>1. CASE m = k
          BY <2>1, <4>1
        <4>2. CASE m # k
          <5>1. rules[r].last # Never /\ m <= rules[r].last
            BY <1>2, <1>3, <1>7, <3>2, <4>2, OneNotifies, <1>1 DEF CooldownHolds
          <5>2. m \in Nat
            BY <2>4
          <5> HIDE DEF k
          <5> QED
            BY <2>1, <2>3, <2>4, <5>1, <5>2
        <4> QED
          BY <4>1, <4>2
      <3> QED
        BY <3>1, <3>2
    <2> QED
      BY <2>2, <2>5
  <1>8. CASE r # q
    <2>1. rules[r] # Deleted => rules'[r].last = rules[r].last
      <3>1. CASE r \in dirty[s]
        BY <1>2, <1>4, <1>8, <3>1, WindowRow
      <3>2. CASE r \notin dirty[s]
        BY <1>4, <1>8, <3>2
      <3> QED
        BY <3>1, <3>2
    <2>2. \A m : ~Sending(r, m)
      BY <1>3, <1>8
    <2> QED
      BY <1>1, <1>2, <1>4, <1>5, <1>6, <2>1, <2>2 DEF OnceHolds, OnceIsOnce, CooldownHolds, CooldownKept
  <1> QED
    BY <1>7, <1>8

\* A commit sends nothing, and settles what was owed for its own rule and day.
LEMMA CommitCounts ==
    ASSUME AlertIInv, NEW s \in Scans, Commit(s), NEW r \in Rules
    PROVE  \A d : \A n \in Nat :
              /\ Count(r, d)' = Count(r, d) /\ edits'[r] = edits[r] /\ crashes' = crashes
              /\ r # current[s] \/ d # Day(now[s]) =>
                    /\ Within(r, d, n) => Within(r, d, n)'
                    /\ WithinEarlier(r, d, n) => WithinEarlier(r, d, n)'
              /\ Within(r, d, n) => Within(r, d, n + 1)'
              /\ WithinEarlier(r, d, n) /\ n + 1 <= MaxPerDay => Within(r, d, 0)'
  <1> DEFINE q == current[s]
             k == now[s]
  <1>1. stage[s] = "sent" /\ UNCHANGED <<sent, edits, crashes>>
    BY DEF Commit
  <1>2. WorldTyped
    BY DEF AlertIInv, AlertTyped
  <1>3. q \in Rules /\ k \in Minutes /\ \A p, m : Sending(p, m) <=> (p = q /\ m = k)
    BY <1>1, OneNotifies
  <1>4. \A p, m : ~Sending(p, m)'
    BY CommitTypes
  <1> SUFFICES ASSUME NEW d, NEW n \in Nat
               PROVE  /\ Count(r, d)' = Count(r, d) /\ edits'[r] = edits[r] /\ crashes' = crashes
                      /\ r # q \/ d # Day(k) =>
                            /\ Within(r, d, n) => Within(r, d, n)'
                            /\ WithinEarlier(r, d, n) => WithinEarlier(r, d, n)'
                      /\ Within(r, d, n) => Within(r, d, n + 1)'
                      /\ WithinEarlier(r, d, n) /\ n + 1 <= MaxPerDay => Within(r, d, 0)'
    OBVIOUS
  <1> HIDE DEF q, k
  <1> DEFINE p == MaxPerDay * edits[r]
             c == Count(r, d)
             o == Owed(r, d)
  <1>5. p \in Nat /\ MaxPerDay \in Nat /\ crashes \in Nat
    BY <1>2, AlertAssumption DEF WorldTyped
  <1>6. c \in Nat /\ o \in {0, 1}
    BY <1>2, CountNatural
  <1>7. Count(r, d)' = c /\ edits'[r] = edits[r] /\ crashes' = crashes
    BY <1>1, TimesSame DEF Count, OfDay
  <1>8. Owed(r, d)' = 0
    BY <1>4 DEF Owed
  <1>9. r # q \/ d # Day(k) => o = 0
    BY <1>3 DEF Owed, OfDay
  <1>10. /\ Within(r, d, n) <=> c <= p + n + crashes + o
         /\ WithinEarlier(r, d, n) <=> c + MaxPerDay <= p + n + crashes + o
         /\ Within(r, d, n)' <=> c <= p + n + crashes + 0
         /\ WithinEarlier(r, d, n)' <=> c + MaxPerDay <= p + n + crashes + 0
         /\ Within(r, d, n + 1)' <=> c <= p + (n + 1) + crashes + 0
         /\ Within(r, d, 0)' <=> c <= p + 0 + crashes + 0
    <2>1. /\ Within(r, d, n) <=> Count(r, d) <= p + n + crashes + Owed(r, d)
          /\ WithinEarlier(r, d, n) <=> Count(r, d) + MaxPerDay <= p + n + crashes + Owed(r, d)
          /\ Within(r, d, n)' <=> Count(r, d)' <= p + n + crashes + Owed(r, d)'
          /\ WithinEarlier(r, d, n)' <=> Count(r, d)' + MaxPerDay <= p + n + crashes + Owed(r, d)'
          /\ Within(r, d, n + 1)' <=> Count(r, d)' <= p + (n + 1) + crashes + Owed(r, d)'
          /\ Within(r, d, 0)' <=> Count(r, d)' <= p + 0 + crashes + Owed(r, d)'
      BY <1>7 DEF Within, WithinEarlier
    <2> HIDE DEF p
    <2> QED
      BY <1>7, <1>8, <2>1
  <1> HIDE DEF p, c, o
  <1>11. /\ r # q \/ d # Day(k) =>
               /\ Within(r, d, n) => Within(r, d, n)'
               /\ WithinEarlier(r, d, n) => WithinEarlier(r, d, n)'
         /\ Within(r, d, n) => Within(r, d, n + 1)'
         /\ WithinEarlier(r, d, n) /\ n + 1 <= MaxPerDay => Within(r, d, 0)'
    BY <1>5, <1>6, <1>9, <1>10
  <1> QED
    BY <1>7, <1>11 DEF c

LEMMA WithinMore ==
    ASSUME WorldTyped, NEW r \in Rules, NEW d, NEW n \in Nat, Within(r, d, 0)
    PROVE  Within(r, d, n)
  <1> DEFINE p == MaxPerDay * edits[r]
  <1>1. /\ Count(r, d) \in Nat /\ Owed(r, d) \in {0, 1}
        /\ edits[r] \in Nat /\ MaxPerDay \in Nat /\ crashes \in Nat
    BY CountNatural, AlertAssumption DEF WorldTyped
  <1>2. p \in Nat
    BY <1>1
  <1>3. /\ Within(r, d, 0) <=> Count(r, d) <= p + 0 + crashes + Owed(r, d)
        /\ Within(r, d, n) <=> Count(r, d) <= p + n + crashes + Owed(r, d)
    BY DEF Within
  <1> HIDE DEF p
  <1> QED
    BY <1>1, <1>2, <1>3

\* The daily count of the rule a commit triggers.
LEMMA CommitTriggered ==
    ASSUME AlertIInv, NEW s \in Scans, Commit(s), current[s] \notin raced', MaxPerDay > 0,
           NEW r, r = current[s]
    PROVE  /\ TableDaily(r)'
           /\ \A t \in Scans : held'[t][r] = ExpiredRow \/ held'[t][r].last # rules'[r].last
  <1>1. PICK k, row, date : k = now[s] /\ row = held[s][r] /\ date = rules[r].date
    OBVIOUS
  <1>2. PICK d : d = Day(k)
    OBVIOUS
  <1>3. PICK count : count = IF row.date = d THEN row.count ELSE 0
    OBVIOUS
  <1>4. stage[s] = "sent" /\ raced \subseteq raced'
    BY DEF Commit
  <1>5. TablesTyped /\ ScansTyped /\ Grip(s) /\ Recorded
    BY DEF AlertIInv, AlertTyped
  <1>6. r \in Rules /\ k \in Minutes /\ row \in Rule /\ rules[r] \in Rule /\ rules[r] # Deleted
    BY <1>1, <1>4, OneNotifies
  <1>7. /\ date <= d /\ d \in Days
        /\ count \in Nat /\ count = Rolled(s, row).count /\ count + 1 <= MaxPerDay
        /\ RowDaily(r, d, row) /\ DailyHolds(r)
    BY <1>1, <1>2, <1>3, <1>4, StillAllowed
  <1>8. rules'[r] = Triggered(s, r, rules[r])
    BY CommitWrites
  <1>9. /\ rules'[r].last = k /\ rules'[r].count = count + 1
        /\ rules'[r].date = Window(s, r, rules[r]).date
    BY <1>1, <1>5, <1>6, <1>7, <1>8, TriggeredRow
  <1>10. /\ r \in dirty[s] => rules'[r].date = d
         /\ r \notin dirty[s] => rules'[r].date = date /\ row.date = d
    <2>1. r \notin dirty[s] => row.date = d
      BY <1>1, <1>2, <1>4, <1>5 DEF Grip
    <2>2. /\ r \notin dirty[s] => Window(s, r, rules[r]) = rules[r]
          /\ r \in dirty[s] => Window(s, r, rules[r]).date = Day(now[s])
      BY <1>1, <1>5, <1>6, WindowRow
    <2> QED
      BY <1>1, <1>2, <1>9, <2>1, <2>2
  <1>11. \A e : \A n \in Nat :
            /\ e # d /\ Within(r, e, n) => Within(r, e, n)'
            /\ Within(r, e, n) => Within(r, e, n + 1)'
            /\ WithinEarlier(r, e, n) /\ n + 1 <= MaxPerDay => Within(r, e, 0)'
    BY <1>1, <1>2, <1>6, CommitCounts
  <1>12. \A e \in Days : e > date => Within(r, e, 0)
    BY <1>1, <1>6, <1>7 DEF DailyHolds, TableDaily
  <1>13. /\ Within(r, d, count)
         /\ row.date = d /\ date < d =>
               (\A e \in Days : Within(r, e, 0)) /\ WithinEarlier(r, d, count)
    BY <1>1, <1>3, <1>7 DEF RowDaily
  <1>14. /\ d \in Int /\ date \in Int /\ date \in Days \cup {Never} /\ Days \subseteq Int
    BY <1>1, <1>6, <1>7, Fields, Clocks DEF Days
  <1>15. TableDaily(r)'
    <2>1. CASE rules'[r].date = d
      <3>1. \A e \in Days : e > d => Within(r, e, 0)'
        <4>1. \A e \in Days : e > d => e # d /\ Within(r, e, 0)
          BY <1>7, <1>12, <1>14
        <4> QED
          BY <1>11, <4>1
      <3>2. Within(r, d, count + 1)'
        BY <1>7, <1>11, <1>13
      <3> QED
        BY <1>9, <2>1, <3>1, <3>2 DEF TableDaily
    <2>2. CASE rules'[r].date # d
      <3>1. row.date = d /\ rules'[r].date = date /\ date < d
        BY <1>7, <1>10, <1>14, <2>2
      <3>2. (\A e \in Days : Within(r, e, 0)) /\ WithinEarlier(r, d, count)
        BY <1>13, <3>1
      <3>3. \A e \in Days : Within(r, e, 0)'
        <4>1. Within(r, d, 0)'
          BY <1>7, <1>11, <3>2
        <4> QED
          BY <1>11, <3>2, <4>1
      <3>4. \A e \in Days : Within(r, e, count + 1)'
        <4>1. ASSUME NEW e \in Days
              PROVE  Within(r, e, count)
          BY <1>6, <1>7, <3>2, WithinMore DEF AlertIInv, AlertTyped
        <4> QED
          BY <1>7, <1>11, <4>1
      <3> QED
        BY <1>9, <1>14, <3>1, <3>3, <3>4 DEF TableDaily
    <2> QED
      BY <2>1, <2>2
  <1>16. ASSUME NEW t \in Scans, held'[t][r] # ExpiredRow
         PROVE  held'[t][r].last # rules'[r].last
    <2>1. held'[t][r] = held[t][r]
      BY <1>6, <1>16, CommitTypes
    <2>2. held[t][r].last # Never => <<r, held[t][r].last>> \in hits
      BY <1>5, <1>6, <1>16, <2>1 DEF Recorded, OnRecord
    <2>3. <<r, k>> \notin hits
      BY <1>1, <1>4, <1>5 DEF Grip
    <2>4. k # Never
      BY <1>6, Clocks DEF Never
    <2> QED
      BY <1>9, <2>1, <2>2, <2>3, <2>4
  <1> QED
    BY <1>15, <1>16

\* The daily count of a rule whose window the commit writes or leaves.
LEMMA CommitWindow ==
    ASSUME AlertIInv, NEW s \in Scans, Commit(s), NEW r \in Rules \ raced', MaxPerDay > 0,
           r # current[s], rules[r] # Deleted
    PROVE  /\ TableDaily(r)'
           /\ \A t \in Scans :
                 held'[t][r] # ExpiredRow /\ held'[t][r].last = rules'[r].last => HeldDaily(t, r)'
  <1>1. PICK d, row, date, new : /\ d = Day(now[s]) /\ row = held[s][r] /\ date = rules[r].date
                                 /\ new = rules'[r]
    OBVIOUS
  <1>2. raced' = raced \cup {p \in dirty[s] : Overtaken(s, p)} /\ stage[s] = "sent"
    BY DEF Commit
  <1>3. TablesTyped /\ ScansTyped /\ Grip(s) /\ WorldTyped
    BY DEF AlertIInv, AlertTyped
  <1>4. rules[r] \in Rule
    BY <1>3 DEF TablesTyped
  <1>5. new = Window(s, r, rules[r]) /\ (r \in dirty[s] => row \in Rule)
    BY <1>1, CommitWrites
  <1>6. /\ new \in Rule /\ new.last = rules[r].last
        /\ r \notin dirty[s] => new = rules[r]
        /\ r \in dirty[s] => new.date = d
    BY <1>1, <1>3, <1>4, <1>5, WindowRow
  <1>7. /\ TableDaily(r)
        /\ \A t \in Scans :
              held[t][r] # ExpiredRow /\ held[t][r].last = rules[r].last => HeldDaily(t, r)
    BY <1>2 DEF AlertIInv, DailyHolds
  <1>8. date \in Int /\ new.date \in Int /\ new.count \in Nat /\ rules[r].count \in Nat
    BY <1>1, <1>4, <1>6, Fields
  <1>9. d \in Days /\ d \in Int /\ Days \subseteq Int
    BY <1>1, <1>3, Clocks DEF ScansTyped, Days
  <1>10. r \in dirty[s] => date <= d /\ Within(r, d, 0)
    <2> SUFFICES ASSUME r \in dirty[s]
                 PROVE  date <= d /\ Within(r, d, 0)
      OBVIOUS
    <2>1. ~Overtaken(s, r) /\ row.date # d /\ row # ExpiredRow
      BY <1>1, <1>2, <1>3 DEF Grip
    <2>2. row.last = rules[r].last /\ date <= d
      BY <1>1, <1>8, <1>9, <2>1 DEF Overtaken
    <2>3. RowDaily(r, d, row)
      BY <1>1, <1>7, <2>1, <2>2 DEF HeldDaily
    <2> QED
      BY <1>1, <2>1, <2>2, <2>3 DEF RowDaily
  <1>11. \A e : \A n \in Nat : /\ Within(r, e, n) => Within(r, e, n)'
                               /\ WithinEarlier(r, e, n) => WithinEarlier(r, e, n)'
    BY CommitCounts
  <1>12. date <= new.date
    BY <1>1, <1>6, <1>8, <1>10
  <1>13. 0 \in Nat
    OBVIOUS
  <1>14. TableDaily(r)'
    <2>1. CASE r \in dirty[s]
      <3>1. Within(r, d, new.count)'
        BY <1>3, <1>8, <1>10, <1>11, <2>1, WithinMore
      <3>2. \A e \in Days : e > d => Within(r, e, 0)
        BY <1>1, <1>7, <1>8, <1>9, <1>10, <2>1 DEF TableDaily
      <3>3. \A e \in Days : e > d => Within(r, e, 0)'
        BY <1>11, <1>13, <3>2
      <3> QED
        BY <1>1, <1>6, <2>1, <3>1, <3>3 DEF TableDaily
    <2>2. CASE r \notin dirty[s]
      <3>1. /\ \A e \in Days : e > date => Within(r, e, 0)'
            /\ date # Never => Within(r, date, new.count)'
        <4>1. /\ \A e \in Days : e > date => Within(r, e, 0)
              /\ date # Never => Within(r, date, new.count)
          BY <1>1, <1>6, <1>7, <2>2 DEF TableDaily
        <4> QED
          BY <1>8, <1>11, <1>13, <4>1
      <3> QED
        BY <1>1, <1>6, <2>2, <3>1 DEF TableDaily
    <2> QED
      BY <2>1, <2>2
  <1>15. ASSUME NEW t \in Scans, held'[t][r] # ExpiredRow, held'[t][r].last = rules'[r].last
         PROVE  HeldDaily(t, r)'
    <2>1. held'[t] = held[t] /\ now'[t] = now[t]
      BY <1>15, CommitTypes
    <2>2. PICK e, mine : e = Day(now[t]) /\ mine = held[t][r]
      OBVIOUS
    <2>3. PICK count : count = IF mine.date = e THEN mine.count ELSE 0
      OBVIOUS
    <2>4. mine \in Rule /\ e \in Int
      <3>1. mine \in Rule /\ now[t] \in Minutes
        BY <1>3, <1>15, <2>1, <2>2 DEF ScansTyped
      <3> QED
        <4>1. Day(now[t]) \in Nat
          BY <3>1, Clocks
        <4>2. e \in Nat
          BY <2>2, <4>1
        <4> QED
          BY <3>1, <4>2
    <2>5. count \in Nat
      BY <2>3, <2>4, Fields
    <2>6. RowDaily(r, e, mine)
      BY <1>1, <1>6, <1>7, <1>15, <2>1, <2>2 DEF HeldDaily
    <2>7. /\ mine.date = e \/ date <= e => Within(r, e, count)
          /\ mine.date = e /\ date < e =>
                /\ \A x \in Days : Within(r, x, 0)
                /\ WithinEarlier(r, e, count)
      BY <1>1, <2>3, <2>6 DEF RowDaily
    <2>8. HeldDaily(t, r)' <=>
            /\ mine.date = e \/ new.date <= e => Within(r, e, count)'
            /\ mine.date = e /\ new.date < e =>
                  /\ \A x \in Days : Within(r, x, 0)'
                  /\ WithinEarlier(r, e, count)'
      BY <1>1, <2>1, <2>2, <2>3 DEF HeldDaily, RowDaily
    <2>9. (new.date <= e => date <= e) /\ (new.date < e => date < e)
      BY <1>8, <1>12, <2>4
    <2>10. \A x \in Days : Within(r, x, 0) => Within(r, x, 0)'
      BY <1>11, <1>13
    <2> QED
      BY <1>11, <2>5, <2>7, <2>8, <2>9, <2>10
  <1> QED
    BY <1>14, <1>15

LEMMA CommitDaily ==
    ASSUME AlertIInv, NEW s \in Scans, Commit(s), NEW r \in Rules \ raced'
    PROVE  DailyHolds(r)'
  <1>1. stage[s] = "sent" /\ raced \subseteq raced'
    BY DEF Commit
  <1>2. DailyHolds(r)
    BY <1>1 DEF AlertIInv
  <1>3. \A d : Count(r, d)' = Count(r, d) /\ edits'[r] = edits[r] /\ crashes' = crashes
    <2>1. 0 \in Nat
      OBVIOUS
    <2> QED
      BY <2>1, CommitCounts
  <1>4. rules'[r] # Deleted <=> rules[r] # Deleted
    BY CommitWrites
  <1>5. CASE r = current[s]
    BY <1>2, <1>3, <1>5, CommitTriggered DEF DailyHolds
  <1>6. CASE r # current[s]
    BY <1>2, <1>3, <1>4, <1>6, CommitWindow DEF DailyHolds
  <1> QED
    BY <1>5, <1>6

LEMMA CommitKeeps ==
    ASSUME AlertIInv, NEW s \in Scans, Commit(s)
    PROVE  AlertIInv'
  BY CommitTypes, CommitRecords, CommitSpacing, CommitDaily DEF AlertIInv

-----------------------------------------------------------------------------

\* Every step of the alerts keeps the invariant.
LEMMA AlertSteps ==
    ASSUME AlertIInv, [AlertNext]_alert_vars
    PROVE  AlertIInv'
  <1>1. ASSUME NEW s \in Scans, Scanning(s)
        PROVE  AlertIInv'
    <2>1. CASE \/ AlertScanBegins(s) \/ Pass(s) \/ Gate(s) \/ RowGone(s)
               \/ RecordHit(s) \/ Duplicated(s) \/ ScanEnds(s)
      BY <2>1, LookingGoes, QuietStep
    <2>2. CASE _send_notify(s)
      BY <2>2, NotifyKeeps
    <2>3. CASE Commit(s)
      BY <2>3, CommitKeeps
    <2> QED
      BY <1>1, <2>1, <2>2, <2>3 DEF Scanning
  <1>2. ASSUME NEW r \in Rules, toggle_alert_rule(r) \/ update_alert_rule(r) \/ delete_alert_rule(r)
        PROVE  AlertIInv'
    BY <1>2, ToggleKeeps, UpdateKeeps, DeleteKeeps
  <1>3. CASE Tick
    <2>1. clock' \in Minutes
      BY <1>3, AlertAssumption DEF Tick, AlertIInv, AlertTyped, WorldTyped, Minutes
    <2> QED
      BY <1>3, <2>1, NothingMoves DEF Tick
  <1>4. CASE Crash
    BY <1>4, CrashKeeps
  <1>5. CASE UNCHANGED alert_vars
    <2>1. clock' \in Minutes
      BY <1>5 DEF alert_vars, world, AlertIInv, AlertTyped, WorldTyped
    <2> QED
      BY <1>5, <2>1, NothingMoves DEF alert_vars, world
  <1> QED
    BY <1>1, <1>2, <1>3, <1>4, <1>5 DEF AlertNext, Users

LEMMA AlertInvariantHolds == AlertSpec => []AlertIInv
  <1>1. AlertInit => AlertIInv
    BY AlertStarts
  <1>2. AlertIInv /\ [AlertNext]_alert_vars => AlertIInv'
    BY AlertSteps
  <1> QED
    BY <1>1, <1>2, PTL DEF AlertSpec

\* However scans overlap, users edit and the process crashes, a hit on record
\* was notified, and a notification is on record, being committed, lost in a
\* crash or of a deleted rule; no minute of a rule is notified twice but for a
\* crash (RecordHit flushes the hit before it notifies, Commit writes it).
THEOREM HitsAreTheNotifications == AlertSpec => []HitsMatchNotifications
  <1>1. AlertIInv => HitsMatchNotifications
    <2> SUFFICES ASSUME AlertIInv
                 PROVE  HitsMatchNotifications
      OBVIOUS
    <2>1. AlertTypeOK /\ WorldTyped /\ Notified
      BY AlertTypedTypes DEF AlertIInv, AlertTyped
    <2>2. OncePerMinute
      BY <2>1 DEF OncePerMinute, Notified
    <2>3. ASSUME NEW r \in Rules, NEW m \in Minutes
          PROVE  /\ <<r, m>> \in hits => sent[<<r, m>>] > 0
                 /\ sent[<<r, m>>] > 0 /\ crashes = 0 /\ rules[r] # Deleted =>
                      <<r, m>> \in hits \/ Sending(r, m)
      <3>1. sent[<<r, m>>] \in Nat
        BY <2>1 DEF WorldTyped
      <3> QED
        BY <2>1, <3>1 DEF Notified
    <2> QED
      BY <2>1, <2>2, <2>3 DEF HitsMatchNotifications, Sending
  <1> QED
    BY <1>1, AlertInvariantHolds, PTL

\* A rule that no scan has triggered from an overtaken row, or written the
\* daily window of from one, keeps its repeat mode, its cooldown and its daily
\* limit (_can_trigger, RecordHit, Commit and the three handlers that edit).
THEOREM LimitsAreKept == AlertSpec => []LimitsKeptUnlessRaced
  <1>1. AlertIInv => LimitsKeptUnlessRaced
    <2> SUFFICES ASSUME AlertIInv, NEW r \in Rules \ raced
                 PROVE  OnceIsOnce(r) /\ CooldownKept(r) /\ DailyLimitKept(r)
      BY DEF LimitsKeptUnlessRaced
    <2>1. OnceHolds(r) /\ CooldownHolds(r) /\ DailyHolds(r)
      BY DEF AlertIInv
    <2> QED
      BY <2>1 DEF OnceHolds, CooldownHolds, DailyHolds, DailyLimitKept, Days, Count, OfDay
  <1> QED
    BY <1>1, AlertInvariantHolds, PTL
=============================================================================
