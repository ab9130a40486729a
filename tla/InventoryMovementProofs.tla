------------------------ MODULE InventoryMovementProofs ------------------------
(***************************************************************************)
(* For any number of transactions, bins, products and requests:            *)
(* bin_contents equals the sum of the inventory ledger.  The argument is   *)
(* WritesAreLocked: the rows a transaction has written are locked by it    *)
(* alone, so the quantity it installs at commit is still the committed     *)
(* one plus its own ledger lines.  Then the documents: a line reaches      *)
(* stock once, and what is final stays so; the bins that are not overdrawn *)
(* by requests one after the other; and the receiving bins, which hold     *)
(* what the statuses of the lines say.                                     *)
(***************************************************************************)
EXTENDS InventoryMovement, Sums, WellFoundedInduction, TLAPS

(***************************************************************************)
(* What the request bodies and the reads yield.                            *)
(***************************************************************************)
LEMMA QtyAtType ==
  ASSUME TypeOK, NEW t \in Txs, NEW r \in Rows
  PROVE  QtyAt(t, r) \in Int
  BY DEF TypeOK, TablesOK, WritesOK, QtyAt

LEMMA StatusAtType ==
  ASSUME TypeOK, NEW t \in Txs, NEW d \in Docs
  PROVE  StatusAt(t, d) \in Statuses
  BY DEF TypeOK, TablesOK, WritesOK, StatusAt

(* The kind of a body tells its shape.                                     *)
LEMMA DtoShape ==
  ASSUME NEW d \in Dtos
  PROVE  /\ d.kind = "move" => d.lines \in Seq(MoveLine) /\ d.lines # <<>>
         /\ d.kind = "adjust" => d.lines \in Seq(AdjustLine) /\ d.lines # <<>>
         /\ d.kind = "putaway" => d.lines \in Seq(PutawayLine) /\ d.lines # <<>>
         /\ d.kind = "quarantine" => d \in QuarantineDto
         /\ d.kind = "stocktake" => d \in StocktakeDto
         /\ d.kind = "state" => d \in StateDto
         /\ d.kind \in {"move", "adjust", "putaway", "quarantine", "stocktake", "state"}
  BY ShapeAssumption
  DEF MoveDto, AdjustDto, PutawayDto, QuarantineDto, StocktakeDto, StateDto

(* The line a bulk putaway is at exists.                                   *)
LEMMA PutawayLineType ==
  ASSUME TypeOK, NEW t \in Txs, Kind(t) = "putaway"
  PROVE  dto[t].lines[item[t]] \in PutawayLine
  <1>1. dto[t].lines \in Seq(PutawayLine)
    BY DtoShape DEF TypeOK, ProgramOK, Kind
  <1>2. item[t] \in 1..Len(dto[t].lines)
    BY <1>1 DEF TypeOK, ProgramOK, ProgressOK
  <1> QED BY <1>1, <1>2

LEMMA DocumentType ==
  ASSUME TypeOK, NEW t \in Txs, Document(t) # NoLine
  PROVE  /\ Document(t) \in Docs
         /\ Kind(t) \in {"putaway", "quarantine"} => Document(t) \in PutLines
         /\ Kind(t) \in {"stocktake", "state"} => Document(t) \in Stocktakes
  <1>1. CASE Kind(t) = "putaway"
    BY <1>1, PutawayLineType DEF Document, PutawayLine, Docs
  <1>2. CASE Kind(t) = "quarantine"
    BY <1>2, DtoShape DEF Document, Kind, TypeOK, ProgramOK, QuarantineDto, Docs
  <1>3. CASE Kind(t) = "stocktake"
    BY <1>3, DtoShape DEF Document, Kind, TypeOK, ProgramOK, StocktakeDto, Docs
  <1>4. CASE Kind(t) = "state"
    BY <1>4, DtoShape DEF Document, Kind, TypeOK, ProgramOK, StateDto, Docs
  <1> QED BY <1>1, <1>2, <1>3, <1>4 DEF Document

LEMMA DocumentNamed ==
  ASSUME TypeOK, NEW t \in Txs, Kind(t) \in {"putaway", "stocktake", "state"}
  PROVE  Document(t) # NoLine
  <1>1. CASE Kind(t) = "putaway"
    BY <1>1, PutawayLineType, ShapeAssumption DEF Document, PutawayLine, Docs
  <1>2. CASE Kind(t) \in {"stocktake", "state"}
    BY <1>2, DtoShape, ShapeAssumption
    DEF Document, Kind, TypeOK, ProgramOK, StocktakeDto, StateDto, Docs
  <1> QED BY <1>1, <1>2

(* The lines of every movement that a request may record are rows and      *)
(* integers.                                                               *)
LEMMA PairType ==
  ASSUME NEW p \in Products, NEW a \in Bins, NEW b \in Bins, NEW q \in Int
  PROVE  /\ Pair(p, a, b, q) \in Seq(Leg)
         /\ Len(Pair(p, a, b, q)) = 2
         /\ Pair(p, a, b, q)[1] \in Leg /\ Pair(p, a, b, q)[2] \in Leg
  BY DEF Pair, Leg, Rows

LEMMA MoveLegsType ==
  ASSUME NEW lines \in Seq(MoveLine), lines # <<>>
  PROVE  MoveLegs(lines) \in Seq(Leg) /\ DOMAIN MoveLegs(lines) # {}
  <1>1. ASSUME NEW k \in 1..(2 * Len(lines)) PROVE MoveLegs(lines)[k] \in Leg
    <2> DEFINE m == lines[(k + 1) \div 2]
               pair == Pair(m.product, m.source, m.target, m.qty)
    <2>1. (k + 1) \div 2 \in 1..Len(lines)
      OBVIOUS
    <2>2. m \in MoveLine
      BY <2>1
    <2>3. pair[1] \in Leg /\ pair[2] \in Leg
      BY <2>2, PairType DEF MoveLine
    <2>4. MoveLegs(lines)[k] = pair[IF k % 2 = 1 THEN 1 ELSE 2]
      BY DEF MoveLegs
    <2> HIDE DEF pair
    <2> QED BY <2>3, <2>4
  <1>2. Len(lines) \in Nat /\ Len(lines) # 0
    OBVIOUS
  <1>3. MoveLegs(lines) \in [1..(2 * Len(lines)) -> Leg]
    BY <1>1 DEF MoveLegs
  <1> QED BY <1>2, <1>3

LEMMA AppendType ==
  ASSUME NEW S, NEW q \in Seq(S), NEW x \in S
  PROVE  Append(q, x) \in Seq(S) /\ DOMAIN Append(q, x) # {}
  <1>1. Append(q, x) \in Seq(S) /\ Len(Append(q, x)) = Len(q) + 1 /\ Len(q) \in Nat
    OBVIOUS
  <1>2. 1 \in 1..Len(Append(q, x))
    BY <1>1
  <1> QED BY <1>1, <1>2

LEMMA MovementsType ==
  ASSUME TypeOK, NEW t \in Txs, pc[t] = "stock", NEW s \in Movements(t)
  PROVE  /\ s \in Seq(Leg)
         /\ ~Adjusts(t) => DOMAIN s # {}
  <1> dto[t] \in Dtos
    BY DEF TypeOK, ProgramOK
  <1>1. CASE Kind(t) = "move"
    BY <1>1, DtoShape, MoveLegsType DEF Movements, Kind
  <1>2. CASE Adjusts(t)
    <2>1. s = AdjustLegs(t)
      BY <1>2 DEF Movements, Adjusts
    <2>2. dto[t].lines \in Seq(AdjustLine)
      BY <1>2, DtoShape DEF Kind, Adjusts, StocktakeDto
    <2>3. ASSUME NEW i \in 1..Len(dto[t].lines) PROVE AdjustLegs(t)[i] \in Leg
      <3> DEFINE a == dto[t].lines[i]
      <3>1. a \in AdjustLine
        BY <2>2
      <3>2. <<a.bin, a.product>> \in Rows /\ a.newQty \in Int
        BY <3>1 DEF AdjustLine, Rows
      <3>3. a.newQty - QtyAt(t, <<a.bin, a.product>>) \in Int
        BY <3>2, QtyAtType
      <3>4. AdjustLegs(t)[i] = [row |-> <<a.bin, a.product>>,
                                qty |-> a.newQty - QtyAt(t, <<a.bin, a.product>>)]
        BY <2>2 DEF AdjustLegs
      <3> QED BY <3>2, <3>3, <3>4 DEF Leg
    <2>4. DOMAIN AdjustLegs(t) = 1..Len(dto[t].lines)
      BY <2>2 DEF AdjustLegs
    <2>5. AdjustLegs(t) \in [1..Len(dto[t].lines) -> Leg]
      <3> DEFINE f == AdjustLegs(t)
      <3>1. f = [i \in DOMAIN f |-> f[i]]
        BY DEF AdjustLegs
      <3> QED BY <2>3, <2>4, <3>1
    <2> QED BY <1>2, <2>1, <2>2, <2>5
  <1>3. CASE Kind(t) = "putaway"
    <2> DEFINE p == dto[t].lines[item[t]]
               dest == <<p.dest, LineProduct[p.line]>>
               counted == p.newTotal - (QtyAt(t, dest) + p.qty)
               moved == p.qty * LineRatio[p.line]
               corrected == counted * LineRatio[p.line]
               pair == Pair(LineProduct[p.line], route[t].source, p.dest, moved)
    <2>1. p \in PutawayLine
      BY <1>3, PutawayLineType
    <2>2. route[t].source \in Bins
      BY <1>3 DEF TypeOK, ProgramOK, ProgressOK
    <2>3. LineProduct[p.line] \in Products /\ p.dest \in Bins /\ moved \in Int
      BY <2>1, ShapeAssumption DEF PutawayLine
    <2>4. pair \in Seq(Leg) /\ Len(pair) = 2
      <3> HIDE DEF moved, p
      <3> QED BY <2>2, <2>3, PairType
    <2>5. s = IF p.newTotal = NoTotal \/ counted = 0 THEN pair
              ELSE Append(pair, [row |-> dest, qty |-> corrected])
      BY <1>3 DEF Movements, PutawayLegs, Adjusts
    <2>6. p.newTotal # NoTotal => [row |-> dest, qty |-> corrected] \in Leg
      <3>1. dest \in Rows
        BY <2>1, ShapeAssumption DEF Rows, PutawayLine
      <3>2. QtyAt(t, dest) \in Int
        BY <3>1, QtyAtType
      <3>3. p.newTotal # NoTotal => p.newTotal \in Int /\ p.qty \in Int
        BY <2>1 DEF PutawayLine
      <3>4. LineRatio[p.line] \in Int
        BY <2>1, ShapeAssumption DEF PutawayLine
      <3> HIDE DEF dest, p
      <3> QED BY <3>1, <3>2, <3>3, <3>4 DEF Leg
    <2> HIDE DEF pair, counted, dest, p, corrected
    <2>7. CASE p.newTotal = NoTotal \/ counted = 0
      BY <2>4, <2>5, <2>7
    <2>8. CASE ~(p.newTotal = NoTotal \/ counted = 0)
      <3>1. s = Append(pair, [row |-> dest, qty |-> corrected])
        BY <2>5, <2>8
      <3>2. [row |-> dest, qty |-> corrected] \in Leg
        BY <2>6, <2>8
      <3>3. \A x \in Leg : Append(pair, x) \in Seq(Leg) /\ DOMAIN Append(pair, x) # {}
        BY <2>4, AppendType
      <3> QED BY <3>1, <3>2, <3>3
    <2> QED BY <2>7, <2>8
  <1>4. CASE Kind(t) = "quarantine"
    <2>1. dto[t] \in QuarantineDto /\ route[t].source \in Bins
      BY <1>4, DtoShape DEF Kind, TypeOK, ProgramOK, Movements, Adjusts
    <2>2. QuarantineQty(t) \in Int
      BY <2>1, ShapeAssumption DEF QuarantineQty, QuarantineDto
    <2>3. QuarantineTargets(t) \subseteq Bins
      BY DEF QuarantineTargets, TypeOK, ProgramOK
    <2>4. PICK b \in QuarantineTargets(t) :
            s = Pair(dto[t].product, route[t].source, b, QuarantineQty(t))
      BY <1>4 DEF Movements, Adjusts
    <2>5. s \in Seq(Leg) /\ Len(s) = 2
      BY <2>1, <2>2, <2>3, <2>4, PairType DEF QuarantineDto
    <2> QED BY <2>5
  <1>5. Kind(t) # "state"
    BY DEF TypeOK, ProgressOK
  <1> QED BY <1>1, <1>2, <1>3, <1>4, <1>5, DtoShape DEF Kind, Adjusts

(* A nonempty set of naturals has a least element, so a transaction with   *)
(* legs to upsert has a next one, and that is a row and an integer.        *)
LEMMA LeastNatural ==
  ASSUME NEW T, T \subseteq Nat, T # {}
  PROVE  \E m \in T : \A k \in T : m <= k
  <1> DEFINE R == OpToRel(<, Nat)
  <1>1. IsWellFoundedOn(R, Nat)
    BY NatLessThanWellFounded
  <1>2. \A x, y \in Nat : x < y => <<x, y>> \in R
    BY DEF OpToRel
  <1>3. PICK m \in T : \A y \in T : ~ (<<y, m>> \in R)
    <2> HIDE DEF R
    <2> QED BY <1>1, WFMin
  <1>4. \A y \in T : ~ (y < m)
    <2> HIDE DEF R
    <2> QED BY <1>2, <1>3
  <1>5. \A y \in T : m <= y
    BY <1>4
  <1> QED BY <1>5

LEMMA NextLegType ==
  ASSUME TypeOK, NEW t \in Txs, pc[t] = "upsert"
  PROVE  /\ NextLeg(t) \in todo[t]
         /\ NextRow(t) \in Rows
         /\ legs[t][NextLeg(t)].qty \in Int
  <1>1. todo[t] \subseteq Nat /\ todo[t] # {}
    BY DEF TypeOK, ProgramOK, ProgressOK
  <1>2. NextLeg(t) \in todo[t]
    BY <1>1, LeastNatural DEF NextLeg
  <1>3. legs[t] \in Seq(Leg) /\ NextLeg(t) \in DOMAIN legs[t]
    BY <1>2 DEF TypeOK, ProgramOK, ProgressOK
  <1>4. legs[t][NextLeg(t)] \in Leg
    BY <1>3
  <1> QED BY <1>2, <1>4 DEF Leg, NextRow

(***************************************************************************)
(* Type correctness, action by action.                                     *)
(***************************************************************************)
LEMMA InitType == Init => TypeOK
  <1> SUFFICES ASSUME Init PROVE TypeOK
    OBVIOUS
  <1>1. TablesOK
    BY ShapeAssumption DEF Init, TablesOK, Statuses, StocktakeStates
  <1>2. ProgramOK
    BY ShapeAssumption DEF Init, ProgramOK, NoRoute
  <1>3. ASSUME NEW t \in Txs PROVE ProgressOK(t)
    BY <1>2, DtoShape DEF Init, ProgramOK, ProgressOK, Kind
  <1>4. WritesOK
    BY DEF Init, WritesOK
  <1> QED BY <1>1, <1>2, <1>3, <1>4 DEF TypeOK

LEMMA AbortType ==
  ASSUME TypeOK, NEW t \in Txs, NEW why \in Ended, Abort(t, why)
  PROVE  TypeOK'
  <1> USE DEF Abort, Goto, TypeOK
  <1>1. TablesOK'
    BY DEF TablesOK, tables
  <1>2. ProgramOK'
    BY DEF ProgramOK, NoRoute
  <1>3. ASSUME NEW u \in Txs PROVE ProgressOK(u)'
    BY DEF ProgressOK, ProgramOK, Ended, Kind, Document
  <1>4. WritesOK'
    BY DEF WritesOK
  <1> QED BY <1>1, <1>2, <1>3, <1>4

LEMMA BeginType ==
  ASSUME TypeOK, NEW t \in Txs, Begin(t)
  PROVE  TypeOK'
  <1> USE DEF Goto
  <1>0. TablesOK /\ ProgramOK /\ WritesOK /\ \A u \in Txs : ProgressOK(u)
    BY DEF TypeOK
  <1>1. PICK d \in Dtos :
          /\ dto' = [dto EXCEPT ![t] = d]
          /\ \/ /\ \/ d.kind \in {"putaway", "stocktake", "state"}
                   \/ d.kind = "quarantine" /\ d.line # NoLine
                /\ pc' = [pc EXCEPT ![t] = "line"] /\ route' = route
             \/ /\ d.kind = "quarantine"
                /\ pc' = [pc EXCEPT ![t] = "stock"]
                /\ route' = [route EXCEPT ![t] = [source |-> d.source, target |-> d.target]]
             \/ /\ d.kind \in {"move", "adjust"}
                /\ pc' = [pc EXCEPT ![t] = "stock"] /\ route' = route
    BY DEF Begin
  <1>2. pc[t] = "idle" /\ UNCHANGED <<tables, item, legs, todo, writes>>
    BY DEF Begin
  <1>3. TablesOK'
    BY <1>0, <1>2 DEF TablesOK, tables
  <1>4. d.kind = "quarantine" => d.source \in Bins \cup {NoBin} /\ d.target \in Bins \cup {NoBin}
    BY DtoShape DEF QuarantineDto
  <1>5. ProgramOK'
    <2>1. route' \in [Txs -> [source : Bins \cup {NoBin}, target : Bins \cup {NoBin}]]
      <3> DEFINE Routes == [source : Bins \cup {NoBin}, target : Bins \cup {NoBin}]
      <3>1. d.kind = "quarantine" => [source |-> d.source, target |-> d.target] \in Routes
        BY <1>4
      <3>2. route \in [Txs -> Routes]
        BY <1>0 DEF ProgramOK
      <3> HIDE DEF Routes
      <3>3. route' \in [Txs -> Routes]
        BY <1>1, <3>1, <3>2
      <3> QED BY <3>3 DEF Routes
    <2>2. pc' \in [Txs -> {"idle"} \cup Active \cup Ended]
      BY <1>0, <1>1 DEF ProgramOK, Active
    <2> QED BY <1>0, <1>1, <1>2, <2>1, <2>2 DEF ProgramOK
  <1>6. ASSUME NEW u \in Txs PROVE ProgressOK(u)'
    <2>1. CASE u = t
      <3>1. item'[t] = 1 /\ dto'[t] = d /\ pc'[t] \in {"line", "stock"}
        BY <1>0, <1>1, <1>2 DEF ProgramOK, ProgressOK
      <3>2. d.kind = "putaway" => d.lines[1].line \in PutLines /\ Len(d.lines) >= 1
        <4>1. d.kind = "putaway" => d.lines \in Seq(PutawayLine) /\ d.lines # <<>>
          BY DtoShape
        <4>2. d.kind = "putaway" => d.lines[1] \in PutawayLine /\ Len(d.lines) >= 1
          BY <4>1
        <4> QED BY <4>2 DEF PutawayLine
      <3>3. pc'[t] = "line" => Document(t)' # NoLine
        <4>1. d.kind \in {"stocktake", "state"} => d.line \in Docs
          BY DtoShape DEF StocktakeDto, StateDto, Docs
        <4> QED BY <1>0, <1>1, <3>1, <3>2, <4>1, ShapeAssumption
                DEF Document, Kind, ProgramOK, Docs
      <3>4. pc'[t] = "stock" => Kind(t)' \notin {"putaway", "state"}
        BY <1>0, <1>1, <3>1 DEF Kind, ProgramOK
      <3> QED BY <1>0, <1>2, <2>1, <3>1, <3>2, <3>3, <3>4 DEF ProgressOK, Kind
    <2>2. CASE u # t
      BY <1>0, <1>1, <1>2, <2>2 DEF ProgressOK, ProgramOK, Kind, Document
    <2> QED BY <2>1, <2>2
  <1>7. WritesOK'
    BY <1>0, <1>2 DEF WritesOK, writes
  <1> QED BY <1>3, <1>5, <1>6, <1>7 DEF TypeOK

LEMMA ReadLineType ==
  ASSUME TypeOK, NEW t \in Txs, ReadLine(t)
  PROVE  TypeOK'
  <1>0. TablesOK /\ ProgramOK /\ WritesOK /\ \A u \in Txs : ProgressOK(u)
    BY DEF TypeOK
  <1>1. Document(t) \in PutLines
    BY <1>0, DocumentType DEF ReadLine, ProgressOK
  <1>2. StagedIn(t, Document(t)) \in Bins /\ DockBin[Document(t)] \in Bins
    BY <1>1, ShapeAssumption DEF StagedIn
  <1>3. /\ LineRoute(t) \in [source : Bins \cup {NoBin}, target : Bins \cup {NoBin}]
        /\ LineRoute(t).source \in Bins
    <2>1. CASE Kind(t) = "putaway"
      BY <1>2, <2>1, PutawayLineType DEF LineRoute, PutawayLine
    <2>2. CASE Kind(t) # "putaway"
      <3>1. Kind(t) = "quarantine"
        BY <2>2 DEF ReadLine
      <3>2. dto[t] \in QuarantineDto
        BY <1>0, <3>1, DtoShape DEF ProgramOK, Kind
      <3> QED BY <1>2, <2>2, <3>2, ShapeAssumption DEF LineRoute, QuarantineDto
    <2> QED BY <2>1, <2>2
  <1>4. TablesOK'
    BY <1>0 DEF ReadLine, TablesOK, tables
  <1>5. ProgramOK'
    BY <1>0, <1>3 DEF ReadLine, Goto, ProgramOK, Active
  <1>6. ASSUME NEW u \in Txs PROVE ProgressOK(u)'
    <2>1. route'[t] = LineRoute(t) /\ pc'[t] = "stock"
      BY <1>0 DEF ReadLine, Goto, ProgramOK
    <2>2. LineRoute(t).source # NoBin
      BY <1>3, ShapeAssumption
    <2> HIDE DEF LineRoute
    <2> QED BY <1>0, <2>1, <2>2 DEF ReadLine, Goto, ProgressOK, ProgramOK, Kind, Document
  <1>7. WritesOK'
    BY <1>0 DEF ReadLine, WritesOK, writes
  <1> QED BY <1>4, <1>5, <1>6, <1>7 DEF TypeOK

LEMMA LockStocktakeType ==
  ASSUME TypeOK, NEW t \in Txs, LockStocktake(t)
  PROVE  TypeOK'
  <1> USE DEF Goto
  <1>0. TablesOK /\ ProgramOK /\ WritesOK /\ \A u \in Txs : ProgressOK(u)
    BY DEF TypeOK
  <1>1. Document(t) \in Docs
    BY <1>0, DocumentType DEF LockStocktake, ProgressOK
  <1>2. StatusAt(t, Document(t)) \in Statuses
    BY <1>1, StatusAtType
  <1>3. TablesOK'
    BY <1>0 DEF LockStocktake, TablesOK, tables
  <1>4. ProgramOK'
    BY <1>0 DEF LockStocktake, ProgramOK, program, Active
  <1>5. ASSUME NEW u \in Txs PROVE ProgressOK(u)'
    BY <1>0 DEF LockStocktake, ProgressOK, ProgramOK, program, Kind, Document
  <1>6. WritesOK'
    BY <1>0, <1>1, <1>2 DEF LockStocktake, WritesOK
  <1> QED BY <1>3, <1>4, <1>5, <1>6 DEF TypeOK

LEMMA ReadStocktakeType ==
  ASSUME TypeOK, NEW t \in Txs, ReadStocktake(t)
  PROVE  TypeOK'
  <1> USE DEF Goto
  <1>0. TablesOK /\ ProgramOK /\ WritesOK /\ \A u \in Txs : ProgressOK(u)
    BY DEF TypeOK
  <1>1. TablesOK'
    BY <1>0 DEF ReadStocktake, TablesOK, tables
  <1>2. ProgramOK'
    BY <1>0 DEF ReadStocktake, ProgramOK, program, Active
  <1>3. ASSUME NEW u \in Txs PROVE ProgressOK(u)'
    BY <1>0 DEF ReadStocktake, ProgressOK, ProgramOK, program, Kind, Document
  <1>4. WritesOK'
    BY <1>0 DEF ReadStocktake, WritesOK, writes
  <1> QED BY <1>1, <1>2, <1>3, <1>4 DEF TypeOK

LEMMA ReadStockType ==
  ASSUME TypeOK, NEW t \in Txs, ReadStock(t)
  PROVE  TypeOK'
  <1>0. TablesOK /\ ProgramOK /\ WritesOK /\ \A u \in Txs : ProgressOK(u)
    BY DEF TypeOK
  <1>1. PICK s \in Movements(t) :
          /\ legs' = [legs EXCEPT ![t] = s]
          /\ todo' = [todo EXCEPT ![t] =
                        {i \in DOMAIN s : Adjusts(t) => s[i].qty # 0}]
          /\ pc' = [pc EXCEPT ![t] = IF todo'[t] # {} THEN "header" ELSE AfterMovement(t)]
    BY DEF ReadStock, Goto
  <1>2. pc[t] = "stock" /\ UNCHANGED <<tables, dto, item, route, writes>>
    BY DEF ReadStock
  <1>3. s \in Seq(Leg)
    BY <1>2, MovementsType
  <1>4. todo'[t] \subseteq DOMAIN s /\ todo'[t] \subseteq Nat
    BY <1>0, <1>1, <1>3 DEF ProgramOK
  <1>5. TablesOK'
    BY <1>0, <1>2 DEF TablesOK, tables
  <1>6. ProgramOK'
    BY <1>0, <1>1, <1>2, <1>3, <1>4 DEF ProgramOK, Active, AfterMovement
  <1>7. ASSUME NEW u \in Txs PROVE ProgressOK(u)'
    <2>1. legs'[t] = s /\ pc'[t] = IF todo'[t] # {} THEN "header" ELSE AfterMovement(t)
      BY <1>0, <1>1 DEF ProgramOK
    <2> QED BY <1>0, <1>1, <1>2, <1>4, <2>1
            DEF ProgressOK, ProgramOK, Kind, Document, AfterMovement
  <1>8. WritesOK'
    BY <1>0, <1>2 DEF WritesOK, writes
  <1> QED BY <1>5, <1>6, <1>7, <1>8 DEF TypeOK

(* Statements that touch neither a table nor a quantity.                   *)
LEMMA HeaderAndCheckType ==
  ASSUME TypeOK, NEW t \in Txs, InsertHeader(t) \/ ValidateStock(t)
  PROVE  TypeOK'
  <1> USE DEF InsertHeader, ValidateStock, Goto, TypeOK
  <1>1. TablesOK'
    BY DEF TablesOK, tables
  <1>2. ProgramOK'
    BY DEF ProgramOK, program, Active
  <1>3. ASSUME NEW u \in Txs PROVE ProgressOK(u)'
    BY DEF ProgressOK, ProgramOK, program, Kind, Document
  <1>4. WritesOK'
    <2>1. headers' \in [Txs -> SUBSET DocNumbers]
      <3>1. EntryKey(t) \subseteq DocNumbers
        <4>1. CASE Kind(t) \in {"putaway", "stocktake"}
          <5>1. Document(t) # NoLine
            BY <4>1, DocumentNamed
          <5>2. Document(t) \in Docs
            BY <5>1, DocumentType
          <5> QED BY <4>1, <5>2 DEF EntryKey, DocNumbers
        <4>2. CASE Kind(t) \notin {"putaway", "stocktake"}
          BY <4>2 DEF EntryKey
        <4> QED BY <4>1, <4>2
      <3>2. \/ headers' = headers
            \/ headers' = [headers EXCEPT ![t] = headers[t] \cup EntryKey(t)]
        BY DEF writes
      <3>3. headers \in [Txs -> SUBSET DocNumbers]
        BY DEF WritesOK
      <3> QED BY <3>1, <3>2, <3>3
    <2> QED BY <2>1 DEF WritesOK, writes
  <1> QED BY <1>1, <1>2, <1>3, <1>4

LEMMA UpsertType ==
  ASSUME TypeOK, NEW t \in Txs, Upsert(t)
  PROVE  TypeOK'
  <1>0. TablesOK /\ ProgramOK /\ WritesOK /\ \A u \in Txs : ProgressOK(u)
    BY DEF TypeOK
  <1> DEFINE r == NextRow(t)
             q == UpsertedQty(t)
             d == legs[t][NextLeg(t)].qty
  <1>1. pc[t] = "upsert"
    BY DEF Upsert
  <1>2. r \in Rows /\ d \in Int /\ q \in Int
    BY <1>1, NextLegType, QtyAtType DEF UpsertedQty
  <1>3. /\ mine' = [mine EXCEPT ![t][r] = q]
        /\ posted' = [posted EXCEPT ![t][r] = @ + d]
        /\ holds' = [holds EXCEPT ![t] = @ \cup {r}]
        /\ todo' = [todo EXCEPT ![t] = @ \ {NextLeg(t)}]
        /\ IF todo'[t] # {} THEN UNCHANGED pc
           ELSE pc' = [pc EXCEPT ![t] = IF Document(t) = NoLine THEN "commit" ELSE "mark"]
        /\ UNCHANGED <<tables, dto, item, route, legs, headers, marks>>
    BY DEF Upsert, Goto, AfterMovement
  <1> HIDE DEF r, q, d
  <1>4. TablesOK'
    BY <1>0, <1>3 DEF TablesOK, tables
  <1>5. ProgramOK'
    <2>1. pc' \in [Txs -> {"idle"} \cup Active \cup Ended]
      BY <1>0, <1>3 DEF ProgramOK, Active
    <2>2. todo' \in [Txs -> SUBSET Nat]
      BY <1>0, <1>3 DEF ProgramOK
    <2> QED BY <1>0, <1>3, <2>1, <2>2 DEF ProgramOK
  <1>6. ASSUME NEW u \in Txs PROVE ProgressOK(u)'
    <2>1. CASE u = t
      BY <1>0, <1>1, <1>3, <2>1 DEF ProgressOK, ProgramOK, Kind, Document
    <2>2. CASE u # t
      BY <1>0, <1>3, <2>2 DEF ProgressOK, ProgramOK, Kind, Document
    <2> QED BY <2>1, <2>2
  <1>7. WritesOK'
    BY <1>0, <1>2, <1>3 DEF WritesOK
  <1> QED BY <1>4, <1>5, <1>6, <1>7 DEF TypeOK

LEMMA MarkLineType ==
  ASSUME TypeOK, NEW t \in Txs, MarkLine(t)
  PROVE  TypeOK'
  <1>0. TablesOK /\ ProgramOK /\ WritesOK /\ \A u \in Txs : ProgressOK(u)
    BY DEF TypeOK
  <1>1. NewStatus(t) \in Statuses
    <2>1. Kind(t) = "state" => dto[t].to \in StocktakeStates
      BY <1>0, DtoShape DEF ProgramOK, Kind, StateDto
    <2> QED BY <2>1 DEF NewStatus, Statuses, StocktakeStates
  <1>2. TablesOK'
    BY <1>0 DEF MarkLine, TablesOK, tables
  <1>3. ProgramOK'
    <2>1. pc' \in [Txs -> {"idle"} \cup Active \cup Ended]
      BY <1>0 DEF MarkLine, Goto, ProgramOK, Active
    <2>2. item' \in [Txs -> Nat \ {0}]
      <3>1. item \in [Txs -> Nat \ {0}] /\ item[t] + 1 \in Nat \ {0}
        BY <1>0 DEF ProgramOK
      <3>2. item' = item \/ item' = [item EXCEPT ![t] = item[t] + 1]
        BY DEF MarkLine
      <3> QED BY <3>1, <3>2
    <2> QED BY <1>0, <2>1, <2>2 DEF MarkLine, ProgramOK
  <1>4. ASSUME NEW u \in Txs PROVE ProgressOK(u)'
    <2>1. CASE u = t
      <3>1. CASE Kind(t) = "putaway" /\ item[t] < Len(dto[t].lines)
        <4>1. pc'[t] = "line" /\ item'[t] = item[t] + 1 /\ item[t] \in Nat \ {0}
          BY <1>0, <3>1 DEF MarkLine, Goto, ProgramOK
        <4>2. dto[t].lines \in Seq(PutawayLine)
          BY <1>0, <3>1, DtoShape DEF ProgramOK, Kind
        <4>3. item'[t] \in 1..Len(dto[t].lines)
          BY <3>1, <4>1, <4>2
        <4>4. dto[t].lines[item'[t]] \in PutawayLine
          BY <4>2, <4>3
        <4>5. UNCHANGED <<dto, legs, todo>>
          BY DEF MarkLine
        <4>6. Document(t)' # NoLine
          BY <3>1, <4>4, <4>5, ShapeAssumption DEF Document, Kind, PutawayLine, Docs
        <4>7. todo[t] = {}
          BY <1>0 DEF MarkLine, ProgressOK
        <4> QED BY <2>1, <4>1, <4>2, <4>3, <4>5, <4>6, <4>7 DEF ProgressOK, Kind
      <3>2. CASE ~(Kind(t) = "putaway" /\ item[t] < Len(dto[t].lines))
        BY <1>0, <2>1, <3>2 DEF MarkLine, Goto, ProgressOK, ProgramOK, Kind, Document
      <3> QED BY <3>1, <3>2
    <2>2. CASE u # t
      <3>1. pc'[u] = pc[u] /\ item'[u] = item[u] /\ UNCHANGED <<dto, route, legs, todo>>
        BY <1>0, <2>2 DEF MarkLine, Goto, ProgramOK
      <3> QED BY <1>0, <3>1 DEF ProgressOK, Kind, Document
    <2> QED BY <2>1, <2>2
  <1>5. WritesOK'
    BY <1>0, <1>1 DEF MarkLine, WritesOK
  <1> QED BY <1>2, <1>3, <1>4, <1>5 DEF TypeOK

LEMMA CommitType ==
  ASSUME TypeOK, NEW t \in Txs, Commit(t)
  PROVE  TypeOK'
  <1>0. TablesOK /\ ProgramOK /\ WritesOK /\ \A u \in Txs : ProgressOK(u)
    BY DEF TypeOK
  <1>1. TablesOK'
    BY <1>0, QtyAtType, StatusAtType DEF Commit, TablesOK, WritesOK
  <1>2. ProgramOK'
    BY <1>0 DEF Commit, Goto, ProgramOK, Ended, NoRoute
  <1>3. ASSUME NEW u \in Txs PROVE ProgressOK(u)'
    <2>1. CASE u = t
      <3>1. todo[t] = {}
        BY <1>0 DEF Commit, ProgressOK
      <3> QED BY <1>0, <2>1, <3>1 DEF Commit, Goto, ProgressOK, ProgramOK, Kind, Document
    <2>2. CASE u # t
      <3>1. pc'[u] = pc[u] /\ route'[u] = route[u] /\ legs'[u] = legs[u]
            /\ UNCHANGED <<dto, item, todo>>
        BY <1>0, <2>2 DEF Commit, Goto, ProgramOK
      <3> QED BY <1>0, <3>1 DEF ProgressOK, Kind, Document
    <2> QED BY <2>1, <2>2
  <1>4. WritesOK'
    BY <1>0 DEF Commit, WritesOK
  <1> QED BY <1>1, <1>2, <1>3, <1>4 DEF TypeOK

(* Every step keeps the types.                                             *)
LEMMA NextType ==
  ASSUME TypeOK, [Next]_vars
  PROVE  TypeOK'
  <1>1. CASE Next
    <2> PICK t \in Txs : Begin(t) \/ Step(t) \/ ResolveDeadlock(t) \/ Lose(t)
      BY <1>1 DEF Next
    <2>1. ASSUME NEW why \in Ended, Abort(t, why) PROVE TypeOK'
      BY <2>1, AbortType
    <2>2. CASE DuplicateHeader(t) \/ Refuse(t) \/ ResolveDeadlock(t) \/ Lose(t)
      BY <2>1, <2>2 DEF DuplicateHeader, Refuse, ResolveDeadlock, Lose, Ended
    <2> QED BY <2>2, BeginType, ReadLineType, LockStocktakeType, ReadStocktakeType,
               ReadStockType, HeaderAndCheckType, UpsertType, MarkLineType, CommitType
            DEF Step
  <1>2. CASE UNCHANGED vars
    BY <1>2 DEF TypeOK, TablesOK, ProgramOK, ProgressOK, WritesOK, Kind, Document,
                vars, tables, program, writes
  <1> QED BY <1>1, <1>2

(* Type correctness: whatever requests interleave, fail or wait.           *)
THEOREM Typing == Spec => []TypeOK
  <1>1. TypeOK /\ [Next]_vars => TypeOK'
    BY NextType
  <1> QED BY <1>1, InitType, PTL DEF Spec

(***************************************************************************)
(* The cache and the ledger.  CacheIsLedger alone is not inductive: a      *)
(* commit installs quantities computed when the rows were written, and     *)
(* WritesAreLocked says that nobody has moved the committed ones since.    *)
(***************************************************************************)
CacheInv == TypeOK /\ WritesAreLocked /\ CacheIsLedger

LEMMA InitCache == Init => CacheInv
  BY InitType DEF CacheInv, Init, WritesAreLocked, CacheIsLedger

LEMMA AbortCache ==
  ASSUME CacheInv, NEW t \in Txs, NEW why \in Ended, Abort(t, why)
  PROVE  WritesAreLocked' /\ CacheIsLedger'
  <1> USE DEF CacheInv, TypeOK, WritesOK
  <1>1. CacheIsLedger'
    BY DEF Abort, tables, CacheIsLedger
  <1>2. \A u, v \in Txs : u # v => holds'[u] \cap holds'[v] = {}
    BY DEF Abort, WritesAreLocked
  <1>3. ASSUME NEW u \in Txs, NEW r \in Rows
        PROVE  /\ r \in holds'[u] => mine'[u][r] = actual'[r] + posted'[u][r]
               /\ r \notin holds'[u] => posted'[u][r] = 0
    BY DEF Abort, tables, WritesAreLocked
  <1> QED BY <1>1, <1>2, <1>3 DEF WritesAreLocked

LEMMA UpsertCache ==
  ASSUME CacheInv, NEW t \in Txs, Upsert(t)
  PROVE  WritesAreLocked' /\ CacheIsLedger'
  <1>0. TablesOK /\ WritesOK /\ WritesAreLocked /\ CacheIsLedger
    BY DEF CacheInv, TypeOK
  <1> DEFINE r == NextRow(t)
             d == legs[t][NextLeg(t)].qty
  <1>1. r \in Rows /\ d \in Int
    BY NextLegType DEF CacheInv, Upsert
  <1>2. /\ mine' = [mine EXCEPT ![t][r] = QtyAt(t, r) + d]
        /\ posted' = [posted EXCEPT ![t][r] = @ + d]
        /\ holds' = [holds EXCEPT ![t] = @ \cup {r}]
        /\ UNCHANGED <<actual, ledger>>
    BY DEF Upsert, UpsertedQty, tables
  <1>3. \A u \in Txs \ {t} : r \notin holds[u]
    BY DEF Upsert, RowBlockers
  <1>4. QtyAt(t, r) = actual[r] + posted[t][r]
    BY <1>0, <1>1 DEF QtyAt, WritesAreLocked, TablesOK, WritesOK
  <1> HIDE DEF r, d
  <1>5. CacheIsLedger'
    BY <1>0, <1>2 DEF CacheIsLedger
  <1>6. \A u, v \in Txs : u # v => holds'[u] \cap holds'[v] = {}
    BY <1>0, <1>2, <1>3 DEF WritesAreLocked, WritesOK
  <1>7. ASSUME NEW u \in Txs, NEW x \in Rows
        PROVE  /\ x \in holds'[u] => mine'[u][x] = actual'[x] + posted'[u][x]
               /\ x \notin holds'[u] => posted'[u][x] = 0
    <2>1. CASE u = t /\ x = r
      BY <1>0, <1>1, <1>2, <1>4, <2>1 DEF TablesOK, WritesOK
    <2>2. CASE u # t \/ x # r
      BY <1>0, <1>1, <1>2, <2>2 DEF WritesAreLocked, WritesOK
    <2> QED BY <2>1, <2>2
  <1> QED BY <1>5, <1>6, <1>7 DEF WritesAreLocked

LEMMA CommitCache ==
  ASSUME CacheInv, NEW t \in Txs, Commit(t)
  PROVE  WritesAreLocked' /\ CacheIsLedger'
  <1>0. TablesOK /\ WritesOK /\ WritesAreLocked /\ CacheIsLedger
    BY DEF CacheInv, TypeOK
  <1>1. \A r \in Rows : actual'[r] = QtyAt(t, r)
    BY DEF Commit
  <1>2. \A r \in Rows : QtyAt(t, r) = actual[r] + posted[t][r]
    BY <1>0 DEF QtyAt, WritesAreLocked, TablesOK, WritesOK
  <1>3. CacheIsLedger'
    BY <1>0, <1>1, <1>2 DEF Commit, CacheIsLedger
  <1>4. \A u, v \in Txs : u # v => holds'[u] \cap holds'[v] = {}
    BY <1>0 DEF Commit, WritesAreLocked, WritesOK
  <1>5. ASSUME NEW u \in Txs, NEW r \in Rows
        PROVE  /\ r \in holds'[u] => mine'[u][r] = actual'[r] + posted'[u][r]
               /\ r \notin holds'[u] => posted'[u][r] = 0
    <2>1. CASE u = t
      BY <1>0, <2>1 DEF Commit, WritesOK
    <2>2. CASE u # t
      <3>1. holds'[u] = holds[u] /\ mine'[u] = mine[u] /\ posted'[u] = posted[u]
        BY <1>0, <2>2 DEF Commit, WritesOK
      <3>2. r \in holds[u] => actual'[r] = actual[r]
        BY <1>0, <1>1, <2>2 DEF QtyAt, WritesAreLocked
      <3> QED BY <1>0, <3>1, <3>2 DEF WritesAreLocked
    <2> QED BY <2>1, <2>2
  <1> QED BY <1>3, <1>4, <1>5 DEF WritesAreLocked

(* The statements that write no stock.                                     *)
LEMMA OtherCache ==
  ASSUME CacheInv, UNCHANGED <<actual, ledger, holds, mine, posted>>
  PROVE  WritesAreLocked' /\ CacheIsLedger'
  BY DEF CacheInv, WritesAreLocked, CacheIsLedger

LEMMA NextCache ==
  ASSUME CacheInv, [Next]_vars
  PROVE  CacheInv'
  <1>1. TypeOK'
    BY NextType DEF CacheInv
  <1>2. CASE Next
    <2> PICK t \in Txs : Begin(t) \/ Step(t) \/ ResolveDeadlock(t) \/ Lose(t)
      BY <1>2 DEF Next
    <2>1. CASE DuplicateHeader(t) \/ Refuse(t) \/ ResolveDeadlock(t) \/ Lose(t)
      BY <1>1, <2>1, AbortCache
      DEF DuplicateHeader, Refuse, ResolveDeadlock, Lose, Ended, CacheInv
    <2>2. CASE \/ Begin(t) \/ ReadLine(t) \/ LockStocktake(t) \/ ReadStocktake(t)
               \/ ReadStock(t) \/ InsertHeader(t) \/ ValidateStock(t) \/ MarkLine(t)
      BY <1>1, <2>2, OtherCache
      DEF Begin, ReadLine, LockStocktake, ReadStocktake, ReadStock, InsertHeader,
          ValidateStock, MarkLine, tables, writes, CacheInv
    <2> QED BY <1>1, <2>1, <2>2, UpsertCache, CommitCache DEF Step, CacheInv
  <1>3. CASE UNCHANGED vars
    BY <1>1, <1>3, OtherCache DEF vars, tables, writes, CacheInv
  <1> QED BY <1>2, <1>3

(* A row with uncommitted stock is locked by one transaction, and its      *)
(* uncommitted quantity is the committed one plus that transaction's       *)
(* ledger lines.                                                           *)
THEOREM Locking == Spec => []WritesAreLocked
  <1>1. CacheInv /\ [Next]_vars => CacheInv'
    BY NextCache
  <1>2. CacheInv => WritesAreLocked
    BY DEF CacheInv
  <1> QED BY <1>1, <1>2, InitCache, PTL DEF Spec

(* The cache bin_contents always agrees with the sum of the ledger.        *)
THEOREM CacheAgrees == Spec => []CacheIsLedger
  <1>1. CacheInv /\ [Next]_vars => CacheInv'
    BY NextCache
  <1>2. CacheInv => CacheIsLedger
    BY DEF CacheInv
  <1> QED BY <1>1, <1>2, InitCache, PTL DEF Spec

(***************************************************************************)
(* A receipt line reaches stock once.  What guarantees it is the unique    *)
(* document number: a putaway that is past its header for a line owns the  *)
(* line's number, and the number of a committed putaway is in the table.   *)
(***************************************************************************)
LineAt(t, i) == dto[t].lines[i].line
NumberAt(t, i) == DocNumber[LineAt(t, i)]

(* The lines of a bulk putaway whose document header is inserted.          *)
Entered(t) ==
  IF Kind(t) # "putaway" \/ pc[t] \notin Active THEN {}
  ELSE {i \in DOMAIN dto[t].lines :
          i < item[t] \/ (i = item[t] /\ pc[t] \notin {"line", "stock", "header"})}

Confirmed(t) ==
  IF Kind(t) = "putaway" /\ pc[t] = "done" THEN DOMAIN dto[t].lines ELSE {}

NumbersUnique ==
  /\ \A t, u \in Txs : t # u => headers[t] \cap headers[u] = {}
  /\ \A t \in Txs : headers[t] \cap entryNumbers = {}

EnteredOwned(t) ==
  /\ \A i \in Entered(t) : NumberAt(t, i) \in headers[t]
  /\ \A i, j \in Entered(t) : NumberAt(t, i) = NumberAt(t, j) => i = j
  /\ pc[t] = "commit" /\ Kind(t) = "putaway" => item[t] = Len(dto[t].lines)

ConfirmedRecorded ==
  /\ \A t \in Txs : \A i \in Confirmed(t) : NumberAt(t, i) \in entryNumbers
  /\ \A t, u \in Txs : \A i \in Confirmed(t), j \in Confirmed(u) :
       NumberAt(t, i) = NumberAt(u, j) => t = u /\ i = j

HeaderInv ==
  TypeOK /\ NumbersUnique /\ (\A t \in Txs : EnteredOwned(t)) /\ ConfirmedRecorded

(* A transaction whose program does not move keeps its part.               *)
LEMMA SameProgram ==
  ASSUME NEW u \in Txs, pc'[u] = pc[u], dto'[u] = dto[u], item'[u] = item[u]
  PROVE  /\ Entered(u)' = Entered(u) /\ Confirmed(u)' = Confirmed(u)
         /\ \A i : NumberAt(u, i)' = NumberAt(u, i)
         /\ Kind(u)' = Kind(u)
  BY DEF Entered, Confirmed, NumberAt, LineAt, Kind

(* A step that inserts no number and commits none.                         *)
LEMMA FrameHeaders ==
  ASSUME HeaderInv, TypeOK', entryNumbers' = entryNumbers, NEW t \in Txs,
         \A u \in Txs \ {t} : pc'[u] = pc[u] /\ dto'[u] = dto[u] /\ item'[u] = item[u]
                              /\ headers'[u] = headers[u],
         headers'[t] \subseteq headers[t],
         Entered(t)' # {} => headers'[t] = headers[t],
         Entered(t)' \subseteq Entered(t), Confirmed(t)' = {},
         \A i \in Entered(t)' : NumberAt(t, i)' = NumberAt(t, i),
         pc'[t] = "commit" /\ Kind(t)' = "putaway" => item'[t] = Len(dto'[t].lines)
  PROVE  HeaderInv'
  <1>0. NumbersUnique /\ ConfirmedRecorded /\ \A u \in Txs : EnteredOwned(u)
    BY DEF HeaderInv
  <1>1. \A u \in Txs : headers'[u] \subseteq headers[u]
    OBVIOUS
  <1>2. NumbersUnique'
    BY <1>0, <1>1 DEF NumbersUnique
  <1>3. ASSUME NEW u \in Txs PROVE EnteredOwned(u)'
    <2>1. CASE u = t
      BY <1>0, <2>1 DEF EnteredOwned
    <2>2. CASE u # t
      BY <1>0, <2>2, SameProgram DEF EnteredOwned
    <2> QED BY <2>1, <2>2
  <1>4. \A u \in Txs : /\ Confirmed(u)' \subseteq Confirmed(u)
                       /\ \A i \in Confirmed(u)' : NumberAt(u, i)' = NumberAt(u, i)
    BY SameProgram
  <1>5. ConfirmedRecorded'
    BY <1>0, <1>4 DEF ConfirmedRecorded
  <1> QED BY <1>2, <1>3, <1>5 DEF HeaderInv

LEMMA InitHeader == Init => HeaderInv
  BY InitType DEF HeaderInv, Init, NumbersUnique, EnteredOwned, ConfirmedRecorded,
                  Entered, Confirmed, Active

LEMMA AbortHeader ==
  ASSUME HeaderInv, TypeOK', NEW t \in Txs, NEW why \in Ended \ {"done"}, Abort(t, why)
  PROVE  HeaderInv'
  <1> USE DEF HeaderInv, TypeOK, ProgramOK
  <1>1. /\ pc'[t] = why /\ headers'[t] \subseteq headers[t]
        /\ entryNumbers' = entryNumbers
    BY DEF Abort, Goto, tables, NumbersUnique
  <1>2. \A u \in Txs \ {t} : pc'[u] = pc[u] /\ dto'[u] = dto[u] /\ item'[u] = item[u]
                              /\ headers'[u] = headers[u]
    BY DEF Abort, Goto
  <1>3. Entered(t)' = {} /\ Confirmed(t)' = {} /\ pc'[t] # "commit"
    BY <1>1 DEF Entered, Confirmed, Active, Ended
  <1> QED BY <1>1, <1>2, <1>3, FrameHeaders

LEMMA BeginHeader ==
  ASSUME HeaderInv, TypeOK', NEW t \in Txs, Begin(t)
  PROVE  HeaderInv'
  <1> USE DEF HeaderInv, TypeOK, ProgramOK
  <1>1. /\ pc'[t] \in {"line", "stock"} /\ item'[t] = 1
        /\ headers' = headers /\ entryNumbers' = entryNumbers
    BY DEF Begin, Goto, tables, writes, ProgressOK
  <1>2. \A u \in Txs \ {t} : pc'[u] = pc[u] /\ dto'[u] = dto[u] /\ item'[u] = item[u]
    BY DEF Begin, Goto
  <1>3. Confirmed(t)' = {}
    BY <1>1 DEF Confirmed
  <1>4. Entered(t)' = {}
    <2>1. CASE Kind(t)' # "putaway"
      BY <2>1 DEF Entered
    <2>2. CASE Kind(t)' = "putaway"
      <3>1. dto'[t].lines \in Seq(PutawayLine)
        BY <2>2, DtoShape DEF Kind
      <3>2. DOMAIN dto'[t].lines \subseteq Nat \ {0}
        BY <3>1
      <3> QED BY <1>1, <3>2 DEF Entered
    <2> QED BY <2>1, <2>2
  <1> QED BY <1>1, <1>2, <1>3, <1>4, FrameHeaders

(* Statements between the header and the commit, and before the header.    *)
LEMMA QuietHeader ==
  ASSUME HeaderInv, TypeOK', NEW t \in Txs,
         \/ ReadLine(t) \/ LockStocktake(t) \/ ReadStocktake(t) \/ ReadStock(t)
         \/ ValidateStock(t) \/ Upsert(t)
  PROVE  HeaderInv'
  <1> USE DEF HeaderInv, TypeOK, ProgramOK
  <1>1. UNCHANGED <<dto, item, headers, entryNumbers>>
    BY DEF ReadLine, LockStocktake, ReadStocktake, ReadStock, ValidateStock, Upsert,
           tables, writes, program
  <1>2. /\ pc[t] \in {"line", "stock", "check", "upsert"}
        /\ pc[t] \in {"line", "stock"} => pc'[t] \in {"stock", "header", "mark", "commit"}
        /\ pc[t] \in {"check", "upsert"} => pc'[t] \in {"upsert", "mark", "commit"}
    BY DEF ReadLine, LockStocktake, ReadStocktake, ReadStock, ValidateStock, Upsert, Goto,
           AfterMovement
  <1>3. \A u \in Txs \ {t} : pc'[u] = pc[u]
    BY DEF ReadLine, LockStocktake, ReadStocktake, ReadStock, ValidateStock, Upsert, Goto
  <1>4. Kind(t) = "putaway" =>
          pc'[t] # "commit" /\ (pc[t] \in {"line", "stock"} => pc'[t] # "mark")
    <2> SUFFICES ASSUME Kind(t) = "putaway"
                 PROVE  pc'[t] # "commit" /\ (pc[t] \in {"line", "stock"} => pc'[t] # "mark")
      OBVIOUS
    <2>1. CASE ReadStock(t)
      <3>1. PICK s \in Movements(t) :
              /\ todo' = [todo EXCEPT ![t] =
                            {i \in DOMAIN s : Adjusts(t) => s[i].qty # 0}]
              /\ pc' = [pc EXCEPT ![t] = IF todo'[t] # {} THEN "header"
                                         ELSE AfterMovement(t)]
        BY <2>1 DEF ReadStock, Goto
      <3>2. todo'[t] = DOMAIN s
        BY <3>1 DEF Adjusts
      <3>3. DOMAIN s # {}
        BY <2>1, MovementsType DEF ReadStock, Adjusts
      <3> QED BY <3>1, <3>2, <3>3
    <2>2. CASE Upsert(t)
      <3>1. Document(t) # NoLine
        BY DocumentNamed
      <3> QED BY <2>2, <3>1 DEF Upsert, Goto, AfterMovement
    <2>3. CASE ReadLine(t) \/ LockStocktake(t) \/ ReadStocktake(t) \/ ValidateStock(t)
      BY <2>3 DEF ReadLine, LockStocktake, ReadStocktake, ValidateStock, Goto
    <2> QED BY <2>1, <2>2, <2>3
  <1>5. Confirmed(t)' = {}
    BY <1>2 DEF Confirmed
  <1>6. Entered(t)' \subseteq Entered(t) /\ Kind(t)' = Kind(t)
    BY <1>1, <1>2, <1>4 DEF Entered, Kind, Active
  <1>7. \A i : NumberAt(t, i)' = NumberAt(t, i)
    BY <1>1 DEF NumberAt, LineAt
  <1> QED BY <1>1, <1>3, <1>4, <1>5, <1>6, <1>7, FrameHeaders

LEMMA InsertHeaderOwned ==
  ASSUME HeaderInv, TypeOK', NEW t \in Txs, InsertHeader(t)
  PROVE  HeaderInv'
  <1> USE DEF HeaderInv, TypeOK, ProgramOK
  <1>1. /\ pc[t] = "header" /\ pc'[t] = "check"
        /\ headers'[t] \subseteq headers[t] \cup EntryKey(t)
        /\ UNCHANGED <<dto, item, entryNumbers>>
    BY DEF InsertHeader, Goto, tables, program, NumbersUnique
  <1>2. \A u \in Txs \ {t} : pc'[u] = pc[u] /\ dto'[u] = dto[u] /\ item'[u] = item[u]
                              /\ headers'[u] = headers[u]
    BY <1>1 DEF InsertHeader, Goto
  <1>3. /\ \A u \in Txs \ {t} : EntryKey(t) \cap headers[u] = {}
        /\ EntryKey(t) \cap (entryNumbers \cup headers[t]) = {}
    BY DEF InsertHeader, HeaderBlockers, HeaderTaken
  <1>4. NumbersUnique'
    BY <1>1, <1>2, <1>3 DEF NumbersUnique
  <1>5. ASSUME NEW u \in Txs PROVE EnteredOwned(u)'
    <2>1. CASE u # t
      <3>1. /\ Entered(u)' = Entered(u) /\ Kind(u)' = Kind(u)
            /\ \A i : NumberAt(u, i)' = NumberAt(u, i)
        BY <1>2, <2>1, SameProgram
      <3>2. EnteredOwned(u)
        OBVIOUS
      <3>3. pc'[u] = pc[u] /\ headers'[u] = headers[u] /\ item'[u] = item[u] /\ dto'[u] = dto[u]
        BY <1>2, <2>1
      <3> QED BY <3>1, <3>2, <3>3 DEF EnteredOwned
    <2>2. CASE u = t /\ Kind(t) # "putaway"
      <3>1. Entered(t)' = {} /\ pc'[t] # "commit"
        BY <1>1, <2>2 DEF Entered, Kind
      <3> QED BY <2>2, <3>1 DEF EnteredOwned
    <2>3. CASE u = t /\ Kind(t) = "putaway"
      <3>1. EntryKey(t) = {NumberAt(t, item[t])}
        BY <2>3 DEF EntryKey, Document, NumberAt, LineAt
      <3>2. Entered(t)' \subseteq Entered(t) \cup {item[t]}
        BY <1>1, <2>3 DEF Entered, Kind, Active
      <3>3. \A i : NumberAt(t, i)' = NumberAt(t, i)
        BY <1>1 DEF NumberAt, LineAt
      <3>4. headers'[t] = headers[t] \cup EntryKey(t)
        BY DEF InsertHeader, WritesOK
      <3>5. \A i \in Entered(t)' : NumberAt(t, i) \in headers'[t]
        BY <3>1, <3>2, <3>4 DEF EnteredOwned
      <3>6. \A i \in Entered(t) : NumberAt(t, i) # NumberAt(t, item[t])
        BY <1>3, <3>1 DEF EnteredOwned
      <3>7. \A i, j \in Entered(t)' : NumberAt(t, i) = NumberAt(t, j) => i = j
        BY <3>2, <3>6 DEF EnteredOwned
      <3> QED BY <1>1, <2>3, <3>3, <3>5, <3>7 DEF EnteredOwned
    <2> QED BY <2>1, <2>2, <2>3
  <1>6. \A u \in Txs : /\ Confirmed(u)' \subseteq Confirmed(u)
                       /\ \A i \in Confirmed(u)' : NumberAt(u, i)' = NumberAt(u, i)
    <2>1. Confirmed(t)' = {}
      BY <1>1 DEF Confirmed
    <2> QED BY <1>2, <2>1, SameProgram
  <1>7. ConfirmedRecorded'
    BY <1>1, <1>6 DEF ConfirmedRecorded
  <1> QED BY <1>4, <1>5, <1>7

LEMMA MarkHeader ==
  ASSUME HeaderInv, TypeOK', NEW t \in Txs, MarkLine(t)
  PROVE  HeaderInv'
  <1> USE DEF HeaderInv, TypeOK, ProgramOK
  <1>1. pc[t] = "mark" /\ UNCHANGED <<dto, headers, entryNumbers>>
    BY DEF MarkLine, tables
  <1>2. \A u \in Txs \ {t} : pc'[u] = pc[u] /\ item'[u] = item[u]
    BY DEF MarkLine, Goto
  <1>3. \/ pc'[t] = "line" /\ item'[t] = item[t] + 1
        \/ /\ pc'[t] = "commit" /\ item'[t] = item[t]
           /\ ~(Kind(t) = "putaway" /\ item[t] < Len(dto[t].lines))
    BY DEF MarkLine, Goto
  <1>4. Confirmed(t)' = {}
    BY <1>3 DEF Confirmed
  <1>5. Entered(t)' \subseteq Entered(t)
    <2>1. CASE Kind(t) # "putaway"
      BY <1>1, <2>1 DEF Entered, Kind
    <2>2. CASE Kind(t) = "putaway"
      <3>1. dto[t].lines \in Seq(PutawayLine)
        BY <2>2, DtoShape DEF Kind
      <3>2. DOMAIN dto[t].lines \subseteq Nat /\ item[t] \in Nat
        BY <3>1
      <3> QED BY <1>1, <1>3, <2>2, <3>2 DEF Entered, Kind, Active
    <2> QED BY <2>1, <2>2
  <1>6. Kind(t) = "putaway" /\ pc'[t] = "commit" => item'[t] = Len(dto[t].lines)
    <2> SUFFICES ASSUME Kind(t) = "putaway", pc'[t] = "commit"
                 PROVE  item'[t] = Len(dto[t].lines)
      OBVIOUS
    <2>1. dto[t].lines \in Seq(PutawayLine)
      BY DtoShape DEF Kind
    <2>2. item[t] \in Nat /\ Len(dto[t].lines) \in Nat /\ item[t] <= Len(dto[t].lines)
      BY <2>1 DEF ProgressOK
    <2> QED BY <1>3, <2>2
  <1>7. \A i : NumberAt(t, i)' = NumberAt(t, i)
    BY <1>1 DEF NumberAt, LineAt
  <1>8. Kind(t)' = Kind(t)
    BY <1>1 DEF Kind
  <1> QED BY <1>1, <1>2, <1>4, <1>5, <1>6, <1>7, <1>8, FrameHeaders

LEMMA CommitHeader ==
  ASSUME HeaderInv, TypeOK', NEW t \in Txs, Commit(t)
  PROVE  HeaderInv'
  <1> USE DEF HeaderInv, TypeOK, ProgramOK
  <1>1. /\ pc[t] = "commit" /\ pc'[t] = "done"
        /\ entryNumbers' = entryNumbers \cup headers[t]
        /\ UNCHANGED <<dto, item>>
    BY DEF Commit, Goto
  <1>2. \A u \in Txs \ {t} : pc'[u] = pc[u] /\ headers'[u] = headers[u]
    BY DEF Commit, Goto
  <1>3. headers'[t] = {}
    BY DEF Commit, WritesOK
  <1>4. NumbersUnique'
    BY <1>1, <1>2, <1>3 DEF NumbersUnique
  <1>5. ASSUME NEW u \in Txs PROVE EnteredOwned(u)'
    <2>1. CASE u # t
      <3>1. /\ Entered(u)' = Entered(u) /\ Kind(u)' = Kind(u)
            /\ \A i : NumberAt(u, i)' = NumberAt(u, i)
        BY <1>1, <1>2, <2>1, SameProgram
      <3>2. EnteredOwned(u)
        OBVIOUS
      <3>3. pc'[u] = pc[u] /\ headers'[u] = headers[u] /\ item'[u] = item[u] /\ dto'[u] = dto[u]
        BY <1>1, <1>2, <2>1
      <3> QED BY <3>1, <3>2, <3>3 DEF EnteredOwned
    <2>2. CASE u = t
      <3>1. Entered(t)' = {} /\ pc'[t] # "commit"
        BY <1>1 DEF Entered, Active
      <3> QED BY <2>2, <3>1 DEF EnteredOwned
    <2> QED BY <2>1, <2>2
  <1>6. \A u \in Txs : \A i : NumberAt(u, i)' = NumberAt(u, i)
    BY <1>1 DEF NumberAt, LineAt
  <1>7. \A u \in Txs \ {t} : Confirmed(u)' = Confirmed(u)
    BY <1>1, <1>2, SameProgram
  <1>8. Confirmed(t)' \subseteq Entered(t)
    <2>1. CASE Kind(t) # "putaway"
      BY <1>1, <2>1 DEF Confirmed, Kind
    <2>2. CASE Kind(t) = "putaway"
      <3>1. dto[t].lines \in Seq(PutawayLine)
        BY <2>2, DtoShape DEF Kind
      <3>2. item[t] = Len(dto[t].lines)
        BY <1>1, <2>2 DEF EnteredOwned
      <3>3. \A i \in DOMAIN dto[t].lines : i < item[t] \/ i = item[t]
        BY <3>1, <3>2
      <3> QED BY <1>1, <2>2, <3>3 DEF Confirmed, Entered, Kind, Active
    <2> QED BY <2>1, <2>2
  (* What the transaction adds was its own, and was not in the table.      *)
  <1>9. ConfirmedRecorded'
    <2>1. \A u \in Txs : \A i \in Confirmed(u)' : NumberAt(u, i) \in entryNumbers'
      <3>1. \A i \in Confirmed(t)' : NumberAt(t, i) \in headers[t]
        BY <1>8 DEF EnteredOwned
      <3>2. \A u \in Txs \ {t} : \A i \in Confirmed(u)' : NumberAt(u, i) \in entryNumbers
        BY <1>7 DEF ConfirmedRecorded
      <3> QED BY <1>1, <3>1, <3>2
    <2>2. ASSUME NEW u \in Txs, NEW v \in Txs,
                 NEW i \in Confirmed(u)', NEW j \in Confirmed(v)',
                 NumberAt(u, i) = NumberAt(v, j)
          PROVE  u = v /\ i = j
      <3>1. CASE u = t /\ v = t
        <4>1. i \in Entered(t) /\ j \in Entered(t) /\ NumberAt(t, i) = NumberAt(t, j)
          BY <1>8, <2>2, <3>1
        <4>2. EnteredOwned(t)
          OBVIOUS
        <4> QED BY <3>1, <4>1, <4>2 DEF EnteredOwned
      <3>2. CASE u # t /\ v # t
        <4>1. i \in Confirmed(u) /\ j \in Confirmed(v)
          BY <1>7, <3>2
        <4>2. ConfirmedRecorded
          OBVIOUS
        <4> QED BY <2>2, <4>1, <4>2 DEF ConfirmedRecorded
      <3>3. CASE u = t /\ v # t
        <4>1. i \in Entered(t) /\ j \in Confirmed(v)
          BY <1>7, <1>8, <3>3
        <4>2. NumberAt(t, i) \in headers[t] /\ NumberAt(v, j) \in entryNumbers
          BY <4>1 DEF EnteredOwned, ConfirmedRecorded
        <4> QED BY <2>2, <3>3, <4>2 DEF NumbersUnique
      <3>4. CASE u # t /\ v = t
        <4>1. j \in Entered(t) /\ i \in Confirmed(u)
          BY <1>7, <1>8, <3>4
        <4>2. NumberAt(t, j) \in headers[t] /\ NumberAt(u, i) \in entryNumbers
          BY <4>1 DEF EnteredOwned, ConfirmedRecorded
        <4> QED BY <2>2, <3>4, <4>2 DEF NumbersUnique
      <3> QED BY <3>1, <3>2, <3>3, <3>4
    <2> QED BY <1>6, <2>1, <2>2 DEF ConfirmedRecorded
  <1> QED BY <1>4, <1>5, <1>9

LEMMA NextHeader ==
  ASSUME HeaderInv, [Next]_vars
  PROVE  HeaderInv'
  <1>1. TypeOK'
    BY NextType DEF HeaderInv
  <1>2. CASE Next
    <2> PICK t \in Txs : Begin(t) \/ Step(t) \/ ResolveDeadlock(t) \/ Lose(t)
      BY <1>2 DEF Next
    <2>1. CASE DuplicateHeader(t) \/ Refuse(t) \/ ResolveDeadlock(t) \/ Lose(t)
      BY <1>1, <2>1, AbortHeader DEF DuplicateHeader, Refuse, ResolveDeadlock, Lose, Ended
    <2> QED BY <1>1, <2>1, BeginHeader, QuietHeader, InsertHeaderOwned, MarkHeader,
               CommitHeader DEF Step
  <1>3. CASE UNCHANGED vars
    BY <1>1, <1>3 DEF HeaderInv, NumbersUnique, EnteredOwned, ConfirmedRecorded, Entered,
                      Confirmed, NumberAt, LineAt, Kind, vars, tables, program, writes
  <1> QED BY <1>2, <1>3

(* A receipt line is put away into stock at most once.                     *)
THEOREM PutawayOnce == Spec => []CompletedOnce
  <1>1. HeaderInv /\ [Next]_vars => HeaderInv'
    BY NextHeader
  <1>2. HeaderInv => CompletedOnce
    <2> SUFFICES ASSUME HeaderInv, NEW t \in Txs, NEW u \in Txs,
                        NEW i \in Stocked(t), NEW j \in Stocked(u),
                        dto[t].lines[i].line = dto[u].lines[j].line
                 PROVE  t = u /\ i = j
      BY DEF CompletedOnce
    <2>1. i \in Confirmed(t) /\ j \in Confirmed(u)
      BY DEF Stocked, Confirmed
    <2>2. NumberAt(t, i) = NumberAt(u, j)
      BY DEF NumberAt, LineAt
    <2> QED BY <2>1, <2>2 DEF HeaderInv, ConfirmedRecorded
  <1> QED BY <1>1, <1>2, InitHeader, PTL DEF Spec
(***************************************************************************)
(* One request after the other.                                            *)
(***************************************************************************)
Acts(t) == Begin(t) \/ Step(t) \/ ResolveDeadlock(t) \/ Lose(t)

(* A step of one transaction leaves alone what is local to the others.     *)
LEMMA OthersStay ==
  ASSUME TypeOK, NEW t \in Txs, Acts(t), NEW u \in Txs, u # t
  PROVE  /\ pc'[u] = pc[u] /\ dto'[u] = dto[u] /\ item'[u] = item[u] /\ route'[u] = route[u]
         /\ legs'[u] = legs[u] /\ todo'[u] = todo[u] /\ holds'[u] = holds[u]
         /\ mine'[u] = mine[u] /\ posted'[u] = posted[u] /\ headers'[u] = headers[u]
         /\ marks'[u] = marks[u]
  <1> USE DEF TypeOK, ProgramOK, WritesOK, Goto
  <1>1. ASSUME NEW why, Abort(t, why)
        PROVE  /\ pc'[u] = pc[u] /\ dto'[u] = dto[u] /\ item'[u] = item[u] /\ route'[u] = route[u]
               /\ legs'[u] = legs[u] /\ todo'[u] = todo[u] /\ holds'[u] = holds[u]
               /\ mine'[u] = mine[u] /\ posted'[u] = posted[u] /\ headers'[u] = headers[u]
               /\ marks'[u] = marks[u]
    BY <1>1 DEF Abort
  <1>2. CASE DuplicateHeader(t) \/ Refuse(t) \/ ResolveDeadlock(t) \/ Lose(t)
    BY <1>1, <1>2 DEF DuplicateHeader, Refuse, ResolveDeadlock, Lose
  <1>3. CASE Begin(t)
    BY <1>3 DEF Begin, writes
  <1>4. CASE ReadLine(t) \/ LockStocktake(t) \/ ReadStocktake(t) \/ ReadStock(t)
    BY <1>4 DEF ReadLine, LockStocktake, ReadStocktake, ReadStock, program, writes
  <1>5. CASE InsertHeader(t) \/ ValidateStock(t)
    BY <1>5 DEF InsertHeader, ValidateStock, program, writes
  <1>6. CASE Upsert(t) \/ MarkLine(t)
    BY <1>6 DEF Upsert, MarkLine
  <1>7. CASE Commit(t)
    BY <1>7 DEF Commit
  <1> QED BY <1>2, <1>3, <1>4, <1>5, <1>6, <1>7 DEF Acts, Step

(* The tables change by commits only.                                      *)
LEMMA TablesStay ==
  ASSUME NEW t \in Txs, Acts(t)
  PROVE  UNCHANGED tables \/ Commit(t)
  BY DEF Acts, Step, Begin, ReadLine, LockStocktake, ReadStocktake, ReadStock, InsertHeader,
         DuplicateHeader, ValidateStock, Upsert, MarkLine, Refuse, ResolveDeadlock, Lose, Abort

(* Who acts was open or begins, and who is no longer open has let go.      *)
LEMMA OpensAndEnds ==
  ASSUME TypeOK, NEW t \in Txs, Acts(t)
  PROVE  /\ pc[t] \in Active \/ Begin(t)
         /\ pc'[t] \notin Active =>
              holds'[t] = {} /\ headers'[t] = {} /\ \A d \in Docs : marks'[t][d] = NoMark
  <1> USE DEF TypeOK, ProgramOK, WritesOK, Goto, Active
  <1>1. ASSUME NEW why, Abort(t, why)
        PROVE  holds'[t] = {} /\ headers'[t] = {} /\ \A d \in Docs : marks'[t][d] = NoMark
    BY <1>1 DEF Abort
  <1>2. CASE DuplicateHeader(t) \/ Refuse(t) \/ Lose(t)
    BY <1>1, <1>2 DEF DuplicateHeader, Refuse, Lose
  <1>3. CASE ResolveDeadlock(t)
    <2>1. pc[t] \in Active
      BY <1>3 DEF ResolveDeadlock, Deadlocked, Waits
    <2> QED BY <1>1, <1>3, <2>1 DEF ResolveDeadlock
  <1>4. CASE Begin(t)
    BY <1>4 DEF Begin
  <1>5. CASE ReadLine(t) \/ LockStocktake(t) \/ ReadStocktake(t)
    BY <1>5 DEF ReadLine, LockStocktake, ReadStocktake
  <1>6. CASE ReadStock(t) \/ InsertHeader(t) \/ ValidateStock(t)
    BY <1>6 DEF ReadStock, InsertHeader, ValidateStock, AfterMovement
  <1>7. CASE Upsert(t) \/ MarkLine(t)
    BY <1>7 DEF Upsert, MarkLine, AfterMovement
  <1>8. CASE Commit(t)
    BY <1>8 DEF Commit
  <1> QED BY <1>2, <1>3, <1>4, <1>5, <1>6, <1>7, <1>8 DEF Acts, Step

OpenTxs == {t \in Txs : pc[t] \in Active}
AtRest(t) == holds[t] = {} /\ \A d \in Docs : marks[t][d] = NoMark
OneByOne ==
  /\ \A t, u \in OpenTxs : t = u
  /\ \A t \in Txs \ OpenTxs : AtRest(t)

LEMMA Alone ==
  ASSUME MaxOpen <= 1, TypeOK, OneByOne, NEW t \in Txs, Acts(t), NEW u \in Txs, u # t
  PROVE  pc[u] \notin Active /\ AtRest(u)
  <1>1. CASE pc[t] \in Active
    BY <1>1 DEF OneByOne, OpenTxs
  <1>2. CASE Begin(t)
    <2>1. Cardinality(OpenTxs) < MaxOpen
      BY <1>2 DEF Begin, OpenTxs
    <2>2. ASSUME u \in OpenTxs PROVE FALSE
      <3>1. OpenTxs = {u}
        BY <2>2 DEF OneByOne
      <3>2. Cardinality(OpenTxs) = 1
        BY <3>1, FS_Singleton
      <3> QED BY <2>1, <3>2, ShapeAssumption
    <2> QED BY <2>2 DEF OneByOne, OpenTxs
  <1> QED BY <1>1, <1>2, OpensAndEnds

LEMMA OneByOneStep ==
  ASSUME MaxOpen <= 1, TypeOK, OneByOne, NEW t \in Txs, Acts(t)
  PROVE  OneByOne'
  <1>1. \A u \in Txs \ {t} : pc'[u] = pc[u] /\ holds'[u] = holds[u] /\ marks'[u] = marks[u]
    BY OthersStay
  <1>2. \A u \in Txs \ {t} : pc[u] \notin Active /\ AtRest(u)
    BY Alone
  <1>3. pc'[t] \notin Active => holds'[t] = {} /\ \A d \in Docs : marks'[t][d] = NoMark
    BY OpensAndEnds
  <1> QED BY <1>1, <1>2, <1>3 DEF OneByOne, OpenTxs, AtRest

(***************************************************************************)
(* What is final stays so.                                                 *)
(***************************************************************************)
LineStatuses == {"awaiting_matching", "pending_putaway", "quarantined", "completed"}
StatusesOf(d) == IF d \in Stocktakes THEN StocktakeStates ELSE LineStatuses
StatusesFit ==
  \A d \in Docs :
    /\ status[d] \in StatusesOf(d)
    /\ \A t \in Txs : marks[t][d] \in StatusesOf(d) \cup {NoMark}

LEMMA FitsAt ==
  ASSUME StatusesFit, NEW t \in Txs, NEW d \in Docs
  PROVE  StatusAt(t, d) \in StatusesOf(d)
  BY DEF StatusesFit, StatusAt

LEMMA DocumentKind ==
  ASSUME TypeOK, NEW t \in Txs, Document(t) # NoLine
  PROVE  /\ Document(t) \in Docs
         /\ Kind(t) \in {"putaway", "quarantine"} => Document(t) \notin Stocktakes
         /\ Kind(t) \in {"stocktake", "state"} => Document(t) \in Stocktakes
         /\ Kind(t) \in {"putaway", "quarantine", "stocktake", "state"}
  <1>1. Kind(t) \in {"putaway", "quarantine", "stocktake", "state"}
    BY DEF Document
  <1> QED BY <1>1, DocumentType, ShapeAssumption

LEMMA NewStatusFits ==
  ASSUME TypeOK, NEW t \in Txs, Document(t) # NoLine
  PROVE  NewStatus(t) \in StatusesOf(Document(t))
  <1>1. CASE Kind(t) \in {"putaway", "quarantine"}
    BY <1>1, DocumentKind DEF NewStatus, StatusesOf, LineStatuses
  <1>2. CASE Kind(t) = "stocktake"
    BY <1>2, DocumentKind DEF NewStatus, StatusesOf, StocktakeStates
  <1>3. CASE Kind(t) = "state"
    <2>1. dto[t].to \in StocktakeStates
      BY <1>3, DtoShape DEF TypeOK, ProgramOK, Kind, StateDto
    <2> QED BY <1>3, <2>1, DocumentKind DEF NewStatus, StatusesOf
  <1> QED BY <1>1, <1>2, <1>3, DocumentKind

(* What a step does to the marks of the one that acts.                     *)
LEMMA MarksChange ==
  ASSUME TypeOK, NEW t \in Txs, Acts(t)
  PROVE  \/ marks' = marks
         \/ /\ \A d \in Docs : marks'[t][d] = NoMark
            /\ pc'[t] \in Ended
         \/ /\ LockStocktake(t)
            /\ marks' = [marks EXCEPT ![t][Document(t)] = StatusAt(t, Document(t))]
         \/ /\ MarkLine(t)
            /\ marks' = [marks EXCEPT ![t][Document(t)] = NewStatus(t)]
  <1> USE DEF TypeOK, ProgramOK, WritesOK, Goto
  <1>1. ASSUME NEW why \in Ended, Abort(t, why)
        PROVE  (\A d \in Docs : marks'[t][d] = NoMark) /\ pc'[t] \in Ended
    BY <1>1 DEF Abort
  <1>2. CASE DuplicateHeader(t) \/ Refuse(t) \/ ResolveDeadlock(t) \/ Lose(t)
    BY <1>1, <1>2 DEF DuplicateHeader, Refuse, ResolveDeadlock, Lose, Ended
  <1>3. CASE Commit(t)
    BY <1>3 DEF Commit, Ended
  <1>4. CASE Begin(t) \/ ReadLine(t) \/ ReadStocktake(t) \/ ReadStock(t)
    BY <1>4 DEF Begin, ReadLine, ReadStocktake, ReadStock, writes
  <1>5. CASE InsertHeader(t) \/ ValidateStock(t) \/ Upsert(t)
    BY <1>5 DEF InsertHeader, ValidateStock, Upsert, writes
  <1>6. CASE LockStocktake(t) \/ MarkLine(t)
    BY <1>6 DEF LockStocktake, MarkLine
  <1> QED BY <1>2, <1>3, <1>4, <1>5, <1>6 DEF Acts, Step

(* What a request that has accepted its document, or names none, goes by.  *)
Checked == {"stock", "header", "check", "upsert", "mark"}
MarksNamed == \A t \in Txs : pc[t] = "mark" => Document(t) # NoLine

LEMMA SameDocument ==
  ASSUME NEW t \in Txs, dto'[t] = dto[t], item'[t] = item[t]
  PROVE  Document(t)' = Document(t) /\ Kind(t)' = Kind(t)
  BY DEF Document, Kind

LEMMA EntersChecked ==
  ASSUME TypeOK, NEW t \in Txs, Acts(t), pc'[t] \in Checked
  PROVE  /\ status' = status
         /\ \/ pc'[t] = "stock" /\ Document(t)' = NoLine
            \/ /\ ReadLine(t) \/ LockStocktake(t) \/ ReadStocktake(t)
               /\ Document(t)' = Document(t) /\ Document(t) # NoLine
            \/ /\ pc[t] \in Checked /\ marks' = marks /\ Document(t)' = Document(t)
               /\ pc'[t] = "mark" => Document(t) # NoLine
  <1> USE DEF TypeOK, ProgramOK, WritesOK, Goto
  <1>1. ASSUME NEW why \in Ended, Abort(t, why)
        PROVE  FALSE
    BY <1>1 DEF Abort, Ended, Checked
  <1>2. CASE DuplicateHeader(t) \/ Refuse(t) \/ ResolveDeadlock(t) \/ Lose(t)
    BY <1>1, <1>2 DEF DuplicateHeader, Refuse, ResolveDeadlock, Lose, Ended
  <1>3. CASE Commit(t)
    BY <1>3 DEF Commit, Checked
  <1>4. CASE Begin(t)
    <2>1. PICK d \in Dtos : dto' = [dto EXCEPT ![t] = d]
                            /\ \/ d.kind = "quarantine" /\ d.line = NoLine
                               \/ d.kind \in {"move", "adjust"}
                            /\ pc'[t] = "stock"
      BY <1>4 DEF Begin, Checked
    <2>2. Document(t)' = NoLine
      BY <2>1 DEF Document, Kind
    <2> QED BY <1>4, <2>1, <2>2 DEF Begin, tables
  <1>5. CASE ReadLine(t) \/ LockStocktake(t) \/ ReadStocktake(t)
    <2>1. dto' = dto /\ item' = item /\ status' = status
      BY <1>5 DEF ReadLine, LockStocktake, ReadStocktake, program, tables
    <2>2. Document(t) # NoLine
      BY <1>5 DEF ReadLine, LockStocktake, ReadStocktake, ProgressOK
    <2> QED BY <1>5, <2>1, <2>2, SameDocument
  <1>6. CASE ReadStock(t) \/ InsertHeader(t) \/ ValidateStock(t) \/ Upsert(t)
    <2>1. dto' = dto /\ item' = item /\ status' = status /\ marks' = marks
      BY <1>6 DEF ReadStock, InsertHeader, ValidateStock, Upsert, program, tables, writes
    <2>2. Document(t)' = Document(t)
      BY <2>1, SameDocument
    <2>3. pc[t] \in Checked
      BY <1>6 DEF ReadStock, InsertHeader, ValidateStock, Upsert, Checked
    <2>4. pc'[t] = "mark" => Document(t) # NoLine
      BY <1>6 DEF ReadStock, InsertHeader, ValidateStock, Upsert, AfterMovement
    <2> QED BY <2>1, <2>2, <2>3, <2>4
  <1>7. CASE MarkLine(t)
    BY <1>7 DEF MarkLine, Checked
  <1> QED BY <1>2, <1>3, <1>4, <1>5, <1>6, <1>7 DEF Acts, Step

LEMMA NamedStep ==
  ASSUME TypeOK, MarksNamed, NEW t \in Txs, Acts(t)
  PROVE  MarksNamed'
  <1>1. ASSUME NEW u \in Txs, pc'[u] = "mark" PROVE Document(u)' # NoLine
    <2>1. CASE u = t
      BY <1>1, <2>1, EntersChecked DEF Checked
    <2>2. CASE u # t
      BY <1>1, <2>2, OthersStay, SameDocument DEF MarksNamed
    <2> QED BY <2>1, <2>2
  <1> QED BY <1>1 DEF MarksNamed

LEMMA FitsStep ==
  ASSUME TypeOK, StatusesFit, MarksNamed, NEW t \in Txs, Acts(t)
  PROVE  StatusesFit'
  <1>1. \A u \in Txs \ {t} : marks'[u] = marks[u]
    BY OthersStay
  <1>2. ASSUME NEW d \in Docs PROVE status'[d] \in StatusesOf(d)
    <2>1. CASE UNCHANGED tables
      BY <2>1 DEF tables, StatusesFit
    <2>2. CASE Commit(t)
      BY <2>2, FitsAt DEF Commit
    <2> QED BY <2>1, <2>2, TablesStay
  <1>3. ASSUME NEW d \in Docs PROVE marks'[t][d] \in StatusesOf(d) \cup {NoMark}
    <2>1. marks \in [Txs -> [Docs -> Statuses \cup {NoMark}]]
      BY DEF TypeOK, WritesOK
    <2>2. CASE LockStocktake(t)
      <3>1. Document(t) # NoLine /\ marks' = [marks EXCEPT ![t][Document(t)] = StatusAt(t, Document(t))]
        BY <2>2, DocumentNamed DEF LockStocktake
      <3> QED BY <2>1, <3>1, FitsAt, DocumentKind DEF StatusesFit
    <2>3. CASE MarkLine(t)
      <3>1. Document(t) # NoLine /\ marks' = [marks EXCEPT ![t][Document(t)] = NewStatus(t)]
        BY <2>3 DEF MarkLine, MarksNamed
      <3> QED BY <2>1, <3>1, NewStatusFits, DocumentKind DEF StatusesFit
    <2>4. CASE marks' = marks \/ \A e \in Docs : marks'[t][e] = NoMark
      BY <2>4 DEF StatusesFit
    <2> QED BY <2>2, <2>3, <2>4, MarksChange
  <1>4. ASSUME NEW d \in Docs, NEW u \in Txs \ {t} PROVE marks'[u][d] \in StatusesOf(d) \cup {NoMark}
    BY <1>1 DEF StatusesFit
  <1> QED BY <1>2, <1>3, <1>4 DEF StatusesFit, StatusesOf, StocktakeStates, LineStatuses

Final == {"completed", "submitted"}
NotFinal ==
  \A t \in Txs :
    /\ \A d \in Docs : marks[t][d] # NoMark => status[d] \notin Final
    /\ pc[t] \in Checked /\ Document(t) # NoLine => StatusAt(t, Document(t)) \notin Final

(* A request goes on with a document that is not final.                    *)
LEMMA AcceptedNotFinal ==
  ASSUME TypeOK, StatusesFit, NEW t \in Txs, Accepted(t), Document(t) # NoLine
  PROVE  StatusAt(t, Document(t)) \notin Final
  <1> DEFINE st == StatusAt(t, Document(t))
  <1>1. Document(t) \in Docs /\ st \in StatusesOf(Document(t))
    BY DocumentKind, FitsAt
  <1>2. CASE Kind(t) = "stocktake"
    BY <1>1, <1>2, DocumentKind DEF Accepted, Final, StatusesOf, StocktakeStates
  <1>3. CASE Kind(t) = "state"
    <2>1. st \in StocktakeStates
      BY <1>1, <1>3, DocumentKind DEF StatusesOf
    <2>2. dto[t].to \in StocktakeTransitions[st]
      BY <1>3 DEF Accepted
    <2>3. st # "submitted"
      BY <2>2 DEF StocktakeTransitions
    <2> QED BY <2>1, <2>3 DEF Final, StocktakeStates
  <1>4. CASE Kind(t) \in {"putaway", "quarantine"}
    <2>1. st # "completed"
      BY <1>4 DEF Accepted, LineAccepted
    <2>2. Document(t) \notin Stocktakes
      BY <1>4, DocumentKind
    <2> QED BY <1>1, <2>1, <2>2 DEF StatusesOf, LineStatuses, Final
  <1> QED BY <1>2, <1>3, <1>4, DocumentKind

LEMMA MarkOf ==
  ASSUME NotFinal, NEW t \in Txs, NEW d \in Docs, StatusAt(t, d) \notin Final
  PROVE  status[d] \notin Final
  BY DEF NotFinal, StatusAt

LEMMA NotFinalStep ==
  ASSUME MaxOpen <= 1, TypeOK, OneByOne, StatusesFit, MarksNamed, NotFinal,
         NEW t \in Txs, Acts(t)
  PROVE  NotFinal'
  <1>0. marks \in [Txs -> [Docs -> Statuses \cup {NoMark}]]
    BY DEF TypeOK, WritesOK
  <1>1. ASSUME NEW u \in Txs, u # t
        PROVE  pc'[u] \notin Checked /\ \A d \in Docs : marks'[u][d] = NoMark
    BY <1>1, OthersStay, Alone DEF AtRest, Checked, Active
  <1>2. CASE Commit(t)
    <2>1. pc'[t] = "done" /\ \A d \in Docs : marks'[t][d] = NoMark
      BY <1>2 DEF Commit, Goto, TypeOK, ProgramOK, WritesOK
    <2> QED BY <1>1, <2>1 DEF NotFinal, Checked
  <1>3. CASE status' = status
    <2>1. ASSUME NEW d \in Docs, marks'[t][d] # NoMark PROVE status[d] \notin Final
      <3>1. CASE marks' = marks
        BY <2>1, <3>1 DEF NotFinal
      <3>2. CASE LockStocktake(t) /\ marks' = [marks EXCEPT ![t][Document(t)] = StatusAt(t, Document(t))]
        <4>1. Document(t) # NoLine /\ Accepted(t)
          BY <3>2, DocumentNamed DEF LockStocktake
        <4>2. d = Document(t) \/ marks'[t][d] = marks[t][d]
          BY <1>0, <3>2
        <4> QED BY <2>1, <4>1, <4>2, AcceptedNotFinal, MarkOf DEF NotFinal
      <3>3. CASE MarkLine(t) /\ marks' = [marks EXCEPT ![t][Document(t)] = NewStatus(t)]
        <4>1. Document(t) # NoLine /\ pc[t] = "mark"
          BY <3>3 DEF MarkLine, MarksNamed
        <4>2. d = Document(t) \/ marks'[t][d] = marks[t][d]
          BY <1>0, <3>3
        <4>3. StatusAt(t, Document(t)) \notin Final
          BY <4>1 DEF NotFinal, Checked
        <4> QED BY <2>1, <4>2, <4>3, MarkOf DEF NotFinal
      <3> QED BY <2>1, <3>1, <3>2, <3>3, MarksChange
    <2>2. ASSUME pc'[t] \in Checked, Document(t)' # NoLine
          PROVE  StatusAt(t, Document(t))' \notin Final
      <3>1. CASE ReadLine(t) \/ LockStocktake(t) \/ ReadStocktake(t)
        <4>1. Accepted(t) /\ Document(t)' = Document(t) /\ Document(t) # NoLine
          BY <3>1, SameDocument
          DEF ReadLine, LockStocktake, ReadStocktake, TypeOK, ProgressOK, program
        <4>2. Document(t) \in Docs /\ StatusAt(t, Document(t)) \notin Final
          BY <4>1, AcceptedNotFinal, DocumentKind
        <4>3. marks' = marks \/ marks' = [marks EXCEPT ![t][Document(t)] = StatusAt(t, Document(t))]
          BY <3>1 DEF ReadLine, LockStocktake, ReadStocktake, writes
        <4>4. marks'[t][Document(t)] = marks[t][Document(t)]
              \/ marks'[t][Document(t)] = StatusAt(t, Document(t))
          BY <1>0, <4>2, <4>3
        <4> QED BY <1>3, <4>1, <4>2, <4>4 DEF StatusAt
      <3>2. CASE pc[t] \in Checked /\ marks' = marks /\ Document(t)' = Document(t)
        BY <1>3, <2>2, <3>2 DEF NotFinal, StatusAt
      <3> QED BY <2>2, <3>1, <3>2, EntersChecked
    <2> QED BY <1>1, <1>3, <2>1, <2>2 DEF NotFinal
  <1> QED BY <1>2, <1>3, TablesStay DEF tables

FinalInv == TypeOK /\ OneByOne /\ StatusesFit /\ MarksNamed /\ NotFinal

LEMMA InitFinal == Init => FinalInv
  <1> SUFFICES ASSUME Init PROVE FinalInv
    OBVIOUS
  <1>1. OneByOne
    BY DEF Init, OneByOne, OpenTxs, AtRest, Active
  <1>2. StatusesFit
    BY DEF Init, StatusesFit, StatusesOf, StocktakeStates, LineStatuses, NoMark
  <1>3. MarksNamed /\ NotFinal
    BY DEF Init, MarksNamed, NotFinal, Checked
  <1> QED BY <1>1, <1>2, <1>3, InitType DEF FinalInv

LEMMA NextFinal ==
  ASSUME MaxOpen <= 1, FinalInv, [Next]_vars
  PROVE  FinalInv'
  <1>1. CASE UNCHANGED vars
    BY <1>1 DEF vars, tables, program, writes, FinalInv, TypeOK, TablesOK, ProgramOK, ProgressOK,
       WritesOK, OneByOne, OpenTxs, AtRest, StatusesFit, MarksNamed, NotFinal, StatusAt, Document, Kind
  <1>2. ASSUME NEW t \in Txs, Acts(t) PROVE FinalInv'
    <2>1. TypeOK'
      BY <1>2, NextType DEF FinalInv, Next, Acts
    <2>2. OneByOne'
      BY <1>2, OneByOneStep DEF FinalInv
    <2>3. StatusesFit' /\ MarksNamed'
      BY <1>2, FitsStep, NamedStep DEF FinalInv
    <2>4. NotFinal'
      BY <1>2, NotFinalStep DEF FinalInv
    <2> QED BY <2>1, <2>2, <2>3, <2>4 DEF FinalInv
  <1> QED BY <1>1, <1>2 DEF Next, Acts

(* Of requests one after the other, as the run has them, none takes back   *)
(* what was put away or submitted: a line or a stocktake that a request    *)
(* goes on with, or has marked, is not committed as final.                 *)
THEOREM FinalOneByOne ==
  ASSUME MaxOpen <= 1
  PROVE  Spec => CompletedIsFinal
  <1>1. Spec => []FinalInv
    BY InitFinal, NextFinal, PTL DEF Spec
  <1>2. ASSUME FinalInv, [Next]_vars
        PROVE  [\A d \in Docs : status[d] \in {"completed", "submitted"} => status'[d] = status[d]]_vars
    <2>1. CASE UNCHANGED vars
      BY <2>1
    <2>2. ASSUME NEW t \in Txs, Acts(t), NEW d \in Docs, status[d] \in Final PROVE status'[d] = status[d]
      <3>1. CASE UNCHANGED tables
        BY <3>1 DEF tables
      <3>2. CASE Commit(t)
        <4>1. marks[t][d] = NoMark
          BY <1>2, <2>2 DEF FinalInv, NotFinal
        <4>2. status'[d] = StatusAt(t, d)
          BY <3>2, <2>2 DEF Commit
        <4> QED BY <4>1, <4>2 DEF StatusAt
      <3> QED BY <2>2, <3>1, <3>2, TablesStay
    <2> QED BY <1>2, <2>1, <2>2 DEF Next, Acts, Final
  <1> QED BY <1>1, <1>2, PTL DEF Spec, CompletedIsFinal

(***************************************************************************)
(* Concurrent requests that read what they change under a lock.            *)
(***************************************************************************)
(* The two kinds of request that write a status computed from a read       *)
(* without a lock are changes of state and quarantines of a line.          *)
NoBlindWriters == \A d \in Dtos : d.kind # "state" /\ (d.kind = "quarantine" => d.line = NoLine)

MarksExclusive ==
  \A t, u \in Txs : \A d \in Docs : marks[t][d] # NoMark /\ marks[u][d] # NoMark => t = u
MarkOwned(t, d) ==
  marks[t][d] # NoMark =>
    /\ d \in PutLines => DocNumber[d] \in headers[t]
    /\ d \in Stocktakes => status[d] # "submitted"
PutNumbered == \A d \in PutLines : status[d] = "completed" => DocNumber[d] \in entryNumbers
StocktakeLocked(t) ==
  Kind(t) = "stocktake" /\ pc[t] \in Checked /\ Document(t) # NoLine =>
    marks[t][Document(t)] # NoMark
LockInv ==
  /\ HeaderInv /\ StatusesFit /\ MarksNamed
  /\ MarksExclusive /\ PutNumbered
  /\ \A t \in Txs : StocktakeLocked(t) /\ \A d \in Docs : MarkOwned(t, d)

(* A transaction keeps its numbers as long as its marks.                   *)
LEMMA HeadersGrow ==
  ASSUME TypeOK, NEW t \in Txs, Acts(t)
  PROVE  headers[t] \subseteq headers'[t] \/ \A d \in Docs : marks'[t][d] = NoMark
  <1> USE DEF TypeOK, ProgramOK, WritesOK, Goto
  <1>1. ASSUME NEW why, Abort(t, why)
        PROVE  \A d \in Docs : marks'[t][d] = NoMark
    BY <1>1 DEF Abort
  <1>2. CASE DuplicateHeader(t) \/ Refuse(t) \/ ResolveDeadlock(t) \/ Lose(t)
    BY <1>1, <1>2 DEF DuplicateHeader, Refuse, ResolveDeadlock, Lose
  <1>3. CASE Commit(t)
    BY <1>3 DEF Commit
  <1>4. CASE Begin(t) \/ ReadLine(t) \/ LockStocktake(t) \/ ReadStocktake(t) \/ ReadStock(t)
    BY <1>4 DEF Begin, ReadLine, LockStocktake, ReadStocktake, ReadStock, writes
  <1>5. CASE InsertHeader(t)
    BY <1>5 DEF InsertHeader
  <1>6. CASE ValidateStock(t) \/ Upsert(t) \/ MarkLine(t)
    BY <1>6 DEF ValidateStock, Upsert, MarkLine, writes
  <1> QED BY <1>2, <1>3, <1>4, <1>5, <1>6 DEF Acts, Step

(* A new mark is on a row that nobody else has marked.                     *)
LEMMA NewMark ==
  ASSUME TypeOK, MarksNamed, NEW t \in Txs, Acts(t), NEW d \in Docs, marks'[t][d] # NoMark
  PROVE  \/ marks'[t][d] = marks[t][d]
         \/ /\ LockStocktake(t) \/ MarkLine(t)
            /\ d = Document(t) /\ d # NoLine
            /\ \A u \in Txs \ {t} : marks[u][d] = NoMark
  <1>0. marks \in [Txs -> [Docs -> Statuses \cup {NoMark}]]
    BY DEF TypeOK, WritesOK
  <1>1. CASE LockStocktake(t) /\ marks' = [marks EXCEPT ![t][Document(t)] = StatusAt(t, Document(t))]
    <2>1. d = Document(t) \/ marks'[t][d] = marks[t][d]
      BY <1>0, <1>1
    <2>2. Document(t) # NoLine /\ MarkBlockers(t) = {}
      BY <1>1, DocumentNamed DEF LockStocktake, RowFree
    <2> QED BY <1>1, <2>1, <2>2 DEF MarkBlockers
  <1>2. CASE MarkLine(t) /\ marks' = [marks EXCEPT ![t][Document(t)] = NewStatus(t)]
    <2>1. d = Document(t) \/ marks'[t][d] = marks[t][d]
      BY <1>0, <1>2
    <2>2. Document(t) # NoLine /\ MarkBlockers(t) = {}
      BY <1>2 DEF MarkLine, MarksNamed
    <2> QED BY <1>2, <2>1, <2>2 DEF MarkBlockers
  <1> QED BY <1>1, <1>2, MarksChange

LEMMA ExclusiveStep ==
  ASSUME TypeOK, MarksNamed, MarksExclusive, NEW t \in Txs, Acts(t)
  PROVE  MarksExclusive'
  <1>1. \A u \in Txs \ {t} : marks'[u] = marks[u]
    BY OthersStay
  <1>2. ASSUME NEW u \in Txs \ {t}, NEW d \in Docs, marks'[t][d] # NoMark
        PROVE  marks'[u][d] = NoMark
    <2>1. marks[t][d] # NoMark \/ marks[u][d] = NoMark
      BY <1>2, NewMark
    <2> QED BY <1>1, <2>1 DEF MarksExclusive
  <1>3. ASSUME NEW u \in Txs \ {t}, NEW v \in Txs \ {t}, NEW d \in Docs,
               marks'[u][d] # NoMark, marks'[v][d] # NoMark
        PROVE  u = v
    BY <1>1, <1>3 DEF MarksExclusive
  <1> QED BY <1>2, <1>3 DEF MarksExclusive

(* The kinds that name a document take it in a way that tells who owns it. *)
LEMMA MarkedKind ==
  ASSUME NoBlindWriters, TypeOK, NEW t \in Txs, Document(t) # NoLine
  PROVE  \/ Kind(t) = "putaway" /\ Document(t) \in PutLines
         \/ Kind(t) = "stocktake" /\ Document(t) \in Stocktakes
  <1>1. dto[t] \in Dtos
    BY DEF TypeOK, ProgramOK
  <1>2. Kind(t) # "state" /\ (Kind(t) = "quarantine" => Document(t) = NoLine)
    BY <1>1 DEF NoBlindWriters, Kind, Document
  <1> QED BY <1>2, DocumentKind, DocumentType

LEMMA OwnedStep ==
  ASSUME NoBlindWriters, LockInv, NEW t \in Txs, Acts(t), NEW u \in Txs, NEW d \in Docs
  PROVE  MarkOwned(u, d)'
  <1> SUFFICES ASSUME marks'[u][d] # NoMark
               PROVE  /\ d \in PutLines => DocNumber[d] \in headers'[u]
                      /\ d \in Stocktakes => status'[d] # "submitted"
    BY DEF MarkOwned
  <1>0. TypeOK /\ MarksNamed /\ StatusesFit /\ MarkOwned(u, d)
    BY DEF LockInv, HeaderInv
  <1>1. CASE u # t
    <2>1. marks'[u] = marks[u] /\ headers'[u] = headers[u]
      BY <1>0, <1>1, OthersStay
    <2>2. status'[d] = status[d]
      <3>1. marks[t][d] = NoMark
        BY <1>1, <2>1 DEF LockInv, MarksExclusive
      <3> QED BY <3>1, TablesStay DEF tables, Commit, StatusAt
    <2> QED BY <1>0, <2>1, <2>2 DEF MarkOwned
  <1>2. CASE u = t
    <2>1. headers[t] \subseteq headers'[t]
      BY <1>0, <1>2, HeadersGrow
    <2>2. status' = status
      <3>1. ~ Commit(t)
        BY <1>0, <1>2 DEF Commit, TypeOK, WritesOK
      <3> QED BY <3>1, TablesStay DEF tables
    <2>3. CASE marks'[t][d] = marks[t][d]
      BY <1>0, <1>2, <2>1, <2>2, <2>3 DEF MarkOwned
    <2>4. CASE LockStocktake(t) /\ d = Document(t) /\ d # NoLine
      <3>1. d \in Stocktakes /\ d \notin PutLines
        BY <1>0, <2>4, DocumentType, ShapeAssumption DEF LockStocktake
      <3>2. StatusAt(t, d) # "submitted"
        BY <2>4 DEF LockStocktake, Accepted
      <3>3. marks[t][d] = NoMark => StatusAt(t, d) = status[d]
        BY DEF StatusAt
      <3> QED BY <1>0, <1>2, <2>2, <3>1, <3>2, <3>3 DEF MarkOwned
    <2>5. CASE MarkLine(t) /\ d = Document(t) /\ d # NoLine
      <3>1. pc[t] = "mark"
        BY <2>5 DEF MarkLine
      <3>2. CASE Kind(t) = "putaway" /\ d \in PutLines
        <4>1. d \notin Stocktakes
          BY <3>2, ShapeAssumption
        <4>2. item[t] \in DOMAIN dto[t].lines
          <5>1. dto[t].lines \in Seq(PutawayLine)
            BY <1>0, <3>2, DtoShape DEF TypeOK, ProgramOK, Kind
          <5>2. item[t] \in Nat \ {0} /\ item[t] <= Len(dto[t].lines)
            BY <1>0, <3>2 DEF TypeOK, ProgramOK, ProgressOK
          <5> QED BY <5>1, <5>2
        <4>3. item[t] \in Entered(t)
          BY <3>1, <3>2, <4>2 DEF Entered, Active
        <4>4. NumberAt(t, item[t]) \in headers[t]
          BY <4>3 DEF LockInv, HeaderInv, EnteredOwned
        <4>5. NumberAt(t, item[t]) = DocNumber[d]
          BY <2>5, <3>2 DEF NumberAt, LineAt, Document
        <4> QED BY <1>2, <2>1, <4>1, <4>4, <4>5
      <3>3. CASE Kind(t) = "stocktake" /\ d \in Stocktakes
        <4>1. d \notin PutLines
          BY <3>3, ShapeAssumption
        <4>2. marks[t][d] # NoMark
          BY <2>5, <3>1, <3>3 DEF LockInv, StocktakeLocked, Checked
        <4> QED BY <1>0, <1>2, <2>2, <3>3, <4>1, <4>2 DEF MarkOwned
      <3> QED BY <1>0, <2>5, <3>2, <3>3, MarkedKind
    <2> QED BY <1>0, <1>2, <2>3, <2>4, <2>5, NewMark
  <1> QED BY <1>1, <1>2

LEMMA LockedStep ==
  ASSUME LockInv, NEW t \in Txs, Acts(t), NEW u \in Txs
  PROVE  StocktakeLocked(u)'
  <1> SUFFICES ASSUME Kind(u)' = "stocktake", pc'[u] \in Checked, Document(u)' # NoLine
               PROVE  marks'[u][Document(u)'] # NoMark
    BY DEF StocktakeLocked
  <1>0. TypeOK /\ StatusesFit /\ StocktakeLocked(u)
    BY DEF LockInv, HeaderInv
  <1>1. CASE u # t
    BY <1>0, <1>1, OthersStay, SameDocument DEF StocktakeLocked
  <1>2. CASE u = t
    <2>1. CASE ReadLine(t) \/ LockStocktake(t) \/ ReadStocktake(t)
      <3>1. Document(t)' = Document(t) /\ Kind(t)' = Kind(t)
        BY <2>1, SameDocument DEF ReadLine, LockStocktake, ReadStocktake, program
      <3>2. LockStocktake(t)
        BY <1>2, <2>1, <3>1 DEF ReadLine, ReadStocktake
      <3>3. Document(t) \in Docs /\ StatusAt(t, Document(t)) # NoMark
        BY <1>0, <1>2, <3>1, FitsAt, DocumentKind
        DEF StatusesOf, StocktakeStates, LineStatuses, NoMark
      <3>4. marks' = [marks EXCEPT ![t][Document(t)] = StatusAt(t, Document(t))]
        BY <3>2 DEF LockStocktake
      <3> QED BY <1>0, <1>2, <3>1, <3>3, <3>4 DEF TypeOK, WritesOK
    <2>2. CASE pc[t] \in Checked /\ marks' = marks /\ Document(t)' = Document(t)
      <3>1. Kind(t)' = Kind(t)
        <4>1. pc[t] # "idle" /\ ~ Begin(t)
          BY <2>2 DEF Checked, Begin
        <4>2. dto' = dto
          BY <4>1 DEF Acts, Step, ReadLine, LockStocktake, ReadStocktake, ReadStock, InsertHeader,
             DuplicateHeader, ValidateStock, Upsert, MarkLine, Commit, Refuse, ResolveDeadlock, Lose,
             Abort, program
        <4> QED BY <4>2 DEF Kind
      <3> QED BY <1>0, <1>2, <2>2, <3>1 DEF StocktakeLocked
    <2> QED BY <1>0, <1>2, <2>1, <2>2, EntersChecked
  <1> QED BY <1>1, <1>2

LEMMA NumberedStep ==
  ASSUME LockInv, NEW t \in Txs, Acts(t)
  PROVE  PutNumbered'
  <1> SUFFICES ASSUME NEW d \in PutLines, status'[d] = "completed"
               PROVE  DocNumber[d] \in entryNumbers'
    BY DEF PutNumbered
  <1>0. d \in Docs /\ MarkOwned(t, d)
    BY DEF LockInv, Docs
  <1>1. CASE UNCHANGED tables
    BY <1>1 DEF tables, LockInv, PutNumbered
  <1>2. CASE Commit(t)
    <2>1. status'[d] = StatusAt(t, d) /\ entryNumbers' = entryNumbers \cup headers[t]
      BY <1>0, <1>2 DEF Commit
    <2>2. CASE marks[t][d] = NoMark
      BY <2>1, <2>2 DEF StatusAt, LockInv, PutNumbered
    <2>3. CASE marks[t][d] # NoMark
      BY <1>0, <2>1, <2>3 DEF MarkOwned
    <2> QED BY <2>2, <2>3
  <1> QED BY <1>1, <1>2, TablesStay

LEMMA NextLock ==
  ASSUME NoBlindWriters, LockInv, [Next]_vars
  PROVE  LockInv'
  <1>0. HeaderInv'
    BY NextHeader DEF LockInv
  <1>1. CASE UNCHANGED vars
    <2>1. StatusesFit' /\ MarksNamed' /\ MarksExclusive' /\ PutNumbered'
      BY <1>1 DEF vars, tables, program, writes, LockInv, StatusesFit, MarksNamed, MarksExclusive,
         PutNumbered, Document, Kind
    <2>2. ASSUME NEW t \in Txs PROVE StocktakeLocked(t)' /\ \A d \in Docs : MarkOwned(t, d)'
      BY <1>1 DEF vars, tables, program, writes, LockInv, StocktakeLocked, MarkOwned, Document, Kind
    <2> QED BY <1>0, <2>1, <2>2 DEF LockInv
  <1>2. ASSUME NEW t \in Txs, Acts(t) PROVE LockInv'
    <2>0. TypeOK /\ StatusesFit /\ MarksNamed /\ MarksExclusive
      BY DEF LockInv, HeaderInv
    <2>1. StatusesFit' /\ MarksNamed' /\ MarksExclusive'
      BY <1>2, <2>0, FitsStep, NamedStep, ExclusiveStep
    <2>2. PutNumbered'
      BY <1>2, NumberedStep
    <2>3. \A u \in Txs : StocktakeLocked(u)' /\ \A d \in Docs : MarkOwned(u, d)'
      BY <1>2, OwnedStep, LockedStep
    <2> QED BY <1>0, <2>1, <2>2, <2>3 DEF LockInv
  <1> QED BY <1>1, <1>2 DEF Next, Acts

LEMMA InitLock == Init => LockInv
  <1> SUFFICES ASSUME Init PROVE LockInv
    OBVIOUS
  <1>1. StatusesFit /\ PutNumbered
    BY ShapeAssumption DEF Init, StatusesFit, StatusesOf, StocktakeStates, LineStatuses, NoMark, PutNumbered, Docs
  <1>2. MarksNamed /\ MarksExclusive
    BY DEF Init, MarksNamed, MarksExclusive
  <1>3. \A t \in Txs : StocktakeLocked(t) /\ \A d \in Docs : MarkOwned(t, d)
    BY DEF Init, StocktakeLocked, MarkOwned, Checked
  <1> QED BY <1>1, <1>2, <1>3, InitHeader DEF LockInv

(* Also of concurrent requests none takes back what was put away or        *)
(* submitted, unless one of the two kinds that write a status computed     *)
(* from an unlocked read is among them: a putaway of a line that was put   *)
(* away has its number taken, and a stocktake stays locked from the test   *)
(* of its state to the commit.                                             *)
THEOREM FinalWhenLocked ==
  ASSUME NoBlindWriters
  PROVE  Spec => CompletedIsFinal
  <1>1. Spec => []LockInv
    BY InitLock, NextLock, PTL DEF Spec
  <1>2. ASSUME LockInv, [Next]_vars
        PROVE  [\A d \in Docs : status[d] \in {"completed", "submitted"} => status'[d] = status[d]]_vars
    <2>1. CASE UNCHANGED vars
      BY <2>1
    <2>2. ASSUME NEW t \in Txs, Acts(t), NEW d \in Docs, status[d] \in Final PROVE status'[d] = status[d]
      <3>1. CASE UNCHANGED tables
        BY <3>1 DEF tables
      <3>2. CASE Commit(t)
        <4>1. status'[d] = StatusAt(t, d)
          BY <2>2, <3>2 DEF Commit
        <4>2. MarkOwned(t, d) /\ StatusesFit /\ NumbersUnique
          BY <1>2, <2>2 DEF LockInv, HeaderInv
        <4>3. CASE d \in PutLines
          <5>1. status[d] = "completed"
            BY <2>2, <4>2, <4>3, ShapeAssumption DEF StatusesFit, StatusesOf, LineStatuses, Final
          <5>2. DocNumber[d] \in entryNumbers
            BY <1>2, <4>3, <5>1 DEF LockInv, PutNumbered
          <5> QED BY <2>2, <4>1, <4>2, <4>3, <5>2 DEF NumbersUnique, MarkOwned, StatusAt
        <4>4. CASE d \in Stocktakes
          <5>1. status[d] = "submitted"
            BY <2>2, <4>2, <4>4 DEF StatusesFit, StatusesOf, StocktakeStates, Final
          <5> QED BY <4>1, <4>2, <4>4, <5>1 DEF MarkOwned, StatusAt
        <4> QED BY <2>2, <4>3, <4>4 DEF Docs
      <3> QED BY <2>2, <3>1, <3>2, TablesStay
    <2> QED BY <1>2, <2>1, <2>2 DEF Next, Acts, Final
  <1> QED BY <1>1, <1>2, PTL DEF Spec, CompletedIsFinal

(***************************************************************************)
(* Requests one after the other overdraw no bin.                           *)
(***************************************************************************)
(* What the legs still to be upserted take from a row.                     *)
Takes(t) == [i \in DOMAIN legs[t] |-> -legs[t][i].qty]
Negative(t, r) == {i \in DOMAIN legs[t] : legs[t][i].row = r /\ legs[t][i].qty < 0}
Left(t, r) == SumFunctionOnSet(Takes(t), todo[t] \cap Negative(t, r))

IsChecked(r) == BinType[r[1]] \notin Unchecked
Suffices ==
  \A r \in {x \in Rows : IsChecked(x)} :
    /\ actual[r] >= 0
    /\ \A t \in Txs : QtyAt(t, r) >= 0 /\ (pc[t] = "upsert" => Left(t, r) <= QtyAt(t, r))

LEMMA LegsAre ==
  ASSUME TypeOK, NEW t \in Txs, NEW r
  PROVE  /\ IsFiniteSet(Negative(t, r))
         /\ \A i \in Negative(t, r) : Takes(t)[i] \in Nat /\ Takes(t)[i] = -legs[t][i].qty
         /\ \A i \in DOMAIN legs[t] : legs[t][i].qty \in Int /\ legs[t][i].row \in Rows
  <1>1. legs[t] \in Seq(Leg)
    BY DEF TypeOK, ProgramOK
  <1>2. DOMAIN legs[t] = 1..Len(legs[t]) /\ Len(legs[t]) \in Nat
    BY <1>1
  <1>3. IsFiniteSet(DOMAIN legs[t])
    BY <1>2, FS_Interval
  <1>4. \A i \in DOMAIN legs[t] : legs[t][i] \in Leg
    BY <1>1
  <1>5. IsFiniteSet(Negative(t, r))
    BY <1>3, FS_Subset DEF Negative
  <1> QED BY <1>4, <1>5 DEF Negative, Takes, Leg

LEMMA LeftIsPart ==
  ASSUME TypeOK, NEW t \in Txs, NEW r
  PROVE  /\ Left(t, r) \in Nat /\ Deduction(legs[t], r) \in Nat
         /\ Left(t, r) <= Deduction(legs[t], r)
         /\ Negative(t, r) = {} => Left(t, r) = 0
  <1> DEFINE f == Takes(t)
             S == Negative(t, r)
             T == todo[t] \cap S
  <1>1. IsFiniteSet(S) /\ \A i \in S : f[i] \in Nat
    BY LegsAre
  <1>2. T \in SUBSET S
    OBVIOUS
  <1>3. Deduction(legs[t], r) = SumFunctionOnSet(f, S) /\ Left(t, r) = SumFunctionOnSet(f, T)
    BY DEF Deduction, Takes, Negative, Left
  <1>4. S = {} => T = {}
    OBVIOUS
  <1> HIDE DEF f, S, T
  <1>5. IsFiniteSet(T)
    BY <1>1, <1>2, FS_Subset
  <1>6. SumFunctionOnSet(f, T) <= SumFunctionOnSet(f, S)
    BY <1>1, <1>2, SumPart
  <1>7. SumFunctionOnSet(f, T) \in Nat /\ SumFunctionOnSet(f, S) \in Nat
    BY <1>1, <1>2, <1>5, SumNatural
  <1>8. S = {} => SumFunctionOnSet(f, T) = 0
    BY <1>4, SumEmpty
  <1> QED BY <1>3, <1>6, <1>7, <1>8 DEF S

(* The check of all legs together is enough for each of them in turn.      *)
LEMMA CheckedSuffices ==
  ASSUME TypeOK, NEW t \in Txs, Covered(t, legs[t], BinTypes \ Unchecked),
         NEW r \in Rows, IsChecked(r), QtyAt(t, r) >= 0
  PROVE  Left(t, r) <= QtyAt(t, r)
  <1>1. QtyAt(t, r) \in Int
    BY QtyAtType
  <1>2. CASE Negative(t, r) = {}
    BY <1>1, <1>2, LeftIsPart
  <1>3. CASE Negative(t, r) # {}
    <2>1. PICK i \in DOMAIN legs[t] : legs[t][i].row = r /\ legs[t][i].qty < 0
      BY <1>3 DEF Negative
    <2>2. BinType[r[1]] \in BinTypes \ Unchecked
      BY ShapeAssumption DEF IsChecked, Rows
    <2>3. Deduction(legs[t], r) <= QtyAt(t, r)
      BY <2>1, <2>2 DEF Covered
    <2> QED BY <1>1, <2>3, LeftIsPart
  <1> QED BY <1>2, <1>3

LEMMA UpsertLeft ==
  ASSUME TypeOK, NEW t \in Txs, Upsert(t), NEW r \in Rows
  PROVE  /\ legs' = legs /\ todo'[t] = todo[t] \ {NextLeg(t)}
         /\ NextRow(t) # r => Left(t, r)' = Left(t, r) /\ QtyAt(t, r)' = QtyAt(t, r)
         /\ NextRow(t) = r =>
              /\ QtyAt(t, r)' = QtyAt(t, r) + legs[t][NextLeg(t)].qty
              /\ Left(t, r)' = IF legs[t][NextLeg(t)].qty < 0
                               THEN Left(t, r) + legs[t][NextLeg(t)].qty ELSE Left(t, r)
        /\ Left(t, r)' \in Nat
  <1> DEFINE k == NextLeg(t)
             f == Takes(t)
             S == todo[t] \cap Negative(t, r)
  <1>1. /\ k \in todo[t] /\ NextRow(t) \in Rows /\ NextRow(t) = legs[t][k].row
        /\ legs[t][k].qty \in Int /\ k \in DOMAIN legs[t]
    BY NextLegType DEF Upsert, NextRow, TypeOK, ProgressOK
  <1>2. legs' = legs /\ todo'[t] = todo[t] \ {k} /\ actual' = actual
    BY DEF Upsert, TypeOK, ProgramOK, tables
  <1>3. /\ mine' = [mine EXCEPT ![t][NextRow(t)] = QtyAt(t, NextRow(t)) + legs[t][k].qty]
        /\ holds' = [holds EXCEPT ![t] = @ \cup {NextRow(t)}]
    BY DEF Upsert, UpsertedQty
  <1>4. mine \in [Txs -> [Rows -> Int]] /\ holds \in [Txs -> SUBSET Rows]
    BY DEF TypeOK, WritesOK
  <1>5. NextRow(t) # r => QtyAt(t, r)' = QtyAt(t, r)
    BY <1>1, <1>2, <1>3, <1>4 DEF QtyAt
  <1>6. NextRow(t) = r => QtyAt(t, r)' = QtyAt(t, r) + legs[t][k].qty
    BY <1>1, <1>2, <1>3, <1>4 DEF QtyAt
  <1>7. Left(t, r) = SumFunctionOnSet(f, S) /\ Left(t, r)' = SumFunctionOnSet(f, S \ {k})
    <2>1. Takes(t)' = f /\ Negative(t, r)' = Negative(t, r)
      BY <1>2 DEF Takes, Negative
    <2>2. todo'[t] \cap Negative(t, r) = S \ {k}
      BY <1>2
    <2> QED BY <2>1, <2>2 DEF Left
  <1>8. k \in S <=> NextRow(t) = r /\ legs[t][k].qty < 0
    BY <1>1 DEF Negative
  <1>9. IsFiniteSet(S) /\ (\A i \in S : f[i] \in Nat) /\ (k \in S => f[k] = -legs[t][k].qty)
    BY LegsAre, FS_Subset
  <1> HIDE DEF f, S, k
  <1>10. k \in S => /\ SumFunctionOnSet(f, S) = f[k] + SumFunctionOnSet(f, S \ {k})
                    /\ SumFunctionOnSet(f, S \ {k}) \in Int
    <2>1. \A i \in S : f[i] \in Int
      BY <1>9
    <2>2. IsFiniteSet(S \ {k}) /\ \A i \in S \ {k} : f[i] \in Int
      BY <1>9, <2>1, FS_RemoveElement
    <2>3. SumFunctionOnSet(f, S \ {k}) \in Int
      BY <2>2, SumType
    <2> QED BY <1>9, <2>1, <2>3, SumRemove
  <1>11. k \notin S => S \ {k} = S
    OBVIOUS
  <1>12. k \in S => Left(t, r)' = Left(t, r) + legs[t][k].qty
    BY <1>1, <1>7, <1>9, <1>10
  <1>13. k \notin S => Left(t, r)' = Left(t, r)
    BY <1>7, <1>11
  <1>14. Left(t, r)' \in Nat
    <2>1. IsFiniteSet(S \ {k}) /\ \A i \in S \ {k} : f[i] \in Nat
      BY <1>9, FS_RemoveElement
    <2> QED BY <1>7, <2>1, SumNatural
  <1> QED BY <1>2, <1>5, <1>6, <1>8, <1>12, <1>13, <1>14 DEF k

(* Where the check is passed or a leg is taken.                            *)
LEMMA WhoUpserts ==
  ASSUME TypeOK, NEW t \in Txs, Acts(t)
  PROVE  \/ Upsert(t)
         \/ Commit(t)
         \/ /\ actual' = actual /\ pc'[t] # "upsert"
            /\ \/ holds' = holds /\ mine' = mine
               \/ holds'[t] = {}
         \/ ValidateStock(t)
  <1> USE DEF TypeOK, ProgramOK, WritesOK, Goto
  <1>1. ASSUME NEW why \in Ended, Abort(t, why)
        PROVE  actual' = actual /\ pc'[t] # "upsert" /\ holds'[t] = {}
    BY <1>1 DEF Abort, Ended, tables
  <1>2. CASE DuplicateHeader(t) \/ Refuse(t) \/ ResolveDeadlock(t) \/ Lose(t)
    BY <1>1, <1>2 DEF DuplicateHeader, Refuse, ResolveDeadlock, Lose, Ended
  <1>3. CASE Begin(t) \/ ReadLine(t) \/ LockStocktake(t) \/ ReadStocktake(t)
    BY <1>3 DEF Begin, ReadLine, LockStocktake, ReadStocktake, writes, tables
  <1>4. CASE ReadStock(t) \/ InsertHeader(t) \/ MarkLine(t)
    BY <1>4 DEF ReadStock, InsertHeader, MarkLine, AfterMovement, writes, tables
  <1> QED BY <1>2, <1>3, <1>4 DEF Acts, Step

LEMMA SufficesStep ==
  ASSUME MaxOpen <= 1, ~AllowNegative, TypeOK, TypeOK', OneByOne, Suffices, NEW t \in Txs, Acts(t)
  PROVE  Suffices'
  <1> SUFFICES ASSUME NEW r \in Rows, IsChecked(r)
               PROVE  /\ actual'[r] >= 0
                      /\ \A u \in Txs : /\ QtyAt(u, r)' >= 0
                                        /\ pc'[u] = "upsert" => Left(u, r)' <= QtyAt(u, r)'
    BY DEF Suffices, IsChecked
  <1>0. /\ actual[r] >= 0 /\ QtyAt(t, r) >= 0 /\ QtyAt(t, r) \in Int
        /\ pc[t] = "upsert" => Left(t, r) <= QtyAt(t, r)
    BY QtyAtType DEF Suffices
  <1>1. actual'[r] >= 0
    BY <1>0, TablesStay DEF Commit, tables
  <1>2. ASSUME NEW u \in Txs, u # t
        PROVE  QtyAt(u, r)' >= 0 /\ pc'[u] # "upsert"
    <2>1. holds'[u] = {} /\ pc'[u] # "upsert"
      BY <1>2, OthersStay, Alone DEF AtRest, Active
    <2> QED BY <1>1, <2>1 DEF QtyAt
  <1>3. /\ QtyAt(t, r)' >= 0
        /\ pc'[t] = "upsert" => Left(t, r)' <= QtyAt(t, r)'
    <2>1. CASE Upsert(t)
      <3>1. Left(t, r)' \in Nat /\ Left(t, r) \in Nat
        BY <2>1, UpsertLeft, LeftIsPart
      <3>2. pc[t] = "upsert" /\ legs[t][NextLeg(t)].qty \in Int
        BY <2>1, NextLegType DEF Upsert
      <3> QED BY <1>0, <2>1, <3>1, <3>2, UpsertLeft
    <2>2. CASE ValidateStock(t)
      <3>1. Covered(t, legs[t], BinTypes \ Unchecked)
        BY <2>2 DEF ValidateStock, StockSuffices
      <3>2. Left(t, r)' = Left(t, r) /\ QtyAt(t, r)' = QtyAt(t, r)
        BY <2>2 DEF ValidateStock, program, writes, tables, Left, Takes, Negative, QtyAt
      <3> QED BY <1>0, <3>1, <3>2, CheckedSuffices
    <2>3. CASE Commit(t)
      <3>1. holds'[t] = {} /\ pc'[t] = "done"
        BY <2>3 DEF Commit, Goto, TypeOK, ProgramOK, WritesOK
      <3> QED BY <1>1, <3>1 DEF QtyAt
    <2>4. CASE actual' = actual /\ pc'[t] # "upsert" /\ holds' = holds /\ mine' = mine
      BY <1>0, <2>4 DEF QtyAt
    <2>5. CASE pc'[t] # "upsert" /\ holds'[t] = {}
      BY <1>1, <2>5 DEF QtyAt
    <2> QED BY <2>1, <2>2, <2>3, <2>4, <2>5, WhoUpserts
  <1> QED BY <1>1, <1>2, <1>3

(* Of requests one after the other, none takes a stocked bin below zero    *)
(* when the setting forbids it and none was below zero before: what        *)
(* validateNegativeInventory saw of all lines together still covers those  *)
(* that are left to upsert.                                                *)
THEOREM NoNegativeOneByOne ==
  ASSUME MaxOpen <= 1, ~AllowNegative,
         \A r \in Rows : BinType[r[1]] \notin Unchecked => InitialStock[r] >= 0
  PROVE  Spec => []NoNegativeStock
  <1> DEFINE I == TypeOK /\ OneByOne /\ Suffices
  <1>1. Init => I
    <2> SUFFICES ASSUME Init PROVE OneByOne /\ Suffices
      BY InitType
    <2>1. OneByOne
      BY DEF Init, OneByOne, OpenTxs, AtRest, Active
    <2>2. Suffices
      BY DEF Init, Suffices, IsChecked, QtyAt
    <2> QED BY <2>1, <2>2
  <1>2. I /\ [Next]_vars => I'
    <2> SUFFICES ASSUME I, [Next]_vars PROVE I'
      OBVIOUS
    <2>1. TypeOK'
      BY NextType
    <2>2. CASE UNCHANGED vars
      <3>1. OneByOne'
        BY <2>2 DEF vars, tables, program, writes, OneByOne, OpenTxs, AtRest
      <3>2. Suffices'
        BY <2>2 DEF vars, tables, program, writes, Suffices, QtyAt, Left, Takes, Negative
      <3> QED BY <2>1, <3>1, <3>2
    <2>3. ASSUME NEW t \in Txs, Acts(t) PROVE I'
      BY <2>1, <2>3, OneByOneStep, SufficesStep
    <2> QED BY <2>2, <2>3 DEF Next, Acts
  <1>3. I => NoNegativeStock
    BY DEF Suffices, IsChecked, NoNegativeStock
  <1> QED BY <1>1, <1>2, <1>3, PTL DEF Spec
(***************************************************************************)
(* What the legs of a movement add to a row.                               *)
(***************************************************************************)
RowPart(s, r) == [i \in DOMAIN s |-> IF s[i].row = r THEN s[i].qty ELSE 0]
Added(s, S, r) == SumFunctionOnSet(RowPart(s, r), S)
Total(s, r) == Added(s, DOMAIN s, r)

LEMMA PartsAre ==
  ASSUME NEW s \in Seq(Leg), NEW r
  PROVE  /\ IsFiniteSet(DOMAIN s) /\ Len(s) \in Nat /\ DOMAIN s = 1..Len(s)
         /\ \A i \in DOMAIN s : s[i] \in Leg /\ s[i].qty \in Int /\ s[i].row \in Rows
         /\ \A i \in DOMAIN s : RowPart(s, r)[i] \in Int
         /\ Total(s, r) \in Int
  <1>1. DOMAIN s = 1..Len(s) /\ Len(s) \in Nat
    OBVIOUS
  <1>2. IsFiniteSet(DOMAIN s)
    BY <1>1, FS_Interval
  <1>3. \A i \in DOMAIN s : s[i] \in Leg
    OBVIOUS
  <1>4. \A i \in DOMAIN s : s[i].qty \in Int /\ s[i].row \in Rows
    BY <1>3 DEF Leg
  <1>5. \A i \in DOMAIN s : RowPart(s, r)[i] \in Int
    BY <1>4 DEF RowPart
  <1>6. Total(s, r) \in Int
    BY <1>2, <1>5, SumType DEF Total, Added
  <1> QED BY <1>1, <1>2, <1>3, <1>4, <1>5, <1>6

Shift(r, p, from, to, q) == Atomic!Shift(r, p, from, to, q)

LEMMA PairTotal ==
  ASSUME NEW p \in Products, NEW a \in Bins, NEW b \in Bins, NEW q \in Int, NEW r
  PROVE  Total(Pair(p, a, b, q), r) = Shift(r, p, a, b, q)
  <1> DEFINE s == Pair(p, a, b, q)
             f == RowPart(s, r)
  <1>1. DOMAIN s = {1, 2} /\ s[1] = [row |-> <<a, p>>, qty |-> -q] /\ s[2] = [row |-> <<b, p>>, qty |-> q]
    BY DEF Pair
  <1>2. f[1] = (IF r = <<a, p>> THEN -q ELSE 0) /\ f[2] = (IF r = <<b, p>> THEN q ELSE 0)
    BY <1>1 DEF RowPart
  <1>3. Total(s, r) = SumFunctionOnSet(f, {1, 2})
    BY <1>1 DEF Total, Added
  <1> HIDE DEF f
  <1>4. SumFunctionOnSet(f, {1, 2}) = f[1] + f[2]
    <2>1. f[1] \in Int /\ f[2] \in Int
      BY <1>2
    <2>2. 1 # 2
      OBVIOUS
    <2> HIDE DEF s
    <2>3. \A x, y : x # y /\ f[x] \in Int /\ f[y] \in Int => SumFunctionOnSet(f, {x, y}) = f[x] + f[y]
      BY SumTwo
    <2> QED BY <2>1, <2>2, <2>3
  <1> QED BY <1>2, <1>3, <1>4 DEF Shift, Atomic!Shift

LEMMA AppendTotal ==
  ASSUME NEW s \in Seq(Leg), NEW x \in Leg, NEW r
  PROVE  Total(Append(s, x), r) = Total(s, r) + (IF x.row = r THEN x.qty ELSE 0)
  <1> DEFINE n == Len(s)
             z == Append(s, x)
             f == RowPart(s, r)
             g == RowPart(z, r)
             D == 1..n
  <1>1. n \in Nat /\ DOMAIN s = D /\ DOMAIN z = D \cup {n + 1} /\ IsFiniteSet(D)
    BY PartsAre
  <1>2. z \in Seq(Leg) /\ z[n + 1] = x /\ \A i \in D : z[i] = s[i]
    BY <1>1
  <1>3. \A i \in D \cup {n + 1} : g[i] \in Int
    BY <1>1, <1>2, PartsAre
  <1>4. g[n + 1] = (IF x.row = r THEN x.qty ELSE 0) /\ \A i \in D : g[i] = f[i]
    BY <1>1, <1>2 DEF RowPart
  <1>5. Total(z, r) = SumFunctionOnSet(g, D \cup {n + 1}) /\ Total(s, r) = SumFunctionOnSet(f, D)
    BY <1>1 DEF Total, Added
  <1>6. n + 1 \notin D
    BY <1>1
  <1>7. Total(s, r) \in Int
    BY PartsAre
  <1> HIDE DEF f, g, z, n, D
  <1>8. SumFunctionOnSet(g, D \cup {n + 1}) = g[n + 1] + SumFunctionOnSet(g, D)
    BY <1>1, <1>3, <1>6, SumAdd
  <1>9. SumFunctionOnSet(g, D) = SumFunctionOnSet(f, D)
    BY <1>1, <1>3, <1>4, SumSame
  <1>10. g[n + 1] \in Int
    BY <1>3
  <1> QED BY <1>4, <1>5, <1>7, <1>8, <1>9, <1>10 DEF z

(* Every line of a move is a pair of legs.                                 *)
LEMMA MoveTotal ==
  ASSUME NEW lines \in Seq(MoveLine), lines # <<>>, NEW r
  PROVE  Total(MoveLegs(lines), r) =
           SumFunction([i \in DOMAIN lines |->
             Shift(r, lines[i].product, lines[i].source, lines[i].target, lines[i].qty)])
  <1> DEFINE n == Len(lines)
             s == MoveLegs(lines)
             D == 1..(2 * n)
             I == 1..n
             k == [x \in D |-> (x + 1) \div 2]
             f == RowPart(s, r)
             one == [y \in I |-> 1]
             h == [y \in I |-> Shift(r, lines[y].product, lines[y].source, lines[y].target, lines[y].qty)]
  <1>1. n \in Nat /\ DOMAIN lines = I /\ DOMAIN s = D /\ IsFiniteSet(D) /\ IsFiniteSet(I)
    BY FS_Interval DEF MoveLegs
  <1>2. s \in Seq(Leg)
    BY MoveLegsType
  <1>3. \A x \in D : f[x] \in Int
    BY <1>1, <1>2, PartsAre
  <1>4. \A x \in D : k[x] \in I
    BY <1>1
  <1>5. ASSUME NEW y \in I PROVE h[y] = KeySum(k, f, D, y)
    <2> DEFINE m == lines[y]
               g == [x \in D |-> IF k[x] = y THEN f[x] ELSE 0]
               a == 2 * y - 1
               b == 2 * y
               T == {a, b}
    <2>1. m \in MoveLine /\ y \in Nat /\ y >= 1 /\ y <= n
      BY <1>1
    <2>2. a \in D /\ b \in D /\ T \in SUBSET D /\ a # b
      BY <1>1, <2>1
    <2>3. \A x \in D : (x + 1) \div 2 = y <=> x \in T
      BY <1>1, <2>1
    <2>4. (a + 1) \div 2 = y /\ (b + 1) \div 2 = y /\ a % 2 = 1 /\ b % 2 = 0
      BY <2>1
    <2>5. /\ s[a] = [row |-> <<m.source, m.product>>, qty |-> -m.qty]
          /\ s[b] = [row |-> <<m.target, m.product>>, qty |-> m.qty]
      BY <2>2, <2>4 DEF MoveLegs, Pair
    <2>6. /\ f[a] = (IF r = <<m.source, m.product>> THEN -m.qty ELSE 0)
          /\ f[b] = (IF r = <<m.target, m.product>> THEN m.qty ELSE 0)
      <3>1. \A x \in D : f[x] = IF s[x].row = r THEN s[x].qty ELSE 0
        BY <1>1 DEF RowPart
      <3>2. /\ s[a].row = <<m.source, m.product>> /\ s[a].qty = -m.qty
            /\ s[b].row = <<m.target, m.product>> /\ s[b].qty = m.qty
        <4> HIDE DEF s, a, b, m
        <4> QED BY <2>5
      <3>3. /\ f[a] = (IF s[a].row = r THEN s[a].qty ELSE 0)
            /\ f[b] = (IF s[b].row = r THEN s[b].qty ELSE 0)
        <4> HIDE DEF f, s, D, a, b
        <4> QED BY <2>2, <3>1
      <3> HIDE DEF f, s, a, b, m
      <3> QED BY <3>2, <3>3
    <2>7. /\ \A x \in T : f[x] \in Int /\ g[x] = f[x]
          /\ \A x \in D \ T : g[x] = 0
      BY <1>3, <2>2, <2>3
    <2>8. KeySum(k, f, D, y) = SumFunctionOnSet(g, D)
      BY DEF KeySum
    <2>9. h[y] = (IF r = <<m.target, m.product>> THEN m.qty ELSE 0)
                 - (IF r = <<m.source, m.product>> THEN m.qty ELSE 0)
      BY DEF Shift, Atomic!Shift
    <2>10. m.qty \in Int
      BY <2>1 DEF MoveLine
    <2> HIDE DEF f, g, T, D, h, m, a, b
    <2>11. SumFunctionOnSet(g, D) = SumFunctionOnSet(f, T)
      BY <1>1, <2>2, <2>7, SumWhere
    <2>12. SumFunctionOnSet(f, T) = f[a] + f[b]
      BY <2>2, <2>7, SumTwo DEF T
    <2> QED BY <2>6, <2>8, <2>9, <2>10, <2>11, <2>12
  <1>6. \A y \in I : h[y] = one[y] * KeySum(k, f, D, y) /\ one[y] \in Int
    <2>1. \A y \in I : h[y] \in Int
      <3>1. \A y \in I : lines[y] \in MoveLine
        BY <1>1
      <3>2. \A y \in I : lines[y].qty \in Int
        BY <3>1 DEF MoveLine
      <3> QED BY <3>2 DEF Shift, Atomic!Shift
    <2> HIDE DEF h, k, f, D
    <2> QED BY <1>5, <2>1
  <1>7. Total(s, r) = SumFunctionOnSet(f, D) /\ SumFunction(h) = SumFunctionOnSet(h, I)
    BY <1>1 DEF Total, Added, SumFunction
  <1>8. \A x \in D : f[x] = one[k[x]] * f[x]
    <2>1. \A x \in D : one[k[x]] = 1
      BY <1>4
    <2> HIDE DEF one, k, f
    <2> QED BY <1>3, <2>1
  <1>9. DOMAIN lines = I
    BY <1>1
  <1> HIDE DEF D, I, k, f, one, s
  <1>10. Keyed(D, I, k, f, one, h, f)
    BY <1>1, <1>3, <1>4, <1>6, <1>8 DEF Keyed
  <1> HIDE DEF h
  <1>11. SumFunctionOnSet(h, I) = SumFunctionOnSet(f, D)
    BY <1>10, SumByKey
  <1> QED BY <1>7, <1>9, <1>11 DEF h, s

(* The sum over all rows is the sum over all legs.                         *)
LEMMA RowsTotal ==
  ASSUME NEW s \in Seq(Leg), IsFiniteSet(Rows), NEW change, change = [r \in Rows |-> Total(s, r)]
  PROVE  SumFunction(change) = SumFunction([i \in DOMAIN s |-> s[i].qty])
  <1> DEFINE D == DOMAIN s
             k == [x \in D |-> s[x].row]
             f == [x \in D |-> s[x].qty]
             one == [r \in Rows |-> 1]
  <1>1. IsFiniteSet(D) /\ \A x \in D : k[x] \in Rows /\ f[x] \in Int
    BY PartsAre
  <1>2. ASSUME NEW r \in Rows PROVE change[r] = KeySum(k, f, D, r)
    <2>1. RowPart(s, r) = [x \in D |-> IF k[x] = r THEN f[x] ELSE 0]
      BY DEF RowPart
    <2>2. change[r] = SumFunctionOnSet(RowPart(s, r), D)
      BY DEF Total, Added
    <2> QED BY <2>1, <2>2 DEF KeySum
  <1>3. \A r \in Rows : change[r] \in Int /\ one[r] = 1
    BY PartsAre
  <1>4. SumFunction(change) = SumFunctionOnSet(change, Rows) /\ SumFunction(f) = SumFunctionOnSet(f, D)
    BY DEF SumFunction
  <1> HIDE DEF D, k, f, one
  <1>5. Keyed(D, Rows, k, f, one, change, f)
    BY <1>1, <1>2, <1>3 DEF Keyed
  <1>6. SumFunctionOnSet(change, Rows) = SumFunctionOnSet(f, D)
    BY <1>5, SumByKey
  <1> QED BY <1>4, <1>6 DEF f, D

LEMMA NoTotalNoLeg ==
  ASSUME NEW s \in Seq(Leg), NEW r, Total(s, r) # 0
  PROVE  \E i \in DOMAIN s : s[i].row = r
  <1> DEFINE f == RowPart(s, r)
  <1> SUFFICES ASSUME \A i \in DOMAIN s : s[i].row # r PROVE Total(s, r) = 0
    OBVIOUS
  <1>1. \A i \in DOMAIN s : f[i] = 0
    BY DEF RowPart
  <1> HIDE DEF f
  <1>2. SumFunctionOnSet(f, DOMAIN s) = 0
    BY <1>1, PartsAre, SumZero
  <1> QED BY <1>2 DEF Total, Added, f

(***************************************************************************)
(* Requests as AtomicStock has them.                                       *)
(***************************************************************************)
(* What the legs that were upserted have added to a row.                   *)
Done(t, r) == Added(legs[t], DOMAIN legs[t] \ todo[t], r)

Waiting  == {"idle", "line", "stock"}
Moving   == {"header", "check", "upsert"}
Finished == {"mark", "commit"}

(* The first n lines of a bulk putaway make this change, but for the rows  *)
(* that were counted.                                                      *)
PutShift(d, i, from, r) ==
  Shift(r, LineProduct[d.lines[i].line], from, d.lines[i].dest,
        d.lines[i].qty * LineRatio[d.lines[i].line])
PutsFirst(d, n, change) ==
  \E from \in [1..n -> Bins] :
    /\ \A i \in 1..n : from[i] \in StagingBins[d.lines[i].line]
    /\ \A r \in Rows \ Atomic!Counted(d.lines) :
         change[r] = SumFunctionOnSet([i \in 1..n |-> PutShift(d, i, from[i], r)], 1..n)

(* The legs of a putaway make the change of its line.                      *)
PutLegs(t) ==
  \E from \in Bins :
    /\ from \in StagingBins[Document(t)]
    /\ \A r \in Rows \ Atomic!Counted(dto[t].lines) :
         Total(legs[t], r) = PutShift(dto[t], item[t], from, r)

PutawayOK(t) ==
  Kind(t) = "putaway" =>
    /\ pc[t] \in {"line", "stock"} => PutsFirst(dto[t], item[t] - 1, posted[t])
    /\ pc[t] = "stock" => route[t].source \in StagingBins[Document(t)]
    /\ pc[t] \in Moving =>
         /\ PutLegs(t)
         /\ \E base \in [Rows -> Int] :
              /\ PutsFirst(dto[t], item[t] - 1, base)
              /\ \A r \in Rows : posted[t][r] = base[r] + Done(t, r)
    /\ pc[t] \in Finished => PutsFirst(dto[t], item[t], posted[t])

(* The legs of every other request are those of its body.                  *)
LegsOK(t) ==
  /\ pc[t] \in Waiting /\ Kind(t) # "putaway" => legs[t] = <<>> /\ todo[t] = {}
  /\ pc[t] \in Moving \cup Finished =>
       /\ Kind(t) = "move" => legs[t] = MoveLegs(dto[t].lines)
       /\ Adjusts(t) =>
            /\ DOMAIN legs[t] = DOMAIN dto[t].lines
            /\ \A i \in DOMAIN legs[t] :
                 legs[t][i].row = <<dto[t].lines[i].bin, dto[t].lines[i].product>>
       /\ Kind(t) = "quarantine" =>
            \E a, b \in Bins, q \in Int : legs[t] = Pair(dto[t].product, a, b, q)
       /\ Kind(t) = "state" => legs[t] = <<>>
PostedOK(t) ==
  Kind(t) # "putaway" /\ pc[t] \notin Ended => \A r \in Rows : posted[t][r] = Done(t, r)

(* Only documents that the request names are numbered, and a stocktake     *)
(* that changed stock is.                                                  *)
NumbersOK(t) ==
  /\ pc[t] = "idle" => headers[t] = {} /\ legs[t] = <<>> /\ todo[t] = {} /\ \A r \in Rows : posted[t][r] = 0
  /\ Kind(t) # "putaway" => item[t] = 1
  /\ Kind(t) = "putaway" => headers[t] \subseteq {DocNumber[l] : l \in PutLines}
  /\ Kind(t) = "stocktake" =>
       /\ headers[t] \subseteq {DocNumber[dto[t].line]}
       /\ pc[t] \in {"check", "upsert"} => headers[t] # {}
       /\ headers[t] = {} => \A r \in Rows : posted[t][r] = 0
  /\ Kind(t) \notin {"putaway", "stocktake"} => headers[t] = {}
BodyOK(t) == NumbersOK(t) /\ LegsOK(t) /\ PostedOK(t) /\ PutawayOK(t)

LEMMA SameBody ==
  ASSUME NEW t \in Txs, pc'[t] = pc[t], dto'[t] = dto[t], item'[t] = item[t],
         route'[t] = route[t], legs'[t] = legs[t], todo'[t] = todo[t],
         headers'[t] = headers[t], posted'[t] = posted[t]
  PROVE  BodyOK(t)' <=> BodyOK(t)
  <1>1. Kind(t)' = Kind(t) /\ Document(t)' = Document(t) /\ Adjusts(t)' = Adjusts(t)
    BY DEF Kind, Document, Adjusts
  <1>2. \A r : Done(t, r)' = Done(t, r)
    BY DEF Done
  <1>3. PutLegs(t)' <=> PutLegs(t)
    BY <1>1 DEF PutLegs
  <1> QED BY <1>1, <1>2, <1>3 DEF BodyOK, NumbersOK, LegsOK, PostedOK, PutawayOK

LEMMA EndBody ==
  ASSUME NEW t \in Txs, BodyOK(t), pc'[t] \in Ended, dto'[t] = dto[t], item'[t] = item[t],
         headers'[t] = {}, \A r \in Rows : posted'[t][r] = 0
  PROVE  BodyOK(t)'
  <1>1. Kind(t)' = Kind(t)
    BY DEF Kind
  <1>2. pc'[t] \notin Waiting \cup Moving \cup Finished \cup {"line", "stock", "idle"}
    BY DEF Ended, Waiting, Moving, Finished
  <1> QED BY <1>1, <1>2 DEF BodyOK, NumbersOK, LegsOK, PostedOK, PutawayOK, Waiting, Moving, Finished

LEMMA NothingDone ==
  ASSUME NEW s, NEW S, S = {}, NEW r
  PROVE  Added(s, S, r) = 0
  BY SumEmpty DEF Added

LEMMA PutsNone ==
  ASSUME NEW d, NEW change, \A r \in Rows : change[r] = 0
  PROVE  PutsFirst(d, 0, change)
  <1> DEFINE from == [i \in 1..0 |-> QuarantineBin]
  <1>1. from \in [1..0 -> Bins] /\ 1..0 = {}
    OBVIOUS
  <1>2. \A f : SumFunctionOnSet(f, 1..0) = 0
    BY <1>1, SumEmpty
  <1> QED BY <1>1, <1>2 DEF PutsFirst

LEMMA BeginBody ==
  ASSUME TypeOK, NEW t \in Txs, BodyOK(t), Begin(t)
  PROVE  BodyOK(t)'
  <1> USE DEF TypeOK, ProgramOK, WritesOK, Goto
  <1>1. /\ pc[t] = "idle" /\ item[t] = 1 /\ headers[t] = {} /\ legs[t] = <<>> /\ todo[t] = {}
        /\ \A r \in Rows : posted[t][r] = 0
    BY DEF Begin, BodyOK, NumbersOK, ProgressOK
  <1>2. /\ item'[t] = 1 /\ headers'[t] = {} /\ legs'[t] = <<>> /\ todo'[t] = {}
        /\ \A r \in Rows : posted'[t][r] = 0
    BY <1>1 DEF Begin, writes
  <1>3. pc'[t] \in {"line", "stock"} /\ (Kind(t)' = "putaway" => pc'[t] = "line")
    BY DEF Begin, Kind
  <1>4. \A r \in Rows : Done(t, r)' = 0
    BY <1>2, NothingDone DEF Done
  <1>5. PutsFirst(dto'[t], 0, posted'[t])
    BY <1>2, PutsNone
  <1>6. NumbersOK(t)' /\ LegsOK(t)' /\ PostedOK(t)'
    BY <1>2, <1>3, <1>4 DEF NumbersOK, LegsOK, PostedOK, Moving, Finished, Waiting
  <1>7. PutawayOK(t)'
    BY <1>2, <1>3, <1>5 DEF PutawayOK, Moving, Finished
  <1> QED BY <1>6, <1>7 DEF BodyOK

LEMMA ReadBody ==
  ASSUME TypeOK, NEW t \in Txs, BodyOK(t), ReadLine(t) \/ LockStocktake(t) \/ ReadStocktake(t)
  PROVE  BodyOK(t)'
  <1> USE DEF TypeOK, ProgramOK, WritesOK, Goto
  <1>1. /\ pc[t] = "line" /\ dto' = dto /\ item' = item /\ legs' = legs /\ todo' = todo
        /\ headers' = headers /\ posted' = posted
        /\ pc'[t] = (IF Kind(t) = "state" THEN "mark" ELSE "stock")
    BY DEF ReadLine, LockStocktake, ReadStocktake, program, writes
  <1>2. Kind(t)' = Kind(t) /\ Adjusts(t)' = Adjusts(t) /\ Document(t)' = Document(t)
    BY <1>1 DEF Kind, Adjusts, Document
  <1>3. \A r : Done(t, r)' = Done(t, r)
    BY <1>1 DEF Done
  <1>4. Kind(t) = "putaway" => route'[t].source \in StagingBins[Document(t)]
    <2> SUFFICES ASSUME Kind(t) = "putaway" PROVE route'[t].source \in StagingBins[Document(t)]
      OBVIOUS
    <2>1. route'[t] = LineRoute(t)
      BY DEF ReadLine, LockStocktake, ReadStocktake
    <2>2. Document(t) \in PutLines
      BY DocumentNamed, DocumentType
    <2> QED BY <2>1, <2>2 DEF LineRoute, StagedIn, StagingBins
  <1>5. NumbersOK(t)' /\ PostedOK(t)'
    BY <1>1, <1>2, <1>3 DEF BodyOK, NumbersOK, PostedOK, Ended
  <1>6. LegsOK(t)'
    BY <1>1, <1>2 DEF BodyOK, LegsOK, Waiting, Moving, Finished, Adjusts
  <1>7. PutawayOK(t)'
    BY <1>1, <1>2, <1>4 DEF BodyOK, PutawayOK, Moving, Finished
  <1> QED BY <1>5, <1>6, <1>7 DEF BodyOK

(* What ReadStock builds is what the body asks for.                        *)
LEMMA MovementsFit ==
  ASSUME TypeOK, NEW t \in Txs, pc[t] = "stock", NEW s \in Movements(t)
  PROVE  /\ Kind(t) = "move" => s = MoveLegs(dto[t].lines)
         /\ Adjusts(t) => /\ DOMAIN s = DOMAIN dto[t].lines
                          /\ \A i \in DOMAIN s :
                               s[i].row = <<dto[t].lines[i].bin, dto[t].lines[i].product>>
         /\ Kind(t) = "quarantine" =>
              \E a, b \in Bins, q \in Int : s = Pair(dto[t].product, a, b, q)
         /\ Kind(t) # "state"
  <1>1. CASE Kind(t) = "move"
    BY <1>1 DEF Movements, Adjusts
  <1>2. CASE Adjusts(t)
    <2>1. s = AdjustLegs(t)
      BY <1>2 DEF Movements, Adjusts
    <2> QED BY <1>2, <2>1 DEF AdjustLegs, Adjusts
  <1>3. CASE Kind(t) = "quarantine"
    <2>1. dto[t] \in QuarantineDto /\ route[t].source \in Bins
      BY <1>3, DtoShape DEF Kind, TypeOK, ProgramOK, Movements, Adjusts
    <2>2. QuarantineQty(t) \in Int
      BY <2>1, ShapeAssumption DEF QuarantineQty, QuarantineDto
    <2>3. QuarantineTargets(t) \subseteq Bins
      BY DEF QuarantineTargets, TypeOK, ProgramOK
    <2>4. PICK b \in QuarantineTargets(t) :
            s = Pair(dto[t].product, route[t].source, b, QuarantineQty(t))
      BY <1>3 DEF Movements, Adjusts
    <2> QED BY <1>3, <2>1, <2>2, <2>3, <2>4 DEF Adjusts
  <1>4. Kind(t) # "state"
    BY DEF TypeOK, ProgressOK
  <1> QED BY <1>1, <1>2, <1>3, <1>4

LEMMA PutawayLegsTotal ==
  ASSUME TypeOK, NEW t \in Txs, pc[t] = "stock", Kind(t) = "putaway",
         NEW r \in Rows \ Atomic!Counted(dto[t].lines)
  PROVE  Total(PutawayLegs(t), r) = PutShift(dto[t], item[t], route[t].source, r)
  <1> DEFINE lines == dto[t].lines
             p == lines[item[t]]
             dest == <<p.dest, LineProduct[p.line]>>
             counted == p.newTotal - (QtyAt(t, dest) + p.qty)
             moved == p.qty * LineRatio[p.line]
             corrected == counted * LineRatio[p.line]
             pair == Pair(LineProduct[p.line], route[t].source, p.dest, moved)
             x == [row |-> dest, qty |-> corrected]
  <1>1. p \in PutawayLine /\ item[t] \in DOMAIN lines
    <2>1. lines \in Seq(PutawayLine) /\ item[t] \in Nat \ {0} /\ item[t] <= Len(lines)
      BY DtoShape DEF TypeOK, ProgramOK, ProgressOK, Kind
    <2> QED BY <2>1
  <1>2. route[t].source \in Bins
    BY DEF TypeOK, ProgramOK, ProgressOK
  <1>3. /\ LineProduct[p.line] \in Products /\ p.dest \in Bins /\ dest \in Rows
        /\ p.qty \in Int /\ LineRatio[p.line] \in Int /\ moved \in Int
    BY <1>1, ShapeAssumption DEF PutawayLine, Rows
  <1>4. Total(pair, r) = PutShift(dto[t], item[t], route[t].source, r)
    <2>1. PutShift(dto[t], item[t], route[t].source, r) =
            Shift(r, LineProduct[p.line], route[t].source, p.dest, moved)
      BY DEF PutShift
    <2> HIDE DEF moved, p
    <2> QED BY <1>2, <1>3, <2>1, PairTotal
  <1>5. PutawayLegs(t) = IF p.newTotal = NoTotal \/ counted = 0 THEN pair ELSE Append(pair, x)
    BY DEF PutawayLegs
  <1>6. CASE p.newTotal = NoTotal \/ counted = 0
    BY <1>4, <1>5, <1>6
  <1>7. CASE ~(p.newTotal = NoTotal \/ counted = 0)
    <2>1. p.newTotal \in Int
      BY <1>1, <1>7 DEF PutawayLine
    <2>2. dest \in Atomic!Counted(lines)
      BY <1>1, <2>1 DEF Atomic!Counted
    <2>3. x \in Leg /\ pair \in Seq(Leg)
      <3>1. QtyAt(t, dest) \in Int
        BY <1>3, QtyAtType
      <3>2. corrected \in Int
        <4> HIDE DEF dest, p
        <4> QED BY <1>3, <2>1, <3>1
      <3>3. pair \in Seq(Leg)
        <4> HIDE DEF moved, p
        <4> QED BY <1>2, <1>3, PairType
      <3> HIDE DEF corrected, dest, pair
      <3> QED BY <1>3, <3>2, <3>3 DEF Leg
    <2>4. x.row # r
      BY <2>2
    <2>5. PutawayLegs(t) = Append(pair, x)
      BY <1>5, <1>7
    <2>6. Total(pair, r) \in Int
      BY <2>3, PartsAre
    <2> HIDE DEF pair, x
    <2>7. Total(Append(pair, x), r) = Total(pair, r) + (IF x.row = r THEN x.qty ELSE 0)
      BY <2>3, AppendTotal
    <2>8. Total(Append(pair, x), r) = Total(pair, r)
      BY <2>4, <2>6, <2>7
    <2> QED BY <1>4, <2>5, <2>8 DEF pair
  <1> QED BY <1>6, <1>7

LEMMA StockBody ==
  ASSUME TypeOK, NEW t \in Txs, BodyOK(t), ReadStock(t)
  PROVE  BodyOK(t)'
  <1> USE DEF TypeOK, ProgramOK, WritesOK, Goto
  <1>1. PICK s \in Movements(t) :
          /\ legs' = [legs EXCEPT ![t] = s]
          /\ todo' = [todo EXCEPT ![t] = {i \in DOMAIN s : Adjusts(t) => s[i].qty # 0}]
          /\ pc' = [pc EXCEPT ![t] = IF todo'[t] # {} THEN "header" ELSE AfterMovement(t)]
    BY DEF ReadStock
  <1>2. /\ pc[t] = "stock" /\ dto' = dto /\ item' = item /\ route' = route
        /\ headers' = headers /\ posted' = posted
        /\ legs'[t] = s /\ todo'[t] = {i \in DOMAIN s : Adjusts(t) => s[i].qty # 0}
        /\ pc'[t] = IF todo'[t] # {} THEN "header" ELSE AfterMovement(t)
    BY <1>1 DEF ReadStock, writes
  <1>3. pc'[t] \in {"header"} \cup Finished
    BY <1>2 DEF AfterMovement, Finished
  <1>4. s \in Seq(Leg) /\ (~Adjusts(t) => DOMAIN s # {})
    BY <1>2, MovementsType
  <1>5. Kind(t)' = Kind(t) /\ Adjusts(t)' = Adjusts(t) /\ Document(t)' = Document(t)
    BY <1>2 DEF Kind, Adjusts, Document
  <1>6. ASSUME NEW r PROVE Done(t, r)' = 0
    <2> DEFINE S == DOMAIN s \ {i \in DOMAIN s : Adjusts(t) => s[i].qty # 0}
               f == RowPart(s, r)
    <2>1. Done(t, r)' = SumFunctionOnSet(f, S)
      BY <1>2 DEF Done, Added
    <2>2. IsFiniteSet(S)
      BY <1>4, PartsAre, FS_Subset
    <2>3. \A i \in S : f[i] = 0
      BY DEF RowPart
    <2> HIDE DEF S, f
    <2> QED BY <2>1, <2>2, <2>3, SumZero
  <1>7. NumbersOK(t)'
    BY <1>2, <1>3, <1>5 DEF BodyOK, NumbersOK, Finished
  <1>8. LegsOK(t)'
    <2>1. Kind(t) # "state"
      BY <1>2, MovementsFit
    <2>2. pc'[t] \notin Waiting
      BY <1>3 DEF Finished, Waiting
    <2> QED BY <1>2, <1>5, <2>1, <2>2, MovementsFit DEF LegsOK
  <1>9. PostedOK(t)'
    <2> SUFFICES ASSUME Kind(t) # "putaway", NEW r \in Rows PROVE posted[t][r] = 0
      BY <1>2, <1>5, <1>6 DEF PostedOK
    <2>1. legs[t] = <<>> /\ todo[t] = {}
      BY <1>2 DEF BodyOK, LegsOK, Waiting
    <2>2. Done(t, r) = 0
      BY <2>1, NothingDone DEF Done
    <2> QED BY <1>2, <2>2 DEF BodyOK, PostedOK, Ended
  <1>10. PutawayOK(t)'
    <2> SUFFICES ASSUME Kind(t) = "putaway" PROVE PutawayOK(t)'
      BY <1>5 DEF PutawayOK
    <2>1. pc'[t] = "header"
      BY <1>2, <1>4 DEF Adjusts
    <2>2. s = PutawayLegs(t)
      BY <1>2 DEF Movements, Adjusts
    <2>3. PutsFirst(dto[t], item[t] - 1, posted[t]) /\ route[t].source \in StagingBins[Document(t)]
      BY <1>2 DEF BodyOK, PutawayOK
    <2>4. \A r \in Rows \ Atomic!Counted(dto[t].lines) :
            Total(s, r) = PutShift(dto[t], item[t], route[t].source, r)
      BY <1>2, <2>2, PutawayLegsTotal
    <2>5. route[t].source \in Bins
      BY <1>2 DEF ProgressOK
    <2>6. PutLegs(t)'
      BY <1>2, <1>5, <2>3, <2>4, <2>5 DEF PutLegs
    <2>7. posted[t] \in [Rows -> Int] /\ \A r \in Rows : posted[t][r] = posted[t][r] + 0
      OBVIOUS
    <2> QED BY <1>2, <1>5, <1>6, <2>1, <2>3, <2>6, <2>7 DEF PutawayOK, Moving, Finished
  <1> QED BY <1>7, <1>8, <1>9, <1>10 DEF BodyOK

LEMMA HeaderBody ==
  ASSUME TypeOK, NEW t \in Txs, BodyOK(t), InsertHeader(t) \/ ValidateStock(t)
  PROVE  BodyOK(t)'
  <1> USE DEF TypeOK, ProgramOK, WritesOK, Goto
  <1>1. /\ dto' = dto /\ item' = item /\ legs' = legs /\ todo' = todo /\ posted' = posted
        /\ pc[t] \in {"header", "check"} /\ pc'[t] \in {"check", "upsert"}
    BY DEF InsertHeader, ValidateStock, program, writes
  <1>2. Kind(t)' = Kind(t) /\ Adjusts(t)' = Adjusts(t) /\ Document(t)' = Document(t)
    BY <1>1 DEF Kind, Adjusts, Document
  <1>3. \A r : Done(t, r)' = Done(t, r)
    BY <1>1 DEF Done
  <1>4. NumbersOK(t)'
    <2>1. CASE InsertHeader(t)
      <3>1. headers'[t] = headers[t] \cup EntryKey(t)
        BY <2>1 DEF InsertHeader
      <3>2. Kind(t) = "putaway" => EntryKey(t) \subseteq {DocNumber[l] : l \in PutLines}
        BY DocumentNamed, DocumentType DEF EntryKey
      <3>3. Kind(t) = "stocktake" => EntryKey(t) = {DocNumber[dto[t].line]}
        BY DEF EntryKey, Document
      <3>4. Kind(t) \notin {"putaway", "stocktake"} => EntryKey(t) = {}
        BY DEF EntryKey
      <3> QED BY <1>1, <1>2, <3>1, <3>2, <3>3, <3>4 DEF BodyOK, NumbersOK
    <2>2. CASE ValidateStock(t)
      <3>1. headers' = headers /\ pc[t] = "check"
        BY <2>2 DEF ValidateStock, writes
      <3> QED BY <1>1, <1>2, <3>1 DEF BodyOK, NumbersOK
    <2> QED BY <2>1, <2>2
  <1>5. LegsOK(t)'
    BY <1>1, <1>2 DEF BodyOK, LegsOK, Moving, Waiting, Finished, Adjusts
  <1>6. PostedOK(t)'
    BY <1>1, <1>2, <1>3 DEF BodyOK, PostedOK, Ended
  <1>7. PutawayOK(t)'
    <2>1. PutLegs(t)' <=> PutLegs(t)
      BY <1>1, <1>2 DEF PutLegs
    <2> QED BY <1>1, <1>2, <1>3, <2>1 DEF BodyOK, PutawayOK, Moving, Finished
  <1> QED BY <1>4, <1>5, <1>6, <1>7 DEF BodyOK

LEMMA PutShiftType ==
  ASSUME NEW d \in Dtos, d.kind = "putaway", NEW i \in DOMAIN d.lines, NEW from, NEW r
  PROVE  PutShift(d, i, from, r) \in Int
  <1>1. d.lines[i] \in PutawayLine
    BY DtoShape
  <1> DEFINE q == d.lines[i].qty * LineRatio[d.lines[i].line]
  <1>2. q \in Int
    BY <1>1, ShapeAssumption DEF PutawayLine
  <1>3. PutShift(d, i, from, r) = Shift(r, LineProduct[d.lines[i].line], from, d.lines[i].dest, q)
    BY DEF PutShift
  <1> HIDE DEF q
  <1> QED BY <1>2, <1>3 DEF PutShift, Shift, Atomic!Shift

(* One line more.                                                          *)
LEMMA PutsNext ==
  ASSUME NEW d \in Dtos, d.kind = "putaway", NEW n \in DOMAIN d.lines,
         NEW base \in [Rows -> Int], PutsFirst(d, n - 1, base),
         NEW b \in Bins, b \in StagingBins[d.lines[n].line],
         NEW change, \A r \in Rows \ Atomic!Counted(d.lines) :
                       change[r] = base[r] + PutShift(d, n, b, r)
  PROVE  PutsFirst(d, n, change)
  <1> DEFINE N == Len(d.lines)
  <1>1. DOMAIN d.lines = 1..N /\ N \in Nat /\ n \in Nat /\ n >= 1 /\ n <= N
    BY DtoShape
  <1>2. PICK from \in [1..(n - 1) -> Bins] :
          /\ \A i \in 1..(n - 1) : from[i] \in StagingBins[d.lines[i].line]
          /\ \A r \in Rows \ Atomic!Counted(d.lines) :
               base[r] = SumFunctionOnSet([i \in 1..(n - 1) |-> PutShift(d, i, from[i], r)], 1..(n - 1))
    BY DEF PutsFirst
  <1> DEFINE next == [i \in 1..n |-> IF i = n THEN b ELSE from[i]]
             S == 1..(n - 1)
  <1>3. 1..n = S \cup {n} /\ n \notin S /\ IsFiniteSet(S) /\ S \subseteq DOMAIN d.lines
    <2>1. n - 1 \in Int /\ 1 \in Int
      BY <1>1
    <2>2. IsFiniteSet(S)
      BY <2>1, FS_Interval
    <2> QED BY <1>1, <2>2
  <1>4. next \in [1..n -> Bins] /\ next[n] = b /\ \A i \in S : next[i] = from[i]
    BY <1>1, <1>3
  <1>5. \A i \in 1..n : next[i] \in StagingBins[d.lines[i].line]
    BY <1>2, <1>3, <1>4
  <1>6. ASSUME NEW r \in Rows \ Atomic!Counted(d.lines)
        PROVE  change[r] = SumFunctionOnSet([i \in 1..n |-> PutShift(d, i, next[i], r)], 1..n)
    <2> DEFINE f == [i \in S |-> PutShift(d, i, from[i], r)]
               g == [i \in 1..n |-> PutShift(d, i, next[i], r)]
    <2>1. /\ \A i \in S \cup {n} : g[i] \in Int
          /\ g[n] = PutShift(d, n, b, r)
          /\ \A i \in S : g[i] = f[i]
      <3>1. \A i \in 1..n : PutShift(d, i, next[i], r) \in Int
        <4> HIDE DEF next
        <4>1. 1..n \subseteq DOMAIN d.lines
          BY <1>1
        <4> QED BY <4>1, PutShiftType
      <3> HIDE DEF next, S
      <3> QED BY <1>1, <1>3, <1>4, <3>1
    <2>2. base[r] = SumFunctionOnSet(f, S) /\ base[r] \in Int
      BY <1>2
    <2> HIDE DEF f, g, S
    <2>3. SumFunctionOnSet(g, S \cup {n}) = g[n] + SumFunctionOnSet(g, S)
      BY <1>3, <2>1, SumAdd
    <2>4. SumFunctionOnSet(g, S) = SumFunctionOnSet(f, S)
      BY <1>3, <2>1, SumSame
    <2>5. g[n] \in Int
      BY <2>1
    <2>6. SumFunctionOnSet(g, 1..n) = SumFunctionOnSet(g, S \cup {n})
      BY <1>3
    <2>7. SumFunctionOnSet(g, 1..n) = base[r] + PutShift(d, n, b, r)
      BY <2>1, <2>2, <2>3, <2>4, <2>5, <2>6
    <2> QED BY <2>7 DEF g
  <1> HIDE DEF next
  <1> QED BY <1>4, <1>5, <1>6 DEF PutsFirst

LEMMA UpsertDone ==
  ASSUME TypeOK, NEW t \in Txs, Upsert(t), NEW r \in Rows
  PROVE  /\ Done(t, r)' \in Int
         /\ posted[t][r] = Done(t, r) => posted'[t][r] = Done(t, r)'
         /\ \A base \in Int : posted[t][r] = base + Done(t, r) => posted'[t][r] = base + Done(t, r)'
  <1> DEFINE k == NextLeg(t)
             s == legs[t]
             f == RowPart(s, r)
             D == DOMAIN s \ todo[t]
  <1>1. /\ k \in todo[t] /\ NextRow(t) \in Rows /\ NextRow(t) = s[k].row
        /\ s[k].qty \in Int /\ k \in DOMAIN s /\ s \in Seq(Leg)
    BY NextLegType DEF Upsert, NextRow, TypeOK, ProgressOK, ProgramOK
  <1>2. legs' = legs /\ todo'[t] = todo[t] \ {k}
    BY DEF Upsert, TypeOK, ProgramOK
  <1>3. posted' = [posted EXCEPT ![t][NextRow(t)] = @ + s[k].qty]
    BY DEF Upsert
  <1>4. posted \in [Txs -> [Rows -> Int]]
    BY DEF TypeOK, WritesOK
  <1>5. f[k] = (IF NextRow(t) = r THEN s[k].qty ELSE 0) /\ f[k] \in Int
    BY <1>1 DEF RowPart
  <1>6. posted'[t][r] = posted[t][r] + f[k] /\ posted[t][r] \in Int
    BY <1>1, <1>3, <1>4, <1>5
  <1>7. DOMAIN s \ todo'[t] = D \cup {k} /\ k \notin D
    BY <1>1, <1>2
  <1>8. IsFiniteSet(D) /\ \A i \in D \cup {k} : f[i] \in Int
    <2>1. IsFiniteSet(DOMAIN s) /\ \A i \in DOMAIN s : f[i] \in Int
      BY <1>1, PartsAre
    <2>2. D \subseteq DOMAIN s
      OBVIOUS
    <2> HIDE DEF f, D, s
    <2> QED BY <1>1, <2>1, <2>2, FS_Subset
  <1>9. Done(t, r) = SumFunctionOnSet(f, D) /\ Done(t, r)' = SumFunctionOnSet(f, D \cup {k})
    BY <1>2, <1>7 DEF Done, Added
  <1> HIDE DEF f, D, s, k
  <1>10. SumFunctionOnSet(f, D \cup {k}) = f[k] + SumFunctionOnSet(f, D)
    BY <1>7, <1>8, SumAdd
  <1>11. SumFunctionOnSet(f, D) \in Int
    BY <1>8, SumType
  <1> DEFINE x == f[k]
             old == Done(t, r)
             new == Done(t, r)'
             was == posted[t][r]
             is == posted'[t][r]
  <1>12. new = x + old /\ old \in Int /\ x \in Int
    BY <1>5, <1>9, <1>10, <1>11
  <1>13. is = was + x /\ was \in Int
    BY <1>6
  <1> HIDE DEF x, old, new, was, is
  <1>14. new \in Int
    BY <1>12
  <1>15. was = old => is = new
    BY <1>12, <1>13
  <1>16. \A base \in Int : was = base + old => is = base + new
    BY <1>12, <1>13
  <1> QED BY <1>14, <1>15, <1>16 DEF old, new, was, is

LEMMA UpsertBody ==
  ASSUME TypeOK, NEW t \in Txs, BodyOK(t), Upsert(t)
  PROVE  BodyOK(t)'
  <1> USE DEF TypeOK, ProgramOK, WritesOK, Goto
  <1>1. /\ dto' = dto /\ item' = item /\ legs' = legs /\ headers' = headers
        /\ pc[t] = "upsert"
        /\ pc'[t] = IF todo'[t] # {} THEN "upsert" ELSE AfterMovement(t)
    BY DEF Upsert
  <1>2. Kind(t)' = Kind(t) /\ Adjusts(t)' = Adjusts(t) /\ Document(t)' = Document(t)
    BY <1>1 DEF Kind, Adjusts, Document
  <1>3. pc'[t] \in {"upsert"} \cup Finished
    BY <1>1 DEF AfterMovement, Finished
  <1>4. NumbersOK(t)'
    BY <1>1, <1>2, <1>3 DEF BodyOK, NumbersOK, Finished
  <1>5. LegsOK(t)'
    BY <1>1, <1>2, <1>3 DEF BodyOK, LegsOK, Moving, Waiting, Finished, Adjusts
  <1>6. PostedOK(t)'
    <2> SUFFICES ASSUME Kind(t) # "putaway", NEW r \in Rows PROVE posted'[t][r] = Done(t, r)'
      BY <1>2 DEF PostedOK
    <2>1. posted[t][r] = Done(t, r)
      BY <1>1 DEF BodyOK, PostedOK, Ended
    <2> QED BY <2>1, UpsertDone
  <1>7. PutawayOK(t)'
    <2> SUFFICES ASSUME Kind(t) = "putaway" PROVE PutawayOK(t)'
      BY <1>2 DEF PutawayOK
    <2>1. PICK base \in [Rows -> Int] :
            /\ PutsFirst(dto[t], item[t] - 1, base)
            /\ \A r \in Rows : posted[t][r] = base[r] + Done(t, r)
      BY <1>1 DEF BodyOK, PutawayOK, Moving
    <2>2. \A r \in Rows : posted'[t][r] = base[r] + Done(t, r)' /\ Done(t, r)' \in Int
      <3> SUFFICES ASSUME NEW r \in Rows PROVE posted'[t][r] = base[r] + Done(t, r)' /\ Done(t, r)' \in Int
        OBVIOUS
      <3>1. base[r] \in Int /\ posted[t][r] = base[r] + Done(t, r)
        BY <2>1
      <3> QED BY <3>1, UpsertDone
    <2>3. PutLegs(t)
      BY <1>1 DEF BodyOK, PutawayOK, Moving
    <2>4. CASE pc'[t] = "upsert"
      <3>1. PutLegs(t)'
        BY <1>1, <1>2, <2>3 DEF PutLegs
      <3> QED BY <1>1, <1>2, <2>1, <2>2, <2>4, <3>1 DEF PutawayOK, Moving, Finished
    <2>5. CASE pc'[t] \in Finished
      <3>1. todo'[t] = {}
        BY <1>1, <2>5 DEF Finished
      <3>2. \A r : Done(t, r)' = Total(legs[t], r)
        BY <1>1, <3>1 DEF Done, Total
      <3>3. PICK b \in Bins :
              /\ b \in StagingBins[Document(t)]
              /\ \A r \in Rows \ Atomic!Counted(dto[t].lines) :
                   Total(legs[t], r) = PutShift(dto[t], item[t], b, r)
        BY <2>3 DEF PutLegs
      <3>4. \A r \in Rows \ Atomic!Counted(dto[t].lines) :
              posted'[t][r] = base[r] + PutShift(dto[t], item[t], b, r)
        BY <2>2, <3>2, <3>3
      <3>5. item[t] \in DOMAIN dto[t].lines /\ dto[t] \in Dtos /\ dto[t].kind = "putaway"
        <4>1. dto[t].lines \in Seq(PutawayLine) /\ item[t] \in Nat \ {0} /\ item[t] <= Len(dto[t].lines)
          BY DtoShape DEF ProgressOK, Kind
        <4> QED BY <4>1 DEF Kind
      <3>6. b \in StagingBins[dto[t].lines[item[t]].line]
        BY <3>3 DEF Document
      <3>7. PutsFirst(dto[t], item[t], posted'[t])
        BY <2>1, <3>4, <3>5, <3>6, PutsNext
      <3> QED BY <1>1, <1>2, <2>5, <3>7 DEF PutawayOK, Moving, Finished
    <2> QED BY <1>3, <2>4, <2>5
  <1> QED BY <1>4, <1>5, <1>6, <1>7 DEF BodyOK

LEMMA MarkBody ==
  ASSUME TypeOK, NEW t \in Txs, BodyOK(t), MarkLine(t)
  PROVE  BodyOK(t)'
  <1> USE DEF TypeOK, ProgramOK, WritesOK, Goto
  <1>1. /\ dto' = dto /\ legs' = legs /\ headers' = headers /\ todo' = todo /\ posted' = posted
        /\ pc[t] = "mark"
        /\ \/ Kind(t) = "putaway" /\ pc'[t] = "line" /\ item'[t] = item[t] + 1
           \/ pc'[t] = "commit" /\ item'[t] = item[t]
    BY DEF MarkLine
  <1>2. Kind(t)' = Kind(t) /\ Adjusts(t)' = Adjusts(t)
    BY <1>1 DEF Kind, Adjusts
  <1>3. \A r : Done(t, r)' = Done(t, r)
    BY <1>1 DEF Done
  <1>5. NumbersOK(t)'
    BY <1>1, <1>2 DEF BodyOK, NumbersOK
  <1>6. LegsOK(t)'
    BY <1>1, <1>2 DEF BodyOK, LegsOK, Moving, Waiting, Finished, Adjusts
  <1>7. PostedOK(t)'
    BY <1>1, <1>2, <1>3 DEF BodyOK, PostedOK, Ended
  <1>8. PutawayOK(t)'
    <2> SUFFICES ASSUME Kind(t) = "putaway" PROVE PutawayOK(t)'
      BY <1>2 DEF PutawayOK
    <2>1. PutsFirst(dto[t], item[t], posted[t])
      BY <1>1 DEF BodyOK, PutawayOK, Finished
    <2>2. CASE pc'[t] = "line" /\ item'[t] = item[t] + 1
      <3>1. item'[t] - 1 = item[t]
        BY <2>2
      <3>2. PutsFirst(dto'[t], item'[t] - 1, posted'[t])
        BY <1>1, <2>1, <3>1
      <3> QED BY <2>2, <3>2 DEF PutawayOK, Moving, Finished
    <2>3. CASE pc'[t] = "commit" /\ item'[t] = item[t]
      BY <1>1, <2>1, <2>3 DEF PutawayOK, Moving, Finished
    <2> QED BY <1>1, <2>2, <2>3
  <1> QED BY <1>5, <1>6, <1>7, <1>8 DEF BodyOK

BodyInv ==
  HeaderInv /\ CacheInv /\ shrinkage \in Int /\ \A t \in Txs : BodyOK(t)

LEMMA InitBody == Init => BodyInv
  <1> SUFFICES ASSUME Init, NEW t \in Txs PROVE BodyOK(t)
    BY InitHeader, InitCache DEF BodyInv, Init
  <1>0. TypeOK
    BY InitType
  <1>1. /\ pc[t] = "idle" /\ item[t] = 1 /\ headers[t] = {} /\ legs[t] = <<>> /\ todo[t] = {}
        /\ \A r \in Rows : posted[t][r] = 0
    BY DEF Init
  <1>2. \A r : Done(t, r) = 0
    BY <1>1, NothingDone DEF Done
  <1>3. NumbersOK(t) /\ LegsOK(t) /\ PostedOK(t)
    BY <1>1, <1>2 DEF NumbersOK, LegsOK, PostedOK, Waiting, Moving, Finished
  <1>4. PutawayOK(t)
    BY <1>1 DEF PutawayOK, Moving, Finished
  <1> QED BY <1>3, <1>4 DEF BodyOK

LEMMA AbortBody ==
  ASSUME TypeOK, NEW t \in Txs, BodyOK(t), NEW why \in Ended, Abort(t, why)
  PROVE  BodyOK(t)'
  <1>1. /\ pc'[t] \in Ended /\ dto'[t] = dto[t] /\ item'[t] = item[t] /\ headers'[t] = {}
        /\ \A r \in Rows : posted'[t][r] = 0
    BY DEF Abort, Goto, TypeOK, ProgramOK, WritesOK
  <1> QED BY <1>1, EndBody

LEMMA CommitBody ==
  ASSUME TypeOK, NEW t \in Txs, BodyOK(t), Commit(t)
  PROVE  BodyOK(t)'
  <1>1. /\ pc'[t] \in Ended /\ dto'[t] = dto[t] /\ item'[t] = item[t] /\ headers'[t] = {}
        /\ \A r \in Rows : posted'[t][r] = 0
    BY DEF Commit, Goto, TypeOK, ProgramOK, WritesOK, Ended
  <1> QED BY <1>1, EndBody

LEMMA ShrinkageType ==
  ASSUME TypeOK, NEW t \in Txs
  PROVE  ShrinkageOf(t) \in Int
  <1> DEFINE D == DOMAIN legs[t]
             f == [i \in D |-> legs[t][i].qty]
  <1>1. legs[t] \in Seq(Leg)
    BY DEF TypeOK, ProgramOK
  <1>2. IsFiniteSet(D) /\ \A i \in D : f[i] \in Int
    BY <1>1, PartsAre
  <1>3. SumFunction(f) = SumFunctionOnSet(f, D)
    BY DEF SumFunction
  <1>4. ShrinkageOf(t) = IF Adjusts(t) THEN -SumFunction(f) ELSE 0
    BY DEF ShrinkageOf
  <1> HIDE DEF D, f
  <1>5. SumFunctionOnSet(f, D) \in Int
    BY <1>2, SumType
  <1> QED BY <1>3, <1>4, <1>5

LEMMA ShrinkageStays ==
  ASSUME NEW t \in Txs, Acts(t)
  PROVE  shrinkage' = shrinkage \/ Commit(t)
  BY TablesStay DEF tables

LEMMA NextBody ==
  ASSUME BodyInv, [Next]_vars
  PROVE  BodyInv'
  <1>0. HeaderInv' /\ CacheInv'
    BY NextHeader, NextCache DEF BodyInv
  <1>1. CASE UNCHANGED vars
    <2>1. \A t \in Txs : BodyOK(t)'
      BY <1>1, SameBody DEF BodyInv, vars, program, writes
    <2>2. shrinkage' \in Int
      BY <1>1 DEF BodyInv, vars, tables
    <2> QED BY <1>0, <2>1, <2>2 DEF BodyInv
  <1>2. ASSUME NEW t \in Txs, Acts(t) PROVE BodyInv'
    <2>0. TypeOK /\ BodyOK(t)
      BY DEF BodyInv, HeaderInv
    <2>1. \A u \in Txs \ {t} : BodyOK(u)'
      BY <1>2, <2>0, OthersStay, SameBody DEF BodyInv
    <2>2. BodyOK(t)'
      <3>1. CASE DuplicateHeader(t) \/ Refuse(t) \/ ResolveDeadlock(t) \/ Lose(t)
        BY <2>0, <3>1, AbortBody DEF DuplicateHeader, Refuse, ResolveDeadlock, Lose, Ended
      <3>2. CASE Begin(t) \/ ReadLine(t) \/ LockStocktake(t) \/ ReadStocktake(t) \/ ReadStock(t)
        BY <2>0, <3>2, BeginBody, ReadBody, StockBody
      <3>3. CASE InsertHeader(t) \/ ValidateStock(t) \/ Upsert(t) \/ MarkLine(t) \/ Commit(t)
        BY <2>0, <3>3, HeaderBody, UpsertBody, MarkBody, CommitBody
      <3> QED BY <1>2, <3>1, <3>2, <3>3 DEF Acts, Step
    <2>3. shrinkage' \in Int
      <3>1. shrinkage \in Int /\ ShrinkageOf(t) \in Int
        BY <2>0, ShrinkageType DEF BodyInv
      <3> QED BY <1>2, <3>1, ShrinkageStays DEF Commit
    <2> QED BY <1>0, <2>1, <2>2, <2>3 DEF BodyInv
  <1> QED BY <1>1, <1>2 DEF Next, Acts

(***************************************************************************)
(* A commit is one step of AtomicStock.                                    *)
(***************************************************************************)
LEMMA ChangeIsPosted ==
  ASSUME CacheInv, NEW t \in Txs, Commit(t), NEW r \in Rows
  PROVE  actual'[r] - actual[r] = posted[t][r]
  <1>1. actual'[r] = QtyAt(t, r)
    BY DEF Commit
  <1>2. actual[r] \in Int /\ posted[t][r] \in Int
    BY DEF CacheInv, TypeOK, TablesOK, WritesOK
  <1>3. QtyAt(t, r) = actual[r] + posted[t][r]
    BY <1>2 DEF QtyAt, CacheInv, WritesAreLocked
  <1> QED BY <1>1, <1>2, <1>3

LEMMA PostedTotal ==
  ASSUME BodyInv, NEW t \in Txs, pc[t] = "commit", Kind(t) # "putaway", NEW r \in Rows
  PROVE  posted[t][r] = Total(legs[t], r)
  <1>1. todo[t] = {}
    BY DEF BodyInv, CacheInv, TypeOK, ProgressOK
  <1> QED BY <1>1 DEF BodyInv, BodyOK, PostedOK, Done, Total, Ended

(* The sums of AtomicStock are those of this module.                       *)
LEMMA AtomicSum ==
  ASSUME NEW f
  PROVE  Atomic!SumFunction(f) = SumFunction(f)
  BY DEF SumFunction, Atomic!SumFunction, SumFunctionOnSet, Atomic!SumFunctionOnSet,
         FoldFunctionOnSet, Atomic!FoldFunctionOnSet, MapThenFoldSet, Atomic!MapThenFoldSet

LEMMA CommitEffect ==
  ASSUME BodyInv, NEW t \in Txs, pc[t] = "commit",
         NEW change, change = [r \in Rows |-> posted[t][r]]
  PROVE  Atomic!Effect(dto[t], change)
  <1> DEFINE d == dto[t]
  <1>0. /\ d \in Dtos /\ legs[t] \in Seq(Leg) /\ LegsOK(t) /\ pc[t] \in Finished
        /\ Kind(t) = d.kind /\ (Adjusts(t) <=> d.kind \in {"adjust", "stocktake"})
    BY DEF BodyInv, CacheInv, TypeOK, ProgramOK, BodyOK, Finished, Kind, Adjusts
  <1>1. CASE d.kind = "move"
    <2>1. legs[t] = MoveLegs(d.lines) /\ d.lines \in Seq(MoveLine) /\ d.lines # <<>>
      BY <1>0, <1>1, DtoShape DEF LegsOK
    <2>2. \A r \in Rows : change[r] =
            SumFunction([i \in DOMAIN d.lines |->
              Atomic!Shift(r, d.lines[i].product, d.lines[i].source, d.lines[i].target, d.lines[i].qty)])
      BY <1>0, <1>1, <2>1, PostedTotal, MoveTotal DEF Shift
    <2>3. Atomic!Moves(d.lines, change)
      <3> HIDE DEF d
      <3> QED BY <2>2, AtomicSum DEF Atomic!Moves
    <2> QED BY <1>1, <2>3 DEF Atomic!Effect
  <1>2. CASE d.kind \in {"adjust", "stocktake"}
    <2>1. ASSUME NEW r \in Rows, change[r] # 0
          PROVE  \E i \in DOMAIN d.lines : r = <<d.lines[i].bin, d.lines[i].product>>
      <3>1. Total(legs[t], r) # 0
        BY <1>0, <1>2, <2>1, PostedTotal
      <3>2. PICK i \in DOMAIN legs[t] : legs[t][i].row = r
        BY <1>0, <3>1, NoTotalNoLeg
      <3> QED BY <1>0, <1>2, <3>2 DEF LegsOK
    <2>2. Atomic!Counts(d.lines, change)
      BY <2>1 DEF Atomic!Counts
    <2> QED BY <1>2, <2>2 DEF Atomic!Effect
  <1>3. CASE d.kind = "putaway"
    <2>1. PutsFirst(d, item[t], posted[t]) /\ item[t] = Len(d.lines)
      BY <1>0, <1>3 DEF BodyInv, BodyOK, PutawayOK, HeaderInv, EnteredOwned
    <2>2. DOMAIN d.lines = 1..item[t]
      BY <1>0, <1>3, <2>1, DtoShape
    <2>3. PICK from \in [DOMAIN d.lines -> Bins] :
            /\ \A i \in DOMAIN d.lines : from[i] \in StagingBins[d.lines[i].line]
            /\ \A r \in Rows \ Atomic!Counted(d.lines) :
                 posted[t][r] = SumFunctionOnSet([i \in DOMAIN d.lines |-> PutShift(d, i, from[i], r)],
                                                 DOMAIN d.lines)
      BY <2>1, <2>2 DEF PutsFirst
    <2>4. \A r \in Rows \ Atomic!Counted(d.lines) : change[r] =
            SumFunction([i \in DOMAIN d.lines |->
              Atomic!Shift(r, LineProduct[d.lines[i].line], from[i], d.lines[i].dest,
                           d.lines[i].qty * LineRatio[d.lines[i].line])])
      BY <2>3 DEF SumFunction, PutShift, Shift
    <2>5. Atomic!PutsAway(d.lines, change)
      <3> HIDE DEF d
      <3>1. from \in [DOMAIN d.lines -> Bins] /\ \A i \in DOMAIN d.lines : from[i] \in StagingBins[d.lines[i].line]
        BY <2>3
      <3> QED BY <2>4, <3>1, AtomicSum DEF Atomic!PutsAway
    <2> QED BY <1>3, <2>5 DEF Atomic!Effect
  <1>4. CASE d.kind = "quarantine"
    <2>1. PICK a \in Bins, b \in Bins, q \in Int : legs[t] = Pair(d.product, a, b, q)
      BY <1>0, <1>4 DEF LegsOK
    <2>2. d.product \in Products
      BY <1>0, <1>4, DtoShape DEF QuarantineDto
    <2>3. \A r \in Rows : change[r] = Shift(r, d.product, a, b, q)
      BY <1>0, <1>4, <2>1, <2>2, PostedTotal, PairTotal
    <2>4. \A r \in Rows : change[r] = Shift(r, d.product, a, b, change[<<b, d.product>>])
      <3>1. <<b, d.product>> \in Rows
        BY <2>2 DEF Rows
      <3>2. CASE a = b
        BY <2>3, <3>1, <3>2 DEF Shift, Atomic!Shift
      <3>3. CASE a # b
        <4>1. change[<<b, d.product>>] = q
          BY <2>3, <3>1, <3>3 DEF Shift, Atomic!Shift
        <4> QED BY <2>3, <4>1
      <3> QED BY <3>2, <3>3
    <2>5. Atomic!Relocates(d.product, change)
      BY <2>4 DEF Atomic!Relocates, Shift
    <2> QED BY <1>4, <2>5 DEF Atomic!Effect
  <1>5. CASE d.kind = "state"
    <2>1. legs[t] = <<>>
      BY <1>0, <1>5 DEF LegsOK
    <2>2. \A r : Total(legs[t], r) = 0
      BY <2>1, NothingDone DEF Total
    <2>3. \A r \in Rows : change[r] = 0
      BY <1>0, <1>5, <2>2, PostedTotal
    <2> QED BY <1>5, <2>3 DEF Atomic!Effect
  <1> QED BY <1>0, <1>1, <1>2, <1>3, <1>4, <1>5, DtoShape

Reconciled == {s \in Stocktakes : DocNumber[s] \in entryNumbers}

LEMMA CommitReconciles ==
  ASSUME NumbersApart, BodyInv, NEW t \in Txs, Commit(t)
  PROVE  \/ /\ dto[t].kind = "stocktake" /\ dto[t].line \notin Reconciled
            /\ Reconciled' = Reconciled \cup {dto[t].line}
         \/ /\ dto[t].kind = "stocktake" => \A r \in Rows : posted[t][r] = 0
            /\ Reconciled' = Reconciled
  <1>0. /\ Kind(t) = dto[t].kind /\ NumbersOK(t) /\ dto[t] \in Dtos
        /\ headers[t] \cap entryNumbers = {}
        /\ entryNumbers' = entryNumbers \cup headers[t]
    BY DEF BodyInv, BodyOK, Kind, HeaderInv, NumbersUnique, TypeOK, ProgramOK, Commit
  <1>1. CASE headers[t] = {}
    <2>1. Reconciled' = Reconciled
      BY <1>0, <1>1 DEF Reconciled
    <2> QED BY <1>0, <1>1, <2>1 DEF NumbersOK
  <1>2. CASE headers[t] # {} /\ Kind(t) = "stocktake"
    <2>1. headers[t] = {DocNumber[dto[t].line]} /\ dto[t].line \in Stocktakes
      BY <1>0, <1>2, DtoShape DEF NumbersOK, StocktakeDto
    <2>2. \A s \in Stocktakes : DocNumber[s] = DocNumber[dto[t].line] => s = dto[t].line
      BY <2>1 DEF NumbersApart, Docs
    <2>3. dto[t].line \notin Reconciled /\ Reconciled' = Reconciled \cup {dto[t].line}
      BY <1>0, <2>1, <2>2 DEF Reconciled
    <2> QED BY <1>0, <1>2, <2>3
  <1>3. CASE headers[t] # {} /\ Kind(t) # "stocktake"
    <2>1. headers[t] \subseteq {DocNumber[l] : l \in PutLines}
      BY <1>0, <1>3 DEF NumbersOK
    <2>2. \A s \in Stocktakes : DocNumber[s] \notin headers[t]
      <3>1. PutLines \cap Stocktakes = {}
        BY ShapeAssumption
      <3>2. \A s \in Stocktakes, l \in PutLines : DocNumber[s] # DocNumber[l]
        BY <3>1 DEF NumbersApart, Docs
      <3> QED BY <2>1, <3>2
    <2>3. Reconciled' = Reconciled
      BY <1>0, <2>2 DEF Reconciled
    <2> QED BY <1>0, <1>3, <2>3
  <1> QED BY <1>1, <1>2, <1>3

LEMMA CommitBooks ==
  ASSUME StockFinite, BodyInv, NEW t \in Txs, Commit(t),
         NEW change, change = [r \in Rows |-> posted[t][r]]
  PROVE  shrinkage' = IF dto[t].kind \in {"adjust", "stocktake"}
                      THEN shrinkage - SumFunction(change) ELSE shrinkage
  <1>0. /\ shrinkage' = shrinkage + ShrinkageOf(t) /\ shrinkage \in Int /\ pc[t] = "commit"
        /\ (Adjusts(t) <=> dto[t].kind \in {"adjust", "stocktake"})
        /\ legs[t] \in Seq(Leg) /\ ShrinkageOf(t) \in Int
    BY ShrinkageType DEF Commit, BodyInv, CacheInv, TypeOK, ProgramOK, Kind, Adjusts
  <1>1. CASE Adjusts(t)
    <2>1. IsFiniteSet(Rows)
      BY FS_Product DEF StockFinite, Rows
    <2>2. \A r \in Rows : posted[t][r] = Total(legs[t], r)
      BY <1>0, <1>1, PostedTotal DEF Adjusts
    <2>3. change = [r \in Rows |-> Total(legs[t], r)]
      BY <2>2
    <2>4. SumFunction(change) = SumFunction([i \in DOMAIN legs[t] |-> legs[t][i].qty])
      BY <1>0, <2>1, <2>3, RowsTotal
    <2>5. ShrinkageOf(t) = -SumFunction(change)
      BY <1>1, <2>4 DEF ShrinkageOf
    <2>6. SumFunction(change) \in Int
      <3>1. \A r \in Rows : change[r] \in Int
        BY <1>0, <2>3, PartsAre
      <3>2. SumFunction(change) = SumFunctionOnSet(change, Rows)
        BY <2>3 DEF SumFunction
      <3> QED BY <2>1, <3>1, <3>2, SumType
    <2> QED BY <1>0, <1>1, <2>5, <2>6
  <1>2. CASE ~Adjusts(t)
    BY <1>0, <1>2 DEF ShrinkageOf
  <1> QED BY <1>1, <1>2

(* The steps that AtomicStock does not see.                                *)
LEMMA OnlyCommits ==
  ASSUME TypeOK, NEW t \in Txs, Acts(t), ~Commit(t), ~Begin(t)
  PROVE  UNCHANGED tables /\ dto' = dto /\ Completed' = Completed
  <1>1. UNCHANGED tables /\ dto' = dto /\ pc'[t] # "done"
    <2> USE DEF TypeOK, ProgramOK, Goto
    <2>1. ASSUME NEW why \in Ended \ {"done"}, Abort(t, why)
          PROVE  UNCHANGED tables /\ dto' = dto /\ pc'[t] # "done"
      BY <2>1 DEF Abort, Ended
    <2>2. CASE DuplicateHeader(t) \/ Refuse(t) \/ ResolveDeadlock(t) \/ Lose(t)
      BY <2>1, <2>2 DEF DuplicateHeader, Refuse, ResolveDeadlock, Lose, Ended
    <2>3. CASE ReadLine(t) \/ LockStocktake(t) \/ ReadStocktake(t) \/ ReadStock(t)
      BY <2>3 DEF ReadLine, LockStocktake, ReadStocktake, ReadStock, program, AfterMovement
    <2>4. CASE InsertHeader(t) \/ ValidateStock(t) \/ Upsert(t) \/ MarkLine(t)
      BY <2>4 DEF InsertHeader, ValidateStock, Upsert, MarkLine, program, AfterMovement
    <2> QED BY <2>2, <2>3, <2>4 DEF Acts, Step
  <1>2. pc[t] # "done"
    BY OpensAndEnds DEF Active
  <1>3. \A u \in Txs \ {t} : pc'[u] = pc[u]
    BY OthersStay
  <1> QED BY <1>1, <1>2, <1>3 DEF Completed

(* To its callers the engine is AtomicStock: from its first statement to   *)
(* its commit a request does what its body asks for in one step, whole or  *)
(* not at all, however the statements of others fall between its own.      *)
THEOREM ImplementsAtomicStock ==
  ASSUME StockFinite, NumbersApart
  PROVE  Spec => RequestsAreAtomic
  <1>1. Init => Atomic!Init
    <2> SUFFICES ASSUME Init PROVE Atomic!Init
      OBVIOUS
    <2>1. Completed = {} /\ Reconciled = {}
      BY DEF Init, Completed, Reconciled
    <2> QED BY <2>1, InitType DEF Init, Atomic!Init, TypeOK, TablesOK, Reconciled
  <1>2. ASSUME BodyInv, [Next]_vars PROVE [Atomic!Next]_(Atomic!vars)
    <2>0. TypeOK
      BY <1>2 DEF BodyInv, HeaderInv
    <2>1. CASE UNCHANGED vars
      BY <2>1 DEF vars, tables, program, Atomic!vars, Completed
    <2>2. ASSUME NEW t \in Txs, Acts(t), ~Commit(t), ~Begin(t) PROVE UNCHANGED Atomic!vars
      BY <2>0, <2>2, OnlyCommits DEF tables, Atomic!vars
    <2>3. ASSUME NEW t \in Txs, Begin(t) PROVE Atomic!Next
      <3>1. pc[t] = "idle" /\ pc'[t] \in {"line", "stock"} /\ UNCHANGED tables
            /\ \E d \in Dtos : dto' = [dto EXCEPT ![t] = d]
        BY <2>0, <2>3 DEF Begin, Goto, TypeOK, ProgramOK
      <3>2. \A u \in Txs \ {t} : pc'[u] = pc[u]
        BY <2>0, <2>3, OthersStay DEF Acts
      <3>3. t \notin Completed /\ Completed' = Completed
        BY <3>1, <3>2 DEF Completed
      <3>4. Atomic!Arrive(t)
        BY <3>1, <3>3 DEF Atomic!Arrive, tables
      <3> QED BY <3>4 DEF Atomic!Next
    <2>4. ASSUME NEW t \in Txs, Commit(t) PROVE Atomic!Next
      <3> DEFINE change == [r \in Rows |-> actual'[r] - actual[r]]
      <3>1. change = [r \in Rows |-> posted[t][r]]
        BY <1>2, <2>4, ChangeIsPosted DEF BodyInv
      <3>2. pc[t] = "commit" /\ pc'[t] = "done" /\ dto' = dto
            /\ \A u \in Txs \ {t} : pc'[u] = pc[u]
        BY <2>0, <2>4 DEF Commit, Goto, TypeOK, ProgramOK
      <3>3. t \notin Completed /\ Completed' = Completed \cup {t}
        BY <3>2 DEF Completed
      <3>4. \A r \in Rows : change[r] = posted[t][r]
        BY <3>1
      <3> HIDE DEF change
      <3>5. Atomic!Effect(dto[t], change)
        BY <1>2, <3>1, <3>2, CommitEffect
      <3>6. \/ Atomic!Reconciles(dto[t])
            \/ /\ dto[t].kind = "stocktake" => \A r \in Rows : change[r] = 0
               /\ Reconciled' = Reconciled
        BY <1>2, <2>4, <3>4, CommitReconciles DEF Atomic!Reconciles, Reconciled
      <3>7. shrinkage' = IF dto[t].kind \in {"adjust", "stocktake"}
                         THEN shrinkage - SumFunction(change) ELSE shrinkage
        BY <1>2, <2>4, <3>1, CommitBooks
      <3>8. Atomic!TakeEffect(t)
        <4>1. Atomic!Effect(dto[t], [r \in Rows |-> actual'[r] - actual[r]])
          BY <3>5 DEF change
        <4>2. \/ Atomic!Reconciles(dto[t])
              \/ /\ dto[t].kind = "stocktake" => \A r \in Rows : [x \in Rows |-> actual'[x] - actual[x]][r] = 0
                 /\ Reconciled' = Reconciled
          BY <3>6 DEF change
        <4>3. shrinkage' = IF dto[t].kind \in {"adjust", "stocktake"}
                           THEN shrinkage - SumFunction([r \in Rows |-> actual'[r] - actual[r]])
                           ELSE shrinkage
          BY <3>7 DEF change
        <4> QED BY <3>2, <3>3, <4>1, <4>2, <4>3, AtomicSum DEF Atomic!TakeEffect, Reconciled
      <3> QED BY <3>8 DEF Atomic!Next
    <2> QED BY <1>2, <2>1, <2>2, <2>3, <2>4 DEF Next, Acts
  <1> QED BY <1>1, <1>2, InitBody, NextBody, PTL DEF Spec, RequestsAreAtomic, Atomic!Spec
-------------------------------------------------------------------------------
(***************************************************************************)
(* Staged stock.  What waits in the receiving bins and in quarantine is    *)
(* that of the receipt lines, when only putaways and quarantines of whole  *)
(* lines reach these bins, up to what the quarantine of lines in other     *)
(* units than the base unit left in the wrong one.                         *)
(***************************************************************************)
StagedRows == StagedBins \X Products

(* Where a line with status s waits, and how much of it in row r.          *)
BinOf(s, l) ==
  IF s \in {"awaiting_matching", "pending_putaway"} THEN DockBin[l]
  ELSE IF s = "quarantined" THEN QuarantineBin ELSE NoBin
Part(s, l, r) == IF LineProduct[l] = r[2] /\ BinOf(s, l) = r[1] THEN LineStock[l] ELSE 0
Staged(st, r) == SumFunctionOnSet([l \in PutLines |-> Part(st[l], l, r)], PutLines)

(* What row r holds besides the lines.                                     *)
Docked(r) == SumFunctionOnSet(LineStock, {l \in PutLines : DockBin[l] = r[1] /\ LineProduct[l] = r[2]})
Base(r) == InitialStock[r] - Docked(r)

(* What may be in the wrong bin: nothing of a product bought in its base    *)
(* unit, and over all bins nothing of any.                                 *)
AtBins(gap, p) == [b \in StagedBins |-> gap[<<b, p>>]]
Balanced(gap) ==
  /\ gap \in [StagedRows -> Int]
  /\ \A r \in StagedRows : InBaseUnit(r[2]) => gap[r] = 0
  /\ \A p \in Products : SumFunctionOnSet(AtBins(gap, p), StagedBins) = 0
NoGap == [r \in StagedRows |-> 0]

(* The statuses that request t has written, or will have when the legs it  *)
(* has read stock for are upserted.                                        *)
Underway == {"header", "check", "upsert", "mark"}
Heading(t) ==
  [l \in PutLines |->
     IF pc[t] \in Underway /\ l = Document(t) THEN NewStatus(t) ELSE StatusAt(t, l)]
ToCome(t, r) == Added(legs[t], todo[t], r)

RouteFits(t) ==
  /\ Document(t) \in PutLines =>
       route[t] = LineRoute(t) /\ StatusAt(t, Document(t)) # "completed"
  /\ Kind(t) = "quarantine" /\ dto[t].line = NoLine =>
       route[t] = [source |-> dto[t].source, target |-> dto[t].target]
SetsOut(t, gap) ==
  \A r \in StagedRows :
    actual[r] + posted[t][r] + ToCome(t, r) = Base(r) + Staged(Heading(t), r) + gap[r]
StageOK(t) ==
  /\ pc[t] = "stock" => RouteFits(t)
  /\ \E gap \in [StagedRows -> Int] : Balanced(gap) /\ SetsOut(t, gap)
AccountedBut(gap) == \A r \in StagedRows : actual[r] = Base(r) + Staged(status, r) + gap[r]
Accounted == \E gap \in [StagedRows -> Int] : Balanced(gap) /\ AccountedBut(gap)
StageInv == Accounted /\ \A t \in OpenTxs : StageOK(t)

LEMMA LineStockType ==
  \A l \in PutLines :
    /\ LineStock[l] = LineQty[l] * LineRatio[l]
    /\ LineStock[l] \in Int /\ LineQty[l] \in Int /\ LineRatio[l] \in Int
  BY ShapeAssumption DEF LineStock

LEMMA NoGapBalanced == ASSUME StagingLayout PROVE Balanced(NoGap)
  <1>1. ASSUME NEW p \in Products PROVE SumFunctionOnSet(AtBins(NoGap, p), StagedBins) = 0
    <2> DEFINE f == AtBins(NoGap, p)
    <2>1. \A b \in StagedBins : f[b] = 0
      BY DEF AtBins, NoGap, StagedRows
    <2>2. IsFiniteSet(StagedBins)
      BY DEF StagingLayout
    <2> HIDE DEF f
    <2>3. SumFunctionOnSet(f, StagedBins) = 0
      BY <2>1, <2>2, SumZero
    <2> QED BY <2>3 DEF f
  <1> QED BY <1>1 DEF Balanced, NoGap

LEMMA GapsAdd ==
  ASSUME StagingLayout, NEW g, NEW h, Balanced(g), Balanced(h)
  PROVE  Balanced([r \in StagedRows |-> g[r] + h[r]])
  <1> DEFINE k == [r \in StagedRows |-> g[r] + h[r]]
  <1>1. /\ \A r \in StagedRows : k[r] = g[r] + h[r] /\ g[r] \in Int /\ h[r] \in Int
        /\ k \in [StagedRows -> Int]
    BY DEF Balanced
  <1>2. \A r \in StagedRows : InBaseUnit(r[2]) => k[r] = 0
    <2>1. \A r \in StagedRows : InBaseUnit(r[2]) => g[r] = 0 /\ h[r] = 0
      BY DEF Balanced
    <2> HIDE DEF k
    <2> QED BY <1>1, <2>1
  <1> HIDE DEF k
  <1>3. ASSUME NEW p \in Products PROVE SumFunctionOnSet(AtBins(k, p), StagedBins) = 0
    <2> DEFINE x == AtBins(g, p)
               y == AtBins(h, p)
               z == AtBins(k, p)
    <2>1. \A b \in StagedBins : <<b, p>> \in StagedRows
      BY DEF StagedRows
    <2>2. \A b \in StagedBins : x[b] \in Int /\ y[b] \in Int /\ z[b] = x[b] + y[b]
      BY <1>1, <2>1 DEF AtBins
    <2>3. IsFiniteSet(StagedBins)
      BY DEF StagingLayout
    <2>4. SumFunctionOnSet(x, StagedBins) = 0 /\ SumFunctionOnSet(y, StagedBins) = 0
      BY DEF Balanced
    <2> HIDE DEF x, y, z
    <2>5. SumFunctionOnSet(z, StagedBins) = SumFunctionOnSet(x, StagedBins) + SumFunctionOnSet(y, StagedBins)
      BY <2>2, <2>3, SumPlus
    <2>6. SumFunctionOnSet(z, StagedBins) = 0
      BY <2>4, <2>5
    <2> QED BY <2>6 DEF z
  <1>4. Balanced(k)
    BY <1>1, <1>2, <1>3 DEF Balanced
  <1> QED BY <1>4 DEF k

LEMMA StagedTypes ==
  ASSUME StagingLayout, NEW st, NEW r
  PROVE  /\ Staged(st, r) \in Int
         /\ \A s : \A l \in PutLines : Part(s, l, r) \in Int
  <1> DEFINE f == [l \in PutLines |-> Part(st[l], l, r)]
  <1>1. \A s : \A l \in PutLines : Part(s, l, r) \in Int
    BY LineStockType DEF Part
  <1>2. IsFiniteSet(PutLines)
    BY DEF StagingLayout
  <1>3. \A l \in PutLines : f[l] \in Int
    BY <1>1
  <1> HIDE DEF f
  <1>4. SumFunctionOnSet(f, PutLines) \in Int
    BY <1>2, <1>3, SumType
  <1> QED BY <1>1, <1>4 DEF Staged, f

LEMMA StagedSame ==
  ASSUME NEW st, NEW su, \A l \in PutLines : su[l] = st[l], NEW r
  PROVE  Staged(su, r) = Staged(st, r)
  <1>1. [l \in PutLines |-> Part(su[l], l, r)] = [l \in PutLines |-> Part(st[l], l, r)]
    OBVIOUS
  <1> QED BY <1>1 DEF Staged

(* When one line changes, its part does.                                   *)
OnlyAt(st, su, l) == \A k \in PutLines \ {l} : su[k] = st[k]

LEMMA StagedMoves ==
  ASSUME StagingLayout, NEW st, NEW su, NEW l \in PutLines, OnlyAt(st, su, l), NEW r
  PROVE  Staged(su, r) = Staged(st, r) - Part(st[l], l, r) + Part(su[l], l, r)
  <1> DEFINE f == [k \in PutLines |-> Part(st[k], k, r)]
             g == [k \in PutLines |-> Part(su[k], k, r)]
  <1>1. IsFiniteSet(PutLines)
    BY DEF StagingLayout
  <1>2. \A k \in PutLines : f[k] \in Int /\ g[k] \in Int
    BY StagedTypes
  <1>3. \A k \in PutLines \ {l} : g[k] = f[k]
    BY DEF OnlyAt
  <1>4. f[l] = Part(st[l], l, r) /\ g[l] = Part(su[l], l, r)
    OBVIOUS
  <1>5. Staged(st, r) = SumFunctionOnSet(f, PutLines) /\ Staged(su, r) = SumFunctionOnSet(g, PutLines)
    BY DEF Staged
  <1> HIDE DEF f, g
  <1>6. SumFunctionOnSet(g, PutLines) = SumFunctionOnSet(f, PutLines) - f[l] + g[l]
    BY <1>1, <1>2, <1>3, SumExcept
  <1> QED BY <1>4, <1>5, <1>6

LEMMA NothingAdded ==
  ASSUME NEW s \in Seq(Leg), NEW S \in SUBSET DOMAIN s, NEW r, \A i \in DOMAIN s : s[i].row # r
  PROVE  Added(s, S, r) = 0
  <1> DEFINE f == RowPart(s, r)
  <1>1. \A i \in DOMAIN s : f[i] = 0
    BY DEF RowPart
  <1>2. IsFiniteSet(DOMAIN s)
    BY PartsAre
  <1>3. IsFiniteSet(S)
    BY <1>2, FS_Subset
  <1> HIDE DEF f
  <1>4. SumFunctionOnSet(f, S) = 0
    BY <1>1, <1>3, SumZero
  <1> QED BY <1>4 DEF Added, f

(***************************************************************************)
(* What the legs of a request that read the stock add to a staged row: the *)
(* line leaves the bin it waits in for the one its new status stands for.  *)
(***************************************************************************)
Selected(t, s) == {i \in DOMAIN s : Adjusts(t) => s[i].qty # 0}
Relocated(t, r) ==
  Part(NewStatus(t), Document(t), r) - Part(StatusAt(t, Document(t)), Document(t), r)

LEMMA RowStaged ==
  ASSUME StagingLayout, NEW r \in StagedRows
  PROVE  r[1] \in StagedBins /\ r[1] \in Bins /\ r[2] \in Products /\ r = <<r[1], r[2]>> /\ r \in Rows
  BY ShapeAssumption DEF StagingLayout, StagedRows, StagedBins, Rows

LEMMA MoveSkipsStaged ==
  ASSUME StagingLayout, StagedByLine, TypeOK, NEW t \in Txs, pc[t] = "stock", Kind(t) = "move",
         NEW s \in Movements(t), NEW r \in StagedRows
  PROVE  Added(s, Selected(t, s), r) = 0 /\ Document(t) \notin PutLines
  <1> DEFINE lines == dto[t].lines
  <1>1. s = MoveLegs(lines) /\ MoveAccepted(t, s)
    BY DEF Movements, Adjusts
  <1>2. lines \in Seq(MoveLine) /\ dto[t] \in Dtos /\ dto[t].kind = "move"
    BY DtoShape DEF TypeOK, ProgramOK, Kind
  <1>3. \A i \in DOMAIN lines : lines[i].source \notin StagedBins /\ lines[i].target \notin StagedBins
    BY <1>1, <1>2 DEF MoveAccepted, StagedByLine, StagingLayout, StagedBins
  <1>4. s \in Seq(Leg)
    BY MovementsType
  <1>4a. Len(lines) \in Nat /\ DOMAIN lines = 1..Len(lines) /\ DOMAIN s = 1..(2 * Len(lines))
    <2>1. DOMAIN s = 1..(2 * Len(lines))
      BY <1>1 DEF MoveLegs
    <2> HIDE DEF lines
    <2> QED BY <1>2, <2>1
  <1> HIDE DEF lines
  <1>5. ASSUME NEW k \in DOMAIN s PROVE s[k].row # r
    <2> DEFINE m == lines[(k + 1) \div 2]
    <2>1. k \in 1..(2 * Len(lines)) /\ Len(lines) \in Nat /\ DOMAIN lines = 1..Len(lines)
      BY <1>4a
    <2>2. (k + 1) \div 2 \in DOMAIN lines
      BY <2>1
    <2>3. s[k] = Pair(m.product, m.source, m.target, m.qty)[IF k % 2 = 1 THEN 1 ELSE 2]
      BY <1>1, <2>1 DEF MoveLegs
    <2>4. m.source \notin StagedBins /\ m.target \notin StagedBins
      BY <1>3, <2>2
    <2> HIDE DEF m
    <2>5. s[k].row = <<m.source, m.product>> \/ s[k].row = <<m.target, m.product>>
      BY <2>3 DEF Pair
    <2> QED BY <2>4, <2>5, RowStaged
  <1>6. Document(t) \notin PutLines
    BY ShapeAssumption DEF Document, Docs
  <1> QED BY <1>4, <1>5, <1>6, NothingAdded DEF Selected

LEMMA AdjustSkipsStaged ==
  ASSUME StagingLayout, StagedByLine, TypeOK, NEW t \in Txs, pc[t] = "stock", Adjusts(t),
         NEW s \in Movements(t), NEW r \in StagedRows
  PROVE  Added(s, Selected(t, s), r) = 0 /\ Document(t) \notin PutLines
  <1>1. /\ DOMAIN s = DOMAIN dto[t].lines
        /\ \A i \in DOMAIN s : s[i].row = <<dto[t].lines[i].bin, dto[t].lines[i].product>>
    BY MovementsFit
  <1>2. dto[t] \in Dtos /\ dto[t].kind \in {"adjust", "stocktake"}
    BY DEF TypeOK, ProgramOK, Kind, Adjusts
  <1>3. \A i \in DOMAIN s : s[i].row # r
    BY <1>1, <1>2, RowStaged DEF StagedByLine
  <1>4. s \in Seq(Leg)
    BY MovementsType
  <1>5. Document(t) \notin PutLines
    <2>1. CASE Kind(t) = "adjust"
      BY <2>1, ShapeAssumption DEF Document, Docs
    <2>2. CASE Kind(t) = "stocktake"
      BY <2>2, DocumentNamed, DocumentType, ShapeAssumption
    <2> QED BY <2>1, <2>2 DEF Adjusts
  <1> QED BY <1>3, <1>4, <1>5, NothingAdded DEF Selected

LEMMA AllSelected ==
  ASSUME NEW t \in Txs, ~Adjusts(t), NEW s, NEW r
  PROVE  Added(s, Selected(t, s), r) = Total(s, r)
  <1>1. Selected(t, s) = DOMAIN s
    BY DEF Selected
  <1> QED BY <1>1 DEF Total

(* A quarantine of no line that is not refused keeps off the staged bins.  *)
LEMMA LooseSkipsStaged ==
  ASSUME StagingLayout, StagedByLine, TypeOK, NEW t \in Txs, pc[t] = "stock", RouteFits(t),
         Kind(t) = "quarantine", dto[t].line = NoLine,
         NEW s \in Movements(t), NEW r \in StagedRows
  PROVE  Added(s, Selected(t, s), r) = 0 /\ Document(t) \notin PutLines
  <1> DEFINE d == dto[t]
  <1>1. d \in Dtos /\ d \in QuarantineDto /\ d.kind = "quarantine"
    BY DtoShape DEF TypeOK, ProgramOK, Kind
  <1>2. LooseQuarantine(d) /\ route[t] = [source |-> d.source, target |-> d.target]
    BY <1>1 DEF StagedByLine, RouteFits
  <1>3. PICK b \in QuarantineTargets(t) :
          /\ QuarantineAccepted(t, b)
          /\ s = Pair(d.product, d.source, b, QuarantineQty(t))
          /\ d.source # NoBin
    BY <1>2 DEF Movements, Adjusts
  <1>4. QuarantineQty(t) = d.qty /\ d.qty > 0 /\ d.qty \in Int
    BY <1>1, <1>3 DEF QuarantineAccepted, QuarantineQty, QuarantineDto
  <1>5. d.target # NoBin /\ d.source \notin StagedBins /\ d.target \notin StagedBins
    BY <1>2, <1>3, <1>4 DEF LooseQuarantine
  <1>6. b = d.target
    BY <1>2, <1>5 DEF QuarantineTargets
  <1>7. d.source \in Bins /\ b \in Bins /\ d.product \in Products
    BY <1>1, <1>3, <1>5, <1>6 DEF QuarantineDto
  <1>8. Total(s, r) = Shift(r, d.product, d.source, b, d.qty)
    BY <1>3, <1>4, <1>7, PairTotal
  <1>9. r # <<d.source, d.product>> /\ r # <<b, d.product>>
    BY <1>5, <1>6, RowStaged
  <1>10. Document(t) \notin PutLines
    BY ShapeAssumption DEF Document, Docs
  <1>11. Added(s, Selected(t, s), r) = Total(s, r)
    BY AllSelected DEF Adjusts
  <1> QED BY <1>8, <1>9, <1>10, <1>11 DEF Shift, Atomic!Shift

(* A line whose status is not final waits in the bin a request takes it    *)
(* from.                                                                   *)
LEMMA WaitsIn ==
  ASSUME StagingLayout, StatusesFit, NEW t \in Txs, NEW l \in PutLines, StatusAt(t, l) # "completed"
  PROVE  /\ StagedIn(t, l) = BinOf(StatusAt(t, l), l)
         /\ StagedIn(t, l) \in StagedBins
         /\ StagedIn(t, l) = (IF StatusAt(t, l) = "quarantined" THEN QuarantineBin ELSE DockBin[l])
  <1>1. StatusAt(t, l) \in LineStatuses
    BY FitsAt, ShapeAssumption DEF StatusesOf, Docs
  <1> QED BY <1>1 DEF StagedIn, BinOf, LineStatuses, StagingLayout, StagedBins

(* A line in base units that leaves its bin for that of its new status.     *)
Reroutes(t, from, to) ==
  /\ from = BinOf(StatusAt(t, Document(t)), Document(t))
  /\ \/ to = BinOf(NewStatus(t), Document(t))
     \/ to \notin StagedBins /\ BinOf(NewStatus(t), Document(t)) \notin StagedBins

LEMMA ShiftIsRelocation ==
  ASSUME StagingLayout, NEW t \in Txs, Document(t) \in PutLines, NEW r \in StagedRows,
         NEW from, NEW to, Reroutes(t, from, to)
  PROVE  Shift(r, LineProduct[Document(t)], from, to, LineStock[Document(t)]) = Relocated(t, r)
  <1> DEFINE l == Document(t)
             new == BinOf(NewStatus(t), l)
             p == LineProduct[l]
             q == LineStock[l]
  <1>1. r = <<from, p>> <=> p = r[2] /\ from = r[1]
    BY RowStaged
  <1>2. r = <<to, p>> <=> p = r[2] /\ new = r[1]
    BY RowStaged DEF Reroutes
  <1>3. Part(NewStatus(t), l, r) = (IF p = r[2] /\ new = r[1] THEN q ELSE 0)
    BY DEF Part
  <1>4. Part(StatusAt(t, l), l, r) = (IF p = r[2] /\ from = r[1] THEN q ELSE 0)
    BY DEF Part, Reroutes
  <1> QED BY <1>1, <1>2, <1>3, <1>4 DEF Relocated, Shift, Atomic!Shift

(* What the bare number of line l, moved between two of its bins, leaves   *)
(* to be moved.                                                            *)
Skew(l, from, to) ==
  [r \in StagedRows |-> Shift(r, LineProduct[l], from, to, LineQty[l] - LineStock[l])]

LEMMA SkewBalanced ==
  ASSUME StagingLayout, NEW l \in PutLines, NEW from \in StagedBins, NEW to \in StagedBins
  PROVE  Balanced(Skew(l, from, to))
  <1> DEFINE q == LineQty[l] - LineStock[l]
             g == Skew(l, from, to)
             p == LineProduct[l]
  <1>1. q \in Int /\ \A r \in StagedRows : g[r] = Shift(r, p, from, to, q)
    BY LineStockType DEF Skew
  <1>2. g \in [StagedRows -> Int]
    <2>1. \A r \in StagedRows : g[r] \in Int
      <3> HIDE DEF q, g, p
      <3> QED BY <1>1 DEF Shift, Atomic!Shift
    <2>2. g = [r \in StagedRows |-> g[r]]
      BY DEF Skew
    <2> HIDE DEF g
    <2> QED BY <2>1, <2>2
  <1>3. ASSUME NEW r \in StagedRows, InBaseUnit(r[2]) PROVE g[r] = 0
    <2>1. CASE p = r[2]
      <3>1. LineRatio[l] = 1
        BY <1>3, <2>1 DEF InBaseUnit
      <3>2. q = 0
        BY <3>1, LineStockType
      <3> HIDE DEF q, g, p
      <3> QED BY <1>1, <3>2 DEF Shift, Atomic!Shift
    <2>2. CASE p # r[2]
      <3>1. r # <<from, p>> /\ r # <<to, p>>
        BY <2>2
      <3> HIDE DEF q, g, p
      <3> QED BY <1>1, <3>1 DEF Shift, Atomic!Shift
    <2> QED BY <2>1, <2>2
  <1>4. ASSUME NEW x \in Products PROVE SumFunctionOnSet(AtBins(g, x), StagedBins) = 0
    <2> DEFINE f == AtBins(g, x)
    <2>1. IsFiniteSet(StagedBins)
      BY DEF StagingLayout
    <2>2. ASSUME NEW b \in StagedBins
          PROVE  f[b] = (IF x = p /\ b = to THEN q ELSE 0) - (IF x = p /\ b = from THEN q ELSE 0)
      <3>1. <<b, x>> \in StagedRows /\ f[b] = g[<<b, x>>]
        BY DEF StagedRows, AtBins
      <3>2. f[b] = Shift(<<b, x>>, p, from, to, q)
        BY <1>1, <3>1
      <3> HIDE DEF f, g, p, q
      <3> QED BY <3>2 DEF Shift, Atomic!Shift
    <2> HIDE DEF f, g, p, q
    <2>3. CASE x # p \/ from = to
      <3>1. \A b \in StagedBins : f[b] = 0
        BY <1>1, <2>2, <2>3
      <3>2. SumFunctionOnSet(f, StagedBins) = 0
        BY <2>1, <3>1, SumZero
      <3> QED BY <3>2 DEF f
    <2>4. CASE x = p /\ from # to
      <3> DEFINE T == {from, to}
      <3>1. f[from] = -q /\ f[to] = q /\ \A b \in StagedBins \ T : f[b] = 0
        BY <1>1, <2>2, <2>4
      <3>2. SumFunctionOnSet(f, T) = f[from] + f[to]
        <4>1. from # to /\ f[from] \in Int /\ f[to] \in Int
          BY <1>1, <2>4, <3>1
        <4> QED BY <4>1, SumTwo
      <3>3. T \in SUBSET StagedBins /\ \A b \in T : f[b] \in Int /\ f[b] = f[b]
        BY <1>1, <3>1
      <3> HIDE DEF T
      <3>4. SumFunctionOnSet(f, StagedBins) = SumFunctionOnSet(f, T)
        BY <2>1, <3>1, <3>3, SumWhere
      <3>5. SumFunctionOnSet(f, StagedBins) = 0
        BY <1>1, <3>1, <3>2, <3>4
      <3> QED BY <3>5 DEF f
    <2> QED BY <2>3, <2>4
  <1> HIDE DEF g
  <1>5. Balanced(g)
    BY <1>2, <1>3, <1>4 DEF Balanced
  <1> QED BY <1>5 DEF g

LEMMA QuarantineRelocates ==
  ASSUME StagingLayout, StagedByLine, TypeOK, StatusesFit, NEW t \in Txs, pc[t] = "stock", RouteFits(t),
         Kind(t) = "quarantine", dto[t].line # NoLine,
         NEW s \in Movements(t)
  PROVE  /\ Document(t) \in PutLines
         /\ \E gap : /\ Balanced(gap)
                     /\ \A r \in StagedRows : Added(s, Selected(t, s), r) = Relocated(t, r) + gap[r]
  <1> DEFINE d == dto[t]
             l == Document(t)
             from == StagedIn(t, l)
  <1>1. d \in Dtos /\ d \in QuarantineDto /\ d.kind = "quarantine"
    BY DtoShape DEF TypeOK, ProgramOK, Kind
  <1>2. l = d.line /\ l \in PutLines
    BY <1>1 DEF Document, QuarantineDto
  <1>3. /\ d.product = LineProduct[l] /\ d.qty \in {0, LineQty[l]}
        /\ d.source = NoBin /\ d.target = NoBin
    BY <1>1, <1>2 DEF StagedByLine, WholeQuarantine
  <1>4. QuarantineQty(t) = LineQty[l] /\ LineQty[l] \in Int
    BY <1>2, <1>3, ShapeAssumption DEF QuarantineQty
  <1>5. /\ StatusAt(t, l) # "completed"
        /\ route[t].source = from
        /\ route[t].target = IF StatusAt(t, l) = "quarantined" THEN DockBin[l] ELSE QuarantineBin
    BY <1>2, <1>3 DEF RouteFits, LineRoute
  <1>6. /\ from = BinOf(StatusAt(t, l), l) /\ from \in Bins
        /\ from = IF StatusAt(t, l) = "quarantined" THEN QuarantineBin ELSE DockBin[l]
    BY <1>2, <1>5, WaitsIn, ShapeAssumption DEF StagingLayout, StagedBins
  <1>7. Unquarantining(t) <=> StatusAt(t, l) = "quarantined"
    BY <1>2, <1>5, <1>6 DEF Unquarantining, StagingLayout
  <1>8. route[t].target = BinOf(NewStatus(t), l)
    BY <1>2, <1>5, <1>7 DEF NewStatus, BinOf
  <1>9. route[t].target \in Bins
    BY <1>2, <1>5, ShapeAssumption
  <1>10. s = Pair(d.product, from, route[t].target, LineQty[l])
    BY <1>4, <1>5, <1>9, ShapeAssumption DEF Movements, Adjusts, QuarantineTargets
  <1> DEFINE to == route[t].target
             gap == Skew(l, from, to)
  <1>11. from \in StagedBins /\ to \in StagedBins
    BY <1>2, <1>5, <1>6 DEF StagingLayout, StagedBins
  <1>12. Balanced(gap)
    <2> HIDE DEF from, to, l
    <2> QED BY <1>2, <1>11, SkewBalanced
  <1>13. ASSUME NEW r \in StagedRows PROVE Added(s, Selected(t, s), r) = Relocated(t, r) + gap[r]
    <2> DEFINE p == LineProduct[l]
               n == LineQty[l]
               k == LineStock[l]
    <2>1. Total(s, r) = Shift(r, p, from, to, n)
      <3>1. d.product \in Products
        BY <1>1 DEF QuarantineDto
      <3> HIDE DEF from, l
      <3> QED BY <1>3, <1>4, <1>6, <1>9, <1>10, <3>1, PairTotal
    <2>2. Shift(r, p, from, to, k) = Relocated(t, r)
      <3>1. Reroutes(t, from, to)
        BY <1>6, <1>8 DEF Reroutes
      <3> HIDE DEF from, to
      <3> QED BY <1>2, <3>1, ShiftIsRelocation
    <2>3. gap[r] = Shift(r, p, from, to, n - k) /\ n \in Int /\ k \in Int
      BY <1>2, LineStockType DEF Skew
    <2>4. Added(s, Selected(t, s), r) = Total(s, r)
      BY AllSelected DEF Adjusts
    <2> HIDE DEF p, n, k, from, to, gap
    <2>5. Shift(r, p, from, to, n) = Shift(r, p, from, to, k) + Shift(r, p, from, to, n - k)
      BY <2>3 DEF Shift, Atomic!Shift
    <2> QED BY <2>1, <2>2, <2>3, <2>4, <2>5
  <1> QED BY <1>2, <1>12, <1>13

LEMMA PutawayRelocates ==
  ASSUME StagingLayout, StagedByLine, TypeOK, StatusesFit, NEW t \in Txs, pc[t] = "stock", RouteFits(t),
         Kind(t) = "putaway", NEW s \in Movements(t), NEW r \in StagedRows
  PROVE  Added(s, Selected(t, s), r) = Relocated(t, r) /\ Document(t) \in PutLines
  <1> DEFINE p == dto[t].lines[item[t]]
             l == Document(t)
             from == StagedIn(t, l)
             moved == p.qty * LineRatio[p.line]
             pair == Pair(LineProduct[l], from, p.dest, moved)
  <1>1. p \in PutawayLine /\ l = p.line /\ l \in PutLines
    BY PutawayLineType DEF Document, PutawayLine
  <1>2. WholeLine(p)
    <2>1. dto[t] \in Dtos /\ dto[t].kind = "putaway" /\ dto[t].lines \in Seq(PutawayLine)
      BY DtoShape DEF TypeOK, ProgramOK, Kind
    <2>2. item[t] \in DOMAIN dto[t].lines
      BY <2>1 DEF TypeOK, ProgramOK, ProgressOK
    <2> QED BY <2>1, <2>2 DEF StagedByLine
  <1>3. /\ moved = LineStock[l] /\ moved \in Int /\ p.dest \in Bins
        /\ p.dest \notin ReceivingBins
        /\ BinType[p.dest] = "quarantine" => p.dest = QuarantineBin /\ p.newTotal = NoTotal
        /\ p.dest = QuarantineBin => BinType[p.dest] = "quarantine"
    BY <1>1, <1>2, LineStockType DEF WholeLine, PutawayLine, StagingLayout
  <1>4. StatusAt(t, l) # "completed" /\ route[t].source = from /\ route[t].target = p.dest
    BY <1>1 DEF RouteFits, LineRoute
  <1>5. from = BinOf(StatusAt(t, l), l) /\ from \in Bins
    BY <1>1, <1>4, WaitsIn, ShapeAssumption DEF StagingLayout, StagedBins
  <1>6. \/ p.dest = BinOf(NewStatus(t), l)
        \/ p.dest \notin StagedBins /\ BinOf(NewStatus(t), l) \notin StagedBins
    <2>1. CASE BinType[p.dest] = "quarantine"
      BY <1>3, <1>4, <2>1 DEF NewStatus, BinOf
    <2>2. CASE BinType[p.dest] # "quarantine"
      <3>1. NewStatus(t) = "completed"
        BY <1>4, <2>2 DEF NewStatus
      <3>2. BinOf(NewStatus(t), l) = NoBin /\ NoBin \notin StagedBins
        BY <3>1, ShapeAssumption DEF BinOf, StagingLayout, StagedBins
      <3> QED BY <1>3, <2>2, <3>2 DEF StagedBins
    <2> QED BY <2>1, <2>2
  <1>7. Total(pair, r) = Relocated(t, r) /\ pair \in Seq(Leg)
    <2>1. LineProduct[l] \in Products
      BY <1>1, ShapeAssumption
    <2> HIDE DEF from, l, p, moved
    <2>2. Total(pair, r) = Shift(r, LineProduct[l], from, p.dest, moved) /\ pair \in Seq(Leg)
      BY <1>3, <1>5, <2>1, PairTotal, PairType
    <2>3. Shift(r, LineProduct[l], from, p.dest, moved) = Relocated(t, r)
      <3>1. Reroutes(t, from, p.dest)
        BY <1>5, <1>6 DEF Reroutes, l
      <3> QED BY <1>1, <1>3, <3>1, ShiftIsRelocation DEF l
    <2> QED BY <2>2, <2>3
  <1>8. Total(s, r) = Relocated(t, r)
    <2> DEFINE dest == <<p.dest, LineProduct[p.line]>>
               counted == p.newTotal - (QtyAt(t, dest) + p.qty)
               corrected == counted * LineRatio[p.line]
               x == [row |-> dest, qty |-> corrected]
    <2>1. s = IF p.newTotal = NoTotal \/ counted = 0 THEN pair ELSE Append(pair, x)
      BY <1>1, <1>4 DEF Movements, Adjusts, PutawayLegs
    <2>2. CASE p.newTotal = NoTotal \/ counted = 0
      BY <1>7, <2>1, <2>2
    <2>3. CASE ~(p.newTotal = NoTotal \/ counted = 0)
      <3>1. p.newTotal \in Int /\ dest \in Rows
        BY <1>1, <1>3, <2>3, ShapeAssumption DEF PutawayLine, Rows
      <3>2. x \in Leg /\ x.row = dest
        <4>1. QtyAt(t, dest) \in Int
          BY <3>1, QtyAtType
        <4>2. p.qty \in Int /\ LineRatio[p.line] \in Int
          BY <1>1, LineStockType DEF PutawayLine
        <4> HIDE DEF dest, p
        <4>3. corrected \in Int
          BY <3>1, <4>1, <4>2
        <4> HIDE DEF corrected
        <4> QED BY <3>1, <4>3 DEF Leg
      <3>3. dest # r
        BY <1>3, <2>3, RowStaged DEF StagedBins
      <3> HIDE DEF x, dest, counted, pair, p
      <3>4. Total(Append(pair, x), r) = Total(pair, r) + (IF x.row = r THEN x.qty ELSE 0)
        BY <1>7, <3>2, AppendTotal
      <3>5. Total(pair, r) \in Int
        BY <1>7, PartsAre
      <3> QED BY <1>7, <2>1, <2>3, <3>2, <3>3, <3>4, <3>5
    <2> QED BY <2>2, <2>3
  <1>9. Added(s, Selected(t, s), r) = Total(s, r)
    BY AllSelected DEF Adjusts
  <1> QED BY <1>1, <1>8, <1>9

LEMMA StockRelocates ==
  ASSUME StagingLayout, StagedByLine, TypeOK, StatusesFit, NEW t \in Txs, pc[t] = "stock", RouteFits(t),
         NEW s \in Movements(t)
  PROVE  \E gap :
           /\ Balanced(gap)
           /\ \A r \in StagedRows : Added(s, Selected(t, s), r) =
                (IF Document(t) \in PutLines THEN Relocated(t, r) ELSE 0) + gap[r]
  <1>1. Kind(t) \in {"move", "adjust", "putaway", "quarantine", "stocktake", "state"}
    BY DtoShape DEF TypeOK, ProgramOK, Kind
  <1>2. Kind(t) # "state"
    BY MovementsFit
  <1>3. Balanced(NoGap) /\ \A r \in StagedRows : NoGap[r] = 0
    BY NoGapBalanced DEF NoGap
  <1>4. CASE Kind(t) = "quarantine" /\ dto[t].line # NoLine
    BY <1>4, QuarantineRelocates
  <1>5. ASSUME NEW r \in StagedRows, ~(Kind(t) = "quarantine" /\ dto[t].line # NoLine)
        PROVE  Added(s, Selected(t, s), r) = (IF Document(t) \in PutLines THEN Relocated(t, r) ELSE 0)
    <2>0. Kind(t) = "move" \/ Adjusts(t) \/ Kind(t) = "quarantine" \/ Kind(t) = "putaway"
      BY <1>1, <1>2 DEF Adjusts
    <2>1. CASE Kind(t) = "move"
      BY <2>1, MoveSkipsStaged
    <2>2. CASE Adjusts(t)
      BY <2>2, AdjustSkipsStaged
    <2>3. CASE Kind(t) = "quarantine"
      BY <1>5, <2>3, LooseSkipsStaged
    <2>4. CASE Kind(t) = "putaway"
      BY <2>4, PutawayRelocates
    <2> QED BY <2>0, <2>1, <2>2, <2>3, <2>4
  <1>6. CASE ~(Kind(t) = "quarantine" /\ dto[t].line # NoLine)
    <2>1. ASSUME NEW r \in StagedRows, Document(t) \in PutLines PROVE Relocated(t, r) \in Int
      <3>1. \A k : \A l \in PutLines : Part(k, l, r) \in Int
        BY StagedTypes
      <3> QED BY <2>1, <3>1 DEF Relocated
    <2>2. \A r \in StagedRows : Added(s, Selected(t, s), r) =
             (IF Document(t) \in PutLines THEN Relocated(t, r) ELSE 0) + NoGap[r]
      BY <1>3, <1>5, <1>6, <2>1
    <2> QED BY <1>3, <2>2
  <1> QED BY <1>4, <1>6

(***************************************************************************)
(* The steps of the request that is open.                                  *)
(***************************************************************************)
(* What a request goes by stays, where its step keeps what it is made of.  *)
StageVars(t) ==
  <<actual, status, dto[t], item[t], route[t], legs[t], todo[t], posted[t], marks[t]>>

LEMMA SameStage ==
  ASSUME TypeOK, NEW t \in Txs, StageOK(t), StageVars(t)' = StageVars(t),
         pc'[t] = "stock" => pc[t] = "stock", pc[t] \in Underway <=> pc'[t] \in Underway
  PROVE  StageOK(t)'
  <1>1. /\ UNCHANGED <<actual, status>>
        /\ dto'[t] = dto[t] /\ item'[t] = item[t] /\ route'[t] = route[t] /\ legs'[t] = legs[t]
        /\ todo'[t] = todo[t] /\ posted'[t] = posted[t] /\ marks'[t] = marks[t]
    BY DEF StageVars
  <1>2. Document(t)' = Document(t) /\ Kind(t)' = Kind(t)
    BY <1>1, SameDocument
  <1>3. NewStatus(t)' = NewStatus(t)
    BY <1>1, <1>2 DEF NewStatus, Unquarantining
  <1>4. \A d : StatusAt(t, d)' = StatusAt(t, d)
    BY <1>1 DEF StatusAt
  <1>5. Heading(t)' = Heading(t)
    BY <1>2, <1>3, <1>4 DEF Heading
  <1>6. \A r : ToCome(t, r)' = ToCome(t, r)
    BY <1>1 DEF ToCome
  <1>7. StagedRows' = StagedRows /\ \A r : Base(r)' = Base(r)
    BY DEF StagedRows, StagedBins, Base, Docked
  <1> DEFINE S(r) == Staged(Heading(t), r)
             S1(r) == Staged(Heading(t)', r)
  <1>8. \A r : S1(r) = S(r)
    BY <1>5
  <1>9. PICK gap \in [StagedRows -> Int] :
          /\ Balanced(gap)
          /\ \A r \in StagedRows : actual[r] + posted[t][r] + ToCome(t, r) = Base(r) + S(r) + gap[r]
    BY DEF StageOK, SetsOut
  <1> HIDE DEF S, S1
  <1>10. \A r \in StagedRows : actual'[r] + posted'[t][r] + ToCome(t, r)' = Base(r) + S1(r) + gap[r]
    BY <1>1, <1>6, <1>8, <1>9
  <1>11. pc'[t] = "stock" => RouteFits(t)'
    <2> SUFFICES ASSUME pc'[t] = "stock" PROVE RouteFits(t)'
      OBVIOUS
    <2>1. RouteFits(t)
      BY DEF StageOK
    <2>2. LineRoute(t)' = LineRoute(t)
      BY <1>1, <1>2, <1>4 DEF LineRoute, StagedIn
    <2> QED BY <1>1, <1>2, <1>4, <2>1, <2>2 DEF RouteFits
  <1>12. SetsOut(t, gap)'
    BY <1>7, <1>10 DEF SetsOut, S1
  <1>13. Balanced(gap)' /\ gap \in [StagedRows' -> Int]
    BY <1>7, <1>9 DEF Balanced, StagedRows, StagedBins, InBaseUnit, AtBins
  <1> QED BY <1>11, <1>12, <1>13 DEF StageOK

(* It is enough to look at the statuses of the lines and the sums.         *)
LEMMA StageFrom ==
  ASSUME NEW t \in Txs, NEW st, \A l \in PutLines : Heading(t)'[l] = st[l], NEW gap, Balanced(gap),
         \A r \in StagedRows :
           actual'[r] + posted'[t][r] + ToCome(t, r)' = Base(r) + Staged(st, r) + gap[r],
         pc'[t] = "stock" => RouteFits(t)'
  PROVE  StageOK(t)'
  <1>1. StagedRows' = StagedRows /\ \A r : Base(r)' = Base(r)
    BY DEF StagedRows, StagedBins, Base, Docked
  <1> DEFINE S(r) == Staged(st, r)
             S1(r) == Staged(Heading(t)', r)
  <1>2. \A r : S1(r) = S(r)
    BY StagedSame
  <1> HIDE DEF S1
  <1>3. \A r \in StagedRows : actual'[r] + posted'[t][r] + ToCome(t, r)' = Base(r) + S1(r) + gap[r]
    BY <1>2
  <1>4. SetsOut(t, gap)'
    BY <1>1, <1>3 DEF SetsOut, S1
  <1>5. Balanced(gap)' /\ gap \in [StagedRows' -> Int]
    BY <1>1 DEF Balanced, StagedRows, StagedBins, InBaseUnit, AtBins
  <1> QED BY <1>4, <1>5 DEF StageOK

LEMMA BeginStage ==
  ASSUME StagingLayout, TypeOK, OneByOne, WritesAreLocked, Accounted, NEW t \in Txs, Begin(t)
  PROVE  StageOK(t)'
  <1> USE DEF TypeOK, ProgramOK, WritesOK, Goto
  <1>1. pc[t] = "idle" /\ todo[t] = {} /\ holds[t] = {} /\ \A d \in Docs : marks[t][d] = NoMark
    BY DEF Begin, ProgressOK, OneByOne, OpenTxs, AtRest, Active
  <1>2. /\ UNCHANGED <<actual, status, legs, todo, posted, marks>>
        /\ pc'[t] \in {"line", "stock"}
    BY DEF Begin, tables, writes
  <1>3. PICK d \in Dtos :
          /\ dto'[t] = d
          /\ pc'[t] = "stock" =>
               \/ /\ d.kind = "quarantine" /\ d.line = NoLine
                  /\ route'[t] = [source |-> d.source, target |-> d.target]
               \/ d.kind \in {"move", "adjust"}
    BY DEF Begin
  <1>4. pc'[t] = "stock" => RouteFits(t)'
    <2> SUFFICES ASSUME pc'[t] = "stock" PROVE RouteFits(t)'
      OBVIOUS
    <2>1. Document(t)' = NoLine /\ NoLine \notin PutLines
      BY <1>3, ShapeAssumption DEF Document, Kind, Docs
    <2> QED BY <1>3, <2>1 DEF RouteFits, Kind
  <1>5. \A l \in PutLines : Heading(t)'[l] = status[l]
    BY <1>1, <1>2 DEF Heading, Underway, StatusAt, Docs
  <1>5a. PICK gap \in [StagedRows -> Int] : Balanced(gap) /\ AccountedBut(gap)
    BY DEF Accounted
  <1>6. ASSUME NEW r \in StagedRows
        PROVE  actual'[r] + posted'[t][r] + ToCome(t, r)' = Base(r) + Staged(status, r) + gap[r]
    <2>1. r \in Rows
      BY RowStaged
    <2>2. posted[t][r] = 0 /\ actual[r] \in Int
      BY <1>1, <2>1 DEF WritesAreLocked, TablesOK
    <2>3. ToCome(t, r)' = 0
      BY <1>1, <1>2, NothingDone DEF ToCome
    <2>4. actual[r] = Base(r) + Staged(status, r) + gap[r]
      BY <1>5a DEF AccountedBut
    <2> QED BY <1>2, <2>2, <2>3, <2>4
  <1> QED BY <1>4, <1>5, <1>5a, <1>6, StageFrom

(* Of an open request that is not at a leg, nothing is to come.            *)
LEMMA NothingToCome ==
  ASSUME TypeOK, NEW t \in Txs, pc[t] \notin {"header", "check", "upsert"}
  PROVE  todo[t] = {} /\ \A r : ToCome(t, r) = 0
  <1>1. todo[t] = {}
    BY DEF TypeOK, ProgressOK
  <1> QED BY <1>1, NothingDone DEF ToCome

LEMMA ReadStage ==
  ASSUME StagingLayout, TypeOK, NEW t \in Txs, StageOK(t),
         ReadLine(t) \/ LockStocktake(t) \/ ReadStocktake(t)
  PROVE  StageOK(t)'
  <1> USE DEF TypeOK, ProgramOK, WritesOK, Goto
  <1>1. /\ UNCHANGED <<actual, status, dto, item, legs, todo, posted>>
        /\ pc[t] = "line" /\ pc'[t] \in {"stock", "mark"}
        /\ Document(t)' = Document(t) /\ Kind(t)' = Kind(t) /\ Document(t) # NoLine
    BY SameDocument DEF ReadLine, LockStocktake, ReadStocktake, tables, program, writes, ProgressOK
  <1>1a. PICK gap \in [StagedRows -> Int] : Balanced(gap) /\ SetsOut(t, gap)
    BY DEF StageOK
  <1>2. CASE ReadLine(t)
    <2>1. /\ marks' = marks /\ route'[t] = LineRoute(t) /\ pc'[t] = "stock"
          /\ Accepted(t) /\ Kind(t) \in {"putaway", "quarantine"}
      BY <1>2 DEF ReadLine, writes
    <2>2. \A d : StatusAt(t, d)' = StatusAt(t, d)
      BY <1>1, <2>1 DEF StatusAt
    <2>3. LineRoute(t)' = LineRoute(t)
      BY <1>1, <2>2 DEF LineRoute, StagedIn
    <2>4. StatusAt(t, Document(t)) # "completed"
      BY <2>1 DEF Accepted, LineAccepted
    <2>5. ~(Kind(t) = "quarantine" /\ dto[t].line = NoLine)
      BY <1>1 DEF Document
    <2>6. RouteFits(t)'
      BY <1>1, <2>1, <2>2, <2>3, <2>4, <2>5 DEF RouteFits
    <2>7. \A l \in PutLines : Heading(t)'[l] = Heading(t)[l]
      BY <1>1, <2>1, <2>2 DEF Heading, Underway
    <2>8. \A r \in StagedRows :
            actual'[r] + posted'[t][r] + ToCome(t, r)' = Base(r) + Staged(Heading(t), r) + gap[r]
      BY <1>1, <1>1a DEF SetsOut, ToCome
    <2> QED BY <1>1a, <2>6, <2>7, <2>8, StageFrom
  <1>3. CASE LockStocktake(t) \/ ReadStocktake(t)
    <2>1. /\ marks' \in {marks, [marks EXCEPT ![t][Document(t)] = StatusAt(t, Document(t))]}
          /\ Kind(t) \in {"stocktake", "state"}
      BY <1>3 DEF LockStocktake, ReadStocktake, writes
    <2>2. Document(t) \in Stocktakes /\ Document(t) \notin PutLines
      BY <2>1, DocumentNamed, DocumentType, ShapeAssumption
    <2>3. \A l \in PutLines : marks'[t][l] = marks[t][l]
      BY <2>1, <2>2 DEF Docs
    <2>4. \A l \in PutLines : StatusAt(t, l)' = StatusAt(t, l)
      BY <1>1, <2>3 DEF StatusAt
    <2>5. RouteFits(t)'
      BY <1>1, <2>1, <2>2 DEF RouteFits
    <2>6. \A l \in PutLines : Heading(t)'[l] = Heading(t)[l]
      BY <1>1, <2>2, <2>4 DEF Heading
    <2>7. \A r \in StagedRows :
            actual'[r] + posted'[t][r] + ToCome(t, r)' = Base(r) + Staged(Heading(t), r) + gap[r]
      BY <1>1, <1>1a DEF SetsOut, ToCome
    <2> QED BY <1>1a, <2>5, <2>6, <2>7, StageFrom
  <1> QED BY <1>2, <1>3

LEMMA BaseType ==
  ASSUME StagingLayout, NEW r \in Rows
  PROVE  Base(r) \in Int /\ Docked(r) \in Int
  <1> DEFINE T == {l \in PutLines : DockBin[l] = r[1] /\ LineProduct[l] = r[2]}
  <1>1. \A l \in T : LineStock[l] \in Int
    BY LineStockType
  <1>2. IsFiniteSet(T)
    BY FS_Subset DEF StagingLayout
  <1>3. Docked(r) = SumFunctionOnSet(LineStock, T)
    BY DEF Docked
  <1> HIDE DEF T
  <1>4. Docked(r) \in Int
    BY <1>1, <1>2, <1>3, SumType
  <1> QED BY <1>4, ShapeAssumption DEF Base

(* Where a request computes its movement, it sets out for the statuses it  *)
(* will write.                                                             *)
LEMMA StockStage ==
  ASSUME StagingLayout, StagedByLine, TypeOK, StatusesFit, NEW t \in Txs, StageOK(t), ReadStock(t)
  PROVE  StageOK(t)'
  <1> DEFINE l == Document(t)
             heading == Heading(t)
             next == [k \in PutLines |-> IF k = l THEN NewStatus(t) ELSE StatusAt(t, k)]
  <1>1. pc[t] = "stock" /\ RouteFits(t)
    BY DEF ReadStock, StageOK
  <1>2. PICK s \in Movements(t) :
          /\ legs'[t] = s
          /\ todo'[t] = Selected(t, s)
          /\ pc'[t] = IF todo'[t] # {} THEN "header" ELSE AfterMovement(t)
    BY DEF ReadStock, Selected, Goto, TypeOK, ProgramOK
  <1>3. UNCHANGED <<actual, status, dto, item, route, posted, marks>>
    BY DEF ReadStock, tables, writes
  <1>4. Document(t)' = l /\ Kind(t)' = Kind(t)
    BY <1>3, SameDocument
  <1>5. NewStatus(t)' = NewStatus(t) /\ \A k : StatusAt(t, k)' = StatusAt(t, k)
    BY <1>3, <1>4 DEF NewStatus, Unquarantining, StatusAt
  <1>6. pc'[t] \in Underway \/ l = NoLine
    BY <1>2 DEF AfterMovement, Underway
  <1>7. \A k \in PutLines : Heading(t)'[k] = next[k]
    BY <1>4, <1>5, <1>6, ShapeAssumption DEF Heading, Docs
  <1>8. \A k \in PutLines : heading[k] = StatusAt(t, k)
    BY <1>1 DEF Heading, Underway
  <1>8a. PICK gap \in [StagedRows -> Int] : Balanced(gap) /\ SetsOut(t, gap)
    BY DEF StageOK
  <1>8b. PICK skew :
           /\ Balanced(skew)
           /\ \A r \in StagedRows : Added(s, Selected(t, s), r) =
                (IF l \in PutLines THEN Relocated(t, r) ELSE 0) + skew[r]
    BY <1>1, StockRelocates
  <1> DEFINE both == [r \in StagedRows |-> gap[r] + skew[r]]
  <1>8c. Balanced(both)
    BY <1>8a, <1>8b, GapsAdd
  <1>9. ASSUME NEW r \in StagedRows
        PROVE  actual'[r] + posted'[t][r] + ToCome(t, r)' = Base(r) + Staged(next, r) + both[r]
    <2>0. both[r] = gap[r] + skew[r] /\ gap[r] \in Int /\ skew[r] \in Int
      BY <1>8a, <1>8b DEF Balanced
    <2> HIDE DEF both
    <2>1. ToCome(t, r)' = (IF l \in PutLines THEN Relocated(t, r) ELSE 0) + skew[r]
      BY <1>2, <1>8b DEF ToCome
    <2>2. ToCome(t, r) = 0
      BY <1>1, NothingToCome
    <2>3. actual[r] + posted[t][r] + 0 = Base(r) + Staged(heading, r) + gap[r]
      BY <1>8a, <2>2 DEF SetsOut
    <2>4. actual[r] \in Int /\ posted[t][r] \in Int /\ Base(r) \in Int
      BY RowStaged, BaseType DEF TypeOK, TablesOK, WritesOK
    <2>5. CASE l \in PutLines
      <3>1. next[l] = NewStatus(t) /\ \A k \in PutLines \ {l} : next[k] = heading[k]
        BY <1>8, <2>5
      <3>2. heading[l] = StatusAt(t, l)
        BY <1>8, <2>5
      <3> HIDE DEF next, heading
      <3>3. Staged(next, r) = Staged(heading, r) - Part(heading[l], l, r) + Part(next[l], l, r)
        <4>1. OnlyAt(heading, next, l)
          BY <3>1 DEF OnlyAt
        <4> QED BY <2>5, <4>1, StagedMoves
      <3>4. Relocated(t, r) = Part(next[l], l, r) - Part(heading[l], l, r)
        BY <3>1, <3>2 DEF Relocated
      <3>5. Staged(heading, r) \in Int /\ Part(next[l], l, r) \in Int /\ Part(heading[l], l, r) \in Int
        BY <2>5, StagedTypes
      <3> DEFINE a == actual[r]
                 p == posted[t][r]
                 b == Base(r)
                 x == Staged(heading, r)
                 y == Part(next[l], l, r)
                 z == Part(heading[l], l, r)
                 g == gap[r]
                 h == skew[r]
      <3>6. a + p = b + x + g /\ g \in Int /\ h \in Int /\ a \in Int /\ p \in Int /\ b \in Int /\ x \in Int /\ y \in Int /\ z \in Int
        BY <2>0, <2>3, <2>4, <3>5
      <3>7. ToCome(t, r)' = (y - z) + h /\ both[r] = g + h /\ Staged(next, r) = x - z + y /\ actual'[r] = a /\ posted'[t][r] = p
        BY <1>3, <2>0, <2>1, <2>5, <3>3, <3>4
      <3> HIDE DEF a, p, b, x, y, z, g, h
      <3>8. a + p + ((y - z) + h) = b + (x - z + y) + (g + h)
        BY <3>6
      <3> QED BY <3>7, <3>8 DEF b
    <2>6. CASE l \notin PutLines
      <3>1. \A k \in PutLines : next[k] = heading[k]
        BY <1>8, <2>6
      <3> HIDE DEF next, heading
      <3>2. Staged(next, r) = Staged(heading, r)
        BY <3>1, StagedSame
      <3>3. Staged(heading, r) \in Int
        BY StagedTypes
      <3> QED BY <1>3, <2>0, <2>1, <2>3, <2>4, <2>6, <3>2, <3>3
    <2> QED BY <2>5, <2>6
  <1>10. pc'[t] # "stock"
    BY <1>2 DEF AfterMovement
  <1> HIDE DEF next, both
  <1> QED BY <1>7, <1>8c, <1>9, <1>10, StageFrom

(* A leg that is upserted is no longer to come.                            *)
LEMMA UpsertToCome ==
  ASSUME TypeOK, NEW t \in Txs, Upsert(t), NEW r \in Rows
  PROVE  posted'[t][r] + ToCome(t, r)' = posted[t][r] + ToCome(t, r)
  <1> DEFINE k == NextLeg(t)
             s == legs[t]
             f == RowPart(s, r)
             T == todo[t]
  <1>1. /\ k \in T /\ NextRow(t) \in Rows /\ NextRow(t) = s[k].row
        /\ s[k].qty \in Int /\ k \in DOMAIN s /\ s \in Seq(Leg) /\ T \subseteq DOMAIN s
    BY NextLegType DEF Upsert, NextRow, TypeOK, ProgressOK, ProgramOK
  <1>2. legs' = legs /\ todo'[t] = T \ {k}
    BY DEF Upsert, TypeOK, ProgramOK
  <1>3. posted' = [posted EXCEPT ![t][NextRow(t)] = @ + s[k].qty]
    BY DEF Upsert
  <1>4. posted \in [Txs -> [Rows -> Int]]
    BY DEF TypeOK, WritesOK
  <1>5. f[k] = (IF NextRow(t) = r THEN s[k].qty ELSE 0) /\ f[k] \in Int
    BY <1>1 DEF RowPart
  <1>6. posted'[t][r] = posted[t][r] + f[k] /\ posted[t][r] \in Int
    BY <1>1, <1>3, <1>4, <1>5
  <1>7. IsFiniteSet(T) /\ \A i \in T : f[i] \in Int
    <2>1. IsFiniteSet(DOMAIN s) /\ \A i \in DOMAIN s : f[i] \in Int
      BY <1>1, PartsAre
    <2> HIDE DEF f, s, T
    <2> QED BY <1>1, <2>1, FS_Subset
  <1>8. ToCome(t, r) = SumFunctionOnSet(f, T) /\ ToCome(t, r)' = SumFunctionOnSet(f, T \ {k})
    BY <1>2 DEF ToCome, Added
  <1> HIDE DEF f, T, s, k
  <1>9. SumFunctionOnSet(f, T) = f[k] + SumFunctionOnSet(f, T \ {k})
    BY <1>1, <1>7, SumRemove
  <1>10. SumFunctionOnSet(f, T \ {k}) \in Int
    <2>1. IsFiniteSet(T \ {k}) /\ \A i \in T \ {k} : f[i] \in Int
      BY <1>7, FS_RemoveElement
    <2> QED BY <2>1, SumType
  <1> DEFINE x == f[k]
             y == SumFunctionOnSet(f, T \ {k})
             z == posted[t][r]
  <1>11. x \in Int /\ y \in Int /\ z \in Int
    BY <1>5, <1>6, <1>10
  <1>12. posted'[t][r] = z + x /\ ToCome(t, r)' = y /\ ToCome(t, r) = x + y
    BY <1>6, <1>8, <1>9
  <1> HIDE DEF x, y, z
  <1> QED BY <1>11, <1>12 DEF z

LEMMA AddedType ==
  ASSUME NEW s \in Seq(Leg), NEW T \in SUBSET DOMAIN s, NEW r
  PROVE  Added(s, T, r) \in Int
  <1> DEFINE f == RowPart(s, r)
  <1>1. IsFiniteSet(DOMAIN s) /\ \A i \in DOMAIN s : f[i] \in Int
    BY PartsAre
  <1> HIDE DEF f
  <1>2. IsFiniteSet(T) /\ \A i \in T : f[i] \in Int
    BY <1>1, FS_Subset
  <1>3. SumFunctionOnSet(f, T) \in Int
    BY <1>2, SumType
  <1> QED BY <1>3 DEF Added, f

LEMMA ToComeType ==
  ASSUME TypeOK, NEW t \in Txs, NEW r
  PROVE  ToCome(t, r) \in Int
  BY AddedType DEF ToCome, TypeOK, ProgressOK, ProgramOK

LEMMA UpsertStage ==
  ASSUME StagingLayout, TypeOK, TypeOK', NEW t \in Txs, StageOK(t), Upsert(t)
  PROVE  StageOK(t)'
  <1>1. /\ UNCHANGED <<actual, status, dto, item, route, marks>>
        /\ pc[t] = "upsert" /\ pc'[t] \in {"upsert", AfterMovement(t)}
    BY DEF Upsert, tables, Goto, TypeOK, ProgramOK
  <1>2. Document(t)' = Document(t) /\ Kind(t)' = Kind(t)
    BY <1>1, SameDocument
  <1>3. NewStatus(t)' = NewStatus(t) /\ \A k : StatusAt(t, k)' = StatusAt(t, k)
    BY <1>1, <1>2 DEF NewStatus, Unquarantining, StatusAt
  <1>4. pc'[t] # "stock" /\ (pc'[t] \in Underway \/ Document(t) = NoLine)
    BY <1>1 DEF AfterMovement, Underway
  <1>5. \A k \in PutLines : Heading(t)'[k] = Heading(t)[k]
    BY <1>1, <1>2, <1>3, <1>4, ShapeAssumption DEF Heading, Underway, Docs
  <1>5a. PICK gap \in [StagedRows -> Int] : Balanced(gap) /\ SetsOut(t, gap)
    BY DEF StageOK
  <1>6. ASSUME NEW r \in StagedRows
        PROVE  actual'[r] + posted'[t][r] + ToCome(t, r)' = Base(r) + Staged(Heading(t), r) + gap[r]
    <2> DEFINE a == actual[r]
               p == posted[t][r]
               c == ToCome(t, r)
               p1 == posted'[t][r]
               c1 == ToCome(t, r)'
               b == Base(r) + Staged(Heading(t), r) + gap[r]
    <2>1. r \in Rows
      BY RowStaged
    <2>2. p1 + c1 = p + c
      BY <2>1, UpsertToCome
    <2>3. a + p + c = b
      BY <1>5a DEF SetsOut
    <2>4. a \in Int /\ p \in Int /\ c \in Int /\ p1 \in Int
      BY <2>1, ToComeType DEF TypeOK, TablesOK, WritesOK
    <2>5. c1 \in Int
      <3>1. \A u \in Txs : legs'[u] \in Seq(Leg) /\ todo'[u] \subseteq DOMAIN legs'[u]
        BY DEF TypeOK, ProgramOK, ProgressOK
      <3> QED BY <3>1, AddedType DEF ToCome
    <2>6. actual'[r] = a
      BY <1>1
    <2> HIDE DEF a, p, c, p1, c1, b
    <2>7. a + p1 + c1 = b
      BY <2>2, <2>3, <2>4, <2>5
    <2> QED BY <2>6, <2>7 DEF p1, c1, b
  <1> QED BY <1>4, <1>5, <1>5a, <1>6, StageFrom

LEMMA MarkStage ==
  ASSUME StagingLayout, TypeOK, MarksNamed, NEW t \in Txs, StageOK(t), MarkLine(t)
  PROVE  StageOK(t)'
  <1> USE DEF TypeOK, ProgramOK, WritesOK, Goto
  <1> DEFINE d == Document(t)
  <1>1. /\ UNCHANGED <<actual, status, legs, todo, posted>>
        /\ pc[t] = "mark" /\ pc'[t] \in {"line", "commit"}
        /\ marks' = [marks EXCEPT ![t][d] = NewStatus(t)]
    BY DEF MarkLine, tables
  <1>2. d # NoLine /\ d \in Docs
    BY <1>1, DocumentKind DEF MarksNamed
  <1>3. NewStatus(t) # NoMark
    BY <1>2, NewStatusFits DEF StatusesOf, StocktakeStates, LineStatuses, NoMark
  <1>4. \A l \in PutLines : StatusAt(t, l)' = Heading(t)[l]
    <2>1. \A l \in PutLines : l \in Docs
      BY DEF Docs
    <2>2. \A l \in Docs : marks'[t][l] = IF l = d THEN NewStatus(t) ELSE marks[t][l]
      BY <1>1, <1>2
    <2>3. \A l \in PutLines : Heading(t)[l] = IF l = d THEN NewStatus(t) ELSE StatusAt(t, l)
      BY <1>1 DEF Heading, Underway
    <2>4. \A l \in Docs : StatusAt(t, l)' = IF l = d THEN NewStatus(t) ELSE StatusAt(t, l)
      BY <1>1, <1>3, <2>2 DEF StatusAt
    <2> QED BY <2>1, <2>3, <2>4
  <1>5. \A l \in PutLines : Heading(t)'[l] = Heading(t)[l]
    <2>1. pc'[t] \notin Underway
      BY <1>1 DEF Underway
    <2>2. \A l \in PutLines : Heading(t)'[l] = StatusAt(t, l)'
      BY <2>1 DEF Heading
    <2> QED BY <1>4, <2>2
  <1>5a. PICK gap \in [StagedRows -> Int] : Balanced(gap) /\ SetsOut(t, gap)
    BY DEF StageOK
  <1>6. \A r \in StagedRows :
          actual'[r] + posted'[t][r] + ToCome(t, r)' = Base(r) + Staged(Heading(t), r) + gap[r]
    BY <1>1, <1>5a DEF SetsOut, ToCome
  <1>7. pc'[t] # "stock"
    BY <1>1
  <1> QED BY <1>5, <1>5a, <1>6, <1>7, StageFrom

LEMMA CommitAccounts ==
  ASSUME TypeOK, WritesAreLocked, StagingLayout, NEW t \in Txs, StageOK(t), Commit(t)
  PROVE  Accounted'
  <1>1. /\ pc[t] = "commit"
        /\ actual' = [r \in Rows |-> QtyAt(t, r)]
        /\ status' = [d \in Docs |-> StatusAt(t, d)]
    BY DEF Commit
  <1>2. \A l \in PutLines : status'[l] = Heading(t)[l]
    BY <1>1 DEF Heading, Underway, Docs
  <1>2a. PICK gap \in [StagedRows -> Int] : Balanced(gap) /\ SetsOut(t, gap)
    BY DEF StageOK
  <1>3. ASSUME NEW r \in StagedRows PROVE actual'[r] = Base(r) + Staged(Heading(t), r) + gap[r]
    <2>1. r \in Rows
      BY RowStaged
    <2>2. QtyAt(t, r) = actual[r] + posted[t][r]
      BY <2>1 DEF WritesAreLocked, QtyAt, TypeOK, TablesOK
    <2>3. ToCome(t, r) = 0
      BY <1>1, NothingToCome
    <2>4. actual[r] \in Int /\ posted[t][r] \in Int
      BY <2>1 DEF TypeOK, TablesOK, WritesOK
    <2>5. actual[r] + posted[t][r] + 0 = Base(r) + Staged(Heading(t), r) + gap[r]
      BY <1>2a, <2>3 DEF SetsOut
    <2> QED BY <1>1, <2>1, <2>2, <2>4, <2>5
  <1> DEFINE S(r) == Staged(status', r)
             H(r) == Staged(Heading(t), r)
  <1>4. \A r : S(r) = H(r)
    BY <1>2, StagedSame
  <1>5. StagedRows' = StagedRows /\ \A r : Base(r)' = Base(r)
    BY DEF StagedRows, StagedBins, Base, Docked
  <1>6. \A r \in StagedRows : actual'[r] = Base(r) + H(r) + gap[r]
    BY <1>3
  <1> HIDE DEF S, H
  <1>7. \A r \in StagedRows : actual'[r] = Base(r) + S(r) + gap[r]
    BY <1>4, <1>6
  <1>8. AccountedBut(gap)'
    BY <1>5, <1>7 DEF AccountedBut, S
  <1>9. Balanced(gap)' /\ gap \in [StagedRows' -> Int]
    BY <1>2a, <1>5 DEF Balanced, StagedRows, StagedBins, InBaseUnit, AtBins
  <1> QED BY <1>8, <1>9 DEF Accounted

LEMMA AccountedStays ==
  ASSUME Accounted, UNCHANGED <<actual, status>>
  PROVE  Accounted'
  <1>1. PICK gap \in [StagedRows -> Int] : Balanced(gap) /\ AccountedBut(gap)
    BY DEF Accounted
  <1>2. AccountedBut(gap)'
    BY <1>1 DEF AccountedBut, StagedRows, StagedBins, Base, Docked, Staged, Part, BinOf
  <1>3. Balanced(gap)' /\ gap \in [StagedRows' -> Int]
    BY <1>1 DEF Balanced, StagedRows, StagedBins, InBaseUnit, AtBins
  <1> QED BY <1>2, <1>3 DEF Accounted

LEMMA StageStep ==
  ASSUME MaxOpen <= 1, StagingLayout, StagedByLine, TypeOK, TypeOK', WritesAreLocked, OneByOne,
         StatusesFit, MarksNamed, StageInv, NEW t \in Txs, Acts(t)
  PROVE  StageInv'
  <1>1. pc[t] \in Active => StageOK(t)
    BY DEF StageInv, OpenTxs
  <1>2. \A u \in Txs \ {t} : pc'[u] \notin Active
    BY OthersStay, Alone
  <1>3. Accounted'
    <2>1. CASE Commit(t)
      <3>1. StageOK(t)
        BY <1>1, <2>1 DEF Commit, Active
      <3> QED BY <2>1, <3>1, CommitAccounts
    <2>2. CASE UNCHANGED tables
      BY <2>2, AccountedStays DEF tables, StageInv
    <2> QED BY <2>1, <2>2, TablesStay
  <1>4. pc'[t] \in Active => StageOK(t)'
    <2> USE DEF Goto, TypeOK, ProgramOK
    <2>1. CASE DuplicateHeader(t) \/ Refuse(t) \/ ResolveDeadlock(t) \/ Lose(t)
      <3>1. \E why \in Ended : Abort(t, why)
        BY <2>1 DEF DuplicateHeader, Refuse, ResolveDeadlock, Lose, Ended
      <3> QED BY <3>1 DEF Abort, Ended, Active
    <2>2. CASE Commit(t)
      BY <2>2 DEF Commit, Active
    <2>3. CASE Begin(t)
      BY <2>3, BeginStage DEF StageInv
    <2>4. CASE ReadLine(t) \/ LockStocktake(t) \/ ReadStocktake(t)
      <3>1. StageOK(t)
        BY <1>1, <2>4 DEF ReadLine, LockStocktake, ReadStocktake, Active
      <3> QED BY <2>4, <3>1, ReadStage
    <2>5. CASE ReadStock(t)
      <3>1. StageOK(t)
        BY <1>1, <2>5 DEF ReadStock, Active
      <3> QED BY <2>5, <3>1, StockStage
    <2>6. CASE InsertHeader(t) \/ ValidateStock(t)
      <3>1. StageOK(t) /\ pc[t] \in Underway /\ pc'[t] \in Underway /\ pc'[t] # "stock"
        BY <1>1, <2>6 DEF InsertHeader, ValidateStock, Active, Underway
      <3>2. StageVars(t)' = StageVars(t)
        BY <2>6 DEF InsertHeader, ValidateStock, StageVars, tables, program, writes
      <3> QED BY <3>1, <3>2, SameStage
    <2>7. CASE Upsert(t)
      <3>1. StageOK(t)
        BY <1>1, <2>7 DEF Upsert, Active
      <3> QED BY <2>7, <3>1, UpsertStage
    <2>8. CASE MarkLine(t)
      <3>1. StageOK(t)
        BY <1>1, <2>8 DEF MarkLine, Active
      <3> QED BY <2>8, <3>1, MarkStage
    <2> QED BY <2>1, <2>2, <2>3, <2>4, <2>5, <2>6, <2>7, <2>8 DEF Acts, Step
  <1>5. \A u \in Txs : pc'[u] \in Active => StageOK(u)'
    BY <1>2, <1>4
  <1> QED BY <1>3, <1>5 DEF StageInv, OpenTxs

LEMMA InitStage ==
  ASSUME StagingLayout, Init
  PROVE  StageInv
  <1>1. OpenTxs = {}
    BY DEF Init, OpenTxs, Active
  <1>2. ASSUME NEW r \in StagedRows PROVE actual[r] = Base(r) + Staged(status, r)
    <2> DEFINE T == {l \in PutLines : DockBin[l] = r[1] /\ LineProduct[l] = r[2]}
               g == [l \in PutLines |-> Part(status[l], l, r)]
    <2>1. \A l \in PutLines : status[l] \in {"awaiting_matching", "pending_putaway"}
      BY ShapeAssumption DEF Init, Docs
    <2>2. \A l \in PutLines : g[l] = IF LineProduct[l] = r[2] /\ DockBin[l] = r[1] THEN LineStock[l] ELSE 0
      BY <2>1 DEF Part, BinOf
    <2>3. /\ IsFiniteSet(PutLines) /\ T \in SUBSET PutLines
          /\ \A l \in T : LineStock[l] \in Int /\ g[l] = LineStock[l]
          /\ \A l \in PutLines \ T : g[l] = 0
      BY <2>2, LineStockType DEF StagingLayout
    <2>4. Staged(status, r) = SumFunctionOnSet(g, PutLines) /\ Docked(r) = SumFunctionOnSet(LineStock, T)
      BY DEF Staged, Docked
    <2> HIDE DEF g, T
    <2>5. SumFunctionOnSet(g, PutLines) = SumFunctionOnSet(LineStock, T)
      BY <2>3, SumWhere
    <2>6. Staged(status, r) = Docked(r)
      BY <2>4, <2>5
    <2>7. r \in Rows /\ InitialStock[r] \in Int /\ Docked(r) \in Int
      BY RowStaged, BaseType, ShapeAssumption
    <2>8. actual[r] = InitialStock[r]
      BY DEF Init
    <2> QED BY <2>6, <2>7, <2>8 DEF Base
  <1>3. AccountedBut(NoGap)
    <2>1. ASSUME NEW r \in StagedRows PROVE actual[r] = Base(r) + Staged(status, r) + NoGap[r]
      <3>1. NoGap[r] = 0 /\ Base(r) \in Int /\ Staged(status, r) \in Int
        BY RowStaged, BaseType, StagedTypes DEF NoGap
      <3> QED BY <1>2, <3>1
    <2> QED BY <2>1 DEF AccountedBut
  <1>4. Balanced(NoGap) /\ NoGap \in [StagedRows -> Int]
    BY NoGapBalanced DEF NoGap
  <1> QED BY <1>1, <1>3, <1>4 DEF StageInv, Accounted

(* The property sums the lines that wait in a bin, the argument what each  *)
(* line has there.                                                         *)
LEMMA StagedIsQty ==
  ASSUME StagingLayout, NEW b \in StagedBins, NEW p \in Products
  PROVE  StagedQty(b, p) = Staged(status, <<b, p>>)
  <1> DEFINE r == <<b, p>>
             T == {l \in PutLines :
                     /\ LineProduct[l] = p
                     /\ \/ status[l] \in {"awaiting_matching", "pending_putaway"} /\ DockBin[l] = b
                        \/ status[l] = "quarantined" /\ QuarantineBin = b}
             g == [l \in PutLines |-> Part(status[l], l, r)]
  <1>1. r[1] = b /\ r[2] = p /\ b # NoBin
    BY ShapeAssumption DEF StagedBins, StagingLayout
  <1>2. /\ IsFiniteSet(PutLines) /\ T \in SUBSET PutLines
        /\ \A l \in T : LineStock[l] \in Int /\ g[l] = LineStock[l]
        /\ \A l \in PutLines \ T : g[l] = 0
    BY <1>1, LineStockType DEF StagingLayout, Part, BinOf
  <1>3. Staged(status, r) = SumFunctionOnSet(g, PutLines) /\ StagedQty(b, p) = SumFunctionOnSet(LineStock, T)
    BY DEF Staged, StagedQty
  <1> HIDE DEF g, T
  <1>4. SumFunctionOnSet(g, PutLines) = SumFunctionOnSet(LineStock, T)
    BY <1>2, SumWhere
  <1> QED BY <1>3, <1>4

(* Of requests one after the other, that reach the staged bins by putaways *)
(* and quarantines of whole receipt lines only, none leaves goods there    *)
(* that no line accounts for, nor a line without its goods: the row that   *)
(* loses or receives a line is that of the status the request writes.      *)
(* What the quarantine of a line in another unit moves too little or too   *)
(* much, it leaves in or takes from another of these bins.                 *)
THEOREM StagedStockOneByOne ==
  ASSUME MaxOpen <= 1, StagingLayout, StagedByLine
  PROVE  Spec => []LinesAccountForStagedStock
  <1> DEFINE I == FinalInv /\ CacheInv /\ StageInv
  <1>1. Init => I
    BY InitFinal, InitCache, InitStage
  <1>2. I /\ [Next]_vars => I'
    <2> SUFFICES ASSUME I, [Next]_vars PROVE I'
      OBVIOUS
    <2>1. FinalInv' /\ CacheInv'
      BY NextFinal, NextCache
    <2>2. CASE UNCHANGED vars
      <3>1. UNCHANGED <<tables, pc>> /\ \A u \in Txs : StageVars(u)' = StageVars(u)
        BY <2>2 DEF vars, tables, program, writes, StageVars
      <3>2. Accounted'
        BY <3>1, AccountedStays DEF tables, StageInv
      <3>3. \A u \in OpenTxs' : StageOK(u)'
        <4> SUFFICES ASSUME NEW u \in Txs, pc'[u] \in Active PROVE StageOK(u)'
          BY DEF OpenTxs
        <4>1. StageOK(u) /\ TypeOK
          BY <3>1 DEF StageInv, OpenTxs, FinalInv, CacheInv
        <4> QED BY <3>1, <4>1, SameStage
      <3>4. StageInv'
        BY <3>2, <3>3 DEF StageInv
      <3> QED BY <2>1, <3>4
    <2>3. ASSUME NEW t \in Txs, Acts(t) PROVE I'
      BY <2>1, <2>3, StageStep DEF FinalInv, CacheInv
    <2> QED BY <2>2, <2>3 DEF Next, Acts
  <1>3. I => LinesAccountForStagedStock
    <2> SUFFICES ASSUME StageInv, NEW p \in Products
                 PROVE  /\ InBaseUnit(p) => \A b \in StagedBins : Unexplained(p)[b] = 0
                        /\ SumFunction(Unexplained(p)) = 0
      BY DEF LinesAccountForStagedStock
    <2>1. PICK gap \in [StagedRows -> Int] : Balanced(gap) /\ AccountedBut(gap)
      BY DEF StageInv, Accounted
    <2>2. ASSUME NEW b \in StagedBins PROVE Unexplained(p)[b] = gap[<<b, p>>]
      <3> DEFINE r == <<b, p>>
      <3>1. r \in StagedRows /\ r[1] = b /\ r[2] = p
        BY DEF StagedRows
      <3>2. Unexplained(p)[b] = actual[r] - OtherStock(b, p) - StagedQty(b, p)
        BY DEF Unexplained
      <3>3. OtherStock(b, p) = Base(r) /\ Base(r) \in Int
        BY <3>1, RowStaged, BaseType DEF OtherStock, Base, Docked
      <3>4. StagedQty(b, p) = Staged(status, r) /\ Staged(status, r) \in Int
        BY StagedIsQty, StagedTypes
      <3>5. actual[r] = Base(r) + Staged(status, r) + gap[r] /\ gap[r] \in Int
        BY <2>1, <3>1 DEF AccountedBut
      <3> HIDE DEF r
      <3>6. Unexplained(p)[b] = gap[r]
        BY <3>2, <3>3, <3>4, <3>5
      <3> QED BY <3>6 DEF r
    <2>3. InBaseUnit(p) => \A b \in StagedBins : Unexplained(p)[b] = 0
      <3>1. \A b \in StagedBins : <<b, p>> \in StagedRows /\ <<b, p>>[2] = p
        BY DEF StagedRows
      <3> QED BY <2>1, <2>2, <3>1 DEF Balanced
    <2>4. SumFunction(Unexplained(p)) = 0
      <3>1. Unexplained(p) = AtBins(gap, p) /\ DOMAIN Unexplained(p) = StagedBins
        BY <2>2 DEF Unexplained, AtBins
      <3> QED BY <2>1, <3>1 DEF Balanced, SumFunction
    <2> QED BY <2>3, <2>4
  <1> HIDE DEF I
  <1> QED BY <1>1, <1>2, <1>3, PTL DEF Spec

===============================================================================
