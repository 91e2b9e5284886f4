-------------------------- MODULE AssemblerProofs ---------------------------
(***************************************************************************)
(* The proof that the two passes of the assembler agree and that no two    *)
(* lines share an address, for any number of lines, symbols, literals and  *)
(* segments, up to MaxBlocks blocks, and every size of the address space.  *)
(* Both passes go along the walk of AssemblerInvariant.                    *)
(***************************************************************************)
EXTENDS AssemblerLemmas

-----------------------------------------------------------------------------
(***************************************************************************)
(* Every line of the first pass, and its end.                              *)
(***************************************************************************)
\* What a line may be once it has been accepted.
LEMMA AcceptedIs ==
  ASSUME NEW solved, Accepted(Node, solved)
  PROVE  /\ Node.kind = "START" => Absolute(solved, 0, AddressSize - 1)
         /\ Node.kind = "ORG" => OrgFits(solved)
         /\ Node.kind = "EQU" => EquFits(Node, solved)
         /\ Node.kind = "EXTDEF" => Export(Node.symbol_list).ok
         /\ Node.kind = "EXTREF" => Import(Node.symbol_list).ok
         /\ Node.kind = "RESERVE" => LabelFits(Node) /\ Absolute(solved, 1, AddressSize - 1)
         /\ Node.kind \in {"F1", "F2", "FS34", "INIT"} => LabelFits(Node)
<1>1. PICK kind : kind = Node.kind
  OBVIOUS
<1>2. CASE kind = "START"
  BY <1>1, <1>2 DEF Accepted
<1>3. CASE kind = "ORG"
  BY <1>1, <1>3 DEF Accepted
<1>4. CASE kind = "EQU"
  BY <1>1, <1>4 DEF Accepted
<1>5. CASE kind = "EXTDEF"
  BY <1>1, <1>5 DEF Accepted
<1>6. CASE kind = "EXTREF"
  BY <1>1, <1>6 DEF Accepted
<1>7. CASE kind = "RESERVE"
  BY <1>1, <1>7 DEF Accepted
<1>8. CASE kind \in {"F1", "F2", "FS34", "INIT"}
  BY <1>1, <1>8 DEF Accepted
<1> QED  BY <1>1, <1>2, <1>3, <1>4, <1>5, <1>6, <1>7, <1>8

\* The table in which the expression of a line is evaluated.
LEMMA SymbolsAtIs ==
  ASSUME LiteralNamesDiffer, NEW walk \in [Nat -> Spot], FirstPass(walk), position <= Len(nodes),
         Node.kind \in {"F1", "F2", "FS34", "INIT", "RESERVE"} => LabelFits(Node)
  PROVE  /\ IsTable(SymbolsAt(Node))
         /\ Node.kind \in {"F1", "F2", "FS34", "INIT", "RESERVE"} => SymbolsAt(Node) = WithLabel(Node)
<1>1. /\ IsTable(symbol_table) /\ LiteralsAre(symbol_table)
      /\ current_address \in Nat /\ current_block \in Int /\ start_address \in Nat
  BY VisitedIs
<1>2. PICK kind : kind = Node.kind
  OBVIOUS
<1>3. CASE kind \in {"F1", "F2", "FS34", "INIT", "RESERVE"}
  <2>1. SymbolsAt(Node) = WithLabel(Node)
    BY <1>2, <1>3 DEF SymbolsAt
  <2>2. LabelFits(Node)
    BY <1>2, <1>3
  <2>3. IsTable(WithLabel(Node))
    BY <2>2, WithLabelIs
  <2> QED  BY <2>1, <2>3
<1>4. CASE kind = "END"
  <2>1. SymbolsAt(Node) = PooledSymbols
    BY <1>2, <1>4 DEF SymbolsAt
  <2>2. IsTable(PooledSymbols)
    BY <1>1, PooledIs
  <2> QED  BY <1>2, <1>4, <2>1, <2>2
<1>5. CASE kind \notin {"F1", "F2", "FS34", "INIT", "RESERVE", "END"}
  <2>1. SymbolsAt(Node) = symbol_table
    BY <1>2, <1>5 DEF SymbolsAt
  <2> QED  BY <1>1, <1>2, <1>5, <2>1
<1> QED  BY <1>3, <1>4, <1>5

\* A line is visited, or refused.
LEMMA VisitIs ==
  ASSUME LiteralNamesDiffer, NEW walk \in [Nat -> Spot], FirstPass(walk), VisitNode,
         listing' = listing
  PROVE  /\ Stand /\ IsTable(symbol_table')
         /\ phase' \in {"tables", "failed"}
         /\ phase' = "tables" => \E later \in [Nat -> Spot] : FirstPass(later)'
<1>1. phase = "tables" /\ position <= Len(nodes)
  BY DEF VisitNode
<1>2. PICK table, solved :
        /\ table = SymbolsAt(Node) /\ solved = Solve(Node.expression, table, FALSE)
        /\ \/ Reject
           \/ /\ Accepted(Node, solved)
              /\ \/ BuildStart(solved)
                 \/ BuildCode(table)
                 \/ BuildLiteralUser(table, LiteralBytes(Node, solved))
                 \/ BuildReserve(table, solved.value)
                 \/ BuildEqu(solved)
                 \/ BuildOrg(solved.value)
                 \/ BuildUse
                 \/ BuildLtorg
                 \/ BuildEnd(solved.value)
                 \/ BuildDirective
  BY DEF VisitNode
<1>3. IsLine(Node)
  BY <1>1, VisitedIs
<1>4. phase' \in {"tables", "failed"}
  <2>1. CASE Reject
    BY <2>1 DEF Reject
  <2>2. CASE ~Reject
    <3>1. \E inserted, address : Advance(inserted, address)
      BY <1>2, <2>2 DEF BuildStart, BuildCode, BuildLiteralUser, BuildReserve, BuildEqu, BuildOrg,
                        BuildUse, BuildLtorg, BuildEnd, BuildDirective
    <3> QED  BY <1>1, <3>1 DEF Advance
  <2> QED  BY <2>1, <2>2
<1>5. CASE Reject
  <2>1. symbol_table' = symbol_table /\ phase' = "failed"
    BY <1>5 DEF Reject, table_vars
  <2>2. Stand
    BY <2>1 DEF Stand, Stays
  <2>3. IsTable(symbol_table')
    BY <1>1, <2>1, VisitedIs
  <2> QED  BY <2>1, <2>2, <2>3
<1>6. ASSUME Accepted(Node, solved), ~Reject
      PROVE  Stand /\ \E later \in [Nat -> Spot] : FirstPass(later)'
  <2>1. /\ Node.kind = "START" => Absolute(solved, 0, AddressSize - 1)
        /\ Node.kind = "ORG" => OrgFits(solved)
        /\ Node.kind = "EQU" => EquFits(Node, solved)
        /\ Node.kind = "EXTDEF" => Export(Node.symbol_list).ok
        /\ Node.kind = "EXTREF" => Import(Node.symbol_list).ok
        /\ Node.kind = "RESERVE" => LabelFits(Node) /\ Absolute(solved, 1, AddressSize - 1)
        /\ Node.kind \in {"F1", "F2", "FS34", "INIT"} => LabelFits(Node)
    BY <1>6, AcceptedIs
  <2>2. /\ IsTable(table)
        /\ Node.kind \in {"F1", "F2", "FS34", "INIT", "RESERVE"} => table = WithLabel(Node)
    <3>1. Node.kind \in {"F1", "F2", "FS34", "INIT", "RESERVE"} => LabelFits(Node)
      BY <2>1
    <3> QED  BY <1>1, <1>2, <3>1, SymbolsAtIs
  <2>3. solved.value \in Int /\ solved.relative \in BOOLEAN
    <3>1. Node.expression \in Expression
      BY <1>3 DEF IsLine
    <3>2. /\ Solve(Node.expression, table, FALSE).value \in Int
          /\ Solve(Node.expression, table, FALSE).relative \in BOOLEAN
      BY <2>2, <3>1, SolveIs
    <3> QED  BY <1>2, <3>2
  <2>4. CASE BuildStart(solved)
    <3>1. Node.kind = "START"
      BY <2>4 DEF BuildStart
    <3> QED  BY <1>1, <2>1, <2>3, <2>4, <3>1, BuildStartIs
  <2>5. CASE BuildCode(table)
    <3>1. Node.kind \in {"F1", "F2", "FS34", "INIT"}
      BY <2>5 DEF BuildCode
    <3>2. LabelFits(Node) /\ BuildCode(WithLabel(Node))
      BY <2>1, <2>2, <2>5, <3>1
    <3> QED  BY <1>1, <3>2, BuildCodeIs
  <2>6. CASE BuildLiteralUser(table, LiteralBytes(Node, solved))
    <3>1. UsesLiteral(Node) /\ Node.kind = "FS34"
      BY <2>6 DEF BuildLiteralUser, UsesLiteral
    <3>2. PICK bytes : bytes = LiteralBytes(Node, solved)
      OBVIOUS
    <3>3. Len(bytes) \in Nat
      <4>1. Node.data \in Seq(Int) /\ Node.syntax \in {"LOAD_B", "LOAD_W", "LOAD_F"}
        BY <1>3, <3>1 DEF IsLine
      <4> QED  BY <3>2, <4>1, LiteralBytesIs
    <3>4. LabelFits(Node) /\ BuildLiteralUser(WithLabel(Node), bytes)
      BY <2>1, <2>2, <2>6, <3>1, <3>2
    <3> QED  BY <1>1, <3>3, <3>4, BuildLiteralUserIs
  <2>7. CASE BuildReserve(table, solved.value)
    <3>1. Node.kind = "RESERVE"
      BY <2>7 DEF BuildReserve
    <3>2. solved.value \in Nat
      BY <2>1, <2>3, <3>1 DEF Absolute, InLimits
    <3>3. LabelFits(Node) /\ BuildReserve(WithLabel(Node), solved.value)
      BY <2>1, <2>2, <2>7, <3>1
    <3> QED  BY <1>1, <3>2, <3>3, BuildReserveIs
  <2>8. CASE BuildEqu(solved)
    <3>1. Node.kind = "EQU"
      BY <2>8 DEF BuildEqu
    <3> QED  BY <1>1, <2>1, <2>3, <2>8, <3>1, BuildEquIs
  <2>9. CASE BuildOrg(solved.value)
    <3>1. Node.kind = "ORG"
      BY <2>9 DEF BuildOrg
    <3>2. solved.value \in Nat
      BY <2>1, <2>3, <3>1 DEF OrgFits, Absolute, InLimits
    <3> QED  BY <1>1, <2>9, <3>2, BuildOrgIs
  <2>10. CASE BuildUse
    BY <1>1, <2>10, BuildUseIs
  <2>11. CASE BuildLtorg
    BY <1>1, <2>11, BuildLtorgIs
  <2>12. CASE BuildEnd(solved.value)
    BY <1>1, <2>12, BuildEndIs
  <2>13. CASE BuildDirective
    BY <1>1, <2>1, <2>13, BuildDirectiveIs
  <2> QED  BY <1>2, <1>5, <1>6, <2>4, <2>5, <2>6, <2>7, <2>8, <2>9, <2>10, <2>11, <2>12, <2>13
<1>7. ASSUME NEW later \in [Nat -> Spot], FirstPass(later)'
      PROVE  IsTable(symbol_table')
  BY <1>7 DEF FirstPass
<1> QED  BY <1>2, <1>4, <1>5, <1>6, <1>7

\* The start of a block, and of the first one.
LEMMA OrderedStartIs ==
  ASSUME IsBlockTable(block_table), start_address \in Nat
  PROVE  /\ OrderedStart(0) = start_address
         /\ \A block \in DOMAIN block_table : OrderedStart(block) \in Int
<1>1. PICK n \in Nat : DOMAIN block_table = 0 .. n - 1
  BY DEF IsBlockTable
<1>2. OrderedStart(0) = start_address
  <2>1. PICK f : f = [b \in 0 .. 0 - 1 |-> block_table[b].size]
    OBVIOUS
  <2>2. DOMAIN f = {}
    BY <2>1
  <2>3. SumFunction(f) = 0
    BY <2>2, SumEmpty
  <2> QED  BY <2>1, <2>3 DEF OrderedStart
<1>3. ASSUME NEW block \in DOMAIN block_table
      PROVE  OrderedStart(block) \in Int
  <2>1. block \in 0 .. n - 1 /\ block \in Nat
    BY <1>1
  <2>2. PICK f : f = [b \in 0 .. block - 1 |-> block_table[b].size]
    OBVIOUS
  <2>3. DOMAIN f = 0 .. block - 1
    BY <2>2
  <2>4. IsFiniteSet(DOMAIN f)
    <3>1. 0 \in Int /\ block - 1 \in Int
      BY <2>1
    <3> QED  BY <2>3, <3>1, FS_Interval
  <2>5. \A b \in DOMAIN f : f[b] \in Int
    <3>1. ASSUME NEW b \in DOMAIN f
          PROVE  f[b] \in Int
      <4>1. b \in DOMAIN block_table /\ f[b] = block_table[b].size
        BY <1>1, <2>1, <2>2, <2>3
      <4> QED  BY <4>1 DEF IsBlockTable
    <3> QED  BY <3>1
  <2>6. SumFunction(f) \in Int
    BY <2>4, <2>5, SumType
  <2> QED  BY <2>2, <2>6 DEF OrderedStart
<1> QED  BY <1>2, <1>3

\* The symbols get the addresses of their blocks.
LEMMA FinalAddressesAre ==
  ASSUME IsTable(symbol_table), NEW name \in DOMAIN symbol_table,
         NEW before, before = symbol_table[name], NEW after, after = FinalAddresses[name]
  PROVE  /\ DOMAIN FinalAddresses = DOMAIN symbol_table
         /\ after.type = before.type /\ after.block = before.block
         /\ after.block_address = before.block_address /\ after.relative = before.relative
         /\ ~before.defined \/ before.resolved => after.address = before.address
         /\ before.defined /\ ~before.resolved =>
              after.address = OrderedStart(before.block) + before.block_address
<1>1. before \in Entry
  BY TableIs DEF IsTable
<1>2. DOMAIN FinalAddresses = DOMAIN symbol_table
  BY DEF FinalAddresses
<1>3. after = IF before.defined /\ ~before.resolved
              THEN [before EXCEPT !.address = OrderedStart(before.block) + before.block_address,
                                  !.resolved = TRUE]
              ELSE before
  BY DEF FinalAddresses
<1> QED  BY <1>1, <1>2, <1>3 DEF Entry

\* The end of the first pass.
LEMMA FinishIs ==
  ASSUME NEW walk \in [Nat -> Spot], FirstPass(walk), FinishTables, listing' = listing
  PROVE  IsSettled(walk)'
<1>1. /\ position > Len(nodes) /\ block_table' = OrderBlocks /\ symbol_table' = FinalAddresses
      /\ UNCHANGED <<nodes, literal_table, next_literal_id, start_address>>
  BY DEF FinishTables
<1>2. /\ IsList(nodes) /\ position \in 1 .. Len(nodes) + 1 /\ Walked(walk, position)
      /\ SymbolsPlaced(walk, position) /\ IsTable(symbol_table) /\ LiteralsAre(symbol_table)
      /\ IsBlockTable(block_table) /\ start_address \in Nat
  BY DEF FirstPass
<1>3. Len(nodes) \in Nat /\ position = Len(nodes) + 1
  <2>1. Len(nodes) \in Nat
    BY <1>2, ListIs
  <2> QED  BY <1>1, <1>2, <2>1
<1>4. PICK n \in Nat \ {0} : DOMAIN block_table = 0 .. n - 1
  BY <1>2 DEF IsBlockTable
<1>5. /\ DOMAIN block_table' = DOMAIN block_table /\ 0 \in DOMAIN block_table
      /\ \A block \in DOMAIN block_table :
           block_table'[block].start = OrderedStart(block) /\ OrderedStart(block) \in Int
      /\ OrderedStart(0) = start_address
  <2>1. DOMAIN block_table' = DOMAIN block_table /\ 0 \in DOMAIN block_table
    BY <1>1, <1>4 DEF OrderBlocks
  <2>2. ASSUME NEW block \in DOMAIN block_table
        PROVE  block_table'[block].start = OrderedStart(block)
    <3>1. block_table'[block] = [block_table[block] EXCEPT !.start = OrderedStart(block)]
      BY <1>1 DEF OrderBlocks
    <3>2. "start" \in DOMAIN block_table[block]
      BY <1>2 DEF IsBlockTable
    <3> QED  BY <3>1, <3>2
  <2> QED  BY <1>2, <2>1, <2>2, OrderedStartIs
<1>6. Walked(walk, Len(nodes) + 1)'
  <2>1. ASSUME NEW k \in 1 .. Len(nodes)
        PROVE  /\ IsNoted(nodes[k])' /\ walk[k + 1] = After(nodes[k], walk[k])'
               /\ IsInOrder(nodes'[k].kind, walk[k])
    <3>1. k \in 1 .. position - 1
      BY <1>3
    <3>2. /\ IsNoted(nodes[k]) /\ walk[k + 1] = After(nodes[k], walk[k])
          /\ IsInOrder(nodes[k].kind, walk[k])
      BY <1>2, <3>1 DEF Walked
    <3>3. PICK node, spot : node = nodes[k] /\ spot = walk[k]
      OBVIOUS
    <3>4. After(node, spot)' = After(node, spot)
      BY <1>1, AfterStays
    <3>5. IsNoted(node)'
      BY <1>1, <1>5, <3>2, <3>3 DEF IsNoted
    <3> QED  BY <1>1, <3>2, <3>3, <3>4, <3>5
  <2>2. /\ walk \in [Nat -> Spot] /\ walk[1] = Nowhere
        /\ \A k \in 1 .. Len(nodes) + 1 :
             /\ walk[k].block \in {-2, -1} \cup DOMAIN block_table'
             /\ ~IsStarted(walk[k]) => walk[k] = Nowhere
    BY <1>2, <1>3, <1>5 DEF Walked
  <2>3. Len(nodes) + 1 - 1 = Len(nodes)
    BY <1>3
  <2> QED  BY <1>1, <2>1, <2>2, <2>3 DEF Walked
<1>7. ASSUME NEW k \in 1 .. Len(nodes), Places(nodes[k])
      PROVE  symbol_table'[SymbolOf(nodes[k])].address = AddressOf(PlaceOf(walk, k))'
  <2>1. k \in 1 .. position - 1 /\ k \in 1 .. position /\ k + 1 \in 1 .. position
    BY <1>3
  <2>2. PICK name, place : name = SymbolOf(nodes[k]) /\ place = PlaceOf(walk, k)
    OBVIOUS
  <2>3. name \in DOMAIN symbol_table
        /\ IsPlaced(symbol_table[name], place.block, place.address, start_address)
    BY <1>2, <1>7, <2>1, <2>2 DEF SymbolsPlaced
  <2>4. /\ IsNoted(nodes[k]) /\ walk[k + 1] = After(nodes[k], walk[k])
        /\ IsInOrder(nodes[k].kind, walk[k])
        /\ walk[k].block \in {-2, -1} \cup DOMAIN block_table
        /\ walk[k + 1].block \in {-2, -1} \cup DOMAIN block_table
    BY <1>2, <2>1 DEF Walked
  <2>5. place.block \in {-1} \cup DOMAIN block_table
    <3>1. CASE nodes[k].kind = "START"
      <4>1. walk[k + 1].block = 0
        BY <2>4, <3>1 DEF After
      <4> QED  BY <1>5, <2>2, <3>1, <4>1 DEF PlaceOf
    <3>2. CASE nodes[k].kind # "START"
      <4>1. nodes[k].kind # "EMPTY"
        BY <1>7, <2>4 DEF Places, IsNoted, IsLabelled
      <4>2. IsStarted(walk[k])
        BY <2>4, <3>2, <4>1 DEF IsInOrder
      <4> QED  BY <2>2, <2>4, <3>2, <4>2 DEF PlaceOf, IsStarted
    <3> QED  BY <3>1, <3>2
  <2>6. PICK before, after : before = symbol_table[name] /\ after = symbol_table'[name]
    OBVIOUS
  <2>7. /\ ~before.defined \/ before.resolved => after.address = before.address
        /\ before.defined /\ ~before.resolved =>
             after.address = OrderedStart(before.block) + before.block_address
    BY <1>1, <1>2, <2>3, <2>6, FinalAddressesAre
  <2>8. place.block # -2 /\ IsStarted(place) /\ place.block \in Int
    BY <1>4, <2>5 DEF IsStarted
  <2>9. AddressOf(place)' = IF place.block = -1 THEN place.address
                            ELSE OrderedStart(place.block) + place.address
    BY <1>5, <2>5, <2>8 DEF AddressOf
  <2>10. after.address = AddressOf(place)'
    <3>1. /\ before.defined /\ (before.resolved <=> place.block \in {-1, 0})
          /\ place.block = -1 => before.address = place.address
          /\ place.block = 0 => before.address = start_address + place.address
          /\ place.block \notin {-1, 0} =>
               before.block = place.block /\ before.block_address = place.address
      BY <2>3, <2>6 DEF IsPlaced
    <3>2. CASE place.block = -1
      BY <2>7, <2>9, <3>1, <3>2
    <3>3. CASE place.block = 0
      BY <1>5, <2>7, <2>9, <3>1, <3>3
    <3>4. CASE place.block \notin {-1, 0}
      BY <2>7, <2>9, <3>1, <3>4
    <3> QED  BY <3>2, <3>3, <3>4
  <2>11. AddressOf(place)' = AddressOf(PlaceOf(walk, k))'
    BY <1>1, <2>2 DEF PlaceOf
  <2> QED  BY <2>2, <2>6, <2>10, <2>11
<1>8. /\ IsList(nodes') /\ IsList(literal_table')
      /\ (next_literal_id \in 0 .. Len(literal_table))'
      /\ (\A k \in DOMAIN literal_table : Len(literal_table[k]) \in Nat)'
  <2>1. /\ IsList(literal_table) /\ next_literal_id \in 0 .. Len(literal_table)
        /\ \A k \in DOMAIN literal_table : Len(literal_table[k]) \in Nat
    BY <1>2 DEF LiteralsAre
  <2> QED  BY <1>1, <1>2, <2>1, ListIs
<1>9. \A k \in 1 .. Len(nodes') : Places(nodes[k])' =>
        symbol_table'[SymbolOf(nodes[k])'].address = AddressOf(PlaceOf(walk, k))'
  BY <1>1, <1>7 DEF Places, SymbolOf, IsLabelled
<1> QED  BY <1>4, <1>5, <1>6, <1>8, <1>9 DEF IsSettled

-----------------------------------------------------------------------------
(*****************************************************************************)
(* Where the lines of the first pass lie.  A step adds lines behind those  *)
(* there are, one behind the other, and closes and opens segments.         *)
(*****************************************************************************)
\* More lines, one behind the other, and all of them outside of the blocks or none.
NewSpans(spans, p, q, out, from, to) ==
  /\ \A k \in p .. q :
       /\ spans[k].outside = out /\ from <= spans[k].first /\ spans[k].next <= to
       /\ spans[k].first \in Nat /\ spans[k].next \in Nat
  /\ \A j, k \in p .. q : j < k => spans[j].next <= spans[k].first

\* They come behind those there are.
Grows(spans, longer, p, q) ==
  /\ DOMAIN spans = 1 .. p - 1 /\ DOMAIN longer = 1 .. q
  /\ \A k \in 1 .. p - 1 : longer[k] = spans[k] /\ spans[k].next \in Nat

\* The segment that is open up to an address.
Opened(out, origin, to) == IF out THEN {<<origin, to>>} ELSE {}

\* Lines behind those there are lie apart from them.
LEMMA PartedGrows ==
  ASSUME NEW p \in Nat, NEW q \in Nat, p <= q + 1, 1 <= p,
         NEW spans, NEW longer, Grows(spans, longer, p, q),
         NEW out \in BOOLEAN, NEW origin, NEW from \in Nat, NEW to \in Nat, from <= to,
         NewSpans(longer, p, q, out, from, to),
         NEW closed, NEW start, Parted(spans, closed, Opened(out, origin, from), start)
  PROVE  Parted(longer, closed, Opened(out, origin, to), start)
<1>segments. PICK open, wider :
        /\ open = Opened(out, origin, from) /\ wider = Opened(out, origin, to)
        /\ open = (IF out THEN {<<origin, from>>} ELSE {})
        /\ wider = (IF out THEN {<<origin, to>>} ELSE {})
        /\ Parted(spans, closed, open, start)
  BY DEF Opened
<1>lines. /\ DOMAIN spans = 1 .. p - 1 /\ DOMAIN longer = 1 .. q
       /\ \A k \in 1 .. p - 1 : longer[k] = spans[k] /\ spans[k].next \in Nat
  BY DEF Grows
<1> USE <1>segments, <1>lines
<1>1. \A segment \in wider : IsSegment(segment, start)
  <2>1. CASE out
    <3>1. IsSegment(<<origin, from>>, start)
      BY <2>1 DEF Parted
    <3>2. IsSegment(<<origin, to>>, start)
      BY <3>1 DEF IsSegment
    <3> QED  BY <2>1, <3>2
  <2> QED  BY <2>1
<1>2. ASSUME NEW k \in 1 .. p - 1, NEW segment \in open, Holds(segment, spans[k])
      PROVE  segment = <<origin, from>> /\ spans[k].next <= from
             /\ <<origin, to>> \in wider /\ Holds(<<origin, to>>, longer[k])
  <2>1. segment = <<origin, from>> /\ out
    BY <1>2
  <2>2. origin <= spans[k].first /\ spans[k].next <= from
    BY <1>2, <2>1 DEF Holds
  <2>3. spans[k].next <= to
    <3>1. spans[k].next \in Nat
      OBVIOUS
    <3> QED  BY <2>2, <3>1
  <2>4. Holds(<<origin, to>>, longer[k])
    BY <2>2, <2>3 DEF Holds
  <2> QED  BY <2>1, <2>2, <2>4
<1>3. ASSUME NEW k \in 1 .. p - 1, spans[k].outside
      PROVE  \/ \E s \in DOMAIN closed : Holds(closed[s], spans[k])
             \/ <<origin, to>> \in wider /\ spans[k].next <= from /\ Holds(<<origin, to>>, longer[k])
  BY <1>2, <1>3 DEF Parted
<1>4. ASSUME NEW k \in p .. q, longer[k].outside
      PROVE  out /\ <<origin, to>> \in wider /\ Holds(<<origin, to>>, longer[k])
             /\ from <= longer[k].first /\ longer[k].first \in Nat
  <2>1. out /\ from <= longer[k].first /\ longer[k].next <= to /\ longer[k].first \in Nat
    BY <1>4 DEF NewSpans
  <2>2. origin <= from /\ origin \in Nat
    <3>1. IsSegment(<<origin, from>>, start)
      BY <2>1 DEF Parted
    <3> QED  BY <3>1 DEF IsSegment
  <2>3. origin <= longer[k].first
    BY <2>1, <2>2
  <2> QED  BY <2>1, <2>3 DEF Holds
<1>5. ASSUME NEW k \in 1 .. q, longer[k].outside
      PROVE  \/ \E s \in DOMAIN closed : Holds(closed[s], longer[k])
             \/ \E segment \in wider : Holds(segment, longer[k])
  <2>1. CASE k <= p - 1
    <3>1. k \in 1 .. p - 1
      BY <2>1
    <3> QED  BY <1>3, <1>5, <3>1
  <2>2. CASE k > p - 1
    <3>1. k \in p .. q
      BY <2>2
    <3> QED  BY <1>4, <1>5, <3>1
  <2> QED  BY <2>1, <2>2
<1>6. ASSUME NEW j \in 1 .. q, NEW k \in 1 .. q, j < k, longer[j].outside, longer[k].outside
      PROVE  \/ longer[j].next <= longer[k].first
             \/ \E s \in DOMAIN closed :
                  /\ Holds(closed[s], longer[j])
                  /\ \/ \E t \in DOMAIN closed : t # s /\ Holds(closed[t], longer[k])
                     \/ \E segment \in wider : Holds(segment, longer[k])
  <2>1. CASE k <= p - 1
    <3>1. j \in 1 .. p - 1 /\ k \in 1 .. p - 1
      BY <1>6, <2>1
    <3>2. \/ spans[j].next <= spans[k].first
          \/ \E s \in DOMAIN closed :
               /\ Holds(closed[s], spans[j])
               /\ \/ \E t \in DOMAIN closed : t # s /\ Holds(closed[t], spans[k])
                  \/ \E segment \in open : Holds(segment, spans[k])
      BY <1>6, <3>1 DEF Parted
    <3>3. longer[j] = spans[j] /\ longer[k] = spans[k]
      BY <3>1
    <3> QED  BY <1>2, <3>1, <3>2, <3>3
  <2>2. CASE j > p - 1
    <3>1. j \in p .. q /\ k \in p .. q
      BY <1>6, <2>2
    <3> QED  BY <1>6, <3>1 DEF NewSpans
  <2>3. CASE j <= p - 1 /\ k > p - 1
    <3>1. j \in 1 .. p - 1 /\ k \in p .. q
      BY <2>3
    <3>2. longer[j] = spans[j] /\ spans[j].next \in Nat
      BY <3>1
    <3>3. <<origin, to>> \in wider /\ Holds(<<origin, to>>, longer[k])
          /\ from <= longer[k].first /\ longer[k].first \in Nat
      BY <1>4, <1>6, <3>1
    <3>4. CASE \E s \in DOMAIN closed : Holds(closed[s], spans[j])
      BY <3>2, <3>3, <3>4
    <3>5. CASE spans[j].next <= from
      <4>1. spans[j].next <= longer[k].first
        BY <3>2, <3>3, <3>5
      <4> QED  BY <3>2, <4>1
    <3> QED  BY <1>3, <1>6, <3>1, <3>2, <3>4, <3>5
  <2> QED  BY <2>1, <2>2, <2>3
<1> QED  BY <1>1, <1>5, <1>6 DEF Parted

\* The open segment is closed, and another one opened.
LEMMA PartedCloses ==
  ASSUME NEW spans, NEW closed, IsList(closed), NEW segment, NEW start,
         Parted(spans, closed, {segment}, start),
         NEW open, \A s \in open : IsSegment(s, start), NEW more, more = Append(closed, segment)
  PROVE  IsList(more) /\ Parted(spans, more, open, start)
<1>1. PICK n \in Nat : n = Len(closed) /\ DOMAIN closed = 1 .. n
  BY ListIs
<1>2. /\ IsList(more) /\ Len(more) = n + 1 /\ more[n + 1] = segment
      /\ \A s \in 1 .. n : more[s] = closed[s]
  BY <1>1, AppendIs
<1>3. DOMAIN more = 1 .. n + 1
  BY <1>2, ListIs
<1>4. \A s \in 1 .. n : s \in DOMAIN more /\ s # n + 1
  BY <1>3
<1>5. n + 1 \in DOMAIN more
  BY <1>3
<1>6. ASSUME NEW s \in DOMAIN more PROVE IsSegment(more[s], start)
  <2>1. CASE s = n + 1
    BY <1>2, <2>1 DEF Parted
  <2>2. CASE s # n + 1
    <3>1. s \in 1 .. n
      BY <1>3, <2>2
    <3> QED  BY <1>1, <1>2, <3>1 DEF Parted
  <2> QED  BY <2>1, <2>2
<1>7. ASSUME NEW k \in DOMAIN spans, spans[k].outside
      PROVE  \E s \in DOMAIN more : Holds(more[s], spans[k])
  <2>1. \/ \E s \in DOMAIN closed : Holds(closed[s], spans[k])
        \/ Holds(segment, spans[k])
    BY <1>7 DEF Parted
  <2> QED  BY <1>1, <1>2, <1>4, <1>5, <2>1
<1>8. ASSUME NEW j \in DOMAIN spans, NEW k \in DOMAIN spans, j < k, spans[j].outside,
             spans[k].outside, ~(spans[j].next <= spans[k].first)
      PROVE  \E s \in DOMAIN more : /\ Holds(more[s], spans[j])
                                    /\ \E t \in DOMAIN more : t # s /\ Holds(more[t], spans[k])
  <2>1. PICK s \in DOMAIN closed :
               /\ Holds(closed[s], spans[j])
               /\ \/ \E t \in DOMAIN closed : t # s /\ Holds(closed[t], spans[k])
                  \/ Holds(segment, spans[k])
    BY <1>8 DEF Parted
  <2> QED  BY <1>1, <1>2, <1>4, <1>5, <2>1
<1>9. \A k \in DOMAIN spans : spans[k].outside =>
        \/ \E s \in DOMAIN more : Holds(more[s], spans[k])
        \/ \E s \in open : Holds(s, spans[k])
  BY <1>7
<1>10. \A j, k \in DOMAIN spans : j < k /\ spans[j].outside /\ spans[k].outside =>
         \/ spans[j].next <= spans[k].first
         \/ \E s \in DOMAIN more :
              /\ Holds(more[s], spans[j])
              /\ \/ \E t \in DOMAIN more : t # s /\ Holds(more[t], spans[k])
                 \/ \E t \in open : Holds(t, spans[k])
  BY <1>8
<1> QED  BY <1>2, <1>6, <1>9, <1>10 DEF Parted

\* A segment is opened that holds nothing yet.
LEMMA PartedOpens ==
  ASSUME NEW spans, NEW closed, NEW start, Parted(spans, closed, {}, start),
         NEW open, \A s \in open : IsSegment(s, start)
  PROVE  Parted(spans, closed, open, start)
BY DEF Parted

\* What a line of a walk takes up.
IsSpanOf(span, spot) ==
  /\ span.outside = (spot.block = -1) /\ span.first = spot.address
  /\ span.next \in Nat /\ span.first \in Nat /\ span.first <= span.next

\* A line that only advances the walk.
Advances(span, spot, next) ==
  next.block = spot.block /\ next.sizes = spot.sizes /\ next.address = span.next

\* A walk goes on in its block.
Follows(spans, walk, p, k) ==
  /\ walk[k].block = walk[p].block /\ walk[k].sizes = walk[p].sizes
  /\ walk[p].address <= walk[k].address
  /\ \A j \in p .. k - 1 : spans[j].next <= walk[k].address

\* As it does over lines that are none of START, ORG and USE.
LEMMA WalkFollows ==
  ASSUME NEW p \in Nat, NEW q \in Nat, p <= q, NEW walk, NEW spans,
         \A k \in p .. q : IsSpanOf(spans[k], walk[k]),
         \A k \in p .. q - 1 : Advances(spans[k], walk[k], walk[k + 1])
  PROVE  \A k \in p .. q : Follows(spans, walk, p, k)
<1> DEFINE S == {i \in Nat : i <= q - p => Follows(spans, walk, p, p + i)}
<1>1. 0 \in S
  <2>1. walk[p].address \in Nat
    <3>1. p \in p .. q
      OBVIOUS
    <3> QED  BY <3>1 DEF IsSpanOf
  <2>2. p + 0 = p /\ ~(\E j \in p .. p - 1 : TRUE)
    OBVIOUS
  <2>3. Follows(spans, walk, p, p)
    BY <2>1, <2>2 DEF Follows
  <2> QED  BY <2>2, <2>3
<1>2. ASSUME NEW i \in Nat, i \in S PROVE i + 1 \in S
  <2> SUFFICES ASSUME i + 1 <= q - p PROVE Follows(spans, walk, p, p + (i + 1))
    OBVIOUS
  <2>1. PICK k : k = p + i
    OBVIOUS
  <2>2. k \in p .. q - 1 /\ k \in p .. q /\ k + 1 = p + (i + 1) /\ k + 1 \in p .. q /\ p \in p .. q
    BY <2>1
  <2>3. Follows(spans, walk, p, k) /\ Advances(spans[k], walk[k], walk[k + 1])
        /\ IsSpanOf(spans[k], walk[k])
    BY <1>2, <2>1, <2>2
  <2>4. walk[k + 1].block = walk[p].block /\ walk[k + 1].sizes = walk[p].sizes
    BY <2>3 DEF Follows, Advances
  <2>5. PICK a, b, c : a = walk[p].address /\ b = walk[k].address /\ c = walk[k + 1].address
    OBVIOUS
  <2>6. a \in Nat /\ b \in Nat /\ c \in Nat /\ a <= b /\ b <= c /\ spans[k].next = c
    <3>1. a \in Nat
      BY <2>2, <2>5 DEF IsSpanOf
    <3> QED  BY <2>3, <2>5, <3>1 DEF IsSpanOf, Advances, Follows
  <2>7. ASSUME NEW j \in p .. k PROVE spans[j].next <= c
    <3>1. j \in p .. q
      BY <2>2
    <3>2. spans[j].next \in Nat
      BY <3>1 DEF IsSpanOf
    <3>3. CASE j = k
      BY <2>6, <3>3
    <3>4. CASE j # k
      <4>1. j \in p .. k - 1
        BY <2>2, <3>4
      <4>2. spans[j].next <= b
        BY <2>3, <2>5, <4>1 DEF Follows
      <4> QED  BY <2>6, <3>2, <4>2
    <3> QED  BY <3>3, <3>4
  <2>8. k + 1 - 1 = k
    BY <2>2
  <2>9. a <= c
    BY <2>6
  <2> QED  BY <2>2, <2>4, <2>5, <2>7, <2>8, <2>9 DEF Follows
<1>3. Nat \subseteq S
  <2> HIDE DEF S
  <2> QED  BY <1>1, <1>2, Naturals
<1>4. ASSUME NEW k \in p .. q PROVE Follows(spans, walk, p, k)
  <2>1. k - p \in Nat /\ k - p <= q - p /\ p + (k - p) = k
    OBVIOUS
  <2>2. k - p \in S
    BY <1>3, <2>1
  <2> QED  BY <2>1, <2>2
<1> QED  BY <1>4

\* So its lines are new ones, one behind the other.
LEMMA FollowingSpans ==
  ASSUME NEW p \in Nat, NEW q \in Nat, p <= q, NEW walk, NEW spans,
         \A k \in p .. q : IsSpanOf(spans[k], walk[k]),
         \A k \in p .. q - 1 : Advances(spans[k], walk[k], walk[k + 1])
  PROVE  /\ NewSpans(spans, p, q, walk[p].block = -1, walk[p].address, spans[q].next)
         /\ walk[p].address <= spans[q].next
         /\ walk[q].block = walk[p].block /\ walk[q].sizes = walk[p].sizes
<1>1. \A k \in p .. q : Follows(spans, walk, p, k)
  BY WalkFollows
<1>2. p \in p .. q /\ q \in p .. q
  OBVIOUS
<1>3. PICK a, to : a = walk[p].address /\ to = spans[q].next
  OBVIOUS
<1>4. a \in Nat /\ to \in Nat /\ walk[q].address \in Nat /\ walk[q].address <= to
  BY <1>2, <1>3 DEF IsSpanOf
<1>5. ASSUME NEW k \in p .. q
      PROVE  /\ spans[k].outside = (walk[p].block = -1) /\ a <= spans[k].first /\ spans[k].next <= to
             /\ spans[k].first \in Nat /\ spans[k].next \in Nat
  <2>1. spans[k].outside = (walk[k].block = -1) /\ spans[k].first = walk[k].address
        /\ spans[k].first \in Nat /\ spans[k].next \in Nat
    BY DEF IsSpanOf
  <2>2. walk[k].block = walk[p].block /\ a <= walk[k].address
    BY <1>1, <1>3 DEF Follows
  <2>3. spans[k].next <= to
    <3>1. CASE k = q
      BY <1>3, <1>4, <3>1
    <3>2. CASE k # q
      <4>1. k \in p .. q - 1
        BY <3>2
      <4>2. spans[k].next <= walk[q].address
        BY <1>1, <1>2, <4>1 DEF Follows
      <4> QED  BY <1>4, <2>1, <4>2
    <3> QED  BY <3>1, <3>2
  <2> QED  BY <2>1, <2>2, <2>3
<1>6. ASSUME NEW j \in p .. q, NEW k \in p .. q, j < k PROVE spans[j].next <= spans[k].first
  <2>1. j \in p .. k - 1
    BY <1>6
  <2>2. spans[j].next <= walk[k].address
    BY <1>1, <2>1 DEF Follows
  <2>3. spans[k].first = walk[k].address
    BY DEF IsSpanOf
  <2> QED  BY <2>2, <2>3
<1>7. walk[q].block = walk[p].block /\ walk[q].sizes = walk[p].sizes /\ a <= walk[q].address
  BY <1>1, <1>2, <1>3 DEF Follows
<1>8. a <= to
  BY <1>4, <1>7
<1> QED  BY <1>3, <1>5, <1>6, <1>7, <1>8 DEF NewSpans

\* What a line takes up depends on its literal.
LEMMA BytesStay ==
  ASSUME NEW node,
         node.kind = "LITERAL" =>
           Len(literal_table[node.literal_id + 1])' = Len(literal_table[node.literal_id + 1])
  PROVE  Bytes(node)' = Bytes(node)
BY Zenon DEF Bytes

\* What the lines of a walk take up.
AreSpans(walk, spans) ==
  /\ DOMAIN spans = 1 .. position - 1
  /\ \A k \in 1 .. position - 1 :
       /\ IsSpanOf(spans[k], walk[k]) /\ spans[k].next = walk[k].address + Bytes(nodes[k])
       /\ nodes[k].kind \notin {"START", "ORG", "USE"} => Advances(spans[k], walk[k], walk[k + 1])

\* Of every walk of the first pass.
SpansOfWalks ==
  \A walk \in [Nat -> Spot] : FirstPass(walk) => AreSpans(walk, Spans(walk, position))

\* What Spans gives of a walk.
LEMMA SpansAre == SpansOfWalks
<1> SUFFICES ASSUME NEW walk \in [Nat -> Spot], FirstPass(walk)
             PROVE  AreSpans(walk, Spans(walk, position))
  BY DEF SpansOfWalks
<1>1. position \in Nat /\ 1 <= position
  BY ListIs DEF FirstPass
<1>2. Walked(walk, position) /\ LiteralsAre(symbol_table)
  BY DEF FirstPass
<1>3. PICK spans : spans = Spans(walk, position)
  OBVIOUS
<1>4. DOMAIN spans = 1 .. position - 1
  BY <1>3 DEF Spans
<1>5. ASSUME NEW k \in 1 .. position - 1
      PROVE  /\ IsSpanOf(spans[k], walk[k]) /\ spans[k].next = walk[k].address + Bytes(nodes[k])
             /\ nodes[k].kind \notin {"START", "ORG", "USE"} => Advances(spans[k], walk[k], walk[k + 1])
  <2>1. k \in 1 .. position
    BY <1>1
  <2>2. walk[k].address \in Nat
    BY <1>1, <1>2, <2>1, SpotIs
  <2>3. IsNoted(nodes[k]) /\ walk[k + 1] = After(nodes[k], walk[k])
    BY <1>2 DEF Walked
  <2>4. PICK size : size = Bytes(nodes[k])
    OBVIOUS
  <2>5. size \in Nat
    BY <1>2, <2>3, <2>4, BytesIs
  <2>6. /\ spans[k].outside = (walk[k].block = -1) /\ spans[k].first = walk[k].address
        /\ spans[k].next = walk[k].address + size
    BY <1>3, <2>4 DEF Spans
  <2>7. IsSpanOf(spans[k], walk[k])
    BY <2>2, <2>5, <2>6 DEF IsSpanOf
  <2>8. ASSUME nodes[k].kind \notin {"START", "ORG", "USE"}
        PROVE  Advances(spans[k], walk[k], walk[k + 1])
    <3>1. walk[k + 1] = [block |-> walk[k].block, address |-> walk[k].address + size,
                         sizes |-> walk[k].sizes]
      BY <2>3, <2>4, <2>8 DEF After
    <3> QED  BY <2>6, <3>1 DEF Advances
  <2> QED  BY <2>4, <2>6, <2>7, <2>8
<1> QED  BY <1>3, <1>4, <1>5 DEF AreSpans

\* The same after a step.
LEMMA SpansLater ==
  \A walk \in [Nat -> Spot] : FirstPass(walk)' => AreSpans(walk, Spans(walk, position))'
<1>1. SpansOfWalks'
  BY SpansAre, PTL
<1> QED  BY <1>1 DEF SpansOfWalks

\* The walk of a step goes on the one before it.
LEMMA SameWalk ==
  ASSUME NEW walk \in [Nat -> Spot], FirstPass(walk), NEW later \in [Nat -> Spot],
         FirstPass(later)', position <= position',
         \A k \in 1 .. position - 1 : nodes'[k] = nodes[k],
         \A k \in 1 .. Len(literal_table) : literal_table'[k] = literal_table[k]
  PROVE  /\ \A k \in 1 .. position : later[k] = walk[k]
         /\ \A k \in 1 .. position - 1 : Bytes(nodes[k])' = Bytes(nodes[k])
<1>1. position \in Nat /\ 1 <= position /\ position' \in Nat
  BY ListIs DEF FirstPass
<1>2. Walked(walk, position) /\ LiteralsAre(symbol_table) /\ Walked(later, position)'
  BY DEF FirstPass
<1>3. next_literal_id \in 0 .. Len(literal_table) /\ Len(literal_table) \in Nat
  BY <1>2, ListIs DEF LiteralsAre
<1>4. ASSUME NEW k \in 1 .. position - 1
      PROVE  /\ Bytes(nodes[k])' = Bytes(nodes[k])
             /\ \A spot : After(nodes[k], spot)' = After(nodes[k], spot)
  <2>1. PICK node : node = nodes[k]
    OBVIOUS
  <2>2. nodes'[k] = node
    BY <2>1
  <2>3. IsNoted(node)
    BY <1>2, <2>1 DEF Walked
  <2>4. ASSUME node.kind = "LITERAL"
        PROVE  literal_table'[node.literal_id + 1] = literal_table[node.literal_id + 1]
    <3>1. node.literal_id + 1 \in 1 .. Len(literal_table)
      BY <1>3, <2>3, <2>4 DEF IsNoted
    <3> QED  BY <3>1
  <2>5. Bytes(node)' = Bytes(node)
    BY <2>4, BytesStay
  <2>6. ASSUME NEW spot PROVE After(node, spot)' = After(node, spot)
    BY <2>4, AfterStays
  <2> QED  BY <2>1, <2>2, <2>5, <2>6
<1> DEFINE S == {i \in Nat : i <= position - 1 => later[i + 1] = walk[i + 1]}
<1>5. 0 \in S
  <2>1. later[1] = Nowhere /\ walk[1] = Nowhere
    BY <1>2 DEF Walked
  <2> QED  BY <2>1
<1>6. ASSUME NEW i \in Nat, i \in S PROVE i + 1 \in S
  <2> SUFFICES ASSUME i + 1 <= position - 1 PROVE later[i + 1 + 1] = walk[i + 1 + 1]
    OBVIOUS
  <2>1. PICK k \in 1 .. position - 1 : k = i + 1
    BY <1>1
  <2>2. later[k] = walk[k]
    BY <1>1, <1>6, <2>1
  <2>3. walk[k + 1] = After(nodes[k], walk[k])
    BY <1>2 DEF Walked
  <2>4. k \in 1 .. position' - 1
    BY <1>1
  <2>5. later[k + 1] = After(nodes[k], later[k])'
    BY <1>2, <2>4 DEF Walked
  <2>6. After(nodes[k], later[k])' = After(nodes[k], walk[k])
    BY <1>4, <2>2
  <2> QED  BY <2>1, <2>3, <2>5, <2>6
<1>7. Nat \subseteq S
  <2> HIDE DEF S
  <2> QED  BY <1>5, <1>6, Naturals
<1>8. ASSUME NEW k \in 1 .. position PROVE later[k] = walk[k]
  <2>1. k - 1 \in Nat /\ k - 1 <= position - 1 /\ k - 1 + 1 = k
    BY <1>1
  <2>2. k - 1 \in S
    BY <1>7, <2>1
  <2> QED  BY <2>1, <2>2
<1> QED  BY <1>4, <1>8

-----------------------------------------------------------------------------
(*****************************************************************************)
(* The steps of the first pass, by what they do to the lines and to the    *)
(* block that the pass is in.                                              *)
(*****************************************************************************)
\* What a step of the first pass adds to the lines behind it.
Visits(walk, later) ==
  /\ walk \in [Nat -> Spot] /\ FirstPass(walk) /\ Laid(walk) /\ position <= Len(nodes)
  /\ later \in [Nat -> Spot] /\ FirstPass(later)' /\ position < position'
  /\ \A k \in 1 .. position - 1 : nodes'[k] = nodes[k]
  /\ \A k \in position .. position' - 2 : nodes'[k].kind \notin {"START", "ORG", "USE"}
  /\ \A k \in 1 .. Len(literal_table) : literal_table'[k] = literal_table[k]

\* What such a step keeps.
LEMMA VisitsIs ==
  ASSUME NEW walk, NEW later, Visits(walk, later)
  PROVE  /\ position \in Nat /\ 1 <= position /\ position' \in Nat /\ position' - 1 \in Nat
         /\ \A k \in 1 .. position : later[k] = walk[k]
         /\ \A k \in 1 .. position - 1 : Bytes(nodes[k])' = Bytes(nodes[k])
         /\ AreSpans(walk, Spans(walk, position)) /\ AreSpans(later, Spans(later, position))'
<1>1. position \in Nat /\ 1 <= position /\ position' \in Nat /\ position < position'
  BY ListIs DEF FirstPass, Visits
<1>2. /\ \A k \in 1 .. position : later[k] = walk[k]
      /\ \A k \in 1 .. position - 1 : Bytes(nodes[k])' = Bytes(nodes[k])
  <2>1. /\ walk \in [Nat -> Spot] /\ FirstPass(walk) /\ later \in [Nat -> Spot]
        /\ FirstPass(later)' /\ position <= position'
        /\ \A k \in 1 .. position - 1 : nodes'[k] = nodes[k]
        /\ \A k \in 1 .. Len(literal_table) : literal_table'[k] = literal_table[k]
    BY <1>1 DEF Visits
  <2> QED  BY <2>1, SameWalk
<1>3. AreSpans(walk, Spans(walk, position)) /\ AreSpans(later, Spans(later, position))'
  BY SpansAre, SpansLater DEF SpansOfWalks, Visits
<1>4. position' - 1 \in Nat
  <2>1. PICK p, q : p = position /\ q = position'
    OBVIOUS
  <2>2. p \in Nat /\ 1 <= p /\ q \in Nat /\ p < q
    BY <1>1, <2>1
  <2>3. q - 1 \in Nat
    BY <2>2
  <2> QED  BY <2>1, <2>3
<1> QED  BY <1>1, <1>2, <1>3, <1>4

\* Its lines lie apart from those before, in what was or is the open segment.
LEMMA PartedOn ==
  ASSUME NEW walk, NEW later, Visits(walk, later)
  PROVE  /\ Parted(Spans(later, position)', segments,
                   Opened(walk[position].block = -1, segment_start,
                          Spans(later, position)'[position' - 1].next), start_address)
         /\ later[position' - 1].block = walk[position].block
         /\ later[position' - 1].sizes = walk[position].sizes
         /\ Spans(later, position)'[position' - 1].next
              = later[position' - 1].address + Bytes(nodes[position - 1])'
<1>visit. PICK spot, last, longer, to :
        /\ spot = walk[position] /\ last = later[position' - 1] /\ longer = Spans(later, position)'
        /\ to = longer[position' - 1].next
  OBVIOUS
<1> USE <1>visit
<1>1. PICK p, q : p = position /\ q = position' - 1
  OBVIOUS
<1>2. /\ p \in Nat /\ 1 <= p /\ q \in Nat /\ p <= q /\ position' - 2 = q - 1
      /\ \A k \in 1 .. p : later[k] = walk[k]
      /\ \A k \in 1 .. p - 1 : Bytes(nodes[k])' = Bytes(nodes[k])
  <2>1. position < position'
    BY DEF Visits
  <2> QED  BY <1>1, <2>1, VisitsIs
<1>3. PICK spans : spans = Spans(walk, position)
  OBVIOUS
<1>4. AreSpans(walk, spans) /\ AreSpans(later, Spans(later, position))'
  BY <1>3, VisitsIs
<1>5. /\ DOMAIN spans = 1 .. p - 1
      /\ \A k \in 1 .. p - 1 :
           /\ IsSpanOf(spans[k], walk[k]) /\ spans[k].next = walk[k].address + Bytes(nodes[k])
  BY <1>1, <1>4 DEF AreSpans
<1>6. /\ DOMAIN longer = 1 .. q
      /\ \A k \in 1 .. q :
           /\ IsSpanOf(longer[k], later[k])
           /\ longer[k].next = later[k].address + Bytes(nodes[k])'
           /\ nodes'[k].kind \notin {"START", "ORG", "USE"} => Advances(longer[k], later[k], later[k + 1])
  BY <1>1, <1>4 DEF AreSpans
<1>7. /\ \A k \in p .. q : IsSpanOf(longer[k], later[k])
      /\ \A k \in p .. q - 1 : Advances(longer[k], later[k], later[k + 1])
  <2>1. ASSUME NEW k \in p .. q PROVE k \in 1 .. q
    BY <1>2
  <2>2. ASSUME NEW k \in p .. q - 1 PROVE nodes'[k].kind \notin {"START", "ORG", "USE"} /\ k \in 1 .. q
    BY <1>1, <1>2 DEF Visits
  <2> QED  BY <1>6, <2>1, <2>2
<1>8. /\ NewSpans(longer, p, q, later[p].block = -1, later[p].address, longer[q].next)
      /\ later[p].address <= longer[q].next
      /\ later[q].block = later[p].block /\ later[q].sizes = later[p].sizes
  BY <1>2, <1>7, FollowingSpans
<1>9. later[p] = spot /\ last = later[q] /\ to = longer[q].next
  BY <1>1, <1>2
<1>10. ASSUME NEW k \in 1 .. p - 1 PROVE longer[k] = spans[k]
  <2>1. k \in 1 .. q /\ k \in 1 .. p
    BY <1>2
  <2>2. Bytes(nodes[k])' = Bytes(nodes[k]) /\ later[k] = walk[k]
    BY <1>2, <2>1
  <2>3. longer[k] = [outside |-> later[k].block = -1, first |-> later[k].address,
                     next |-> later[k].address + Bytes(nodes[k])']
    BY <1>1, <2>1 DEF Spans
  <2>4. spans[k] = [outside |-> walk[k].block = -1, first |-> walk[k].address,
                     next |-> walk[k].address + Bytes(nodes[k])]
    BY <1>1, <1>3 DEF Spans
  <2> QED  BY <2>2, <2>3, <2>4
<1>11. PICK out \in BOOLEAN : out = (spot.block = -1)
  OBVIOUS
<1>12. PICK from : from = spot.address
  OBVIOUS
<1>13. from \in Nat /\ to \in Nat /\ from <= to
  <2>1. IsSpanOf(longer[p], later[p]) /\ IsSpanOf(longer[q], later[q])
    BY <1>2, <1>7
  <2> QED  BY <1>8, <1>9, <1>12, <2>1 DEF IsSpanOf
<1>14. Parted(spans, segments, Opened(out, segment_start, from), start_address)
  <2>1. Parted(Spans(walk, position), segments, OpenSegments(walk), start_address)
        /\ position <= Len(nodes) /\ IsHere(walk[position])
    BY DEF Visits, Laid, FirstPass
  <2>2. current_address = from
    BY <1>12, <2>1 DEF IsHere
  <2>3. OpenSegments(walk) = IF out THEN {<<segment_start, from>>} ELSE {}
    BY <1>11, <2>1, <2>2 DEF OpenSegments
  <2> QED  BY <1>3, <2>1, <2>3 DEF Opened
<1>15. NewSpans(longer, p, q, out, from, to)
  BY <1>8, <1>9, <1>11, <1>12
<1>16. Grows(spans, longer, p, q)
  <2>1. \A k \in 1 .. p - 1 : spans[k].next \in Nat
    BY <1>5 DEF IsSpanOf
  <2> QED  BY <1>5, <1>6, <1>10, <2>1 DEF Grows
<1>18. p <= q + 1
  BY <1>2
<1>19. Parted(longer, segments, Opened(out, segment_start, to), start_address)
  BY <1>2, <1>13, <1>14, <1>15, <1>16, <1>18, PartedGrows
<1>20. q \in 1 .. q
  BY <1>2
<1>21. to = last.address + Bytes(nodes[position - 1])'
  <2>1. longer[q].next = later[q].address + Bytes(nodes[q])'
    BY <1>6, <1>20
  <2> QED  BY <1>1, <1>9, <2>1
<1> QED  BY <1>8, <1>9, <1>11, <1>19, <1>21

\* A line that leaves the pass in its block.
LEMMA LaidAlong ==
  ASSUME NEW walk, NEW later, Visits(walk, later),
         nodes'[position' - 1].kind \notin {"START", "ORG", "USE"},
         UNCHANGED <<segments, segment_start, start_address>>,
         \E k \in position' .. Len(nodes') : nodes'[k].kind = "END"
  PROVE  Laid(later)'
<1>1. PICK spot, last, longer : spot = walk[position] /\ last = later[position' - 1]
                                /\ longer = Spans(later, position)'
  OBVIOUS
<1>2. PICK to, q : to = longer[position' - 1].next /\ q = position' - 1
  OBVIOUS
<1>3. PICK open : open = Opened(spot.block = -1, segment_start, to)
  OBVIOUS
<1>4. last.block = spot.block
  BY <1>1, PartedOn
<1>14. Parted(longer, segments, open, start_address)
  BY <1>1, <1>2, <1>3, PartedOn
<1>5. position' \in Nat /\ q \in 1 .. position' - 1 /\ q + 1 = position'
  <2>1. position < position'
    BY DEF Visits
  <2> QED  BY <1>2, <2>1, VisitsIs
<1>6. Advances(longer[q], last, later[position'])
  <2>1. AreSpans(later, Spans(later, position))'
    BY VisitsIs
  <2>2. nodes'[q].kind \notin {"START", "ORG", "USE"} => Advances(longer[q], later[q], later[q + 1])
    BY <1>1, <1>5, <2>1 DEF AreSpans
  <2> QED  BY <1>1, <1>2, <1>5, <2>2
<1>7. later[position'].block = spot.block /\ later[position'].address = to
  BY <1>2, <1>4, <1>6 DEF Advances
<1>8. position' <= Len(nodes')
  <2>1. Len(nodes') \in Nat
    BY ListIs DEF Visits, FirstPass
  <2> QED  BY <1>5, <2>1
<1>9. current_address' = to
  BY <1>7 DEF Visits, FirstPass, IsHere
<1>10. OpenSegments(later)' = open
  BY <1>3, <1>7, <1>8, <1>9 DEF OpenSegments, Opened
<1>11. ~IsStarted(later[position']) => segments' = <<>>
  BY <1>1, <1>7 DEF Visits, Laid, IsStarted
<1>12. IsList(segments')
  BY DEF Visits, Laid
<1>13. Parted(Spans(later, position)', segments', OpenSegments(later)', start_address')
  BY <1>1, <1>10, <1>14
<1> QED  BY <1>8, <1>11, <1>12, <1>13 DEF Laid

\* The lines are closed off in a segment, if they are outside of the blocks.
LEMMA PartedEnds ==
  ASSUME NEW walk, NEW later, Visits(walk, later), NEW spot, spot = walk[position], IsStarted(spot),
         NEW longer, longer = Spans(later, position)', NEW to, to = longer[position' - 1].next,
         segments' = EndedSegments(to),
         NEW open, \A segment \in open : IsSegment(segment, start_address)
  PROVE  IsList(segments') /\ Parted(longer, segments', open, start_address)
<1>1. PICK closed, last : closed = segments /\ last = later[position' - 1]
  OBVIOUS
<1>2. PICK before : before = Opened(spot.block = -1, segment_start, to)
  OBVIOUS
<1>3. Parted(longer, closed, before, start_address)
  BY <1>1, <1>2, PartedOn
<1>4. current_block = spot.block /\ IsList(closed)
  BY <1>1 DEF Visits, FirstPass, IsHere, Laid
<1>5. CASE spot.block = -1
  <2>1. PICK segment, start : segment = <<segment_start, to>> /\ start = start_address
    OBVIOUS
  <2>2. segments' = Append(closed, segment)
    BY <1>1, <1>4, <1>5, <2>1 DEF EndedSegments
  <2>3. before = {segment}
    BY <1>2, <1>5, <2>1 DEF Opened
  <2>4. Parted(longer, closed, {segment}, start) /\ \A s \in open : IsSegment(s, start)
    BY <1>3, <2>1, <2>3
  <2>5. PICK more : more = Append(closed, segment)
    OBVIOUS
  <2>6. IsList(more) /\ Parted(longer, more, open, start)
    BY <1>4, <2>4, <2>5, PartedCloses
  <2> QED  BY <2>1, <2>2, <2>5, <2>6
<1>6. CASE spot.block # -1
  <2>1. segments' = closed /\ before = {}
    BY <1>1, <1>2, <1>4, <1>6 DEF EndedSegments, Opened
  <2> QED  BY <1>3, <1>4, <2>1, PartedOpens
<1> QED  BY <1>5, <1>6

\* ORG and USE.
LEMMA LaidElsewhere ==
  ASSUME NEW walk, NEW later, Visits(walk, later), position' = position + 1,
         IsStarted(walk[position]), nodes'[position].kind \in {"ORG", "USE"},
         segments' = EndedSegments(current_address), start_address' = start_address,
         later[position'].block # -2,
         later[position'].block = -1 =>
           segment_start' = current_address' /\ start_address <= current_address',
         \E k \in position' .. Len(nodes') : nodes'[k].kind = "END"
  PROVE  Laid(later)'
<1>1. PICK spot, last, longer : spot = walk[position] /\ last = later[position' - 1]
                                /\ longer = Spans(later, position)'
  OBVIOUS
<1>2. PICK to : to = longer[position' - 1].next
  OBVIOUS
<1>3. position \in Nat /\ position' - 1 = position /\ position' \in Nat
  BY VisitsIs
<1>4. last = spot
  <2>1. position \in 1 .. position
    BY VisitsIs
  <2> QED  BY <1>1, <1>3, <2>1, VisitsIs
<1>5. to = current_address
  <2>2. to = last.address + Bytes(nodes[position - 1])'
    BY <1>1, <1>2, PartedOn
  <2>3. Bytes(nodes[position - 1])' = 0
    BY <1>3 DEF Bytes
  <2>4. current_address = spot.address /\ spot.address \in Nat
    BY <1>1 DEF Visits, FirstPass, IsHere, Spot
  <2> QED  BY <1>4, <2>2, <2>3, <2>4
<1>6. Len(nodes') \in Nat /\ position' <= Len(nodes')
  <2>1. Len(nodes') \in Nat
    BY ListIs DEF Visits, FirstPass
  <2> QED  BY <1>3, <2>1
<1>7. PICK open : open = OpenSegments(later)'
  OBVIOUS
<1>8. \A segment \in open : IsSegment(segment, start_address)
  <2>1. CASE later[position'].block = -1
    <3>1. current_address' \in Nat
      BY <1>3 DEF Visits, FirstPass, IsHere, Spot
    <3>2. open = {<<current_address', current_address'>>}
      BY <1>6, <1>7, <2>1 DEF OpenSegments
    <3> QED  BY <2>1, <3>1, <3>2 DEF IsSegment
  <2>2. CASE later[position'].block # -1
    BY <1>7, <2>2 DEF OpenSegments
  <2> QED  BY <2>1, <2>2
<1>9. IsList(segments') /\ Parted(longer, segments', open, start_address)
  BY <1>1, <1>2, <1>5, <1>8, PartedEnds
<1>10. IsStarted(later[position'])
  BY DEF IsStarted
<1> QED  BY <1>1, <1>6, <1>7, <1>9, <1>10 DEF Laid

\* END.
LEMMA LaidAtEnd ==
  ASSUME NEW walk, NEW later, Visits(walk, later), ~(position' <= Len(nodes')),
         IsStarted(walk[position]), nodes'[position' - 1].kind = "END",
         segments' = EndedSegments(current_address'), start_address' = start_address,
         block_table' = EndedBlocks(current_address')
  PROVE  Laid(later)'
<1>1. PICK spot, last, longer, next : spot = walk[position] /\ last = later[position' - 1]
                                /\ longer = Spans(later, position)' /\ next = later[position']
  OBVIOUS
<1>2. PICK to, q : to = longer[position' - 1].next /\ q = position' - 1
  OBVIOUS
<1>3. PICK before : before = Opened(spot.block = -1, segment_start, to)
  OBVIOUS
<1>4. last.block = spot.block /\ last.sizes = spot.sizes
  BY <1>1, <1>2, PartedOn
<1>5. position \in Nat /\ 1 <= position /\ position' \in Nat /\ q \in 1 .. position' - 1
      /\ q + 1 = position'
  <2>1. position < position'
    BY DEF Visits
  <2> QED  BY <1>2, <2>1, VisitsIs
<1>6. Advances(longer[q], last, next)
  <2>1. AreSpans(later, Spans(later, position))'
    BY VisitsIs
  <2>2. nodes'[q].kind \notin {"START", "ORG", "USE"} => Advances(longer[q], later[q], later[q + 1])
    BY <1>1, <1>5, <2>1 DEF AreSpans
  <2> QED  BY <1>1, <1>2, <1>5, <2>2
<1>7. next.block = spot.block /\ next.sizes = spot.sizes /\ next.address = to
  BY <1>2, <1>4, <1>6 DEF Advances
<1>8. current_address' = to
  BY <1>1, <1>7 DEF Visits, FirstPass, IsHere
<1>9. OpenSegments(later)' = {}
  BY DEF OpenSegments
<1>10. PICK open : open = OpenSegments(later)'
  OBVIOUS
<1>11. IsList(segments') /\ Parted(longer, segments', open, start_address)
  BY <1>1, <1>2, <1>8, <1>9, <1>10, PartedEnds
<1>12. IsStarted(next)
  BY <1>1, <1>7 DEF IsStarted
<1>13. ASSUME NEW block \in DOMAIN block_table' PROVE block_table'[block].size = Left(next)[block]
  <2>1. /\ spot.sizes \in [Nat -> Nat] /\ spot.block \in Int
        /\ \A b \in Nat : spot.sizes[b] = IF b \in DOMAIN block_table THEN block_table[b].size ELSE 0
    BY <1>1, <1>5 DEF Visits, FirstPass, IsHere, Spot
  <2>2. current_block = spot.block /\ IsBlockTable(block_table)
    BY <1>1 DEF Visits, FirstPass, IsHere
  <2>3. PICK n \in Nat \ {0} : DOMAIN block_table = 0 .. n - 1
    BY <2>2 DEF IsBlockTable
  <2>4. spot.block \in {-1} \cup DOMAIN block_table
    <3>1. position \in 1 .. position
      BY <1>5
    <3>2. walk[position].block \in {-2, -1} \cup DOMAIN block_table
      BY <3>1 DEF Visits, FirstPass, Walked
    <3> QED  BY <1>1, <3>2 DEF IsStarted
  <2>5. CASE spot.block = -1
    <3>1. block_table' = block_table /\ Left(next) = spot.sizes
      BY <1>7, <2>2, <2>5 DEF EndedBlocks, Left
    <3>2. block \in DOMAIN block_table /\ block \in Nat
      BY <2>3, <3>1
    <3>3. spot.sizes[block] = block_table[block].size
      BY <2>1, <3>2
    <3> QED  BY <3>1, <3>3
  <2>6. CASE spot.block # -1
    <3>1. spot.block \in DOMAIN block_table /\ spot.block \in Nat /\ spot.block >= 0
      BY <2>3, <2>4, <2>6
    <3>2. block_table' = [block_table EXCEPT ![spot.block].size = to]
      BY <1>8, <2>2, <2>6 DEF EndedBlocks
    <3>3. Left(next) = [spot.sizes EXCEPT ![spot.block] = to]
      BY <1>7, <3>1 DEF Left
    <3>4. block \in DOMAIN block_table /\ block \in Nat
      BY <2>3, <3>2
    <3>5. CASE block = spot.block
      <4>1. "size" \in DOMAIN block_table[block]
        BY <2>2, <3>4 DEF IsBlockTable
      <4>2. block_table'[block].size = to
        BY <3>1, <3>2, <3>5, <4>1
      <4>3. Left(next)[block] = to
        BY <2>1, <3>1, <3>3, <3>5
      <4> QED  BY <4>2, <4>3
    <3>6. CASE block # spot.block
      <4>1. block_table'[block] = block_table[block]
        BY <3>2, <3>4, <3>6
      <4>2. Left(next)[block] = spot.sizes[block]
        BY <2>1, <3>3, <3>4, <3>6
      <4>3. spot.sizes[block] = block_table[block].size
        BY <2>1, <3>4
      <4> QED  BY <4>1, <4>2, <4>3
    <3> QED  BY <3>5, <3>6
  <2> QED  BY <2>5, <2>6
<1> QED  BY <1>1, <1>10, <1>11, <1>12, <1>13 DEF Laid

\* START.
LEMMA LaidAtStart ==
  ASSUME NEW walk, NEW later, Visits(walk, later), position' = position + 1, nodes' = nodes,
         Node.kind = "START", UNCHANGED segments
  PROVE  Laid(later)'
<1>1. position \in Nat /\ 1 <= position /\ position' - 1 = position /\ position' \in Nat
  BY VisitsIs
<1>2. ~IsStarted(walk[position]) /\ NothingYet(walk[position])
  BY HereIs DEF Visits
<1>3. PICK spans, longer : spans = Spans(walk, position) /\ longer = Spans(later, position)'
  OBVIOUS
<1>4. AreSpans(walk, spans) /\ \A k \in 1 .. position : later[k] = walk[k]
  BY <1>3, VisitsIs
<1>5. ASSUME NEW k \in 1 .. position PROVE walk[k].block = -2
  <2>1. walk[position].block = -2
    BY <1>2 DEF IsStarted
  <2>2. CASE k # position
    <3>1. PICK p, q : p = 1 /\ q = position - 1
      OBVIOUS
    <3>2. p \in Nat /\ q \in Nat /\ p <= q /\ k \in p .. q
      BY <1>1, <2>2, <3>1
    <3>3. \A i \in p .. q : IsSpanOf(spans[i], walk[i])
      BY <1>4, <3>1 DEF AreSpans
    <3>4. \A i \in p .. q : nodes[i].kind = "EMPTY"
      BY <1>2, <3>1 DEF NothingYet
    <3>5. \A i \in p .. q - 1 : Advances(spans[i], walk[i], walk[i + 1])
      <4>1. ASSUME NEW i \in p .. q - 1 PROVE Advances(spans[i], walk[i], walk[i + 1])
        <5>1. i \in p .. q /\ i \in 1 .. position - 1
          BY <3>1, <3>2
        <5> QED  BY <1>4, <3>4, <5>1 DEF AreSpans
      <4> QED  BY <4>1
    <3>6. Follows(spans, walk, p, k)
      BY <3>2, <3>3, <3>5, WalkFollows
    <3>7. walk[1].block = -2
      BY DEF Visits, FirstPass, Walked, Nowhere
    <3> QED  BY <3>1, <3>6, <3>7 DEF Follows
  <2> QED  BY <2>1, <2>2
<1>6. DOMAIN longer = 1 .. position /\ \A k \in 1 .. position : longer[k].outside = FALSE
  <2>1. AreSpans(later, Spans(later, position))'
    BY VisitsIs
  <2>2. /\ DOMAIN longer = 1 .. position' - 1
        /\ \A k \in 1 .. position' - 1 : IsSpanOf(longer[k], later[k])
    BY <1>3, <2>1 DEF AreSpans
  <2>3. position' - 1 = position
    BY <1>1
  <2>4. DOMAIN longer = 1 .. position
    BY <2>2, <2>3
  <2>5. ASSUME NEW k \in 1 .. position PROVE longer[k].outside = FALSE
    <3>1. IsSpanOf(longer[k], later[k])
      BY <2>2, <2>3
    <3>2. later[k].block = -2
      BY <1>4, <1>5
    <3>3. (later[k].block = -1) = FALSE
      BY <3>2
    <3> QED  BY <3>1, <3>3 DEF IsSpanOf
  <2> QED  BY <2>4, <2>5
<1>7. segments' = <<>> /\ DOMAIN segments' = {} /\ IsList(segments')
  <2>1. PICK s : s = segments'
    OBVIOUS
  <2>2. s = <<>> /\ IsList(s)
    BY <1>2, <2>1 DEF Visits, Laid
  <2>3. DOMAIN s = {}
    BY <2>2
  <2> QED  BY <2>1, <2>2, <2>3
<1>8. later[position'].block = 0
  <2>1. PICK k : k = position
    OBVIOUS
  <2>2. k \in 1 .. position' - 1 /\ k + 1 = position'
    BY <1>1, <2>1
  <2>3. Walked(later, position)'
    BY DEF Visits, FirstPass
  <2>4. later[k + 1] = After(nodes[k], later[k])'
    BY <2>2, <2>3 DEF Walked
  <2>5. nodes'[k].kind = "START"
    BY <2>1 DEF Node
  <2>6. later[k + 1].block = 0
    BY <2>4, <2>5 DEF After
  <2> QED  BY <2>2, <2>6
<1>9. OpenSegments(later)' = {}
  BY <1>8 DEF OpenSegments
<1>10. Parted(longer, segments', {}, start_address')
  BY <1>6, <1>7 DEF Parted
<1>11. position' <= Len(nodes') /\ \E k \in position' .. Len(nodes') : nodes'[k].kind = "END"
  <2>1. Len(nodes) \in Nat
    BY ListIs DEF Visits, FirstPass
  <2>2. PICK k \in position .. Len(nodes) : nodes[k].kind = "END"
    BY DEF Visits, Laid
  <2>3. k # position
    BY <2>2 DEF Node
  <2> QED  BY <1>1, <2>1, <2>2, <2>3
<1> QED  BY <1>3, <1>7, <1>9, <1>10, <1>11 DEF Laid

\* A step over one line; no line but that one is changed, and it keeps its kind.
OneLine ==
  /\ position' = position + 1 /\ Len(nodes') = Len(nodes)
  /\ \A k \in 1 .. position - 1 : nodes'[k] = nodes[k]
  /\ \A k \in 1 .. Len(nodes) : nodes'[k].kind = nodes[k].kind
  /\ \A k \in 1 .. Len(literal_table) : literal_table'[k] = literal_table[k]

\* It is a visit, whatever it does to the tables.
LEMMA OneLineVisits ==
  ASSUME NEW walk \in [Nat -> Spot], FirstPass(walk), Laid(walk), position <= Len(nodes),
         NEW later \in [Nat -> Spot], FirstPass(later)', OneLine
  PROVE  /\ Visits(walk, later) /\ position' - 1 = position
         /\ nodes'[position].kind = Node.kind
         /\ Node.kind # "END" => \E k \in position' .. Len(nodes') : nodes'[k].kind = "END"
         /\ \A p \in {position} : later[position'] = After(nodes[p], later[p])' /\ IsNoted(nodes[p])'
<1>1. PICK p, last : p = position /\ last = Len(nodes)
  OBVIOUS
<1>2. /\ p \in Nat /\ last \in Nat /\ p \in 1 .. last /\ Node = nodes[p]
      /\ position' = p + 1 /\ Len(nodes') = last
  BY <1>1, VisitedIs DEF OneLine
<1>3. position < position' /\ position' - 1 = position /\ position' \in Nat
  BY <1>1, <1>2
<1>4. ~(\E k \in position .. position' - 2 : TRUE)
  <2>1. ~(\E k \in p .. p + 1 - 2 : TRUE)
    BY <1>2
  <2> QED  BY <1>1, <1>2, <2>1
<1>5. Visits(walk, later)
  BY <1>3, <1>4 DEF Visits, OneLine
<1>6. nodes'[position].kind = Node.kind
  BY <1>1, <1>2 DEF OneLine
<1>7. ASSUME Node.kind # "END" PROVE \E k \in position' .. Len(nodes') : nodes'[k].kind = "END"
  <2>1. PICK k \in p .. last : nodes[k].kind = "END"
    BY <1>1 DEF Laid
  <2>2. k # p
    BY <1>2, <1>7, <2>1
  <2>3. k \in p + 1 .. last /\ k \in 1 .. last
    BY <1>2, <2>1, <2>2
  <2>4. nodes'[k].kind = "END"
    BY <1>1, <2>1, <2>3 DEF OneLine
  <2> QED  BY <1>2, <2>3, <2>4
<1>8. later[position'] = After(nodes[p], later[p])' /\ IsNoted(nodes[p])'
  <2>1. p \in 1 .. position' - 1 /\ p + 1 = position'
    BY <1>2
  <2>2. Walked(later, position)'
    BY DEF FirstPass
  <2> QED  BY <2>1, <2>2 DEF Walked
<1> QED  BY <1>1, <1>3, <1>5, <1>6, <1>7, <1>8

\* A line is left as it is, or gets a field more.
LEMMA OneLineUnchanged ==
  ASSUME NEW walk \in [Nat -> Spot], FirstPass(walk), position <= Len(nodes),
         nodes' = nodes, position' = position + 0 + 1, literal_table' = literal_table
  PROVE  OneLine
<1>1. position' = position + 1
  BY VisitedIs
<1> QED  BY <1>1 DEF OneLine

\* Or it is replaced by one that differs in a field the pass fills in.
LEMMA OneLineReplaced ==
  ASSUME NEW walk \in [Nat -> Spot], FirstPass(walk), position <= Len(nodes),
         NEW new, nodes' = [nodes EXCEPT ![position] = With(Node, new)],
         position' = position + 0 + 1,
         \A k \in 1 .. Len(literal_table) : literal_table'[k] = literal_table[k]
  PROVE  OneLine
<1>1. PICK p, node : p = position /\ node = With(Node, new)
  OBVIOUS
<1>2. /\ position' = position + 1 /\ IsList(nodes) /\ p \in 1 .. Len(nodes) /\ Len(nodes) \in Nat
      /\ Node = nodes[p] /\ IsLine(Node)
  BY <1>1, VisitedIs
<1>3. node.kind = Node.kind
  <2>1. "kind" \in DOMAIN Node
    BY <1>2 DEF IsLine
  <2> QED  BY <1>1, <2>1 DEF With
<1>4. nodes' = [nodes EXCEPT ![position] = node] /\ position \in 1 .. Len(nodes)
  BY <1>1, <1>2
<1>5. /\ Len(nodes') = Len(nodes) /\ nodes'[position] = node
      /\ \A k \in 1 .. Len(nodes) : k # position => nodes'[k] = nodes[k]
  BY <1>2, <1>4, NodesReplaced
<1>6. ASSUME NEW k \in 1 .. Len(nodes) PROVE nodes'[k].kind = nodes[k].kind
  BY <1>1, <1>2, <1>3, <1>5
<1>7. ASSUME NEW k \in 1 .. position - 1 PROVE nodes'[k] = nodes[k]
  <2>1. k \in 1 .. Len(nodes) /\ k # position
    BY <1>1, <1>2
  <2> QED  BY <1>5, <2>1
<1> QED  BY <1>2, <1>5, <1>6, <1>7 DEF OneLine

\* A literal that is added leaves those there are.
LEMMA LiteralsStand ==
  ASSUME NEW bytes, LiteralsAre(symbol_table),
         literal_table' = IF LiteralId(bytes) < Len(literal_table) THEN literal_table
                          ELSE Append(literal_table, bytes)
  PROVE  \A k \in 1 .. Len(literal_table) : literal_table'[k] = literal_table[k]
<1>1. CASE LiteralId(bytes) < Len(literal_table)
  BY <1>1
<1>2. CASE ~(LiteralId(bytes) < Len(literal_table))
  <2>1. literal_table' = Append(literal_table, bytes) /\ IsList(literal_table)
    BY <1>2 DEF LiteralsAre
  <2> QED  BY <2>1, AppendIs
<1> QED  BY <1>1, <1>2

\* The lines that leave the pass in its block, but for LTORG.
LEMMA OneLineLaid ==
  ASSUME NEW walk \in [Nat -> Spot], FirstPass(walk), Laid(walk), position <= Len(nodes),
         NEW later \in [Nat -> Spot], FirstPass(later)', OneLine,
         Node.kind \notin {"START", "ORG", "USE", "END"},
         UNCHANGED <<segments, segment_start, start_address>>
  PROVE  Laid(later)'
<1>1. /\ Visits(walk, later) /\ nodes'[position' - 1].kind \notin {"START", "ORG", "USE"}
      /\ \E k \in position' .. Len(nodes') : nodes'[k].kind = "END"
  BY OneLineVisits
<1> QED  BY <1>1, LaidAlong

\* ORG.
LEMMA OrgLaid ==
  ASSUME NEW walk \in [Nat -> Spot], FirstPass(walk), Laid(walk), position <= Len(nodes),
         NEW later \in [Nat -> Spot], FirstPass(later)',
         NEW value \in Nat, start_address <= value, BuildOrg(value)
  PROVE  Laid(later)'
<1>1. /\ Node.kind = "ORG" /\ position' = position + 0 + 1
      /\ nodes' = [nodes EXCEPT ![position] = With(Node, [address |-> value])]
      /\ segments' = EndedSegments(current_address) /\ start_address' = start_address
      /\ literal_table' = literal_table /\ segment_start' = value /\ current_address' = value
  BY DEF BuildOrg, Advance, Node
<1>2. PICK new : new = [address |-> value]
  OBVIOUS
<1>3. nodes' = [nodes EXCEPT ![position] = With(Node, new)]
  BY <1>1, <1>2
<1>4. OneLine
  BY <1>1, <1>3, OneLineReplaced
<1>5. PICK p : p = position
  OBVIOUS
<1>6. /\ Visits(walk, later) /\ nodes'[p].kind = "ORG"
      /\ \E k \in position' .. Len(nodes') : nodes'[k].kind = "END"
      /\ later[position'] = After(nodes[p], later[p])'
  BY <1>1, <1>4, <1>5, OneLineVisits
<1>7. later[position'].block = -1
  BY <1>6 DEF After
<1>8. position' = position + 1 /\ IsStarted(walk[position])
  BY <1>1, <1>4, HereIs DEF OneLine
<1>9. nodes'[position].kind \in {"ORG", "USE"} /\ later[position'].block # -2
  BY <1>5, <1>6, <1>7
<1> QED  BY <1>1, <1>6, <1>8, <1>9, LaidElsewhere

\* USE.
LEMMA UseLaid ==
  ASSUME NEW walk \in [Nat -> Spot], FirstPass(walk), Laid(walk), position <= Len(nodes),
         NEW later \in [Nat -> Spot], FirstPass(later)', BuildUse
  PROVE  Laid(later)'
<1>1. PICK new : new = [block_id |-> BlockNumber(Node.block_name)]
  OBVIOUS
<1>2. /\ Node.kind = "USE" /\ position' = position + 0 + 1
      /\ nodes' = [nodes EXCEPT ![position] = With(Node, [block_id |-> BlockNumber(Node.block_name)])]
      /\ segments' = EndedSegments(current_address) /\ start_address' = start_address
      /\ literal_table' = literal_table
  BY DEF BuildUse, Advance, Node
<1>3. nodes' = [nodes EXCEPT ![position] = With(Node, new)]
  BY <1>1, <1>2
<1>4. OneLine
  BY <1>2, <1>3, OneLineReplaced
<1>5. PICK p : p = position
  OBVIOUS
<1>6. /\ Visits(walk, later) /\ nodes'[p].kind = "USE"
      /\ \E k \in position' .. Len(nodes') : nodes'[k].kind = "END"
      /\ later[position'] = After(nodes[p], later[p])' /\ IsNoted(nodes[p])'
  BY <1>2, <1>4, <1>5, OneLineVisits
<1>7. later[position'].block \in Nat
  <2>1. later[position'].block = nodes'[p].block_id
    BY <1>6 DEF After
  <2>2. nodes'[p].block_id \in DOMAIN block_table' /\ IsBlockTable(block_table')
    BY <1>6 DEF IsNoted, FirstPass
  <2> QED  BY <2>1, <2>2 DEF IsBlockTable
<1>8. position' = position + 1 /\ IsStarted(walk[position])
  BY <1>2, <1>4, HereIs DEF OneLine
<1>9. nodes'[position].kind \in {"ORG", "USE"} /\ later[position'].block # -2
      /\ later[position'].block # -1
  BY <1>5, <1>6, <1>7
<1> QED  BY <1>2, <1>6, <1>8, <1>9, LaidElsewhere

\* START.
LEMMA StartLaid ==
  ASSUME NEW walk \in [Nat -> Spot], FirstPass(walk), Laid(walk), position <= Len(nodes),
         NEW later \in [Nat -> Spot], FirstPass(later)', NEW solved, BuildStart(solved)
  PROVE  Laid(later)'
<1>1. /\ Node.kind = "START" /\ position' = position + 0 + 1 /\ nodes' = nodes
      /\ literal_table' = literal_table /\ segments' = segments
  BY DEF BuildStart, Advance
<1>2. OneLine
  BY <1>1, OneLineUnchanged
<1>3. Visits(walk, later)
  BY <1>2, OneLineVisits
<1>4. position' = position + 1
  BY <1>2 DEF OneLine
<1> QED  BY <1>1, <1>3, <1>4, LaidAtStart

\* LTORG and END, with the lines of their pools.
LEMMA PoolLineKinds ==
  ASSUME NEW table, LiteralsAre(table)
  PROVE  /\ IsList(LiteralLines) /\ Len(LiteralLines) \in Nat
         /\ \A k \in 1 .. Len(LiteralLines) : LiteralLines[k].kind = "LITERAL"
<1>1. PICK m : m = Cardinality(Waiting)
  OBVIOUS
<1>2. /\ IsList(LiteralLines) /\ Len(LiteralLines) = m
      /\ \A j \in 1 .. m : LiteralLines[j] = InternalLiteral(next_literal_id + j - 1)
  BY <1>1, LiteralLinesAre
<1>3. ASSUME NEW k \in 1 .. m PROVE LiteralLines[k].kind = "LITERAL"
  <2>1. PICK id : id = next_literal_id + k - 1
    OBVIOUS
  <2>2. LiteralLines[k] = InternalLiteral(id)
    BY <1>2, <2>1
  <2> QED  BY <2>2, InternalLiteralIs
<1> QED  BY <1>2, <1>3, ListIs

\* LTORG.
LEMMA LtorgLaid ==
  ASSUME NEW walk \in [Nat -> Spot], FirstPass(walk), Laid(walk), position <= Len(nodes),
         NEW later \in [Nat -> Spot], FirstPass(later)', BuildLtorg
  PROVE  Laid(later)'
<1>1. PICK p, n, m, lines : /\ p = position /\ n = Len(nodes) /\ lines = LiteralLines
                            /\ m = Len(LiteralLines)
  OBVIOUS
<1>2. /\ p \in Nat /\ n \in Nat /\ p \in 1 .. n /\ Node = nodes[p] /\ IsList(nodes)
      /\ LiteralsAre(symbol_table)
  BY <1>1, VisitedIs
<1>3. IsList(lines) /\ m \in Nat /\ \A k \in 1 .. m : lines[k].kind = "LITERAL"
  BY <1>1, <1>2, PoolLineKinds
<1>4. /\ Node.kind = "LTORG" /\ position' = p + m + 1 /\ literal_table' = literal_table
      /\ nodes' = SubSeq(nodes, 1, p) \o lines \o SubSeq(nodes, p + 1, n)
      /\ UNCHANGED <<segments, segment_start, start_address>>
  BY <1>1, <1>2, <1>3 DEF BuildLtorg, Advance
<1>5. PICK new : new = nodes'
  OBVIOUS
<1>6. /\ Len(new) = n + m
      /\ \A k \in 1 .. p : new[k] = nodes[k]
      /\ \A k \in p + 1 .. p + m : new[k] = lines[k - p]
      /\ \A k \in p + m + 1 .. n + m : new[k] = nodes[k - m]
  <2>1. new = SubSeq(nodes, 1, p) \o lines \o SubSeq(nodes, p + 1, Len(nodes))
    BY <1>1, <1>4, <1>5
  <2>2. p \in 1 .. Len(nodes)
    BY <1>1, <1>2
  <2>3. Inserted(nodes, lines, p, new)
    BY <1>2, <1>3, <2>1, <2>2, InsertedIs
  <2> QED  BY <1>1, <2>3 DEF Inserted
<1>7. ASSUME NEW k \in p .. p + m PROVE new[k].kind \notin {"START", "ORG", "USE"}
  <2>1. CASE k = p
    <3>1. new[k] = Node
      BY <1>2, <1>6, <2>1
    <3> QED  BY <1>4, <3>1
  <2>2. CASE k # p
    <3>1. k \in p + 1 .. p + m /\ k - p \in 1 .. m
      BY <1>2, <1>3, <2>2
    <3>2. new[k].kind = "LITERAL"
      BY <1>3, <1>6, <3>1
    <3> QED  BY <3>2
  <2> QED  BY <2>1, <2>2
<1>8. \E k \in p + m + 1 .. n + m : new[k].kind = "END"
  <2>1. PICK k \in p .. n : nodes[k].kind = "END"
    BY <1>1 DEF Laid
  <2>2. k # p
    BY <1>2, <1>4, <2>1
  <2>3. k + m \in p + m + 1 .. n + m /\ (k + m) - m = k
    BY <1>2, <1>3, <2>1, <2>2
  <2>4. new[k + m].kind = "END"
    BY <1>6, <2>1, <2>3
  <2> QED  BY <2>3, <2>4
<1>9. Visits(walk, later) /\ nodes'[position' - 1].kind \notin {"START", "ORG", "USE"}
  <2>1. p < p + m + 1 /\ (p + m + 1) - 2 = p + m - 1 /\ (p + m + 1) - 1 = p + m /\ p + m \in p .. p + m
    BY <1>2, <1>3
  <2>2. position < position'
    BY <1>1, <1>4, <2>1
  <2>3. ASSUME NEW k \in 1 .. position - 1 PROVE nodes'[k] = nodes[k]
    <3>1. k \in 1 .. p
      BY <1>1, <1>2
    <3> QED  BY <1>5, <1>6, <3>1
  <2>4. ASSUME NEW k \in position .. position' - 2 PROVE nodes'[k].kind \notin {"START", "ORG", "USE"}
    <3>1. k \in p .. p + m - 1
      BY <1>1, <1>4, <2>1
    <3>2. k \in p .. p + m
      BY <1>2, <1>3, <3>1
    <3> QED  BY <1>5, <1>7, <3>2
  <2>5. Visits(walk, later)
    BY <1>4, <2>2, <2>3, <2>4 DEF Visits
  <2>6. nodes'[position' - 1].kind \notin {"START", "ORG", "USE"}
    <3>1. position' - 1 = p + m
      BY <1>4, <2>1, Zenon
    <3> QED  BY <1>5, <1>7, <2>1, <3>1
  <2> QED  BY <2>5, <2>6
<1>10. \E k \in position' .. Len(nodes') : nodes'[k].kind = "END"
  BY <1>4, <1>5, <1>6, <1>8
<1> QED  BY <1>4, <1>9, <1>10, LaidAlong

\* END.
LEMMA EndLaid ==
  ASSUME NEW walk \in [Nat -> Spot], FirstPass(walk), Laid(walk), position <= Len(nodes),
         NEW later \in [Nat -> Spot], FirstPass(later)', NEW value, BuildEnd(value)
  PROVE  Laid(later)'
<1>1. PICK p, n, m, lines : /\ p = position /\ n = Len(nodes) /\ lines = LiteralLines
                            /\ m = Len(LiteralLines)
  OBVIOUS
<1>2. /\ p \in Nat /\ n \in Nat /\ p \in 1 .. n /\ Node = nodes[p] /\ IsList(nodes)
      /\ LiteralsAre(symbol_table)
  BY <1>1, VisitedIs
<1>3. IsList(lines) /\ m \in Nat /\ \A k \in 1 .. m : lines[k].kind = "LITERAL"
  BY <1>1, <1>2, PoolLineKinds
<1>4. /\ Node.kind = "END" /\ position' = p + m + 1 /\ literal_table' = literal_table
      /\ nodes' = SubSeq(nodes, 1, p - 1) \o lines \o <<Node>>
      /\ current_address' = AfterLiterals
      /\ segments' = EndedSegments(AfterLiterals) /\ block_table' = EndedBlocks(AfterLiterals)
      /\ start_address' = start_address
  BY <1>1, <1>2, <1>3 DEF BuildEnd, Advance
<1>5. PICK new : new = nodes'
  OBVIOUS
<1>6. /\ Len(new) = p + m
      /\ \A k \in 1 .. p - 1 : new[k] = nodes[k]
      /\ \A k \in p .. p + m - 1 : new[k] = lines[k - p + 1]
      /\ new[p + m] = Node
  <2>1. new = SubSeq(nodes, 1, p - 1) \o lines \o <<Node>>
    BY <1>4, <1>5
  <2>2. p \in 1 .. Len(nodes)
    BY <1>1, <1>2
  <2>3. Closed(nodes, lines, p, Node, new)
    BY <1>2, <1>3, <2>1, <2>2, ClosedIs
  <2> QED  BY <1>1, <2>3 DEF Closed
<1>7. ASSUME NEW k \in p .. p + m - 1 PROVE new[k].kind \notin {"START", "ORG", "USE"}
  <2>1. k - p + 1 \in 1 .. m
    BY <1>2, <1>3
  <2>2. new[k].kind = "LITERAL"
    BY <1>3, <1>6, <2>1
  <2> QED  BY <2>2
<1>8. p < p + m + 1 /\ (p + m + 1) - 2 = p + m - 1 /\ (p + m + 1) - 1 = p + m /\ ~(p + m + 1 <= p + m)
  BY <1>2, <1>3
<1>9. Visits(walk, later)
  <2>2. position < position'
    BY <1>1, <1>4, <1>8
  <2>3. ASSUME NEW k \in 1 .. position - 1 PROVE nodes'[k] = nodes[k]
    BY <1>1, <1>5, <1>6
  <2>4. ASSUME NEW k \in position .. position' - 2 PROVE nodes'[k].kind \notin {"START", "ORG", "USE"}
    <3>1. position' - 2 = p + m - 1
      BY <1>4, <1>8, Zenon
    <3>2. k \in p .. p + m - 1
      BY <1>1, <3>1
    <3> QED  BY <1>5, <1>7, <3>2
  <2> QED  BY <1>4, <2>2, <2>3, <2>4 DEF Visits
<1>10. nodes'[position' - 1].kind = "END" /\ ~(position' <= Len(nodes'))
  <2>1. position' - 1 = p + m
    BY <1>4, <1>8, Zenon
  <2>2. ~(position' <= p + m)
    BY <1>4, <1>8, Zenon
  <2> QED  BY <1>4, <1>5, <1>6, <2>1, <2>2
<1>11. IsStarted(walk[position])
  BY <1>4, HereIs
<1> QED  BY <1>4, <1>9, <1>10, <1>11, LaidAtEnd

\* Every line that is visited comes to lie apart from those before it.
LEMMA VisitLaid ==
  ASSUME NEW walk \in [Nat -> Spot], FirstPass(walk), Laid(walk), VisitNode, phase' = "tables",
         NEW later \in [Nat -> Spot], FirstPass(later)'
  PROVE  Laid(later)'
<1>1. position <= Len(nodes)
  BY DEF VisitNode
<1>2. PICK table, solved :
        /\ table = SymbolsAt(Node) /\ solved = Solve(Node.expression, table, FALSE)
        /\ \/ Reject
           \/ /\ Accepted(Node, solved)
              /\ \/ BuildStart(solved)
                 \/ BuildCode(table)
                 \/ BuildLiteralUser(table, LiteralBytes(Node, solved))
                 \/ BuildReserve(table, solved.value)
                 \/ BuildEqu(solved)
                 \/ BuildOrg(solved.value)
                 \/ BuildUse
                 \/ BuildLtorg
                 \/ BuildEnd(solved.value)
                 \/ BuildDirective
  BY DEF VisitNode
<1>3. IsLine(Node) /\ LiteralsAre(symbol_table)
  BY <1>1, VisitedIs
<1>4. ~Reject
  BY DEF Reject
<1>5. CASE BuildStart(solved)
  BY <1>1, <1>5, StartLaid
<1>6. CASE BuildCode(table)
  <2>1. /\ nodes' = nodes /\ position' = position + 0 + 1 /\ literal_table' = literal_table
        /\ UNCHANGED <<segments, segment_start, start_address>>
        /\ Node.kind \notin {"START", "ORG", "USE", "END"}
    BY <1>6 DEF BuildCode, Advance
  <2> QED  BY <1>1, <2>1, OneLineUnchanged, OneLineLaid
<1>7. CASE BuildLiteralUser(table, LiteralBytes(Node, solved))
  <2>1. PICK bytes, new : bytes = LiteralBytes(Node, solved)
                          /\ new = [literal_id |-> LiteralId(LiteralBytes(Node, solved))]
    OBVIOUS
  <2>2. /\ nodes' = [nodes EXCEPT ![position] = With(Node, [literal_id |-> LiteralId(bytes)])]
        /\ position' = position + 0 + 1 /\ Node.kind = "FS34"
        /\ literal_table' = IF LiteralId(bytes) < Len(literal_table) THEN literal_table
                            ELSE Append(literal_table, bytes)
        /\ UNCHANGED <<segments, segment_start, start_address>>
    BY <1>7, <2>1 DEF BuildLiteralUser, Advance, UsesLiteral, Node
  <2>3. \A k \in 1 .. Len(literal_table) : literal_table'[k] = literal_table[k]
    BY <1>3, <2>2, LiteralsStand
  <2>4. nodes' = [nodes EXCEPT ![position] = With(Node, new)]
    BY <2>1, <2>2
  <2>5. OneLine
    BY <1>1, <2>2, <2>3, <2>4, OneLineReplaced
  <2> QED  BY <1>1, <2>2, <2>5, OneLineLaid
<1>8. CASE BuildReserve(table, solved.value)
  <2>1. PICK new : new = [reservation_size |-> solved.value]
    OBVIOUS
  <2>2. /\ nodes' = [nodes EXCEPT ![position] = With(Node, [reservation_size |-> solved.value])]
        /\ position' = position + 0 + 1 /\ Node.kind = "RESERVE" /\ literal_table' = literal_table
        /\ UNCHANGED <<segments, segment_start, start_address>>
    BY <1>8 DEF BuildReserve, Advance, Node
  <2>3. nodes' = [nodes EXCEPT ![position] = With(Node, new)]
    BY <2>1, <2>2
  <2>4. OneLine
    BY <1>1, <2>2, <2>3, OneLineReplaced
  <2> QED  BY <1>1, <2>2, <2>4, OneLineLaid
<1>9. CASE BuildEqu(solved)
  <2>1. /\ nodes' = nodes /\ position' = position + 0 + 1 /\ literal_table' = literal_table
        /\ UNCHANGED <<segments, segment_start, start_address>>
        /\ Node.kind \notin {"START", "ORG", "USE", "END"}
    BY <1>9 DEF BuildEqu, Advance
  <2> QED  BY <1>1, <2>1, OneLineUnchanged, OneLineLaid
<1>10. CASE Accepted(Node, solved) /\ BuildOrg(solved.value)
  <2>1. Node.kind = "ORG"
    BY <1>10 DEF BuildOrg
  <2>2. SymbolsAt(Node) = symbol_table /\ IsTable(symbol_table)
    BY <1>1, <2>1, VisitedIs DEF SymbolsAt
  <2>3. solved.value \in Int
    <3>1. Node.expression \in Expression
      BY <1>3 DEF IsLine
    <3>2. Solve(Node.expression, table, FALSE).value \in Int
      BY <1>2, <2>2, <3>1, SolveIs
    <3> QED  BY <1>2, <3>2
  <2>4. OrgFits(solved)
    BY <1>10, <2>1, AcceptedIs
  <2>5. solved.value \in Nat /\ start_address <= solved.value
    <3>1. start_address \in Nat
      BY <1>1, VisitedIs
    <3> QED  BY <2>3, <2>4, <3>1 DEF OrgFits, Absolute, InLimits
  <2> QED  BY <1>1, <1>10, <2>5, OrgLaid
<1>11. CASE BuildUse
  BY <1>1, <1>11, UseLaid
<1>12. CASE BuildLtorg
  BY <1>1, <1>12, LtorgLaid
<1>13. CASE BuildEnd(solved.value)
  BY <1>1, <1>13, EndLaid
<1>14. CASE BuildDirective
  <2>1. /\ nodes' = nodes /\ position' = position + 0 + 1 /\ literal_table' = literal_table
        /\ UNCHANGED <<segments, segment_start, start_address>>
        /\ Node.kind \notin {"START", "ORG", "USE", "END"}
    BY <1>14 DEF BuildDirective, Advance
  <2> QED  BY <1>1, <2>1, OneLineUnchanged, OneLineLaid
<1> QED  BY <1>2, <1>4, <1>5, <1>6, <1>7, <1>8, <1>9, <1>10, <1>11, <1>12, <1>13, <1>14

-----------------------------------------------------------------------------
(*****************************************************************************)
(* The end of the first pass.  Each block lies behind those before it, the *)
(* lines of a block follow each other in it, and the sweep has found that  *)
(* no two segments intersect.                                              *)
(*****************************************************************************)
\* A level of a block only rises, and a line raises that of its own.
LEMMA LevelsStep ==
  ASSUME LiteralsAre(symbol_table), IsBlockTable(block_table), NEW node, IsNoted(node),
         NEW spot \in Spot, ~IsStarted(spot) => spot = Nowhere, IsInOrder(node.kind, spot),
         NEW next, next = After(node, spot), NEW block \in Nat
  PROVE  /\ Left(spot)[block] <= Left(next)[block]
         /\ Bytes(node) > 0 /\ spot.block = block =>
              spot.address + Bytes(node) <= Left(next)[block]
<1>1. PICK left, size : left = Left(spot) /\ size = Bytes(node)
  OBVIOUS
<1>2. left \in [Nat -> Nat] /\ size \in Nat
  BY <1>1, LeftIs, BytesIs
<1>3. /\ spot.block \in Int /\ spot.address \in Nat /\ spot.sizes \in [Nat -> Nat]
      /\ left[block] = IF spot.block = block THEN spot.address ELSE spot.sizes[block]
  BY <1>1 DEF Spot, Left
<1>4. left[block] \in Nat
  BY <1>2
<1>5. CASE node.kind = "START"
  <2>1. spot = Nowhere
    BY <1>5 DEF IsInOrder
  <2>2. next = [block |-> 0, address |-> 0, sizes |-> spot.sizes]
    BY <1>5 DEF After
  <2>3. spot.block = -2 /\ spot.sizes[block] = 0
    BY <2>1 DEF Nowhere
  <2>4. Left(next)[block] = 0
    <3>1. Left(next) = [spot.sizes EXCEPT ![0] = 0]
      BY <2>2 DEF Left
    <3> QED  BY <1>3, <2>3, <3>1
  <2>5. left[block] = 0 /\ spot.block # block
    BY <1>3, <2>3
  <2> QED  BY <1>1, <2>4, <2>5
<1>6. CASE node.kind = "ORG"
  <2>1. next.block = -1 /\ next.sizes = left
    BY <1>1, <1>6 DEF After
  <2>2. Left(next) = left
    BY <2>1 DEF Left
  <2>3. size = 0
    BY <1>1, <1>6 DEF Bytes
  <2> QED  BY <1>1, <1>4, <2>2, <2>3
<1>7. CASE node.kind = "USE"
  <2>1. PICK other : other = node.block_id
    OBVIOUS
  <2>2. other \in Nat
    BY <1>7, <2>1 DEF IsNoted, IsBlockTable
  <2>3. next.block = other /\ next.sizes = left /\ next.address = left[other]
    BY <1>1, <1>7, <2>1 DEF After
  <2>4. Left(next) = [left EXCEPT ![other] = left[other]]
    BY <2>2, <2>3 DEF Left
  <2>5. Left(next)[block] = left[block]
    BY <1>2, <2>2, <2>4
  <2>6. size = 0
    BY <1>1, <1>7 DEF Bytes
  <2> QED  BY <1>1, <1>4, <2>5, <2>6
<1>8. CASE node.kind \notin {"START", "ORG", "USE"}
  <2>1. next.block = spot.block /\ next.address = spot.address + size /\ next.sizes = spot.sizes
    BY <1>1, <1>8 DEF After
  <2>2. Left(next)[block] = IF spot.block = block THEN spot.address + size ELSE spot.sizes[block]
    <3>1. CASE spot.block >= 0
      <4>1. Left(next) = [spot.sizes EXCEPT ![spot.block] = spot.address + size]
        BY <2>1, <3>1 DEF Left
      <4>2. spot.block \in Nat
        BY <1>3, <3>1
      <4> QED  BY <1>3, <4>1, <4>2
    <3>2. CASE ~(spot.block >= 0)
      <4>1. Left(next) = spot.sizes
        BY <2>1, <3>2 DEF Left
      <4>2. spot.block # block
        BY <3>2
      <4> QED  BY <4>1, <4>2
    <3> QED  BY <3>1, <3>2
  <2>3. CASE spot.block = block
    <3>1. spot.address <= spot.address + size
      BY <1>2, <1>3
    <3> QED  BY <1>1, <1>2, <1>3, <2>2, <2>3, <3>1
  <2>4. CASE spot.block # block
    BY <1>1, <1>3, <1>4, <2>2, <2>4
  <2> QED  BY <2>3, <2>4
<1> QED  BY <1>5, <1>6, <1>7, <1>8

\* The level of a block, after some lines.
Level(walk, k, block) == Left(walk[k])[block]

\* From one line to the next.
LEMMA LevelsOn ==
  ASSUME NEW walk, NEW last \in Nat, Walked(walk, last), LiteralsAre(symbol_table),
         IsBlockTable(block_table), NEW k \in 1 .. last - 1, NEW block \in Nat
  PROVE  /\ Level(walk, k, block) <= Level(walk, k + 1, block)
         /\ Bytes(nodes[k]) > 0 /\ walk[k].block = block =>
              walk[k].address + Bytes(nodes[k]) <= Level(walk, k + 1, block)
<1>1. PICK spot, next, node : spot = walk[k] /\ next = walk[k + 1] /\ node = nodes[k]
  OBVIOUS
<1>2. k \in 1 .. last
  OBVIOUS
<1>3. spot \in Spot
  BY <1>1, <1>2, SpotIs
<1>4. /\ IsNoted(node) /\ next = After(node, spot) /\ IsInOrder(node.kind, spot)
      /\ ~IsStarted(spot) => spot = Nowhere
  BY <1>1, <1>2 DEF Walked
<1>5. /\ Left(spot)[block] <= Left(next)[block]
      /\ Bytes(node) > 0 /\ spot.block = block => spot.address + Bytes(node) <= Left(next)[block]
  BY <1>3, <1>4, LevelsStep
<1> QED  BY <1>1, <1>5 DEF Level

\* Levels are numbers.
LEMMA LevelIs ==
  ASSUME NEW walk, NEW last \in Nat, Walked(walk, last), NEW k \in 1 .. last, NEW block \in Nat
  PROVE  /\ Level(walk, k, block) \in Nat
         /\ walk[k].block = block => Level(walk, k, block) = walk[k].address
<1>1. PICK spot : spot = walk[k]
  OBVIOUS
<1>2. spot \in Spot
  BY <1>1, SpotIs
<1>3. Left(spot) \in [Nat -> Nat]
  BY <1>2, LeftIs
<1>4. spot.block = block => Left(spot)[block] = spot.address
  BY <1>2 DEF Spot, Left
<1> QED  BY <1>1, <1>3, <1>4 DEF Level

\* From one line to all those after it.
LEMMA LevelsGrow ==
  ASSUME NEW walk, NEW last \in Nat, Walked(walk, last), LiteralsAre(symbol_table),
         IsBlockTable(block_table), NEW k \in 1 .. last, NEW block \in Nat
  PROVE  \A m \in k .. last : Level(walk, k, block) <= Level(walk, m, block)
<1> DEFINE S == {i \in Nat : i <= last - k => Level(walk, k, block) <= Level(walk, k + i, block)}
<1>1. Level(walk, k, block) \in Nat
  BY LevelIs
<1>2. 0 \in S
  <2>1. k + 0 = k
    OBVIOUS
  <2> QED  BY <1>1, <2>1
<1>3. ASSUME NEW i \in Nat, i \in S PROVE i + 1 \in S
  <2> SUFFICES ASSUME i + 1 <= last - k
               PROVE  Level(walk, k, block) <= Level(walk, k + (i + 1), block)
    OBVIOUS
  <2>1. PICK m \in 1 .. last - 1 : m = k + i /\ m + 1 = k + (i + 1)
    OBVIOUS
  <2>2. Level(walk, k, block) <= Level(walk, m, block)
    <3>1. i <= last - k
      OBVIOUS
    <3> QED  BY <1>3, <2>1, <3>1
  <2>3. Level(walk, m, block) <= Level(walk, m + 1, block)
    BY LevelsOn
  <2>4. Level(walk, m, block) \in Nat /\ Level(walk, m + 1, block) \in Nat
    <3>1. m \in 1 .. last /\ m + 1 \in 1 .. last
      OBVIOUS
    <3> QED  BY <3>1, LevelIs
  <2>5. Level(walk, k, block) <= Level(walk, m + 1, block)
    BY <1>1, <2>2, <2>3, <2>4
  <2> QED  BY <2>1, <2>5
<1>4. Nat \subseteq S
  <2> HIDE DEF S
  <2> QED  BY <1>2, <1>3, Naturals
<1>5. ASSUME NEW m \in k .. last PROVE Level(walk, k, block) <= Level(walk, m, block)
  <2>1. PICK i \in Nat : i = m - k /\ k + i = m /\ i <= last - k
    OBVIOUS
  <2>2. i \in S
    BY <1>4
  <2> QED  BY <2>1, <2>2
<1> QED  BY <1>5

\* A line of a block ends where later ones are, or before.
LEMMA LevelsApart ==
  ASSUME NEW walk, NEW last \in Nat, Walked(walk, last), LiteralsAre(symbol_table),
         IsBlockTable(block_table), NEW k \in 1 .. last - 1, NEW block \in Nat,
         Bytes(nodes[k]) > 0, walk[k].block = block, NEW m \in k + 1 .. last
  PROVE  walk[k].address + Bytes(nodes[k]) <= Level(walk, m, block)
<1>1. PICK next, to : next = k + 1 /\ to = walk[k].address + Bytes(nodes[k])
  OBVIOUS
<1>2. next \in 1 .. last /\ k \in 1 .. last /\ m \in next .. last /\ m \in 1 .. last
  BY <1>1
<1>3. to <= Level(walk, next, block)
  BY <1>1, LevelsOn
<1>4. Level(walk, next, block) <= Level(walk, m, block)
  BY <1>2, LevelsGrow
<1>5. to \in Nat
  <2>1. walk[k].address \in Nat
    BY <1>2, SpotIs
  <2>2. IsNoted(nodes[k])
    BY DEF Walked
  <2>3. Bytes(nodes[k]) \in Nat
    BY <2>2, BytesIs
  <2> QED  BY <1>1, <2>1, <2>3
<1>6. Level(walk, next, block) \in Nat /\ Level(walk, m, block) \in Nat
  BY <1>2, LevelIs
<1>7. to <= Level(walk, m, block)
  BY <1>3, <1>4, <1>5, <1>6
<1> QED  BY <1>1, <1>7

\* The blocks come one after the other.
LEMMA StartsAre ==
  ASSUME IsBlockTable(block_table), start_address \in Nat,
         NEW n \in Nat, DOMAIN block_table = 0 .. n - 1
  PROVE  /\ OrderedStart(0) = start_address /\ BlocksEnd = OrderedStart(n)
         /\ \A block \in 0 .. n - 1 :
              /\ block_table[block].size \in Nat
              /\ OrderedStart(block + 1) = OrderedStart(block) + block_table[block].size
<1>1. OrderedStart(0) = start_address
  BY OrderedStartIs
<1>2. \A block \in 0 .. n - 1 : block_table[block].size \in Nat
  BY DEF IsBlockTable
<1>3. BlocksEnd = OrderedStart(n)
  <2>1. Cardinality(0 .. n - 1) = IF 0 > n - 1 THEN 0 ELSE (n - 1) - 0 + 1
    BY 0 \in Int, n - 1 \in Int, FS_Interval
  <2>2. Cardinality(DOMAIN block_table) = n
    BY <2>1
  <2> QED  BY <2>2 DEF BlocksEnd
<1>4. ASSUME NEW block \in 0 .. n - 1
      PROVE  OrderedStart(block + 1) = OrderedStart(block) + block_table[block].size
  <2>1. PICK E, fun : /\ E = 0 .. block - 1
                      /\ fun = [b \in 0 .. (block + 1) - 1 |-> block_table[b].size]
    OBVIOUS
  <2>2. block \in Nat /\ 0 .. (block + 1) - 1 = E \cup {block} /\ block \notin E
        /\ E \cup {block} \subseteq 0 .. n - 1
    BY <2>1
  <2>3. IsFiniteSet(E)
    <3>1. 0 \in Int /\ block - 1 \in Int
      BY <2>2
    <3> QED  BY <2>1, <3>1, FS_Interval
  <2>4. DOMAIN fun = E \cup {block}
    BY <2>1, <2>2
  <2>5. \A y \in DOMAIN fun : fun[y] = block_table[y].size /\ fun[y] \in Int
    BY <1>2, <2>1, <2>2, <2>4
  <2>6. SumFunction(fun) = SumFunction([y \in E |-> fun[y]]) + fun[block]
    BY <2>2, <2>3, <2>4, <2>5, SumNext
  <2>7. [y \in E |-> fun[y]] = [b \in 0 .. block - 1 |-> block_table[b].size]
    BY <2>1, <2>4, <2>5
  <2>8. fun[block] = block_table[block].size
    BY <2>4, <2>5
  <2>9. SumFunction([y \in E |-> fun[y]]) \in Int /\ fun[block] \in Int
    <3>1. PICK g : g = [y \in E |-> fun[y]]
      OBVIOUS
    <3>2. DOMAIN g = E /\ \A y \in DOMAIN g : g[y] \in Int
      BY <2>4, <2>5, <3>1
    <3>3. SumFunction(g) \in Int
      BY <2>3, <3>2, SumType
    <3> QED  BY <2>4, <2>5, <3>1, <3>3
  <2>10. OrderedStart(block + 1) = start_address + SumFunction(fun)
    BY <2>1 DEF OrderedStart
  <2>11. OrderedStart(block) = start_address + SumFunction([y \in E |-> fun[y]])
    BY <2>7 DEF OrderedStart
  <2> QED  BY <2>6, <2>8, <2>9, <2>10, <2>11
<1> QED  BY <1>1, <1>2, <1>3, <1>4

\* A block ends where later ones begin, or before.
LEMMA StartsGrow ==
  ASSUME IsBlockTable(block_table), start_address \in Nat,
         NEW n \in Nat, DOMAIN block_table = 0 .. n - 1, NEW first \in 0 .. n
  PROVE  OrderedStart(first) \in Nat
         /\ \A block \in first .. n : OrderedStart(first) <= OrderedStart(block)
<1>1. /\ OrderedStart(0) \in Nat
      /\ \A block \in 0 .. n - 1 :
           /\ block_table[block].size \in Nat
           /\ OrderedStart(block + 1) = OrderedStart(block) + block_table[block].size
  BY StartsAre
<1> DEFINE N == {i \in Nat : i <= n => OrderedStart(i) \in Nat}
<1>2. 0 \in N
  BY <1>1
<1>3. ASSUME NEW i \in Nat, i \in N PROVE i + 1 \in N
  <2> SUFFICES ASSUME i + 1 <= n PROVE OrderedStart(i + 1) \in Nat
    OBVIOUS
  <2>1. i \in 0 .. n - 1 /\ i <= n
    OBVIOUS
  <2>2. OrderedStart(i) \in Nat
    BY <1>3, <2>1
  <2> QED  BY <1>1, <2>1, <2>2
<1>4. Nat \subseteq N
  <2> HIDE DEF N
  <2> QED  BY <1>2, <1>3, Naturals
<1>5. ASSUME NEW i \in 0 .. n PROVE OrderedStart(i) \in Nat
  <2>1. i \in Nat /\ i <= n
    OBVIOUS
  <2>2. i \in N
    BY <1>4, <2>1
  <2> QED  BY <2>1, <2>2
<1> DEFINE S == {i \in Nat : first + i <= n => OrderedStart(first) <= OrderedStart(first + i)}
<1>6. 0 \in S
  <2>1. first + 0 = first /\ OrderedStart(first) \in Nat
    BY <1>5
  <2> QED  BY <2>1
<1>7. ASSUME NEW i \in Nat, i \in S PROVE i + 1 \in S
  <2> SUFFICES ASSUME first + (i + 1) <= n PROVE OrderedStart(first) <= OrderedStart(first + (i + 1))
    OBVIOUS
  <2>1. PICK b \in 0 .. n - 1 : b = first + i /\ b + 1 = first + (i + 1)
    OBVIOUS
  <2>2. OrderedStart(first) <= OrderedStart(b)
    <3>1. first + i <= n
      OBVIOUS
    <3> QED  BY <1>7, <2>1, <3>1
  <2>3. b \in 0 .. n /\ OrderedStart(first) \in Nat /\ OrderedStart(b) \in Nat
    BY <1>5
  <2>4. OrderedStart(first) <= OrderedStart(b + 1)
    <3>1. PICK x, y, size : x = OrderedStart(first) /\ y = OrderedStart(b)
                            /\ size = block_table[b].size
      OBVIOUS
    <3>2. OrderedStart(b + 1) = y + size /\ size \in Nat
      BY <1>1, <3>1
    <3>3. x <= y /\ x \in Nat /\ y \in Nat
      BY <2>2, <2>3, <3>1
    <3>4. x <= y + size
      BY <3>2, <3>3
    <3> QED  BY <3>1, <3>2, <3>4
  <2> QED  BY <2>1, <2>4
<1>8. Nat \subseteq S
  <2> HIDE DEF S, N
  <2> QED  BY <1>6, <1>7, Naturals
<1>9. ASSUME NEW block \in first .. n PROVE OrderedStart(first) <= OrderedStart(block)
  <2>1. PICK i \in Nat : i = block - first /\ first + i = block /\ first + i <= n
    OBVIOUS
  <2>2. i \in S
    BY <1>8
  <2> QED  BY <2>1, <2>2
<1> QED  BY <1>5, <1>9

\* The last of some addresses.
LEMMA LastOf ==
  ASSUME NEW n \in Nat, NEW f, \A k \in 1 .. n : f[k] \in Nat,
         NEW s, s = {f[k] : k \in 1 .. n} \cup {0}
  PROVE  Max(s) \in Nat /\ \A k \in 1 .. n : f[k] <= Max(s)
<1> DEFINE S == {i \in Nat : i <= n => \E m \in s : \A k \in 1 .. i : f[k] <= m}
<1>1. 0 \in S
  <2>1. 0 \in s /\ \A k \in 1 .. 0 : f[k] <= 0
    OBVIOUS
  <2> QED  BY <2>1
<1>2. \A x \in s : x \in Nat
  OBVIOUS
<1>3. ASSUME NEW i \in Nat, i \in S PROVE i + 1 \in S
  <2> SUFFICES ASSUME i + 1 <= n PROVE \E m \in s : \A k \in 1 .. i + 1 : f[k] <= m
    OBVIOUS
  <2>1. i <= n /\ i + 1 \in 1 .. n
    OBVIOUS
  <2>2. PICK m \in s : \A k \in 1 .. i : f[k] <= m
    BY <1>3, <2>1
  <2>3. PICK e : e = f[i + 1]
    OBVIOUS
  <2>4. e \in s /\ e \in Nat /\ m \in Nat
    BY <1>2, <2>1, <2>3
  <2>5. PICK top \in s : top \in Nat /\ m <= top /\ e <= top
    <3>1. CASE m <= e
      BY <2>4, <3>1
    <3>2. CASE ~(m <= e)
      BY <2>4, <3>2
    <3> QED  BY <3>1, <3>2
  <2>6. ASSUME NEW k \in 1 .. i + 1 PROVE f[k] <= top
    <3>1. CASE k = i + 1
      BY <2>3, <2>5, <3>1
    <3>2. CASE k # i + 1
      <4>1. k \in 1 .. i /\ k \in 1 .. n
        BY <2>1, <3>2
      <4>2. f[k] <= m /\ f[k] \in Nat
        BY <2>2, <4>1
      <4> QED  BY <2>4, <2>5, <4>2
    <3> QED  BY <3>1, <3>2
  <2> QED  BY <2>6
<1>4. Nat \subseteq S
  <2> HIDE DEF S
  <2> QED  BY <1>1, <1>3, Naturals
<1>5. PICK m \in s : \A k \in 1 .. n : f[k] <= m
  <2>1. n \in S
    BY <1>4
  <2> QED  BY <2>1
<1>6. m \in s /\ \A y \in s : m >= y
  <2>1. m \in Nat
    BY <1>2
  <2> QED  BY <1>2, <1>5, <2>1
<1>7. PICK top : top = Max(s)
  OBVIOUS
<1>8. top \in s /\ \A y \in s : top >= y
  <2>1. top = CHOOSE x \in s : \A y \in s : x >= y
    BY <1>7 DEF Max
  <2> QED  BY <1>6, <2>1
<1>9. ASSUME NEW k \in 1 .. n PROVE f[k] <= top
  <2>1. f[k] \in s /\ f[k] \in Nat /\ top \in Nat
    BY <1>2, <1>8
  <2>2. top >= f[k]
    BY <1>8, <2>1
  <2> QED  BY <2>1, <2>2
<1> QED  BY <1>2, <1>7, <1>8, <1>9

\* The address of a spot with the blocks in order, which AddressOf is once the pass has ended.
Settled(spot) ==
  IF spot.block = -1 THEN spot.address ELSE OrderedStart(spot.block) + spot.address

\* What the pass has found when it has come to its end.
AtTheEnd(walk, last, blocks) ==
  /\ walk \in [Nat -> Spot] /\ last \in Nat /\ last = Len(nodes) + 1 /\ position = last
  /\ Walked(walk, last) /\ LiteralsAre(symbol_table)
  /\ IsBlockTable(block_table) /\ blocks \in Nat \ {0} /\ DOMAIN block_table = 0 .. blocks - 1
  /\ start_address \in Nat
  /\ \A block \in 0 .. blocks - 1 : block_table[block].size = Level(walk, last, block)
  /\ IsList(segments) /\ Parted(Spans(walk, last), segments, {}, start_address)

\* The first pass finds it there.
LEMMA AtTheEndIs ==
  ASSUME NEW walk \in [Nat -> Spot], FirstPass(walk), Laid(walk), ~(position <= Len(nodes))
  PROVE  \E last, blocks : AtTheEnd(walk, last, blocks)
<1>1. PICK last : last = position
  OBVIOUS
<1>2. Len(nodes) \in Nat /\ last \in Nat /\ last = Len(nodes) + 1
  <2>1. Len(nodes) \in Nat /\ position \in 1 .. Len(nodes) + 1
    BY ListIs DEF FirstPass
  <2> QED  BY <1>1, <2>1
<1>3. /\ Walked(walk, last) /\ LiteralsAre(symbol_table) /\ IsBlockTable(block_table)
      /\ start_address \in Nat
  BY <1>1 DEF FirstPass
<1>4. PICK blocks \in Nat \ {0} : DOMAIN block_table = 0 .. blocks - 1
  BY <1>3 DEF IsBlockTable
<1>5. /\ IsList(segments) /\ Parted(Spans(walk, last), segments, OpenSegments(walk), start_address)
      /\ \A block \in DOMAIN block_table : block_table[block].size = Left(walk[position])[block]
  BY <1>1 DEF Laid
<1>6. OpenSegments(walk) = {}
  BY DEF OpenSegments
<1>7. \A block \in 0 .. blocks - 1 : block_table[block].size = Level(walk, last, block)
  BY <1>1, <1>4, <1>5 DEF Level
<1>8. Parted(Spans(walk, last), segments, {}, start_address)
  BY <1>5, <1>6
<1>9. AtTheEnd(walk, last, blocks)
  BY <1>1, <1>2, <1>3, <1>4, <1>5, <1>7, <1>8, Zenon DEF AtTheEnd
<1> QED  BY <1>9

\* The segments with that of all blocks.
LEMMA AllSegmentsAre ==
  ASSUME NEW walk, NEW last, NEW blocks, AtTheEnd(walk, last, blocks), NEW seg, seg = AllSegments,
         NEW n, n = Len(segments)
  PROVE  /\ n \in Nat /\ Len(seg) = n + 1 /\ DOMAIN seg = 1 .. n + 1 /\ IsSegments(seg, n + 1)
         /\ \A k \in 1 .. n : seg[k] = segments[k]
         /\ seg[n + 1][1] = start_address /\ seg[n + 1][2] = BlocksEnd
         /\ \A k \in 1 .. n + 1 : start_address <= seg[k][1]
<1>1. IsList(segments) /\ DOMAIN segments = 1 .. n /\ n \in Nat /\ start_address \in Nat
  BY ListIs DEF AtTheEnd
<1>2. PICK whole : whole = <<start_address, BlocksEnd>>
  OBVIOUS
<1>3. seg = Append(segments, whole)
  BY <1>2 DEF AllSegments
<1>4. /\ IsList(seg) /\ Len(seg) = n + 1 /\ seg[n + 1] = whole
      /\ \A k \in 1 .. n : seg[k] = segments[k]
  BY <1>1, <1>3, AppendIs
<1>5. DOMAIN seg = 1 .. n + 1
  BY <1>4, ListIs
<1>6. start_address <= BlocksEnd /\ BlocksEnd \in Nat
  <2>1. /\ IsBlockTable(block_table) /\ blocks \in Nat /\ DOMAIN block_table = 0 .. blocks - 1
    BY DEF AtTheEnd
  <2>2. OrderedStart(0) = start_address /\ BlocksEnd = OrderedStart(blocks)
    BY <1>1, <2>1, StartsAre
  <2>3. 0 \in 0 .. blocks /\ blocks \in 0 .. blocks
    BY <2>1
  <2>4. OrderedStart(0) <= OrderedStart(blocks) /\ OrderedStart(blocks) \in Nat
    BY <1>1, <2>1, <2>3, StartsGrow
  <2> QED  BY <2>2, <2>4
<1>7. ASSUME NEW k \in 1 .. n + 1
      PROVE  /\ seg[k][1] \in Nat /\ seg[k][2] \in Nat /\ seg[k][1] <= seg[k][2]
             /\ start_address <= seg[k][1]
  <2>1. CASE k = n + 1
    BY <1>1, <1>2, <1>4, <1>6, <2>1
  <2>2. CASE k # n + 1
    <3>1. k \in 1 .. n /\ seg[k] = segments[k] /\ k \in DOMAIN segments
      BY <1>1, <1>4, <2>2
    <3>2. IsSegment(segments[k], start_address)
      BY <3>1 DEF AtTheEnd, Parted
    <3> QED  BY <3>1, <3>2 DEF IsSegment
  <2> QED  BY <2>1, <2>2
<1> QED  BY <1>1, <1>2, <1>4, <1>5, <1>7 DEF IsSegments

\* The program ends with the last segment.
LEMMA LastAddressIs ==
  ASSUME NEW walk, NEW last, NEW blocks, AtTheEnd(walk, last, blocks), NEW seg, seg = AllSegments
  PROVE  LastAddress \in Nat /\ \A k \in 1 .. Len(seg) : seg[k][2] <= LastAddress
<1>1. PICK n : n = Len(seg)
  OBVIOUS
<1>2. n \in Nat /\ DOMAIN seg = 1 .. n /\ \A k \in 1 .. n : seg[k][2] \in Nat
  <2>1. PICK m : m = Len(segments)
    OBVIOUS
  <2>2. m \in Nat /\ Len(seg) = m + 1 /\ DOMAIN seg = 1 .. m + 1 /\ IsSegments(seg, m + 1)
    BY <2>1, AllSegmentsAre
  <2> QED  BY <1>1, <2>2 DEF IsSegments
<1>3. PICK f : f = [k \in 1 .. n |-> seg[k][2]]
  OBVIOUS
<1>4. PICK s : s = {f[k] : k \in 1 .. n} \cup {0}
  OBVIOUS
<1>5. s = {segment[2] : segment \in ToSet(AllSegments)} \cup {0}
  <2>1. ToSet(seg) = {seg[k] : k \in 1 .. n}
    BY <1>2 DEF ToSet
  <2> QED  BY <1>3, <1>4, <2>1
<1>6. LastAddress = Max(s)
  BY <1>5 DEF LastAddress
<1>7. \A k \in 1 .. n : f[k] = seg[k][2]
  BY <1>3
<1>8. \A k \in 1 .. n : f[k] \in Nat
  BY <1>2, <1>7
<1>9. Max(s) \in Nat /\ \A k \in 1 .. n : f[k] <= Max(s)
  BY <1>2, <1>4, <1>8, LastOf
<1> QED  BY <1>1, <1>6, <1>7, <1>9

\* A line that takes up addresses is in a block or in a segment.
LEMMA LineIsPlaced ==
  ASSUME NEW walk, NEW last, NEW blocks, AtTheEnd(walk, last, blocks),
         NEW k \in 1 .. last - 1, Bytes(nodes[k]) > 0
  PROVE  /\ walk[k].block \in {-1} \cup 0 .. blocks - 1
         /\ walk[k].address \in Nat /\ Bytes(nodes[k]) \in Nat
<1>1. k \in 1 .. last /\ last \in Nat
  BY DEF AtTheEnd
<1>2. Walked(walk, last) /\ LiteralsAre(symbol_table) /\ DOMAIN block_table = 0 .. blocks - 1
  BY DEF AtTheEnd
<1>3. /\ IsNoted(nodes[k]) /\ IsInOrder(nodes[k].kind, walk[k])
      /\ walk[k].block \in {-2, -1} \cup DOMAIN block_table
  BY <1>1, <1>2 DEF Walked
<1>4. walk[k].address \in Nat /\ Bytes(nodes[k]) \in Nat
  BY <1>1, <1>2, <1>3, SpotIs, BytesIs
<1>5. IsStarted(walk[k])
  <2>1. nodes[k].kind \notin {"START", "EMPTY"}
    BY DEF Bytes
  <2> QED  BY <1>3, <2>1 DEF IsInOrder
<1> QED  BY <1>2, <1>3, <1>4, <1>5 DEF IsStarted

\* Lines of blocks are in the segment of all blocks, and apart from each other.
LEMMA BlockLines ==
  ASSUME NEW walk, NEW last, NEW blocks, AtTheEnd(walk, last, blocks),
         NEW k \in 1 .. last - 1, Bytes(nodes[k]) > 0, NEW block \in 0 .. blocks - 1,
         walk[k].block = block
  PROVE  /\ Settled(walk[k]) \in Nat
         /\ start_address <= OrderedStart(block) /\ OrderedStart(block) <= Settled(walk[k])
         /\ Settled(walk[k]) + Bytes(nodes[k]) <= OrderedStart(block + 1)
         /\ OrderedStart(block + 1) <= BlocksEnd
<1>1. /\ Walked(walk, last) /\ LiteralsAre(symbol_table) /\ IsBlockTable(block_table) /\ last \in Nat
      /\ blocks \in Nat /\ DOMAIN block_table = 0 .. blocks - 1 /\ start_address \in Nat
      /\ block_table[block].size = Level(walk, last, block)
  BY DEF AtTheEnd
<1>2. PICK from, address, bytes, size :
        /\ from = OrderedStart(block) /\ address = walk[k].address /\ bytes = Bytes(nodes[k])
        /\ size = block_table[block].size
  OBVIOUS
<1>3. address \in Nat /\ bytes \in Nat
  BY <1>2, LineIsPlaced
<1>4. size \in Nat /\ OrderedStart(block + 1) = from + size
      /\ OrderedStart(0) = start_address /\ BlocksEnd = OrderedStart(blocks)
  BY <1>1, <1>2, StartsAre
<1>5. address + bytes <= size
  <2>1. last \in k + 1 .. last /\ block \in Nat
    BY <1>1
  <2> QED  BY <1>1, <1>2, <2>1, LevelsApart
<1>6. from \in Nat /\ start_address <= from /\ OrderedStart(block + 1) <= BlocksEnd
  <2>1. 0 \in 0 .. blocks /\ block \in 0 .. blocks /\ block + 1 \in 0 .. blocks
        /\ blocks \in block + 1 .. blocks
    BY <1>1
  <2>2. OrderedStart(0) <= OrderedStart(block) /\ OrderedStart(block) \in Nat
    BY <1>1, <2>1, StartsGrow
  <2>3. OrderedStart(block + 1) <= OrderedStart(blocks)
    BY <1>1, <2>1, StartsGrow
  <2> QED  BY <1>2, <1>4, <2>2, <2>3
<1>7. Settled(walk[k]) = from + address
  <2>1. block # -1
    OBVIOUS
  <2> QED  BY <1>2, <2>1 DEF Settled
<1>8. from + address \in Nat /\ from <= from + address /\ (from + address) + bytes <= from + size
  BY <1>3, <1>4, <1>5, <1>6
<1> QED  BY <1>2, <1>4, <1>6, <1>7, <1>8

\* Two lines of blocks.
LEMMA BlockLinesApart ==
  ASSUME NEW walk, NEW last, NEW blocks, AtTheEnd(walk, last, blocks),
         NEW j \in 1 .. last - 1, Bytes(nodes[j]) > 0, walk[j].block \in 0 .. blocks - 1,
         NEW k \in 1 .. last - 1, Bytes(nodes[k]) > 0, walk[k].block \in 0 .. blocks - 1, j < k
  PROVE  \/ Settled(walk[j]) + Bytes(nodes[j]) <= Settled(walk[k])
         \/ Settled(walk[k]) + Bytes(nodes[k]) <= Settled(walk[j])
<1>1. PICK b \in 0 .. blocks - 1, c \in 0 .. blocks - 1 : b = walk[j].block /\ c = walk[k].block
  OBVIOUS
<1>2. PICK x, m, y, n : /\ x = Settled(walk[j]) /\ m = Bytes(nodes[j])
                        /\ y = Settled(walk[k]) /\ n = Bytes(nodes[k])
  OBVIOUS
<1>3. m \in Nat /\ n \in Nat /\ walk[j].address \in Nat /\ walk[k].address \in Nat
  BY <1>2, LineIsPlaced
<1>4. x \in Nat /\ y \in Nat /\ OrderedStart(b) <= x /\ OrderedStart(c) <= y
      /\ x + m <= OrderedStart(b + 1) /\ y + n <= OrderedStart(c + 1)
  BY <1>1, <1>2, BlockLines
<1>5. /\ Walked(walk, last) /\ LiteralsAre(symbol_table) /\ IsBlockTable(block_table) /\ last \in Nat
      /\ blocks \in Nat /\ DOMAIN block_table = 0 .. blocks - 1 /\ start_address \in Nat
  BY DEF AtTheEnd
<1>6. /\ OrderedStart(b) \in Nat /\ OrderedStart(c) \in Nat
      /\ OrderedStart(b + 1) \in Nat /\ OrderedStart(c + 1) \in Nat
      /\ b < c => OrderedStart(b + 1) <= OrderedStart(c)
      /\ c < b => OrderedStart(c + 1) <= OrderedStart(b)
  <2>1. b \in 0 .. blocks /\ c \in 0 .. blocks /\ b + 1 \in 0 .. blocks /\ c + 1 \in 0 .. blocks
    BY <1>5
  <2>2. /\ OrderedStart(b + 1) \in Nat
        /\ \A block \in b + 1 .. blocks : OrderedStart(b + 1) <= OrderedStart(block)
    BY <1>5, <2>1, StartsGrow
  <2>3. /\ OrderedStart(c + 1) \in Nat
        /\ \A block \in c + 1 .. blocks : OrderedStart(c + 1) <= OrderedStart(block)
    BY <1>5, <2>1, StartsGrow
  <2>4. OrderedStart(b) \in Nat /\ OrderedStart(c) \in Nat
    BY <1>5, <2>1, StartsGrow
  <2>5. (b < c => c \in b + 1 .. blocks) /\ (c < b => b \in c + 1 .. blocks)
    BY <1>5
  <2> QED  BY <2>2, <2>3, <2>4, <2>5
<1>7. CASE b < c
  <2>1. x + m <= y
    BY <1>3, <1>4, <1>6, <1>7
  <2> QED  BY <1>2, <2>1
<1>8. CASE c < b
  <2>1. y + n <= x
    BY <1>3, <1>4, <1>6, <1>8
  <2> QED  BY <1>2, <2>1
<1>9. CASE b = c
  <2>1. k \in j + 1 .. last /\ b \in Nat /\ k \in 1 .. last
    BY <1>5
  <2>2. walk[j].address + m <= Level(walk, k, b)
    BY <1>1, <1>2, <1>5, <2>1, LevelsApart
  <2>3. Level(walk, k, b) = walk[k].address
    BY <1>1, <1>5, <1>9, <2>1, LevelIs
  <2>4. PICK from, p, q : from = OrderedStart(b) /\ p = walk[j].address /\ q = walk[k].address
    OBVIOUS
  <2>5. x = from + p /\ y = from + q
    <3>1. b # -1
      OBVIOUS
    <3> QED  BY <1>1, <1>2, <1>9, <2>4, <3>1 DEF Settled
  <2>6. p \in Nat /\ q \in Nat /\ p + m <= q /\ from \in Nat
    BY <1>3, <1>6, <2>2, <2>3, <2>4
  <2>7. x + m <= y
    BY <1>3, <2>5, <2>6
  <2> QED  BY <1>2, <2>7
<1> QED  BY <1>7, <1>8, <1>9

\* The addresses of a line are in a segment.
LiesIn(walk, k, segment) ==
  segment[1] <= Settled(walk[k]) /\ Settled(walk[k]) + Bytes(nodes[k]) <= segment[2]

\* A line outside of the blocks is in a segment that is closed.
LEMMA OutsideLine ==
  ASSUME NEW walk, NEW last, NEW blocks, AtTheEnd(walk, last, blocks),
         NEW k \in 1 .. last - 1, Bytes(nodes[k]) > 0, walk[k].block = -1,
         NEW span, span = Spans(walk, last)[k], NEW segment, Holds(segment, span)
  PROVE  LiesIn(walk, k, segment)
<1>1. span.first = walk[k].address /\ span.next = walk[k].address + Bytes(nodes[k])
  BY DEF Spans
<1>2. Settled(walk[k]) = walk[k].address
  BY DEF Settled
<1> QED  BY <1>1, <1>2 DEF Holds, LiesIn

\* Every line is in one of the segments.
LEMMA LineWithin ==
  ASSUME NEW walk, NEW last, NEW blocks, AtTheEnd(walk, last, blocks),
         NEW k \in 1 .. last - 1, Bytes(nodes[k]) > 0, NEW seg, seg = AllSegments
  PROVE  /\ Settled(walk[k]) \in Nat
         /\ \E s \in 1 .. Len(seg) : LiesIn(walk, k, seg[s])
<1>1. PICK n : n = Len(segments)
  OBVIOUS
<1>2. /\ n \in Nat /\ Len(seg) = n + 1 /\ \A s \in 1 .. n : seg[s] = segments[s]
      /\ seg[n + 1][1] = start_address /\ seg[n + 1][2] = BlocksEnd
  BY <1>1, AllSegmentsAre
<1>3. walk[k].block \in {-1} \cup 0 .. blocks - 1 /\ walk[k].address \in Nat
      /\ Bytes(nodes[k]) \in Nat
  BY LineIsPlaced
<1>4. CASE walk[k].block = -1
  <2>1. PICK spans : spans = Spans(walk, last)
    OBVIOUS
  <2>2. k \in DOMAIN spans /\ spans[k].outside
    BY <1>4, <2>1 DEF Spans
  <2>3. Parted(spans, segments, {}, start_address) /\ IsList(segments)
    BY <2>1 DEF AtTheEnd
  <2>4. PICK s \in DOMAIN segments : Holds(segments[s], spans[k])
    BY <2>2, <2>3 DEF Parted
  <2>5. s \in 1 .. n
    BY <1>1, <2>3, ListIs
  <2>6. LiesIn(walk, k, seg[s])
    BY <1>2, <1>4, <2>1, <2>4, <2>5, OutsideLine
  <2>7. s \in 1 .. Len(seg)
    BY <1>2, <2>5
  <2>8. Settled(walk[k]) \in Nat
    BY <1>3, <1>4 DEF Settled
  <2> QED  BY <2>6, <2>7, <2>8
<1>5. CASE walk[k].block # -1
  <2>1. PICK block \in 0 .. blocks - 1 : walk[k].block = block
    BY <1>3, <1>5
  <2>2. PICK x, m, from, to, first, end :
          /\ x = Settled(walk[k]) /\ m = Bytes(nodes[k]) /\ from = OrderedStart(block)
          /\ to = OrderedStart(block + 1) /\ first = start_address /\ end = BlocksEnd
    OBVIOUS
  <2>3. x \in Nat /\ first <= from /\ from <= x /\ x + m <= to /\ to <= end
    BY <2>1, <2>2, BlockLines
  <2>4. /\ IsBlockTable(block_table) /\ blocks \in Nat /\ DOMAIN block_table = 0 .. blocks - 1
        /\ first \in Nat /\ start_address \in Nat
    BY <2>2 DEF AtTheEnd
  <2>5. from \in Nat /\ to \in Nat /\ end \in Nat
    <3>1. block \in 0 .. blocks /\ block + 1 \in 0 .. blocks /\ blocks \in 0 .. blocks
      BY <2>4
    <3>2. BlocksEnd = OrderedStart(blocks)
      BY <2>4, StartsAre
    <3> QED  BY <2>2, <2>4, <3>1, <3>2, StartsGrow
  <2>6. first <= x /\ x + m <= end
    BY <1>3, <2>2, <2>3, <2>4, <2>5
  <2>7. LiesIn(walk, k, seg[n + 1])
    BY <1>2, <2>2, <2>6 DEF LiesIn
  <2>8. n + 1 \in 1 .. Len(seg)
    BY <1>2
  <2> QED  BY <2>2, <2>3, <2>7, <2>8
<1> QED  BY <1>4, <1>5

\* Lines in two segments lie apart, if the segments do not intersect.
LEMMA WithinApart ==
  ASSUME NEW walk, NEW last, NEW blocks, AtTheEnd(walk, last, blocks), ~Intersects,
         NEW seg, seg = AllSegments, NEW s \in 1 .. Len(seg), NEW t \in 1 .. Len(seg), s # t,
         NEW j \in 1 .. last - 1, Bytes(nodes[j]) > 0, LiesIn(walk, j, seg[s]),
         NEW k \in 1 .. last - 1, Bytes(nodes[k]) > 0, LiesIn(walk, k, seg[t])
  PROVE  \/ Settled(walk[j]) + Bytes(nodes[j]) <= Settled(walk[k])
         \/ Settled(walk[k]) + Bytes(nodes[k]) <= Settled(walk[j])
<1>1. PICK n : n = Len(seg)
  OBVIOUS
<1>2. n \in Nat /\ IsSegments(seg, n)
  <2>1. PICK m : m = Len(segments)
    OBVIOUS
  <2>2. m \in Nat /\ Len(seg) = m + 1 /\ IsSegments(seg, m + 1)
    BY <2>1, AllSegmentsAre
  <2> QED  BY <1>1, <2>2
<1>3. PICK x, m, y, l : /\ x = Settled(walk[j]) /\ m = Bytes(nodes[j])
                        /\ y = Settled(walk[k]) /\ l = Bytes(nodes[k])
  OBVIOUS
<1>4. x \in Nat /\ y \in Nat /\ m \in Nat /\ l \in Nat /\ m > 0 /\ l > 0
  BY <1>3, LineWithin, LineIsPlaced
<1>5. PICK a, b, c, d : a = seg[s][1] /\ b = seg[s][2] /\ c = seg[t][1] /\ d = seg[t][2]
  OBVIOUS
<1>6. a \in Nat /\ b \in Nat /\ c \in Nat /\ d \in Nat
  BY <1>1, <1>2, <1>5 DEF IsSegments
<1>7. a <= x /\ x + m <= b /\ c <= y /\ y + l <= d
  BY <1>3, <1>5 DEF LiesIn
<1>8. a < b /\ c < d
  BY <1>4, <1>6, <1>7
<1>9. seg[s][1] < seg[s][2] /\ seg[t][1] < seg[t][2] /\ s \in 1 .. n /\ t \in 1 .. n
  BY <1>1, <1>5, <1>8
<1>10. b <= c \/ d <= a
  BY <1>1, <1>2, <1>5, <1>9, SegmentsApart
<1>11. x + m <= y \/ y + l <= x
  BY <1>4, <1>6, <1>7, <1>10
<1> QED  BY <1>3, <1>11

\* Two lines lie apart.
LEMMA SettledApart ==
  ASSUME NEW walk, NEW last, NEW blocks, AtTheEnd(walk, last, blocks), ~Intersects,
         NEW j \in 1 .. last - 1, Bytes(nodes[j]) > 0,
         NEW k \in 1 .. last - 1, Bytes(nodes[k]) > 0, j < k
  PROVE  \/ Settled(walk[j]) + Bytes(nodes[j]) <= Settled(walk[k])
         \/ Settled(walk[k]) + Bytes(nodes[k]) <= Settled(walk[j])
<1>1. PICK n, seg, spans : n = Len(segments) /\ seg = AllSegments /\ spans = Spans(walk, last)
  OBVIOUS
<1>2. n \in Nat /\ Len(seg) = n + 1 /\ \A s \in 1 .. n : seg[s] = segments[s]
  BY <1>1, AllSegmentsAre
<1>3. Parted(spans, segments, {}, start_address) /\ IsList(segments)
  BY <1>1 DEF AtTheEnd
<1>4. DOMAIN segments = 1 .. n
  BY <1>1, <1>3, ListIs
<1>5. /\ walk[j].block \in {-1} \cup 0 .. blocks - 1 /\ walk[j].address \in Nat
      /\ walk[k].block \in {-1} \cup 0 .. blocks - 1 /\ walk[k].address \in Nat
  BY LineIsPlaced
<1>6. ASSUME NEW i \in {j, k}, walk[i].block = -1
      PROVE  /\ i \in DOMAIN spans /\ spans[i].outside
             /\ spans[i].first = Settled(walk[i])
             /\ spans[i].next = Settled(walk[i]) + Bytes(nodes[i])
             /\ \A s \in 1 .. n : Holds(segments[s], spans[i]) => LiesIn(walk, i, seg[s])
             /\ \E s \in 1 .. n : LiesIn(walk, i, seg[s])
  <2>1. i \in 1 .. last - 1 /\ Bytes(nodes[i]) > 0
    OBVIOUS
  <2>2. /\ i \in DOMAIN spans /\ spans[i].outside
        /\ spans[i].first = walk[i].address
        /\ spans[i].next = walk[i].address + Bytes(nodes[i])
    BY <1>1, <1>6, <2>1 DEF Spans
  <2>3. Settled(walk[i]) = walk[i].address
    BY <1>6 DEF Settled
  <2>4. ASSUME NEW s \in 1 .. n, Holds(segments[s], spans[i]) PROVE LiesIn(walk, i, seg[s])
    BY <1>1, <1>2, <1>6, <2>1, <2>4, OutsideLine
  <2>5. \E s \in DOMAIN segments : Holds(segments[s], spans[i])
    BY <1>3, <2>2 DEF Parted
  <2> QED  BY <1>4, <2>2, <2>3, <2>4, <2>5
<1>7. ASSUME NEW i \in {j, k}, walk[i].block # -1
      PROVE  LiesIn(walk, i, seg[n + 1])
  <2>1. PICK block \in 0 .. blocks - 1 : walk[i].block = block
    BY <1>5, <1>7
  <2>2. i \in 1 .. last - 1 /\ Bytes(nodes[i]) > 0
    OBVIOUS
  <2>3. PICK x, m, from, to, first, end :
          /\ x = Settled(walk[i]) /\ m = Bytes(nodes[i]) /\ from = OrderedStart(block)
          /\ to = OrderedStart(block + 1) /\ first = start_address /\ end = BlocksEnd
    OBVIOUS
  <2>4. x \in Nat /\ first <= from /\ from <= x /\ x + m <= to /\ to <= end
    BY <2>1, <2>2, <2>3, BlockLines
  <2>5. /\ IsBlockTable(block_table) /\ blocks \in Nat /\ DOMAIN block_table = 0 .. blocks - 1
        /\ first \in Nat /\ start_address \in Nat
    BY <2>3 DEF AtTheEnd
  <2>6. from \in Nat /\ to \in Nat /\ end \in Nat /\ m \in Nat
    <3>1. block \in 0 .. blocks /\ block + 1 \in 0 .. blocks /\ blocks \in 0 .. blocks
      BY <2>5
    <3>2. BlocksEnd = OrderedStart(blocks)
      BY <2>5, StartsAre
    <3>3. m \in Nat
      BY <2>2, <2>3, LineIsPlaced
    <3> QED  BY <2>3, <2>5, <3>1, <3>2, <3>3, StartsGrow
  <2>7. first <= x /\ x + m <= end
    BY <2>4, <2>5, <2>6
  <2>8. seg[n + 1][1] = first /\ seg[n + 1][2] = end
    BY <1>1, <2>3, AllSegmentsAre
  <2> QED  BY <2>3, <2>7, <2>8 DEF LiesIn
<1>8. n + 1 \in 1 .. Len(seg) /\ \A s \in 1 .. n : s \in 1 .. Len(seg) /\ s # n + 1
  BY <1>2
<1>9. CASE walk[j].block = -1 /\ walk[k].block = -1
  <2>1. \/ spans[j].next <= spans[k].first
        \/ \E s, t \in DOMAIN segments :
             s # t /\ Holds(segments[s], spans[j]) /\ Holds(segments[t], spans[k])
    <3>1. /\ j \in DOMAIN spans /\ k \in DOMAIN spans /\ spans[j].outside /\ spans[k].outside
      BY <1>6, <1>9
    <3> QED  BY <1>3, <3>1 DEF Parted
  <2>2. CASE spans[j].next <= spans[k].first
    BY <1>6, <1>9, <2>2
  <2>3. ASSUME NEW s \in DOMAIN segments, NEW t \in DOMAIN segments, s # t,
               Holds(segments[s], spans[j]), Holds(segments[t], spans[k])
        PROVE  \/ Settled(walk[j]) + Bytes(nodes[j]) <= Settled(walk[k])
               \/ Settled(walk[k]) + Bytes(nodes[k]) <= Settled(walk[j])
    <3>1. LiesIn(walk, j, seg[s]) /\ LiesIn(walk, k, seg[t])
      BY <1>4, <1>6, <1>9, <2>3
    <3>2. s \in 1 .. Len(seg) /\ t \in 1 .. Len(seg)
      BY <1>4, <1>8
    <3> QED  BY <1>1, <2>3, <3>1, <3>2, WithinApart
  <2> QED  BY <2>1, <2>2, <2>3
<1>10. CASE walk[j].block = -1 /\ walk[k].block # -1
  <2>1. PICK s \in 1 .. n : LiesIn(walk, j, seg[s])
    BY <1>6, <1>10
  <2>2. LiesIn(walk, k, seg[n + 1])
    BY <1>7, <1>10
  <2> QED  BY <1>1, <1>8, <2>1, <2>2, WithinApart
<1>11. CASE walk[j].block # -1 /\ walk[k].block = -1
  <2>1. PICK s \in 1 .. n : LiesIn(walk, k, seg[s])
    BY <1>6, <1>11
  <2>2. LiesIn(walk, j, seg[n + 1])
    BY <1>7, <1>11
  <2>3. n + 1 # s
    BY <1>8
  <2> QED  BY <1>1, <1>8, <2>1, <2>2, <2>3, WithinApart
<1>12. CASE walk[j].block # -1 /\ walk[k].block # -1
  <2>1. walk[j].block \in 0 .. blocks - 1 /\ walk[k].block \in 0 .. blocks - 1
    BY <1>5, <1>12
  <2> QED  BY <2>1, BlockLinesApart
<1> QED  BY <1>9, <1>10, <1>11, <1>12

\* The pass ends with its lines apart.
LEMMA FinishLaid ==
  ASSUME NEW walk \in [Nat -> Spot], FirstPass(walk), Laid(walk), FinishTables, phase' = "begin"
  PROVE  LinesApart(walk)'
<1>1. /\ ~(position <= Len(nodes)) /\ ~Intersects
      /\ block_table' = OrderBlocks /\ end_address' = LastAddress
      /\ UNCHANGED <<nodes, literal_table, start_address>>
  <2>1. /\ position > Len(nodes) /\ TablesFit /\ block_table' = OrderBlocks
        /\ end_address' = LastAddress /\ UNCHANGED <<nodes, literal_table, start_address>>
    BY DEF FinishTables
  <2>2. position \in Nat /\ Len(nodes) \in Nat
    BY ListIs DEF FirstPass
  <2> QED  BY <2>1, <2>2 DEF TablesFit
<1>2. PICK last, blocks : AtTheEnd(walk, last, blocks)
  BY <1>1, AtTheEndIs
<1>3. PICK seg : seg = AllSegments
  OBVIOUS
<1>4. last \in Nat /\ last = Len(nodes) + 1 /\ DOMAIN block_table = 0 .. blocks - 1
      /\ IsBlockTable(block_table) /\ Len(nodes) \in Nat
  BY <1>2, ListIs DEF AtTheEnd, FirstPass
<1>5. ASSUME NEW k \in 1 .. Len(nodes)
      PROVE  /\ k \in 1 .. last - 1 /\ Bytes(nodes[k])' = Bytes(nodes[k])
             /\ Bytes(nodes[k]) > 0 =>
                  /\ AddressOf(walk[k])' = Settled(walk[k])
                  /\ Settled(walk[k]) \in Nat /\ Bytes(nodes[k]) \in Nat
                  /\ start_address <= Settled(walk[k])
                  /\ Settled(walk[k]) + Bytes(nodes[k]) <= LastAddress
  <2>1. k \in 1 .. last - 1
    BY <1>4
  <2>2. Bytes(nodes[k])' = Bytes(nodes[k])
    <3>1. PICK node : node = nodes[k]
      OBVIOUS
    <3>2. nodes'[k] = node /\ Bytes(node)' = Bytes(node)
      BY <1>1, <3>1, BytesStay
    <3> QED  BY <3>1, <3>2
  <2>3. ASSUME Bytes(nodes[k]) > 0
        PROVE  /\ AddressOf(walk[k])' = Settled(walk[k])
               /\ Settled(walk[k]) \in Nat /\ Bytes(nodes[k]) \in Nat
               /\ start_address <= Settled(walk[k])
               /\ Settled(walk[k]) + Bytes(nodes[k]) <= LastAddress
    <3>1. walk[k].block \in {-1} \cup 0 .. blocks - 1 /\ Bytes(nodes[k]) \in Nat
      BY <1>2, <2>1, <2>3, LineIsPlaced
    <3>2. IsStarted(walk[k])
      BY <3>1 DEF IsStarted
    <3>3. AddressOf(walk[k])' = Settled(walk[k])
      <4>1. CASE walk[k].block = -1
        BY <3>2, <4>1 DEF AddressOf, Settled
      <4>2. CASE walk[k].block # -1
        <5>1. PICK block \in DOMAIN block_table : block = walk[k].block
          BY <1>4, <3>1, <4>2
        <5>2. block_table'[block].start = OrderedStart(block)
          <6>1. block_table'[block] = [block_table[block] EXCEPT !.start = OrderedStart(block)]
            BY <1>1 DEF OrderBlocks
          <6>2. "start" \in DOMAIN block_table[block]
            BY <1>4 DEF IsBlockTable
          <6> QED  BY <6>1, <6>2
        <5> QED  BY <3>2, <4>2, <5>1, <5>2 DEF AddressOf, Settled
      <4> QED  BY <4>1, <4>2
    <3>4. PICK s \in 1 .. Len(seg) : LiesIn(walk, k, seg[s])
      BY <1>2, <1>3, <2>1, <2>3, LineWithin
    <3>5. Settled(walk[k]) \in Nat
      BY <1>2, <1>3, <2>1, <2>3, LineWithin
    <3>6. LastAddress \in Nat /\ seg[s][2] <= LastAddress
      BY <1>2, <1>3, LastAddressIs
    <3>7. seg[s][1] \in Nat /\ seg[s][2] \in Nat /\ start_address <= seg[s][1]
          /\ start_address \in Nat
      <4>1. PICK m : m = Len(segments)
        OBVIOUS
      <4>2. Len(seg) = m + 1 /\ IsSegments(seg, m + 1)
            /\ \A i \in 1 .. m + 1 : start_address <= seg[i][1]
        BY <1>2, <1>3, <4>1, AllSegmentsAre
      <4>3. start_address \in Nat
        BY <1>2 DEF AtTheEnd
      <4> QED  BY <4>2, <4>3 DEF IsSegments
    <3>8. PICK x, m, a, b, first, end :
            /\ x = Settled(walk[k]) /\ m = Bytes(nodes[k]) /\ a = seg[s][1] /\ b = seg[s][2]
            /\ first = start_address /\ end = LastAddress
      OBVIOUS
    <3>9. a <= x /\ x + m <= b
      BY <3>4, <3>8 DEF LiesIn
    <3>10. first <= x /\ x + m <= end
      BY <3>1, <3>5, <3>6, <3>7, <3>8, <3>9
    <3> QED  BY <3>1, <3>3, <3>5, <3>8, <3>10
  <2> QED  BY <2>1, <2>2, <2>3
<1>6. ASSUME NEW j \in 1 .. Len(nodes), Bytes(nodes[j]) > 0,
             NEW k \in 1 .. Len(nodes), j < k, Bytes(nodes[k]) > 0
      PROVE  \/ Settled(walk[j]) + Bytes(nodes[j]) <= Settled(walk[k])
             \/ Settled(walk[k]) + Bytes(nodes[k]) <= Settled(walk[j])
  <2>1. j \in 1 .. last - 1 /\ k \in 1 .. last - 1
    BY <1>5
  <2> QED  BY <1>1, <1>2, <1>6, <2>1, SettledApart
<1>7. ASSUME NEW j \in 1 .. Len(nodes'), Bytes(nodes[j])' > 0
      PROVE  /\ start_address' <= AddressOf(walk[j])'
             /\ AddressOf(walk[j])' + Bytes(nodes[j])' <= end_address'
             /\ \A k \in 1 .. Len(nodes') : j < k /\ Bytes(nodes[k])' > 0 =>
                  \/ AddressOf(walk[j])' + Bytes(nodes[j])' <= AddressOf(walk[k])'
                  \/ AddressOf(walk[k])' + Bytes(nodes[k])' <= AddressOf(walk[j])'
  <2>1. j \in 1 .. Len(nodes) /\ Bytes(nodes[j]) > 0
    BY <1>1, <1>5, <1>7
  <2>2. start_address' <= AddressOf(walk[j])' /\ AddressOf(walk[j])' + Bytes(nodes[j])' <= end_address'
    BY <1>1, <1>5, <2>1
  <2>3. ASSUME NEW k \in 1 .. Len(nodes'), j < k, Bytes(nodes[k])' > 0
        PROVE  \/ AddressOf(walk[j])' + Bytes(nodes[j])' <= AddressOf(walk[k])'
               \/ AddressOf(walk[k])' + Bytes(nodes[k])' <= AddressOf(walk[j])'
    <3>1. k \in 1 .. Len(nodes) /\ Bytes(nodes[k]) > 0
      BY <1>1, <1>5, <2>3
    <3> QED  BY <1>5, <1>6, <2>1, <2>3, <3>1
  <2> QED  BY <2>2, <2>3
<1> QED  BY <1>7 DEF LinesApart

-----------------------------------------------------------------------------
(***************************************************************************)
(* The second pass.                                                        *)
(***************************************************************************)
\* A walk depends on the lines and the sizes of their literals.
LEMMA WalkedStays ==
  ASSUME NEW walk, NEW last, Walked(walk, last),
         UNCHANGED <<nodes, block_table, literal_table, next_literal_id>>
  PROVE  Walked(walk, last)'
<1>1. ASSUME NEW k \in 1 .. last - 1
      PROVE  IsNoted(nodes[k])' /\ walk[k + 1] = After(nodes[k], walk[k])'
             /\ IsInOrder(nodes'[k].kind, walk[k])
  <2>1. PICK node, spot : node = nodes[k] /\ spot = walk[k]
    OBVIOUS
  <2>2. IsNoted(node) /\ walk[k + 1] = After(node, spot) /\ IsInOrder(node.kind, spot)
    BY <2>1 DEF Walked
  <2>3. After(node, spot)' = After(node, spot)
    BY AfterStays
  <2>4. IsNoted(node)'
    BY <2>2 DEF IsNoted
  <2> QED  BY <2>1, <2>2, <2>3, <2>4
<1>2. /\ walk \in [Nat -> Spot] /\ walk[1] = Nowhere
      /\ \A k \in 1 .. last :
           /\ walk[k].block \in {-2, -1} \cup DOMAIN block_table'
           /\ ~IsStarted(walk[k]) => walk[k] = Nowhere
  BY DEF Walked
<1> QED  BY <1>1, <1>2 DEF Walked

\* The lines and the tables stay as the first pass has left them.
LEMMA SettledStays ==
  ASSUME NEW walk, IsSettled(walk), UNCHANGED <<nodes, table_vars>>
  PROVE  IsSettled(walk)'
<1>1. UNCHANGED <<nodes, symbol_table, block_table, literal_table, next_literal_id>>
  BY DEF table_vars
<1>2. Walked(walk, Len(nodes) + 1)'
  <2>1. PICK last : last = Len(nodes) + 1
    OBVIOUS
  <2>2. Walked(walk, last)
    BY <2>1 DEF IsSettled
  <2>3. Walked(walk, last)'
    BY <1>1, <2>2, WalkedStays
  <2> QED  BY <1>1, <2>1, <2>3
<1>3. ASSUME NEW k \in 1 .. Len(nodes), Places(nodes[k])'
      PROVE  symbol_table'[SymbolOf(nodes[k])'].address = AddressOf(PlaceOf(walk, k))'
  <2>1. Places(nodes[k])
    BY <1>1, <1>3 DEF Places, IsLabelled
  <2>2. symbol_table[SymbolOf(nodes[k])].address = AddressOf(PlaceOf(walk, k))
    BY <2>1 DEF IsSettled
  <2>3. SymbolOf(nodes[k])' = SymbolOf(nodes[k])
    BY <1>1 DEF SymbolOf
  <2>4. AddressOf(PlaceOf(walk, k))' = AddressOf(PlaceOf(walk, k))
    BY <1>1 DEF AddressOf, PlaceOf
  <2> QED  BY <1>1, <2>2, <2>3, <2>4
<1>4. /\ IsList(nodes') /\ IsList(literal_table')
      /\ (next_literal_id \in 0 .. Len(literal_table))'
      /\ (\A k \in DOMAIN literal_table : Len(literal_table[k]) \in Nat)'
      /\ \E n \in Nat \ {0} : DOMAIN block_table' = 0 .. n - 1
      /\ \A block \in DOMAIN block_table' : block_table'[block].start \in Int
  BY <1>1 DEF IsSettled
<1> QED  BY <1>1, <1>2, <1>3, <1>4 DEF IsSettled

\* The line that the second pass is at.
LEMMA ReachedIs ==
  ASSUME NEW walk \in [Nat -> Spot], IsSettled(walk), IsRunning(walk), position <= Len(nodes),
         NEW spot, spot = walk[position]
  PROVE  /\ spot \in Spot /\ spot.block \in Int /\ spot.address \in Nat
         /\ spot.sizes \in [Nat -> Nat]
         /\ spot.block \in {-2, -1} \cup DOMAIN block_table
         /\ ~IsStarted(spot) => spot = Nowhere
         /\ IsNoted(Node) /\ IsInOrder(Node.kind, spot) /\ walk[position + 1] = After(Node, spot)
         /\ current_block = (IF IsStarted(spot) THEN spot.block ELSE 0)
         /\ current_address = AddressOf(spot) /\ BlocksGoOn(spot)
         /\ position \in 1 .. Len(nodes) /\ Len(nodes) \in Nat /\ position \in Nat
<1>1. position \in 1 .. Len(nodes) /\ Len(nodes) \in Nat /\ position \in Nat
  BY ListIs DEF IsSettled, IsRunning
<1>2. PICK last : last = Len(nodes) + 1
  OBVIOUS
<1>3. Walked(walk, last) /\ position \in 1 .. last /\ position \in 1 .. last - 1 /\ last \in Nat
  BY <1>1, <1>2 DEF IsSettled
<1>4. /\ walk[position] \in Spot /\ walk[position].block \in Int
      /\ walk[position].address \in Nat /\ walk[position].sizes \in [Nat -> Nat]
  BY <1>3, SpotIs
<1>5. /\ walk[position].block \in {-2, -1} \cup DOMAIN block_table
      /\ ~IsStarted(walk[position]) => walk[position] = Nowhere
      /\ IsNoted(nodes[position]) /\ IsInOrder(nodes[position].kind, walk[position])
      /\ walk[position + 1] = After(nodes[position], walk[position])
  BY <1>3 DEF Walked
<1>6. /\ current_block = (IF IsStarted(walk[position]) THEN walk[position].block ELSE 0)
      /\ current_address = AddressOf(walk[position]) /\ BlocksGoOn(walk[position])
  BY DEF IsRunning
<1> QED  BY <1>1, <1>4, <1>5, <1>6 DEF Node

\* The second pass has written a line and is at the next one.
LEMMA Continued ==
  ASSUME NEW walk \in [Nat -> Spot], IsSettled(walk), IsRunning(walk), position <= Len(nodes),
         UNCHANGED <<nodes, table_vars>>, position' = position + 1,
         NEW address, listing' = Append(listing, address),
         address = AddressOf(ListedAt(walk, position)),
         NEW next, next = walk[position + 1],
         current_block' = (IF IsStarted(next) THEN next.block ELSE 0),
         current_address' = AddressOf(next)', BlocksGoOn(next)'
  PROVE  IsSettled(walk)' /\ IsRunning(walk)'
<1>1. IsSettled(walk)'
  BY SettledStays
<1>2. position \in 1 .. Len(nodes) /\ Len(nodes) \in Nat /\ position \in Nat
  BY ReachedIs
<1>3. /\ IsList(listing) /\ Len(listing) = position - 1
      /\ \A k \in 1 .. Len(listing) : listing[k] = AddressOf(ListedAt(walk, k))
  BY DEF IsRunning
<1>4. /\ IsList(listing') /\ Len(listing') = position
      /\ \A k \in 1 .. position - 1 : listing'[k] = listing[k]
      /\ listing'[position] = address
  <2>1. /\ IsList(listing') /\ Len(listing') = Len(listing) + 1
        /\ \A k \in 1 .. Len(listing) : listing'[k] = listing[k]
        /\ listing'[Len(listing) + 1] = address
    BY <1>3, AppendIs
  <2> QED  BY <1>2, <1>3, <2>1
<1>5. ASSUME NEW k \in 1 .. position
      PROVE  listing'[k] = AddressOf(ListedAt(walk, k))'
  <2>1. AddressOf(ListedAt(walk, k))' = AddressOf(ListedAt(walk, k))
    BY DEF AddressOf, ListedAt, table_vars
  <2>2. CASE k = position
    BY <1>4, <2>1, <2>2
  <2>3. CASE k # position
    BY <1>2, <1>3, <1>4, <2>1, <2>3
  <2> QED  BY <2>2, <2>3
<1>6. position' \in 1 .. Len(nodes') + 1 /\ position' - 1 = position
  BY <1>2
<1>7. /\ current_block' = (IF IsStarted(walk[position']) THEN walk[position'].block ELSE 0)
      /\ current_address' = AddressOf(walk[position])'
      /\ BlocksGoOn(walk[position])'
  OBVIOUS
<1> QED  BY <1>1, <1>4, <1>5, <1>6, <1>7 DEF IsRunning

\* A line that leaves the second pass in its block.
LEMMA Along ==
  ASSUME NEW walk \in [Nat -> Spot], IsSettled(walk), IsRunning(walk), position <= Len(nodes),
         UNCHANGED <<nodes, table_vars, current_block, block_addresses>>, position' = position + 1,
         Node.kind \notin {"START", "ORG", "USE"}, NEW size, size = Bytes(Node), size \in Int,
         listing' = Append(listing, current_address), current_address' = current_address + size
  PROVE  IsSettled(walk)' /\ IsRunning(walk)'
<1>1. PICK spot, next : spot = walk[position] /\ next = walk[position + 1]
  OBVIOUS
<1>2. /\ spot \in Spot /\ spot.block \in Int /\ spot.address \in Nat
      /\ spot.sizes \in [Nat -> Nat]
      /\ spot.block \in {-2, -1} \cup DOMAIN block_table
      /\ ~IsStarted(spot) => spot = Nowhere
      /\ IsNoted(Node) /\ IsInOrder(Node.kind, spot) /\ next = After(Node, spot)
      /\ current_block = (IF IsStarted(spot) THEN spot.block ELSE 0)
      /\ current_address = AddressOf(spot) /\ BlocksGoOn(spot)
      /\ position \in 1 .. Len(nodes) /\ Len(nodes) \in Nat /\ position \in Nat
  BY <1>1, ReachedIs
<1>3. /\ next.block = spot.block /\ next.address = spot.address + size
      /\ next.sizes = spot.sizes
  BY <1>2 DEF After
<1>4. IsStarted(next) = IsStarted(spot)
  BY <1>3 DEF IsStarted
<1>5. current_block' = (IF IsStarted(next) THEN next.block ELSE 0)
  BY <1>2, <1>3, <1>4
<1>6. BlocksGoOn(next)'
  BY <1>2, <1>3 DEF BlocksGoOn, table_vars
<1>7. current_address' = AddressOf(next)'
  <2>1. block_table' = block_table
    BY DEF table_vars
  <2>2. CASE ~IsStarted(spot)
    <3>1. Node.kind = "EMPTY"
      BY <1>2, <2>2 DEF IsInOrder
    <3>2. size = 0
      BY <3>1 DEF Bytes
    <3> QED  BY <1>2, <1>4, <2>2, <3>2 DEF AddressOf
  <2>3. CASE IsStarted(spot) /\ spot.block = -1
    BY <1>2, <1>3, <1>4, <2>3 DEF AddressOf
  <2>4. CASE IsStarted(spot) /\ spot.block # -1
    <3>1. spot.block \in DOMAIN block_table
      BY <1>2, <2>4 DEF IsStarted
    <3>2. PICK start : start = block_table[spot.block].start
      OBVIOUS
    <3>3. start \in Int
      BY <3>1, <3>2 DEF IsSettled
    <3>4. current_address = start + spot.address
      BY <1>2, <2>4, <3>2 DEF AddressOf
    <3>5. AddressOf(next)' = start + (spot.address + size)
      BY <1>3, <1>4, <2>1, <2>4, <3>2 DEF AddressOf
    <3> QED  BY <1>2, <3>3, <3>4, <3>5
  <2> QED  BY <2>2, <2>3, <2>4
<1>8. ListedAt(walk, position) = spot
  BY <1>1 DEF ListedAt, Node
<1>9. UNCHANGED <<nodes, table_vars>>
  OBVIOUS
<1> QED  BY <1>1, <1>2, <1>5, <1>6, <1>7, <1>8, <1>9, Continued

\* ORG and USE: the pass leaves its block.
LEMMA LeftBlocksAre ==
  ASSUME NEW walk \in [Nat -> Spot], IsSettled(walk), IsRunning(walk), position <= Len(nodes),
         Node.kind \in {"ORG", "USE"}, NEW spot, spot = walk[position]
  PROVE  /\ Left(spot) \in [Nat -> Nat]
         /\ LeftBlocks = [block \in DOMAIN block_table |->
                            block_table[block].start + Left(spot)[block]]
<1>1. /\ spot \in Spot /\ spot.block \in Int /\ spot.address \in Nat
      /\ spot.sizes \in [Nat -> Nat]
      /\ spot.block \in {-2, -1} \cup DOMAIN block_table
      /\ IsInOrder(Node.kind, spot)
      /\ current_block = (IF IsStarted(spot) THEN spot.block ELSE 0)
      /\ current_address = AddressOf(spot) /\ BlocksGoOn(spot)
  BY ReachedIs
<1>2. IsStarted(spot)
  BY <1>1 DEF IsInOrder
<1>3. PICK n \in Nat \ {0} : DOMAIN block_table = 0 .. n - 1
  BY DEF IsSettled
<1>4. spot.block \in {-1} \cup 0 .. n - 1 /\ current_block = spot.block
  BY <1>1, <1>2, <1>3 DEF IsStarted
<1>5. CASE spot.block = -1
  <2>1. Left(spot) = spot.sizes
    BY <1>5 DEF Left
  <2>2. LeftBlocks = block_addresses
    BY <1>4, <1>5 DEF LeftBlocks
  <2> QED  BY <1>1, <2>1, <2>2 DEF BlocksGoOn
<1>6. CASE spot.block \in 0 .. n - 1
  <2>1. Left(spot) = [spot.sizes EXCEPT ![spot.block] = spot.address]
    BY <1>6 DEF Left
  <2>2. LeftBlocks = [block_addresses EXCEPT ![spot.block] = current_address]
    BY <1>4, <1>6 DEF LeftBlocks
  <2>3. current_address = block_table[spot.block].start + spot.address
    BY <1>1, <1>2, <1>6 DEF AddressOf
  <2>4. PICK f : f = [block \in DOMAIN block_table |-> block_table[block].start + Left(spot)[block]]
    OBVIOUS
  <2>5. ASSUME NEW block \in DOMAIN block_table
        PROVE  LeftBlocks[block] = f[block]
    <3>1. block \in Nat /\ f[block] = block_table[block].start + Left(spot)[block]
      BY <1>3, <2>4
    <3>2. block_addresses[block] = block_table[block].start + spot.sizes[block]
          /\ DOMAIN block_addresses = DOMAIN block_table
      BY <1>1 DEF BlocksGoOn
    <3>3. CASE block = spot.block
      BY <1>1, <2>1, <2>2, <2>3, <3>1, <3>2, <3>3
    <3>4. CASE block # spot.block
      BY <1>1, <2>1, <2>2, <3>1, <3>2, <3>4
    <3> QED  BY <3>3, <3>4
  <2>6. DOMAIN block_addresses = DOMAIN block_table
        /\ block_addresses = [block \in DOMAIN block_addresses |-> block_addresses[block]]
    BY <1>1 DEF BlocksGoOn
  <2>7. LeftBlocks = [block \in DOMAIN block_table |-> LeftBlocks[block]]
    BY <2>2, <2>6
  <2>8. f = [block \in DOMAIN block_table |-> f[block]]
    BY <2>4
  <2>9. LeftBlocks = f
    BY <2>5, <2>7, <2>8
  <2> QED  BY <1>1, <2>4, <2>9, LeftIs
<1> QED  BY <1>1, <1>4, <1>5, <1>6, LeftIs

\* The lines that leave the second pass in its block.
LEMMA GenerateAlongIs ==
  ASSUME NEW walk \in [Nat -> Spot], IsSettled(walk), IsRunning(walk),
         \/ GenerateInstruction \/ GenerateFS34 \/ GenerateInit \/ GenerateReserve
         \/ GenerateLiteral \/ GenerateBase \/ GenerateNothing
  PROVE  IsSettled(walk)' /\ IsRunning(walk)'
<1>1. position <= Len(nodes) /\ UNCHANGED <<nodes, table_vars, current_block, block_addresses>>
      /\ position' = position + 1 /\ Node.kind \notin {"START", "ORG", "USE"}
      /\ listing' = Append(listing, current_address)
  BY DEF GenerateInstruction, GenerateFS34, GenerateInit, GenerateReserve, GenerateLiteral,
         GenerateBase, GenerateNothing, Generating, Continue, List, Emit
<1>2. PICK size : size = Bytes(Node)
  OBVIOUS
<1>3. IsNoted(Node) /\ current_address = AddressOf(walk[position])
      /\ walk[position] \in Spot /\ walk[position].block \in {-2, -1} \cup DOMAIN block_table
      /\ walk[position].address \in Nat
  BY <1>1, ReachedIs
<1>4. current_address \in Int
  <2>1. PICK spot : spot = walk[position]
    OBVIOUS
  <2>2. CASE IsStarted(spot) /\ spot.block # -1
    <3>1. spot.block \in DOMAIN block_table
      BY <1>3, <2>1, <2>2 DEF IsStarted
    <3>2. block_table[spot.block].start \in Int
      BY <3>1 DEF IsSettled
    <3> QED  BY <1>3, <2>1, <2>2, <3>2 DEF AddressOf
  <2>3. CASE ~(IsStarted(spot) /\ spot.block # -1)
    BY <1>3, <2>1, <2>3 DEF AddressOf
  <2> QED  BY <2>2, <2>3
<1>5. size \in Int /\ current_address' = current_address + size
  <2>1. CASE GenerateInstruction \/ GenerateFS34 \/ GenerateInit
    <3>1. Node.kind \in {"F1", "F2", "FS34", "INIT"}
          /\ current_address' = current_address + NodeSize(Node)
      BY <2>1 DEF GenerateInstruction, GenerateFS34, GenerateInit, Generating, Continue
    <3>2. size = NodeSize(Node)
      BY <1>2, <3>1 DEF Bytes
    <3>3. NodeSize(Node) \in Nat
      BY <1>3, <3>1, NodeSizeIs DEF IsNoted
    <3> QED  BY <3>1, <3>2, <3>3
  <2>2. CASE GenerateReserve
    <3>1. Node.kind = "RESERVE"
          /\ current_address' = current_address + (IF Node.width = "WORD"
                                                   THEN 3 * Node.reservation_size
                                                   ELSE Node.reservation_size)
      BY <2>2 DEF GenerateReserve, Generating, Continue
    <3>2. Node.reservation_size \in Nat
      BY <1>3, <3>1 DEF IsNoted
    <3> QED  BY <1>2, <3>1, <3>2 DEF Bytes
  <2>3. CASE GenerateLiteral
    <3>1. Node.kind = "LITERAL"
          /\ current_address' = current_address + Len(literal_table[Node.literal_id + 1])
      BY <2>3 DEF GenerateLiteral, Generating, Continue
    <3>2. size = Len(literal_table[Node.literal_id + 1])
      BY <1>2, <3>1 DEF Bytes
    <3>3. Len(literal_table[Node.literal_id + 1]) \in Nat
      <4>1. Node.literal_id + 1 \in DOMAIN literal_table
        <5>1. IsList(literal_table) /\ next_literal_id \in 0 .. Len(literal_table)
          BY DEF IsSettled
        <5> QED  BY <1>3, <3>1, <5>1, ListIs DEF IsNoted
      <4> QED  BY <4>1 DEF IsSettled
    <3> QED  BY <3>1, <3>2, <3>3
  <2>4. CASE GenerateBase \/ GenerateNothing
    <3>1. Node.kind \in {"BASE", "NOBASE", "EMPTY", "END", "EQU", "LTORG", "EXTDEF", "EXTREF"}
          /\ current_address' = current_address
      BY <2>4 DEF GenerateBase, GenerateNothing, Generating, Continue
    <3>2. size = 0
      BY <1>2, <3>1 DEF Bytes
    <3> QED  BY <1>4, <3>1, <3>2
  <2> QED  BY <2>1, <2>2, <2>3, <2>4
<1> QED  BY <1>1, <1>2, <1>5, Along

\* START.
LEMMA GenerateStartIs ==
  ASSUME NEW walk \in [Nat -> Spot], IsSettled(walk), IsRunning(walk), GenerateStart
  PROVE  IsSettled(walk)' /\ IsRunning(walk)'
<1>1. /\ position <= Len(nodes) /\ Node.kind = "START"
      /\ listing' = Append(listing, block_addresses[0]) /\ position' = position + 1
      /\ current_address' = block_addresses[0] /\ current_block' = 0
      /\ UNCHANGED <<nodes, table_vars, block_addresses>>
  BY DEF GenerateStart, GoTo, Generating, List, Continue
<1>2. PICK spot, next : spot = walk[position] /\ next = walk[position + 1]
  OBVIOUS
<1>3. /\ ~IsStarted(spot) => spot = Nowhere
      /\ IsInOrder(Node.kind, spot) /\ next = After(Node, spot) /\ BlocksGoOn(spot)
      /\ spot.sizes \in [Nat -> Nat]
  BY <1>1, <1>2, ReachedIs
<1>4. spot = Nowhere
  BY <1>1, <1>3 DEF IsInOrder
<1>5. spot.sizes[0] = 0
  BY <1>4 DEF Nowhere
<1>6. next.block = 0 /\ next.address = 0 /\ next.sizes = spot.sizes
  BY <1>1, <1>3 DEF After
<1>7. 0 \in DOMAIN block_table /\ block_table[0].start \in Int
  <2>1. 0 \in DOMAIN block_table
    BY DEF IsSettled
  <2> QED  BY <2>1 DEF IsSettled
<1>8. block_addresses[0] = block_table[0].start
  <2>1. block_addresses[0] = block_table[0].start + spot.sizes[0]
    BY <1>3, <1>7 DEF BlocksGoOn
  <2> QED  BY <1>5, <1>7, <2>1
<1>9. IsStarted(next) /\ AddressOf(next) = block_addresses[0]
  BY <1>6, <1>7, <1>8 DEF IsStarted, AddressOf
<1>10. current_address' = AddressOf(next)'
  <2>1. block_table' = block_table
    BY <1>1 DEF table_vars
  <2>2. AddressOf(next)' = AddressOf(next)
    BY <2>1 DEF AddressOf
  <2> QED  BY <1>1, <1>9, <2>2
<1>11. BlocksGoOn(next)'
  BY <1>1, <1>3, <1>6 DEF BlocksGoOn, table_vars
<1>12. ListedAt(walk, position) = next
  BY <1>1, <1>2 DEF ListedAt, Node
<1>13. current_block' = (IF IsStarted(next) THEN next.block ELSE 0)
  BY <1>1, <1>6, <1>9
<1>14. UNCHANGED <<nodes, table_vars>>
  BY <1>1
<1> QED  BY <1>1, <1>2, <1>9, <1>10, <1>11, <1>12, <1>13, <1>14, Continued

\* ORG and USE.
LEMMA GenerateGoToIs ==
  ASSUME NEW walk \in [Nat -> Spot], IsSettled(walk), IsRunning(walk), GenerateOrg \/ GenerateUse
  PROVE  IsSettled(walk)' /\ IsRunning(walk)'
<1>1. PICK block, address :
        /\ position <= Len(nodes) /\ Node.kind \in {"ORG", "USE"}
        /\ listing' = Append(listing, address) /\ position' = position + 1
        /\ current_address' = address /\ current_block' = block
        /\ UNCHANGED <<nodes, table_vars>> /\ block_addresses' = LeftBlocks
        /\ Node.kind = "ORG" => block = -1 /\ address = Node.address
        /\ Node.kind = "USE" => block = Node.block_id /\ address = LeftBlocks[Node.block_id]
  <2>1. CASE GenerateOrg
    BY <2>1 DEF GenerateOrg, GoTo, Generating, List, Continue
  <2>2. CASE GenerateUse
    BY <2>2 DEF GenerateUse, GoTo, Generating, List, Continue
  <2> QED  BY <2>1, <2>2
<1>2. PICK spot, next : spot = walk[position] /\ next = walk[position + 1]
  OBVIOUS
<1>3. /\ IsInOrder(Node.kind, spot) /\ next = After(Node, spot) /\ IsNoted(Node)
      /\ spot \in Spot
  BY <1>1, <1>2, ReachedIs
<1>4. PICK sizes : sizes = Left(spot)
  OBVIOUS
<1>5. /\ sizes \in [Nat -> Nat]
      /\ LeftBlocks = [b \in DOMAIN block_table |-> block_table[b].start + sizes[b]]
  BY <1>1, <1>2, <1>4, LeftBlocksAre
<1>6. /\ next.sizes = sizes /\ next.block = block /\ IsStarted(next)
      /\ block \in {-1} \cup DOMAIN block_table
      /\ AddressOf(next) = address
  <2>1. CASE Node.kind = "ORG"
    <3>1. next.sizes = sizes /\ next.block = -1 /\ next.address = Node.address
      BY <1>3, <1>4, <2>1 DEF After
    <3> QED  BY <1>1, <2>1, <3>1 DEF IsStarted, AddressOf
  <2>2. CASE Node.kind = "USE"
    <3>1. next.sizes = sizes /\ next.block = Node.block_id /\ next.address = sizes[Node.block_id]
      BY <1>3, <1>4, <2>2 DEF After
    <3>2. Node.block_id \in DOMAIN block_table
      BY <1>3, <2>2 DEF IsNoted
    <3>3. Node.block_id # -1 /\ Node.block_id # -2
      BY <3>2 DEF IsSettled
    <3>4. address = block_table[Node.block_id].start + sizes[Node.block_id]
      BY <1>1, <1>5, <2>2, <3>2
    <3> QED  BY <1>1, <2>2, <3>1, <3>2, <3>3, <3>4 DEF IsStarted, AddressOf
  <2> QED  BY <1>1, <2>1, <2>2
<1>7. current_address' = AddressOf(next)'
  <2>1. block_table' = block_table
    BY <1>1 DEF table_vars
  <2>2. AddressOf(next)' = AddressOf(next)
    BY <2>1 DEF AddressOf
  <2> QED  BY <1>1, <1>6, <2>2
<1>8. BlocksGoOn(next)'
  BY <1>1, <1>5, <1>6 DEF BlocksGoOn, table_vars
<1>9. address = AddressOf(ListedAt(walk, position))
  <2>1. ListedAt(walk, position) = next
    BY <1>1, <1>2 DEF ListedAt, Node
  <2> QED  BY <1>6, <2>1
<1>10. current_block' = (IF IsStarted(next) THEN next.block ELSE 0)
  BY <1>1, <1>6
<1> QED  BY <1>1, <1>2, <1>7, <1>8, <1>9, <1>10, Continued

\* What the second pass begins with.
LEMMA BeginCodeIs ==
  ASSUME NEW walk \in [Nat -> Spot], IsSettled(walk), listing = <<>>, BeginCode
  PROVE  IsSettled(walk)' /\ IsRunning(walk)'
<1>1. /\ UNCHANGED <<nodes, table_vars>> /\ position' = 1 /\ listing' = <<>>
      /\ current_block' = 0 /\ current_address' = 0
      /\ block_addresses' = [block \in DOMAIN block_table |-> block_table[block].start]
      /\ block_table' = block_table
  BY DEF BeginCode, table_vars
<1>2. IsSettled(walk)'
  BY <1>1, SettledStays
<1>3. walk[1] = Nowhere
  BY DEF IsSettled, Walked
<1>4. ~IsStarted(Nowhere)
  BY DEF IsStarted, Nowhere
<1>5. BlocksGoOn(Nowhere)'
  <2>1. ASSUME NEW block \in DOMAIN block_table
        PROVE  block_table[block].start = block_table[block].start + Nowhere.sizes[block]
    <3>1. block \in Nat /\ block_table[block].start \in Int
      BY DEF IsSettled
    <3>2. Nowhere.sizes[block] = 0
      BY <3>1 DEF Nowhere
    <3> QED  BY <3>1, <3>2
  <2>2. PICK sizes : sizes = Nowhere.sizes
    OBVIOUS
  <2>3. [block \in DOMAIN block_table |-> block_table[block].start]
          = [block \in DOMAIN block_table |-> block_table[block].start + sizes[block]]
    BY <2>1, <2>2
  <2> QED  BY <1>1, <2>2, <2>3 DEF BlocksGoOn
<1>6. AddressOf(Nowhere)' = 0
  BY <1>4 DEF AddressOf
<1>7. IsList(listing') /\ Len(listing') = 0
  <2>1. <<>> \in Seq({})
    OBVIOUS
  <2> QED  BY <1>1, <2>1, SequenceIsList
<1>8. position' \in 1 .. Len(nodes') + 1
  <2>1. Len(nodes) \in Nat
    BY ListIs DEF IsSettled
  <2> QED  BY <1>1, <2>1
<1>9. /\ (current_block = (IF IsStarted(walk[position]) THEN walk[position].block ELSE 0))'
      /\ (current_address = AddressOf(walk[position]))'
      /\ BlocksGoOn(walk[position])'
  BY <1>1, <1>3, <1>4, <1>5, <1>6
<1>10. \A k \in 1 .. Len(listing') : FALSE
  BY <1>7
<1> QED  BY <1>1, <1>2, <1>7, <1>8, <1>9, <1>10 DEF IsRunning

\* The passes agree while the second one runs.
LEMMA RunningAgrees ==
  ASSUME NEW walk \in [Nat -> Spot], IsSettled(walk), IsRunning(walk)
  PROVE  PassesAgree
<1>1. /\ IsList(listing) /\ Len(listing) = position - 1 /\ position \in 1 .. Len(nodes) + 1
      /\ \A k \in 1 .. Len(listing) : listing[k] = AddressOf(ListedAt(walk, k))
  BY DEF IsRunning
<1>2. Len(nodes) \in Nat /\ DOMAIN listing = 1 .. Len(listing)
  BY <1>1, ListIs DEF IsSettled
<1>3. ASSUME NEW i \in DOMAIN listing
      PROVE  /\ IsLabelled(nodes[i]) => symbol_table[nodes[i].label].address = listing[i]
             /\ nodes[i].kind = "LITERAL"
                  => symbol_table[LiteralSymbolName(nodes[i].literal_id)].address = listing[i]
  <2>1. i \in 1 .. Len(nodes) /\ i \in 1 .. Len(listing)
    BY <1>1, <1>2
  <2>2. IsNoted(nodes[i])
    <3>1. PICK last : last = Len(nodes) + 1
      OBVIOUS
    <3>2. Walked(walk, last) /\ i \in 1 .. last - 1
      BY <1>2, <2>1, <3>1 DEF IsSettled
    <3> QED  BY <3>2 DEF Walked
  <2>3. Places(nodes[i]) => PlaceOf(walk, i) = ListedAt(walk, i)
    <3>1. Places(nodes[i]) => nodes[i].kind \notin {"ORG", "USE"}
      BY <2>2 DEF IsNoted, Places, IsLabelled
    <3> QED  BY <3>1 DEF PlaceOf, ListedAt
  <2>4. Places(nodes[i]) => symbol_table[SymbolOf(nodes[i])].address = listing[i]
    BY <1>1, <2>1, <2>3 DEF IsSettled
  <2>5. IsLabelled(nodes[i]) => nodes[i].kind # "LITERAL"
    BY <2>2 DEF IsNoted, IsLabelled
  <2> QED  BY <2>4, <2>5 DEF Places, SymbolOf
<1> QED  BY <1>3 DEF PassesAgree

LEMMA AgreeStays ==
  ASSUME PassesAgree, UNCHANGED <<nodes, symbol_table, listing>>
  PROVE  PassesAgree'
BY DEF PassesAgree, IsLabelled

LEMMA NothingAgrees ==
  ASSUME listing = <<>>
  PROVE  PassesAgree
BY DEF PassesAgree

-----------------------------------------------------------------------------
(***************************************************************************)
(* The steps of the assembler.                                             *)
(***************************************************************************)
\* Symbols keep their definitions, in a step of the first pass,
LEMMA StandingWhere ==
  ASSUME IsTable(symbol_table), IsTable(symbol_table'), Stand
  PROVE  Standing
<1> SUFFICES ASSUME NEW name \in DOMAIN symbol_table, symbol_table[name].defined
             PROVE  LET before == symbol_table[name]
                        after == symbol_table'[name]
                    IN  /\ <<after.type, after.block, after.block_address, after.relative>>
                             = <<before.type, before.block, before.block_address, before.relative>>
                        /\ before.resolved => after.address = before.address
  BY DEF Standing
<1>1. PICK before, after : before = symbol_table[name] /\ after = symbol_table'[name]
  OBVIOUS
<1>2. before.defined /\ Stays(before, after) /\ name \in DOMAIN symbol_table'
  BY <1>1 DEF Stand
<1>3. IsSound(before) /\ IsSound(after)
  BY <1>1, <1>2 DEF IsTable
<1>4. after.defined = before.defined /\ after.address = before.address
      /\ after.block = before.block /\ after.block_address = before.block_address
      /\ after.relative = before.relative
  BY <1>2 DEF Stays
<1>5. after.type = before.type
  BY <1>2, <1>3, <1>4 DEF IsSound
<1> QED  BY <1>1, <1>4, <1>5

\* in one that leaves them alone,
LEMMA StandingUnchanged ==
  ASSUME symbol_table' = symbol_table
  PROVE  Standing
BY DEF Standing

\* and when the blocks get their addresses.
LEMMA StandingAtLast ==
  ASSUME IsTable(symbol_table), symbol_table' = FinalAddresses
  PROVE  Standing
<1> SUFFICES ASSUME NEW name \in DOMAIN symbol_table, symbol_table[name].defined
             PROVE  LET before == symbol_table[name]
                        after == symbol_table'[name]
                    IN  /\ <<after.type, after.block, after.block_address, after.relative>>
                             = <<before.type, before.block, before.block_address, before.relative>>
                        /\ before.resolved => after.address = before.address
  BY DEF Standing
<1>1. PICK before, after : before = symbol_table[name] /\ after = FinalAddresses[name]
  OBVIOUS
<1>2. /\ after.type = before.type /\ after.block = before.block
      /\ after.block_address = before.block_address /\ after.relative = before.relative
      /\ ~before.defined \/ before.resolved => after.address = before.address
  BY <1>1, FinalAddressesAre
<1> QED  BY <1>1, <1>2

\* The first pass begins.
LEMMA ParseIs ==
  ASSUME TablesInit, listing = <<>>, IsText(text), Parse
  PROVE  /\ symbol_table' = symbol_table /\ listing' = <<>> /\ phase' \in {"tables", "failed"}
         /\ phase' = "tables" => \E walk \in [Nat -> Spot] : FirstPass(walk)' /\ Laid(walk)'
<1>1. /\ phase' \in {"tables", "failed"}
      /\ phase' = "tables" => nodes' \in ParseFile(text)
      /\ UNCHANGED <<position, table_vars, code_vars, current_block, current_address>>
  BY DEF Parse
<1>2. /\ position' = 1 /\ symbol_table' = <<>> /\ block_table' = block_table
      /\ literal_table' = <<>> /\ literal_lookup' = {} /\ next_literal_id' = 0
      /\ start_address' = 0 /\ current_block' = -1 /\ current_address' = 0
      /\ listing' = <<>> /\ symbol_table' = symbol_table /\ segments' = <<>>
  BY <1>1 DEF TablesInit, table_vars, code_vars
<1>3. ASSUME phase' = "tables"
      PROVE  \E walk \in [Nat -> Spot] : FirstPass(walk)' /\ Laid(walk)'
  <2>1. /\ IsList(nodes') /\ \A k \in DOMAIN nodes' : IsLine(nodes'[k])
        /\ Framed(nodes', 1, FALSE)
        /\ \E k \in 1 .. Len(nodes') : nodes'[k].kind = "END"
    BY <1>1, <1>3, ParseFileIs
  <2>2. Len(nodes') \in Nat /\ DOMAIN nodes' = 1 .. Len(nodes')
    BY <2>1, ListIs
  <2>3. Nowhere \in Spot /\ ~IsStarted(Nowhere)
    BY DEF Nowhere, Spot, IsStarted
  <2>4. PICK walk : walk = [k \in Nat |-> Nowhere]
    OBVIOUS
  <2>5. walk \in [Nat -> Spot] /\ walk[1] = Nowhere
    BY <2>3, <2>4
  <2>6. IsAhead(Nowhere)'
    <3>1. IsStarted(Nowhere) = FALSE
      BY <2>3 DEF IsStarted
    <3> QED  BY <1>2, <2>1, <2>2, <3>1 DEF IsAhead
  <2>7. Walked(walk, position)'
    <3>1. Nowhere.block = -2
      BY DEF Nowhere
    <3>2. \A k \in 1 .. position' : k = 1
      BY <1>2
    <3>3. \A k \in 1 .. position' - 1 : FALSE
      BY <1>2
    <3> QED  BY <2>5, <3>1, <3>2, <3>3 DEF Walked
  <2>8. SymbolsPlaced(walk, position)'
    <3>1. \A k \in 1 .. position' - 1 : FALSE
      BY <1>2
    <3> QED  BY <3>1 DEF SymbolsPlaced
  <2>9. IsTable(symbol_table')
    <3>1. PICK table : table = symbol_table'
      OBVIOUS
    <3>2. DOMAIN table = {} /\ table = [name \in DOMAIN table |-> table[name]]
      <4>1. table = <<>>
        BY <1>2, <3>1
      <4>2. DOMAIN table = {}
        BY <4>1
      <4>3. table = [name \in {} |-> table[name]]
        BY <4>1
      <4> QED  BY <4>2, <4>3
    <3>3. table \in Table
      BY <3>2, TableIs
    <3> QED  BY <3>1, <3>2, <3>3 DEF IsTable
  <2>10. LiteralsAre(symbol_table)'
    <3>1. IsList(literal_table') /\ Len(literal_table') = 0 /\ DOMAIN literal_table' = {}
      <4>1. PICK literals : literals = literal_table'
        OBVIOUS
      <4>2. literals = <<>>
        BY <1>2, <4>1
      <4>3. literals \in Seq({}) /\ Len(literals) = 0 /\ DOMAIN literals = {}
        BY <4>2
      <4> QED  BY <4>1, <4>3, SequenceIsList
    <3>2. \A id \in Waiting' : FALSE
      BY <1>2, <3>1 DEF Waiting
    <3>3. \A name : ~FindOrCreateNew(symbol_table', name).defined
      <4>1. DOMAIN symbol_table' = {}
        BY <1>2
      <4> QED  BY <4>1, NewEntryType DEF FindOrCreateNew
    <3> QED  BY <1>2, <3>1, <3>2, <3>3 DEF LiteralsAre
  <2>11. IsBlockTable(block_table')
    <3>1. PICK table : table = block_table'
      OBVIOUS
    <3>2. DOMAIN table = {0} /\ table[0] = NewBlock(DefaultBlock)
      BY <1>2, <3>1 DEF TablesInit
    <3>3. {"start", "size"} \subseteq DOMAIN table[0] /\ table[0].size = 0
      BY <3>2, NewBlockIs
    <3>4. DOMAIN table = 0 .. 1 - 1 /\ 1 \in Nat \ {0}
      BY <3>2
    <3> QED  BY <3>1, <3>2, <3>3, <3>4 DEF IsBlockTable
  <2>12. IsHere(Nowhere)'
    <3>1. Nowhere.address = 0 /\ \A block \in Nat : Nowhere.sizes[block] = 0
      BY DEF Nowhere
    <3>2. \A block \in Nat : Nowhere.sizes[block] = IF block \in DOMAIN block_table'
                                                    THEN block_table'[block].size ELSE 0
      <4>1. DOMAIN block_table' = {0} /\ block_table'[0] = NewBlock(DefaultBlock)
        BY <1>2 DEF TablesInit
      <4>2. block_table'[0].size = 0
        BY <4>1, NewBlockIs
      <4> QED  BY <3>1, <4>1, <4>2
    <3> QED  BY <1>2, <2>3, <3>1, <3>2 DEF IsHere
  <2>13. NothingYet(Nowhere)'
    <3>1. \A k \in 1 .. position' - 1 : FALSE
      BY <1>2
    <3>2. DOMAIN symbol_table' = {}
      BY <1>2
    <3> QED  BY <3>1, <3>2 DEF NothingYet
  <2>14. position' \in 1 .. Len(nodes') + 1 /\ walk[position'] = Nowhere
    BY <1>2, <2>2, <2>5
  <2>15. FirstPass(walk)'
    BY <1>2, <2>1, <2>6, <2>7, <2>8, <2>9, <2>10, <2>11, <2>12, <2>13, <2>14 DEF FirstPass
  <2>16. Laid(walk)'
    <3>1. IsList(segments') /\ DOMAIN segments' = {}
      <4>1. PICK closed : closed = segments'
        OBVIOUS
      <4>2. closed = <<>>
        BY <1>2, <4>1
      <4>3. closed \in Seq({}) /\ DOMAIN closed = {}
        BY <4>2
      <4> QED  BY <4>1, <4>3, SequenceIsList
    <3>2. OpenSegments(walk)' = {}
      <4>1. walk[position'].block # -1
        BY <2>14 DEF Nowhere
      <4> QED  BY <4>1 DEF OpenSegments
    <3>3. DOMAIN Spans(walk, position)' = {}
      <4>1. \A k \in 1 .. position' - 1 : FALSE
        BY <1>2
      <4> QED  BY <4>1 DEF Spans
    <3>4. Parted(Spans(walk, position), segments, OpenSegments(walk), start_address)'
      BY <3>1, <3>2, <3>3 DEF Parted
    <3>5. position' <= Len(nodes')
      BY <1>2, <2>1, <2>2
    <3> QED  BY <1>2, <2>1, <2>14, <3>1, <3>4, <3>5 DEF Laid
  <2> QED  BY <2>5, <2>15, <2>16
<1> QED  BY <1>1, <1>2, <1>3

\* The addresses of the lines stay what they are.
LEMMA LinesApartStays ==
  ASSUME NEW walk, LinesApart(walk), UNCHANGED <<nodes, table_vars>>
  PROVE  LinesApart(walk)'
<1>1. UNCHANGED <<nodes, block_table, literal_table, start_address, end_address>>
  BY DEF table_vars
<1>2. ASSUME NEW k
      PROVE  Bytes(nodes[k])' = Bytes(nodes[k]) /\ AddressOf(walk[k])' = AddressOf(walk[k])
  <2>1. PICK node, spot : node = nodes[k] /\ spot = walk[k]
    OBVIOUS
  <2>2. Bytes(node)' = Bytes(node)
    BY <1>1, BytesStay
  <2>3. AddressOf(spot)' = AddressOf(spot)
    BY <1>1 DEF AddressOf
  <2> QED  BY <1>1, <2>1, <2>2, <2>3
<1> QED  BY <1>1, <1>2 DEF LinesApart

\* Where the second pass is.
LEMMA RunningStays ==
  ASSUME NEW walk \in [Nat -> Spot], IsRunning(walk),
         UNCHANGED <<nodes, position, table_vars, current_block, current_address, block_addresses,
                     listing>>
  PROVE  IsRunning(walk)'
<1>1. UNCHANGED <<nodes, position, block_table, block_addresses, current_block, current_address,
                  listing>>
  BY DEF table_vars
<1>2. \A spot : AddressOf(spot)' = AddressOf(spot)
  BY <1>1 DEF AddressOf
<1>3. ASSUME NEW k \in 1 .. Len(listing)
      PROVE  listing'[k] = AddressOf(ListedAt(walk, k))'
  <2>1. AddressOf(ListedAt(walk, k))' = AddressOf(ListedAt(walk, k))
    BY <1>1 DEF AddressOf, ListedAt
  <2> QED  BY <1>1, <2>1 DEF IsRunning
<1>4. PICK spot : spot = walk[position]
  OBVIOUS
<1>5. /\ current_block = (IF IsStarted(spot) THEN spot.block ELSE 0)
      /\ current_address = AddressOf(spot) /\ BlocksGoOn(spot)
      /\ position \in 1 .. Len(nodes) + 1 /\ IsList(listing) /\ Len(listing) = position - 1
  BY <1>4 DEF IsRunning
<1>6. AddressOf(spot)' = AddressOf(spot) /\ BlocksGoOn(spot)'
  BY <1>1, <1>5 DEF AddressOf, BlocksGoOn
<1> QED  BY <1>1, <1>3, <1>4, <1>5, <1>6 DEF IsRunning

\* The second pass runs on some walk.
Runs == \E walk \in [Nat -> Spot] : IsSettled(walk) /\ LinesApart(walk) /\ IsRunning(walk)

LEMMA RunsAgree == Runs => PassesAgree
BY RunningAgrees DEF Runs

\* The steps of the second pass on a line.
Generate ==
  \/ GenerateInstruction \/ GenerateFS34 \/ GenerateInit \/ GenerateReserve
  \/ GenerateLiteral \/ GenerateBase \/ GenerateNothing
  \/ GenerateStart \/ GenerateOrg \/ GenerateUse

\* A line of the second pass.
LEMMA GenerateIs ==
  ASSUME Runs, Generate
  PROVE  Runs' /\ phase = "code" /\ phase' = phase /\ symbol_table' = symbol_table
<1>1. phase = "code" /\ phase' = phase /\ symbol_table' = symbol_table
  BY DEF Generate, GenerateInstruction, GenerateFS34, GenerateInit, GenerateReserve,
         GenerateLiteral, GenerateBase, GenerateNothing, GenerateStart, GenerateOrg, GenerateUse,
         Generating, GoTo, table_vars
<1>2. PICK walk \in [Nat -> Spot] : IsSettled(walk) /\ LinesApart(walk) /\ IsRunning(walk)
  BY DEF Runs
<1>3. IsSettled(walk)' /\ IsRunning(walk)'
  BY <1>2, GenerateAlongIs, GenerateStartIs, GenerateGoToIs DEF Generate
<1>4. UNCHANGED <<nodes, table_vars>>
  BY DEF Generate, GenerateInstruction, GenerateFS34, GenerateInit, GenerateReserve,
         GenerateLiteral, GenerateBase, GenerateNothing, GenerateStart, GenerateOrg, GenerateUse,
         GoTo
<1>5. LinesApart(walk)'
  BY <1>2, <1>4, LinesApartStays
<1> QED  BY <1>1, <1>3, <1>5 DEF Runs

\* A step of the assembler keeps the invariant, and what is defined.
LEMMA StepIs ==
  ASSUME LiteralNamesDiffer, IInv, Next
  PROVE  IInv' /\ Standing
<1>1. IsText(text')
  BY DEF IInv, Next
<1>2. ASSUME Parse PROVE IInv' /\ Standing
  <2>1. TablesInit /\ listing = <<>> /\ IsText(text)
    BY <1>2 DEF IInv, Parse
  <2>2. /\ symbol_table' = symbol_table /\ listing' = <<>> /\ phase' \in {"tables", "failed"}
        /\ phase' = "tables" => \E walk \in [Nat -> Spot] : FirstPass(walk)' /\ Laid(walk)'
    BY <1>2, <2>1, ParseIs
  <2>3. PassesAgree'
    BY <2>2 DEF PassesAgree
  <2> QED  BY <1>1, <2>2, <2>3, StandingUnchanged DEF IInv
<1>3. ASSUME VisitNode, UNCHANGED code_vars PROVE IInv' /\ Standing
  <2>1. phase = "tables" /\ position <= Len(nodes) /\ listing' = listing
    BY <1>3 DEF VisitNode, code_vars
  <2>2. PICK walk \in [Nat -> Spot] : FirstPass(walk) /\ Laid(walk)
    BY <2>1 DEF IInv
  <2>3. /\ Stand /\ IsTable(symbol_table')
        /\ phase' \in {"tables", "failed"}
        /\ phase' = "tables" => \E later \in [Nat -> Spot] : FirstPass(later)'
    BY <1>3, <2>1, <2>2, VisitIs
  <2>4. phase' = "tables" => \E later \in [Nat -> Spot] : FirstPass(later)' /\ Laid(later)'
    BY <1>3, <2>2, <2>3, VisitLaid
  <2>5. IsTable(symbol_table) /\ listing' = <<>>
    BY <2>1, <2>2 DEF FirstPass
  <2>6. PassesAgree'
    BY <2>5 DEF PassesAgree
  <2>7. Standing
    BY <2>3, <2>5, StandingWhere
  <2> QED  BY <1>1, <2>3, <2>4, <2>6, <2>7 DEF IInv
<1>4. ASSUME FinishTables, UNCHANGED code_vars PROVE IInv' /\ Standing
  <2>1. /\ phase = "tables" /\ listing' = listing /\ phase' \in {"begin", "failed"}
        /\ symbol_table' = FinalAddresses
    BY <1>4 DEF FinishTables, code_vars
  <2>2. PICK walk \in [Nat -> Spot] : FirstPass(walk) /\ Laid(walk)
    BY <2>1 DEF IInv
  <2>3. IsSettled(walk)'
    BY <1>4, <2>1, <2>2, FinishIs
  <2>4. IsTable(symbol_table) /\ listing' = <<>>
    BY <2>1, <2>2 DEF FirstPass
  <2>5. PassesAgree'
    BY <2>4 DEF PassesAgree
  <2>6. Standing
    BY <2>1, <2>4, StandingAtLast
  <2>7. phase' = "begin" => LinesApart(walk)'
    BY <1>4, <2>2, FinishLaid
  <2> QED  BY <1>1, <2>1, <2>3, <2>4, <2>5, <2>6, <2>7 DEF IInv
<1>5. ASSUME BeginCode PROVE IInv' /\ Standing
  <2>1. phase = "begin" /\ phase' = "code" /\ listing' = listing /\ symbol_table' = symbol_table
    BY <1>5 DEF BeginCode, table_vars
  <2>2. PICK walk \in [Nat -> Spot] : IsSettled(walk) /\ LinesApart(walk)
    BY <2>1 DEF IInv
  <2>3. listing = <<>>
    BY <2>1 DEF IInv
  <2>4. IsSettled(walk)' /\ IsRunning(walk)'
    BY <1>5, <2>2, <2>3, BeginCodeIs
  <2>5. LinesApart(walk)'
    <3>1. UNCHANGED <<nodes, table_vars>>
      BY <1>5 DEF BeginCode
    <3> QED  BY <2>2, <3>1, LinesApartStays
  <2>6. PassesAgree'
    BY <2>1, <2>3 DEF PassesAgree
  <2> QED  BY <1>1, <2>1, <2>4, <2>5, <2>6, StandingUnchanged DEF IInv
<1>6. ASSUME Generate PROVE IInv' /\ Standing
  <2>1. phase = "code"
    BY <1>6 DEF Generate, GenerateInstruction, GenerateFS34, GenerateInit, GenerateReserve,
         GenerateLiteral, GenerateBase, GenerateNothing, GenerateStart, GenerateOrg, GenerateUse,
         Generating
  <2>2. Runs
    BY <2>1 DEF IInv, Runs
  <2>3. Runs' /\ phase' = "code" /\ symbol_table' = symbol_table
    BY <1>6, <2>2, GenerateIs
  <2>4. Runs' => PassesAgree'
    BY RunsAgree, PTL
  <2>5. PassesAgree'
    BY <2>3, <2>4
  <2>6. (\E walk \in [Nat -> Spot] : IsSettled(walk) /\ LinesApart(walk) /\ IsRunning(walk))'
    BY <2>3 DEF Runs
  <2> QED  BY <1>1, <2>3, <2>5, <2>6, StandingUnchanged DEF IInv
<1>7. ASSUME Refuse PROVE IInv' /\ Standing
  <2>1. /\ phase' \in {"failed", "crashed"}
        /\ UNCHANGED <<nodes, symbol_table, listing>>
    BY <1>7 DEF Refuse, table_vars, code_vars
  <2>2. PassesAgree'
    BY <2>1, AgreeStays DEF IInv
  <2> QED  BY <1>1, <2>1, <2>2, StandingUnchanged DEF IInv
<1>8. ASSUME EndCode PROVE IInv' /\ Standing
  <2>1. /\ phase = "code" /\ phase' = "done" /\ UNCHANGED <<nodes, symbol_table, listing>>
        /\ UNCHANGED <<nodes, table_vars>>
        /\ UNCHANGED <<nodes, position, table_vars, current_block, current_address,
                       block_addresses, listing>>
    BY <1>8 DEF EndCode, table_vars
  <2>2. PassesAgree'
    BY <2>1, AgreeStays DEF IInv
  <2>3. PICK walk \in [Nat -> Spot] : IsSettled(walk) /\ LinesApart(walk) /\ IsRunning(walk)
    BY <2>1 DEF IInv
  <2>4. IsSettled(walk)' /\ LinesApart(walk)' /\ IsRunning(walk)'
    BY <2>1, <2>3, SettledStays, LinesApartStays, RunningStays
  <2> QED  BY <1>1, <2>1, <2>2, <2>4, StandingUnchanged DEF IInv
<1> QED  BY <1>2, <1>3, <1>4, <1>5, <1>6, <1>7, <1>8
         DEF Next, BuildTables, GenerateCode, Generate

\* The assembler may also do nothing.
LEMMA FirstPassStays ==
  ASSUME NEW walk \in [Nat -> Spot], FirstPass(walk), UNCHANGED vars
  PROVE  FirstPass(walk)'
<1>1. UNCHANGED <<nodes, position, symbol_table, block_table, literal_table, literal_lookup,
                  next_literal_id, start_address, current_block, current_address, listing>>
  BY DEF vars, table_vars, code_vars
<1>2. PICK last, spot : last = position /\ spot = walk[position]
  OBVIOUS
<1>3. /\ IsList(nodes) /\ last \in 1 .. Len(nodes) + 1
      /\ IsAhead(spot) /\ Walked(walk, last) /\ SymbolsPlaced(walk, last) /\ IsTable(symbol_table)
      /\ LiteralsAre(symbol_table) /\ IsBlockTable(block_table) /\ IsHere(spot) /\ NothingYet(spot)
      /\ start_address \in Nat /\ listing = <<>>
  BY <1>2 DEF FirstPass
<1>4. Walked(walk, last)'
  BY <1>1, <1>3, WalkedStays
<1>5. SymbolsPlaced(walk, last)'
  <2>1. ASSUME NEW k \in 1 .. last - 1, Places(nodes[k])'
        PROVE  /\ SymbolOf(nodes[k])' \in DOMAIN symbol_table'
               /\ IsPlaced(symbol_table[SymbolOf(nodes[k])], PlaceOf(walk, k).block,
                           PlaceOf(walk, k).address, start_address)'
    <3>1. Places(nodes[k])
      BY <1>1, <2>1 DEF Places, IsLabelled
    <3>2. SymbolOf(nodes[k])' = SymbolOf(nodes[k]) /\ PlaceOf(walk, k)' = PlaceOf(walk, k)
      BY <1>1 DEF SymbolOf, PlaceOf
    <3>3. /\ SymbolOf(nodes[k]) \in DOMAIN symbol_table
          /\ IsPlaced(symbol_table[SymbolOf(nodes[k])], PlaceOf(walk, k).block,
                      PlaceOf(walk, k).address, start_address)
      BY <1>3, <3>1 DEF SymbolsPlaced
    <3> QED  BY <1>1, <3>2, <3>3
  <2> QED  BY <2>1 DEF SymbolsPlaced
<1>6. IsAhead(spot)' /\ NothingYet(spot)'
  <2>1. IsAhead(spot)'
    BY <1>1, <1>3 DEF IsAhead
  <2>2. NothingYet(spot)'
    BY <1>1, <1>3 DEF NothingYet
  <2> QED  BY <2>1, <2>2
<1>7. LiteralsAre(symbol_table)'
  <2>1. Waiting' = Waiting
    BY <1>1 DEF Waiting
  <2> QED  BY <1>1, <1>3, <2>1 DEF LiteralsAre
<1>8. IsHere(spot)'
  BY <1>1, <1>3 DEF IsHere
<1>9. /\ IsList(nodes') /\ position' \in 1 .. Len(nodes') + 1 /\ IsTable(symbol_table')
      /\ IsBlockTable(block_table') /\ start_address' \in Nat /\ listing' = <<>>
      /\ position' = last /\ walk[position'] = spot
  BY <1>1, <1>2, <1>3
<1> QED  BY <1>4, <1>5, <1>6, <1>7, <1>8, <1>9 DEF FirstPass

LEMMA LaidStays ==
  ASSUME NEW walk \in [Nat -> Spot], Laid(walk), UNCHANGED vars
  PROVE  Laid(walk)'
<1>1. UNCHANGED <<nodes, position, block_table, literal_table, start_address, segments,
                  segment_start, current_address>>
  BY DEF vars, table_vars
<1>2. PICK last, spot, spans :
        last = position /\ spot = walk[position] /\ spans = Spans(walk, position)
  OBVIOUS
<1>3. ASSUME NEW k PROVE Bytes(nodes[k])' = Bytes(nodes[k])
  <2>1. PICK node : node = nodes[k]
    OBVIOUS
  <2>2. Bytes(node)' = Bytes(node)
    BY <1>1, BytesStay
  <2> QED  BY <1>1, <2>1, <2>2
<1>4. Spans(walk, last)' = spans
  BY <1>2, <1>3 DEF Spans
<1>5. OpenSegments(walk)' = OpenSegments(walk)
  BY <1>1 DEF OpenSegments
<1>6. Parted(Spans(walk, position), segments, OpenSegments(walk), start_address)'
  BY <1>1, <1>2, <1>4, <1>5 DEF Laid
<1>7. /\ IsList(segments) /\ (~IsStarted(spot) => segments = <<>>)
      /\ IF last <= Len(nodes) THEN \E k \in last .. Len(nodes) : nodes[k].kind = "END"
         ELSE \A block \in DOMAIN block_table : block_table[block].size = Left(spot)[block]
  BY <1>2 DEF Laid
<1>8. position' = last /\ walk[position'] = spot
  BY <1>1, <1>2
<1> QED  BY <1>1, <1>6, <1>7, <1>8 DEF Laid

LEMMA StutterIs ==
  ASSUME IInv, UNCHANGED vars
  PROVE  IInv' /\ Standing
<1>1. UNCHANGED <<nodes, phase, text, symbol_table, listing>> /\ UNCHANGED <<nodes, table_vars>>
  BY DEF vars, table_vars, code_vars
<1>2. phase = "parse" => (TablesInit /\ listing = <<>>)'
  BY DEF IInv, TablesInit, vars, table_vars, code_vars
<1>3. phase = "tables" => \E walk \in [Nat -> Spot] : FirstPass(walk)' /\ Laid(walk)'
  BY FirstPassStays, LaidStays DEF IInv
<1>4. phase = "begin" =>
        listing' = <<>> /\ \E walk \in [Nat -> Spot] : IsSettled(walk)' /\ LinesApart(walk)'
  BY <1>1, SettledStays, LinesApartStays DEF IInv
<1>5. phase \in {"code", "done"} =>
        \E walk \in [Nat -> Spot] : IsSettled(walk)' /\ LinesApart(walk)' /\ IsRunning(walk)'
  <2>1. UNCHANGED <<nodes, position, table_vars, current_block, current_address,
                    block_addresses, listing>>
    BY DEF vars, code_vars
  <2> QED  BY <1>1, <2>1, SettledStays, LinesApartStays, RunningStays DEF IInv
<1>6. PassesAgree'
  BY <1>1, AgreeStays DEF IInv
<1>7. IsText(text')
  BY <1>1 DEF IInv
<1> QED  BY <1>1, <1>2, <1>3, <1>4, <1>5, <1>6, <1>7, StandingUnchanged DEF IInv

\* It holds before the parser has run.
LEMMA InitHolds ==
  ASSUME Init
  PROVE  IInv
<1>1. IsText(text)
  BY TextsAssumption DEF Init
<1>2. phase = "parse" /\ TablesInit /\ listing = <<>>
  BY DEF Init, TablesInit, CodeInit
<1>3. PassesAgree
  BY <1>2, NothingAgrees
<1> QED  BY <1>1, <1>2, <1>3 DEF IInv

\* Of every program, with any number of literals and lines, the two passes
\* are always on one walk over the lines.  The names of literals are taken to be
\* what "*%d" makes of their numbers: no names of the text, and all different.
THEOREM AssemblerInductive ==
  ASSUME LiteralNamesDiffer
  PROVE  Spec => []IInv
<1>1. Init => IInv
  BY InitHolds
<1>2. IInv /\ [Next]_vars => IInv'
  BY StepIs, StutterIs
<1> QED  BY <1>1, <1>2, PTL DEF Spec

\* The second pass comes to every label and every literal at the address that the
\* first pass has given it, across ORG, USE and the pools inserted on the way: what
\* operands are encoded with is where the labels end up.
THEOREM PassesMeet ==
  ASSUME LiteralNamesDiffer
  PROVE  Spec => []PassesAgree
<1>1. IInv => PassesAgree
  BY DEF IInv
<1> QED  BY <1>1, AssemblerInductive, PTL

\* The addresses of a line are numbers, and its size is what the walk goes on by.
LEMMA ExtentIs ==
  ASSUME NEW walk \in [Nat -> Spot], IsSettled(walk), IsRunning(walk),
         NEW i \in DOMAIN listing, Extent(i).first < Extent(i).next
  PROVE  /\ i \in 1 .. Len(nodes) /\ Bytes(nodes[i]) > 0
         /\ Extent(i).first = AddressOf(walk[i])
         /\ Extent(i).next = AddressOf(walk[i]) + Bytes(nodes[i])
<1>1. /\ IsList(listing) /\ Len(listing) = position - 1 /\ position \in 1 .. Len(nodes) + 1
      /\ listing[i] = AddressOf(ListedAt(walk, i))
  <2>1. IsList(listing)
    BY DEF IsRunning
  <2>2. i \in 1 .. Len(listing)
    BY <2>1, ListIs
  <2> QED  BY <2>1, <2>2 DEF IsRunning
<1>2. Len(nodes) \in Nat /\ i \in 1 .. Len(nodes)
  BY <1>1, ListIs DEF IsSettled
<1>3. PICK last : last = Len(nodes) + 1
  OBVIOUS
<1>4. /\ Walked(walk, last) /\ last \in Nat
      /\ i \in 1 .. last /\ i + 1 \in 1 .. last /\ i \in 1 .. last - 1
  BY <1>2, <1>3 DEF IsSettled
<1>5. IsNoted(nodes[i])
  BY <1>4 DEF Walked
<1>6. PICK node, address, size, bytes :
        /\ node = nodes[i] /\ address = listing[i] /\ bytes = Bytes(node)
        /\ size = CASE node.kind = "RESERVE" -> node.reservation_size
                                                  * (IF node.width = "WORD" THEN 3 ELSE 1)
                    [] node.kind = "LITERAL" -> Len(literal_table[node.literal_id + 1])
                    [] node.kind \in {"F1", "F2", "FS34", "INIT"} -> NodeSize(node)
                    [] OTHER -> 0
  OBVIOUS
<1>7. Extent(i).first = address /\ Extent(i).next = address + size
  BY <1>6 DEF Extent
<1>8. size = bytes /\ size \in Nat
  <2>1. CASE node.kind = "RESERVE"
    <3>1. PICK count : count = node.reservation_size
      OBVIOUS
    <3>2. count \in Nat
      BY <1>5, <1>6, <2>1, <3>1 DEF IsNoted
    <3>3. size = count * (IF node.width = "WORD" THEN 3 ELSE 1)
      BY <1>6, <2>1, <3>1
    <3>4. bytes = IF node.width = "WORD" THEN 3 * count ELSE count
      BY <1>6, <2>1, <3>1 DEF Bytes
    <3>5. CASE node.width = "WORD"
      BY <3>2, <3>3, <3>4, <3>5
    <3>6. CASE node.width # "WORD"
      BY <3>2, <3>3, <3>4, <3>6
    <3> QED  BY <3>5, <3>6
  <2>2. CASE node.kind = "LITERAL"
    <3>1. size = Len(literal_table[node.literal_id + 1]) /\ bytes = size
      BY <1>6, <2>2 DEF Bytes
    <3>2. node.literal_id + 1 \in DOMAIN literal_table
      <4>1. IsList(literal_table) /\ next_literal_id \in 0 .. Len(literal_table)
        BY DEF IsSettled
      <4> QED  BY <1>5, <1>6, <2>2, <4>1, ListIs DEF IsNoted
    <3> QED  BY <3>1, <3>2 DEF IsSettled
  <2>3. CASE node.kind \in {"F1", "F2", "FS34", "INIT"}
    <3>1. size = NodeSize(node) /\ bytes = NodeSize(node)
      BY <1>6, <2>3 DEF Bytes
    <3>2. NodeSize(node) \in Nat
      BY <1>5, <1>6, <2>3, NodeSizeIs DEF IsNoted
    <3> QED  BY <3>1, <3>2
  <2>4. CASE node.kind \notin {"RESERVE", "LITERAL", "F1", "F2", "FS34", "INIT"}
    BY <1>6, <2>4 DEF Bytes
  <2> QED  BY <2>1, <2>2, <2>3, <2>4
<1>9. ASSUME NEW k \in 1 .. last
      PROVE  AddressOf(walk[k]) \in Int
  <2>1. PICK spot : spot = walk[k]
    OBVIOUS
  <2>2. spot.address \in Nat /\ spot.block \in {-2, -1} \cup DOMAIN block_table
    <3>1. walk[k].block \in {-2, -1} \cup DOMAIN block_table
      BY <1>4 DEF Walked
    <3> QED  BY <1>4, <2>1, <3>1, SpotIs
  <2>3. CASE IsStarted(spot) /\ spot.block # -1
    <3>1. spot.block \in DOMAIN block_table
      BY <2>2, <2>3 DEF IsStarted
    <3>2. block_table[spot.block].start \in Int
      BY <3>1 DEF IsSettled
    <3> QED  BY <2>1, <2>2, <2>3, <3>2 DEF AddressOf
  <2>4. CASE ~(IsStarted(spot) /\ spot.block # -1)
    BY <2>1, <2>2, <2>4 DEF AddressOf
  <2> QED  BY <2>3, <2>4
<1>10. address \in Int
  <2>1. ListedAt(walk, i) = walk[i] \/ ListedAt(walk, i) = walk[i + 1]
    BY DEF ListedAt
  <2> QED  BY <1>1, <1>4, <1>6, <1>9, <2>1
<1>11. size > 0
  <2>1. address < address + size
    BY <1>7
  <2> QED  BY <1>8, <1>10, <2>1
<1>12. address = AddressOf(walk[i])
  <2>1. node.kind \notin {"START", "ORG", "USE"}
    BY <1>6, <1>8, <1>11
  <2>2. ListedAt(walk, i) = walk[i]
    BY <1>6, <2>1 DEF ListedAt
  <2> QED  BY <1>1, <1>6, <2>2
<1> QED  BY <1>2, <1>6, <1>7, <1>8, <1>11, <1>12

\* No two lines of an assembled program share an address, reserved memory included,
\* and all are inside the program: blocks that are left and used again (MaxBlocks of
\* them, which is where their sizes add up in 32 bits, BlockSumsFit), what ORG puts
\* outside of them, and the pools, in any number.  A sweep over the sorted begins
\* and ends of the segments is what the first pass accepts the program by.
THEOREM LinesKeptApart ==
  ASSUME LiteralNamesDiffer
  PROVE  Spec => []LinesAreDisjoint
<1>1. ASSUME IInv, phase = "done" PROVE LinesAreDisjoint
  <2>1. PICK walk \in [Nat -> Spot] : IsSettled(walk) /\ LinesApart(walk) /\ IsRunning(walk)
    BY <1>1 DEF IInv
  <2>2. ASSUME NEW i \in DOMAIN listing, Extent(i).first < Extent(i).next
        PROVE  /\ i \in 1 .. Len(nodes) /\ Bytes(nodes[i]) > 0
               /\ Extent(i).first = AddressOf(walk[i])
               /\ Extent(i).next = AddressOf(walk[i]) + Bytes(nodes[i])
    BY <2>1, <2>2, ExtentIs
  <2>3. ASSUME NEW i \in DOMAIN listing, Extent(i).first < Extent(i).next
        PROVE  start_address <= Extent(i).first /\ Extent(i).next <= end_address
    BY <2>1, <2>2, <2>3 DEF LinesApart
  <2>4. ASSUME NEW i \in DOMAIN listing, Extent(i).first < Extent(i).next,
               NEW j \in DOMAIN listing, i < j, Extent(j).first < Extent(j).next
        PROVE  Extent(i).next <= Extent(j).first \/ Extent(j).next <= Extent(i).first
    <3>1. /\ i \in 1 .. Len(nodes) /\ Bytes(nodes[i]) > 0
          /\ j \in 1 .. Len(nodes) /\ Bytes(nodes[j]) > 0
      BY <2>2, <2>4
    <3>2. \/ AddressOf(walk[i]) + Bytes(nodes[i]) <= AddressOf(walk[j])
          \/ AddressOf(walk[j]) + Bytes(nodes[j]) <= AddressOf(walk[i])
      BY <2>1, <2>4, <3>1 DEF LinesApart
    <3> QED  BY <2>2, <2>4, <3>2
  <2> QED  BY <2>3, <2>4 DEF LinesAreDisjoint
<1>2. IInv => LinesAreDisjoint
  BY <1>1 DEF LinesAreDisjoint
<1> QED  BY <1>2, AssemblerInductive, PTL

\* A symbol that is defined keeps what it stands for until the end, and its address
\* from when it has one.
THEOREM DefinitionsKept ==
  ASSUME LiteralNamesDiffer
  PROVE  Spec => DefinitionsStand
<1>1. IInv /\ [Next]_vars =>
        [\A name \in DOMAIN symbol_table :
           symbol_table[name].defined =>
             LET before == symbol_table[name]
                 after == symbol_table'[name]
             IN  /\ <<after.type, after.block, after.block_address, after.relative>>
                      = <<before.type, before.block, before.block_address, before.relative>>
                 /\ before.resolved => after.address = before.address]_vars
  BY StepIs DEF Standing
<1> QED  BY <1>1, AssemblerInductive, PTL DEF Spec, DefinitionsStand

-----------------------------------------------------------------------------
(***************************************************************************)
(* What block_table.cc adds up.                                            *)
(***************************************************************************)
\* No block is larger than memory after the current one has ended.
LEMMA EndedFits ==
  ASSUME IsBlockTable(block_table), NEW size \in Nat, NEW address \in Nat, address <= size,
         \A block \in DOMAIN block_table : block_table[block].size <= size
  PROVE  /\ DOMAIN EndedBlocks(address) = DOMAIN block_table
         /\ \A block \in DOMAIN block_table : EndedBlocks(address)[block].size <= size
<1>1. \A block \in DOMAIN block_table :
        {"start", "size"} \subseteq DOMAIN block_table[block] /\ block_table[block].size \in Nat
  BY DEF IsBlockTable
<1>2. PICK ended : ended = EndedBlocks(address)
  OBVIOUS
<1>3. CASE current_block = -1
  BY <1>3 DEF EndedBlocks
<1>4. CASE current_block # -1
  <2>1. ended = [block_table EXCEPT ![current_block].size = address]
    BY <1>2, <1>4, Zenon DEF EndedBlocks
  <2>2. DOMAIN ended = DOMAIN block_table
    BY <2>1
  <2>3. ASSUME NEW block \in DOMAIN block_table PROVE ended[block].size <= size
    <3>1. CASE block = current_block
      <4>1. ended[block].size = address
        BY <1>1, <2>1, <3>1
      <4> QED  BY <4>1
    <3>2. CASE block # current_block
      BY <2>1, <3>2
    <3> QED  BY <3>1, <3>2
  <2> QED  BY <1>2, <2>2, <2>3
<1> QED  BY <1>3, <1>4

\* Every line keeps the blocks, and their number, within bounds.
LEMMA VisitFits ==
  ASSUME LiteralNamesDiffer, NEW walk \in [Nat -> Spot], FirstPass(walk), BlocksFit, VisitNode,
         phase' = "tables", NEW later \in [Nat -> Spot], FirstPass(later)'
  PROVE  BlocksFit'
<1>1. phase = "tables" /\ position <= Len(nodes)
  BY DEF VisitNode
<1>2. PICK table, solved :
        /\ table = SymbolsAt(Node) /\ solved = Solve(Node.expression, table, FALSE)
        /\ Accepted(Node, solved)
        /\ \/ BuildStart(solved)
           \/ BuildCode(table)
           \/ BuildLiteralUser(table, LiteralBytes(Node, solved))
           \/ BuildReserve(table, solved.value)
           \/ BuildEqu(solved)
           \/ BuildOrg(solved.value)
           \/ BuildUse
           \/ BuildLtorg
           \/ BuildEnd(solved.value)
           \/ BuildDirective
  BY DEF VisitNode, Reject
<1>3. /\ IsLine(Node) /\ IsTable(symbol_table) /\ IsBlockTable(block_table)
      /\ current_address \in Nat /\ start_address \in Nat
  BY <1>1, VisitedIs
<1>4. /\ start_address < AddressSize /\ current_address <= AddressSize
      /\ DOMAIN block_table \subseteq 0 .. MaxBlocks - 1
      /\ \A block \in DOMAIN block_table : block_table[block].size <= AddressSize
      /\ AddressSize \in Nat /\ MaxBlocks \in Nat
  BY <1>1, SizeAssumption, BlocksAssumption DEF BlocksFit
<1>5. current_address' \in Nat /\ current_address' <= AddressSize
  <2>1. position' \in Nat /\ later[position'] \in Spot
    <3>1. IsList(nodes') /\ position' \in 1 .. Len(nodes') + 1
      BY DEF FirstPass
    <3>2. Len(nodes') \in Nat
      BY <3>1, ListIs
    <3> QED  BY <3>1, <3>2
  <2>2. current_address' \in Nat
    BY <2>1 DEF FirstPass, IsHere, Spot
  <2>3. phase' = IF current_address' > AddressSize THEN "failed" ELSE phase
    <3>1. \E inserted, address : Advance(inserted, address)
      BY <1>2, Zenon DEF BuildStart, BuildCode, BuildLiteralUser, BuildReserve, BuildEqu, BuildOrg, BuildUse,
                  BuildLtorg, BuildEnd, BuildDirective
    <3> QED  BY <3>1 DEF Advance
  <2> QED  BY <1>4, <2>2, <2>3
<1>6. start_address' < AddressSize
  <2>1. CASE BuildStart(solved)
    <3>1. Node.kind = "START" /\ start_address' = solved.value
      BY <2>1 DEF BuildStart
    <3>2. Absolute(solved, 0, AddressSize - 1)
      BY <1>2, <3>1, AcceptedIs
    <3>3. solved.value \in Int
      <4>1. Node.expression \in Expression /\ table = symbol_table
        BY <1>2, <1>3, <3>1 DEF IsLine, SymbolsAt
      <4> QED  BY <1>2, <1>3, <4>1, SolveIs
    <3> QED  BY <1>4, <3>1, <3>2, <3>3 DEF Absolute, InLimits
  <2>2. CASE ~BuildStart(solved)
    <3>1. start_address' = start_address
      BY <1>2, <2>2 DEF BuildCode, BuildLiteralUser, BuildReserve, BuildEqu, BuildOrg, BuildUse,
                        BuildLtorg, BuildEnd, BuildDirective
    <3> QED  BY <1>4, <3>1
  <2> QED  BY <2>1, <2>2
<1>7. /\ DOMAIN block_table' \subseteq 0 .. MaxBlocks - 1
      /\ \A block \in DOMAIN block_table' : block_table'[block].size <= AddressSize
  <2>1. CASE BuildStart(solved)
    <3>1. block_table' = [block_table EXCEPT ![0].start = solved.value]
      BY <2>1 DEF BuildStart
    <3>2. \A block \in DOMAIN block_table : block_table'[block].size = block_table[block].size
      BY <1>3, <3>1 DEF IsBlockTable
    <3> QED  BY <1>4, <3>1, <3>2
  <2>2. CASE BuildOrg(solved.value)
    <3>1. block_table' = EndedBlocks(current_address)
      BY <2>2 DEF BuildOrg
    <3> QED  BY <1>3, <1>4, <3>1, EndedFits
  <2>3. CASE BuildEnd(solved.value)
    <3>1. block_table' = EndedBlocks(AfterLiterals) /\ current_address' = AfterLiterals
      BY <2>3 DEF BuildEnd, Advance
    <3> QED  BY <1>3, <1>4, <1>5, <3>1, EndedFits
  <2>4. CASE BuildUse
    <3>1. PICK block, ended, new :
            /\ block = BlockNumber(Node.block_name) /\ ended = EndedBlocks(current_address)
            /\ new = [b \in {block} |-> NewBlock(Node.block_name)]
      OBVIOUS
    <3>2. block < MaxBlocks /\ block_table' = With(ended, new)
      BY <2>4, <3>1 DEF BuildUse
    <3>3. DOMAIN ended = DOMAIN block_table
          /\ \A b \in DOMAIN block_table : ended[b].size <= AddressSize
      BY <1>3, <1>4, <3>1, EndedFits
    <3>4. block \in Nat
      <4>1. PICK n \in Nat : DOMAIN block_table = 0 .. n - 1
        BY <1>3 DEF IsBlockTable
      <4>2. block \in 0 .. n
        BY <3>1, <4>1, BlockNumberIs
      <4> QED  BY <4>2
    <3>5. DOMAIN new = {block} /\ new[block].size = 0
      BY <3>1, NewBlockIs
    <3>6. /\ DOMAIN block_table' = DOMAIN block_table \cup {block}
          /\ \A b \in DOMAIN block_table' :
               block_table'[b] = IF b \in DOMAIN block_table THEN ended[b] ELSE new[b]
      BY <3>2, <3>3, <3>5 DEF With
    <3>7. DOMAIN block_table' \subseteq 0 .. MaxBlocks - 1
      BY <1>4, <3>2, <3>4, <3>6
    <3>8. ASSUME NEW b \in DOMAIN block_table' PROVE block_table'[b].size <= AddressSize
      <4>1. CASE b \in DOMAIN block_table
        BY <3>3, <3>6, <4>1
      <4>2. CASE b \notin DOMAIN block_table
        <5>1. b = block /\ block_table'[b] = new[block]
          BY <3>6, <4>2
        <5> QED  BY <1>4, <3>5, <5>1
      <4> QED  BY <4>1, <4>2
    <3> QED  BY <3>7, <3>8
  <2>5. CASE ~BuildStart(solved) /\ ~BuildOrg(solved.value) /\ ~BuildEnd(solved.value) /\ ~BuildUse
    <3>1. block_table' = block_table
      BY <1>2, <2>5 DEF BuildCode, BuildLiteralUser, BuildReserve, BuildEqu, BuildLtorg,
                        BuildDirective
    <3> QED  BY <1>4, <3>1
  <2> QED  BY <2>1, <2>2, <2>3, <2>4, <2>5
<1> QED  BY <1>5, <1>6, <1>7 DEF BlocksFit

LEMMA FitStep ==
  ASSUME LiteralNamesDiffer, IInv, BlocksFit, [Next]_vars
  PROVE  BlocksFit'
<1> SUFFICES ASSUME phase' = "tables" PROVE BlocksFit'
  BY DEF BlocksFit
<1>1. CASE Parse
  <2>1. /\ TablesInit /\ UNCHANGED <<block_table, start_address, current_address>>
    BY <1>1 DEF Parse, IInv, table_vars
  <2>2. /\ start_address' = 0 /\ current_address' = 0
        /\ block_table' = [block \in {0} |-> NewBlock(DefaultBlock)]
    BY <2>1 DEF TablesInit
  <2>3. AddressSize \in Nat /\ 0 < AddressSize /\ MaxBlocks \in Nat /\ 0 < MaxBlocks
    BY SizeAssumption, BlocksAssumption
  <2>4. ASSUME NEW block \in DOMAIN block_table' PROVE block_table'[block].size = 0
    BY <2>2, NewBlockIs
  <2> QED  BY <2>2, <2>3, <2>4 DEF BlocksFit
<1>2. CASE VisitNode /\ UNCHANGED code_vars
  <2>1. phase = "tables" /\ position <= Len(nodes) /\ listing' = listing
    BY <1>2 DEF VisitNode, code_vars
  <2>2. PICK walk \in [Nat -> Spot] : FirstPass(walk)
    BY <2>1 DEF IInv
  <2>3. PICK later \in [Nat -> Spot] : FirstPass(later)'
    BY <1>2, <2>1, <2>2, VisitIs
  <2> QED  BY <1>2, <2>2, <2>3, VisitFits
<1>3. ~FinishTables
  BY DEF FinishTables
<1>4. ~GenerateCode
  BY DEF GenerateCode, Generating, BeginCode, GenerateInstruction, GenerateFS34, GenerateInit,
         GenerateReserve, GenerateLiteral, GenerateStart, GenerateOrg, GenerateUse, GoTo,
         GenerateBase, GenerateNothing, Refuse, EndCode
<1>5. CASE UNCHANGED vars
  BY <1>5 DEF vars, table_vars, BlocksFit
<1> QED  BY <1>1, <1>2, <1>3, <1>4, <1>5 DEF Next, BuildTables

\* The sums of the sizes.
LEMMA SumsAre ==
  ASSUME NEW walk \in [Nat -> Spot], FirstPass(walk), BlocksFit, phase = "tables"
  PROVE  SumsFit
<1>1. /\ IsBlockTable(block_table) /\ start_address \in Nat
      /\ start_address < AddressSize /\ DOMAIN block_table \subseteq 0 .. MaxBlocks - 1
      /\ \A block \in DOMAIN block_table : block_table[block].size <= AddressSize
      /\ AddressSize \in Nat /\ MaxBlocks \in Nat
  BY SizeAssumption, BlocksAssumption DEF FirstPass, BlocksFit
<1>2. PICK n \in Nat \ {0} : DOMAIN block_table = 0 .. n - 1
  BY <1>1 DEF IsBlockTable
<1>3. Cardinality(DOMAIN block_table) = n
  <2>1. Cardinality(0 .. n - 1) = IF 0 > n - 1 THEN 0 ELSE (n - 1) - 0 + 1
    BY 0 \in Int, n - 1 \in Int, FS_Interval
  <2> QED  BY <1>2, <2>1
<1>4. n <= MaxBlocks
  <2>1. n - 1 \in 0 .. MaxBlocks - 1
    BY <1>1, <1>2
  <2> QED  BY <1>1, <2>1
<1>5. /\ OrderedStart(0) = start_address
      /\ \A block \in 0 .. n - 1 :
           /\ block_table[block].size \in Nat
           /\ OrderedStart(block + 1) = OrderedStart(block) + block_table[block].size
  BY <1>1, <1>2, StartsAre
<1> DEFINE N == {i \in Nat : i <= n => OrderedStart(i) \in Nat
                                      /\ OrderedStart(i) < (i + 1) * AddressSize}
<1>6. 0 \in N
  BY <1>1, <1>5
<1>7. ASSUME NEW i \in Nat, i \in N PROVE i + 1 \in N
  <2> SUFFICES ASSUME i + 1 <= n
               PROVE  OrderedStart(i + 1) \in Nat /\ OrderedStart(i + 1) < (i + 2) * AddressSize
    OBVIOUS
  <2>1. i \in 0 .. n - 1 /\ i \in DOMAIN block_table
    BY <1>2
  <2>2. PICK x, size, top : /\ x = OrderedStart(i) /\ size = block_table[i].size
                            /\ top = (i + 1) * AddressSize
    OBVIOUS
  <2>3. x \in Nat /\ x < top /\ size \in Nat /\ size <= AddressSize
        /\ OrderedStart(i + 1) = x + size
    BY <1>1, <1>5, <1>7, <2>1, <2>2
  <2>4. (i + 2) * AddressSize = top + AddressSize /\ top \in Nat
    BY <1>1, <2>2
  <2> QED  BY <1>1, <2>3, <2>4
<1>8. Nat \subseteq N
  <2> HIDE DEF N
  <2> QED  BY <1>6, <1>7, Naturals
<1>9. ASSUME NEW block \in 0 .. n
      PROVE  OrderedStart(block) < (MaxBlocks + 1) * AddressSize
  <2>1. block \in N /\ block \in Nat /\ block <= n
    BY <1>8
  <2>2. OrderedStart(block) \in Nat /\ OrderedStart(block) < (block + 1) * AddressSize
    BY <2>1
  <2>3. (block + 1) * AddressSize <= (MaxBlocks + 1) * AddressSize
    BY <1>1, <1>4, <2>1
  <2>4. (block + 1) * AddressSize \in Nat /\ (MaxBlocks + 1) * AddressSize \in Nat
    BY <1>1, <2>1
  <2> QED  BY <2>2, <2>3, <2>4
<1> QED  BY <1>3, <1>9 DEF SumsFit

\* The sums of a start address and the sizes of blocks, which block_table.cc takes
\* as uint32, are below (MaxBlocks + 1) * AddressSize, which is 2^32 at most where
\* an address has 20 bits: they do not wrap, and are the numbers of OrderedStart.
THEOREM BlockSumsFit ==
  ASSUME LiteralNamesDiffer
  PROVE  Spec => []SumsFit
<1>1. Init => BlocksFit
  BY DEF Init, TablesInit, BlocksFit
<1>2. IInv /\ BlocksFit /\ [Next]_vars => BlocksFit'
  BY FitStep
<1>3. IInv /\ BlocksFit => SumsFit
  <2> SUFFICES ASSUME IInv, BlocksFit, phase = "tables" PROVE SumsFit
    BY DEF SumsFit
  <2>1. PICK walk \in [Nat -> Spot] : FirstPass(walk)
    BY DEF IInv
  <2> QED  BY <2>1, SumsAre
<1> QED  BY <1>1, <1>2, <1>3, AssemblerInductive, PTL DEF Spec
=============================================================================
