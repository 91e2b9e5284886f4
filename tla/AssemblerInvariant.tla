-------------------------- MODULE AssemblerInvariant --------------------------
(***************************************************************************)
(* The inductive invariant of the assembler.  The two passes go over the   *)
(* same lines, with other variables: the first has a block and an address  *)
(* in it and notes the size of a block when it leaves it, the second has   *)
(* an address and notes where a block that it leaves goes on.  Both are    *)
(* compared with one walk over the lines, which no variable holds: the     *)
(* invariant says that there is a walk on which the pass is.               *)
(***************************************************************************)
EXTENDS Assembler

-----------------------------------------------------------------------------
(***************************************************************************)
(* Lines.                                                                  *)
(***************************************************************************)
\* A list is a sequence of whatever it holds.
IsList(s) == s \in Seq({s[k] : k \in DOMAIN s})

Operand ==
  [type : {"INTEGER"}, integer : Nat] \cup [type : {"NAME"}, name : STRING]

Factor == [op : {"*", "/"}, operand : Operand]

TermRecord == [sign : {1, -1}, operand : Operand, factors : Seq(Factor)]

Expression == Seq(TermRecord)

LineKinds == {"START", "END", "ORG", "EQU", "USE", "LTORG", "BASE", "NOBASE", "EXTDEF", "EXTREF",
              "INIT", "RESERVE", "F1", "F2", "FS34", "EMPTY"}

\* A line as the parser makes it: the fields of its kind, and none of those that the
\* first pass fills in.
IsLine(line) ==
  /\ {"kind", "label", "expression"} \subseteq DOMAIN line
  /\ line.kind \in LineKinds
  /\ line.label \in Names \cup {NoLabel}
  /\ line.expression \in Expression
  /\ line.kind \in {"START", "EQU"} => line.label # NoLabel
  /\ line.kind \in Unlabelled \cup {"EMPTY"} => line.label = NoLabel
  /\ line.kind = "ORG" => "address" \notin DOMAIN line
  /\ line.kind = "USE" => "block_id" \notin DOMAIN line
  /\ line.kind = "RESERVE" => "reservation_size" \notin DOMAIN line /\ "width" \in DOMAIN line
  /\ line.kind = "FS34" => "extended" \in DOMAIN line
  /\ line.kind = "INIT" => line.data \in Seq(Int)
  /\ line.kind \in {"EXTDEF", "EXTREF"} => line.symbol_list \in Seq(STRING)
  /\ UsesLiteral(line) => line.data \in Seq(Int) /\ line.syntax \in {"LOAD_B", "LOAD_W", "LOAD_F"}

\* What is still to come from a line on: START once and first, unless it was there.
Framed(lines, first, started) ==
  /\ started => \A k \in first .. Len(lines) : lines[k].kind # "START"
  /\ ~started =>
       \A k \in first .. Len(lines) :
         /\ lines[k].kind # "EMPTY" => \E i \in first .. k : lines[i].kind = "START"
         /\ lines[k].kind = "START" =>
              \A i \in first .. Len(lines) : lines[i].kind = "START" => i = k

-----------------------------------------------------------------------------
(***************************************************************************)
(* Symbols and literals.                                                   *)
(***************************************************************************)
Entry ==
  [type : {"UNKNOWN", "INTERNAL", "EXTERNAL"}, referenced : BOOLEAN, relative : BOOLEAN,
   defined : BOOLEAN, resolved : BOOLEAN, exported : BOOLEAN, address : Nat, block : Int,
   block_address : Int]

Table == UNION {[names -> Entry] : names \in SUBSET STRING}

\* What is resolved is defined, and what is defined is a symbol of the program.
IsSound(entry) ==
  /\ entry.defined => entry.type = "INTERNAL"
  /\ ~entry.defined => ~entry.resolved

IsTable(table) == table \in Table /\ \A name \in DOMAIN table : IsSound(table[name])

\* What a symbol stands for.
Stays(before, after) ==
  /\ <<after.defined, after.resolved, after.address, after.block, after.block_address>>
       = <<before.defined, before.resolved, before.address, before.block, before.block_address>>
  /\ before.defined => after.relative = before.relative

\* Symbols are added, but none is defined.
Keeps(table, later) ==
  /\ DOMAIN table \subseteq DOMAIN later
  /\ \A name \in DOMAIN later : Stays(FindOrCreateNew(table, name), later[name])

\* Symbols are added, and of those not yet defined some are.
Extends(table, later, added) ==
  /\ DOMAIN table \subseteq DOMAIN later
  /\ \A name \in DOMAIN later \ added : Stays(FindOrCreateNew(table, name), later[name])
  /\ \A name \in added : ~FindOrCreateNew(table, name).defined

\* What is defined stays what it is: of the first pass, and the body of
\* DefinitionsStand.
Stand ==
  \A name \in DOMAIN symbol_table : symbol_table[name].defined =>
    name \in DOMAIN symbol_table' /\ Stays(symbol_table[name], symbol_table'[name])

Standing ==
  \A name \in DOMAIN symbol_table :
    symbol_table[name].defined =>
      LET before == symbol_table[name]
          after == symbol_table'[name]
      IN  /\ <<after.type, after.block, after.block_address, after.relative>>
               = <<before.type, before.block, before.block_address, before.relative>>
          /\ before.resolved => after.address = before.address

\* What a symbol has that was placed in a block.
IsPlaced(entry, block, address, start) ==
  /\ entry.defined
  /\ entry.resolved <=> block \in {-1, 0}
  /\ block = -1 => entry.address = address
  /\ block = 0 => entry.address = start + address
  /\ block \notin {-1, 0} => entry.block = block /\ entry.block_address = address

\* The names of literals are no names of the text, and differ.
LiteralNamesDiffer ==
  /\ \A id \in Nat : LiteralSymbolName(id) \in STRING \ Names
  /\ \A id, other \in Nat : LiteralSymbolName(id) = LiteralSymbolName(other) => id = other

\* The literals and their numbers.
LiteralsAre(table) ==
  /\ IsList(literal_table)
  /\ \A k \in DOMAIN literal_table : Len(literal_table[k]) \in Nat
  /\ next_literal_id \in 0 .. Len(literal_table)
  /\ literal_lookup \subseteq next_literal_id + 1 .. Len(literal_table)
  /\ \A id \in Waiting : LiteralSymbolName(id) \in DOMAIN table
  /\ \A id \in Nat : next_literal_id <= id =>
       ~FindOrCreateNew(table, LiteralSymbolName(id)).defined

-----------------------------------------------------------------------------
(***************************************************************************)
(* The walk over the lines that both passes make: at each line a block     *)
(* (-2 before START, -1 after ORG), an address in it, and the sizes that   *)
(* the blocks had when they were left.                                     *)
(***************************************************************************)
Spot == [block : Int, address : Nat, sizes : [Nat -> Nat]]

Nowhere == [block |-> -2, address |-> 0, sizes |-> [block \in Nat |-> 0]]

IsStarted(spot) == spot.block # -2

\* The sizes once the block is left.
Left(spot) ==
  IF spot.block >= 0 THEN [spot.sizes EXCEPT ![spot.block] = spot.address] ELSE spot.sizes

\* What a line takes up, once the first pass has been there.
Bytes(node) ==
  CASE node.kind \in {"F1", "F2", "FS34", "INIT"} -> NodeSize(node)
    [] node.kind = "LITERAL" -> Len(literal_table[node.literal_id + 1])
    [] node.kind = "RESERVE" -> IF node.width = "WORD" THEN 3 * node.reservation_size
                                ELSE node.reservation_size
    [] OTHER -> 0

\* The spot after a line.
After(node, spot) ==
  CASE node.kind = "START" -> [block |-> 0, address |-> 0, sizes |-> spot.sizes]
    [] node.kind = "ORG" -> [block |-> -1, address |-> node.address, sizes |-> Left(spot)]
    [] node.kind = "USE" -> [block |-> node.block_id, address |-> Left(spot)[node.block_id],
                             sizes |-> Left(spot)]
    [] OTHER -> [block |-> spot.block, address |-> spot.address + Bytes(node),
                 sizes |-> spot.sizes]

\* What the first pass notes on a line.
IsNoted(node) ==
  /\ node.kind \in LineKinds \cup {"LITERAL"}
  /\ node.kind \in {"EMPTY", "LITERAL", "ORG", "USE"} => node.label = NoLabel
  /\ node.kind = "INIT" => node.data \in Seq(Int)
  /\ node.kind = "RESERVE" => node.reservation_size \in Nat
  /\ node.kind = "ORG" => node.address \in Nat
  /\ node.kind = "USE" => node.block_id \in DOMAIN block_table
  /\ node.kind = "LITERAL" => node.literal_id \in 0 .. next_literal_id - 1

\* START comes once, and first.
IsInOrder(kind, spot) ==
  IF IsStarted(spot) THEN kind # "START" ELSE kind \in {"START", "EMPTY"}

\* A walk up to a line: it is there at every line before, and follows from it.
Walked(walk, last) ==
  /\ walk \in [Nat -> Spot] /\ walk[1] = Nowhere
  /\ \A k \in 1 .. last :
       /\ walk[k].block \in {-2, -1} \cup DOMAIN block_table
       /\ ~IsStarted(walk[k]) => walk[k] = Nowhere
  /\ \A k \in 1 .. last - 1 :
       /\ IsNoted(nodes[k])
       /\ walk[k + 1] = After(nodes[k], walk[k])
       /\ IsInOrder(nodes[k].kind, walk[k])

\* The symbol of a line, and the place that the first pass gives it.
Places(node) == node.kind = "LITERAL" \/ IsLabelled(node)

SymbolOf(node) ==
  IF node.kind = "LITERAL" THEN LiteralSymbolName(node.literal_id) ELSE node.label

PlaceOf(walk, k) == IF nodes[k].kind = "START" THEN walk[k + 1] ELSE walk[k]

\* Labels and literals up to a line have been given the places of the walk.
SymbolsPlaced(walk, last) ==
  \A k \in 1 .. last - 1 : Places(nodes[k]) =>
    /\ SymbolOf(nodes[k]) \in DOMAIN symbol_table
    /\ IsPlaced(symbol_table[SymbolOf(nodes[k])], PlaceOf(walk, k).block,
                PlaceOf(walk, k).address, start_address)

-----------------------------------------------------------------------------
(***************************************************************************)
(* The first pass.                                                         *)
(***************************************************************************)
IsBlockTable(table) ==
  /\ \E n \in Nat \ {0} : DOMAIN table = 0 .. n - 1
  /\ \A block \in DOMAIN table :
       {"start", "size"} \subseteq DOMAIN table[block] /\ table[block].size \in Nat

\* Where the pass is; END leaves the blocks for good.
IsHere(spot) ==
  /\ current_block = (IF IsStarted(spot) THEN spot.block ELSE -1)
  /\ current_address = spot.address
  /\ position <= Len(nodes) =>
       \A block \in Nat : spot.sizes[block] = IF block \in DOMAIN block_table
                                              THEN block_table[block].size ELSE 0

\* Before START there are only empty lines, and no symbol is defined.
NothingYet(spot) ==
  ~IsStarted(spot) =>
    /\ \A k \in 1 .. position - 1 : nodes[k].kind = "EMPTY"
    /\ \A name \in DOMAIN symbol_table : ~symbol_table[name].defined

\* The lines to come are as the parser made them.
IsAhead(spot) ==
  /\ \A k \in position .. Len(nodes) : IsLine(nodes[k])
  /\ Framed(nodes, position, IsStarted(spot))

\* The first pass on its way, at the line "position" of a walk.
FirstPass(walk) ==
  /\ IsList(nodes) /\ position \in 1 .. Len(nodes) + 1
  /\ IsAhead(walk[position])
  /\ Walked(walk, position)
  /\ SymbolsPlaced(walk, position)
  /\ IsTable(symbol_table)
  /\ LiteralsAre(symbol_table)
  /\ IsBlockTable(block_table)
  /\ IsHere(walk[position])
  /\ NothingYet(walk[position])
  /\ start_address \in Nat
  /\ listing = <<>>

-----------------------------------------------------------------------------
(***************************************************************************)
(* Where the lines come to lie.  A block grows only at its end.  What lies *)
(* outside of the blocks is in the segment that its ORG has opened, which  *)
(* is noted when the next ORG, USE or END closes it.                       *)
(***************************************************************************)
\* What the lines of a walk take up, and which of them are outside of the blocks.
Spans(walk, last) ==
  [k \in 1 .. last - 1 |-> [outside |-> walk[k].block = -1, first |-> walk[k].address,
                            next |-> walk[k].address + Bytes(nodes[k])]]

IsSegment(segment, start) ==
  segment \in Nat \X Nat /\ start <= segment[1] /\ segment[1] <= segment[2]

Holds(segment, span) == segment[1] <= span.first /\ span.next <= segment[2]

\* Lines outside of the blocks are in one of the segments, those closed and the one
\* that is open.  Of two lines the later one comes behind the other, or is in
\* another segment.
Parted(spans, closed, open, start) ==
  /\ \A s \in DOMAIN closed : IsSegment(closed[s], start)
  /\ \A segment \in open : IsSegment(segment, start)
  /\ \A k \in DOMAIN spans : spans[k].outside =>
       \/ \E s \in DOMAIN closed : Holds(closed[s], spans[k])
       \/ \E segment \in open : Holds(segment, spans[k])
  /\ \A j, k \in DOMAIN spans : j < k /\ spans[j].outside /\ spans[k].outside =>
       \/ spans[j].next <= spans[k].first
       \/ \E s \in DOMAIN closed :
            /\ Holds(closed[s], spans[j])
            /\ \/ \E t \in DOMAIN closed : t # s /\ Holds(closed[t], spans[k])
               \/ \E segment \in open : Holds(segment, spans[k])

\* The segment that goes on; END closes the last one.
OpenSegments(walk) ==
  IF position <= Len(nodes) /\ walk[position].block = -1
  THEN {<<segment_start, current_address>>} ELSE {}

\* What the first pass knows of where the lines lie.  END comes, and then the sizes
\* of all blocks have been noted.
Laid(walk) ==
  /\ IsList(segments)
  /\ Parted(Spans(walk, position), segments, OpenSegments(walk), start_address)
  /\ ~IsStarted(walk[position]) => segments = <<>>
  /\ IF position <= Len(nodes) THEN \E k \in position .. Len(nodes) : nodes[k].kind = "END"
     ELSE \A block \in DOMAIN block_table :
            block_table[block].size = Left(walk[position])[block]

-----------------------------------------------------------------------------
(***************************************************************************)
(* The second pass.                                                        *)
(***************************************************************************)
\* The address of a spot, once the blocks have been ordered.
AddressOf(spot) ==
  IF ~IsStarted(spot) THEN 0
  ELSE IF spot.block = -1 THEN spot.address
  ELSE block_table[spot.block].start + spot.address

\* The lines and tables that the first pass leaves.
IsSettled(walk) ==
  /\ IsList(nodes)
  /\ Walked(walk, Len(nodes) + 1)
  /\ IsList(literal_table) /\ next_literal_id \in 0 .. Len(literal_table)
  /\ \A k \in DOMAIN literal_table : Len(literal_table[k]) \in Nat
  /\ \E n \in Nat \ {0} : DOMAIN block_table = 0 .. n - 1
  /\ \A block \in DOMAIN block_table : block_table[block].start \in Int
  /\ \A k \in 1 .. Len(nodes) : Places(nodes[k]) =>
       symbol_table[SymbolOf(nodes[k])].address = AddressOf(PlaceOf(walk, k))

\* No two lines share an address, and all are inside the program.
LinesApart(walk) ==
  \A j \in 1 .. Len(nodes) : Bytes(nodes[j]) > 0 =>
    /\ start_address <= AddressOf(walk[j])
    /\ AddressOf(walk[j]) + Bytes(nodes[j]) <= end_address
    /\ \A k \in 1 .. Len(nodes) : j < k /\ Bytes(nodes[k]) > 0 =>
         \/ AddressOf(walk[j]) + Bytes(nodes[j]) <= AddressOf(walk[k])
         \/ AddressOf(walk[k]) + Bytes(nodes[k]) <= AddressOf(walk[j])

\* Where each block goes on, seen from a line.
BlocksGoOn(spot) ==
  block_addresses = [block \in DOMAIN block_table |->
                       block_table[block].start + spot.sizes[block]]

\* Where a line is listed: START, ORG and USE where they go.
ListedAt(walk, k) == IF nodes[k].kind \in {"START", "ORG", "USE"} THEN walk[k + 1] ELSE walk[k]

\* The second pass on its way, on the walk of the first.
IsRunning(walk) ==
  /\ position \in 1 .. Len(nodes) + 1
  /\ current_block = (IF IsStarted(walk[position]) THEN walk[position].block ELSE 0)
  /\ current_address = AddressOf(walk[position])
  /\ BlocksGoOn(walk[position])
  /\ IsList(listing) /\ Len(listing) = position - 1
  /\ \A k \in 1 .. Len(listing) : listing[k] = AddressOf(ListedAt(walk, k))

-----------------------------------------------------------------------------
(***************************************************************************)
(* The sums of block_table.cc.  The first pass fails where an address goes *)
(* over the end of memory, so that no block is larger.                     *)
(***************************************************************************)
BlocksFit ==
  phase = "tables" =>
    /\ start_address < AddressSize /\ current_address <= AddressSize
    /\ DOMAIN block_table \subseteq 0 .. MaxBlocks - 1
    /\ \A block \in DOMAIN block_table : block_table[block].size <= AddressSize

\* Each start of a block, and the end of the last one.
SumsFit ==
  phase = "tables" =>
    \A block \in 0 .. Cardinality(DOMAIN block_table) :
      OrderedStart(block) < (MaxBlocks + 1) * AddressSize

-----------------------------------------------------------------------------
\* The inductive invariant.  Every phase from the first pass on has a walk.
IInv ==
  /\ IsText(text)
  /\ phase = "parse" => TablesInit /\ listing = <<>>
  /\ phase = "tables" => \E walk \in [Nat -> Spot] : FirstPass(walk) /\ Laid(walk)
  /\ phase = "begin" =>
       listing = <<>> /\ \E walk \in [Nat -> Spot] : IsSettled(walk) /\ LinesApart(walk)
  /\ phase \in {"code", "done"} =>
       \E walk \in [Nat -> Spot] : IsSettled(walk) /\ LinesApart(walk) /\ IsRunning(walk)
  /\ PassesAgree
=============================================================================
