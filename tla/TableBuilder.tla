---------------------------- MODULE TableBuilder ----------------------------
(***************************************************************************)
(* The first pass of the assembler (table_builder.cc with block_table.cc,  *)
(* literal_table.cc and code.cc).  It walks over the parsed lines, finds   *)
(* the address of every symbol, inserts the pools of literals into the     *)
(* list of lines, and then gives every block its place.                    *)
(***************************************************************************)
EXTENDS Lines, InstructionSet

CONSTANT MaxBlocks  \* bound: the blocks of a text, the default block among them

(***************************************************************************)
(* block_table.cc adds the sizes of the blocks up as uint32, and the model *)
(* as numbers.  With a start address below 2^20 and sizes of at most 2^20, *)
(* fewer than 4096 blocks do not fill 32 bits (BlockSumsFit, a theorem),   *)
(* and the two agree; a text with more of them is not modelled.            *)
(***************************************************************************)
ASSUME BlocksAssumption == MaxBlocks \in 1 .. 4095

VARIABLES
  nodes,            \* the lines, with what the pass notes on them
  position,         \* the line that is visited next
  phase,            \* "parse", "tables", "code", "done", or "failed"; "crashed" is undefined behaviour
  symbol_table,
  block_table,      \* number of a block, from 0, to its name, start and size
  literal_table,    \* the literals as bytes, by their number less one
  literal_lookup,   \* the literals that are found again: those not yet in a pool
  next_literal_id,  \* literals in the pools so far
  start_address, entry_point, end_address,
  segments,         \* what lies outside the blocks, as pairs of first and next address
  segment_start,
  current_block,    \* -1 between ORG and USE; of the pass that runs, as is
  current_address   \* the next one, which in this pass counts from the block's start

table_vars == <<symbol_table, block_table, literal_table, literal_lookup, next_literal_id,
                start_address, entry_point, end_address, segments, segment_start>>

-----------------------------------------------------------------------------
(***************************************************************************)
(* The size of a line.                                                     *)
(***************************************************************************)
RoundUp(size) == ((size + 2) \div 3) * 3

\* The bytes by which both passes advance over a line that is no literal.
InitSize(node) ==
  IF node.data = NoData THEN (IF node.width = "WORD" THEN 3 ELSE 1)
  ELSE IF node.width = "WORD" THEN RoundUp(Len(node.data)) ELSE Len(node.data)

NodeSize(node) == CASE node.kind = "F1"   -> 1
                    [] node.kind = "F2"   -> 2
                    [] node.kind = "FS34" -> IF node.extended THEN 4 ELSE 3
                    [] node.kind = "INIT" -> InitSize(node)

-----------------------------------------------------------------------------
(***************************************************************************)
(* Symbols.                                                                *)
(***************************************************************************)
\* The address fields of a symbol at the current address.
Placed(entry, address) ==
  [entry EXCEPT !.type = "INTERNAL", !.relative = TRUE, !.defined = TRUE,
                !.block = current_block, !.block_address = address,
                !.resolved = @ \/ current_block \in {-1, 0},
                !.address = CASE current_block = -1 -> address
                              [] current_block = 0  -> start_address + address
                              [] OTHER              -> @]

\* Mutant: a second definition replaces the first.
CanDefineAgain(name) == FindOrCreateNew(symbol_table, name).type # "EXTERNAL"

CanDefine(name) ==
  LET entry == FindOrCreateNew(symbol_table, name)
  IN  entry.type # "EXTERNAL" /\ ~entry.defined

DefineSymbol(name) ==
  WithEntry(symbol_table, name, Placed(FindOrCreateNew(symbol_table, name), current_address))

LabelFits(node)  == node.label # NoLabel => CanDefine(node.label)
WithLabel(node) == IF node.label = NoLabel THEN symbol_table ELSE DefineSymbol(node.label)

ReferenceSymbols(table, names) ==
  [name \in DOMAIN table \cup names |->
     IF name \in names THEN [FindOrCreateNew(table, name) EXCEPT !.referenced = TRUE]
     ELSE table[name]]

CanImport(table, name) == FindOrCreateNew(table, name).type # "INTERNAL"

ImportSymbol(table, name) ==
  WithEntry(table, name, [FindOrCreateNew(table, name) EXCEPT !.type = "EXTERNAL",
                                                            !.relative = TRUE])

CanExport(table, name) ==
  LET entry == FindOrCreateNew(table, name)
  IN  entry.type # "EXTERNAL" /\ (entry.exported \/ ~entry.defined \/ entry.relative)

ExportSymbol(table, name) ==
  LET entry == FindOrCreateNew(table, name)
  IN  WithEntry(table, name,
        [entry EXCEPT !.type = "INTERNAL", !.relative = @ \/ entry.type = "UNKNOWN",
                      !.exported = TRUE, !.referenced = @ \/ ~entry.exported])

-----------------------------------------------------------------------------
(***************************************************************************)
(* Literals.                                                               *)
(***************************************************************************)
LiteralSize(syntax) == CASE syntax = "LOAD_B" -> 1
                         [] syntax = "LOAD_W" -> 3
                         [] syntax = "LOAD_F" -> 6

BytesOf(value, size) == [k \in 1 .. size |-> (value \div ByteSize ^ (size - k)) % ByteSize]

\* Data shorter than the literal is its last bytes.
Padded(data, size) == [k \in 1 .. size - Len(data) |-> 0] \o data

\* The values that fit into a byte or a word, signed or not.
Minimum(size) == -(ByteSize ^ size \div 2)
Maximum(size) == ByteSize ^ size - 1

LiteralBytes(node, solved) ==
  LET size == LiteralSize(node.syntax)
  IN  IF node.data = NoData THEN BytesOf(solved.value % ByteSize ^ size, size)
                            ELSE Padded(node.data, size)

LiteralSymbolName(literal_id) == "*" \o ToString(literal_id)

\* The number of a literal: an old one, if it waits for the same pool, or a new one.
LiteralId(bytes) ==
  LET found == {k \in literal_lookup : literal_table[k] = bytes}
  IN  IF found = {} THEN Len(literal_table) ELSE (CHOOSE k \in found : TRUE) - 1

\* The literals that InsertLiterals places, and where it places one of them.
Waiting == next_literal_id .. Len(literal_table) - 1

LiteralOffset(literal_id) ==
  SumFunction([k \in next_literal_id + 1 .. literal_id |-> Len(literal_table[k])])

\* Every waiting literal has been referenced, so its symbol is in the table.
PooledSymbols ==
  [name \in DOMAIN symbol_table |->
     IF \E id \in Waiting : name = LiteralSymbolName(id)
     THEN LET id == CHOOSE id \in Waiting : name = LiteralSymbolName(id)
          IN  Placed(symbol_table[name], current_address + LiteralOffset(id))
     ELSE symbol_table[name]]

InsertLiterals ==
  /\ literal_lookup' = {}
  /\ next_literal_id' = Len(literal_table)
  /\ symbol_table' = PooledSymbols

LiteralLines == [k \in 1 .. Cardinality(Waiting) |-> InternalLiteral(next_literal_id + k - 1)]

AfterLiterals == current_address + LiteralOffset(Len(literal_table))

-----------------------------------------------------------------------------
(***************************************************************************)
(* The visits.  A line that is in error ends the assembly, whose tables    *)
(* are then dropped (Reject).                                              *)
(***************************************************************************)
Node == nodes[position]

\* To the line after the next inserted ones, unless the address overflows.
Advance(inserted, address) ==
  /\ current_address' = address
  /\ position' = position + inserted + 1
  /\ phase' = IF address > AddressSize THEN "failed" ELSE phase

UsesLiteral(node) == node.kind = "FS34" /\ node.addressing = "LITERAL_POOL"

\* The symbols when the expression of a line is evaluated: its own label is
\* among them, and END has written the last pool.
SymbolsAt(node) ==
  CASE node.kind \in {"F1", "F2", "FS34", "INIT", "RESERVE"} -> WithLabel(node)
    [] node.kind = "END" -> PooledSymbols
    [] OTHER -> symbol_table

Absolute(solved, minimum, maximum) == InLimits(solved, minimum, maximum) /\ ~solved.relative

OrgFits(solved) == Absolute(solved, 0, AddressSize - 1) /\ solved.value >= start_address

EquFits(node, solved) ==
  /\ CanDefine(node.label)
  /\ ~node.assign_current_address =>
       /\ InLimits(solved, 0, AddressSize - 1)
       /\ FindOrCreateNew(symbol_table, node.label).exported => solved.relative

LiteralFits(node, solved) ==
  node.data = NoData =>
    Absolute(solved, Minimum(LiteralSize(node.syntax)), Maximum(LiteralSize(node.syntax)))

\* EXTDEF and EXTREF, their symbols one after the other up to one that is refused.
Export(list) ==
  FoldLeft(LAMBDA done, name : [ok |-> done.ok /\ CanExport(done.table, name),
                                table |-> ExportSymbol(done.table, name)],
           [ok |-> TRUE, table |-> symbol_table], list)

Import(list) ==
  FoldLeft(LAMBDA done, name : [ok |-> done.ok /\ CanImport(done.table, name),
                                table |-> ImportSymbol(done.table, name)],
           [ok |-> TRUE, table |-> symbol_table], list)

\* Whether a line is free of errors; "solved" is the value of its expression.
Accepted(node, solved) ==
  CASE node.kind = "START"   -> Absolute(solved, 0, AddressSize - 1)
    [] node.kind = "END"     -> InLimits(solved, 0, AddressSize - 1) /\ solved.relative
    [] node.kind = "ORG"     -> OrgFits(solved)
    [] node.kind = "EQU"     -> EquFits(node, solved)
    [] node.kind = "EXTDEF"  -> Export(node.symbol_list).ok
    [] node.kind = "EXTREF"  -> Import(node.symbol_list).ok
    [] node.kind = "RESERVE" -> LabelFits(node) /\ Absolute(solved, 1, AddressSize - 1)
    [] OTHER -> LabelFits(node) /\ (UsesLiteral(node) => LiteralFits(node, solved))

Reject ==
  /\ phase' = "failed"
  /\ UNCHANGED <<nodes, position, table_vars, current_block, current_address>>

BuildStart(solved) ==
  /\ Node.kind = "START"
  /\ start_address' = solved.value
  /\ block_table' = [block_table EXCEPT ![0].start = solved.value]
  /\ symbol_table' = WithEntry(symbol_table, Node.label,
       [NewEntry EXCEPT !.type = "INTERNAL", !.relative = TRUE, !.defined = TRUE,
                        !.resolved = TRUE, !.exported = TRUE, !.address = solved.value,
                        !.block = 0])
  /\ current_block' = 0
  /\ Advance(0, 0)
  /\ UNCHANGED <<nodes, literal_table, literal_lookup, next_literal_id, entry_point, end_address,
                 segments, segment_start>>

\* Instructions and BYTE or WORD.
BuildCode(table) ==
  /\ Node.kind \in {"F1", "F2", "FS34", "INIT"} /\ ~UsesLiteral(Node)
  /\ symbol_table' = ReferenceSymbols(table, NamesOf(Node.expression))
  /\ Advance(0, current_address + NodeSize(Node))
  /\ UNCHANGED <<nodes, block_table, literal_table, literal_lookup, next_literal_id,
                 start_address, entry_point, end_address, segments, segment_start, current_block>>

BuildLiteralUser(table, bytes) ==
  /\ UsesLiteral(Node)
  /\ LET id == LiteralId(bytes)
     IN  /\ literal_table' = IF id < Len(literal_table) THEN literal_table
                             ELSE Append(literal_table, bytes)
         /\ literal_lookup' = literal_lookup \cup {id + 1}
         /\ nodes' = [nodes EXCEPT ![position] = With(@, [literal_id |-> id])]
         /\ symbol_table' = ReferenceSymbols(table, {LiteralSymbolName(id)})
  /\ Advance(0, current_address + NodeSize(Node))
  /\ UNCHANGED <<block_table, next_literal_id, start_address, entry_point, end_address,
                 segments, segment_start, current_block>>

BuildReserve(table, size) ==
  /\ Node.kind = "RESERVE"
  /\ symbol_table' = table
  /\ nodes' = [nodes EXCEPT ![position] = With(@, [reservation_size |-> size])]
  /\ Advance(0, current_address + (IF Node.width = "WORD" THEN 3 * size ELSE size))
  /\ UNCHANGED <<block_table, literal_table, literal_lookup, next_literal_id, start_address,
                 entry_point, end_address, segments, segment_start, current_block>>

BuildEqu(solved) ==
  /\ Node.kind = "EQU"
  /\ symbol_table' =
       IF Node.assign_current_address THEN DefineSymbol(Node.label)
       ELSE WithEntry(symbol_table, Node.label,
              [FindOrCreateNew(symbol_table, Node.label) EXCEPT
                 !.type = "INTERNAL", !.relative = solved.relative, !.defined = TRUE,
                 !.resolved = TRUE, !.address = solved.value, !.block = -1,
                 !.block_address = solved.value])
  /\ Advance(0, current_address)
  /\ UNCHANGED <<nodes, block_table, literal_table, literal_lookup, next_literal_id,
                 start_address, entry_point, end_address, segments, segment_start, current_block>>

\* The segments and the blocks when the current one ends at an address.
EndedSegments(address) ==
  IF current_block = -1 THEN Append(segments, <<segment_start, address>>) ELSE segments

EndedBlocks(address) ==
  IF current_block = -1 THEN block_table ELSE [block_table EXCEPT ![current_block].size = address]

BuildOrg(value) ==
  /\ Node.kind = "ORG"
  /\ segment_start' = value
  /\ nodes' = [nodes EXCEPT ![position] = With(@, [address |-> value])]
  /\ Advance(0, value)
  /\ current_block' = -1
  /\ segments' = EndedSegments(current_address)
  /\ block_table' = EndedBlocks(current_address)
  /\ UNCHANGED <<symbol_table, literal_table, literal_lookup, next_literal_id, start_address,
                 entry_point, end_address>>

\* FindNameOrCreate; USE without a name is the default block.
BlockNumber(name) ==
  LET found == {block \in DOMAIN block_table : block_table[block].name = name}
  IN  IF found = {} THEN Cardinality(DOMAIN block_table) ELSE CHOOSE block \in found : TRUE

NewBlock(name) == [name |-> name, start |-> 0, size |-> 0]

\* Mutant: a block starts anew when it is used again.
BuildUseFromZero ==
  /\ Node.kind = "USE" /\ BlockNumber(Node.block_name) < MaxBlocks
  /\ LET block == BlockNumber(Node.block_name)
         ended == EndedBlocks(current_address)
     IN  /\ block_table' = With([b \in {block} |-> NewBlock(Node.block_name)], ended)
         /\ nodes' = [nodes EXCEPT ![position] = With(@, [block_id |-> block])]
         /\ current_block' = block
         /\ Advance(0, 0)
  /\ segments' = EndedSegments(current_address)
  /\ UNCHANGED <<symbol_table, literal_table, literal_lookup, next_literal_id, start_address,
                 entry_point, end_address, segment_start>>

BuildUse ==
  /\ Node.kind = "USE" /\ BlockNumber(Node.block_name) < MaxBlocks
  /\ LET block == BlockNumber(Node.block_name)
         ended == EndedBlocks(current_address)
     IN  /\ block_table' = With(ended, [b \in {block} |-> NewBlock(Node.block_name)])
         /\ nodes' = [nodes EXCEPT ![position] = With(@, [block_id |-> block])]
         /\ current_block' = block
         /\ Advance(0, block_table'[block].size)
  /\ segments' = EndedSegments(current_address)
  /\ UNCHANGED <<symbol_table, literal_table, literal_lookup, next_literal_id, start_address,
                 entry_point, end_address, segment_start>>

BuildLtorg ==
  /\ Node.kind = "LTORG"
  /\ InsertLiterals
  /\ nodes' = SubSeq(nodes, 1, position) \o LiteralLines \o SubSeq(nodes, position + 1, Len(nodes))
  /\ Advance(Len(LiteralLines), AfterLiterals)
  /\ UNCHANGED <<block_table, literal_table, start_address, entry_point, end_address, segments,
                 segment_start, current_block>>

\* END is the last line: the empty ones that may follow, which both passes only walk
\* over, are left out.
BuildEnd(value) ==
  /\ Node.kind = "END"
  /\ InsertLiterals
  /\ nodes' = SubSeq(nodes, 1, position - 1) \o LiteralLines \o <<Node>>
  /\ Advance(Len(LiteralLines), AfterLiterals)
  /\ segments' = EndedSegments(AfterLiterals)
  /\ block_table' = EndedBlocks(AfterLiterals)
  /\ entry_point' = value
  /\ UNCHANGED <<literal_table, start_address, end_address, segment_start, current_block>>

\* EXTDEF, EXTREF and BASE; NOBASE and empty lines change nothing.
BuildDirective ==
  /\ \/ Node.kind = "EXTDEF" /\ symbol_table' = Export(Node.symbol_list).table
     \/ Node.kind = "EXTREF" /\ symbol_table' = Import(Node.symbol_list).table
     \/ /\ Node.kind \in {"BASE", "NOBASE", "EMPTY"}
        /\ symbol_table' = ReferenceSymbols(symbol_table, NamesOf(Node.expression))
  /\ Advance(0, current_address)
  /\ UNCHANGED <<nodes, block_table, literal_table, literal_lookup, next_literal_id,
                 start_address, entry_point, end_address, segments, segment_start, current_block>>

VisitNode ==
  /\ phase = "tables" /\ position <= Len(nodes)
  /\ \E table \in {SymbolsAt(Node)} : \E solved \in {Solve(Node.expression, table, FALSE)} :
       \/ ~Accepted(Node, solved) /\ Reject
       \/ /\ Accepted(Node, solved)
          /\ \/ BuildStart(solved)
             \/ BuildCode(table)
             \/ BuildLiteralUser(table, LiteralBytes(Node, solved))
             \/ BuildReserve(table, solved.value)
             \/ BuildEqu(solved)
             \/ BuildOrg(solved.value)
             \/ BuildUse
             \/ BuildLtorg
             \/ BuildEnd(solved.value)
             \/ BuildDirective

-----------------------------------------------------------------------------
(***************************************************************************)
(* The end of the pass: the blocks are laid out one after the other from   *)
(* the start address, and what lies outside of them must not reach into    *)
(* them or into itself.                                                    *)
(***************************************************************************)
\* With no more than MaxBlocks of them the sum stays below 2^32.
OrderedStart(block) ==
  start_address + SumFunction([b \in 0 .. block - 1 |-> block_table[b].size])

BlocksEnd == OrderedStart(Cardinality(DOMAIN block_table))

OrderBlocks ==
  [block \in DOMAIN block_table |-> [block_table[block] EXCEPT !.start = OrderedStart(block)]]

AllSegments == Append(segments, <<start_address, BlocksEnd>>)

\* The begins and ends of the segments.
SegmentMarks ==
  [k \in 1 .. 2 * Len(AllSegments) |->
     IF k <= Len(AllSegments) THEN <<AllSegments[k][1], 0>>
     ELSE <<AllSegments[k - Len(AllSegments)][2], 1>>]

\* The number of those that come before one when they are sorted: those of lower
\* addresses, and at the same address begins before ends.
Rank(k) ==
  Cardinality({m \in DOMAIN SegmentMarks :
    LET e == SegmentMarks[m]
        f == SegmentMarks[k]
    IN  e[1] < f[1] \/ (e[1] = f[1] /\ (e[2] < f[2] \/ (e[2] = f[2] /\ m < k)))})

SegmentEvents ==
  [place \in DOMAIN SegmentMarks |->
     SegmentMarks[CHOOSE k \in DOMAIN SegmentMarks : Rank(k) = place - 1]]

\* Mutant: only a segment inside another one intersects it.
IntersectsWhereNested ==
  \E i, j \in DOMAIN AllSegments :
    i # j /\ AllSegments[i][1] < AllSegments[j][1] /\ AllSegments[j][2] < AllSegments[i][2]

\* CheckIntersect counts the segments that are open: an intersection begins
\* where a second one opens and ends where only one is left.
Intersects ==
  LET Sweep(swept, event) ==
        IF event[2] = 1
        THEN [swept EXCEPT !.count = @ - 1,
                           !.found = @ \/ (swept.count = 2 /\ swept.start # event[1])]
        ELSE [swept EXCEPT !.count = @ + 1,
                           !.start = IF swept.count = 1 THEN event[1] ELSE @]
  IN  FoldLeft(Sweep, [count |-> 0, start |-> 0, found |-> FALSE], SegmentEvents).found

FinalAddresses ==
  [name \in DOMAIN symbol_table |->
     LET entry == symbol_table[name]
     IN  IF entry.defined /\ ~entry.resolved
         THEN [entry EXCEPT !.address = OrderedStart(entry.block) + entry.block_address,
                            !.resolved = TRUE]
         ELSE entry]

LastAddress == Max({segment[2] : segment \in ToSet(AllSegments)} \cup {0})

EntryPointValid ==
  IF LastAddress = start_address THEN entry_point = start_address
  ELSE start_address <= entry_point /\ entry_point < LastAddress

TablesFit ==
  /\ BlocksEnd <= AddressSize
  /\ ~Intersects
  /\ \A name \in DOMAIN symbol_table :
       symbol_table[name].referenced => ~Undefined(symbol_table[name])
  /\ EntryPointValid

FinishTables ==
  /\ phase = "tables" /\ position > Len(nodes)
  /\ phase' = IF TablesFit THEN "begin" ELSE "failed"
  /\ block_table' = OrderBlocks
  /\ segments' = AllSegments
  /\ symbol_table' = FinalAddresses
  /\ end_address' = LastAddress
  /\ UNCHANGED <<nodes, position, literal_table, literal_lookup, next_literal_id, start_address,
                 entry_point, segment_start, current_block, current_address>>

TablesInit ==
  /\ nodes = <<>>
  /\ position = 1
  /\ phase = "parse"
  /\ symbol_table = <<>>
  /\ block_table = [block \in {0} |-> NewBlock(DefaultBlock)]
  /\ literal_table = <<>>
  /\ literal_lookup = {}
  /\ next_literal_id = 0
  /\ start_address = 0 /\ entry_point = 0 /\ end_address = 0
  /\ segments = <<>> /\ segment_start = 0
  /\ current_block = -1 /\ current_address = 0

BuildTables == VisitNode \/ FinishTables

=============================================================================
