-------------------------- MODULE SimulatorProofs ---------------------------
(***************************************************************************)
(* Proofs about Simulator, for any addresses, numbers and names.  The run  *)
(* commands: what one remembered address (breakpoint_last_hit_address) is  *)
(* enough for, and what the cancelled flag means.  The breakpoint          *)
(* commands: the list, its three maps and the printed numbers agree.       *)
(***************************************************************************)
EXTENDS Simulator, TLAPS, SequenceTheorems

(***************************************************************************)
(* The numbered lists: add, remove and print keep the list, its numbers    *)
(* and its maps together, whatever the objects, names and addresses, and   *)
(* however many there are.                                                 *)
(***************************************************************************)
Item == [pointer : Pointers, number : Nat, address : Nat, name : Names \cup {NoName}]

\* Numbers and objects are in order and distinct, and no number was given too
\* early, so that numbering again can only lower the next one.
Ordered(list) ==
  /\ \A j, k \in 1 .. Len(list.items) : j < k =>
       /\ list.items[j].pointer # list.items[k].pointer
       /\ list.items[j].number < list.items[k].number
  /\ \A k \in 1 .. Len(list.items) :
       k - 1 <= list.items[k].number /\ list.items[k].number < list.next_number
  /\ Len(list.items) <= list.next_number

IsMap(map) == map = [key \in DOMAIN map |-> map[key]]

FoundByNumber(list) ==
  /\ IsMap(list.number_map)
  /\ DOMAIN list.number_map = {list.items[k].number : k \in 1 .. Len(list.items)}
  /\ \A k \in 1 .. Len(list.items) :
       list.number_map[list.items[k].number] = list.items[k].pointer

FoundByName(list) ==
  /\ IsMap(list.name_map)
  /\ DOMAIN list.name_map
       = {list.items[k].name : k \in 1 .. Len(list.items)} \ {NoName}
  /\ \A k \in 1 .. Len(list.items) : list.items[k].name # NoName =>
       list.name_map[list.items[k].name] = list.items[k].pointer

IsList(list) ==
  list \in [items : Seq(Item), number_map : {list.number_map},
            name_map : {list.name_map}, next_number : Nat]

ListInv(list) ==
  IsList(list) /\ Ordered(list) /\ FoundByNumber(list) /\ FoundByName(list)

-----------------------------------------------------------------------------
LEMMA Removed ==
  ASSUME NEW S, NEW s \in Seq(S), NEW p \in 1 .. Len(s)
  PROVE  /\ RemoveAt(s, p) \in Seq(S)
         /\ Len(RemoveAt(s, p)) = Len(s) - 1
         /\ \A i \in 1 .. Len(s) - 1 : RemoveAt(s, p)[i] = IF i < p THEN s[i] ELSE s[i + 1]
<1> DEFINE Before == SubSeq(s, 1, p - 1)
           After == SubSeq(s, p + 1, Len(s))
<1>1. /\ Before \in Seq(S) /\ Len(Before) = p - 1
      /\ \A i \in 1 .. p - 1 : Before[i] = s[i]
  <2>1. \A i \in 1 .. p - 1 : s[i] \in S
    BY ElementOfSeq
  <2> QED  BY <2>1, SubSeqProperties, 1 \in Int, p - 1 \in Int
<1>2. /\ After \in Seq(S) /\ Len(After) = Len(s) - p
      /\ \A i \in 1 .. Len(s) - p : After[i] = s[p + i]
  <2>1. \A i \in p + 1 .. Len(s) : s[i] \in S
    BY ElementOfSeq
  <2>2. Len(s) \in Int /\ p + 1 \in Int
    BY LenProperties
  <2> HIDE DEF After
  <2>3. /\ After \in Seq(S) /\ Len(After) = IF p + 1 <= Len(s) THEN Len(s) - (p + 1) + 1 ELSE 0
        /\ \A i \in 1 .. Len(s) - (p + 1) + 1 : After[i] = s[p + 1 + i - 1]
    BY <2>1, <2>2, SubSeqProperties DEF After
  <2> QED  BY <2>2, <2>3
<1> HIDE DEF Before, After
<1>3. RemoveAt(s, p) = Before \o After
  BY DEF RemoveAt, Before, After
<1>4. /\ Before \o After \in Seq(S)
      /\ Len(Before \o After) = Len(Before) + Len(After)
      /\ \A i \in 1 .. Len(Before) + Len(After) :
           (Before \o After)[i] = IF i <= Len(Before) THEN Before[i] ELSE After[i - Len(Before)]
  BY <1>1, <1>2, ConcatProperties
<1> QED  BY <1>1, <1>2, <1>3, <1>4, LenProperties

\* The object at a place of the list is at that place only.
LEMMA PositionIs ==
  ASSUME NEW list, ListInv(list), NEW pointer \in PointersOf(list)
  PROVE  /\ Position(list, pointer) \in 1 .. Len(list.items)
         /\ ItemAt(list, pointer) = list.items[Position(list, pointer)]
         /\ ItemAt(list, pointer).pointer = pointer
<1>1. DOMAIN list.items = 1 .. Len(list.items)
  BY DEF ListInv, IsList
<1>2. \E k \in DOMAIN list.items : list.items[k].pointer = pointer
  BY DEF PointersOf, ToSet
<1> QED  BY <1>1, <1>2 DEF Position, ItemAt

LEMMA PositionOf ==
  ASSUME NEW list, ListInv(list), NEW k \in 1 .. Len(list.items)
  PROVE  /\ list.items[k].pointer \in PointersOf(list)
         /\ Position(list, list.items[k].pointer) = k
         /\ ItemAt(list, list.items[k].pointer) = list.items[k]
<1>1. DOMAIN list.items = 1 .. Len(list.items)
  BY DEF ListInv, IsList
<1>2. list.items[k].pointer \in PointersOf(list)
  BY <1>1 DEF PointersOf, ToSet
<1>3. \A j \in 1 .. Len(list.items) : list.items[j].pointer = list.items[k].pointer => j = k
  BY DEF ListInv, Ordered
<1> QED  BY <1>2, <1>3, PositionIs DEF ItemAt

-----------------------------------------------------------------------------
LEMMA EmptyKeepsList == ListInv(EmptyList)
<1>1. IsMap(EmptyMap) /\ DOMAIN EmptyMap = {}
  BY DEF IsMap, EmptyMap
<1>2. EmptyList.items = <<>> /\ Len(EmptyList.items) = 0
  BY DEF EmptyList
<1> QED
  BY <1>1, <1>2 DEF EmptyList, ListInv, IsList, Ordered, FoundByNumber, FoundByName

LEMMA AddKeepsList ==
  ASSUME NEW list, ListInv(list), CanAllocate(list), NEW address \in Nat,
         NEW name \in Names \cup {NoName}, ~NameIsTaken(list, name)
  PROVE  LET new == AddItem(list, address, name)
             n == Len(list.items)
         IN  /\ ListInv(new)
             /\ n \in Nat /\ Len(new.items) = n + 1
             /\ \A k \in 1 .. n : new.items[k] = list.items[k]
             /\ new.items[n + 1].address = address
             /\ new.items[n + 1].pointer = NewPointer(list)
             /\ \A key \in DOMAIN list.number_map :
                  key \in DOMAIN new.number_map
                    /\ new.number_map[key] = list.number_map[key]
             /\ new.next_number = list.next_number + 1
<1> DEFINE pointer == NewPointer(list)
           item == [pointer |-> pointer, number |-> list.next_number,
                    address |-> address, name |-> name]
           new == AddItem(list, address, name)
           n == Len(list.items)
<1>1. list.items \in Seq(Item) /\ n \in Nat /\ list.next_number \in Nat
  BY DEF ListInv, IsList
<1>2. DOMAIN list.items = 1 .. n /\ \A k \in 1 .. n : list.items[k] \in Item
  BY <1>1
<1>3. PointersOf(list) \subseteq Pointers
  BY <1>2 DEF PointersOf, ToSet, Item
<1>4. pointer \in Pointers /\ pointer \notin PointersOf(list)
  BY <1>3 DEF CanAllocate, NewPointer
<1>5. \A k \in 1 .. n : list.items[k].pointer # pointer
  BY <1>2, <1>4 DEF PointersOf, ToSet
<1> HIDE DEF pointer
<1>6. item \in Item
  BY <1>1, <1>4 DEF Item
<1>7. /\ new.items = Append(list.items, item)
      /\ new.number_map = MapInsert(list.number_map, list.next_number, pointer)
      /\ new.name_map = IF name = NoName THEN list.name_map
                        ELSE MapInsert(list.name_map, name, pointer)
      /\ new.next_number = list.next_number + 1
      /\ new = [items |-> new.items, number_map |-> new.number_map,
                name_map |-> new.name_map, next_number |-> new.next_number]
  BY DEF AddItem, pointer
<1> HIDE DEF item, new
<1>8. /\ new.items \in Seq(Item) /\ Len(new.items) = n + 1
      /\ \A k \in 1 .. n : new.items[k] = list.items[k]
      /\ new.items[n + 1] = item
  BY <1>1, <1>6, <1>7, AppendProperties
<1>14. (\A k \in 1 .. n + 1 : k \in 1 .. n \/ k = n + 1) /\ 1 .. n \subseteq 1 .. n + 1 /\ n + 1 \in 1 .. n + 1
  BY <1>1
<1>9. /\ item.pointer = pointer /\ item.number = list.next_number
      /\ item.name = name
  BY DEF item
<1>10. IsList(new)
  <2>1. new.next_number \in Nat
    BY <1>1, <1>7
  <2>2. [items |-> new.items, number_map |-> new.number_map,
         name_map |-> new.name_map, next_number |-> new.next_number]
          \in [items : Seq(Item), number_map : {new.number_map},
               name_map : {new.name_map}, next_number : Nat]
    BY <1>8, <2>1
  <2> QED  BY <1>7, <2>2 DEF IsList
<1>11. Ordered(new)
  <2>1. \A k \in 1 .. n : /\ list.items[k].number \in Nat
                          /\ k - 1 <= list.items[k].number
                          /\ list.items[k].number < list.next_number
    BY <1>2 DEF ListInv, Ordered, Item
  <2>2. n <= list.next_number
    BY DEF ListInv, Ordered
  <2>3. ASSUME NEW j \in 1 .. n + 1, NEW k \in 1 .. n + 1, j < k
        PROVE  /\ new.items[j].pointer # new.items[k].pointer
               /\ new.items[j].number < new.items[k].number
    <3>1. j \in 1 .. n
      BY <1>1, <2>3
    <3>2. CASE k \in 1 .. n
      BY <1>8, <2>3, <3>1, <3>2 DEF ListInv, Ordered
    <3>3. CASE k = n + 1
      BY <1>5, <1>8, <1>9, <2>1, <3>1, <3>3
    <3> QED  BY <1>14, <3>2, <3>3
  <2>4. ASSUME NEW k \in 1 .. n + 1
        PROVE  k - 1 <= new.items[k].number /\ new.items[k].number < new.next_number
    <3>1. CASE k \in 1 .. n
      BY <1>1, <1>7, <1>8, <2>1, <3>1
    <3>2. CASE k = n + 1
      BY <1>1, <1>7, <1>8, <1>9, <2>2, <3>2
    <3> QED  BY <1>14, <3>1, <3>2
  <2> QED  BY <1>1, <1>7, <1>8, <2>2, <2>3, <2>4 DEF Ordered
<1>12. FoundByNumber(new)
  <2>1. \A k \in 1 .. n : list.items[k].number # list.next_number
    BY <1>1, <1>2 DEF ListInv, Ordered, Item
  <2>2. /\ DOMAIN new.number_map = DOMAIN list.number_map \cup {list.next_number}
        /\ new.number_map[list.next_number] = pointer
        /\ \A key \in DOMAIN list.number_map : new.number_map[key] = list.number_map[key]
        /\ IsMap(new.number_map)
    BY <1>7, <2>1 DEF MapInsert, IsMap, ListInv, FoundByNumber
  <2>3. {new.items[k].number : k \in 1 .. n + 1}
          = {list.items[k].number : k \in 1 .. n} \cup {list.next_number}
    BY <1>8, <1>14, <1>9
  <2>4. DOMAIN new.number_map = {new.items[k].number : k \in 1 .. n + 1}
    BY <2>2, <2>3 DEF ListInv, FoundByNumber
  <2>5. ASSUME NEW k \in 1 .. n + 1
        PROVE  new.number_map[new.items[k].number] = new.items[k].pointer
    <3>1. CASE k \in 1 .. n
      <4>1. /\ list.items[k].number \in DOMAIN list.number_map
            /\ list.number_map[list.items[k].number] = list.items[k].pointer
        BY <3>1 DEF ListInv, FoundByNumber
      <4> QED  BY <1>8, <2>2, <3>1, <4>1
    <3>2. CASE k = n + 1
      BY <1>8, <1>9, <2>2, <3>2
    <3> QED  BY <1>14, <3>1, <3>2
  <2> QED  BY <1>8, <2>2, <2>4, <2>5 DEF FoundByNumber
<1>13. FoundByName(new)
  <2>1. CASE name = NoName
    <3>1. new.name_map = list.name_map
      BY <1>7, <2>1
    <3>2. {new.items[k].name : k \in 1 .. n + 1} \ {NoName}
            = {list.items[k].name : k \in 1 .. n} \ {NoName}
      BY <1>8, <1>14, <1>9, <2>1
    <3>3. \A k \in 1 .. n + 1 : new.items[k].name # NoName =>
            new.name_map[new.items[k].name] = new.items[k].pointer
      BY <1>8, <1>14, <1>9, <2>1, <3>1 DEF ListInv, FoundByName
    <3> QED  BY <1>8, <3>1, <3>2, <3>3 DEF ListInv, FoundByName
  <2>2. CASE name # NoName
    <3>1. name \notin DOMAIN list.name_map
      BY <2>2 DEF NameIsTaken
    <3>2. /\ DOMAIN new.name_map = DOMAIN list.name_map \cup {name}
          /\ new.name_map[name] = pointer
          /\ \A key \in DOMAIN list.name_map : new.name_map[key] = list.name_map[key]
          /\ IsMap(new.name_map)
      BY <1>7, <2>2, <3>1 DEF MapInsert, IsMap
    <3>3. {new.items[k].name : k \in 1 .. n + 1} \ {NoName}
            = ({list.items[k].name : k \in 1 .. n} \ {NoName}) \cup {name}
      BY <1>8, <1>14, <1>9, <2>2
    <3>4. DOMAIN new.name_map = {new.items[k].name : k \in 1 .. n + 1} \ {NoName}
      BY <3>2, <3>3 DEF ListInv, FoundByName
    <3>5. ASSUME NEW k \in 1 .. n + 1, new.items[k].name # NoName
          PROVE  new.name_map[new.items[k].name] = new.items[k].pointer
      <4>1. CASE k \in 1 .. n
        <5>1. /\ list.items[k].name \in DOMAIN list.name_map
              /\ list.name_map[list.items[k].name] = list.items[k].pointer
          BY <1>8, <3>5, <4>1 DEF ListInv, FoundByName
        <5> QED  BY <1>8, <3>2, <4>1, <5>1
      <4>2. CASE k = n + 1
        BY <1>8, <1>9, <3>2, <4>2
      <4> QED  BY <1>14, <4>1, <4>2
    <3> QED  BY <1>8, <3>2, <3>4, <3>5 DEF FoundByName
  <2> QED  BY <2>1, <2>2
<1>15. ListInv(new)
  BY <1>10, <1>11, <1>12, <1>13 DEF ListInv
<1>16. new.items[n + 1].address = address /\ new.items[n + 1].pointer = NewPointer(list)
  BY <1>8 DEF item, pointer
<1>17. \A key \in DOMAIN list.number_map :
         key \in DOMAIN new.number_map /\ new.number_map[key] = list.number_map[key]
  BY <1>7 DEF MapInsert
<1> QED  BY <1>1, <1>7, <1>8, <1>15, <1>16, <1>17 DEF new

LEMMA RemoveKeepsList ==
  ASSUME NEW list, ListInv(list), NEW pointer \in PointersOf(list)
  PROVE  LET new == RemoveItem(list, pointer)
             n == Len(list.items)
             p == Position(list, pointer)
         IN  /\ ListInv(new)
             /\ \A j \in 1 .. Len(new.items) : \E k \in 1 .. n :
                  k # p /\ new.items[j] = list.items[k]
             /\ \A k \in 1 .. n : k # p =>
                  \E j \in 1 .. Len(new.items) : new.items[j] = list.items[k]
             /\ \A key \in DOMAIN list.number_map : list.number_map[key] # pointer =>
                  key \in DOMAIN new.number_map
                    /\ new.number_map[key] = list.number_map[key]
             /\ new.next_number = list.next_number
<1> DEFINE new == RemoveItem(list, pointer)
           n == Len(list.items)
           p == Position(list, pointer)
           item == list.items[p]
           Old(k) == IF k < p THEN k ELSE k + 1
<1>1. list.items \in Seq(Item) /\ n \in Nat /\ list.next_number \in Nat
  BY DEF ListInv, IsList
<1>2. DOMAIN list.items = 1 .. n /\ \A k \in 1 .. n : list.items[k] \in Item
  BY <1>1
<1>3. p \in 1 .. n /\ ItemAt(list, pointer) = item /\ item.pointer = pointer
  BY PositionIs
<1>4. /\ new.items = RemoveAt(list.items, p)
      /\ new.number_map = MapErase(list.number_map, item.number)
      /\ new.name_map = MapErase(list.name_map, item.name)
      /\ new.next_number = list.next_number
      /\ new = [items |-> new.items, number_map |-> new.number_map,
                name_map |-> new.name_map, next_number |-> new.next_number]
  BY <1>3 DEF RemoveItem
<1> HIDE DEF new, p
<1>5. /\ new.items \in Seq(Item) /\ Len(new.items) = n - 1
      /\ \A k \in 1 .. n - 1 : new.items[k] = list.items[Old(k)]
  BY <1>1, <1>3, <1>4, Removed
<1>6. /\ \A k \in 1 .. n - 1 : Old(k) \in 1 .. n /\ Old(k) # p /\ k <= Old(k)
      /\ \A j, k \in 1 .. n - 1 : j < k => Old(j) < Old(k)
      /\ \A k \in 1 .. n : k # p => \E j \in 1 .. n - 1 : k = Old(j)
  <2>1. ASSUME NEW k \in 1 .. n, k # p
        PROVE  \E j \in 1 .. n - 1 : k = Old(j)
    <3>1. CASE k < p
      BY <1>1, <1>3, <3>1
    <3>2. CASE k > p
      <4>1. k - 1 \in 1 .. n - 1 /\ Old(k - 1) = k
        BY <1>1, <1>3, <3>2
      <4> QED  BY <4>1
    <3> QED  BY <1>3, <2>1, <3>1, <3>2
  <2> QED  BY <1>1, <1>3, <2>1
<1> HIDE DEF Old
<1>7. IsList(new)
  <2>1. [items |-> new.items, number_map |-> new.number_map,
         name_map |-> new.name_map, next_number |-> new.next_number]
          \in [items : Seq(Item), number_map : {new.number_map},
               name_map : {new.name_map}, next_number : Nat]
    BY <1>1, <1>4, <1>5
  <2> QED  BY <1>4, <2>1 DEF IsList
<1>8. Ordered(new)
  <2>1. \A k \in 1 .. n : /\ list.items[k].number \in Nat
                          /\ k - 1 <= list.items[k].number
                          /\ list.items[k].number < list.next_number
    BY <1>2 DEF ListInv, Ordered, Item
  <2>2. n - 1 <= list.next_number
    BY <1>1 DEF ListInv, Ordered
  <2>3. \A j, k \in 1 .. n - 1 : j < k =>
          /\ new.items[j].pointer # new.items[k].pointer
          /\ new.items[j].number < new.items[k].number
    <3> TAKE j, k \in 1 .. n - 1
    <3> HAVE j < k
    <3>1. Old(j) \in 1 .. n /\ Old(k) \in 1 .. n /\ Old(j) < Old(k)
      BY <1>6
    <3>2. /\ list.items[Old(j)].pointer # list.items[Old(k)].pointer
          /\ list.items[Old(j)].number < list.items[Old(k)].number
      BY <3>1 DEF ListInv, Ordered
    <3> QED  BY <1>5, <3>2
  <2>4. \A k \in 1 .. n - 1 :
          k - 1 <= new.items[k].number /\ new.items[k].number < new.next_number
    <3> TAKE k \in 1 .. n - 1
    <3>1. /\ Old(k) \in 1 .. n /\ k <= Old(k) /\ new.items[k] = list.items[Old(k)]
      BY <1>5, <1>6
    <3> QED  BY <1>4, <2>1, <3>1
  <2> QED  BY <1>4, <1>5, <2>2, <2>3, <2>4 DEF Ordered
\* What the other objects have of the removed one: neither number nor name.
<1>9. \A k \in 1 .. n : k # p => /\ list.items[k].number # item.number
                                /\ list.items[k].pointer # item.pointer
  <2> TAKE k \in 1 .. n
  <2>1. list.items[k].number \in Nat /\ item.number \in Nat
    BY <1>2, <1>3 DEF Item
  <2>2. CASE k < p
    BY <1>3, <2>1, <2>2 DEF ListInv, Ordered
  <2>3. CASE p < k
    BY <1>3, <2>1, <2>3 DEF ListInv, Ordered
  <2> QED  BY <1>3, <2>2, <2>3
<1>10. FoundByNumber(new)
  <2>1. {new.items[k].number : k \in 1 .. n - 1}
          = {list.items[k].number : k \in 1 .. n} \ {item.number}
    <3>1. \A j \in 1 .. n - 1 : \E k \in 1 .. n : k # p /\ new.items[j] = list.items[k]
      BY <1>5, <1>6
    <3>2. \A k \in 1 .. n : k # p => \E j \in 1 .. n - 1 : new.items[j] = list.items[k]
      BY <1>5, <1>6
    <3> HIDE DEF item
    <3>3. \A k \in 1 .. n : list.items[k].number = item.number <=> k = p
      BY <1>3, <1>9 DEF item
    <3>4. ASSUME NEW number
          PROVE  number \in {new.items[k].number : k \in 1 .. n - 1}
                   <=> number \in {list.items[k].number : k \in 1 .. n} \ {item.number}
      <4>0. number \in {new.items[k].number : k \in 1 .. n - 1}
              <=> \E j \in 1 .. n - 1 : number = new.items[j].number
        OBVIOUS
      <4>1. number \in {new.items[k].number : k \in 1 .. n - 1}
              <=> \E k \in 1 .. n : k # p /\ number = list.items[k].number
        <5>1. ASSUME NEW j \in 1 .. n - 1, number = new.items[j].number
              PROVE  \E k \in 1 .. n : k # p /\ number = list.items[k].number
          BY <3>1, <5>1
        <5>2. ASSUME NEW k \in 1 .. n, k # p, number = list.items[k].number
              PROVE  \E j \in 1 .. n - 1 : number = new.items[j].number
          BY <3>2, <5>2
        <5> QED  BY <4>0, <5>1, <5>2
      <4>2. number \in {list.items[k].number : k \in 1 .. n} \ {item.number}
              <=> \E k \in 1 .. n : number = list.items[k].number /\ number # item.number
        OBVIOUS
      <4> QED  BY <3>3, <4>1, <4>2
    <3> QED  BY <3>4
  <2>2. /\ DOMAIN new.number_map = DOMAIN list.number_map \ {item.number}
        /\ \A key \in DOMAIN new.number_map : new.number_map[key] = list.number_map[key]
        /\ IsMap(new.number_map)
    BY <1>4 DEF MapErase, Restrict, IsMap
  <2>3. DOMAIN new.number_map = {new.items[k].number : k \in 1 .. n - 1}
    BY <2>1, <2>2 DEF ListInv, FoundByNumber
  <2>4. ASSUME NEW k \in 1 .. n - 1
        PROVE  new.number_map[new.items[k].number] = new.items[k].pointer
    <3>1. Old(k) \in 1 .. n /\ new.items[k] = list.items[Old(k)]
      BY <1>5, <1>6
    <3>2. new.items[k].number \in DOMAIN new.number_map
      BY <2>3
    <3> QED  BY <2>2, <3>1, <3>2 DEF ListInv, FoundByNumber
  <2> QED  BY <1>5, <2>2, <2>3, <2>4 DEF FoundByNumber
<1>11. FoundByName(new)
  <2>1. \A k \in 1 .. n : k # p /\ list.items[k].name # NoName
          => list.items[k].name # item.name
    BY <1>3, <1>9 DEF ListInv, FoundByName
  <2>2. {new.items[k].name : k \in 1 .. n - 1} \ {NoName}
          = ({list.items[k].name : k \in 1 .. n} \ {NoName}) \ {item.name}
    <3>1. \A j \in 1 .. n - 1 : \E k \in 1 .. n : k # p /\ new.items[j] = list.items[k]
      BY <1>5, <1>6
    <3>2. \A k \in 1 .. n : k # p => \E j \in 1 .. n - 1 : new.items[j] = list.items[k]
      BY <1>5, <1>6
    <3> HIDE DEF item
    <3>3. list.items[p].name = item.name /\ p \in 1 .. n
      BY <1>3 DEF item
    <3>4. ASSUME NEW name
          PROVE  name \in {new.items[k].name : k \in 1 .. n - 1} \ {NoName}
                   <=> name \in ({list.items[k].name : k \in 1 .. n} \ {NoName}) \ {item.name}
      <4>1. name \in {new.items[k].name : k \in 1 .. n - 1} \ {NoName}
              <=> /\ name # NoName
                  /\ \E k \in 1 .. n : k # p /\ name = list.items[k].name
        <5>1. (\E j \in 1 .. n - 1 : name = new.items[j].name)
                <=> \E k \in 1 .. n : k # p /\ name = list.items[k].name
          BY <3>1, <3>2
        <5> QED  BY <5>1
      <4>2. name \in ({list.items[k].name : k \in 1 .. n} \ {NoName}) \ {item.name}
              <=> /\ name # NoName /\ name # item.name
                  /\ \E k \in 1 .. n : name = list.items[k].name
        OBVIOUS
      <4>3. name # NoName => ((\E k \in 1 .. n : k # p /\ name = list.items[k].name)
              <=> (name # item.name /\ \E k \in 1 .. n : name = list.items[k].name))
        BY <2>1, <3>3
      <4> QED  BY <4>1, <4>2, <4>3
    <3> QED  BY <3>4
  <2>3. /\ DOMAIN new.name_map = DOMAIN list.name_map \ {item.name}
        /\ \A key \in DOMAIN new.name_map : new.name_map[key] = list.name_map[key]
        /\ IsMap(new.name_map)
    BY <1>4 DEF MapErase, Restrict, IsMap
  <2>4. DOMAIN new.name_map = {new.items[k].name : k \in 1 .. n - 1} \ {NoName}
    BY <2>2, <2>3 DEF ListInv, FoundByName
  <2>5. \A k \in 1 .. n - 1 : new.items[k].name # NoName =>
          new.name_map[new.items[k].name] = new.items[k].pointer
    <3> TAKE k \in 1 .. n - 1
    <3> HAVE new.items[k].name # NoName
    <3>1. new.items[k].name \in DOMAIN new.name_map
      BY <2>4
    <3>2. Old(k) \in 1 .. n /\ new.items[k] = list.items[Old(k)]
      BY <1>5, <1>6
    <3> QED  BY <2>3, <3>1, <3>2 DEF ListInv, FoundByName
  <2> QED  BY <1>5, <2>3, <2>4, <2>5 DEF FoundByName
<1>12. ListInv(new)
  BY <1>7, <1>8, <1>10, <1>11 DEF ListInv
<1>13. \A j \in 1 .. Len(new.items) : \E k \in 1 .. n : k # p /\ new.items[j] = list.items[k]
  BY <1>5, <1>6
<1>14. \A k \in 1 .. n : k # p =>
         \E j \in 1 .. Len(new.items) : new.items[j] = list.items[k]
  BY <1>5, <1>6
<1>15. \A key \in DOMAIN list.number_map : list.number_map[key] # pointer =>
         key \in DOMAIN new.number_map /\ new.number_map[key] = list.number_map[key]
  <2>1. list.number_map[item.number] = pointer
    BY <1>3 DEF ListInv, FoundByNumber
  <2> QED  BY <1>4, <2>1 DEF MapErase, Restrict
<1> QED  BY <1>4, <1>12, <1>13, <1>14, <1>15 DEF new, p

LEMMA RenumberKeepsList ==
  ASSUME NEW list, ListInv(list)
  PROVE  /\ ListInv(Renumber(list))
         /\ Len(Renumber(list).items) = Len(list.items)
         /\ \A k \in 1 .. Len(list.items) :
              /\ Renumber(list).items[k].pointer = list.items[k].pointer
              /\ Renumber(list).items[k].address = list.items[k].address
         /\ Renumber(list).next_number <= list.next_number
<1> DEFINE n == Len(list.items)
           new == Renumber(list)
<1>1. list.items \in Seq(Item) /\ n \in Nat /\ list.next_number \in Nat /\ n <= list.next_number
  BY DEF ListInv, IsList, Ordered
<1>2. DOMAIN list.items = 1 .. n /\ \A k \in 1 .. n : list.items[k] \in Item
  BY <1>1
<1>3. CASE list.next_number = n
  BY <1>1, <1>3 DEF Renumber
<1>4. CASE list.next_number # n
  <2>1. /\ new.items = [k \in 1 .. n |-> [list.items[k] EXCEPT !.number = k - 1]]
        /\ new.number_map = [m \in 0 .. n - 1 |-> list.items[m + 1].pointer]
        /\ new.name_map = list.name_map
        /\ new.next_number = n
        /\ new = [items |-> new.items, number_map |-> new.number_map,
                  name_map |-> new.name_map, next_number |-> new.next_number]
    BY <1>2, <1>4 DEF Renumber, ListInv, IsList
  <2> HIDE DEF new
  <2>2. \A k \in 1 .. n : /\ new.items[k] \in Item
                          /\ new.items[k].pointer = list.items[k].pointer
                          /\ new.items[k].address = list.items[k].address
                          /\ new.items[k].name = list.items[k].name
                          /\ new.items[k].number = k - 1
    <3> TAKE k \in 1 .. n
    <3>1. new.items[k] = [list.items[k] EXCEPT !.number = k - 1] /\ k - 1 \in Nat
      BY <1>1, <2>1
    <3>2. list.items[k] \in Item
      BY <1>2
    <3> QED  BY <3>1, <3>2 DEF Item
  <2>3. new.items \in Seq(Item) /\ Len(new.items) = n
    <3>1. new.items \in [1 .. n -> Item]
      BY <2>1, <2>2
    <3> QED  BY <1>1, <3>1
  <2>4. IsList(new)
    <3>1. [items |-> new.items, number_map |-> new.number_map,
           name_map |-> new.name_map, next_number |-> new.next_number]
            \in [items : Seq(Item), number_map : {new.number_map},
                 name_map : {new.name_map}, next_number : Nat]
      BY <1>1, <2>1, <2>3
    <3> QED  BY <2>1, <3>1 DEF IsList
  <2>5. Ordered(new)
    BY <1>1, <2>1, <2>2, <2>3 DEF ListInv, Ordered
  <2>6. FoundByNumber(new)
    <3>1. {new.items[k].number : k \in 1 .. n} = 0 .. n - 1
      <4>1. \A m \in 0 .. n - 1 : m + 1 \in 1 .. n /\ new.items[m + 1].number = m
        BY <1>1, <2>2
      <4>2. \A k \in 1 .. n : new.items[k].number \in 0 .. n - 1
        BY <1>1, <2>2
      <4> QED  BY <4>1, <4>2
    <3>2. \A k \in 1 .. n : new.number_map[k - 1] = list.items[k].pointer
      BY <1>1, <2>1
    <3> QED  BY <2>1, <2>2, <2>3, <3>1, <3>2 DEF FoundByNumber, IsMap
  <2>7. FoundByName(new)
    BY <2>1, <2>2, <2>3 DEF ListInv, FoundByName
  <2> QED  BY <1>1, <2>1, <2>2, <2>3, <2>4, <2>5, <2>6, <2>7 DEF ListInv, new
<1> QED  BY <1>3, <1>4

-----------------------------------------------------------------------------
LEMMA PrintedNumbersAre ==
  ASSUME NEW list, ListInv(list)
  PROVE  PrintedNumbers(list) = list.number_map
<1> DEFINE n == Len(list.items)
<1>1. DOMAIN list.items = 1 .. n /\ \A k \in 1 .. n : list.items[k] \in Item
  BY DEF ListInv, IsList
<1>2. ToSet(list.items) = {list.items[k] : k \in 1 .. n}
  BY <1>1 DEF ToSet
<1>3. {item.number : item \in ToSet(list.items)} = DOMAIN list.number_map
  BY <1>2 DEF ListInv, FoundByNumber
<1>4. ASSUME NEW m \in DOMAIN list.number_map
      PROVE  (CHOOSE item \in ToSet(list.items) : item.number = m).pointer = list.number_map[m]
  <2>1. PICK item \in ToSet(list.items) : item.number = m
    BY <1>3
  <2>2. \A other \in ToSet(list.items) : other.number = m
          => other.pointer = list.number_map[m]
    BY <1>2 DEF ListInv, FoundByNumber
  <2> QED  BY <2>1, <2>2
<1> QED  BY <1>3, <1>4 DEF PrintedNumbers, ListInv, FoundByNumber, IsMap

LEMMA ListsAreConsistent ==
  ASSUME NEW list, ListInv(list)
  PROVE  IsConsistent(list)
<1> DEFINE n == Len(list.items)
<1>1. DOMAIN list.items = 1 .. n
  BY DEF ListInv, IsList
<1>2. ToSet(list.items) = {list.items[k] : k \in 1 .. n}
  BY <1>1 DEF ToSet
<1>3. DOMAIN list.name_map = {item.name : item \in ToSet(list.items)} \ {NoName}
  BY <1>2 DEF ListInv, FoundByName
<1>4. ASSUME NEW name \in DOMAIN list.name_map
      PROVE  ItemAt(list, list.name_map[name]).name = name
  <2>1. PICK k \in 1 .. n : list.items[k].name = name /\ name # NoName
    BY DEF ListInv, FoundByName
  <2>2. list.name_map[name] = list.items[k].pointer
    BY <2>1 DEF ListInv, FoundByName
  <2> QED  BY <2>1, <2>2, PositionOf
<1> QED  BY <1>1, <1>2, <1>3, <1>4, PrintedNumbersAre DEF IsConsistent, ListInv, Ordered

(***************************************************************************)
(* The simulator.                                                          *)
(***************************************************************************)

\* The remembered address is no address once an instruction is about to be
\* executed with breakpoints enabled, and stays so while the command runs.
ForgottenInRun ==
  /\ at \in {"activate", "uncancel"} => ~executed
  /\ at = "execute" /\ breakpoints_enable => breakpoint_last_hit_address = NoAddress
  /\ at \in {"poll", "breakpoint"} /\ executed /\ breakpoints_enable
       => breakpoint_last_hit_address = NoAddress
  /\ at = "execute" /\ AtBreakpoint => ~executed

\* Until then it is the address at which the user was told the machine stands.
RememberedAtStop ==
  stopped_at # NoAddress /\ at \notin {"execute", "exited"}
    => breakpoint_last_hit_address = stopped_at

\* While start runs, the flag is the request of the user.
FlagIsRequest ==
  /\ command = "start" /\ at \in {"poll", "breakpoint", "execute"}
     /\ cancellable_action_cancelled => requested
  /\ cancellable_action_cancelled \in BOOLEAN /\ requested \in BOOLEAN
  /\ executed \in BOOLEAN /\ breakpoints_enable \in BOOLEAN

RunInv ==
  /\ program_counter \in Addresses
  /\ ForgottenInRun
  /\ RememberedAtStop
  /\ FlagIsRequest

-----------------------------------------------------------------------------
LEMMA AddressesAreTrimmed ==
  /\ NoAddress \notin Addresses
  /\ 0 \in Addresses
  /\ \A typed \in TypedAddresses : typed % AddressLimit \in Addresses
BY SimulatorAssumption DEF NoAddress, Addresses

LEMMA RunInit == Init => RunInv
BY AddressesAreTrimmed
DEF Init, RunInv, ForgottenInRun, RememberedAtStop, FlagIsRequest, AtBreakpoint

\* Commands given at the prompt leave the program counter an address, and
\* remembered and told addresses equal; they execute nothing.
LEMMA UserCommandKeepsRunInv == RunInv /\ UserCommand => RunInv'
<1> SUFFICES ASSUME RunInv, UserCommand PROVE RunInv'
  OBVIOUS
<1> USE DEF RunInv, ForgottenInRun, RememberedAtStop, FlagIsRequest, AtBreakpoint, Prompt,
            list_vars, run_vars, signal_vars
<1>1. CASE CommandBreakpointOn
  BY <1>1 DEF CommandBreakpointOn
<1>2. CASE CommandBreakpointOff
  BY <1>2 DEF CommandBreakpointOff
<1>3. CASE CommandBreakpointClear
  BY <1>3 DEF CommandBreakpointClear
<1>4. CASE CommandBreakpointPrint
  BY <1>4 DEF CommandBreakpointPrint
<1>5. CASE \E typed \in TypedAddresses, name \in Names \cup {NoName} :
             CommandBreakpointAdd(typed, name)
  BY <1>5 DEF CommandBreakpointAdd
<1>6. CASE CommandBreakpointRemove
  <2>1. PICK pointer : RemoveBreakpoint(pointer)
    BY <1>6 DEF CommandBreakpointRemove
  <2> QED  BY <2>1 DEF RemoveBreakpoint
<1>7. CASE CommandReset \/ CommandCpuSet \/ CommandLoad \/ CommandInterrupt
  <2>1. PICK address \in Addresses : MoveTo(address)
    BY <1>7, AddressesAreTrimmed DEF CommandReset, CommandCpuSet, CommandLoad, CommandInterrupt
  <2> QED  BY <2>1 DEF MoveTo
<1>8. CASE CommandStart
  BY <1>8 DEF CommandStart
<1>9. CASE \E instructions \in 0 .. MaxCount : CommandStep(instructions)
  BY <1>9 DEF CommandStep
<1>10. CASE Exit
  BY <1>10 DEF Exit
<1> QED
  BY <1>1, <1>2, <1>3, <1>4, <1>5, <1>6, <1>7, <1>8, <1>9, <1>10 DEF UserCommand

LEMMA RunCommandKeepsRunInv == RunInv /\ RunCommand => RunInv'
<1> SUFFICES ASSUME RunInv, RunCommand PROVE RunInv'
  OBVIOUS
<1> USE DEF RunInv, ForgottenInRun, RememberedAtStop, FlagIsRequest, AtBreakpoint,
            list_vars, signal_vars
<1>1. CASE Activate
  BY <1>1 DEF Activate
<1>2. CASE Uncancel
  BY <1>2 DEF Uncancel
<1>3. CASE Poll
  BY <1>3 DEF Poll, AfterLoop
<1>4. CASE Pass
  BY <1>4, AddressesAreTrimmed DEF Pass, HitsBreakpoint
<1>5. CASE Hit
  BY <1>5 DEF Hit, AfterLoop
<1>6. CASE ExecuteInstruction
  BY <1>6 DEF ExecuteInstruction, AfterLoop
<1>7. CASE Deactivate
  BY <1>7 DEF Deactivate
<1>8. CASE Return
  BY <1>8 DEF Return
<1> QED
  BY <1>1, <1>2, <1>3, <1>4, <1>5, <1>6, <1>7, <1>8 DEF RunCommand

LEMMA SignalKeepsRunInv == RunInv /\ InterruptSignalHandler => RunInv'
<1> SUFFICES ASSUME RunInv, InterruptSignalHandler PROVE RunInv'
  OBVIOUS
<1> USE DEF RunInv, ForgottenInRun, RememberedAtStop, FlagIsRequest, AtBreakpoint,
            list_vars, InterruptSignalHandler
<1>1. CASE cancellable_action_active
  BY <1>1
<1>2. CASE ~cancellable_action_active
  BY <1>2
<1> QED
  BY <1>1, <1>2

LEMMA RunInvHolds == Spec => []RunInv
<1>1. RunInv /\ UNCHANGED vars => RunInv'
  BY DEF RunInv, ForgottenInRun, RememberedAtStop, FlagIsRequest, AtBreakpoint, vars,
         list_vars, run_vars, signal_vars
<1>2. RunInv /\ [Next]_vars => RunInv'
  BY <1>1, UserCommandKeepsRunInv, RunCommandKeepsRunInv, SignalKeepsRunInv DEF Next
<1> QED
  BY RunInit, <1>2, PTL DEF Spec

-----------------------------------------------------------------------------
\* After its first instruction a start or step command never executes an
\* instruction at an enabled breakpoint (the loops of simulator_step.cc).
THEOREM NoBreakpointIsPassed == Spec => RunsStopAtBreakpoints
<1>1. RunInv /\ [Next]_vars => [ExecuteInstruction /\ AtBreakpoint => ~executed]_vars
  BY DEF RunInv, ForgottenInRun, ExecuteInstruction
<1> QED
  BY RunInvHolds, <1>1, PTL DEF Spec, RunsStopAtBreakpoints

\* A start or step command given where the last one stopped does not stop there
\* again at once.
THEOREM NoStopIsRepeated == Spec => ContinuingMakesProgress
<1>1. RunInv /\ [Next]_vars => [Hit => stopped_at # program_counter]_vars
  BY AddressesAreTrimmed DEF RunInv, RememberedAtStop, Hit, HitsBreakpoint
<1> QED
  BY RunInvHolds, <1>1, PTL DEF Spec, ContinuingMakesProgress

\* A start command that ends as cancelled was cancelled by a Ctrl+C of its own
\* (StartCancellableAction of command_interface.cc).
THEOREM NoStaleCancellation == Spec => CancelledOnlyOnRequest
<1>1. RunInv /\ [Next]_vars => [Poll /\ command = "start" /\ at' = "end" => requested]_vars
  BY DEF RunInv, FlagIsRequest, Poll, LoopEnds
<1> QED
  BY RunInvHolds, <1>1, PTL DEF Spec, CancelledOnlyOnRequest

-----------------------------------------------------------------------------
(***************************************************************************)
(* The breakpoint list.                                                    *)
(***************************************************************************)
FoundByAddress(list, map) ==
  /\ IsMap(map)
  /\ DOMAIN map = {list.items[k].address : k \in 1 .. Len(list.items)}
  /\ \A k \in 1 .. Len(list.items) : map[list.items[k].address] = list.items[k].pointer
  /\ DOMAIN map \subseteq Addresses

ListsInv ==
  /\ ListInv(breakpoints)
  /\ FoundByAddress(breakpoints, breakpoint_address_map)
  /\ PrintedNumbersHold
  /\ breakpoints.next_number <= MaxNumber

LEMMA ListsInit == Init => ListsInv
<1> SUFFICES ASSUME Init PROVE ListsInv
  OBVIOUS
<1>1. breakpoints = EmptyList /\ breakpoint_address_map = EmptyMap /\ printed = EmptyMap
  BY DEF Init
<1>2. /\ EmptyList.items = <<>> /\ EmptyList.next_number = 0 /\ Len(EmptyList.items) = 0
      /\ IsMap(EmptyMap) /\ DOMAIN EmptyMap = {}
  BY DEF EmptyList, EmptyMap, IsMap
<1> QED
  BY <1>1, <1>2, EmptyKeepsList, SimulatorAssumption
  DEF ListsInv, FoundByAddress, PrintedNumbersHold

LEMMA AddKeepsLists ==
  ASSUME ListsInv, NEW typed \in TypedAddresses, NEW name \in Names \cup {NoName},
         CommandBreakpointAdd(typed, name)
  PROVE  ListsInv'
<1> DEFINE address == typed % AddressLimit
           new == AddItem(breakpoints, address, name)
           n == Len(breakpoints.items)
           pointer == NewPointer(breakpoints)
<1>1. address \in Addresses /\ address \in Nat
  BY AddressesAreTrimmed DEF Addresses
<1>2. /\ breakpoints' = new /\ printed' = printed
      /\ breakpoint_address_map' = MapInsert(breakpoint_address_map, address, pointer)
      /\ address \notin DOMAIN breakpoint_address_map
      /\ CanAllocate(breakpoints) /\ ~NameIsTaken(breakpoints, name)
      /\ breakpoints.next_number < MaxNumber
  BY DEF CommandBreakpointAdd
<1> HIDE DEF address
<1>3. /\ ListInv(new)
      /\ n \in Nat /\ Len(new.items) = n + 1
      /\ \A k \in 1 .. n : new.items[k] = breakpoints.items[k]
      /\ new.items[n + 1].address = address
      /\ new.items[n + 1].pointer = pointer
      /\ \A key \in DOMAIN breakpoints.number_map :
           key \in DOMAIN new.number_map
             /\ new.number_map[key] = breakpoints.number_map[key]
      /\ new.next_number = breakpoints.next_number + 1
  BY <1>1, <1>2, AddKeepsList DEF ListsInv
<1> HIDE DEF new, pointer
<1>4. PrintedNumbersHold'
  BY <1>2, <1>3 DEF ListsInv, PrintedNumbersHold
<1>5. \A k \in 1 .. n + 1 : k \in 1 .. n \/ k = n + 1
  BY <1>3
<1>6. /\ DOMAIN breakpoint_address_map' = DOMAIN breakpoint_address_map \cup {address}
      /\ breakpoint_address_map'[address] = pointer
      /\ \A key \in DOMAIN breakpoint_address_map :
           breakpoint_address_map'[key] = breakpoint_address_map[key]
      /\ IsMap(breakpoint_address_map')
  BY <1>2 DEF MapInsert, IsMap
<1>7. {new.items[k].address : k \in 1 .. n + 1}
        = {breakpoints.items[k].address : k \in 1 .. n} \cup {address}
  <2>1. 1 .. n \subseteq 1 .. n + 1 /\ n + 1 \in 1 .. n + 1
    BY <1>3
  <2> QED  BY <1>3, <1>5, <2>1
<1>8. ASSUME NEW k \in 1 .. n + 1
      PROVE  breakpoint_address_map'[new.items[k].address] = new.items[k].pointer
  <2>1. CASE k \in 1 .. n
    <3>1. /\ breakpoints.items[k].address \in DOMAIN breakpoint_address_map
          /\ breakpoint_address_map[breakpoints.items[k].address] = breakpoints.items[k].pointer
      BY <2>1 DEF ListsInv, FoundByAddress
    <3> QED  BY <1>3, <1>6, <2>1, <3>1
  <2>2. CASE k = n + 1
    BY <1>3, <1>6, <2>2
  <2> QED  BY <1>5, <2>1, <2>2
<1>9. FoundByAddress(new, breakpoint_address_map')
  <2>1. DOMAIN breakpoint_address_map' = {new.items[k].address : k \in 1 .. n + 1}
    BY <1>6, <1>7 DEF ListsInv, FoundByAddress
  <2>2. DOMAIN breakpoint_address_map' \subseteq Addresses
    BY <1>1, <1>6 DEF ListsInv, FoundByAddress
  <2> QED  BY <1>3, <1>6, <1>8, <2>1, <2>2 DEF FoundByAddress
<1>10. new.next_number <= MaxNumber
  BY <1>2, <1>3, SimulatorAssumption DEF ListsInv, ListInv, IsList
<1> QED  BY <1>2, <1>3, <1>4, <1>9, <1>10 DEF ListsInv

LEMMA RemoveKeepsLists ==
  ASSUME ListsInv, NEW pointer \in PointersOf(breakpoints), RemoveBreakpoint(pointer)
  PROVE  ListsInv'
<1> DEFINE new == RemoveItem(breakpoints, pointer)
           n == Len(breakpoints.items)
           p == Position(breakpoints, pointer)
           address == ItemAt(breakpoints, pointer).address
<1>1. /\ breakpoints' = new
      /\ breakpoint_address_map' = MapErase(breakpoint_address_map, address)
      /\ printed' = Restrict(printed, {m \in DOMAIN printed : printed[m] # pointer})
  BY DEF RemoveBreakpoint
<1>2. /\ ListInv(new)
      /\ \A j \in 1 .. Len(new.items) : \E k \in 1 .. n :
           k # p /\ new.items[j] = breakpoints.items[k]
      /\ \A k \in 1 .. n : k # p =>
           \E j \in 1 .. Len(new.items) : new.items[j] = breakpoints.items[k]
      /\ \A key \in DOMAIN breakpoints.number_map : breakpoints.number_map[key] # pointer =>
           key \in DOMAIN new.number_map
             /\ new.number_map[key] = breakpoints.number_map[key]
      /\ new.next_number = breakpoints.next_number
  BY RemoveKeepsList DEF ListsInv
<1>3. /\ p \in 1 .. n /\ address = breakpoints.items[p].address
      /\ breakpoints.items[p].pointer = pointer
  BY PositionIs DEF ListsInv
<1>4. \A k \in 1 .. n : breakpoints.items[k].pointer = pointer => k = p
  BY PositionOf DEF ListsInv
<1> HIDE DEF new, p, address
<1>5. \A k \in 1 .. n : breakpoints.items[k].address = address <=> k = p
  BY <1>3, <1>4 DEF ListsInv, FoundByAddress
<1>6. PrintedNumbersHold'
  <2>1. ASSUME NEW m \in DOMAIN printed'
        PROVE  m \in DOMAIN new.number_map /\ new.number_map[m] = printed'[m]
    <3>1. m \in DOMAIN printed /\ printed[m] # pointer /\ printed'[m] = printed[m]
      BY <1>1, <2>1 DEF Restrict
    <3> QED  BY <1>2, <3>1 DEF ListsInv, PrintedNumbersHold
  <2> QED  BY <1>1, <2>1 DEF PrintedNumbersHold
<1>7. /\ DOMAIN breakpoint_address_map' = DOMAIN breakpoint_address_map \ {address}
      /\ \A key \in DOMAIN breakpoint_address_map' :
           breakpoint_address_map'[key] = breakpoint_address_map[key]
      /\ IsMap(breakpoint_address_map')
  BY <1>1 DEF MapErase, Restrict, IsMap
<1>8. ASSUME NEW any
      PROVE  any \in {new.items[j].address : j \in 1 .. Len(new.items)}
               <=> any \in {breakpoints.items[k].address : k \in 1 .. n} \ {address}
  <2>1. any \in {new.items[j].address : j \in 1 .. Len(new.items)}
          <=> \E k \in 1 .. n : k # p /\ any = breakpoints.items[k].address
    <3>1. (\E j \in 1 .. Len(new.items) : any = new.items[j].address)
            <=> \E k \in 1 .. n : k # p /\ any = breakpoints.items[k].address
      BY <1>2
    <3> QED  BY <3>1
  <2>2. any \in {breakpoints.items[k].address : k \in 1 .. n} \ {address}
          <=> \E k \in 1 .. n : any = breakpoints.items[k].address /\ any # address
    OBVIOUS
  <2> QED  BY <1>5, <2>1, <2>2
<1>9. DOMAIN breakpoint_address_map' = {new.items[j].address : j \in 1 .. Len(new.items)}
  <2>1. {new.items[j].address : j \in 1 .. Len(new.items)}
          = {breakpoints.items[k].address : k \in 1 .. n} \ {address}
    BY <1>8
  <2> QED  BY <1>7, <2>1 DEF ListsInv, FoundByAddress
<1>10. ASSUME NEW j \in 1 .. Len(new.items)
       PROVE  breakpoint_address_map'[new.items[j].address] = new.items[j].pointer
  <2>1. PICK k \in 1 .. n : new.items[j] = breakpoints.items[k]
    BY <1>2
  <2>2. new.items[j].address \in DOMAIN breakpoint_address_map'
    BY <1>9
  <2> QED  BY <1>7, <2>1, <2>2 DEF ListsInv, FoundByAddress
<1>11. FoundByAddress(new, breakpoint_address_map')
  BY <1>7, <1>9, <1>10 DEF FoundByAddress, ListsInv
<1> QED  BY <1>1, <1>2, <1>6, <1>11 DEF ListsInv

\* Each way to name a breakpoint finds one that is in the list.
LEMMA FoundIsInList ==
  ASSUME ListsInv
  PROVE  /\ \A number \in DOMAIN breakpoints.number_map :
              breakpoints.number_map[number] \in PointersOf(breakpoints)
         /\ \A address \in DOMAIN breakpoint_address_map :
              breakpoint_address_map[address] \in PointersOf(breakpoints)
         /\ \A name \in DOMAIN breakpoints.name_map :
              breakpoints.name_map[name] \in PointersOf(breakpoints)
<1>1. ASSUME NEW number \in DOMAIN breakpoints.number_map
      PROVE  breakpoints.number_map[number] \in PointersOf(breakpoints)
  BY PositionOf DEF ListsInv, ListInv, FoundByNumber
<1>2. ASSUME NEW address \in DOMAIN breakpoint_address_map
      PROVE  breakpoint_address_map[address] \in PointersOf(breakpoints)
  BY PositionOf DEF ListsInv, FoundByAddress
<1>3. ASSUME NEW name \in DOMAIN breakpoints.name_map
      PROVE  breakpoints.name_map[name] \in PointersOf(breakpoints)
  BY PositionOf DEF ListsInv, ListInv, FoundByName
<1> QED  BY <1>1, <1>2, <1>3

LEMMA PrintKeepsLists == ListsInv /\ CommandBreakpointPrint => ListsInv'
<1> SUFFICES ASSUME ListsInv, CommandBreakpointPrint PROVE ListsInv'
  OBVIOUS
<1> DEFINE new == Renumber(breakpoints)
           n == Len(breakpoints.items)
<1>1. /\ breakpoints' = new /\ printed' = PrintedNumbers(new)
      /\ breakpoint_address_map' = breakpoint_address_map
  BY DEF CommandBreakpointPrint
<1>2. /\ ListInv(new) /\ Len(new.items) = n
      /\ \A k \in 1 .. n : /\ new.items[k].pointer = breakpoints.items[k].pointer
                           /\ new.items[k].address = breakpoints.items[k].address
      /\ new.next_number <= breakpoints.next_number
  BY RenumberKeepsList DEF ListsInv
<1> HIDE DEF new
<1>3. printed' = new.number_map
  BY <1>1, <1>2, PrintedNumbersAre
<1>4. FoundByAddress(new, breakpoint_address_map')
  <2>1. {new.items[k].address : k \in 1 .. n} = {breakpoints.items[k].address : k \in 1 .. n}
    BY <1>2
  <2>2. \A k \in 1 .. n : breakpoint_address_map[new.items[k].address] = new.items[k].pointer
    BY <1>2 DEF ListsInv, FoundByAddress
  <2> QED  BY <1>1, <1>2, <2>1, <2>2 DEF ListsInv, FoundByAddress
<1>5. new.next_number <= MaxNumber
  BY <1>2, SimulatorAssumption DEF ListsInv, ListInv, IsList
<1> QED  BY <1>1, <1>2, <1>3, <1>4, <1>5 DEF ListsInv, PrintedNumbersHold

LEMMA ListsStep == ListsInv /\ [Next]_vars => ListsInv'
<1> SUFFICES ASSUME ListsInv, [Next]_vars PROVE ListsInv'
  OBVIOUS
<1>1. ASSUME UNCHANGED list_vars PROVE ListsInv'
  BY <1>1 DEF ListsInv, list_vars, PrintedNumbersHold
<1>2. CASE CommandBreakpointClear
  <2>1. /\ breakpoints' = EmptyList /\ breakpoint_address_map' = EmptyMap /\ printed' = EmptyMap
    BY <1>2 DEF CommandBreakpointClear
  <2>2. /\ EmptyList.items = <<>> /\ EmptyList.next_number = 0 /\ Len(EmptyList.items) = 0
        /\ IsMap(EmptyMap) /\ DOMAIN EmptyMap = {}
    BY DEF EmptyList, EmptyMap, IsMap
  <2> QED
    BY <2>1, <2>2, EmptyKeepsList, SimulatorAssumption
    DEF ListsInv, FoundByAddress, PrintedNumbersHold
<1>3. CASE \E typed \in TypedAddresses, name \in Names \cup {NoName} :
             CommandBreakpointAdd(typed, name)
  BY <1>3, AddKeepsLists
<1>4. CASE CommandBreakpointRemove
  <2>1. PICK pointer \in PointersOf(breakpoints) : RemoveBreakpoint(pointer)
    BY <1>4, FoundIsInList DEF CommandBreakpointRemove
  <2> QED  BY <2>1, RemoveKeepsLists
<1>5. CASE CommandBreakpointPrint
  BY <1>5, PrintKeepsLists
<1>6. CASE CommandReset \/ CommandCpuSet \/ CommandLoad \/ CommandInterrupt
  <2>1. PICK address : MoveTo(address)
    BY <1>6 DEF CommandReset, CommandCpuSet, CommandLoad, CommandInterrupt
  <2> QED  BY <1>1, <2>1 DEF MoveTo
<1>7. CASE \/ CommandBreakpointOn \/ CommandBreakpointOff \/ CommandStart \/ Exit
           \/ \E instructions \in 0 .. MaxCount : CommandStep(instructions)
  BY <1>1, <1>7 DEF CommandBreakpointOn, CommandBreakpointOff, CommandStart, Exit, CommandStep
<1>8. CASE RunCommand \/ InterruptSignalHandler
  BY <1>1, <1>8
  DEF RunCommand, InterruptSignalHandler, Activate, Uncancel, Poll, Pass, Hit,
      ExecuteInstruction, Deactivate, Return
<1>9. CASE UNCHANGED vars
  BY <1>1, <1>9 DEF vars
<1> QED
  BY <1>2, <1>3, <1>4, <1>5, <1>6, <1>7, <1>8, <1>9 DEF Next, UserCommand

LEMMA ListsInvHolds == Spec => []ListsInv
BY ListsInit, ListsStep, PTL DEF Spec

\* After any sequence of add, remove, print and clear the list of breakpoints and
\* its maps by number, name and address agree (simulator_breakpoint.cc).
THEOREM BreakpointsStayConsistent == Spec => []BreakpointsAreConsistent
<1>1. ListsInv => BreakpointsAreConsistent
  <2> SUFFICES ASSUME ListsInv PROVE BreakpointsAreConsistent
    OBVIOUS
  <2> DEFINE items == breakpoints.items
  <2>1. ToSet(items) = {items[k] : k \in 1 .. Len(items)}
    BY DEF ToSet, ListsInv, ListInv, IsList
  <2>2. DOMAIN breakpoint_address_map = {item.address : item \in ToSet(items)}
    BY <2>1 DEF ListsInv, FoundByAddress
  <2>3. ASSUME NEW address \in DOMAIN breakpoint_address_map
        PROVE  ItemAt(breakpoints, breakpoint_address_map[address]).address = address
    <3>1. PICK k \in 1 .. Len(items) : items[k].address = address
      BY DEF ListsInv, FoundByAddress
    <3>2. breakpoint_address_map[address] = items[k].pointer
      BY <3>1 DEF ListsInv, FoundByAddress
    <3> QED  BY <3>1, <3>2, PositionOf DEF ListsInv
  <2> QED  BY <2>2, <2>3, ListsAreConsistent DEF ListsInv, BreakpointsAreConsistent
<1> QED  BY ListsInvHolds, <1>1, PTL

\* A number that breakpoint print has shown names that breakpoint or none, until
\* the list is printed again.
THEOREM PrintedNumbersStay == Spec => []PrintedNumbersHold
<1>1. ListsInv => PrintedNumbersHold
  BY DEF ListsInv
<1> QED  BY ListsInvHolds, <1>1, PTL

-----------------------------------------------------------------------------
(***************************************************************************)
(* Types: the step command counts down to 0 and no further.                *)
(***************************************************************************)
ControlInv ==
  /\ breakpoint_last_hit_address \in Addresses \cup {NoAddress}
  /\ command \in {"none", "start", "step"} /\ at \in Statements
  /\ count \in 0 .. MaxCount /\ cancellable_action_active \in BOOLEAN
  /\ at \in {"activate", "uncancel"} => command = "start"
  /\ command = "step" /\ at \in {"breakpoint", "execute"} => count > 0

LEMMA ControlStep == RunInv /\ ControlInv /\ [Next]_vars => ControlInv'
<1> SUFFICES ASSUME RunInv, ControlInv, [Next]_vars PROVE ControlInv'
  OBVIOUS
<1> USE SimulatorAssumption DEF ControlInv, Statements, Prompt, run_vars, signal_vars
<1>1. CASE CommandBreakpointOn \/ CommandBreakpointOff \/ CommandBreakpointClear
             \/ CommandBreakpointPrint
  BY <1>1 DEF CommandBreakpointOn, CommandBreakpointOff, CommandBreakpointClear,
              CommandBreakpointPrint
<1>2. CASE \E typed \in TypedAddresses, name \in Names \cup {NoName} :
             CommandBreakpointAdd(typed, name)
  BY <1>2 DEF CommandBreakpointAdd
<1>3. CASE CommandBreakpointRemove
  <2>1. PICK pointer : RemoveBreakpoint(pointer)
    BY <1>3 DEF CommandBreakpointRemove
  <2> QED  BY <2>1 DEF RemoveBreakpoint
<1>4. CASE CommandReset \/ CommandCpuSet \/ CommandLoad \/ CommandInterrupt
  <2>1. PICK address : MoveTo(address)
    BY <1>4 DEF CommandReset, CommandCpuSet, CommandLoad, CommandInterrupt
  <2> QED  BY <2>1 DEF MoveTo
<1>5. CASE CommandStart
  BY <1>5 DEF CommandStart
<1>6. CASE \E instructions \in 0 .. MaxCount : CommandStep(instructions)
  BY <1>6 DEF CommandStep
<1>7. CASE Exit
  BY <1>7 DEF Exit
<1>8. CASE Activate \/ Uncancel
  BY <1>8 DEF Activate, Uncancel
<1>15. CASE Deactivate
  BY <1>15 DEF Deactivate
<1>16. CASE Return
  BY <1>16 DEF Return
<1>9. CASE Poll
  BY <1>9 DEF Poll, AfterLoop, LoopEnds
<1>10. CASE Pass
  BY <1>10 DEF Pass
<1>11. CASE Hit
  BY <1>11 DEF Hit, AfterLoop, RunInv
<1>12. CASE ExecuteInstruction
  BY <1>12 DEF ExecuteInstruction, AfterLoop
<1>13. CASE InterruptSignalHandler
  BY <1>13 DEF InterruptSignalHandler
<1>14. CASE UNCHANGED vars
  BY <1>14 DEF vars
<1> QED
  BY <1>1, <1>2, <1>3, <1>4, <1>5, <1>6, <1>7, <1>8, <1>9, <1>10, <1>11, <1>12, <1>13, <1>14,
     <1>15, <1>16
  DEF Next, UserCommand, RunCommand

\* The simulator stays within its types: what the commands leave is an address, a
\* statement of theirs, and a count that never drops below 0.
THEOREM SimulatorTypeCorrect == Spec => []TypeOK
<1>1. Init => ControlInv
  <2>1. 0 \in 0 .. MaxCount
    BY SimulatorAssumption
  <2> QED  BY <2>1 DEF Init, ControlInv, Statements
<1>2. RunInv /\ ListsInv /\ ControlInv => TypeOK
  <2> SUFFICES ASSUME RunInv, ListsInv, ControlInv PROVE TypeOK
    OBVIOUS
  <2>1. PointersOf(breakpoints) \subseteq Pointers
    <3>1. \A k \in DOMAIN breakpoints.items : breakpoints.items[k] \in Item
      BY DEF ListsInv, ListInv, IsList
    <3> QED  BY <3>1 DEF PointersOf, ToSet, Item
  <2>2. breakpoints.next_number \in 0 .. MaxNumber
    BY SimulatorAssumption DEF ListsInv, ListInv, IsList
  <2>3. DOMAIN breakpoint_address_map \subseteq Addresses
    BY DEF ListsInv, FoundByAddress
  <2>4. program_counter \in Addresses /\ FlagIsRequest
    BY DEF RunInv
  <2> QED  BY <2>1, <2>2, <2>3, <2>4 DEF ControlInv, FlagIsRequest, TypeOK
<1> QED  BY <1>1, <1>2, ControlStep, RunInvHolds, ListsInvHolds, PTL DEF Spec
=============================================================================
