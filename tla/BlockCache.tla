---- MODULE BlockCache ----
(***************************************************************************)
(* The Cache of an INTCP node (intcp/cache.cpp): per name, blocks of       *)
(* BLOCK_LEN bytes, each with a table of BLOCK_SEG_NUM byte ranges that    *)
(* says which of its bytes are valid, in an LRU list of MAX_BLOCK_NUM.     *)
(*                                                                         *)
(* Data is abstracted to whether memcpy has filled it: `written` are the   *)
(* positions of a block that hold what was inserted.  Both operations run  *)
(* under the cache's lock, so each is one action.                          *)
(***************************************************************************)
EXTENDS Integers, Sequences, FiniteSets, SequencesExt, FiniteSetsExt

CONSTANTS
  Names,      \* the session names that prefix a key
  BlockLen,   \* BLOCK_LEN
  SegNum,     \* BLOCK_SEG_NUM
  MaxBlocks,  \* MAX_BLOCK_NUM
  MaxLen,     \* INTCP_MSS: nobody inserts or reads more at once
  First,      \* bound: the stream positions start here
  Limit       \* bound: the stream positions end here

ASSUME BlockCacheAssumption ==
  /\ BlockLen \in Nat \ {0}
  /\ SegNum \in Nat \ {0}
  /\ MaxBlocks \in Nat \ {0, 1}
  /\ MaxLen \in 1..BlockLen
  /\ First \in Nat /\ Limit \in Nat

VARIABLES
  dataMap,    \* key -> block
  lruList,    \* the keys of dataMap, the next one to drop first
  overflown   \* history: keys of the blocks whose table was too small

vars == <<dataMap, lruList, overflown>>

Span(a, b) == a..(b - 1)

\* [0, 0) marks a free slot of the table.
Free == [start |-> 0, end |-> 0]

Slots == 1..SegNum

\* A new Block's memory is whatever malloc returned.
NewBlock == [ranges |-> [i \in Slots |-> Free], lastPos |-> 0, written |-> {}]

BlockStart(i) == (i \div BlockLen) * BlockLen

\* The keys a loop over [a, b) visits, in order.
BlockStarts(a, b) ==
  [i \in 1..(((b - 1) \div BlockLen) - (a \div BlockLen) + 1) |->
     BlockStart(a) + (i - 1) * BlockLen]

Key(name, start) == <<name, start>>

Init ==
  /\ dataMap = <<>>
  /\ lruList = <<>>
  /\ overflown = {}

-----------------------------------------------------------------------------
Touches(x, r) == x # Free /\ r.start <= x.end /\ r.end >= x.start

Hull(x, r) == [start |-> Min({x.start, r.start}), end |-> Max({x.end, r.end})]

Covers(x, r) == x.start <= r.start /\ r.end <= x.end

\* Faulty: the slot is freed, but its range is not taken over.
JoinForgets(st, step) ==
  LET hit == {i \in Slots : Touches(st.ranges[i], st.range)}
  IN IF st.isSubset \/ hit = {} THEN st
     ELSE IF Covers(st.ranges[Min(hit)], st.range) THEN [st EXCEPT !.isSubset = TRUE]
     ELSE [st EXCEPT !.ranges[Min(hit)] = Free]

(***************************************************************************)
(* The search for a union: the first slot that touches the range r either  *)
(* holds all of it, or is freed and joined to it; then again from the      *)
(* start.                                                                  *)
(***************************************************************************)
JoinFirst(st, step) ==
  LET hit == {i \in Slots : Touches(st.ranges[i], st.range)}
      i == Min(hit)
  IN IF st.isSubset \/ hit = {} THEN st
     ELSE IF Covers(st.ranges[i], st.range) THEN [st EXCEPT !.isSubset = TRUE]
     ELSE [st EXCEPT !.range = Hull(st.ranges[i], @), !.ranges[i] = Free]

Join(block, r) ==
  FoldLeft(JoinFirst, [ranges |-> block.ranges, range |-> r, isSubset |-> FALSE],
           [i \in 1..(SegNum + 1) |-> i])

(***************************************************************************)
(* The range in a free slot, or, when there is none, in the slot after the *)
(* last one taken that way.  lastPos is one more than the code's.          *)
(***************************************************************************)
StoreRange(block, st) ==
  LET free == {i \in Slots : st.ranges[i] = Free}
      pos == (block.lastPos % SegNum) + 1
  IN IF st.isSubset THEN [block EXCEPT !.ranges = st.ranges]
     ELSE IF free # {} THEN [block EXCEPT !.ranges = [st.ranges EXCEPT ![Min(free)] = st.range]]
     ELSE [block EXCEPT !.ranges = [st.ranges EXCEPT ![pos] = st.range], !.lastPos = pos]

Overflows(st) == ~st.isSubset /\ \A i \in Slots : st.ranges[i] # Free

\* Faulty: the table of a new block is not cleared.
AddBlockDirty(c, key) ==
  LET lru == Append(c.lru, key)
      kept == IF Len(lru) > MaxBlocks THEN Tail(lru) ELSE lru
      dirty == [NewBlock EXCEPT !.ranges[1] = [start |-> key[2], end |-> key[2] + BlockLen]]
  IN [c EXCEPT !.map = [k \in ToSet(kept) |-> IF k = key THEN dirty ELSE c.map[k]],
               !.lru = kept]

\* Faulty: a dropped block stays in the map.
AddBlockLeaks(c, key) ==
  LET lru == Append(c.lru, key)
      kept == IF Len(lru) > MaxBlocks THEN Tail(lru) ELSE lru
  IN [c EXCEPT !.map = [k \in ToSet(lru) |-> IF k = key THEN NewBlock ELSE c.map[k]],
               !.lru = kept]

\* addBlock: a new block at the end of the LRU list; the first one may go.
AddBlock(c, key) ==
  LET lru == Append(c.lru, key)
      kept == IF Len(lru) > MaxBlocks THEN Tail(lru) ELSE lru
  IN [c EXCEPT !.map = [k \in ToSet(kept) |-> IF k = key THEN NewBlock ELSE c.map[k]],
               !.lru = kept]

(***************************************************************************)
(* One round of insert's loop.  A full table ends the insertion before     *)
(* this block's bytes are copied, with the range already in the table.     *)
(***************************************************************************)
InsertBlock(c, name, start, r) ==
  LET key == Key(name, start)
      part == [start |-> Max({r.start, start}), end |-> Min({r.end, start + BlockLen})]
      found == IF key \in DOMAIN c.map THEN c ELSE AddBlock(c, key)
      st == Join(found.map[key], part)
      stored == StoreRange(found.map[key], st)
  IN IF c.stopped THEN c
     ELSE IF Overflows(st)
     THEN [found EXCEPT !.map[key] = stored, !.stopped = TRUE,
                        !.overflown = @ \cup {key}]
     ELSE [found EXCEPT !.map[key] =
             [stored EXCEPT !.written = @ \cup Span(part.start, part.end)]]

Insert(name, a, b) ==
  LET c == FoldLeft(LAMBDA acc, s : InsertBlock(acc, name, s, [start |-> a, end |-> b]),
                    [map |-> dataMap, lru |-> lruList, stopped |-> FALSE, overflown |-> {}],
                    BlockStarts(a, b))
  IN /\ dataMap' = c.map
     /\ lruList' = c.lru
     /\ overflown' = (overflown \cup c.overflown) \cap DOMAIN c.map

-----------------------------------------------------------------------------
\* updateLRU: the block's node moves to the end of the list.
UpdateLRU(lru, key) ==
  LET node == CHOOSE i \in DOMAIN lru : lru[i] = key
  IN Append(RemoveAt(lru, node), key)

\* Faulty: a gap at the end of a block does not end the read.
ReadBlockSkipsGap(acc, name, start, r) ==
  LET key == Key(name, start)
      readStart == Max({r.start, start})
      covers == {i \in Slots : /\ dataMap[key].ranges[i] # Free
                               /\ dataMap[key].ranges[i].start <= readStart
                               /\ dataMap[key].ranges[i].end > readStart}
      readEnd == Min({dataMap[key].ranges[Min(covers)].end, r.end})
  IN IF acc.stopped \/ key \notin DOMAIN dataMap \/ covers = {}
     THEN [acc EXCEPT !.stopped = TRUE]
     ELSE [acc EXCEPT !.readlen = @ + (readEnd - readStart),
                      !.lru = UpdateLRU(@, key)]

(***************************************************************************)
(* One round of read's loop: from the first slot that covers the place     *)
(* reached, to the end of that slot's range; on to the next block only     *)
(* when this one was read to its end.                                      *)
(***************************************************************************)
ReadBlock(acc, name, start, r) ==
  LET key == Key(name, start)
      readStart == Max({r.start, start})
      covers == {i \in Slots : /\ dataMap[key].ranges[i] # Free
                               /\ dataMap[key].ranges[i].start <= readStart
                               /\ dataMap[key].ranges[i].end > readStart}
      readEnd == Min({dataMap[key].ranges[Min(covers)].end, r.end})
  IN IF acc.stopped \/ key \notin DOMAIN dataMap \/ covers = {}
     THEN [acc EXCEPT !.stopped = TRUE]
     ELSE [stopped |-> r.end > readEnd /\ readEnd < start + BlockLen,
           readlen |-> acc.readlen + (readEnd - readStart),
           lru |-> UpdateLRU(acc.lru, key)]

ReadResult(name, a, b) ==
  FoldLeft(LAMBDA acc, s : ReadBlock(acc, name, s, [start |-> a, end |-> b]),
           [readlen |-> 0, lru |-> lruList, stopped |-> FALSE],
           BlockStarts(a, b))

Read(name, a, b) ==
  /\ lruList' = ReadResult(name, a, b).lru
  /\ UNCHANGED <<dataMap, overflown>>

Next ==
  \E name \in Names, a \in First..(Limit - 1) :
    \E b \in (a + 1)..Min({a + MaxLen, Limit}) : Insert(name, a, b) \/ Read(name, a, b)

Spec == Init /\ [][Next]_vars

-----------------------------------------------------------------------------
\* The bytes the tables call valid.
ValidIn(block) == UNION {Span(block.ranges[i].start, block.ranges[i].end) : i \in Slots}

Valid(name, map) ==
  UNION {ValidIn(map[k]) : k \in {l \in DOMAIN map : l[1] = name}}

(***************************************************************************)
(* What read and insert take for granted of the cache.  The LRU list and   *)
(* the map hold the same blocks, each once, and no more than               *)
(* MAX_BLOCK_NUM, though dropBlock erases from both through one iterator.  *)
(* A table's ranges stay in their block and neither overlap nor touch, so  *)
(* the first slot that covers a byte is the only one.                      *)
(***************************************************************************)
CacheSound ==
  /\ ToSet(lruList) = DOMAIN dataMap
  /\ Len(lruList) = Cardinality(DOMAIN dataMap)
  /\ Len(lruList) <= MaxBlocks
  /\ overflown \subseteq DOMAIN dataMap
  /\ \A k \in DOMAIN dataMap :
       /\ k \in Names \X {BlockStart(i) : i \in 0..Limit}
       /\ dataMap[k].lastPos \in 0..SegNum
       /\ dataMap[k].written \subseteq Span(k[2], k[2] + BlockLen)
       /\ \A i \in Slots :
            LET x == dataMap[k].ranges[i]
            IN x # Free =>
                 /\ k[2] <= x.start /\ x.start < x.end /\ x.end <= k[2] + BlockLen
                 /\ \A j \in Slots \ {i} :
                      LET y == dataMap[k].ranges[j]
                      IN y = Free \/ y.end < x.start \/ x.end < y.start

(***************************************************************************)
(* What the table of a block calls valid was copied into it: read never    *)
(* returns memory that no insert filled.  A block whose table overflowed   *)
(* is exempt: there insert returns between the two.                        *)
(***************************************************************************)
ValidIsWritten ==
  \A k \in DOMAIN dataMap :
    k \in overflown \/ ValidIn(dataMap[k]) \subseteq dataMap[k].written

(***************************************************************************)
(* read returns the longest prefix of its range that is valid, over block  *)
(* boundaries: parseInt takes the length as where the cached part ends.    *)
(***************************************************************************)
ReadIsPrefix ==
  \A name \in Names : \A a, b \in 0..Limit :
    a < b =>
      LET end == a + ReadResult(name, a, b).readlen
      IN /\ Span(a, end) \subseteq Valid(name, dataMap)
         /\ end <= b
         /\ end < b => end \notin Valid(name, dataMap)

(***************************************************************************)
(* A valid byte is lost only when a block is added to a full list, or to a *)
(* full table.  The block that goes may be the very one the insertion has  *)
(* just filled or is about to fill, as insert does not move a block in the *)
(* list.                                                                   *)
(***************************************************************************)
KeepsValid ==
  [][\A name \in Names : \A i \in Valid(name, dataMap) \ Valid(name, dataMap') :
       \/ Cardinality(DOMAIN dataMap \cup DOMAIN dataMap') > MaxBlocks
       \/ Key(name, BlockStart(i)) \in overflown']_vars
====
