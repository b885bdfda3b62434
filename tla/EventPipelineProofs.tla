------------------------ MODULE EventPipelineProofs ------------------------
(***************************************************************************)
(* Proofs about EventPipeline, for every set of block layouts, every bound *)
(* and every set of versions: its type invariant, that the rows are the    *)
(* image of the events handled so far, that links resolve, that versions   *)
(* are recorded when the store does not fail, that no event on which a     *)
(* handler throws is passed over, and that what readers see implements     *)
(* IndexLog.                                                               *)
(***************************************************************************)
EXTENDS EventPipeline, TLAPS

-----------------------------------------------------------------------------
(* Type correctness.                                                       *)

\* A block of the chain is a sequence of events in the order of their
\* extrinsics.
LEMMA BlockShape ==
  ASSUME NEW c \in Seq(Layouts), NEW b \in 1..Len(c)
  PROVE  /\ c[b] \in Layouts /\ c[b] \in Seq(Event) /\ Len(c[b]) \in Nat
         /\ DOMAIN c[b] = 1..Len(c[b])
         /\ \A i \in DOMAIN c[b] : /\ c[b][i].ext \in Int
                                   /\ c[b][i].ext >= NoExtrinsic
                                   /\ c[b][i].handled \in BOOLEAN
         /\ \A i, j \in DOMAIN c[b] :
              (i < j /\ c[b][i].ext >= 0 /\ c[b][j].ext >= 0)
                => c[b][i].ext <= c[b][j].ext
<1>1. c[b] \in Layouts
  OBVIOUS
<1>2. c[b] \in Seq(Event) /\ InOrder(c[b])
      /\ \A i \in DOMAIN c[b] : c[b][i].ext >= NoExtrinsic
  BY <1>1, LayoutsAssumption
<1>3. \A i \in DOMAIN c[b] : c[b][i] \in Event
  BY <1>2
<1> QED  BY <1>1, <1>2, <1>3 DEF Event, InOrder

\* The initial process and the empty tables have their types.
LEMMA TypeInit == Init => TypeOK
<1> SUFFICES ASSUME Init PROVE TypeOK
  OBVIOUS
<1>1. NoRows \in Rows
  BY DEF NoRows, Rows
<1>2. up \in BOOLEAN /\ startupHandled \in BOOLEAN
  BY DEF Init
<1>3. chain \in Seq(Layouts) /\ Len(chain) = 0
  BY DEF Init
<1> QED  BY <1>1, <1>2, <1>3 DEF Init, TypeOK, NoHash, NoExtrinsic, current

\* The versions the startup handler leaves are versions.
LEMMA StartupType ==
  ASSUME TypeOK, NEW vs \in StartupVersions
  PROVE  vs \in SUBSET Versions
BY DEF TypeOK, Rows, StartupVersions

\* A handler that adds rows of the right types leaves rows.
LEMMA WithRowsType ==
  ASSUME TypeOK, NEW vs \in SUBSET Versions, NEW B \in SUBSET Nat,
         NEW X \in SUBSET (Nat \X Nat), NEW E \in SUBSET Place, NEW L \in SUBSET Place
  PROVE  WithRows(vs, B, X, E, L) \in Rows
<1> USE DEF TypeOK, Rows
<1>1. rows.blocks \union B \in SUBSET Nat
  OBVIOUS
<1>2. rows.extrinsics \in SUBSET (Nat \X Nat)
  OBVIOUS
<1>3. rows.extrinsics \union X \in SUBSET (Nat \X Nat)
  BY <1>2
<1>4. rows.events \union E \in SUBSET Place /\ rows.links \union L \in SUBSET Place
  OBVIOUS
<1>5. rows.workers \union {version} \in SUBSET Versions
  OBVIOUS
<1> QED  BY <1>1, <1>3, <1>4, <1>5 DEF WithRows

\* Every step of the chain, the engine and the handlers keeps the types.
LEMMA TypeStep == TypeOK /\ [Next]_vars => TypeOK'
<1> SUFFICES ASSUME TypeOK, [Next]_vars PROVE TypeOK'
  OBVIOUS
<1> USE DEF TypeOK, current, NoExtrinsic, NoHash, memory
<1>1. CASE Produce
  <2>1. PICK l \in Layouts : chain' = Append(chain, l)
    BY <1>1 DEF Produce
  <2>2. /\ chain' \in Seq(Layouts) /\ Len(chain') = Len(chain) + 1
        /\ \A b \in 1..Len(chain) : chain'[b] = chain[b]
    BY <2>1
  <2> QED  BY <1>1, <2>2 DEF Produce
<1>2. CASE Flush
  BY <1>2 DEF Flush
<1>3. CASE Crash
  <2>1. up' \in BOOLEAN
    BY <1>3 DEF Crash
  <2>2. crashes' \in Nat
    BY <1>3 DEF Crash
  <2>3. UNCHANGED <<chain, disk, flushed, rows, done, pos, memory, version>>
    BY <1>3 DEF Crash
  <2> QED  BY <2>1, <2>2, <2>3
<1>4. CASE Restart
  <2>1. up' \in BOOLEAN /\ startupHandled' \in BOOLEAN
    BY <1>4 DEF Restart
  <2>2. /\ rows' = disk /\ done' = flushed /\ pos' = 0 /\ version' \in Versions
        /\ lastBlockHash' = NoHash /\ lastEventIdx' = NoExtrinsic
        /\ UNCHANGED <<chain, disk, flushed, crashes>>
    BY <1>4 DEF Restart
  <2> QED  BY <2>1, <2>2
<1>5. CASE BeginBlock
  <2>1. rows' \in Rows
    <3>1. CASE current = 1
      <4>1. PICK vs \in StartupVersions :
              rows' = WithRows(vs, {0}, {}, {}, {})
        BY <1>5, <3>1 DEF BeginBlock
      <4>2. vs \in SUBSET Versions
        BY StartupType
      <4> QED  BY <4>1, <4>2, WithRowsType
    <3>2. CASE current # 1
      BY <1>5, <3>2 DEF BeginBlock
    <3> QED  BY <3>1, <3>2
  <2>2. Len(chain[current]) \in Nat /\ pos' <= Len(chain[current]) + 1
    <3>1. current \in 1..Len(chain) /\ pos' = 1 /\ UNCHANGED <<chain, done>>
      BY <1>5 DEF BeginBlock
    <3>2. Len(chain[current]) \in Nat
      BY <3>1, BlockShape
    <3> QED  BY <3>1, <3>2
  <2>3. startupHandled' \in BOOLEAN
    BY <1>5 DEF BeginBlock
  <2> QED  BY <1>5, <2>1, <2>2, <2>3 DEF BeginBlock
<1>6. CASE HandleEvent
  <2>1. /\ current \in 1..Len(chain) /\ pos \in 1..Len(chain[current])
        /\ pos \in DOMAIN chain[current]
        /\ ThisEvent.ext \in Int /\ ThisEvent.ext >= NoExtrinsic
        /\ Len(chain[current]) \in Nat
    BY <1>6, BlockShape DEF HandleEvent, ThisEvent
  <2>2. rows' \in Rows
    <3>1. PICK vs \in StartupVersions :
            rows' = WithRows(vs, IF NewBlock THEN {current} ELSE {},
                        IF NewExtrinsic THEN {<<current, ThisEvent.ext>>} ELSE {},
                        {<<current, pos>>},
                        IF HasLink THEN {<<current, pos>>} ELSE {})
      BY <1>6 DEF HandleEvent
    <3>2. vs \in SUBSET Versions
      BY StartupType
    <3>3. NewExtrinsic => <<current, ThisEvent.ext>> \in Nat \X Nat
      BY <2>1 DEF NewExtrinsic, StartOfExtrinsics
    <3>4. <<current, pos>> \in Place /\ current \in Nat
      BY <2>1 DEF Place
    <3> HIDE DEF current
    <3> QED  BY <3>1, <3>2, <3>3, <3>4, WithRowsType
  <2>3. lastEventIdx' \in Int /\ lastEventIdx' >= NoExtrinsic
    BY <1>6, <2>1 DEF HandleEvent, StartOfExtrinsics
  <2> QED  BY <1>6, <2>1, <2>2, <2>3 DEF HandleEvent
<1>7. CASE SkipEvent
  BY <1>7, BlockShape DEF SkipEvent
<1>8. CASE FinishBlock
  BY <1>8 DEF FinishBlock
<1>9. CASE HandlerThrows
  <2>1. up' \in BOOLEAN
        /\ UNCHANGED <<chain, disk, flushed, rows, done, pos, memory, version, crashes>>
    BY <1>9 DEF HandlerThrows
  <2> QED  BY <2>1
<1>10. CASE UNCHANGED vars
  BY <1>10 DEF vars
<1> QED
  BY <1>1, <1>2, <1>3, <1>4, <1>5, <1>6, <1>7, <1>8, <1>9, <1>10 DEF Next

\* Every reachable state has its type: the engine's place stays inside the
\* chain and durable blocks are handled blocks.
THEOREM TypeCorrect == Spec => []TypeOK
BY TypeInit, TypeStep, PTL DEF Spec

-----------------------------------------------------------------------------
(* The places of events, and what the rows show of them.                   *)

\* The indexed events of n blocks are their handled events.
LEMMA IndexedMembers ==
  ASSUME NEW c, NEW n, NEW p
  PROVE  p \in Log!Indexed(c, n) <=>
           \E b \in 1..n : \E i \in DOMAIN c[b] : p = <<b, i>> /\ c[b][i].handled
BY DEF Log!Indexed

\* The events of the first n blocks and of the first k - 1 events of the next.
HandledAt(c, n, k) ==
  Log!Indexed(c, n)
  \union IF k = 0 THEN {}
         ELSE {n + 1} \X {i \in 1..(k - 1) : c[n + 1][i].handled}

\* The rows r are those of the events at the given places of the chain c.
Shows(c, r, places) ==
  /\ r.blocks \ {0} = Log!ImageOf(c, places).blocks
  /\ r.extrinsics = Log!ImageOf(c, places).extrinsics
  /\ r.events = Log!ImageOf(c, places).events

\* The invariant of the rows, in terms of Shows, in both states of a step.
LEMMA RowsMatchShows ==
  /\ RowsMatchChain <=> Shows(chain, rows, HandledAt(chain, done, pos))
  /\ RowsMatchChain' <=> Shows(chain', rows', HandledAt(chain', done', pos'))
BY DEF RowsMatchChain, Shows, HandledAt, Handled, current

\* The blocks that precede an appended one stay what they are.
LEMMA HandledSame ==
  ASSUME NEW c, NEW d, NEW n \in Nat, NEW k \in Nat,
         \A b \in 1..n : c[b] = d[b], k > 0 => c[n + 1] = d[n + 1]
  PROVE  HandledAt(c, n, k) = HandledAt(d, n, k)
<1>1. Log!Indexed(c, n) = Log!Indexed(d, n)
  BY DEF Log!Indexed
<1> QED  BY <1>1 DEF HandledAt

\* An event handled so far lies in a finished block or before pos.
LEMMA HandledInside ==
  ASSUME NEW c, NEW n \in Nat, NEW k \in Nat, NEW p \in HandledAt(c, n, k)
  PROVE  /\ p = <<p[1], p[2]>>
         /\ p[1] \in 1..n \/ (k > 0 /\ p[1] = n + 1 /\ p[2] \in 1..(k - 1))
<1>1. CASE p \in Log!Indexed(c, n)
  BY <1>1, IndexedMembers
<1>2. CASE p \notin Log!Indexed(c, n)
  <2>1. k # 0 /\ p \in {n + 1} \X {i \in 1..(k - 1) : c[n + 1][i].handled}
    BY <1>2 DEF HandledAt
  <2> QED  BY <2>1
<1> QED  BY <1>1, <1>2

\* Before the first event of a block nothing of it is handled.
LEMMA HandledBegin ==
  ASSUME NEW c, NEW n \in Nat
  PROVE  HandledAt(c, n, 1) = HandledAt(c, n, 0)
BY DEF HandledAt

\* Passing event k adds it to the handled ones if a filter selects it.
LEMMA HandledNext ==
  ASSUME NEW c, NEW n \in Nat, NEW k \in Nat \ {0}
  PROVE  HandledAt(c, n, k + 1)
           = HandledAt(c, n, k) \union IF c[n + 1][k].handled THEN {<<n + 1, k>>} ELSE {}
<1>1. 1..((k + 1) - 1) = (1..(k - 1)) \union {k}
  OBVIOUS
<1>2. {i \in 1..((k + 1) - 1) : c[n + 1][i].handled}
        = {i \in 1..(k - 1) : c[n + 1][i].handled}
          \union IF c[n + 1][k].handled THEN {k} ELSE {}
  BY <1>1, Zenon
<1> QED  BY <1>2 DEF HandledAt

\* Past its last event a block is wholly handled.
LEMMA HandledFinish ==
  ASSUME NEW c, NEW n \in Nat, NEW k \in Nat \ {0},
         DOMAIN c[n + 1] = 1..(k - 1)
  PROVE  HandledAt(c, n, k) = HandledAt(c, n + 1, 0)
<1>1. ASSUME NEW p
      PROVE  p \in Log!Indexed(c, n + 1) <=>
               \/ p \in Log!Indexed(c, n)
               \/ p \in {n + 1} \X {i \in 1..(k - 1) : c[n + 1][i].handled}
  <2>1. \A b : b \in 1..(n + 1) <=> b \in 1..n \/ b = n + 1
    OBVIOUS
  <2>2. p \in Log!Indexed(c, n + 1) <=>
          \/ \E b \in 1..n : \E i \in DOMAIN c[b] : p = <<b, i>> /\ c[b][i].handled
          \/ \E i \in DOMAIN c[n + 1] : p = <<n + 1, i>> /\ c[n + 1][i].handled
    BY <2>1, IndexedMembers, Zenon
  <2>3. p \in {n + 1} \X {i \in 1..(k - 1) : c[n + 1][i].handled} <=>
          \E i \in 1..(k - 1) : p = <<n + 1, i>> /\ c[n + 1][i].handled
    OBVIOUS
  <2> QED  BY <2>2, <2>3, IndexedMembers
<1> QED  BY <1>1 DEF HandledAt

\* Rows that show places of one chain show them of any chain that agrees there.
LEMMA ShowsSame ==
  ASSUME NEW c, NEW d, NEW r, NEW places, Shows(c, r, places),
         \A p \in places : c[p[1]] = d[p[1]]
  PROVE  Shows(d, r, places)
<1>1. Log!ImageOf(c, places).extrinsics = Log!ImageOf(d, places).extrinsics
  BY DEF Log!ImageOf
<1> QED  BY <1>1 DEF Shows, Log!ImageOf

\* The blocks and extrinsics of an image are those of its events.
LEMMA ImageMembers ==
  ASSUME NEW c, NEW places
  PROVE  /\ \A x : x \in Log!ImageOf(c, places).blocks <=> \E p \in places : x = p[1]
         /\ \A x : x \in Log!ImageOf(c, places).extrinsics <=>
                    \E p \in places : c[p[1]][p[2]].ext >= 0
                                      /\ x = <<p[1], c[p[1]][p[2]].ext>>
BY DEF Log!ImageOf

\* Rows that show some places of a chain, and those of one place more, show that
\* place too.
LEMMA ShowsAdd ==
  ASSUME NEW c, NEW r, NEW t, NEW places, Shows(c, r, places),
         NEW b \in Nat \ {0}, NEW i \in Nat, c[b][i].ext \in Int,
         t.blocks \ {0} = (r.blocks \ {0}) \union {b},
         t.extrinsics = r.extrinsics \union IF c[b][i].ext >= 0
                                            THEN {<<b, c[b][i].ext>>} ELSE {},
         t.events = r.events \union {<<b, i>>}
  PROVE  Shows(c, t, places \union {<<b, i>>})
<1> DEFINE old == Log!ImageOf(c, places)
           new == Log!ImageOf(c, places \union {<<b, i>>})
<1>1. new.blocks = old.blocks \union {b}
  <2>1. \A x : x \in new.blocks <=> x \in old.blocks \/ x = <<b, i>>[1]
    <3> HIDE DEF old, new
    <3>1. \A x : x \in new.blocks <=> \E p \in places \union {<<b, i>>} : x = p[1]
      BY ImageMembers DEF new
    <3>2. \A x : x \in old.blocks <=> \E p \in places : x = p[1]
      BY ImageMembers DEF old
    <3> QED  BY <3>1, <3>2, Zenon
  <2> QED  BY <2>1
<1>2. new.events = old.events \union {<<b, i>>}
  BY DEF Log!ImageOf
<1>3. new.extrinsics = old.extrinsics \union IF c[b][i].ext >= 0
                                             THEN {<<b, c[b][i].ext>>} ELSE {}
  <2> HIDE DEF old, new
  <2> DEFINE Row(q) == <<q[1], c[q[1]][q[2]].ext>>
             Some(q) == c[q[1]][q[2]].ext >= 0
  <2>1. \A x : x \in new.extrinsics <=>
                \E p \in places \union {<<b, i>>} : Some(p) /\ x = Row(p)
    BY ImageMembers DEF new
  <2>2. \A x : x \in old.extrinsics <=> \E p \in places : Some(p) /\ x = Row(p)
    BY ImageMembers DEF old
  <2>3. Row(<<b, i>>) = <<b, c[b][i].ext>> /\ (Some(<<b, i>>) <=> c[b][i].ext >= 0)
    OBVIOUS
  <2> HIDE DEF Row, Some
  <2>4. \A x : x \in new.extrinsics <=>
                 x \in old.extrinsics \/ (Some(<<b, i>>) /\ x = Row(<<b, i>>))
    BY <2>1, <2>2, Zenon
  <2> QED  BY <2>3, <2>4
<1> QED  BY <1>1, <1>2, <1>3 DEF Shows

-----------------------------------------------------------------------------
(* The inductive invariant.  That the rows match the chain is not inductive *)
(* by itself: whether a row of a block or of an extrinsic is written at an  *)
(* event depends on what the process remembers, so its memory must agree    *)
(* with the events it handled; and after a crash the rows are the durable   *)
(* ones, which must match the chain up to the flushed height.               *)

DiskMatches == Shows(chain, disk, HandledAt(chain, flushed, 0))

\* The handled events of the current block that came before the next one.
Before == {i \in 1..(pos - 1) : chain[current][i].handled}

\* The last block seen is the current one as soon as an event of it was
\* handled, and the last index is then the largest of those events'.
MemoryMatches ==
  /\ lastBlockHash <= current
  /\ lastBlockHash # current => Before = {}
  /\ lastBlockHash = current =>
       /\ Before # {}
       /\ \A i \in Before : chain[current][i].ext <= lastEventIdx
       /\ lastEventIdx >= 0 => \E i \in Before : chain[current][i].ext = lastEventIdx

\* Every event saved with a link was handled and has an extrinsic.
Linked(c, r, places) == \A p \in r.links : p \in places /\ c[p[1]][p[2]].ext >= 0
LinksHandled ==
  /\ Linked(chain, rows, HandledAt(chain, done, pos))
  /\ Linked(chain, disk, HandledAt(chain, flushed, 0))

RowsInv == TypeOK /\ RowsMatchChain /\ DiskMatches /\ MemoryMatches /\ LinksHandled

\* The empty tables are the image of no event.
LEMMA RowsInit == Init => RowsInv
<1> SUFFICES ASSUME Init PROVE RowsInv
  OBVIOUS
<1>1. TypeOK
  BY TypeInit
<1>2. Log!Indexed(chain, 0) = {}
  BY DEF Log!Indexed
<1>3. HandledAt(chain, 0, 0) = {}
  BY <1>2 DEF HandledAt
<1>4. Shows(chain, NoRows, {}) /\ Linked(chain, NoRows, {})
  BY DEF Shows, Linked, NoRows, Log!ImageOf
<1>5. MemoryMatches
  BY DEF Init, MemoryMatches, Before, current, NoHash
<1> QED
  BY <1>1, <1>3, <1>4, <1>5, RowsMatchShows
  DEF Init, RowsInv, DiskMatches, LinksHandled

\* A handled event is of a block of the chain.
LEMMA HandledInChain ==
  ASSUME TypeOK
  PROVE  /\ \A p \in HandledAt(chain, done, pos) : p[1] \in 1..Len(chain)
         /\ \A p \in HandledAt(chain, flushed, 0) : p[1] \in 1..Len(chain)
BY HandledInside DEF TypeOK, current

\* A new block of the chain adds nothing to what is handled.
LEMMA RowsProduce == RowsInv /\ TypeOK' /\ Produce => RowsInv'
<1> SUFFICES ASSUME RowsInv, TypeOK', Produce PROVE RowsInv'
  OBVIOUS
<1> USE DEF RowsInv
<1>1. PICK l \in Layouts : chain' = Append(chain, l)
  BY DEF Produce
<1>2. \A b \in 1..Len(chain) : chain'[b] = chain[b]
  BY <1>1 DEF TypeOK
<1>3. UNCHANGED <<disk, flushed, rows, done, pos, lastBlockHash, lastEventIdx>>
  BY DEF Produce, memory
<1>4. /\ HandledAt(chain', done, pos) = HandledAt(chain, done, pos)
      /\ HandledAt(chain', flushed, 0) = HandledAt(chain, flushed, 0)
  <2>1. /\ \A b \in 1..done : chain[b] = chain'[b]
        /\ \A b \in 1..flushed : chain[b] = chain'[b]
        /\ pos > 0 => chain[done + 1] = chain'[done + 1]
    <3>1. done \in Nat /\ flushed \in Nat /\ done <= Len(chain) /\ flushed <= Len(chain)
          /\ Len(chain) \in Nat /\ (pos > 0 => done + 1 <= Len(chain))
      BY DEF TypeOK, current
    <3> QED  BY <1>2, <3>1
  <2> QED  BY <2>1, HandledSame DEF TypeOK
<1>5. RowsMatchChain' /\ DiskMatches'
  BY <1>2, <1>3, <1>4, HandledInChain, ShowsSame, RowsMatchShows
  DEF DiskMatches
<1>6. LinksHandled'
  BY <1>2, <1>3, <1>4, HandledInChain DEF LinksHandled, Linked
<1>7. MemoryMatches'
  <2>1. pos > 0 => chain'[current] = chain[current]
    BY <1>2 DEF TypeOK, current
  <2>2. Before' = Before /\ current' = current
    BY <1>3, <2>1 DEF Before, current, TypeOK
  <2>3. Before # {} => chain'[current] = chain[current]
    BY <2>1 DEF Before, TypeOK
  <2> QED  BY <1>3, <2>2, <2>3 DEF MemoryMatches
<1> QED  BY <1>5, <1>6, <1>7

\* A flush makes durable what the rows are at the end of a block.
LEMMA RowsFlush == RowsInv /\ TypeOK' /\ Flush => RowsInv'
<1> SUFFICES ASSUME RowsInv, TypeOK', Flush PROVE RowsInv'
  OBVIOUS
<1>1. /\ pos = 0 /\ disk' = rows /\ flushed' = done
      /\ UNCHANGED <<chain, rows, done, pos, lastBlockHash, lastEventIdx>>
  BY DEF Flush, memory
<1>2. RowsMatchChain' /\ DiskMatches'
  BY <1>1, RowsMatchShows DEF RowsInv, DiskMatches
<1>3. LinksHandled'
  BY <1>1 DEF RowsInv, LinksHandled
<1>4. MemoryMatches'
  BY <1>1 DEF RowsInv, MemoryMatches, Before, current
<1> QED  BY <1>2, <1>3, <1>4 DEF RowsInv

\* A restart takes the rows and the place of the last flush.
LEMMA RowsRestart == RowsInv /\ TypeOK' /\ Restart => RowsInv'
<1> SUFFICES ASSUME RowsInv, TypeOK', Restart PROVE RowsInv'
  OBVIOUS
<1>1. /\ rows' = disk /\ done' = flushed /\ pos' = 0 /\ lastBlockHash' = NoHash
      /\ UNCHANGED <<chain, disk, flushed>>
  BY DEF Restart
<1>2. RowsMatchChain' /\ DiskMatches'
  BY <1>1, RowsMatchShows DEF RowsInv, DiskMatches
<1>3. LinksHandled'
  BY <1>1 DEF RowsInv, LinksHandled
<1>4. MemoryMatches'
  BY <1>1 DEF RowsInv, TypeOK, MemoryMatches, Before, current, NoHash
<1> QED  BY <1>2, <1>3, <1>4 DEF RowsInv

\* Starting a block writes at most the version and the genesis row.
LEMMA RowsBegin == RowsInv /\ TypeOK' /\ BeginBlock => RowsInv'
<1> SUFFICES ASSUME RowsInv, TypeOK', BeginBlock PROVE RowsInv'
  OBVIOUS
<1>1. /\ pos = 0 /\ pos' = 1
      /\ UNCHANGED <<chain, disk, flushed, done, lastBlockHash, lastEventIdx>>
  BY DEF BeginBlock
<1>2. /\ rows'.blocks \ {0} = rows.blocks \ {0} /\ rows'.extrinsics = rows.extrinsics
      /\ rows'.events = rows.events /\ rows'.links = rows.links
  BY DEF BeginBlock, WithRows
<1>3. HandledAt(chain, done, 1) = HandledAt(chain, done, 0)
  BY HandledBegin DEF RowsInv, TypeOK
<1>4. RowsMatchChain' /\ DiskMatches'
  BY <1>1, <1>2, <1>3, RowsMatchShows DEF RowsInv, DiskMatches, Shows
<1>5. LinksHandled'
  BY <1>1, <1>2, <1>3 DEF RowsInv, LinksHandled, Linked
<1>6. MemoryMatches'
  BY <1>1 DEF RowsInv, TypeOK, MemoryMatches, Before, current
<1> QED  BY <1>4, <1>5, <1>6 DEF RowsInv

\* An event no filter selects leaves no row and no trace in memory.
LEMMA RowsSkip == RowsInv /\ TypeOK' /\ SkipEvent => RowsInv'
<1> SUFFICES ASSUME RowsInv, TypeOK', SkipEvent PROVE RowsInv'
  OBVIOUS
<1>1. /\ pos \in Nat \ {0} /\ pos' = pos + 1 /\ ~chain[done + 1][pos].handled
      /\ done \in Nat
      /\ UNCHANGED <<chain, disk, flushed, rows, done, lastBlockHash, lastEventIdx>>
  BY DEF SkipEvent, ThisEvent, current, memory, RowsInv, TypeOK
<1>2. HandledAt(chain, done, pos + 1) = HandledAt(chain, done, pos)
  <2>1. HandledAt(chain, done, pos + 1) = HandledAt(chain, done, pos) \union
          IF chain[done + 1][pos].handled THEN {<<done + 1, pos>>} ELSE {}
    BY <1>1, HandledNext
  <2> QED  BY <1>1, <2>1
<1>3. RowsMatchChain' /\ DiskMatches'
  BY <1>1, <1>2, RowsMatchShows DEF RowsInv, DiskMatches
<1>4. LinksHandled'
  BY <1>1, <1>2 DEF RowsInv, LinksHandled
<1>5. Before' = Before /\ current' = current
  BY <1>1 DEF Before, current
<1>6. MemoryMatches'
  BY <1>1, <1>5 DEF RowsInv, MemoryMatches
<1> QED  BY <1>3, <1>4, <1>6 DEF RowsInv

\* Finishing a block changes no row.
LEMMA RowsFinish == RowsInv /\ TypeOK' /\ FinishBlock => RowsInv'
<1> SUFFICES ASSUME RowsInv, TypeOK', FinishBlock PROVE RowsInv'
  OBVIOUS
<1>1. /\ pos \in Nat \ {0} /\ pos' = 0 /\ done \in Nat /\ done' = done + 1
      /\ DOMAIN chain[done + 1] = 1..(pos - 1)
      /\ UNCHANGED <<chain, disk, flushed, rows, lastBlockHash, lastEventIdx>>
  BY BlockShape DEF FinishBlock, current, memory, RowsInv, TypeOK
<1>2. HandledAt(chain, done, pos) = HandledAt(chain, done + 1, 0)
  BY <1>1, HandledFinish
<1>3. RowsMatchChain' /\ DiskMatches'
  BY <1>1, <1>2, RowsMatchShows DEF RowsInv, DiskMatches
<1>4. LinksHandled'
  BY <1>1, <1>2 DEF RowsInv, LinksHandled
<1>5. MemoryMatches'
  BY <1>1 DEF RowsInv, TypeOK, MemoryMatches, Before, current
<1> QED  BY <1>3, <1>4, <1>5 DEF RowsInv

\* The handler writes exactly the missing rows among an event's three, because
\* lastBlockHash and lastEventIdx say which of them are there.
LEMMA RowsHandle == RowsInv /\ TypeOK' /\ HandleEvent => RowsInv'
<1> SUFFICES ASSUME RowsInv, TypeOK', HandleEvent PROVE RowsInv'
  OBVIOUS
<1> DEFINE x == chain[done + 1][pos].ext
           place == <<done + 1, pos>>
           before == HandledAt(chain, done, pos)
<1>1. /\ done \in Nat /\ pos \in Nat \ {0} /\ pos' = pos + 1
      /\ pos \in DOMAIN chain[done + 1] /\ done + 1 \in 1..Len(chain)
      /\ lastBlockHash \in Nat /\ lastEventIdx \in Int /\ lastBlockHash' = done + 1
      /\ UNCHANGED <<chain, disk, flushed, done>>
  BY BlockShape DEF HandleEvent, current, RowsInv, TypeOK
<1>2. /\ x \in Int /\ x >= -1 /\ chain[done + 1][pos].handled = TRUE
      /\ \A i \in 1..(pos - 1) : chain[done + 1][i].ext \in Int
      /\ \A i \in 1..(pos - 1) :
           (chain[done + 1][i].ext >= 0 /\ x >= 0) => chain[done + 1][i].ext <= x
  <2>1. chain[done + 1][pos].handled = TRUE
    BY <1>1, BlockShape DEF HandleEvent, ThisEvent, current, RowsInv, TypeOK
  <2>2. DOMAIN chain[done + 1] = 1..Len(chain[done + 1]) /\ Len(chain[done + 1]) \in Nat
    BY <1>1, BlockShape DEF RowsInv, TypeOK
  <2>3. \A i \in 1..(pos - 1) : i \in DOMAIN chain[done + 1] /\ i < pos
    BY <1>1, <2>2
  <2> QED  BY <1>1, <2>1, <2>3, BlockShape DEF RowsInv, TypeOK, NoExtrinsic
<1>3. HandledAt(chain, done, pos + 1) = before \union {place}
  <2>1. HandledAt(chain, done, pos + 1) = before \union
          IF chain[done + 1][pos].handled THEN {place} ELSE {}
    BY <1>1, HandledNext
  <2> QED  BY <1>2, <2>1
<1>4. /\ NewBlock <=> lastBlockHash # done + 1
      /\ NewExtrinsic <=> x > StartOfExtrinsics
      /\ StartOfExtrinsics = IF NewBlock THEN -1 ELSE lastEventIdx
      /\ lastEventIdx' = IF NewExtrinsic THEN x ELSE StartOfExtrinsics
      /\ HasLink => x >= 0
  BY <1>2 DEF HandleEvent, NewBlock, NewExtrinsic, StartOfExtrinsics, HasLink,
              ThisEvent, current, NoExtrinsic
<1>5. /\ rows'.blocks = rows.blocks \union (IF NewBlock THEN {done + 1} ELSE {})
      /\ rows'.extrinsics
           = rows.extrinsics \union (IF NewExtrinsic THEN {<<done + 1, x>>} ELSE {})
      /\ rows'.events = rows.events \union {place}
      /\ rows'.links = rows.links \union (IF HasLink THEN {place} ELSE {})
  BY DEF HandleEvent, WithRows, ThisEvent, current
<1>6. Shows(chain, rows, before)
  BY RowsMatchShows DEF RowsInv
\* An event handled before in this block has left its rows.
<1>7. ASSUME NEW i \in Before
      PROVE  /\ done + 1 \in rows.blocks
             /\ chain[done + 1][i].ext >= 0
                  => <<done + 1, chain[done + 1][i].ext>> \in rows.extrinsics
  <2>1. <<done + 1, i>> \in before
    BY <1>1 DEF Before, HandledAt, current
  <2> DEFINE q == <<done + 1, i>>
  <2>2. q[1] = done + 1 /\ q[2] = i
    OBVIOUS
  <2>3. q[1] \in Log!ImageOf(chain, before).blocks
    BY <2>1, ImageMembers
  <2>4. chain[q[1]][q[2]].ext >= 0 =>
          <<q[1], chain[q[1]][q[2]].ext>> \in Log!ImageOf(chain, before).extrinsics
    BY <2>1, ImageMembers
  <2> HIDE DEF q
  <2> QED  BY <1>6, <2>2, <2>3, <2>4 DEF Shows
<1>8. MemoryMatches
  BY DEF RowsInv
<1>9. rows'.blocks \ {0} = (rows.blocks \ {0}) \union {done + 1}
  <2>1. CASE NewBlock
    BY <1>1, <1>5, <2>1
  <2>2. CASE ~NewBlock
    <3>1. done + 1 \in rows.blocks
      BY <1>4, <1>7, <1>8, <2>2 DEF MemoryMatches, current
    <3> QED  BY <1>1, <1>5, <2>2, <3>1
  <2> QED  BY <2>1, <2>2
<1>10. rows'.extrinsics
         = rows.extrinsics \union IF x >= 0 THEN {<<done + 1, x>>} ELSE {}
  <2>1. CASE NewExtrinsic
    <3>1. x >= 0
      <4>1. NewBlock \/ lastEventIdx >= -1
        BY DEF RowsInv, TypeOK, NoExtrinsic
      <4> QED  BY <1>1, <1>2, <1>4, <2>1, <4>1
    <3> QED  BY <1>5, <2>1, <3>1
  <2>2. CASE ~NewExtrinsic /\ x >= 0
    \* The extrinsic of the largest index seen is this one.
    <3>1. ~NewBlock /\ lastEventIdx >= x
      BY <1>1, <1>2, <1>4, <2>2
    <3>2. PICK i \in Before : chain[done + 1][i].ext = lastEventIdx
      BY <1>1, <1>2, <1>4, <1>8, <2>2, <3>1 DEF MemoryMatches, current
    <3>3. i \in 1..(pos - 1)
      BY DEF Before
    <3>4. chain[done + 1][i].ext = x
      BY <1>1, <1>2, <2>2, <3>1, <3>2, <3>3
    <3>5. <<done + 1, x>> \in rows.extrinsics
      BY <1>7, <2>2, <3>4
    <3> QED  BY <1>5, <2>2, <3>5
  <2>3. CASE ~NewExtrinsic /\ ~(x >= 0)
    BY <1>5, <2>3
  <2> QED  BY <2>1, <2>2, <2>3
<1>11. Shows(chain, rows', before \union {place})
  <2>1. done + 1 \in Nat \ {0} /\ pos \in Nat
    BY <1>1
  <2>2. rows'.events = rows.events \union {place} /\ x \in Int
    BY <1>2, <1>5
  <2> HIDE DEF before
  <2> QED  BY <1>6, <1>9, <1>10, <2>1, <2>2, ShowsAdd, Zenon
<1>12. RowsMatchChain' /\ DiskMatches'
  BY <1>1, <1>3, <1>11, RowsMatchShows DEF RowsInv, DiskMatches
<1>13. LinksHandled'
  <2>1. Linked(chain, rows', before \union {place})
    BY <1>4, <1>5 DEF RowsInv, LinksHandled, Linked
  <2> QED  BY <1>1, <1>3, <2>1 DEF RowsInv, LinksHandled
<1>14. MemoryMatches'
  <2>1. Before' = Before \union {pos} /\ current' = done + 1 /\ current = done + 1
    BY <1>1, <1>2 DEF Before, current
  <2>2. \A i \in Before : chain[done + 1][i].ext \in Int
    BY <1>2 DEF Before
  <2>3. ASSUME NEW i \in Before' PROVE chain[done + 1][i].ext <= lastEventIdx'
    BY <1>1, <1>2, <1>4, <1>8, <2>1, <2>2, <2>3 DEF MemoryMatches
  <2>4. lastEventIdx' >= 0 => \E i \in Before' : chain[done + 1][i].ext = lastEventIdx'
    BY <1>1, <1>2, <1>4, <1>8, <2>1 DEF MemoryMatches
  <2> QED  BY <1>1, <2>1, <2>3, <2>4 DEF MemoryMatches
<1> QED  BY <1>12, <1>13, <1>14 DEF RowsInv

\* Every step keeps the inductive invariant.
LEMMA RowsStep == RowsInv /\ [Next]_vars => RowsInv'
<1> SUFFICES ASSUME RowsInv, [Next]_vars PROVE RowsInv'
  OBVIOUS
<1>1. TypeOK'
  BY TypeStep DEF RowsInv
<1>2. CASE Crash \/ HandlerThrows \/ UNCHANGED vars
  <2>1. UNCHANGED <<chain, disk, flushed, rows, done, pos, lastBlockHash, lastEventIdx>>
    BY <1>2 DEF Crash, HandlerThrows, vars, memory
  <2>2. RowsMatchChain' /\ DiskMatches'
    BY <2>1, RowsMatchShows DEF RowsInv, DiskMatches
  <2>3. LinksHandled' /\ MemoryMatches'
    BY <2>1 DEF RowsInv, LinksHandled, MemoryMatches, Before, current
  <2> QED  BY <1>1, <2>2, <2>3 DEF RowsInv
<1> QED
  BY <1>1, <1>2, RowsProduce, RowsFlush, RowsRestart, RowsBegin, RowsSkip,
     RowsFinish, RowsHandle DEF Next

\* At every event the rows are those of the events handled so far: block and
\* extrinsic rows, written only when the handler takes an event for the first
\* of its kind, are all there and are written for no other.
THEOREM RowsMatch == Spec => []RowsMatchChain
<1>1. RowsInv => RowsMatchChain
  BY DEF RowsInv
<1> QED  BY <1>1, RowsInit, RowsStep, PTL DEF Spec

\* An event that refers to an extrinsic refers to one that has a row.
THEOREM LinksAlwaysResolve == Spec => []LinksResolve
<1>1. RowsInv => LinksResolve
  <2> SUFFICES ASSUME RowsInv, NEW p \in rows.links
               PROVE  <<p[1], chain[p[1]][p[2]].ext>> \in rows.extrinsics
    BY DEF LinksResolve
  <2>1. p \in HandledAt(chain, done, pos) /\ chain[p[1]][p[2]].ext >= 0
    BY DEF RowsInv, LinksHandled, Linked
  <2>2. <<p[1], chain[p[1]][p[2]].ext>>
          \in Log!ImageOf(chain, HandledAt(chain, done, pos)).extrinsics
    BY <2>1, ImageMembers
  <2> QED  BY <2>2, RowsMatchShows DEF RowsInv, Shows
<1> QED  BY <1>1, RowsInit, RowsStep, PTL DEF Spec

-----------------------------------------------------------------------------
(* What readers see implements IndexLog.                                   *)

\* Readers start with the image of nothing.
LEMMA LogInit == Init => Log!Init
<1> SUFFICES ASSUME Init PROVE chain = << >> /\ Visible = Log!ImageOf(chain, {})
  BY DEF Log!Init
<1> DEFINE nothing == [blocks |-> {}, extrinsics |-> {}, events |-> {}]
<1>1. Visible = nothing
  BY DEF Init, Visible, NoRows
<1>2. Log!ImageOf(chain, {}) = nothing
  <2>1. /\ {p[1] : p \in {}} = {}
        /\ {q \in {} : chain[q[1]][q[2]].ext >= 0} = {}
        /\ {<<p[1], chain[p[1]][p[2]].ext>> : p \in {}} = {}
    OBVIOUS
  <2> QED  BY <2>1, Zenon DEF Log!ImageOf
<1> QED  BY <1>1, <1>2 DEF Init

\* A flush extends the log by whole blocks, any other step leaves it alone.
LEMMA LogStep == RowsInv /\ [Next]_vars => [Log!Next]_(Log!vars)
<1> SUFFICES ASSUME RowsInv, [Next]_vars PROVE [Log!Next]_(Log!vars)
  OBVIOUS
<1>1. CASE Produce
  BY <1>1 DEF Produce, Log!Next, Log!Produce, Visible
<1>2. CASE Flush
  <2>1. Log!Indexed(chain, done) = HandledAt(chain, done, pos)
    BY <1>2 DEF Flush, HandledAt
  <2>2. Visible' = Log!ImageOf(chain, Log!Indexed(chain, done))
    <3>1. Shows(chain, disk', Log!Indexed(chain, done))
      BY <1>2, <2>1, RowsMatchShows DEF Flush, RowsInv
    <3> QED  BY <3>1 DEF Visible, Shows, Log!ImageOf
  <2>3. Visible.events \subseteq Log!Indexed(chain, done)
    <3>1. /\ done \in Nat /\ flushed \in Nat /\ flushed <= done
      BY DEF RowsInv, TypeOK
    <3>2. Visible.events = Log!Indexed(chain, flushed)
      BY DEF RowsInv, DiskMatches, Shows, Visible, HandledAt, Log!ImageOf
    <3>3. 1..flushed \subseteq 1..done
      BY <3>1
    <3> QED  BY <3>2, <3>3 DEF Log!Indexed
  <2>4. done \in 0..Len(chain) /\ chain' = chain
    BY <1>2 DEF Flush, RowsInv, TypeOK
  <2> QED  BY <2>2, <2>3, <2>4 DEF Log!Next, Log!Reveal
<1>3. CASE UNCHANGED <<chain, disk>>
  BY <1>3 DEF Log!vars, Visible
<1>4. [Next]_vars => Produce \/ Flush \/ UNCHANGED <<chain, disk>>
  BY DEF Next, vars, Crash, Restart, BeginBlock, HandleEvent, HandlerThrows, SkipEvent,
         FinishBlock
<1> QED  BY <1>1, <1>2, <1>3, <1>4

\* Whatever crashes, what readers see is the image of a prefix of the chain
\* that only grows: no block in part, none skipped, nothing taken back.
THEOREM Refinement == Spec => RefinesLog
BY RowsInit, RowsStep, LogInit, LogStep, PTL DEF Spec, RefinesLog, Log!Spec

-----------------------------------------------------------------------------
(* The versions.                                                           *)

\* Whoever did durable work is in the table that became durable with it, and
\* a process that passed its startup has its version among the rows.
VersionInv ==
  /\ TypeOK
  /\ rows.workers \subseteq rows.versions
  /\ disk.workers \subseteq disk.versions
  /\ startupHandled => version \in rows.versions

\* No process has worked yet.
LEMMA VersionInit == Init => VersionInv
<1> SUFFICES ASSUME Init PROVE VersionInv
  OBVIOUS
<1>1. startupHandled = FALSE /\ rows = NoRows /\ disk = NoRows
  BY DEF Init
<1> QED  BY <1>1, TypeInit DEF VersionInv, NoRows

\* Unless the store fails under it, the startup handler of a process comes
\* before its first row.
LEMMA VersionStep ==
  ASSUME StartupMayFail = FALSE
  PROVE  VersionInv /\ [Next]_vars => VersionInv'
<1> SUFFICES ASSUME VersionInv, [Next]_vars PROVE VersionInv'
  OBVIOUS
<1>1. TypeOK'
  BY TypeStep DEF VersionInv
\* The startup handler leaves this version in the table, and keeps the rest.
<1>2. ASSUME NEW vs \in StartupVersions
      PROVE  rows.versions \subseteq vs /\ version \in vs
  <2>1. CASE startupHandled
    BY <2>1 DEF StartupVersions, VersionInv
  <2>2. CASE ~startupHandled
    BY <2>2 DEF StartupVersions
  <2> QED  BY <2>1, <2>2
<1>3. ASSUME NEW vs \in StartupVersions, NEW B, NEW X, NEW E, NEW L,
             rows' = WithRows(vs, B, X, E, L), UNCHANGED <<disk, version>>
      PROVE  VersionInv'
  <2>1. rows'.workers = rows.workers \union {version} /\ rows'.versions = vs
    BY <1>3 DEF WithRows
  <2> QED  BY <1>1, <1>2, <1>3, <2>1 DEF VersionInv
<1>4. CASE BeginBlock
  <2>1. CASE current = 1
    BY <1>3, <1>4, <2>1 DEF BeginBlock
  <2>2. CASE current # 1
    BY <1>1, <1>4, <2>2 DEF BeginBlock, VersionInv
  <2> QED  BY <2>1, <2>2
<1>5. CASE HandleEvent
  BY <1>3, <1>5 DEF HandleEvent
<1>6. CASE Restart
  <2>1. startupHandled' = FALSE /\ rows' = disk /\ disk' = disk
    BY <1>6 DEF Restart
  <2> QED  BY <1>1, <2>1 DEF VersionInv
<1>7. CASE Flush
  BY <1>1, <1>7 DEF Flush, VersionInv, memory
<1>8. CASE UNCHANGED <<rows, disk, version, startupHandled>>
  BY <1>1, <1>8 DEF VersionInv
<1> QED
  BY <1>4, <1>5, <1>6, <1>7, <1>8
  DEF Next, vars, memory, Produce, Crash, HandlerThrows, SkipEvent, FinishBlock

\* While the store takes the startup handler's row, a version that handled an
\* event of a durable block is in the durable table.
THEOREM VersionsRecorded ==
  ASSUME StartupMayFail = FALSE
  PROVE  Spec => []VersionRecorded
<1>1. VersionInv => VersionRecorded
  BY DEF VersionInv, VersionRecorded
<1> QED  BY <1>1, VersionInit, VersionStep, PTL DEF Spec
=============================================================================
