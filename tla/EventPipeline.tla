---------------------------- MODULE EventPipeline ----------------------------
(***************************************************************************)
(* The generic indexing of blocks, extrinsics and events                   *)
(* (src/mappings/mappingHandlers.ts): what runs for every event of the     *)
(* chain, inside the engine that fetches blocks, calls the handlers one    *)
(* event at a time and writes the rows of whole blocks to the database.    *)
(*                                                                         *)
(* The handler keeps its place in module variables (lastBlockHash,         *)
(* lastEventIdx, startupHandled): they live as long as the process, while  *)
(* the rows live as long as the block that wrote them is durable.  The     *)
(* interesting runs are those where the two lives end at different times.  *)
(*                                                                         *)
(* A block is a sequence of events; an event is [ext, handled, throws]:    *)
(* the index of the extrinsic that emitted it (NoExtrinsic when the block  *)
(* itself did), whether a filter of project.ts selects it, and whether one *)
(* of its handlers throws on it, every time.  A block's hash is its        *)
(* number, and NoHash is the empty string.                                 *)
(***************************************************************************)
EXTENDS Integers, Sequences

CONSTANTS
  Layouts,          \* the shapes of the blocks the chain may produce
  MaxBlocks,        \* bound on the length of the chain
  MaxCrashes,       \* bound on the crashes of the process
  Versions,         \* the package versions that may be deployed
  StartupMayFail    \* whether a store error may hit the startup handler

NoExtrinsic == -1
NoHash == 0
Event == [ext : Int, handled : BOOLEAN, throws : BOOLEAN]

\* Events come in the order of the extrinsics that emit them.
InOrder(l) ==
  \A i, j \in DOMAIN l :
    (i < j /\ l[i].ext >= 0 /\ l[j].ext >= 0) => l[i].ext <= l[j].ext

ASSUME LayoutsAssumption ==
  \A l \in Layouts : l \in Seq(Event) /\ InOrder(l)
                     /\ \A i \in DOMAIN l : l[i].ext >= NoExtrinsic
ASSUME BoundsAssumption ==
  MaxBlocks \in Nat /\ MaxCrashes \in Nat /\ StartupMayFail \in BOOLEAN

VARIABLES
  chain,            \* the finalized blocks
  disk,             \* the durable rows
  flushed,          \* the number of blocks whose rows are durable
  rows,             \* the rows as the handlers see and write them
  done,             \* the number of blocks fully handled
  pos,              \* the next event of block done + 1; 0 before its first
  lastBlockHash,
  lastEventIdx,
  startupHandled,
  version,          \* the package version that runs
  up,               \* whether the process runs
  crashes

memory == <<lastBlockHash, lastEventIdx, startupHandled>>
vars == <<chain, disk, flushed, rows, done, pos, memory, version, up, crashes>>

\* links: the events saved with a reference to their extrinsic.
\* workers: the versions that handled an event (history, not a table).
NoRows == [blocks |-> {}, extrinsics |-> {}, events |-> {}, links |-> {},
           versions |-> {}, workers |-> {}]

Init ==
  /\ chain = << >>
  /\ disk = NoRows /\ flushed = 0
  /\ rows = NoRows /\ done = 0 /\ pos = 0
  /\ lastBlockHash = NoHash /\ lastEventIdx = NoExtrinsic
  /\ startupHandled = FALSE
  /\ version \in Versions
  /\ up = TRUE
  /\ crashes = 0

current == done + 1
ThisEvent == chain[current][pos]

-----------------------------------------------------------------------------
(* The chain and the engine, as the code relies on them.                   *)

Produce ==
  /\ Len(chain) < MaxBlocks
  /\ \E l \in Layouts : chain' = Append(chain, l)
  /\ UNCHANGED <<disk, flushed, rows, done, pos, memory, version, up, crashes>>

\* Between two blocks the engine writes the rows of all handled blocks, and
\* the height they reach, in one database transaction.
Flush ==
  /\ up /\ pos = 0 /\ flushed < done
  /\ disk' = rows
  /\ flushed' = done
  /\ UNCHANGED <<chain, rows, done, pos, memory, version, up, crashes>>

\* The process dies: the database went away, a deployment.
Crash ==
  /\ up /\ crashes < MaxCrashes
  /\ up' = FALSE
  /\ crashes' = crashes + 1
  /\ UNCHANGED <<chain, disk, flushed, rows, done, pos, memory, version>>

\* A new process starts from the durable rows with fresh module variables.
Restart ==
  /\ ~up
  /\ up' = TRUE
  /\ rows' = disk /\ done' = flushed /\ pos' = 0
  /\ lastBlockHash' = NoHash /\ lastEventIdx' = NoExtrinsic
  /\ startupHandled' = FALSE
  /\ version' \in Versions
  /\ UNCHANGED <<chain, disk, flushed, crashes>>

-----------------------------------------------------------------------------
(* The handlers.                                                           *)

\* Mutant: the row is written only into an empty table.
StartupVersions_Once ==
  {IF startupHandled \/ rows.versions # {} THEN rows.versions
                                           ELSE rows.versions \union {version}}

\* Mutant: the row is inserted without a look at the table, which throws when
\* there is one.
StartupVersions_Insert ==
  IF startupHandled THEN {rows.versions}
  ELSE IF version \in rows.versions THEN {} ELSE {rows.versions \union {version}}

\* handleStartup: the row of this version, when the table has none.  An error
\* of the store is logged and dropped, and startupHandled is set all the same.
StartupVersions ==
  IF startupHandled
  THEN {rows.versions}
  ELSE {rows.versions \union {version}}
       \union IF StartupMayFail THEN {rows.versions} ELSE {}

\* The rows with those that a handler of this version adds.
WithRows(vs, blocks, extrinsics, events, links) ==
  [ blocks     |-> rows.blocks \union blocks,
    extrinsics |-> rows.extrinsics \union extrinsics,
    events     |-> rows.events \union events,
    links      |-> rows.links \union links,
    versions   |-> vs,
    workers    |-> rows.workers \union {version} ]

\* handleGenesis, the block handler of block 1: startup, then the genesis
\* block's own row.  Any later block goes straight to its events.
BeginBlock ==
  /\ up /\ pos = 0 /\ done < Len(chain)
  /\ pos' = 1
  /\ IF current = 1
     THEN /\ \E vs \in StartupVersions :
               rows' = WithRows(vs, {0}, {}, {}, {})
          /\ startupHandled' = TRUE
     ELSE UNCHANGED <<rows, startupHandled>>
  /\ UNCHANGED <<chain, disk, flushed, done, lastBlockHash, lastEventIdx,
                 version, up, crashes>>

\* Mutant: the hash is compared with the initial one.
NewBlock_First == lastBlockHash = NoHash
NewBlock == lastBlockHash # current

\* Mutant: lastEventIdx is not reset.
StartOfExtrinsics_Kept == lastEventIdx
StartOfExtrinsics == IF NewBlock THEN NoExtrinsic ELSE lastEventIdx

\* Mutant: any other index counts, also that of an event without extrinsic.
NewExtrinsic_Other == ThisEvent.ext # StartOfExtrinsics
NewExtrinsic == ThisEvent.ext > StartOfExtrinsics

\* extractArgs: an extrinsic index of zero counts as no extrinsic.
HasLink == ThisEvent.ext > 0

\* No handler of the event throws: each has a function that is exported, finds
\* the rows it needs and understands the shape of the arguments.
HandlerReturns == ~ThisEvent.throws

\* handleEvent: the block's row at its first event, the extrinsic's row at
\* its first event, the event's row always.
HandleEvent ==
  /\ up /\ pos > 0 /\ pos <= Len(chain[current])
  /\ ThisEvent.handled /\ HandlerReturns
  /\ \E vs \in StartupVersions :
       rows' = WithRows(vs, IF NewBlock THEN {current} ELSE {},
                        IF NewExtrinsic THEN {<<current, ThisEvent.ext>>} ELSE {},
                        {<<current, pos>>},
                        IF HasLink THEN {<<current, pos>>} ELSE {})
  /\ startupHandled' = TRUE
  /\ lastBlockHash' = current
  /\ lastEventIdx' = IF NewExtrinsic THEN ThisEvent.ext ELSE StartOfExtrinsics
  /\ pos' = pos + 1
  /\ UNCHANGED <<chain, disk, flushed, done, version, up, crashes>>

\* A handler throws: the engine stops the process in the middle of the block.
HandlerThrows ==
  /\ up /\ pos > 0 /\ pos <= Len(chain[current])
  /\ ThisEvent.handled /\ ~HandlerReturns
  /\ up' = FALSE
  /\ UNCHANGED <<chain, disk, flushed, rows, done, pos, memory, version, crashes>>

\* No filter of project.ts selects the event: no handler is called.
SkipEvent ==
  /\ up /\ pos > 0 /\ pos <= Len(chain[current])
  /\ ~ThisEvent.handled
  /\ pos' = pos + 1
  /\ UNCHANGED <<chain, disk, flushed, rows, done, memory, version, up, crashes>>

FinishBlock ==
  /\ up /\ pos > 0 /\ pos > Len(chain[current])
  /\ done' = current
  /\ pos' = 0
  /\ UNCHANGED <<chain, disk, flushed, rows, memory, version, up, crashes>>

Next ==
  \/ Produce \/ Flush \/ Crash \/ Restart
  \/ BeginBlock \/ HandleEvent \/ HandlerThrows \/ SkipEvent \/ FinishBlock

Spec == Init /\ [][Next]_vars

\* The engine keeps fetching and flushing, and the container is restarted.
Fairness ==
  /\ WF_vars(Flush) /\ WF_vars(Restart)
  /\ WF_vars(BeginBlock) /\ WF_vars(HandleEvent) /\ WF_vars(HandlerThrows)
  /\ WF_vars(SkipEvent) /\ WF_vars(FinishBlock)

FairSpec == Spec /\ Fairness

-----------------------------------------------------------------------------
(* Properties.                                                             *)

Place == (Nat \ {0}) \X (Nat \ {0})
Rows == [blocks : SUBSET Nat, extrinsics : SUBSET (Nat \X Nat),
         events : SUBSET Place, links : SUBSET Place,
         versions : SUBSET Versions, workers : SUBSET Versions]

\* Every variable has its type, the engine's place is inside the chain, and
\* nothing is durable that was not handled.
TypeOK ==
  /\ chain \in Seq(Layouts)
  /\ disk \in Rows /\ rows \in Rows
  /\ flushed \in Nat /\ done \in Nat /\ pos \in Nat
  /\ flushed <= done /\ done <= Len(chain)
  /\ (pos > 0) => (done < Len(chain) /\ pos <= Len(chain[current]) + 1)
  /\ lastBlockHash \in Nat
  /\ lastEventIdx \in Int /\ lastEventIdx >= NoExtrinsic
  /\ startupHandled \in BOOLEAN /\ up \in BOOLEAN
  /\ version \in Versions
  /\ crashes \in Nat

Visible == [blocks |-> disk.blocks \ {0}, extrinsics |-> disk.extrinsics,
            events |-> disk.events]

Log == INSTANCE IndexLog WITH visible <- Visible

\* The events handled so far, by this process or by an earlier one.
Handled ==
  Log!Indexed(chain, done)
  \union IF pos = 0 THEN {}
         ELSE {current} \X {i \in 1..(pos - 1) : chain[current][i].handled}

\* The rows the handlers work on are at every event the image of the events
\* handled so far: each has its row, the row of its block and the row of its
\* extrinsic, although the last two are written only at the first event and
\* the memory of what was written is lost in a crash.
RowsMatchChain ==
  LET image == Log!ImageOf(chain, Handled)
  IN /\ rows.blocks \ {0} = image.blocks
     /\ rows.extrinsics = image.extrinsics
     /\ rows.events = image.events

\* An event that refers to an extrinsic refers to a row that exists, already
\* when the event-specific handlers of later events read it.
LinksResolve ==
  \A p \in rows.links : <<p[1], chain[p[1]][p[2]].ext>> \in rows.extrinsics

\* "This handles the insertion of new SQ version on every restart": whoever
\* handled an event of a durable block has its version in the durable table,
\* even if it crashed once between writing its version and the flush.
VersionRecorded == disk.workers \subseteq disk.versions

\* Whatever crashes, what readers see is the image of a growing prefix.
RefinesLog == Log!Spec

\* Some handler throws on an event of the chain.
Stuck ==
  \E b \in DOMAIN chain : \E i \in DOMAIN chain[b] :
    chain[b][i].handled /\ chain[b][i].throws

\* Every block of the chain becomes visible if the process stops crashing and
\* no handler throws for good.  One event that is thrown on, and whatever its
\* block, the blocks before it may stay unseen too: each restart can come to
\* the event before the engine next writes its rows.
EventuallyIndexed ==
  \A b \in 1..MaxBlocks : (Len(chain) >= b) ~> (flushed >= b \/ Stuck)
=============================================================================
