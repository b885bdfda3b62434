------------------------------- MODULE Tickers -------------------------------
(***************************************************************************)
(* Ticker reservations (src/mappings/entities/assets/mapTickers.ts), and   *)
(* db/migrations/11_handle_classic_ticker_claimed.sql, which replays their *)
(* events over the rows: of an older release that has none for some, and   *)
(* of this one when it starts for the second time (see Migrations).        *)
(* The file reads the events back by block: those of one block come in any *)
(* order.                                                                  *)
(***************************************************************************)
EXTENDS Store, Sequences, SequencesExt

CONSTANTS
  Ticker,
  Did, NoDid,       \* NoDid is not a DID
  Asset, NoAsset,   \* NoAsset is not an asset
  MaxEvents         \* bound on the events

VARIABLES
  cOwner,       \* the chain: who has reserved a ticker
  cLinked,      \* the chain: the asset of a ticker
  log,          \* the ticker events so far: [kind, ticker, of, block]
  missing,      \* tickers an older release, the one before file 11, passed over
  reservation,  \* TickerReservation, open rows: [identity, asset, created, updated]
  closed,       \* TickerReservation, the rows whose block range has ended
  ticker,       \* Asset.ticker, of the assets that have one
  migrated      \* file 11 has been applied

vars == <<cOwner, cLinked, log, missing, reservation, closed, ticker, migrated>>

Links == {"Linked", "Unlinked"}
Row(did, asset, created, updated) ==
  [identity |-> did, asset |-> asset, created |-> created, updated |-> updated]

\* Classic tickers have an owner the indexer never saw an event of.
Init ==
  /\ cOwner \in [Ticker -> Did \union {NoDid}]
  /\ cLinked = [t \in Ticker |-> NoAsset]
  /\ log = << >> /\ missing \in SUBSET Ticker
  /\ reservation = NoTable /\ closed = [t \in Ticker |-> {}]
  /\ ticker = NoTable /\ migrated = FALSE

Block == IF log = << >> THEN 0 ELSE log[Len(log)].block
Seen(t) == \E i \in DOMAIN log : log[i].ticker = t

\* The chain emits an event, in a block of its own or in the current one.
Emit(kind, t, of, block) ==
  /\ Len(log) < MaxEvents /\ block > 0
  /\ log' = Append(log, [kind |-> kind, ticker |-> t, of |-> of, block |-> block])
  /\ UNCHANGED <<missing, migrated>>

PassedOver(t) == t \in missing /\ ~migrated

\* X.save() in a block: in a later block the row before it gets its range.
Put(t, row) ==
  /\ reservation' = Save(reservation, t, row)
  /\ closed' = IF Has(reservation, t) /\ reservation[t].updated < row.updated
                 THEN [closed EXCEPT ![t] = @ \union {reservation[t]}] ELSE closed

SetIdentity(t, did, block) ==
  IF PassedOver(t) THEN UNCHANGED <<reservation, closed>>
  ELSE Put(t, IF Has(reservation, t)
                THEN [reservation[t] EXCEPT !.identity = did, !.updated = block]
                ELSE Row(did, NoAsset, block, block))

\* The reservation is new or renewed, its event is emitted again as all were in
\* 7.1.0, or it is of another identity, in a block in which the old one expired.
handleTickerRegistered(t, did, block) ==
  /\ \/ cOwner[t] \in {NoDid, did}
     \/ cLinked[t] = NoAsset /\ \A i \in DOMAIN log : log[i].ticker = t => log[i].block < block
  /\ Emit("Registered", t, did, block)
  /\ cOwner' = [cOwner EXCEPT ![t] = did]
  /\ SetIdentity(t, did, block)
  /\ UNCHANGED <<cLinked, ticker>>

\* handleTickerTransferred, with the row handleClassicTickerClaimed makes.
handleTickerTransferred(t, did, block) ==
  /\ cOwner[t] \notin {NoDid, did} /\ cLinked[t] = NoAsset
  /\ Emit("Transferred", t, did, block)
  /\ cOwner' = [cOwner EXCEPT ![t] = did]
  /\ SetIdentity(t, did, block)
  /\ UNCHANGED <<cLinked, ticker>>

\* Without a row the handlers of links fail, and indexing stops.
SetAsset(t, a, block, tickers) ==
  IF PassedOver(t) THEN UNCHANGED <<reservation, closed, ticker>>
  ELSE /\ Has(reservation, t)
       /\ Put(t, [reservation[t] EXCEPT !.asset = a, !.updated = block])
       /\ ticker' = tickers

handleTickerLinkedToAsset(t, a, block) ==
  /\ cOwner[t] # NoDid /\ cLinked[t] = NoAsset /\ \A u \in Ticker : cLinked[u] # a
  /\ Emit("Linked", t, a, block)
  /\ cLinked' = [cLinked EXCEPT ![t] = a]
  /\ SetAsset(t, a, block, Save(ticker, a, t))
  /\ UNCHANGED cOwner

handleTickerUnlinkedFromAsset(t, a, block) ==
  /\ cLinked[t] = a
  /\ Emit("Unlinked", t, NoAsset, block)
  /\ cLinked' = [cLinked EXCEPT ![t] = NoAsset]
  /\ SetAsset(t, NoAsset, block,
              IF Has(ticker, a) /\ ticker[a] = t THEN Delete(ticker, {a}) ELSE ticker)
  /\ UNCHANGED cOwner

-----------------------------------------------------------------------------
(* File 11.  A table is [open, closed, empty]: the open row of each ticker  *)
(* that has one, the rows whose range has ended, and those the file gave an *)
(* empty range, int8range(b, b): no reader sees these, but they have no     *)
(* upper bound and the file takes them for open.                            *)

\* A ticker without a row gets that of its last registration.
Registrations(t) == {i \in DOMAIN log : log[i].ticker = t /\ log[i].kind = "Registered"}
InsertRegistered(table) ==
  LET last(t) == log[Max(Registrations(t))]
      rows == [t \in {u \in Ticker \ DOMAIN table.open : Registrations(u) # {}} |->
                 Row(last(t).of, NoAsset, last(t).block, last(t).block)]
  IN [table EXCEPT !.open = SaveAll(@, rows)]

\* upper(_block_range) IS NULL.  They are all created in one block.
Active(tb, t) == tb.empty[t] \union (IF Has(tb.open, t) THEN {tb.open[t]} ELSE {})
Rows(tb, t) == tb.closed[t] \union Active(tb, t)

\* The active rows get the range from their block to that of the event, and
\* another row is opened.
Reopen(tb, e, row) ==
  LET old == {[r EXCEPT !.updated = e.block] : r \in Active(tb, e.ticker)}
      ends == tb.open[e.ticker].created < e.block
  IN [open |-> Save(tb.open, e.ticker, row),
      closed |-> [tb.closed EXCEPT ![e.ticker] = IF ends THEN @ \union old ELSE @],
      empty |-> [tb.empty EXCEPT ![e.ticker] = IF ends THEN {} ELSE old]]

\* The active rows are updated.
Update(tb, e, row, empty) ==
  [open |-> Save(tb.open, e.ticker, row), closed |-> tb.closed,
   empty |-> [tb.empty EXCEPT ![e.ticker] = empty]]

ReplayTransfer(tb, e) ==
  IF \/ e.kind # "Transferred"
     \/ \E row \in Rows(tb, e.ticker) : row.identity = e.of /\ row.created = e.block
    THEN tb
  ELSE IF ~Has(tb.open, e.ticker)
    THEN Update(tb, e, Row(e.of, NoAsset, e.block, e.block), {})
  ELSE IF tb.open[e.ticker].created <= e.block
    THEN Reopen(tb, e, Row(e.of, NoAsset, e.block, e.block))
  ELSE Update(tb, e, [tb.open[e.ticker] EXCEPT !.identity = e.of, !.updated = e.block],
              {[r EXCEPT !.identity = e.of, !.updated = e.block] : r \in tb.empty[e.ticker]})

\* SELECT ... LIMIT 1 takes the identity from any of the active rows.
ReplayLink(tb, e) ==
  IF \/ e.kind \notin Links
     \/ \E row \in Rows(tb, e.ticker) : row.asset = e.of /\ row.created = e.block
     \/ ~Has(tb.open, e.ticker)
    THEN {tb}
  ELSE IF tb.open[e.ticker].created < e.block
    THEN {Reopen(tb, e, Row(found.identity, e.of, e.block, e.block)) :
            found \in Active(tb, e.ticker)}
  ELSE {Update(tb, e, [tb.open[e.ticker] EXCEPT !.asset = e.of, !.updated = e.block],
               {[r EXCEPT !.asset = e.of, !.updated = e.block] : r \in tb.empty[e.ticker]})}
ReplayLinks(tables, e) == UNION {ReplayLink(tb, e) : tb \in tables}

\* The events as the file may read them, and the tables they may end in.
Reads ==
  {[i \in DOMAIN log |-> log[at[i]]] :
     at \in {f \in Bijection(DOMAIN log, DOMAIN log) :
              \A i, j \in DOMAIN log : i < j => log[f[i]].block <= log[f[j]].block}}
\* Mutant: links are not replayed over the rows of the transfers.
Replayed_TransfersOnly(table, events) == {FoldLeft(ReplayTransfer, table, events)}
Replayed(table, events) ==
  FoldLeft(ReplayLinks, {FoldLeft(ReplayTransfer, table, events)}, events)

Backfill ==
  /\ ~migrated /\ migrated' = TRUE
  /\ LET rows == [open |-> reservation, closed |-> closed, empty |-> [t \in Ticker |-> {}]]
     IN \E events \in Reads : \E table \in Replayed(InsertRegistered(rows), events) :
          reservation' = table.open /\ closed' = table.closed
  /\ UNCHANGED <<cOwner, cLinked, log, missing, ticker>>

Next ==
  \/ \E t \in Ticker, block \in {Block, Block + 1} :
       \/ \E did \in Did :
            handleTickerRegistered(t, did, block) \/ handleTickerTransferred(t, did, block)
       \/ \E a \in Asset :
            \/ handleTickerLinkedToAsset(t, a, block)
            \/ handleTickerUnlinkedFromAsset(t, a, block)
  \/ Backfill

Spec == Init /\ [][Next]_vars

-----------------------------------------------------------------------------
Shown(t) ==
  /\ Has(reservation, t)
  /\ reservation[t].identity = cOwner[t] /\ reservation[t].asset = cLinked[t]

OfTicker(t) == {i \in DOMAIN log : log[i].ticker = t}

\* Two transfers of the ticker are in one block, or two events of its link, or
\* any two events if an older release passed it over: the file knows no order
\* of them.
Jumbled(t) ==
  \E i, j \in OfTicker(t) :
    /\ i # j /\ log[i].block = log[j].block
    /\ \/ t \in missing
       \/ log[i].kind = "Transferred" /\ log[j].kind = "Transferred"
       \/ log[i].kind \in Links /\ log[j].kind \in Links

\* An older release passed over a link of the ticker when no event had told of
\* its owner yet: the file may find no row to replay it on.
Ownerless(t) ==
  \E i \in OfTicker(t) :
    log[i].kind \in Links /\ \A j \in OfTicker(t) : j < i => log[j].kind \in Links

\* A transfer of the ticker came before a registration by someone else: the
\* replay of the transfers puts it last.
Overtaken(t) ==
  \E i, j \in OfTicker(t) :
    /\ i < j /\ log[i].kind = "Transferred" /\ log[j].kind = "Registered"
    /\ log[i].of # log[j].of

\* The ticker was unlinked and transferred in one block, and transferred again:
\* the row the replay opened for the first transfer makes it pass over the
\* unlinking.
Passed(t) ==
  \E i, j, k \in OfTicker(t) :
    /\ log[i].kind = "Unlinked" /\ log[j].kind = "Transferred" /\ log[i].block = log[j].block
    /\ log[k].kind = "Transferred" /\ log[j].block < log[k].block

\* The row of a ticker has the owner and the asset the chain gives it, after
\* the backfill but for those jumbled, ownerless, overtaken or passed over; and
\* the asset has its ticker, unless an older release passed over it.
TickersMirrorChain ==
  /\ \A t \in Ticker :
       /\ Seen(t) /\ ~PassedOver(t)
       /\ migrated => ~Jumbled(t) /\ ~Ownerless(t) /\ ~Overtaken(t) /\ ~Passed(t)
       => Shown(t)
  /\ \A t \in Ticker \ missing, a \in Asset : cLinked[t] = a <=> Has(ticker, a) /\ ticker[a] = t

\* "Idempotency check: skip if this specific link/unlink has already been
\* processed" (file 11, line 123): a link or an unlinking that no row tells of
\* is not skipped, so the row is as the chain has it.
UnlinkingsReplayed ==
  \A t \in Ticker : Seen(t) /\ migrated /\ ~Jumbled(t) /\ ~Ownerless(t) /\ ~Overtaken(t) => Shown(t)
=============================================================================
