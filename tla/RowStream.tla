------------------------------ MODULE RowStream ------------------------------
(***************************************************************************)
(* How a change of a session row reaches an open sidebar.                  *)
(*                                                                         *)
(* Every write of the sessions table takes the next value of one global    *)
(* sequence as its row_version.  After the commit the writer reads the row *)
(* back and publishes it on NATS; the publish may be lost, or overtaken by *)
(* the other replica's.  A sidebar starts from a snapshot with a cursor,   *)
(* then holds one SSE stream: catch-up from the table, live payloads, and  *)
(* a re-drain of the table at every heartbeat.  A stream that drops is     *)
(* reopened from the last row version the client has seen.                 *)
(*                                                                         *)
(* A row's content is its version and whether it is visible.               *)
(***************************************************************************)
EXTENDS Naturals, Sequences, FiniteSets, FiniteSetsExt

CONSTANTS Sessions,
          MaxWrites,   \* bound on row versions
          MaxFaults,   \* lost publishes, dropped streams, failed deletes
          RowPageLimit,   \* listEventStreamPageLimit
          ChanCap      \* capacity of the subscription channel

ASSUME StreamAssumption ==
  /\ IsFiniteSet(Sessions)
  /\ MaxWrites \in Nat /\ MaxFaults \in Nat
  /\ RowPageLimit \in Nat \ {0} /\ ChanCap \in Nat \ {0}

VARIABLES
  seq,       \* sessions_row_version_seq
  db,        \* committed rows: ver 0 is no row
  tx,        \* open write of a row: its version is taken, its commit is not done
  unread,    \* sessions whose committed write has not been read back yet
  fetched,   \* payloads read back and not yet published
  chan,      \* the subscription's channel, of an open stream
  phase,     \* the stream handler: closed, opening, draining, live
  drained,   \* the handler's drain cursor
  delivered, \* the handler's per-session high-water map
  store,     \* the client: SessionStore's rows (the version held, 0 for none),
             \* tombs and cursor (seen), and the stream's own resume point
  snap,      \* snapshot: none, due, or in flight (stamped, listed)
  deleting,  \* sessions the user deleted and whose DELETE is on its way
  deleted,   \* those whose DELETE has written, and is not answered yet
  buried,    \* history: sessions that are or may come to be tombstoned at the client
             \* though they are visible: the DELETE failed, or the row was shown again
  gap,       \* history: a resume point went past a row the client lacks
  faults

table  == <<seq, db, tx, unread, fetched>>
server == <<chan, phase, drained, delivered>>
streamVars == <<seq, db, tx, unread, fetched, chan, phase, drained, delivered,
               store, snap, deleting, deleted, buried, gap, faults>>
client == <<store, snap, deleting, deleted, buried>>

Versions == 0..MaxWrites
NoTx   == [ver |-> 0, vis |-> FALSE, all |-> FALSE]
NoSnap == [step |-> "none", cursor |-> 0, rows |-> [s \in Sessions |-> 0]]
Payload == [id : Sessions, ver : Versions, vis : BOOLEAN]

StreamTypeOK ==
  /\ seq \in Versions
  /\ db \in [Sessions -> [ver : Versions, vis : BOOLEAN]]
  /\ tx \in [Sessions -> [ver : Versions, vis : BOOLEAN, all : BOOLEAN]]
  /\ unread \subseteq Sessions /\ fetched \subseteq Payload
  /\ chan \in Seq(Payload) /\ Len(chan) <= ChanCap
  /\ phase \in {"closed", "opening", "draining", "live"}
  /\ drained \in Versions /\ delivered \in [Sessions -> Versions]
  /\ store \in [rows : [Sessions -> Versions], tombs : SUBSET Sessions,
                seen : Versions, resume : Versions]
  /\ snap \in [step : {"none", "due", "stamped", "listed"}, cursor : Versions,
               rows : [Sessions -> Versions]]
  /\ deleting \subseteq Sessions /\ deleted \subseteq Sessions /\ buried \subseteq Sessions
  /\ gap \in BOOLEAN /\ faults \in 0..MaxFaults

Fault == faults < MaxFaults /\ faults' = faults + 1

\* The client shows the committed state of s.
Committed(s) == IF db[s].vis THEN db[s].ver ELSE 0
Known(s) == store.rows[s] = Committed(s)
Synced == \A s \in Sessions : Known(s) \/ s \in buried
\* The resume points in use: nothing at or below them is sent again.
Floors == {store.seen, store.resume, snap.cursor} \cup (IF phase = "closed" THEN {} ELSE {drained})

StreamInit ==
  /\ seq = 0 /\ db = [s \in Sessions |-> [ver |-> 0, vis |-> FALSE]]
  /\ tx = [s \in Sessions |-> NoTx] /\ unread = {} /\ fetched = {}
  /\ chan = <<>> /\ phase = "closed" /\ drained = 0
  /\ delivered = [s \in Sessions |-> 0]
  /\ store = [rows |-> [s \in Sessions |-> 0], tombs |-> {}, seen |-> 0, resume |-> 0]
  /\ snap = [NoSnap EXCEPT !.step = "due"]
  /\ deleting = {} /\ deleted = {} /\ buried = {} /\ gap = FALSE /\ faults = 0

-----------------------------------------------------------------------------
(* Writers                                                                 *)

Visible == {s \in Sessions : db[s].vis}

\* Versions left within the bound, one kept for every delete under way.
Left == MaxWrites - seq - Cardinality(deleting)

\* One UPDATE or INSERT takes a version and holds the row until it commits.
Write(s, vis) ==
  /\ tx[s] = NoTx /\ seq < MaxWrites
  /\ seq' = seq + 1
  /\ tx' = [tx EXCEPT ![s] = [ver |-> seq + 1, vis |-> vis, all |-> FALSE]]
  /\ UNCHANGED <<db, unread, fetched, server, store, snap, gap, faults>>

\* Create's second upsert shows a row again that was hidden meanwhile; a client
\* that saw it hidden has a tombstone for it.
UpsertRow(s) ==
  /\ s \notin deleting /\ Left > 0
  /\ Write(s, TRUE)
  /\ buried' = IF db[s].vis \/ db[s].ver = 0 THEN buried ELSE buried \cup {s}
  /\ UNCHANGED <<deleting, deleted>>

\* Reorder rewrites every visible row of the owner in one transaction, in the
\* order asked for: place is each row's position in it.
Reorder(place) ==
  /\ Visible # {} /\ Cardinality(Visible) <= Left
  /\ \A s \in Visible : tx[s] = NoTx
  /\ \A s, t \in Visible : place[s] = place[t] => s = t
  /\ seq' = seq + Cardinality(Visible)
  /\ tx' = [s \in Sessions |-> IF s \in Visible
              THEN [ver |-> seq + place[s], vis |-> TRUE, all |-> TRUE] ELSE tx[s]]
  /\ UNCHANGED <<db, unread, fetched, server, client, gap, faults>>

\* A commit below a resume point is out of every drain's sight.
Commit(s) ==
  LET batch == IF tx[s].all THEN {t \in Sessions : tx[t].all} ELSE {s} IN
  /\ tx[s] # NoTx
  /\ db' = [t \in Sessions |-> IF t \in batch THEN [ver |-> tx[t].ver, vis |-> tx[t].vis] ELSE db[t]]
  /\ tx' = [t \in Sessions |-> IF t \in batch THEN NoTx ELSE tx[t]]
  /\ unread' = unread \cup batch
  /\ gap' = (gap \/ \E t \in batch, f \in Floors : tx[t].ver <= f)
  /\ UNCHANGED <<seq, fetched, server, client, faults>>

\* PublishCurrentRow reads the row as it is now, not as it was written.
FetchRow(s) ==
  /\ s \in unread
  /\ unread' = unread \ {s}
  /\ fetched' = fetched \cup {[id |-> s, ver |-> db[s].ver, vis |-> db[s].vis]}
  /\ UNCHANGED <<seq, db, tx, server, client, gap, faults>>

\* Subscribers get the payload, unless their channel is full.
PublishRow(p) ==
  /\ p \in fetched /\ fetched' = fetched \ {p}
  /\ chan' = IF phase \in {"draining", "live"} /\ Len(chan) < ChanCap THEN Append(chan, p) ELSE chan
  /\ UNCHANGED <<seq, db, tx, unread, phase, drained, delivered, client, gap, faults>>

\* The row read or the publish fails: logged, not repeated.
LosePublish(s) ==
  /\ s \in unread /\ unread' = unread \ {s} /\ Fault
  /\ UNCHANGED <<seq, db, tx, fetched, server, client, gap>>

-----------------------------------------------------------------------------
(* The client's store                                                      *)

Later(a, b) == IF a >= b THEN a ELSE b

\* Mutant: no version comparison.
AcceptsAnyVersion(s, row) == s \notin store.tombs
\* applyRowUpdate turns away deleted sessions and stale versions.
Accepts(s, row) == s \notin store.tombs /\ store.rows[s] <= row.ver

\* The store after the stream sent rows, at most one of each session, in the
\* order of their versions: the cursors move over every one of them.
ApplyRowUpdates(rows) ==
  LET taken == {s \in DOMAIN rows : Accepts(s, rows[s])}
      last  == Max({rows[s].ver : s \in DOMAIN rows}) IN
  IF DOMAIN rows = {} THEN store ELSE
  [rows   |-> [s \in Sessions |-> IF s \notin taken THEN store.rows[s]
                                  ELSE IF rows[s].vis THEN rows[s].ver ELSE 0],
   tombs  |-> store.tombs \cup {s \in taken : ~rows[s].vis},
   seen   |-> Later(store.seen, last),
   resume |-> last]

\* applySnapshot: newer rows stay, and so do rows after the snapshot cursor.
SnapshotRow(s) ==
  IF snap.rows[s] # 0 THEN Later(store.rows[s], snap.rows[s])
  ELSE IF snap.cursor # 0 /\ store.rows[s] > snap.cursor THEN store.rows[s] ELSE 0

\* A late snapshot can undo what the stream has shown and will not send again:
\* it lifts tombstones, and one without a cursor drops every row it lacks.
ApplySnapshot ==
  /\ snap.step = "listed" /\ snap' = NoSnap
  /\ store' = [store EXCEPT !.rows = [s \in Sessions |-> SnapshotRow(s)],
                            !.tombs = {s \in @ : SnapshotRow(s) = 0},
                            !.seen = Later(@, snap.cursor)]
  /\ gap' = (gap \/ \E s \in Sessions :
                       SnapshotRow(s) # Committed(s) /\ db[s].ver <= Later(drained, delivered[s]))
  /\ buried' = {s \in buried : tx[s] # NoTx \/ ~db[s].vis \/ SnapshotRow(s) # db[s].ver}
  /\ UNCHANGED <<table, server, deleting, deleted, faults>>

Tip == Max({db[s].ver : s \in Sessions} \cup {0})

\* handleListSessions stamps the tip before it lists.
StampCursor ==
  /\ snap.step \in {"none", "due"}
  /\ snap.step = "due" \/ phase = "closed" \/ deleting # {}
  /\ snap' = [NoSnap EXCEPT !.step = "stamped", !.cursor = Tip]
  /\ UNCHANGED <<table, server, store, deleting, deleted, buried, gap, faults>>

ListSessions ==
  /\ snap.step = "stamped"
  /\ snap' = [snap EXCEPT !.step = "listed",
                          !.rows = [s \in Sessions |-> IF s \in Visible THEN db[s].ver ELSE 0]]
  /\ UNCHANGED <<table, server, store, deleting, deleted, buried, gap, faults>>

\* The row goes from the sidebar at once; the DELETE follows.
OptimisticDelete(s) ==
  /\ store.rows[s] # 0 /\ s \notin deleting /\ Left > 0
  /\ store' = [store EXCEPT !.tombs = @ \cup {s}, !.rows[s] = 0]
  /\ deleting' = deleting \cup {s}
  /\ UNCHANGED <<table, server, snap, deleted, buried, gap, faults>>

MarkDeleted(s) ==
  /\ s \in deleting /\ db[s].vis
  /\ Write(s, FALSE) /\ deleting' = deleting \ {s} /\ deleted' = deleted \cup {s}
  /\ UNCHANGED buried

\* The answer makes the client refetch the snapshot.
DeleteReturns(s) ==
  /\ s \in deleted /\ tx[s] = NoTx /\ snap.step \in {"none", "due"}
  /\ deleted' = deleted \ {s} /\ snap' = [NoSnap EXCEPT !.step = "due"]
  /\ UNCHANGED <<table, server, store, deleting, buried, gap, faults>>

\* Another tab, a service caller or the idle reaper hides the row.
HiddenElsewhere(s) ==
  /\ s \notin deleting /\ db[s].vis /\ Left > 0
  /\ Write(s, FALSE) /\ UNCHANGED <<deleting, deleted, buried>>

\* A DELETE that failed, before its write or after: the client keeps the
\* tombstone and takes no snapshot.
DeleteFails(s) ==
  /\ s \in deleting \cup deleted /\ Fault
  /\ deleting' = deleting \ {s} /\ deleted' = deleted \ {s}
  /\ buried' = buried \cup (deleting \cap {s})
  /\ UNCHANGED <<table, server, store, snap, gap>>

-----------------------------------------------------------------------------
(* The stream handler                                                      *)

\* The snapshot under way will show s as it is in the table.
Coming(s) ==
  \/ snap.step \in {"due", "stamped"}
  \/ snap.step = "listed" /\ SnapshotRow(s) = Committed(s)

\* The cursor comes from the last payload; before the first one, from the store
\* as it was at the first open that found a cursor there.  A client without one
\* is moved to the current tip.  Nothing waits for the snapshot.
Open ==
  LET asked == IF store.resume # 0 THEN store.resume ELSE store.seen
      from  == IF asked # 0 THEN asked ELSE Tip IN
  /\ phase = "closed"
  /\ phase' = "opening" /\ drained' = from
  /\ gap' = (gap \/ \E s \in Sessions : db[s].ver <= from /\ ~Known(s) /\ ~Coming(s))
  /\ store' = [store EXCEPT !.resume = asked]
  /\ UNCHANGED <<table, chan, delivered, snap, deleting, deleted, buried, faults>>

\* Subscribed before the catch-up, so that nothing falls in between.
Subscribe ==
  /\ phase = "opening"
  /\ phase' = "draining" /\ chan' = <<>>
  /\ delivered' = [s \in Sessions |-> 0]
  /\ UNCHANGED <<table, drained, client, gap, faults>>

\* fetchSessionRowsAfter: rows by version, hidden ones included, up to a page.
RowsAfter(c) == {s \in Sessions : db[s].ver > c}
Page(c) == {s \in RowsAfter(c) :
              Cardinality({t \in RowsAfter(c) : db[t].ver <= db[s].ver}) <= RowPageLimit}

\* Mutant: one high-water mark for the whole stream.
UnsentStreamWide(s, row) == \A t \in Sessions : row.ver > delivered[t]
\* A row goes out unless this stream already sent it that far.
Unsent(s, row) == row.ver > delivered[s]

Send(rows) ==
  LET out == {s \in DOMAIN rows : Unsent(s, rows[s])} IN
  /\ store' = ApplyRowUpdates([s \in out |-> rows[s]])
  /\ delivered' = [s \in Sessions |-> IF s \in out THEN rows[s].ver ELSE delivered[s]]

\* A page: the cursor moves over every row, whether or not it is sent.
DrainPage ==
  LET page == Page(drained) IN
  /\ phase = "draining"
  /\ Send([s \in page |-> db[s]])
  /\ drained' = IF page = {} THEN drained ELSE Max({db[s].ver : s \in page})
  /\ phase' = IF page # RowsAfter(drained) THEN "draining" ELSE "live"
  /\ UNCHANGED <<table, chan, snap, deleting, deleted, buried, gap, faults>>

\* Mutant: a heartbeat that only keeps the connection open.
HeartbeatOnly == phase = "live" /\ UNCHANGED streamVars

Heartbeat ==
  /\ phase = "live" /\ RowsAfter(drained) # {}
  /\ phase' = "draining"
  /\ UNCHANGED <<table, chan, drained, delivered, client, gap, faults>>

\* emitSessionRowPayload: suppression per session; the drain cursor stays, so
\* a late payload can undo what the snapshot or an earlier stream showed.
EmitRow ==
  LET p == Head(chan) IN
  /\ phase = "live" /\ chan # <<>>
  /\ chan' = Tail(chan)
  /\ Send([s \in {p.id} |-> [ver |-> p.ver, vis |-> p.vis]])
  /\ gap' = (gap \/ (p.ver < db[p.id].ver /\ db[p.id].ver <= drained /\ store'.rows # store.rows))
  /\ UNCHANGED <<table, phase, drained, snap, deleting, deleted, buried, faults>>

Disconnect ==
  /\ phase # "closed" /\ Fault
  /\ phase' = "closed" /\ chan' = <<>> /\ drained' = 0
  /\ UNCHANGED <<table, delivered, client, gap>>

-----------------------------------------------------------------------------
StreamNext ==
  \/ \E s \in Sessions : UpsertRow(s) \/ Commit(s) \/ FetchRow(s) \/ LosePublish(s)
                         \/ OptimisticDelete(s) \/ MarkDeleted(s) \/ HiddenElsewhere(s)
                         \/ DeleteReturns(s) \/ DeleteFails(s)
  \/ \E place \in [Visible -> 1..Cardinality(Visible)] : Reorder(place)
  \/ \E p \in fetched : PublishRow(p)
  \/ StampCursor \/ ListSessions \/ ApplySnapshot
  \/ Open \/ Subscribe \/ DrainPage \/ Heartbeat \/ EmitRow \/ Disconnect

StreamSpec ==
  /\ StreamInit /\ [][StreamNext]_streamVars
  /\ WF_streamVars(\E s \in Sessions : Commit(s) \/ MarkDeleted(s) \/ DeleteReturns(s) \/ DeleteFails(s))
  /\ WF_streamVars(ListSessions \/ ApplySnapshot \/ (snap.step = "due" /\ StampCursor))
  /\ WF_streamVars(Open \/ Subscribe) /\ WF_streamVars(DrainPage) /\ WF_streamVars(Heartbeat)
  /\ WF_streamVars(EmitRow)

-----------------------------------------------------------------------------
(* Properties                                                              *)

\* While no resume point went past a row, a row below the drain cursor of an
\* open stream is on the client's screen or will never be: the live path may
\* lose, reorder and repeat as it likes (handlers_session_list_events.go:52).
DrainFloor ==
  (phase \in {"draining", "live"} /\ ~gap /\ snap.step = "none") =>
    \A s \in Sessions :
      db[s].ver <= drained => (Known(s) \/ s \in store.tombs)

\* An open sidebar comes to show the table, through lost and reordered
\* payloads, full channels and reconnects, unless a resume point went past a
\* row (handlers_sessions.go:652).  A session whose tombstone outlived its
\* failed DELETE is missing until a snapshot brings it back.
Converges == <>[](Synced \/ gap)

\* A stream shows a session its versions in order, and a row the user deleted
\* is not shown again by the stream, only by a snapshot (sessionStore.ts:255).
NoRegress ==
  [][\A s \in Sessions :
       (snap.step # "listed" \/ snap'.step = "listed") =>
         /\ store'.rows[s] # 0 => store'.rows[s] >= store.rows[s]
         /\ s \in store.tombs => store'.rows[s] = 0]_streamVars

\* The stream's cursor against the client's screen (handlers_session_list_events.go:52).
StreamSafe == StreamTypeOK /\ DrainFloor
=============================================================================
