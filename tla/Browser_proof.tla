---------------------------- MODULE Browser_proof ----------------------------
(***************************************************************************)
(* Proofs about what a browser is shown: the session list and its stream   *)
(* (RowStream), the nesting of sessions (SessionNesting), and the read     *)
(* models of one session (SessionViews).  For any constants that satisfy   *)
(* their assumptions; the three share no state.                            *)
(***************************************************************************)
EXTENDS RowStream, SessionNesting, SessionViews, FunctionTheorems, FiniteSetTheorems,
        SequenceTheorems, WellFoundedInduction, TLAPS

-----------------------------------------------------------------------------
(* RowStream                                                               *)

(* The sidebar's stream.                                                       *)

Row == [ver : Versions, vis : BOOLEAN]

\* The DELETEs under way, and those that left a tombstone behind.
DeleteTypes == deleting \subseteq Sessions /\ deleted \subseteq Sessions /\ buried \subseteq Sessions
USE DEF DeleteTypes, client

\* An open write holds a version that no row has passed.
TableInv ==
  \A s \in Sessions :
    /\ db[s].ver <= seq /\ tx[s].ver <= seq
    /\ tx[s] # NoTx => db[s].ver < tx[s].ver

\* A payload is of some state of its row, and of the last one if it has its version.
OfRow(p) == p.ver <= db[p.id].ver /\ (p.ver = db[p.id].ver => p.vis = db[p.id].vis)

\* Nothing that was read, sent or shown is ahead of the table.
HeldInv ==
  /\ \A s \in Sessions : /\ store.rows[s] <= db[s].ver /\ snap.rows[s] <= db[s].ver
                         /\ delivered[s] <= db[s].ver
  /\ \A p \in fetched : OfRow(p)
  /\ \A i \in 1..Len(chan) : OfRow(chan[i])
  /\ \A s \in store.tombs : store.rows[s] = 0

\* On the client's screen, or deleted by the user.
OnScreen(s) == Known(s) \/ s \in store.tombs

\* What the drain has passed is settled, and so is what the stream has sent last.
FloorInv ==
  (~gap /\ snap.step = "none") =>
    \A s \in Sessions :
      /\ (phase # "closed" /\ db[s].ver <= drained) => OnScreen(s)
      /\ (phase \in {"draining", "live"} /\ delivered[s] = db[s].ver) => OnScreen(s)

StreamInv == StreamTypeOK /\ TableInv /\ HeldInv /\ FloorInv

\* A set of numbers has a least one: the well-ordering of Nat, as the proofs
\* below use it.
LEMMA Least ==
  ASSUME NEW T, T \subseteq Nat, T # {}
  PROVE  \E x \in T : \A y \in T : x <= y
<1> DEFINE R == OpToRel(<, Nat)
<1>1. IsWellFoundedOn(R, Nat)
  BY NatLessThanWellFounded
<1>2. \A x, y \in Nat : x < y => <<x, y>> \in R
  BY DEF OpToRel
<1> HIDE DEF R
<1>3. PICK x \in T : \A y \in T : ~(<<y, x>> \in R)
  BY <1>1, WFMin
<1>4. ASSUME NEW y \in T PROVE ~(y < x)
  <2>1. y \in Nat /\ x \in Nat
    OBVIOUS
  <2> QED
    BY <1>2, <1>3, <2>1, Zenon
<1>5. \A y \in T : x <= y
  <2>1. \A y \in T : y \in Nat /\ x \in Nat
    OBVIOUS
  <2> QED
    BY <1>4, <2>1
<1> QED
  BY <1>5

\* The last of some versions.
LEMMA LastVersion ==
  ASSUME NEW T, T \subseteq Versions, T # {}
  PROVE  Max(T) \in T /\ \A y \in T : y <= Max(T)
<1> USE StreamAssumption DEF StreamAssumption, Versions
<1> DEFINE U == {MaxWrites - y : y \in T}
<1>1. U \subseteq Nat /\ U # {}
  OBVIOUS
<1>2. PICK u \in U : \A w \in U : u <= w
  BY <1>1, Least
<1>3. PICK x \in T : u = MaxWrites - x
  BY <1>2
<1>4. ASSUME NEW y \in T PROVE y <= x
  <2>1. MaxWrites - y \in U
    OBVIOUS
  <2>2. u <= MaxWrites - y
    BY <1>2, <2>1
  <2> QED
    BY <1>3, <2>2
<1>5. \E z \in T : \A y \in T : z >= y
  BY <1>4
<1> QED
  BY <1>5 DEF Max

\* The table's tip is a version.
LEMMA TipVersion ==
  ASSUME StreamTypeOK
  PROVE  Tip \in Versions
<1>1. {db[s].ver : s \in Sessions} \cup {0} \subseteq Versions
  BY StreamAssumption DEF StreamTypeOK, StreamAssumption, Versions
<1> QED
  BY <1>1, LastVersion DEF Tip

\* What the client has once msgs are sent: each row not sent this far yet is
\* taken, unless the user deleted it or the screen is ahead.
LEMMA Sent_Rows ==
  ASSUME StreamTypeOK, NEW D \in SUBSET Sessions, NEW msgs \in [D -> Row], Send(msgs)
  PROVE  /\ store' \in [rows : [Sessions -> Versions], tombs : SUBSET Sessions,
                        seen : Versions, resume : Versions]
         /\ delivered' \in [Sessions -> Versions]
         /\ store.tombs \subseteq store'.tombs
         /\ \A s \in Sessions :
              LET new == s \in D /\ msgs[s].ver > delivered[s]
              IN /\ delivered'[s] = IF new THEN msgs[s].ver ELSE delivered[s]
                 /\ (new /\ Accepts(s, msgs[s])) =>
                      /\ store'.rows[s] = IF msgs[s].vis THEN msgs[s].ver ELSE 0
                      /\ ~msgs[s].vis => s \in store'.tombs
                 /\ ~(new /\ Accepts(s, msgs[s])) =>
                      /\ store'.rows[s] = store.rows[s]
                      /\ s \in store'.tombs => s \in store.tombs
                 /\ (s \in store'.tombs /\ s \notin store.tombs) => store'.rows[s] = 0
<1> DEFINE out == {s \in DOMAIN msgs : Unsent(s, msgs[s])}
           sent == [s \in out |-> msgs[s]]
           taken == {s \in out : Accepts(s, msgs[s])}
           last == Max({sent[s].ver : s \in out})
<1>1. DOMAIN msgs = D /\ DOMAIN sent = out /\ out \subseteq D /\ taken \subseteq out
  OBVIOUS
<1>2. \A s \in D : msgs[s].ver \in Versions /\ msgs[s].vis \in BOOLEAN
  BY DEF Row
<1>3. \A s \in out : sent[s] = msgs[s]
  OBVIOUS
<1>4. \A s \in Sessions : s \in out <=> (s \in D /\ msgs[s].ver > delivered[s])
  BY <1>1 DEF Unsent
<1>5. /\ store' = ApplyRowUpdates(sent)
      /\ delivered' = [s \in Sessions |-> IF s \in out THEN msgs[s].ver ELSE delivered[s]]
  BY DEF Send
<1>6. delivered' \in [Sessions -> Versions]
  BY <1>1, <1>2, <1>5 DEF StreamTypeOK
<1>7. CASE out = {}
  <2>1. store' = store
    BY <1>1, <1>5, <1>7 DEF ApplyRowUpdates
  <2> QED
    BY <1>4, <1>5, <1>6, <1>7, <2>1 DEF StreamTypeOK
<1>8. CASE out # {}
  <2>1. {s \in DOMAIN sent : Accepts(s, sent[s])} = taken
    BY <1>1, <1>3
  <2>2. {sent[s].ver : s \in DOMAIN sent} = {sent[s].ver : s \in out}
    BY <1>1
  <2>3. store' = [rows   |-> [s \in Sessions |-> IF s \notin taken THEN store.rows[s]
                                ELSE IF sent[s].vis THEN sent[s].ver ELSE 0],
                  tombs  |-> store.tombs \cup {s \in taken : ~sent[s].vis},
                  seen   |-> Later(store.seen, last),
                  resume |-> last]
    BY <1>1, <1>5, <1>8, <2>1, <2>2 DEF ApplyRowUpdates
  <2>4. last \in Versions
    <3>1. {sent[s].ver : s \in out} \subseteq Versions /\ {sent[s].ver : s \in out} # {}
      BY <1>1, <1>2, <1>3, <1>8
    <3> QED
      BY <3>1, LastVersion
  <2> HIDE DEF last, sent, taken, out
  <2>5. /\ store'.rows = [s \in Sessions |-> IF s \notin taken THEN store.rows[s]
                                ELSE IF sent[s].vis THEN sent[s].ver ELSE 0]
        /\ store'.tombs = store.tombs \cup {s \in taken : ~sent[s].vis}
        /\ store'.seen = Later(store.seen, last) /\ store'.resume = last
    BY <2>3
  <2>6. \A s \in Sessions : s \in taken <=> (s \in D /\ msgs[s].ver > delivered[s] /\ Accepts(s, msgs[s]))
    BY <1>1, <1>4 DEF taken
  <2>7. 0 \in Versions
    BY StreamAssumption DEF StreamAssumption, Versions
  <2>8. store'.rows \in [Sessions -> Versions] /\ store'.tombs \subseteq Sessions /\ store'.seen \in Versions
    BY <1>1, <1>2, <1>3, <2>4, <2>5, <2>7 DEF StreamTypeOK, Later
  <2>9. store' \in [rows : [Sessions -> Versions], tombs : SUBSET Sessions,
                    seen : Versions, resume : Versions]
    BY <2>3, <2>4, <2>5, <2>8
  <2>10. \A s \in taken : sent[s] = msgs[s]
    BY <1>1, <1>3
  <2> QED
    BY <1>1, <1>4, <1>5, <1>6, <2>5, <2>6, <2>9, <2>10
<1> QED
  BY <1>7, <1>8

\* A browser that opens on an empty table satisfies the invariant.
LEMMA StreamInit_Inv ==
  StreamInit => StreamInv
<1> SUFFICES ASSUME StreamInit PROVE StreamInv
  OBVIOUS
<1> USE StreamAssumption DEF StreamAssumption, Versions
<1>1. StreamTypeOK
  <2>1. snap = [step |-> "due", cursor |-> 0, rows |-> [s \in Sessions |-> 0]]
    BY DEF StreamInit, NoSnap
  <2>2. chan \in Seq(Payload) /\ Len(chan) = 0
    BY DEF StreamInit
  <2>3. /\ db \in [Sessions -> [ver : Versions, vis : BOOLEAN]]
        /\ tx \in [Sessions -> [ver : Versions, vis : BOOLEAN, all : BOOLEAN]]
    BY DEF StreamInit, NoTx
  <2>4. store \in [rows : [Sessions -> Versions], tombs : SUBSET Sessions, seen : Versions, resume : Versions]
    BY DEF StreamInit
  <2>5. snap \in [step : {"none", "due", "stamped", "listed"}, cursor : Versions, rows : [Sessions -> Versions]]
    BY <2>1
  <2>6. seq \in Versions /\ drained \in Versions /\ Len(chan) <= ChanCap /\ faults \in 0..MaxFaults
    BY <2>2 DEF StreamInit
  <2>7. phase \in {"closed", "opening", "draining", "live"} /\ delivered \in [Sessions -> Versions]
    BY DEF StreamInit
  <2>8. unread \subseteq Sessions /\ fetched \subseteq Payload /\ DeleteTypes /\ gap \in BOOLEAN
    BY DEF StreamInit
  <2> QED
    BY <2>2, <2>3, <2>4, <2>5, <2>6, <2>7, <2>8 DEF StreamTypeOK
<1>2. TableInv
  BY DEF StreamInit, TableInv, NoTx
<1>3. HeldInv
  BY DEF StreamInit, HeldInv, NoSnap
<1>4. FloorInv
  BY DEF StreamInit, FloorInv, NoSnap
<1> QED
  BY <1>1, <1>2, <1>3, <1>4 DEF StreamInv

\* Sets of sessions are finite.
LEMMA Sessions_Count ==
  ASSUME NEW S \in SUBSET Sessions
  PROVE  IsFiniteSet(S) /\ Cardinality(S) \in Nat
BY StreamAssumption, FS_Subset, FS_CardinalityType DEF StreamAssumption

\* Opening writes changes neither the msgs nor what is known of them.
LEMMA Open_Writes ==
  ASSUME StreamInv, NEW n \in Versions, seq' = n, seq <= n,
         tx' \in [Sessions -> [ver : Versions, vis : BOOLEAN, all : BOOLEAN]],
         \A s \in Sessions : tx'[s] = tx[s] \/ (seq < tx'[s].ver /\ tx'[s].ver <= n),
         DeleteTypes',
         UNCHANGED <<db, unread, fetched, server, store, snap, gap, faults>>
  PROVE  StreamInv'
<1> USE DEF StreamInv, server
<1>1. StreamTypeOK'
  BY DEF StreamTypeOK
<1>2. TableInv'
  <2>1. ASSUME NEW s \in Sessions
        PROVE  /\ db[s].ver <= n /\ tx'[s].ver <= n
               /\ tx'[s] # NoTx => db[s].ver < tx'[s].ver
    <3>1. seq \in Nat /\ n \in Nat /\ db[s].ver \in Nat /\ tx[s].ver \in Nat /\ tx'[s].ver \in Nat
      BY DEF StreamTypeOK, Versions
    <3>2. /\ db[s].ver <= seq /\ tx[s].ver <= seq
          /\ tx[s] # NoTx => db[s].ver < tx[s].ver
      BY DEF TableInv
    <3> QED
      BY <3>1, <3>2
  <2> QED
    BY <2>1 DEF TableInv
<1>3. HeldInv'
  BY DEF HeldInv, OfRow
<1>4. FloorInv'
  BY DEF FloorInv, OnScreen, Known, Committed
<1> QED
  BY <1>1, <1>2, <1>3, <1>4

\* A write of one row  takes the next version and leaves every row where it
\* was.
LEMMA Write_Inv ==
  ASSUME StreamInv, NEW s \in Sessions, NEW vis \in BOOLEAN, Write(s, vis), DeleteTypes'
  PROVE  StreamInv'
<1>1. seq \in Nat /\ seq + 1 \in Versions /\ seq' = seq + 1
  BY StreamAssumption DEF StreamInv, StreamTypeOK, Write, Versions, StreamAssumption
<1>2. tx' = [tx EXCEPT ![s] = [ver |-> seq + 1, vis |-> vis, all |-> FALSE]]
  BY DEF Write
<1>3. tx' \in [Sessions -> [ver : Versions, vis : BOOLEAN, all : BOOLEAN]]
  BY <1>1, <1>2 DEF StreamInv, StreamTypeOK
<1>4. ASSUME NEW t \in Sessions PROVE tx'[t] = tx[t] \/ (seq < tx'[t].ver /\ tx'[t].ver <= seq + 1)
  BY <1>1, <1>2 DEF StreamInv, StreamTypeOK
<1>5. UNCHANGED <<db, unread, fetched, server, store, snap, gap, faults>> /\ seq <= seq + 1
  BY <1>1 DEF Write
<1> QED
  BY <1>1, <1>3, <1>4, <1>5, Open_Writes

\* A reorder gives the visible rows versions of one transaction, all of them
\* new.
LEMMA Reorder_Inv ==
  ASSUME StreamInv, NEW place \in [Visible -> 1..Cardinality(Visible)], Reorder(place)
  PROVE  StreamInv'
<1> DEFINE n == Cardinality(Visible)
<1>1. n \in Nat /\ Cardinality(deleting) \in Nat
  BY Sessions_Count DEF StreamInv, StreamTypeOK, Visible
<1>2. seq \in Nat /\ seq + n \in Versions /\ seq' = seq + n
  <2>1. seq \in Nat /\ MaxWrites \in Nat
    BY StreamAssumption DEF StreamInv, StreamTypeOK, Versions, StreamAssumption
  <2>2. n <= MaxWrites - seq - Cardinality(deleting) /\ seq' = seq + n
    BY DEF Reorder, Left
  <2> HIDE DEF n
  <2> QED
    BY <1>1, <2>1, <2>2 DEF Versions
<1>3. \A s \in Visible : place[s] \in 1..n
  OBVIOUS
<1> HIDE DEF n
<1>4. tx' = [s \in Sessions |-> IF s \in Visible THEN [ver |-> seq + place[s], vis |-> TRUE, all |-> TRUE] ELSE tx[s]]
  BY DEF Reorder
<1>5. ASSUME NEW s \in Visible PROVE seq + place[s] \in Versions /\ seq < seq + place[s] /\ seq + place[s] <= seq + n
  <2>1. place[s] \in Nat /\ 1 <= place[s] /\ place[s] <= n
    BY <1>1, <1>3
  <2> QED
    BY <1>1, <1>2, <2>1, StreamAssumption DEF Versions, StreamAssumption
<1>6. tx' \in [Sessions -> [ver : Versions, vis : BOOLEAN, all : BOOLEAN]]
  BY <1>4, <1>5 DEF StreamInv, StreamTypeOK
<1>7. ASSUME NEW t \in Sessions PROVE tx'[t] = tx[t] \/ (seq < tx'[t].ver /\ tx'[t].ver <= seq + n)
  BY <1>4, <1>5
<1>8. UNCHANGED <<db, unread, fetched, server, store, snap, gap, faults>> /\ DeleteTypes'
  BY DEF Reorder, StreamInv, StreamTypeOK
<1>9. seq <= seq + n
  BY <1>1, <1>2
<1> QED
  BY <1>2, <1>6, <1>7, <1>8, <1>9, Open_Writes

\* A commit above every resume point leaves what the drain has passed as it was.
LEMMA Commit_Inv ==
  ASSUME StreamInv, NEW s \in Sessions, Commit(s)
  PROVE  StreamInv'
<1> USE DEF StreamInv
<1> DEFINE batch == IF tx[s].all THEN {t \in Sessions : tx[t].all} ELSE {s}
<1>1. /\ batch \subseteq Sessions /\ tx[s] # NoTx
      /\ db' = [t \in Sessions |-> IF t \in batch THEN [ver |-> tx[t].ver, vis |-> tx[t].vis] ELSE db[t]]
      /\ tx' = [t \in Sessions |-> IF t \in batch THEN NoTx ELSE tx[t]]
      /\ unread' = unread \cup batch
      /\ gap' = (gap \/ \E t \in batch, f \in Floors : tx[t].ver <= f)
      /\ UNCHANGED <<seq, fetched, server, store, snap, deleting, deleted, buried, faults>>
  BY DEF Commit
<1>2. \A t \in batch : tx[t] # NoTx
  BY <1>1 DEF NoTx
<1> HIDE DEF batch
<1>3. NoTx \in [ver : Versions, vis : BOOLEAN, all : BOOLEAN]
  BY StreamAssumption DEF NoTx, Versions, StreamAssumption
<1>4. StreamTypeOK'
  <2>1. db' \in [Sessions -> [ver : Versions, vis : BOOLEAN]]
    BY <1>1 DEF StreamTypeOK
  <2>2. tx' \in [Sessions -> [ver : Versions, vis : BOOLEAN, all : BOOLEAN]]
    BY <1>1, <1>3 DEF StreamTypeOK
  <2>3. gap' \in BOOLEAN
    BY <1>1 DEF StreamTypeOK
  <2> QED
    BY <1>1, <2>1, <2>2, <2>3 DEF StreamTypeOK, server
<1>5. ASSUME NEW t \in Sessions
      PROVE  /\ t \in batch => db'[t].ver = tx[t].ver /\ tx'[t] = NoTx /\ db[t].ver < tx[t].ver
             /\ t \notin batch => db'[t] = db[t] /\ tx'[t] = tx[t]
             /\ db[t].ver \in Nat /\ tx[t].ver \in Nat /\ db'[t].ver \in Nat
             /\ db[t].ver <= db'[t].ver /\ (db'[t].ver = db[t].ver => t \notin batch)
  <2>1. t \in batch => db[t].ver < tx[t].ver
    BY <1>2 DEF TableInv
  <2>2. db[t].ver \in Nat /\ tx[t].ver \in Nat
    BY DEF StreamTypeOK, Versions
  <2> QED
    BY <1>1, <2>1, <2>2
<1>6. TableInv'
  <2>1. ASSUME NEW t \in Sessions
        PROVE  /\ db'[t].ver <= seq /\ tx'[t].ver <= seq
               /\ tx'[t] # NoTx => db'[t].ver < tx'[t].ver
    <3>1. db[t].ver <= seq /\ tx[t].ver <= seq /\ (tx[t] # NoTx => db[t].ver < tx[t].ver) /\ seq \in Nat
      BY DEF TableInv, StreamTypeOK, Versions
    <3>2. CASE t \in batch
      <4>1. db'[t].ver = tx[t].ver /\ tx'[t] = NoTx
        BY <1>5, <3>2
      <4>2. NoTx.ver <= seq
        BY <3>1 DEF NoTx
      <4> QED
        BY <3>1, <4>1, <4>2
    <3>3. CASE t \notin batch
      <4>1. db'[t] = db[t] /\ tx'[t] = tx[t]
        BY <1>5, <3>3
      <4> QED
        BY <3>1, <4>1
    <3> QED
      BY <3>2, <3>3
  <2> QED
    BY <1>1, <2>1 DEF TableInv
<1>7. HeldInv'
  <2>1. ASSUME NEW p \in Payload, OfRow(p) PROVE OfRow(p)'
    <3>1. p.id \in Sessions /\ p.ver \in Nat
      BY DEF Payload, Versions
    <3>2. /\ db[p.id].ver \in Nat /\ db'[p.id].ver \in Nat /\ db[p.id].ver <= db'[p.id].ver
          /\ db'[p.id].ver = db[p.id].ver => db'[p.id] = db[p.id]
      BY <1>5, <3>1
    <3>3. p.ver <= db[p.id].ver /\ (p.ver = db[p.id].ver => p.vis = db[p.id].vis)
      BY <2>1 DEF OfRow
    <3>4. p.ver <= db'[p.id].ver /\ (p.ver = db'[p.id].ver => db'[p.id].ver = db[p.id].ver)
      BY <3>1, <3>2, <3>3
    <3> QED
      BY <3>2, <3>3, <3>4 DEF OfRow
  <2>2. ASSUME NEW t \in Sessions
        PROVE  store.rows[t] <= db'[t].ver /\ snap.rows[t] <= db'[t].ver /\ delivered[t] <= db'[t].ver
    <3>1. store.rows[t] \in Nat /\ snap.rows[t] \in Nat /\ delivered[t] \in Nat
      BY DEF StreamTypeOK, Versions
    <3>2. store.rows[t] <= db[t].ver /\ snap.rows[t] <= db[t].ver /\ delivered[t] <= db[t].ver
      BY DEF HeldInv
    <3>3. db[t].ver \in Nat /\ db'[t].ver \in Nat /\ db[t].ver <= db'[t].ver
      BY <1>5
    <3> QED
      BY <3>1, <3>2, <3>3
  <2>3. \A i \in 1..Len(chan) : chan[i] \in Payload
    BY DEF StreamTypeOK
  <2>4. (\A p \in fetched : OfRow(p))'
    BY <1>1, <2>1 DEF StreamTypeOK, HeldInv
  <2>5. (\A i \in 1..Len(chan) : OfRow(chan[i]))'
    <3> SUFFICES ASSUME NEW i \in 1..Len(chan) PROVE OfRow(chan[i])'
      BY <1>1 DEF server
    <3>1. OfRow(chan[i])
      BY DEF HeldInv
    <3>2. PICK p \in Payload : p = chan[i]
      BY <2>3
    <3>3. chan' = chan
      BY <1>1 DEF server
    <3> QED
      BY <2>1, <3>1, <3>2, <3>3 DEF OfRow
  <2> QED
    BY <1>1, <2>2, <2>4, <2>5 DEF HeldInv, server
<1>8. FloorInv'
  <2> SUFFICES ASSUME ~gap', snap.step = "none", NEW t \in Sessions
               PROVE  /\ (phase # "closed" /\ db'[t].ver <= drained) => OnScreen(t)'
                      /\ (phase \in {"draining", "live"} /\ delivered[t] = db'[t].ver) => OnScreen(t)'
    BY <1>1 DEF FloorInv, server
  <2>1. CASE t \in batch
    <3>1. phase # "closed" => ~(tx[t].ver <= drained)
      BY <1>1, <2>1 DEF Floors
    <3>2. delivered[t] <= db[t].ver /\ delivered[t] \in Nat
      BY DEF HeldInv, StreamTypeOK, Versions
    <3>3. db'[t].ver = tx[t].ver /\ db[t].ver < tx[t].ver /\ db[t].ver \in Nat /\ tx[t].ver \in Nat
      BY <1>5, <2>1
    <3> QED
      BY <3>1, <3>2, <3>3
  <2>2. CASE t \notin batch
    <3>1. db'[t] = db[t] /\ store' = store /\ ~gap
      BY <1>1, <1>5, <2>2
    <3> QED
      BY <3>1 DEF FloorInv, OnScreen, Known, Committed
  <2> QED
    BY <2>1, <2>2
<1> QED
  BY <1>4, <1>6, <1>7, <1>8

\* A payload read back is of the row as it is.
LEMMA FetchRow_Inv ==
  ASSUME StreamInv, NEW s \in Sessions, FetchRow(s)
  PROVE  StreamInv'
<1> USE DEF StreamInv
<1> DEFINE p == [id |-> s, ver |-> db[s].ver, vis |-> db[s].vis]
<1>1. /\ fetched' = fetched \cup {p} /\ unread' = unread \ {s}
      /\ UNCHANGED <<seq, db, tx, chan, phase, drained, delivered, store, snap, deleting, deleted, buried, gap, faults>>
  BY DEF FetchRow, server
<1>2. p \in Payload /\ OfRow(p)
  BY DEF StreamTypeOK, Payload, OfRow, Versions
<1> HIDE DEF p
<1>3. StreamTypeOK'
  BY <1>1, <1>2 DEF StreamTypeOK
<1>4. TableInv'
  BY <1>1 DEF TableInv
<1>5. HeldInv'
  BY <1>1, <1>2 DEF HeldInv, OfRow
<1>6. FloorInv'
  BY <1>1 DEF FloorInv, OnScreen, Known, Committed
<1> QED
  BY <1>3, <1>4, <1>5, <1>6

\* A published payload joins the channel as it was read, or is dropped when the
\* buffer is full.
LEMMA PublishRow_Inv ==
  ASSUME StreamInv, NEW p \in fetched, PublishRow(p)
  PROVE  StreamInv'
<1> USE DEF StreamInv
<1>1. /\ fetched' = fetched \ {p}
      /\ UNCHANGED <<seq, db, tx, unread, phase, drained, delivered, store, snap, deleting, deleted, buried, gap, faults>>
      /\ chan' = chan \/ (Len(chan) < ChanCap /\ chan' = Append(chan, p))
  BY DEF PublishRow
<1>2. p \in Payload /\ OfRow(p) /\ chan \in Seq(Payload)
  BY DEF StreamTypeOK, HeldInv
<1>3. chan' \in Seq(Payload) /\ Len(chan') <= ChanCap
  <2>1. Len(chan) \in Nat /\ Len(chan) <= ChanCap /\ ChanCap \in Nat
    BY <1>2, StreamAssumption DEF StreamTypeOK, StreamAssumption
  <2>2. Append(chan, p) \in Seq(Payload) /\ Len(Append(chan, p)) = Len(chan) + 1
    BY <1>2
  <2> QED
    BY <1>1, <1>2, <2>1, <2>2
<1>4. StreamTypeOK'
  BY <1>1, <1>3 DEF StreamTypeOK
<1>5. TableInv'
  BY <1>1 DEF TableInv
<1>6. ASSUME NEW i \in 1..Len(chan') PROVE chan'[i] = p \/ (i \in 1..Len(chan) /\ chan'[i] = chan[i])
  BY <1>1, <1>2
<1>7. (\A i \in 1..Len(chan) : OfRow(chan[i]))'
  <2> SUFFICES ASSUME NEW i \in 1..Len(chan') PROVE OfRow(chan'[i])
    BY <1>1 DEF OfRow
  <2> QED
    BY <1>2, <1>6 DEF HeldInv
<1>8. HeldInv'
  BY <1>1, <1>7 DEF HeldInv, OfRow
<1>9. FloorInv'
  BY <1>1 DEF FloorInv, OnScreen, Known, Committed
<1> QED
  BY <1>4, <1>5, <1>8, <1>9

\* A publication that is lost leaves the rest alone.
LEMMA LosePublish_Inv ==
  ASSUME StreamInv, NEW s \in Sessions, LosePublish(s)
  PROVE  StreamInv'
<1> USE DEF StreamInv
<1>1. /\ unread' = unread \ {s} /\ faults' \in 0..MaxFaults
      /\ UNCHANGED <<seq, db, tx, fetched, chan, phase, drained, delivered, store, snap, deleting, deleted, buried, gap>>
  BY StreamAssumption DEF LosePublish, Fault, server, StreamTypeOK, StreamAssumption
<1>2. StreamTypeOK'
  BY <1>1 DEF StreamTypeOK
<1>3. TableInv' /\ HeldInv' /\ FloorInv'
  BY <1>1 DEF TableInv, HeldInv, OfRow, FloorInv, OnScreen, Known, Committed
<1> QED
  BY <1>2, <1>3

\* Taking a snapshot says nothing about the msgs until it is applied.
LEMMA NewSnap ==
  ASSUME StreamInv, snap' \in [step : {"due", "stamped", "listed"}, cursor : Versions, rows : [Sessions -> Versions]],
         \A s \in Sessions : snap'.rows[s] <= db[s].ver,
         UNCHANGED <<table, server, store, gap>>, DeleteTypes', faults' \in 0..MaxFaults
  PROVE  StreamInv'
<1> USE DEF StreamInv, table, server
<1>1. snap' \in [step : {"none", "due", "stamped", "listed"}, cursor : Versions, rows : [Sessions -> Versions]]
      /\ snap'.step # "none"
  OBVIOUS
<1>2. StreamTypeOK'
  BY <1>1 DEF StreamTypeOK
<1>3. TableInv'
  BY DEF TableInv
<1>4. HeldInv'
  BY DEF HeldInv, OfRow
<1>5. FloorInv'
  BY <1>1 DEF FloorInv
<1> QED
  BY <1>2, <1>3, <1>4, <1>5

\* The cursor of a snapshot is the table's tip, before its rows are listed.
LEMMA Stamp_Inv ==
  ASSUME StreamInv, snap' = [NoSnap EXCEPT !.step = "stamped", !.cursor = Tip],
         UNCHANGED <<table, server, store, gap>>, DeleteTypes', faults' \in 0..MaxFaults
  PROVE  StreamInv'
<1>1. snap'.step = "stamped" /\ snap'.cursor = Tip /\ snap'.rows = [s \in Sessions |-> 0]
  BY DEF NoSnap
<1>2. Tip \in Versions /\ 0 \in Versions
  BY TipVersion, StreamAssumption DEF StreamInv, StreamAssumption, Versions
<1>3. snap' \in [step : {"due", "stamped", "listed"}, cursor : Versions, rows : [Sessions -> Versions]]
  BY <1>2 DEF NoSnap
<1>4. \A s \in Sessions : snap'.rows[s] <= db[s].ver
  BY <1>1 DEF StreamInv, StreamTypeOK, Versions
<1> QED
  BY <1>3, <1>4, NewSnap

\* A listing shows each visible row at its committed version.
LEMMA ListSessions_Inv ==
  ASSUME StreamInv, ListSessions
  PROVE  StreamInv'
<1> DEFINE listing == [s \in Sessions |-> IF s \in Visible THEN db[s].ver ELSE 0]
<1>1. 0 \in Versions
  BY StreamAssumption DEF StreamAssumption, Versions
<1>2. listing \in [Sessions -> Versions] /\ \A s \in Sessions : listing[s] <= db[s].ver
  BY <1>1 DEF StreamInv, StreamTypeOK, Versions
<1> HIDE DEF listing
<1>3. snap' = [snap EXCEPT !.step = "listed", !.rows = listing]
  BY DEF ListSessions, listing
<1>4. /\ snap' \in [step : {"due", "stamped", "listed"}, cursor : Versions, rows : [Sessions -> Versions]]
      /\ snap'.rows = listing
  BY <1>2, <1>3 DEF StreamInv, StreamTypeOK
<1>5. UNCHANGED <<table, server, store, gap>> /\ DeleteTypes' /\ faults' \in 0..MaxFaults
  BY DEF ListSessions, StreamInv, StreamTypeOK
<1> QED
  BY <1>2, <1>4, <1>5, NewSnap

\* A snapshot that undoes what the stream will not send again raises gap.
LEMMA ApplySnapshot_Inv ==
  ASSUME StreamInv, ApplySnapshot
  PROVE  StreamInv'
<1> USE DEF StreamInv
<1>1. /\ snap' = NoSnap
      /\ gap' = (gap \/ \E s \in Sessions :
                       SnapshotRow(s) # Committed(s) /\ db[s].ver <= Later(drained, delivered[s]))
      /\ UNCHANGED <<seq, db, tx, unread, fetched, chan, phase, drained, delivered, deleting, deleted, faults>>
      /\ buried' \subseteq Sessions
  BY DEF ApplySnapshot, StreamTypeOK, table, server
<1>2. 0 \in Versions
  BY StreamAssumption DEF StreamAssumption, Versions
<1>3. ASSUME NEW s \in Sessions PROVE SnapshotRow(s) \in Versions /\ SnapshotRow(s) <= db[s].ver
  <2>1. store.rows[s] <= db[s].ver /\ snap.rows[s] <= db[s].ver /\ 0 <= db[s].ver
    BY DEF HeldInv, StreamTypeOK, Versions
  <2> QED
    BY <1>2, <2>1 DEF SnapshotRow, Later, StreamTypeOK
<1>4. /\ store'.rows = [s \in Sessions |-> SnapshotRow(s)]
      /\ store'.tombs = {s \in store.tombs : SnapshotRow(s) = 0}
      /\ store' \in [rows : [Sessions -> Versions], tombs : SUBSET Sessions, seen : Versions, resume : Versions]
  <2>1. store' = [store EXCEPT !.rows = [s \in Sessions |-> SnapshotRow(s)],
                               !.tombs = {s \in store.tombs : SnapshotRow(s) = 0},
                               !.seen = Later(store.seen, snap.cursor)]
    BY DEF ApplySnapshot, StreamTypeOK
  <2>2. Later(store.seen, snap.cursor) \in Versions
    BY DEF Later, StreamTypeOK
  <2>3. [s \in Sessions |-> SnapshotRow(s)] \in [Sessions -> Versions]
    BY <1>3
  <2> QED
    BY <2>1, <2>2, <2>3 DEF StreamTypeOK
<1>5. StreamTypeOK'
  <2>1. NoSnap \in [step : {"none", "due", "stamped", "listed"}, cursor : Versions, rows : [Sessions -> Versions]]
    BY <1>2 DEF NoSnap
  <2>2. gap' \in BOOLEAN
    BY <1>1 DEF StreamTypeOK
  <2> QED
    BY <1>1, <1>4, <2>1, <2>2 DEF StreamTypeOK
<1>6. TableInv'
  BY <1>1 DEF TableInv
<1>7. HeldInv'
  <2>1. \A s \in Sessions : snap'.rows[s] <= db[s].ver
    BY <1>1 DEF NoSnap, StreamTypeOK, Versions
  <2>2. \A s \in store'.tombs : store'.rows[s] = 0
    BY <1>4 DEF StreamTypeOK
  <2> QED
    BY <1>1, <1>3, <1>4, <2>1, <2>2 DEF HeldInv, OfRow
<1>8. FloorInv'
  <2> SUFFICES ASSUME ~gap', NEW s \in Sessions
               PROVE  /\ (phase # "closed" /\ db[s].ver <= drained) => store'.rows[s] = Committed(s)
                      /\ (phase \in {"draining", "live"} /\ delivered[s] = db[s].ver) => store'.rows[s] = Committed(s)
    BY <1>1 DEF FloorInv, OnScreen, Known, Committed
  <2>1. store'.rows[s] = SnapshotRow(s)
    BY <1>4
  <2>2. SnapshotRow(s) = Committed(s) \/ ~(db[s].ver <= Later(drained, delivered[s]))
    BY <1>1
  <2>3. db[s].ver \in Nat /\ drained \in Nat /\ delivered[s] \in Nat
    BY DEF StreamTypeOK, Versions
  <2> QED
    BY <2>1, <2>2, <2>3 DEF Later
<1> QED
  BY <1>5, <1>6, <1>7, <1>8

\* The client's own delete leaves a tombstone, and the row leaves its screen.
LEMMA OptimisticDelete_Inv ==
  ASSUME StreamInv, NEW s \in Sessions, OptimisticDelete(s)
  PROVE  StreamInv'
<1> USE DEF StreamInv
<1>1. /\ store' = [store EXCEPT !.tombs = store.tombs \cup {s}, !.rows = [store.rows EXCEPT ![s] = 0]]
      /\ deleting' = deleting \cup {s}
      /\ UNCHANGED <<seq, db, tx, unread, fetched, chan, phase, drained, delivered, snap, deleted, buried, gap, faults>>
  BY DEF OptimisticDelete, StreamTypeOK, table, server
<1>2. 0 \in Versions
  BY StreamAssumption DEF StreamAssumption, Versions
<1>3. /\ store' \in [rows : [Sessions -> Versions], tombs : SUBSET Sessions, seen : Versions, resume : Versions]
      /\ store'.tombs = store.tombs \cup {s}
      /\ \A t \in Sessions : store'.rows[t] = IF t = s THEN 0 ELSE store.rows[t]
  BY <1>1, <1>2 DEF StreamTypeOK
<1>4. StreamTypeOK'
  BY <1>1, <1>3 DEF StreamTypeOK
<1>5. TableInv'
  BY <1>1 DEF TableInv
<1>6. HeldInv'
  <2>1. 0 <= db[s].ver
    BY DEF StreamTypeOK, Versions
  <2>2. store.tombs \subseteq Sessions
    BY DEF StreamTypeOK
  <2> QED
    BY <1>1, <1>3, <2>1, <2>2 DEF HeldInv, OfRow
<1>7. FloorInv'
  BY <1>1, <1>3 DEF FloorInv, OnScreen, Known, Committed
<1> QED
  BY <1>4, <1>5, <1>6, <1>7

\* The server's delete is a write of a hidden row.
LEMMA MarkDeleted_Inv ==
  ASSUME StreamInv, NEW s \in Sessions, MarkDeleted(s)
  PROVE  StreamInv'
<1>1. Write(s, FALSE) /\ DeleteTypes'
  BY DEF MarkDeleted, StreamInv, StreamTypeOK
<1> QED
  BY <1>1, Write_Inv

\* A row written or hidden by someone else.
LEMMA RowWrites_Inv ==
  ASSUME StreamInv, NEW s \in Sessions, UpsertRow(s) \/ HiddenElsewhere(s)
  PROVE  StreamInv'
<1>1. (Write(s, TRUE) \/ Write(s, FALSE)) /\ DeleteTypes'
  BY DEF UpsertRow, HiddenElsewhere, StreamInv, StreamTypeOK
<1> QED
  BY <1>1, Write_Inv

\* A snapshot that is due or starts over is stamped with the tip.
LEMMA StampCursor_Inv ==
  ASSUME StreamInv, StampCursor
  PROVE  StreamInv'
<1>1. /\ snap' = [NoSnap EXCEPT !.step = "stamped", !.cursor = Tip]
      /\ UNCHANGED <<table, server, store, gap>> /\ DeleteTypes' /\ faults' \in 0..MaxFaults
  BY DEF StampCursor, StreamInv, StreamTypeOK
<1> QED
  BY <1>1, Stamp_Inv

\* A delete that came back makes the client take a new snapshot.
LEMMA DeleteReturns_Inv ==
  ASSUME StreamInv, NEW s \in Sessions, DeleteReturns(s)
  PROVE  StreamInv'
<1>1. /\ snap' = [NoSnap EXCEPT !.step = "due"]
      /\ UNCHANGED <<table, server, store, gap>> /\ DeleteTypes' /\ faults' \in 0..MaxFaults
  BY DEF DeleteReturns, StreamInv, StreamTypeOK
<1>2. 0 \in Versions /\ snap'.rows = [t \in Sessions |-> 0]
  BY <1>1, StreamAssumption DEF StreamAssumption, Versions, NoSnap
<1>3. snap' \in [step : {"due", "stamped", "listed"}, cursor : Versions, rows : [Sessions -> Versions]]
  BY <1>1, <1>2 DEF NoSnap
<1>4. \A t \in Sessions : snap'.rows[t] <= db[t].ver
  BY <1>2 DEF StreamInv, StreamTypeOK, Versions
<1> QED
  BY <1>1, <1>3, <1>4, NewSnap

\* One that failed leaves the list, and the tombstone, as they are.
LEMMA DeleteFails_Inv ==
  ASSUME StreamInv, NEW s \in Sessions, DeleteFails(s)
  PROVE  StreamInv'
<1>1. /\ UNCHANGED <<table, server, store, snap, gap>> /\ DeleteTypes' /\ faults' \in 0..MaxFaults
  BY StreamAssumption DEF DeleteFails, Fault, StreamInv, StreamTypeOK, StreamAssumption
<1> QED
  BY <1>1 DEF table, server, StreamInv, StreamTypeOK, TableInv, HeldInv, OfRow, FloorInv, OnScreen,
     Known, Committed

\* A stream opens at a resume point: what lies below it is on the screen, or
\* gap is raised.
LEMMA Open_Inv ==
  ASSUME StreamInv, Open
  PROVE  StreamInv'
<1> USE DEF StreamInv
<1> DEFINE asked == IF store.resume # 0 THEN store.resume ELSE store.seen
           from  == IF asked # 0 THEN asked ELSE Tip
<1>1. /\ phase' = "opening" /\ drained' = from
      /\ gap' = (gap \/ \E s \in Sessions : db[s].ver <= from /\ ~Known(s) /\ ~Coming(s))
      /\ store' = [store EXCEPT !.resume = asked]
      /\ UNCHANGED <<seq, db, tx, unread, fetched, chan, delivered, snap, deleting, deleted, buried, faults>>
  BY DEF Open, table
<1>2. from \in Versions /\ asked \in Versions
  BY TipVersion DEF StreamTypeOK
<1> HIDE DEF asked, from
<1>3. StreamTypeOK' /\ store'.rows = store.rows /\ store'.tombs = store.tombs
  BY <1>1, <1>2 DEF StreamTypeOK
<1>4. TableInv' /\ HeldInv'
  BY <1>1, <1>3 DEF TableInv, HeldInv, OfRow
<1>5. FloorInv'
  <2> SUFFICES ASSUME ~gap', snap.step = "none", NEW s \in Sessions, db[s].ver <= from PROVE Known(s)
    BY <1>1, <1>3 DEF FloorInv, OnScreen, Known, Committed
  <2> QED
    BY <1>1 DEF Coming
<1> QED
  BY <1>3, <1>4, <1>5

\* A subscription forgets what an earlier one sent, and starts its drain from
\* the client's cursor.
LEMMA Subscribe_Inv ==
  ASSUME StreamInv, Subscribe
  PROVE  StreamInv'
<1> USE DEF StreamInv
<1>1. /\ phase = "opening" /\ phase' = "draining" /\ chan' = <<>>
      /\ delivered' = [s \in Sessions |-> 0]
      /\ UNCHANGED <<seq, db, tx, unread, fetched, drained, store, snap, deleting, deleted, buried, gap, faults>>
  BY DEF Subscribe, table
<1>2. 0 \in Versions /\ ChanCap \in Nat
  BY StreamAssumption DEF StreamAssumption, Versions
<1>3. StreamTypeOK'
  <2>1. chan' \in Seq(Payload) /\ Len(chan') <= ChanCap
    BY <1>1, <1>2
  <2> QED
    BY <1>1, <1>2, <2>1 DEF StreamTypeOK
<1>4. TableInv'
  BY <1>1 DEF TableInv
<1>5. HeldInv'
  BY <1>1 DEF HeldInv, OfRow, StreamTypeOK, Versions
<1>6. FloorInv'
  <2> SUFFICES ASSUME ~gap, snap.step = "none", NEW s \in Sessions
               PROVE  (db[s].ver <= drained => OnScreen(s)) /\ (0 = db[s].ver => OnScreen(s))
    BY <1>1 DEF FloorInv, OnScreen, Known, Committed
  <2>1. db[s].ver <= drained => OnScreen(s)
    BY <1>1 DEF FloorInv
  <2>2. ASSUME 0 = db[s].ver PROVE Known(s)
    <3>1. store.rows[s] \in Nat /\ store.rows[s] <= db[s].ver
      BY DEF HeldInv, StreamTypeOK, Versions
    <3>2. Committed(s) = 0
      BY <2>2 DEF Committed
    <3> QED
      BY <2>2, <3>1, <3>2 DEF Known
  <2> QED
    BY <2>1, <2>2 DEF OnScreen
<1> QED
  BY <1>3, <1>4, <1>5, <1>6

\* A heartbeat drains again; a stream that ends is closed.
LEMMA StreamEnds_Inv ==
  ASSUME StreamInv, Heartbeat \/ Disconnect
  PROVE  StreamInv'
<1> USE DEF StreamInv
<1>1. CASE Heartbeat
  <2>1. /\ phase = "live" /\ phase' = "draining"
        /\ UNCHANGED <<seq, db, tx, unread, fetched, chan, drained, delivered, store, snap, deleting, deleted, buried, gap, faults>>
    BY <1>1 DEF Heartbeat, table
  <2> QED
    BY <2>1 DEF StreamTypeOK, TableInv, HeldInv, OfRow, FloorInv, OnScreen, Known, Committed
<1>2. CASE Disconnect
  <2>1. /\ phase' = "closed" /\ chan' = <<>> /\ drained' = 0 /\ faults' \in 0..MaxFaults
        /\ UNCHANGED <<seq, db, tx, unread, fetched, delivered, store, snap, deleting, deleted, buried, gap>>
    BY <1>2, StreamAssumption DEF Disconnect, Fault, table, StreamTypeOK, StreamAssumption
  <2>2. chan' \in Seq(Payload) /\ Len(chan') <= ChanCap /\ 0 \in Versions
    BY <2>1, StreamAssumption DEF StreamAssumption, Versions
  <2>3. StreamTypeOK'
    BY <2>1, <2>2 DEF StreamTypeOK
  <2>4. TableInv' /\ FloorInv'
    BY <2>1 DEF TableInv, FloorInv
  <2>5. HeldInv'
    BY <2>1 DEF HeldInv, OfRow
  <2> QED
    BY <2>3, <2>4, <2>5
<1> QED
  BY <1>1, <1>2

\* What the drain has passed, once a page is taken: what it had passed before, and the page.
LEMMA Page_Passed ==
  ASSUME StreamTypeOK
  PROVE  LET page == Page(drained)
             next == IF page = {} THEN drained ELSE Max({db[s].ver : s \in page})
         IN /\ page \subseteq Sessions /\ next \in Versions
            /\ \A s \in Sessions : db[s].ver <= next => (db[s].ver <= drained \/ s \in page)
<1> DEFINE page == Page(drained)
           T == {db[s].ver : s \in page}
           next == IF page = {} THEN drained ELSE Max(T)
           upto(s) == {t \in RowsAfter(drained) : db[t].ver <= db[s].ver}
<1>1. page \subseteq Sessions /\ page \subseteq RowsAfter(drained) /\ RowsAfter(drained) \subseteq Sessions
  BY DEF Page, RowsAfter
<1>2. T \subseteq Versions
  BY <1>1 DEF StreamTypeOK
<1>3. page # {} => Max(T) \in T
  <2> HIDE DEF page
  <2>1. page # {} => T # {}
    OBVIOUS
  <2> HIDE DEF T
  <2> QED
    BY <1>2, <2>1, LastVersion
<1>4. next \in Versions
  BY <1>2, <1>3 DEF StreamTypeOK
<1>5. ASSUME NEW s \in Sessions, db[s].ver <= next, ~(db[s].ver <= drained) PROVE s \in page
  <2>1. db[s].ver \in Nat /\ drained \in Nat
    BY DEF StreamTypeOK, Versions
  <2>2. page # {}
    BY <1>5
  <2>3. PICK u \in page : Max(T) = db[u].ver
    BY <1>3, <2>2
  <2>4. db[s].ver <= db[u].ver
    BY <1>5, <2>2, <2>3
  <2>5. s \in RowsAfter(drained)
    BY <1>5, <2>1 DEF RowsAfter
  <2>6. upto(s) \subseteq upto(u)
    <3>1. ASSUME NEW t \in upto(s) PROVE db[t].ver <= db[u].ver
      <4>1. db[t].ver \in Nat /\ db[u].ver \in Nat /\ db[t].ver <= db[s].ver
        BY <1>1 DEF StreamTypeOK, Versions
      <4> QED
        BY <2>1, <2>4, <4>1
    <3> QED
      BY <3>1
  <2>7. /\ IsFiniteSet(upto(u)) /\ Cardinality(upto(u)) \in Nat /\ Cardinality(upto(s)) \in Nat
        /\ Cardinality(upto(s)) <= Cardinality(upto(u))
    <3>1. upto(u) \in SUBSET Sessions /\ upto(s) \in SUBSET Sessions
      BY <1>1
    <3> HIDE DEF upto
    <3> QED
      BY <2>6, <3>1, Sessions_Count, FS_Subset
  <2>8. Cardinality(upto(u)) <= RowPageLimit
    BY <2>3 DEF Page
  <2>9. Cardinality(upto(s)) <= RowPageLimit
    BY <2>7, <2>8, StreamAssumption DEF StreamAssumption
  <2> QED
    BY <2>5, <2>9 DEF Page
<1> HIDE DEF page, T, next
<1> QED
  BY <1>1, <1>4, <1>5 DEF page, next, T

\* Sending a state of some msgs: nothing shown gets ahead of the table, and a row
\* sent as it is now is settled after it.
LEMMA Send_Held ==
  ASSUME StreamInv, NEW D \in SUBSET Sessions, NEW msgs \in [D -> Row], Send(msgs),
         \A s \in D : msgs[s].ver <= db[s].ver /\ (msgs[s].ver = db[s].ver => msgs[s].vis = db[s].vis)
  PROVE  /\ \A s \in Sessions : store'.rows[s] <= db[s].ver /\ delivered'[s] <= db[s].ver
         /\ \A s \in store'.tombs : store'.rows[s] = 0
         /\ \A s \in Sessions : LET settled == store'.rows[s] = Committed(s) \/ s \in store'.tombs IN
              /\ (s \in D /\ msgs[s].ver = db[s].ver /\ msgs[s].ver > delivered[s]) => settled
              /\ (OnScreen(s) /\ store'.rows[s] = store.rows[s]) => settled
              /\ (s \notin D \/ msgs[s].ver <= delivered[s]) =>
                    store'.rows[s] = store.rows[s] /\ delivered'[s] = delivered[s]
              /\ (s \in D /\ msgs[s].ver > delivered[s]) => delivered'[s] = msgs[s].ver
<1> USE DEF StreamInv
<1>1. /\ store.tombs \subseteq store'.tombs /\ store'.tombs \subseteq Sessions
      /\ \A s \in Sessions :
              LET new == s \in D /\ msgs[s].ver > delivered[s]
              IN /\ delivered'[s] = IF new THEN msgs[s].ver ELSE delivered[s]
                 /\ (new /\ Accepts(s, msgs[s])) =>
                      /\ store'.rows[s] = IF msgs[s].vis THEN msgs[s].ver ELSE 0
                      /\ ~msgs[s].vis => s \in store'.tombs
                 /\ ~(new /\ Accepts(s, msgs[s])) =>
                      /\ store'.rows[s] = store.rows[s]
                      /\ s \in store'.tombs => s \in store.tombs
                 /\ (s \in store'.tombs /\ s \notin store.tombs) => store'.rows[s] = 0
  BY Sent_Rows
<1>2. ASSUME NEW s \in Sessions
      PROVE  /\ store.rows[s] \in Nat /\ db[s].ver \in Nat /\ delivered[s] \in Nat
             /\ store.rows[s] <= db[s].ver /\ delivered[s] <= db[s].ver
             /\ s \in D => msgs[s].ver \in Nat
             /\ s \in store.tombs => store.rows[s] = 0
  BY DEF StreamTypeOK, HeldInv, Row, Versions
<1>3. ASSUME NEW s \in Sessions PROVE store'.rows[s] <= db[s].ver /\ delivered'[s] <= db[s].ver
  <2>1. 0 <= db[s].ver
    BY <1>2
  <2>2. store'.rows[s] \in {store.rows[s], 0} \/ (s \in D /\ store'.rows[s] = msgs[s].ver)
    BY <1>1
  <2>3. delivered'[s] = delivered[s] \/ (s \in D /\ delivered'[s] = msgs[s].ver)
    BY <1>1
  <2> QED
    BY <1>2, <2>1, <2>2, <2>3
<1>4. ASSUME NEW s \in store'.tombs PROVE store'.rows[s] = 0
  <2>1. CASE s \in store.tombs
    <3>1. store'.rows[s] = store.rows[s]
      BY <1>1, <2>1 DEF Accepts
    <3> QED
      BY <1>1, <1>2, <2>1, <3>1
  <2>2. CASE s \notin store.tombs
    BY <1>1, <2>2
  <2> QED
    BY <2>1, <2>2
<1>5. ASSUME NEW s \in Sessions, s \in D, msgs[s].ver = db[s].ver, msgs[s].ver > delivered[s]
      PROVE  store'.rows[s] = Committed(s) \/ s \in store'.tombs
  <2>1. CASE Accepts(s, msgs[s])
    BY <1>1, <1>5, <2>1 DEF Committed
  <2>2. CASE s \in store.tombs
    BY <1>1, <2>2
  <2> QED
    BY <1>2, <1>5, <2>1, <2>2 DEF Accepts
<1>6. ASSUME NEW s \in Sessions, s \notin D \/ msgs[s].ver <= delivered[s]
      PROVE  store'.rows[s] = store.rows[s] /\ delivered'[s] = delivered[s]
  <2>1. ~(s \in D /\ msgs[s].ver > delivered[s])
    BY <1>2, <1>6
  <2> QED
    BY <1>1, <2>1
<1>7. ASSUME NEW s \in Sessions, OnScreen(s), store'.rows[s] = store.rows[s]
      PROVE  store'.rows[s] = Committed(s) \/ s \in store'.tombs
  BY <1>1, <1>7 DEF OnScreen, Known
<1>8. ASSUME NEW s \in Sessions, s \in D, msgs[s].ver > delivered[s] PROVE delivered'[s] = msgs[s].ver
  BY <1>1, <1>8
<1> QED
  BY <1>3, <1>4, <1>5, <1>6, <1>7, <1>8

\* A page of the drain is sent up to its last version, and the cursor does not
\* pass a row that was not sent (handlers_session_list_events.go:52).
LEMMA DrainPage_Inv ==
  ASSUME StreamInv, DrainPage
  PROVE  StreamInv'
<1> USE DEF StreamInv
<1> DEFINE page == Page(drained)
           msgs == [s \in page |-> db[s]]
           next == IF page = {} THEN drained ELSE Max({db[s].ver : s \in page})
<1>1. /\ phase = "draining" /\ Send(msgs) /\ drained' = next /\ phase' \in {"draining", "live"}
      /\ UNCHANGED <<seq, db, tx, unread, fetched, chan, snap, deleting, deleted, buried, gap, faults>>
  BY DEF DrainPage, table
<1>2. /\ page \in SUBSET Sessions /\ next \in Versions
      /\ \A s \in Sessions : db[s].ver <= next => (db[s].ver <= drained \/ s \in page)
  BY Page_Passed
<1>3. msgs \in [page -> Row] /\ \A s \in page : msgs[s] = db[s]
  BY <1>2 DEF StreamTypeOK, Row
<1> HIDE DEF page, msgs, next
<1>4. /\ store' \in [rows : [Sessions -> Versions], tombs : SUBSET Sessions, seen : Versions, resume : Versions]
      /\ delivered' \in [Sessions -> Versions]
  BY <1>1, <1>2, <1>3, Sent_Rows
<1>5. \A s \in page : msgs[s].ver <= db[s].ver /\ (msgs[s].ver = db[s].ver => msgs[s].vis = db[s].vis)
  BY <1>2, <1>3 DEF StreamTypeOK, Versions
<1>6. /\ \A s \in Sessions : store'.rows[s] <= db[s].ver /\ delivered'[s] <= db[s].ver
      /\ \A s \in store'.tombs : store'.rows[s] = 0
      /\ \A s \in Sessions : LET settled == store'.rows[s] = Committed(s) \/ s \in store'.tombs IN
              /\ (s \in page /\ msgs[s].ver = db[s].ver /\ msgs[s].ver > delivered[s]) => settled
              /\ (OnScreen(s) /\ store'.rows[s] = store.rows[s]) => settled
              /\ (s \notin page \/ msgs[s].ver <= delivered[s]) =>
                    store'.rows[s] = store.rows[s] /\ delivered'[s] = delivered[s]
              /\ (s \in page /\ msgs[s].ver > delivered[s]) => delivered'[s] = msgs[s].ver
  BY <1>1, <1>2, <1>3, <1>5, Send_Held
<1>7. StreamTypeOK'
  BY <1>1, <1>2, <1>4 DEF StreamTypeOK
<1>8. TableInv'
  BY <1>1 DEF TableInv
<1>9. HeldInv'
  BY <1>1, <1>6 DEF HeldInv, OfRow
<1>10. FloorInv'
  <2> SUFFICES ASSUME ~gap, snap.step = "none", NEW s \in Sessions,
                      db[s].ver <= next \/ delivered'[s] = db[s].ver
               PROVE  store'.rows[s] = Committed(s) \/ s \in store'.tombs
    BY <1>1 DEF FloorInv, OnScreen, Known, Committed
  <2>1. /\ db[s].ver <= drained => OnScreen(s)
        /\ delivered[s] = db[s].ver => OnScreen(s)
    BY <1>1 DEF FloorInv
  <2>2. db[s].ver \in Nat /\ delivered[s] \in Nat /\ delivered[s] <= db[s].ver
    BY DEF HeldInv, StreamTypeOK, Versions
  <2>3. CASE s \in page /\ msgs[s].ver > delivered[s]
    BY <1>3, <1>6, <2>3
  <2>4. CASE s \in page /\ ~(msgs[s].ver > delivered[s])
    <3>1. msgs[s].ver = db[s].ver /\ msgs[s].ver <= delivered[s] /\ delivered[s] = db[s].ver
      BY <1>3, <2>2, <2>4
    <3> QED
      BY <1>6, <2>1, <3>1
  <2>5. CASE s \notin page
    <3>1. OnScreen(s) /\ store'.rows[s] = store.rows[s]
      BY <1>2, <1>6, <2>1, <2>5
    <3> QED
      BY <1>6, <3>1
  <2> QED
    BY <2>3, <2>4, <2>5
<1> QED
  BY <1>7, <1>8, <1>9, <1>10

\* A late payload that undoes what the drain has passed raises gap.
LEMMA EmitRow_Inv ==
  ASSUME StreamInv, EmitRow
  PROVE  StreamInv'
<1> USE DEF StreamInv
<1>0. chan # <<>> /\ chan \in Seq(Payload) /\ Len(chan) \in Nat
  BY DEF EmitRow, StreamTypeOK
<1>1. PICK p \in Payload : p = Head(chan)
  BY <1>0
<1> DEFINE D == {p.id}
           row == [ver |-> p.ver, vis |-> p.vis]
           msgs == [s \in D |-> row]
<1>2. /\ phase = "live" /\ chan' = Tail(chan)
      /\ Send(msgs)
      /\ gap' = (gap \/ (p.ver < db[p.id].ver /\ db[p.id].ver <= drained /\ store'.rows # store.rows))
      /\ UNCHANGED <<seq, db, tx, unread, fetched, phase, drained, snap, deleting, deleted, buried, faults>>
  BY <1>1 DEF EmitRow, table
<1>3. D \in SUBSET Sessions /\ p.id \in Sessions /\ p.ver \in Versions /\ p.vis \in BOOLEAN
  BY DEF Payload
<1>4. msgs \in [D -> Row] /\ msgs[p.id].ver = p.ver /\ msgs[p.id].vis = p.vis
  BY <1>3 DEF Row
<1>5. OfRow(p)
  <2>1. 1 \in 1..Len(chan) /\ chan[1] = p
    BY <1>0, <1>1
  <2> QED
    BY <2>1 DEF HeldInv
<1> HIDE DEF msgs
<1>6. /\ store' \in [rows : [Sessions -> Versions], tombs : SUBSET Sessions, seen : Versions, resume : Versions]
      /\ delivered' \in [Sessions -> Versions]
  BY <1>2, <1>3, <1>4, Sent_Rows
<1>7. \A s \in D : msgs[s].ver <= db[s].ver /\ (msgs[s].ver = db[s].ver => msgs[s].vis = db[s].vis)
  BY <1>4, <1>5 DEF OfRow
<1>8. /\ \A s \in Sessions : store'.rows[s] <= db[s].ver /\ delivered'[s] <= db[s].ver
      /\ \A s \in store'.tombs : store'.rows[s] = 0
      /\ \A s \in Sessions : LET settled == store'.rows[s] = Committed(s) \/ s \in store'.tombs IN
              /\ (s \in D /\ msgs[s].ver = db[s].ver /\ msgs[s].ver > delivered[s]) => settled
              /\ (OnScreen(s) /\ store'.rows[s] = store.rows[s]) => settled
              /\ (s \notin D \/ msgs[s].ver <= delivered[s]) =>
                    store'.rows[s] = store.rows[s] /\ delivered'[s] = delivered[s]
              /\ (s \in D /\ msgs[s].ver > delivered[s]) => delivered'[s] = msgs[s].ver
  <2> HIDE DEF D
  <2> QED
    BY <1>2, <1>3, <1>4, <1>7, Send_Held
<1>9. Tail(chan) \in Seq(Payload) /\ Len(Tail(chan)) <= ChanCap
      /\ \A i \in 1..Len(Tail(chan)) : i + 1 \in 1..Len(chan) /\ Tail(chan)[i] = chan[i + 1]
  <2>1. Len(chan) <= ChanCap /\ ChanCap \in Nat
    BY StreamAssumption DEF StreamTypeOK, StreamAssumption
  <2>2. Tail(chan) \in Seq(Payload) /\ Len(Tail(chan)) = Len(chan) - 1
    BY <1>0
  <2>3. \A i \in 1..Len(Tail(chan)) : Tail(chan)[i] = chan[i + 1]
    BY <1>0
  <2> QED
    BY <1>0, <2>1, <2>2, <2>3
<1>10. StreamTypeOK'
  <2>1. gap' \in BOOLEAN
    BY <1>2 DEF StreamTypeOK
  <2> QED
    BY <1>2, <1>6, <1>9, <2>1 DEF StreamTypeOK
<1>11. TableInv'
  BY <1>2 DEF TableInv
<1>12. HeldInv'
  <2>1. \A i \in 1..Len(chan) : OfRow(chan[i])
    BY DEF HeldInv
  <2>2. \A i \in 1..Len(Tail(chan)) : OfRow(Tail(chan)[i])
    BY <1>9, <2>1
  <2>3. (\A i \in 1..Len(chan) : OfRow(chan[i]))'
    BY <1>2, <2>2 DEF OfRow
  <2> QED
    BY <1>2, <1>8, <2>3 DEF HeldInv, OfRow
<1>13. FloorInv'
  <2> SUFFICES ASSUME ~gap', snap.step = "none", NEW s \in Sessions,
                      db[s].ver <= drained \/ delivered'[s] = db[s].ver
               PROVE  store'.rows[s] = Committed(s) \/ s \in store'.tombs
    BY <1>2 DEF FloorInv, OnScreen, Known, Committed
  <2>1. /\ db[s].ver <= drained => OnScreen(s)
        /\ delivered[s] = db[s].ver => OnScreen(s)
    BY <1>2 DEF FloorInv
  <2>2. db[s].ver \in Nat /\ delivered[s] \in Nat /\ p.ver \in Nat
    BY <1>3 DEF StreamTypeOK, Versions
  <2>3. CASE s # p.id \/ p.ver <= delivered[s]
    <3>1. OnScreen(s) /\ store'.rows[s] = store.rows[s]
      BY <1>4, <1>8, <2>1, <2>3
    <3> QED
      BY <1>8, <3>1
  <2>4. CASE s = p.id /\ ~(p.ver <= delivered[s])
    <3>1. p.ver <= db[s].ver /\ p.ver > delivered[s] /\ delivered'[s] = p.ver
      BY <1>4, <1>5, <1>8, <2>2, <2>4 DEF OfRow
    <3>2. CASE p.ver = db[s].ver
      BY <1>4, <1>8, <2>4, <3>1, <3>2
    <3>3. CASE p.ver # db[s].ver
      <4>1. p.ver < db[s].ver /\ db[s].ver <= drained
        BY <2>2, <3>1, <3>3
      <4>2. store'.rows = store.rows
        BY <1>2, <2>4, <4>1
      <4> QED
        BY <1>8, <2>1, <4>1, <4>2
    <3> QED
      BY <3>2, <3>3
  <2> QED
    BY <2>3, <2>4
<1> QED
  BY <1>10, <1>11, <1>12, <1>13

\* Every step keeps the invariant.
LEMMA StreamNext_Inv ==
  StreamInv /\ [StreamNext]_streamVars => StreamInv'
<1> SUFFICES ASSUME StreamInv, [StreamNext]_streamVars PROVE StreamInv'
  OBVIOUS
<1>1. ASSUME NEW s \in Sessions, UpsertRow(s) \/ HiddenElsewhere(s) PROVE StreamInv'
  BY <1>1, RowWrites_Inv
<1>2. ASSUME NEW s \in Sessions, MarkDeleted(s) PROVE StreamInv'
  BY <1>2, MarkDeleted_Inv
<1>3. ASSUME NEW s \in Sessions, Commit(s) PROVE StreamInv'
  BY <1>3, Commit_Inv
<1>4. ASSUME NEW s \in Sessions, FetchRow(s) PROVE StreamInv'
  BY <1>4, FetchRow_Inv
<1>5. ASSUME NEW s \in Sessions, LosePublish(s) PROVE StreamInv'
  BY <1>5, LosePublish_Inv
<1>6. ASSUME NEW s \in Sessions, OptimisticDelete(s) PROVE StreamInv'
  BY <1>6, OptimisticDelete_Inv
<1>7. ASSUME NEW s \in Sessions, DeleteReturns(s) \/ DeleteFails(s) PROVE StreamInv'
  BY <1>7, DeleteReturns_Inv, DeleteFails_Inv
<1>8. ASSUME NEW place \in [Visible -> 1..Cardinality(Visible)], Reorder(place) PROVE StreamInv'
  BY <1>8, Reorder_Inv
<1>9. ASSUME NEW p \in fetched, PublishRow(p) PROVE StreamInv'
  BY <1>9, PublishRow_Inv
<1>10. CASE StampCursor \/ ListSessions \/ ApplySnapshot
  BY <1>10, StampCursor_Inv, ListSessions_Inv, ApplySnapshot_Inv
<1>11. CASE Open \/ Subscribe \/ Heartbeat \/ Disconnect
  BY <1>11, Open_Inv, Subscribe_Inv, StreamEnds_Inv
<1>12. CASE DrainPage \/ EmitRow
  BY <1>12, DrainPage_Inv, EmitRow_Inv
<1>13. CASE UNCHANGED streamVars
  BY <1>13 DEF streamVars, StreamInv, StreamTypeOK, TableInv, HeldInv, OfRow, FloorInv, OnScreen,
     Known, Committed
<1> QED
  BY <1>1, <1>2, <1>3, <1>4, <1>5, <1>6, <1>7, <1>8, <1>9, <1>10, <1>11, <1>12, <1>13 DEF StreamNext

\* A row that the drain's cursor has passed is on the client's screen in its
\* committed state, or the user deleted it, unless the server's fallback to the
\* tip skipped it (handlers_session_list_events.go:52): so no reconnect from
\* that cursor can lose a row.
THEOREM StreamSpec_Safe ==
  StreamSpec => []StreamSafe
<1>1. StreamInv => StreamSafe
  BY DEF StreamInv, StreamSafe, FloorInv, DrainFloor, OnScreen
<1> QED
  BY <1>1, StreamInit_Inv, StreamNext_Inv, PTL DEF StreamSpec

\* What is sent is accepted only when it is not behind the screen.
LEMMA Send_Forward ==
  ASSUME StreamInv, NEW D \in SUBSET Sessions, NEW msgs \in [D -> Row], Send(msgs), NEW s \in Sessions
  PROVE  /\ store'.rows[s] # 0 => store'.rows[s] >= store.rows[s]
         /\ s \in store.tombs => store'.rows[s] = 0
<1>1. store'.rows[s] = store.rows[s] \/ (s \in D /\ Accepts(s, msgs[s]) /\ store'.rows[s] \in {0, msgs[s].ver})
  <2> DEFINE new == s \in D /\ msgs[s].ver > delivered[s]
  <2>1. StreamTypeOK
    BY DEF StreamInv
  <2>2. /\ (new /\ Accepts(s, msgs[s])) => store'.rows[s] = IF msgs[s].vis THEN msgs[s].ver ELSE 0
        /\ ~(new /\ Accepts(s, msgs[s])) => store'.rows[s] = store.rows[s]
    BY <2>1, Sent_Rows, Zenon
  <2> QED
    BY <2>2
<1>2. store.rows[s] \in Nat /\ (s \in D => msgs[s].ver \in Nat)
  BY DEF StreamInv, StreamTypeOK, Row, Versions
<1>3. s \in store.tombs => store.rows[s] = 0
  BY DEF StreamInv, HeldInv
<1> QED
  BY <1>1, <1>2, <1>3 DEF Accepts

\* The stream never takes a row of the list back to an older version, and never
\* brings back a row the user deleted (sessionStore.ts:255): only a snapshot,
\* which replaces the list, may.
THEOREM StreamSpec_NoRegress ==
  StreamSpec => NoRegress
<1>1. ASSUME StreamInv, [StreamNext]_streamVars
      PROVE  [\A s \in Sessions :
                (snap.step # "listed" \/ snap'.step = "listed") =>
                  /\ store'.rows[s] # 0 => store'.rows[s] >= store.rows[s]
                  /\ s \in store.tombs => store'.rows[s] = 0]_streamVars
  <2> SUFFICES ASSUME StreamNext, NEW s \in Sessions, snap.step # "listed" \/ snap'.step = "listed"
               PROVE  /\ store'.rows[s] # 0 => store'.rows[s] >= store.rows[s]
                      /\ s \in store.tombs => store'.rows[s] = 0
    BY <1>1
  <2>1. store.rows[s] \in Nat /\ (s \in store.tombs => store.rows[s] = 0)
    BY <1>1 DEF StreamInv, StreamTypeOK, HeldInv, Versions
  <2>2. CASE store' = store
    BY <2>1, <2>2
  <2>3. CASE ApplySnapshot
    BY <2>3 DEF ApplySnapshot, NoSnap
  <2>4. ASSUME NEW t \in Sessions, OptimisticDelete(t)
        PROVE  store'.rows[s] = store.rows[s] \/ store'.rows[s] = 0
    BY <1>1, <2>4 DEF OptimisticDelete, StreamInv, StreamTypeOK
  <2>5. CASE DrainPage
    <3>1. Page(drained) \in SUBSET Sessions
      BY DEF Page, RowsAfter
    <3>2. [t \in Page(drained) |-> db[t]] \in [Page(drained) -> Row]
      BY <1>1, <3>1 DEF StreamInv, StreamTypeOK, Row
    <3>3. Send([t \in Page(drained) |-> db[t]])
      BY <2>5 DEF DrainPage
    <3> QED
      BY <1>1, <3>1, <3>2, <3>3, Send_Forward
  <2>6. CASE EmitRow
    <3>1. PICK p \in Payload : p = Head(chan)
      BY <1>1, <2>6 DEF EmitRow, StreamInv, StreamTypeOK
    <3>2. {p.id} \in SUBSET Sessions /\ [t \in {p.id} |-> [ver |-> p.ver, vis |-> p.vis]] \in [{p.id} -> Row]
      BY DEF Payload, Row
    <3>3. Send([t \in {p.id} |-> [ver |-> p.ver, vis |-> p.vis]])
      BY <2>6, <3>1 DEF EmitRow
    <3> QED
      BY <1>1, <3>2, <3>3, Send_Forward
  <2>7. ASSUME NEW t \in Sessions, UpsertRow(t) \/ Commit(t) \/ FetchRow(t) \/ LosePublish(t) \/ MarkDeleted(t)
                                     \/ HiddenElsewhere(t) \/ DeleteReturns(t) \/ DeleteFails(t)
        PROVE  store' = store
    BY <2>7 DEF UpsertRow, Commit, FetchRow, LosePublish, MarkDeleted, HiddenElsewhere, DeleteReturns,
       DeleteFails, Write
  <2>8. ASSUME NEW place \in [Visible -> 1..Cardinality(Visible)], Reorder(place) PROVE store' = store
    BY <2>8 DEF Reorder
  <2>9. ASSUME NEW p \in fetched, PublishRow(p) PROVE store' = store
    BY <2>9 DEF PublishRow
  <2>10. CASE StampCursor \/ ListSessions \/ Subscribe \/ Heartbeat \/ Disconnect
    BY <2>2, <2>10 DEF StampCursor, ListSessions, Subscribe, Heartbeat, Disconnect
  <2>11. CASE Open
    <3>1. store'.rows = store.rows
      BY <1>1, <2>11 DEF Open, StreamInv, StreamTypeOK
    <3> QED
      BY <2>1, <3>1
  <2> QED
    BY <2>1, <2>2, <2>3, <2>4, <2>5, <2>6, <2>7, <2>8, <2>9, <2>10, <2>11 DEF StreamNext
<1> QED
  BY <1>1, StreamInit_Inv, StreamNext_Inv, PTL DEF StreamSpec, NoRegress

HIDE DEF DeleteTypes, client

-----------------------------------------------------------------------------
(* SessionNesting                                                          *)

(* Session nesting: the walk above the new parent, while nothing overtakes it,    *)
(* leaves a set that is closed upwards and lacks the child.                       *)

\* A request: the child and the new parent have rows, and so has all a walk comes by.
Request ==
  {r \in [pc : {"idle", "walk", "write"}, child : SidebarIds, target : {Root} \cup created,
          cur : {Root} \cup created, visited : SUBSET created, overtaken : BOOLEAN] :
     r.pc # "idle" => r.child \in created}

NestingTypes ==
  /\ created \subseteq SidebarIds /\ visible \subseteq created /\ unchecked \subseteq created
  /\ parent \in [SidebarIds -> {Root} \cup created]
  /\ move \in [Movers -> Request]

\* A set of rows that the parents do not leave.
Upward(A, p) == \A v \in A : p[v] \in A \cup {Root}

\* What a walk that nothing overtook has seen: the chain from the new parent down to
\* the row it is at, without the child.
WalkInv(r, p) ==
  (r.pc = "walk" /\ ~r.overtaken) =>
    /\ r.child \notin r.visited
    /\ r.target \in r.visited \cup {r.cur}
    /\ \A v \in r.visited : p[v] \in r.visited \cup {Root, r.cur}

\* What it has established when the edge is written.
WriteInv(r, p) ==
  (r.pc = "write" /\ ~r.overtaken) =>
    \E A \in SUBSET created : r.child \notin A /\ r.target \in A \cup {Root} /\ Upward(A, p)

\* The checked edges lead down in some ranking of the rows.
Ranks(rank, p, u) ==
  /\ rank \in [SidebarIds -> Nat]
  /\ \A s \in SidebarIds : (s \notin u /\ p[s] # Root) => rank[p[s]] < rank[s]

NestingInv ==
  /\ NestingTypes
  /\ \A m \in Movers : WalkInv(move[m], parent) /\ WriteInv(move[m], parent)
  /\ \E rank : Ranks(rank, parent, unchecked)

\* Before any session there is nothing nested.
LEMMA NestingInit_Inv ==
  NestingInit => NestingInv
<1> SUFFICES ASSUME NestingInit PROVE NestingInv
  OBVIOUS
<1>1. NestingTypes
  BY NestingAssumption DEF NestingInit, NestingTypes, NestingAssumption, Request, NoMove,
     SidebarIds, Root
<1>2. \A m \in Movers : WalkInv(move[m], parent) /\ WriteInv(move[m], parent)
  BY DEF NestingInit, WalkInv, WriteInv, NoMove
<1>3. Ranks([s \in SidebarIds |-> 0], parent, unchecked)
  BY DEF NestingInit, Ranks
<1> QED
  BY <1>1, <1>2, <1>3 DEF NestingInv

\* A new row is no one's parent, and no walk has seen it.
LEMMA Create_Inv ==
  ASSUME NestingInv, NEW s \in SidebarIds, NEW o \in created \cup {Root}, Create(s, o)
  PROVE  NestingInv'
<1> USE DEF NestingInv
<1>0. /\ s \notin created /\ created' = created \cup {s} /\ visible' = visible \cup {s}
      /\ parent' = [parent EXCEPT ![s] = o] /\ move' = move /\ unchecked' = unchecked
  BY DEF Create
<1>1. NestingTypes'
  <2>1. Request \subseteq Request'
    BY <1>0 DEF Request
  <2> QED
    BY <1>0, <2>1 DEF NestingTypes
<1>2. ASSUME NEW m \in Movers PROVE WalkInv(move[m], parent)'
  <2>1. move[m].visited \subseteq created
    BY DEF NestingTypes, Request
  <2>2. \A v \in move[m].visited : parent'[v] = parent[v]
    BY <1>0, <2>1 DEF NestingTypes
  <2> QED
    BY <1>0, <2>2 DEF WalkInv
<1>3. ASSUME NEW m \in Movers PROVE WriteInv(move[m], parent)'
  <2> SUFFICES ASSUME move[m].pc = "write", ~move[m].overtaken
               PROVE  \E A \in SUBSET created' : /\ move[m].child \notin A /\ move[m].target \in A \cup {Root}
                                                 /\ Upward(A, parent')
    BY <1>0 DEF WriteInv
  <2>1. PICK A \in SUBSET created : move[m].child \notin A /\ move[m].target \in A \cup {Root} /\ Upward(A, parent)
    BY DEF WriteInv
  <2>2. Upward(A, parent')
    BY <1>0, <2>1 DEF Upward, NestingTypes
  <2> QED
    BY <1>0, <2>1, <2>2
<1>4. \E rank : Ranks(rank, parent', unchecked')
  <2>1. PICK rank : Ranks(rank, parent, unchecked)
    OBVIOUS
  <2> DEFINE r == [rank EXCEPT ![s] = IF o = Root THEN 0 ELSE rank[o] + 1]
  <2>2. r \in [SidebarIds -> Nat]
    BY <2>1 DEF Ranks, NestingTypes
  <2>3. ASSUME NEW t \in SidebarIds, t \notin unchecked, parent'[t] # Root PROVE r[parent'[t]] < r[t]
    <3>1. parent'[t] \in created
      BY <1>0, <2>3 DEF NestingTypes
    <3>2. parent'[t] \in SidebarIds /\ parent'[t] # s /\ r[parent'[t]] = rank[parent'[t]] /\ rank[parent'[t]] \in Nat
      BY <1>0, <2>1, <3>1 DEF NestingTypes, Ranks
    <3>3. CASE t = s
      <4>1. parent'[t] = o
        BY <1>0, <3>3 DEF NestingTypes
      <4>2. r[t] = rank[o] + 1
        BY <2>1, <2>3, <3>3, <4>1 DEF Ranks
      <4> QED
        BY <3>2, <4>1, <4>2
    <3>4. CASE t # s
      BY <1>0, <2>1, <2>3, <3>2, <3>4 DEF NestingTypes, Ranks
    <3> QED
      BY <3>3, <3>4
  <2> QED
    BY <1>0, <2>2, <2>3 DEF Ranks
<1> QED
  BY <1>0, <1>1, <1>2, <1>3, <1>4

\* The rest leaves the rows alone.
LEMMA Requests_Inv ==
  ASSUME NestingInv, NEW m \in Movers, NEW r \in Request, move' = [move EXCEPT ![m] = r],
         UNCHANGED <<parent, created, unchecked>>, visible' \subseteq created,
         WalkInv(r, parent), WriteInv(r, parent)
  PROVE  NestingInv'
<1>1. Request' = Request
  BY DEF Request
<1>2. NestingTypes'
  BY <1>1 DEF NestingInv, NestingTypes
<1>3. \A n \in Movers : move'[n] = IF n = m THEN r ELSE move[n]
  BY DEF NestingInv, NestingTypes
<1>4. ASSUME NEW n \in Movers PROVE WalkInv(move[n], parent)' /\ WriteInv(move[n], parent)'
  <2>1. WalkInv(move'[n], parent) /\ WriteInv(move'[n], parent)
    BY <1>3 DEF NestingInv
  <2> QED
    BY <2>1 DEF WalkInv, WriteInv, Upward
<1>5. (\E rank : Ranks(rank, parent, unchecked))'
  BY DEF NestingInv
<1> QED
  BY <1>2, <1>4, <1>5 DEF NestingInv

\* A mover with no request has nothing to show for it.
LEMMA Idle_Request ==
  ASSUME NEW p
  PROVE  NoMove \in Request /\ WalkInv(NoMove, p) /\ WriteInv(NoMove, p)
BY NestingAssumption DEF NoMove, Request, NestingAssumption, SidebarIds, Root, WalkInv, WriteInv

\* A request starts its walk at the new parent, or writes at once when the row
\* becomes a root (SetParentSession, manager.go:1012).
LEMMA SetParentSession_Inv ==
  ASSUME NestingInv, NEW m \in Movers, NEW c \in SidebarIds, NEW p \in SidebarIds \cup {Root},
         SetParentSession(m, c, p)
  PROVE  NestingInv'
<1> DEFINE r == [NoMove EXCEPT !.pc = "walk", !.child = c, !.target = p, !.cur = p]
<1>1. r.pc = "walk" /\ r.child = c /\ r.target = p /\ r.cur = p /\ r.visited = {}
  BY DEF NoMove
<1>2. r \in Request
  BY Idle_Request DEF Request, SetParentSession, NestingInv, NestingTypes
<1>3. WalkInv(r, parent) /\ WriteInv(r, parent)
  BY <1>1 DEF WalkInv, WriteInv
<1>4. move' = [move EXCEPT ![m] = r] /\ UNCHANGED <<parent, created, unchecked>> /\ visible' \subseteq created
  BY DEF SetParentSession, NestingInv, NestingTypes
<1> HIDE DEF r
<1> QED
  BY <1>2, <1>3, <1>4, Requests_Inv

\* The rows a walk has seen are closed upwards once it ends.
LEMMA Walk_Inv ==
  ASSUME NestingInv, NEW m \in Movers, ParentChainContains(m)
  PROVE  NestingInv'
<1> DEFINE q == move[m]
<1>1. q \in Request /\ q.pc = "walk" /\ WalkInv(q, parent)
  BY DEF NestingInv, NestingTypes, ParentChainContains
<1>2. UNCHANGED <<parent, created, unchecked>> /\ visible' \subseteq created
  BY DEF ParentChainContains, NestingInv, NestingTypes
<1>3. CASE WalkRejects(m)
  <2>1. move' = [move EXCEPT ![m] = NoMove]
    BY <1>3 DEF ParentChainContains
  <2> QED
    BY <1>2, <2>1, Idle_Request, Requests_Inv
<1>4. CASE ~WalkRejects(m) /\ WalkEnds(m)
  <2> DEFINE r == Passed(q)
  <2>1. move' = [move EXCEPT ![m] = r]
    BY <1>4 DEF ParentChainContains, NestingInv, NestingTypes
  <2>2. r.pc = "write" /\ r.child = q.child /\ r.target = q.target /\ r.overtaken = q.overtaken
    BY <1>1 DEF Passed, Request
  <2>3. r \in Request /\ WalkInv(r, parent)
    BY <1>1, <2>2 DEF Request, WalkInv, Passed
  <2>4. WriteInv(r, parent)
    <3>1. q.visited \in SUBSET created
      BY <1>1 DEF Request
    <3>2. ~q.overtaken => /\ q.child \notin q.visited /\ q.target \in q.visited \cup {Root}
                          /\ Upward(q.visited, parent)
      BY <1>1, <1>4 DEF WalkInv, WalkEnds, Upward
    <3> HIDE DEF q
    <3> QED
      BY <2>2, <3>1, <3>2 DEF WriteInv
  <2> HIDE DEF r
  <2> QED
    BY <1>2, <2>1, <2>3, <2>4, Requests_Inv
<1>5. CASE ~WalkRejects(m) /\ ~WalkEnds(m)
  <2> DEFINE r == [q EXCEPT !.cur = parent[q.cur], !.visited = q.visited \cup {q.cur}]
  <2>1. move' = [move EXCEPT ![m] = r]
    <3>1. move' = [move EXCEPT ![m].cur = parent[move[m].cur], ![m].visited = @ \cup {move[m].cur}]
      BY <1>5 DEF ParentChainContains
    <3> QED
      BY <3>1 DEF NestingInv, NestingTypes, Request
  <2>2. q.cur \in created /\ q.cur \in SidebarIds /\ q.cur # q.child /\ parent[q.cur] \in {Root} \cup created
    BY <1>1, <1>5 DEF WalkEnds, WalkRejects, Request, NestingInv, NestingTypes
  <2>3. /\ r.pc = "walk" /\ r.child = q.child /\ r.target = q.target /\ r.cur = parent[q.cur]
        /\ r.visited = q.visited \cup {q.cur} /\ r.overtaken = q.overtaken
    BY <1>1 DEF Request
  <2> HIDE DEF q
  <2>4. r \in Request /\ WriteInv(r, parent)
    BY <1>1, <2>2, <2>3 DEF Request, WriteInv
  <2>5. WalkInv(r, parent)
    BY <1>1, <2>2, <2>3 DEF WalkInv, Request
  <2> HIDE DEF r
  <2> QED
    BY <1>2, <2>1, <2>4, <2>5, Requests_Inv
<1> QED
  BY <1>3, <1>4, <1>5

\* A request that is refused or dies leaves the parents as they are.
LEMMA DropMove_Inv ==
  ASSUME NestingInv, NEW m \in Movers, DropMove(m)
  PROVE  NestingInv'
<1>1. /\ move' = [move EXCEPT ![m] = NoMove] /\ UNCHANGED <<parent, created, unchecked>>
      /\ visible' \subseteq created
  BY DEF DropMove, NestingInv, NestingTypes
<1> QED
  BY <1>1, Idle_Request, Requests_Inv

\* A deleted session leaves the sidebar; its row and its parent stay.
LEMMA Delete_Inv ==
  ASSUME NestingInv, NEW s \in SidebarIds, Delete(s)
  PROVE  NestingInv'
<1>1. UNCHANGED <<parent, created, unchecked, move>> /\ visible' \subseteq visible
  BY DEF Delete
<1>2. NestingTypes'
  BY <1>1 DEF NestingInv, NestingTypes, Request
<1>3. (\A m \in Movers : WalkInv(move[m], parent) /\ WriteInv(move[m], parent))'
  BY <1>1 DEF NestingInv, WalkInv, WriteInv, Upward
<1>4. (\E rank : Ranks(rank, parent, unchecked))'
  BY <1>1 DEF NestingInv
<1> QED
  BY <1>2, <1>3, <1>4 DEF NestingInv

\* The edge of a check that nothing overtook leads out of the rows below the child.
LEMMA NewEdge_Ranked ==
  ASSUME NEW p, NEW u, NEW rank, Ranks(rank, p, u), NEW A \in SUBSET SidebarIds,
         NEW c \in SidebarIds, c \notin A, NEW t \in A, Upward(A, p),
         p \in [SidebarIds -> {Root} \cup SidebarIds]
  PROVE  \E r : Ranks(r, [p EXCEPT ![c] = t], u \ {c})
<1> DEFINE r == [v \in SidebarIds |-> IF v \in A THEN rank[v] ELSE rank[v] + rank[t] + 1]
           n == [p EXCEPT ![c] = t]
<1>1. \A v \in SidebarIds : rank[v] \in Nat
  BY DEF Ranks
<1>2. r \in [SidebarIds -> Nat]
  BY <1>1
<1>3. ASSUME NEW s \in SidebarIds, s \notin u \ {c}, n[s] # Root PROVE r[n[s]] < r[s]
  <2>1. CASE s = c
    <3>1. n[s] = t /\ r[t] = rank[t] /\ r[s] = rank[s] + rank[t] + 1
      BY <2>1
    <3> QED
      BY <1>1, <3>1
  <2>2. CASE s # c
    <3>1. n[s] = p[s] /\ s \notin u /\ p[s] \in SidebarIds
      BY <1>3, <2>2
    <3>2. rank[p[s]] < rank[s]
      BY <1>3, <3>1 DEF Ranks
    <3>3. s \in A => p[s] \in A
      BY <1>3, <3>1 DEF Upward
    <3>4. r[s] = (IF s \in A THEN rank[s] ELSE rank[s] + rank[t] + 1)
      OBVIOUS
    <3>5. r[p[s]] = (IF p[s] \in A THEN rank[p[s]] ELSE rank[p[s]] + rank[t] + 1)
      BY <3>1
    <3>6. rank[s] \in Nat /\ rank[p[s]] \in Nat /\ rank[t] \in Nat
      BY <1>1, <3>1
    <3> HIDE DEF r, n
    <3> QED
      BY <3>1, <3>2, <3>3, <3>4, <3>5, <3>6
  <2> QED
    BY <2>1, <2>2
<1> HIDE DEF r, n
<1>4. Ranks(r, n, u \ {c})
  BY <1>2, <1>3 DEF Ranks
<1> QED
  BY <1>4 DEF n

\* Writing an edge: one whose check was overtaken is set aside, one to no parent
\* ranks nothing, and any other overtakes every check under way.
LEMMA WriteParent_Inv ==
  ASSUME NestingInv, NEW m \in Movers, WriteParent(m)
  PROVE  NestingInv'
<1> DEFINE q == move[m]
<1>1. q \in Request /\ q.pc = "write" /\ WriteInv(q, parent)
  BY DEF NestingInv, NestingTypes, WriteParent
<1>2. q.child \in SidebarIds /\ q.target \in {Root} \cup created
  BY <1>1 DEF Request
<1>3. /\ parent' = [parent EXCEPT ![q.child] = q.target]
      /\ unchecked' = (IF q.overtaken THEN unchecked \cup {q.child} ELSE unchecked \ {q.child})
      /\ created' = created /\ visible' = visible
  BY DEF WriteParent
<1>4. ASSUME NEW n \in Movers
      PROVE  \/ move'[n] = NoMove
             \/ move[n].pc # "idle" /\ move'[n] = [move[n] EXCEPT !.overtaken = TRUE]
             \/ move'[n] = move[n] /\ (move[n].pc # "idle" => q.target = Root)
  BY DEF WriteParent
<1>5. ASSUME NEW n \in Movers PROVE move'[n] \in Request
  <2>1. move[n] \in Request
    BY DEF NestingInv, NestingTypes
  <2>2. [move[n] EXCEPT !.overtaken = TRUE] \in Request
    BY <2>1 DEF Request
  <2> QED
    BY <1>4, <2>1, <2>2, Idle_Request
<1>6. NestingTypes'
  <2>1. Request' = Request
    BY <1>3 DEF Request
  <2>2. move' \in [Movers -> Request]
    BY <1>5 DEF WriteParent
  <2>3. unchecked' \subseteq created
    <3>1. q.child \in created
      BY <1>1 DEF Request
    <3> QED
      BY <1>3, <3>1 DEF NestingInv, NestingTypes
  <2> HIDE DEF q
  <2> QED
    BY <1>2, <1>3, <2>1, <2>2, <2>3 DEF NestingInv, NestingTypes
<1>7. ASSUME NEW n \in Movers PROVE (WalkInv(move[n], parent) /\ WriteInv(move[n], parent))'
  <2>1. SUFFICES WalkInv(move'[n], parent') /\ WriteInv(move'[n], parent')
    BY <1>3 DEF WalkInv, WriteInv, Upward
  <2>2. CASE move'[n] = NoMove
    BY <2>2, Idle_Request
  <2>3. CASE move[n].pc # "idle" /\ move'[n] = [move[n] EXCEPT !.overtaken = TRUE]
    <3>1. move[n] \in Request
      BY DEF NestingInv, NestingTypes
    <3>2. move'[n].overtaken
      BY <2>3, <3>1 DEF Request
    <3> QED
      BY <3>2 DEF WalkInv, WriteInv
  <2>4. CASE move'[n] = move[n] /\ (move[n].pc # "idle" => q.target = Root)
    <3>1. CASE move[n].pc = "idle"
      BY <2>4, <3>1 DEF WalkInv, WriteInv
    <3>2. CASE move[n].pc # "idle"
      <4>1. \A v \in SidebarIds : parent'[v] \in {parent[v], Root}
        BY <1>2, <1>3, <2>4, <3>2 DEF NestingInv, NestingTypes
      <4>2. move[n] \in Request /\ WalkInv(move[n], parent) /\ WriteInv(move[n], parent)
            /\ created \subseteq SidebarIds
        BY DEF NestingInv, NestingTypes
      <4>3. move[n].visited \subseteq created
        BY <4>2 DEF Request
      <4>4. WalkInv(move[n], parent')
        BY <4>1, <4>2, <4>3 DEF WalkInv
      <4>5. WriteInv(move[n], parent')
        BY <4>1, <4>2 DEF WriteInv, Upward
      <4> QED
        BY <2>4, <4>4, <4>5
    <3> QED
      BY <3>1, <3>2
  <2> QED
    BY <1>4, <2>2, <2>3, <2>4
<1>8. \E rank : Ranks(rank, parent', unchecked')
  <2>1. PICK rank : Ranks(rank, parent, unchecked)
    BY DEF NestingInv
  <2>2. parent \in [SidebarIds -> {Root} \cup SidebarIds] /\ created \subseteq SidebarIds
    BY DEF NestingInv, NestingTypes
  <2>3. CASE q.overtaken \/ q.target = Root
    <3>1. ASSUME NEW s \in SidebarIds, s \notin unchecked', parent'[s] # Root
          PROVE  s \notin unchecked /\ parent'[s] = parent[s]
      BY <1>2, <1>3, <2>2, <2>3, <3>1
    <3> QED
      BY <2>1, <3>1 DEF Ranks
  <2>4. CASE ~q.overtaken /\ q.target # Root
    <3>1. PICK A \in SUBSET created : q.child \notin A /\ q.target \in A \cup {Root} /\ Upward(A, parent)
      BY <1>1, <2>4 DEF WriteInv
    <3>2. q.target \in A /\ A \in SUBSET SidebarIds
      BY <2>2, <2>4, <3>1
    <3>3. \E r : Ranks(r, [parent EXCEPT ![q.child] = q.target], unchecked \ {q.child})
      BY <1>2, <2>1, <2>2, <3>1, <3>2, NewEdge_Ranked
    <3> QED
      BY <1>3, <2>4, <3>3
  <2> QED
    BY <2>3, <2>4
<1> QED
  BY <1>6, <1>7, <1>8 DEF NestingInv

\* In a ranking, the rows below a row in rank are closed upwards and lack it.
LEMMA Ranked_Acyclic ==
  NestingInv => NestingSafe
<1> SUFFICES ASSUME NestingInv PROVE NestingTypeOK /\ NestingIsAcyclic
  BY DEF NestingSafe
<1>1. NestingTypeOK
  BY DEF NestingInv, NestingTypes, NestingTypeOK, Request
<1>2. NestingIsAcyclic
  <2> DEFINE p == [s \in SidebarIds |-> IF s \in unchecked THEN Root ELSE parent[s]]
  <2>1. PICK rank : Ranks(rank, parent, unchecked)
    BY DEF NestingInv
  <2> SUFFICES ASSUME NEW s \in created PROVE s \notin Above(s, p)
    BY DEF NestingIsAcyclic
  <2> DEFINE A == {u \in SidebarIds : rank[u] < rank[s]}
  <2>2. ASSUME NEW v \in SidebarIds, p[v] # Root PROVE p[v] \in SidebarIds /\ rank[p[v]] < rank[v]
    BY <2>1, <2>2 DEF Ranks, NestingInv, NestingTypes
  <2>3. s \in SidebarIds /\ \A v \in SidebarIds : rank[v] \in Nat
    BY <2>1 DEF Ranks, NestingInv, NestingTypes
  <2>4. p[s] \in A \cup {Root}
    BY <2>2, <2>3
  <2>5. ASSUME NEW v \in A PROVE p[v] \in A \cup {Root}
    BY <2>2, <2>3
  <2>6. s \notin A /\ A \in SUBSET SidebarIds
    BY <2>3
  <2> HIDE DEF A, p
  <2> QED
    BY <2>4, <2>5, <2>6 DEF Above
<1> QED
  BY <1>1, <1>2

\* The parents that a move's check covered have no cycle (parentChainContains,
\* manager.go:1064): a ring needs an edge that another move wrote while a walk
\* was under way.
THEOREM NestingSpec_Safe ==
  NestingSpec => []NestingSafe
<1>1. NestingInv /\ [NestingNext]_nvars => NestingInv'
  <2> SUFFICES ASSUME NestingInv, [NestingNext]_nvars PROVE NestingInv'
    OBVIOUS
  <2>1. ASSUME NEW s \in SidebarIds, NEW o \in created \cup {Root}, Create(s, o) PROVE NestingInv'
    BY <2>1, Create_Inv
  <2>2. ASSUME NEW s \in SidebarIds, Delete(s) PROVE NestingInv'
    BY <2>2, Delete_Inv
  <2>3. ASSUME NEW m \in Movers, NEW c \in SidebarIds, NEW p \in SidebarIds \cup {Root}, SetParentSession(m, c, p)
        PROVE  NestingInv'
    BY <2>3, SetParentSession_Inv
  <2>4. ASSUME NEW m \in Movers, ParentChainContains(m) PROVE NestingInv'
    BY <2>4, Walk_Inv
  <2>5. ASSUME NEW m \in Movers, WriteParent(m) PROVE NestingInv'
    BY <2>5, WriteParent_Inv
  <2>6. ASSUME NEW m \in Movers, DropMove(m) PROVE NestingInv'
    BY <2>6, DropMove_Inv
  <2>7. CASE UNCHANGED nvars
    BY <2>7 DEF nvars, NestingInv, NestingTypes, Request, WalkInv, WriteInv, Upward
  <2> QED
    BY <2>1, <2>2, <2>3, <2>4, <2>5, <2>6, <2>7 DEF NestingNext, MoveStep
<1> QED
  BY <1>1, NestingInit_Inv, Ranked_Acyclic, PTL DEF NestingSpec

-----------------------------------------------------------------------------
(* SessionViews                                                            *)

\* Events are numbered in the order they are stored.
LedgerInv ==
  /\ IsFiniteSet(ledger)
  /\ \A e \in ledger : e.key \in 1..Cardinality(ledger)

\* What is stored comes after what was there.
Appended ==
  /\ LedgerInv' /\ ledger \subseteq ledger' /\ scope' = scope
  /\ Cardinality(ledger) \in Nat /\ Cardinality(ledger) <= Cardinality(ledger')
  /\ \A e \in ledger' \ ledger : e.key > Cardinality(ledger)

\* A batch of events, as the publishers build them.
IsBatch(batch) == Len(batch) \in Nat /\ \A i \in 1..Len(batch) : "key" \in DOMAIN batch[i]

\* A batch of a publisher gets the next order keys, after all that is stored.
LEMMA Publish_Appends ==
  ASSUME LedgerInv, NEW batch, IsBatch(batch), Publish(batch)
  PROVE  Appended
<1> DEFINE n == Cardinality(ledger)
           m == Len(batch)
           f == [i \in 1..m |-> [batch[i] EXCEPT !.key = n + i]]
           new == {[batch[i] EXCEPT !.key = n + i] : i \in 1..m}
<1>1. n \in Nat /\ m \in Nat
  BY FS_CardinalityType DEF LedgerInv, IsBatch
<1>2. ledger' = ledger \cup new /\ scope' = scope
  BY DEF Publish
<1>3. ASSUME NEW i \in 1..m PROVE f[i].key = n + i
  BY <1>3 DEF IsBatch
<1>4. \A e \in new : \E i \in 1..m : e.key = n + i
  BY <1>3
<1>5. \A e \in new : e.key > n /\ e.key \in 1..(n + m)
  <2>1. ASSUME NEW i \in 1..m PROVE n + i > n /\ n + i \in 1..(n + m)
    BY <1>1
  <2> HIDE DEF n, m, new
  <2> QED
    BY <1>4, <2>1
<1>6. IsFiniteSet(new) /\ Cardinality(new) = m
  <2>1. f \in Bijection(1..m, new)
    <3>1. f \in [1..m -> new] /\ \A e \in new : \E i \in 1..m : f[i] = e
      OBVIOUS
    <3>2. \A i, j \in 1..m : f[i] = f[j] => i = j
      <4>1. \A i, j \in 1..m : n + i = n + j => i = j
        BY <1>1
      <4> HIDE DEF f, n
      <4> QED
        BY <1>3, <4>1
    <3> HIDE DEF f, new
    <3> QED
      BY <3>1, <3>2, Fun_IsBij
  <2>2. IsFiniteSet(1..m) /\ Cardinality(1..m) = m
    <3>1. 1 \in Int /\ m \in Int
      BY <1>1
    <3> HIDE DEF m
    <3>2. IsFiniteSet(1..m) /\ Cardinality(1..m) = IF 1 > m THEN 0 ELSE m - 1 + 1
      BY <3>1, FS_Interval, Zenon
    <3> QED
      BY <1>1, <3>2 DEF m
  <2> HIDE DEF f, new, m
  <2> QED
    BY <2>1, <2>2, FS_Bijection DEF ExistsBijection
<1>7. new \cap ledger = {}
  <2>1. \A e \in ledger : ~(e.key > n)
    BY <1>1 DEF LedgerInv
  <2> HIDE DEF new, n
  <2> QED
    BY <1>5, <2>1
<1> HIDE DEF new, f, n, m
<1>8. IsFiniteSet(ledger') /\ Cardinality(ledger') = n + m
  <2>1. IsFiniteSet(ledger) /\ Cardinality(ledger) = n
    BY DEF LedgerInv, n
  <2>2. IsFiniteSet(ledger \cup new)
    BY <1>6, <2>1, FS_Union
  <2>3. Cardinality(ledger \cup new) = n + m - Cardinality(ledger \cap new)
    BY <1>6, <2>1, FS_Union
  <2>4. Cardinality(ledger \cap new) = 0
    <3>1. ledger \cap new = {}
      BY <1>7
    <3> QED
      BY <3>1, FS_EmptySet
  <2> QED
    BY <1>1, <1>2, <2>2, <2>3, <2>4
<1>9. \A e \in ledger : e.key \in 1..(n + m)
  BY <1>1 DEF LedgerInv, n
<1>10. LedgerInv'
  BY <1>2, <1>5, <1>8, <1>9 DEF LedgerInv
<1>11. n = Cardinality(ledger)
  BY DEF n
<1> QED
  BY <1>1, <1>2, <1>5, <1>8, <1>10, <1>11 DEF Appended

\* Every builder stamps the key of its event.
Stamped(e) == "key" \in DOMAIN e

\* The builders of the events leave room for the order key.
LEMMA Builders_Stamp ==
  ASSUME NEW type, NEW t, NEW k, NEW ref
  PROVE  Stamped(Event(type, t)) /\ Stamped(TaskEvent(type, t, k)) /\ Stamped(LinkEvent(type, t, ref))
BY DEF Stamped, Event, TaskEvent, LinkEvent

\* The batches: up to four events.
LEMMA Batches ==
  ASSUME NEW a, NEW b, NEW c, NEW d, Stamped(a)
  PROVE  /\ IsBatch(<<a>>)
         /\ Stamped(b) => IsBatch(<<a, b>>)
         /\ (Stamped(b) /\ Stamped(c)) => IsBatch(<<a>> \o <<b, c>>)
         /\ (Stamped(b) /\ Stamped(c) /\ Stamped(d)) => IsBatch(<<a, b, c, d>>)
<1>1. IsBatch(<<a>>)
  BY DEF IsBatch, Stamped
<1>2. Stamped(b) => IsBatch(<<a, b>>)
  BY DEF IsBatch, Stamped
<1>3. (Stamped(b) /\ Stamped(c)) => IsBatch(<<a>> \o <<b, c>>)
  <2> DEFINE s == <<a>>
             r == <<b, c>>
             both == s \o r
  <2>1. s \in Seq({a, b, c}) /\ r \in Seq({a, b, c}) /\ Len(s) = 1 /\ Len(r) = 2
    OBVIOUS
  <2>2. s[1] = a /\ r[1] = b /\ r[2] = c
    OBVIOUS
  <2> HIDE DEF s, r
  <2>3. Len(both) = 3 /\ both[1] = s[1] /\ both[2] = r[1] /\ both[3] = r[2]
    <3>1. /\ Len(both) = Len(s) + Len(r)
          /\ \A i \in 1..Len(s) + Len(r) : both[i] = IF i <= Len(s) THEN s[i] ELSE r[i - Len(s)]
      BY <2>1, ConcatProperties
    <3> HIDE DEF both
    <3>2. \A i \in 1..3 : both[i] = IF i <= 1 THEN s[i] ELSE r[i - 1]
      BY <2>1, <3>1
    <3> QED
      BY <2>1, <3>1, <3>2
  <2> HIDE DEF both
  <2>4. (Stamped(b) /\ Stamped(c)) => IsBatch(both)
    BY <2>2, <2>3 DEF IsBatch, Stamped
  <2> QED
    BY <2>4 DEF both, s, r
<1>4. (Stamped(b) /\ Stamped(c) /\ Stamped(d)) => IsBatch(<<a, b, c, d>>)
  BY DEF IsBatch, Stamped
<1> QED
  BY <1>1, <1>2, <1>3, <1>4

\* Whatever the runner, the server or the control plane stores comes after what
\* is stored.
LEMMA LedgerNext_Appends ==
  ASSUME LedgerInv, LedgerNext
  PROVE  Appended
<1> USE Builders_Stamp, Batches, Publish_Appends
<1>1. CASE Submit
  BY <1>1 DEF Submit, UserSubmission
<1>2. ASSUME NEW t, Start(t) \/ Reply(t) \/ Fail(t) \/ Stop(t)
      PROVE  Appended
  BY <1>2 DEF Start, Reply, Fail, Stop
<1>3. ASSUME NEW t, TaskStart(t) PROVE Appended
  BY <1>3 DEF TaskStart
<1>4. ASSUME NEW t, Complete(t) PROVE Appended
  <2> DEFINE e == [Event("completed", t) EXCEPT !.final = {f.key : f \in Of(OfTurn(ledger, t), "reply")}]
  <2>1. Stamped(e)
    BY DEF Stamped, Event
  <2>2. Publish(<<e>>)
    BY <1>4 DEF Complete
  <2> HIDE DEF e
  <2> QED
    BY <2>1, <2>2
<1>5. ASSUME NEW t, Ask(t) PROVE Appended
  BY <1>5 DEF Ask
<1>6. ASSUME NEW t, Answer(t) PROVE Appended
  BY <1>6 DEF Answer, UserSubmission
<1>7. ASSUME NEW t, Stopped(t) PROVE Appended
  <2>1. CASE t[1] = "ask"
    BY <1>7, <2>1 DEF Stopped
  <2>2. CASE t[1] # "ask"
    BY <1>7, <2>2 DEF Stopped
  <2> QED
    BY <2>1, <2>2
<1>8. ASSUME NEW k, TaskExit(k) PROVE Appended
  BY <1>8 DEF TaskExit
<1>9. ASSUME NEW k, NEW g, Wake(k, g) PROVE Appended
  BY <1>9 DEF Wake
<1>10. ASSUME NEW type, Notice(type) PROVE Appended
  BY <1>10 DEF Notice
<1> QED
  BY <1>1, <1>2, <1>3, <1>4, <1>5, <1>6, <1>7, <1>8, <1>9, <1>10 DEF LedgerNext

\* Every step of a session stores events or leaves the ledger alone.
LEMMA Ledger_Step ==
  ASSUME LedgerInv, [Next]_vars
  PROVE  Appended \/ UNCHANGED ledgerVars
<1>1. CASE Persist
  BY <1>1, LedgerNext_Appends DEF Persist, Refresh
<1>2. CASE Browse \/ Detail \/ Sidebar
  BY <1>2 DEF Browse, BrowserNext, FetchRows, FetchCursor, OpenStream, FirstPage, WakeStream,
     DropStream,
     Detail, PagesNext, FoldStart, FoldRead, FoldStore, Sidebar, ActivityNext, ReadPrior, FoldEvents,
     WriteSummary, CountMessages, CompareCount, WriteCount, MarkRead
<1>3. CASE UNCHANGED vars
  BY <1>3 DEF vars
<1> QED
  BY <1>1, <1>2, <1>3 DEF Next

\* The ledger's order keys are the numbers up to its size.
LEMMA Ledger_Inv ==
  /\ Init => LedgerInv
  /\ LedgerInv /\ [Next]_vars => LedgerInv'
<1>1. Init => LedgerInv
  BY FS_EmptySet DEF Init, LedgerInit, LedgerInv
<1>2. ASSUME LedgerInv, [Next]_vars PROVE LedgerInv'
  <2>1. CASE Appended
    BY <2>1 DEF Appended
  <2>2. CASE UNCHANGED ledgerVars
    BY <1>2, <2>2 DEF ledgerVars, LedgerInv
  <2> QED
    BY <1>2, <2>1, <2>2, Ledger_Step
<1> QED
  BY <1>1, <1>2

(* The count of messages.                                                      *)

UserMessages == Cardinality(Of(ledger, "user"))
Counting(r) == r.pc \in {"counted", "higher"}

\* What was counted, or is being written, is not ahead of the ledger.
NotAhead(n) == n \in Nat /\ n <= UserMessages
JobShape == job = [j \in Jobs |-> job[j]] /\ \A j \in Jobs : {"pc", "count"} \subseteq DOMAIN job[j]
CountsBehind == \A j \in Jobs : Counting(job[j]) => NotAhead(job[j].count)

\* While no two counts overlapped and no message calls for a count, the row has the
\* ledger's count or the one count under way has it.
Alone == scope.reader = "count" /\ ~overtaken
OneCount == Alone => \A i, j \in Jobs : Counting(job[i]) /\ Counting(job[j]) => i = j
Recent == Alone /\ "count" \notin owed => \A j \in Jobs : Counting(job[j]) => job[j].count = UserMessages
Reached == Alone /\ "count" \notin owed => messages = UserMessages \/ \E j \in Jobs : Counting(job[j])
CountInv ==
  UserMessages \in Nat /\ NotAhead(messages) /\ JobShape /\ CountsBehind /\ OneCount /\ Recent /\ Reached

\* A session begins with no message, none counted.
LEMMA CountInit_Inv ==
  Init => CountInv
<1> SUFFICES ASSUME Init PROVE CountInv
  OBVIOUS
<1>1. Of(ledger, "user") = {}
  BY DEF Init, LedgerInit, Of
<1>2. UserMessages = 0
  BY <1>1, FS_EmptySet DEF UserMessages
<1>3. messages = 0 /\ job = [j \in Jobs |-> NoJob]
  BY DEF Init, ActivityInit
<1>4. {"pc", "count"} \subseteq DOMAIN NoJob /\ ~Counting(NoJob)
  BY DEF NoJob, Counting
<1>5. \A j \in Jobs : job[j] = NoJob
  BY <1>3
<1>6. JobShape
  BY <1>3, <1>4, <1>5 DEF JobShape
<1>7. \A j \in Jobs : ~Counting(job[j])
  BY <1>4, <1>5
<1> QED
  BY <1>2, <1>3, <1>6, <1>7 DEF CountInv, NotAhead, CountsBehind, OneCount, Recent, Reached

\* A message that is stored calls for a count.
LEMMA Persist_Count ==
  ASSUME LedgerInv, CountInv, Persist
  PROVE  CountInv'
<1>1. Appended
  BY LedgerNext_Appends DEF Persist, Refresh
<1>2. /\ messages' = messages /\ job' = job /\ overtaken' = overtaken /\ scope' = scope
      /\ owed' = owed \cup (DeltaClasses(ledger' \ ledger) \cap {scope.reader})
  BY <1>1 DEF Persist, ActivityOnLedger, EmitDelta, Appended
<1>3. /\ Of(ledger, "user") \subseteq Of(ledger', "user")
      /\ UserMessages' \in Nat /\ UserMessages <= UserMessages'
  <2>1. Of(ledger, "user") \subseteq Of(ledger', "user") /\ Of(ledger', "user") \subseteq ledger'
    BY <1>1 DEF Of, Appended
  <2>2. IsFiniteSet(ledger')
    BY <1>1 DEF Appended, LedgerInv
  <2>3. IsFiniteSet(Of(ledger', "user"))
    BY <2>1, <2>2, FS_Subset
  <2> QED
    BY <2>1, <2>3, FS_Subset, FS_CardinalityType DEF UserMessages
<1>4. (scope.reader = "count" /\ "count" \notin owed') => UserMessages' = UserMessages /\ "count" \notin owed
  <2> SUFFICES ASSUME scope.reader = "count", "count" \notin owed' PROVE UserMessages' = UserMessages /\ "count" \notin owed
    OBVIOUS
  <2>1. "count" \notin DeltaClasses(ledger' \ ledger) /\ "count" \notin owed
    BY <1>2
  <2>2. Of(ledger' \ ledger, "user") = {}
    BY <2>1 DEF DeltaClasses
  <2>3. Of(ledger', "user") = Of(ledger, "user")
    BY <1>3, <2>2 DEF Of
  <2> QED
    BY <2>1, <2>3 DEF UserMessages
<1>5. \A n : NotAhead(n) => NotAhead(n)'
  <2>1. ASSUME NEW n \in Nat, n <= UserMessages PROVE n <= UserMessages'
    <3>1. UserMessages \in Nat
      BY DEF CountInv
    <3> QED
      BY <1>3, <2>1, <3>1
  <2> QED
    BY <2>1 DEF NotAhead
<1>6. NotAhead(messages)' /\ JobShape' /\ CountsBehind'
  <2>1. NotAhead(messages) /\ JobShape /\ CountsBehind
    BY DEF CountInv
  <2>2. \A n : NotAhead(n) => n \in Nat /\ n <= UserMessages'
    BY <1>5 DEF NotAhead
  <2> QED
    BY <1>2, <2>1, <2>2 DEF NotAhead, JobShape, CountsBehind, Counting
<1>7. Alone' => Alone
  BY <1>2 DEF Alone
<1>8. (Alone' /\ "count" \notin owed') => UserMessages' = UserMessages /\ Alone /\ "count" \notin owed
  BY <1>2, <1>4 DEF Alone
<1>9. OneCount'
  BY <1>2, <1>7 DEF CountInv, OneCount, Counting
<1>10. Recent' /\ Reached'
  BY <1>2, <1>8 DEF CountInv, Recent, Reached, Counting
<1> QED
  BY <1>3, <1>6, <1>9, <1>10 DEF CountInv

\* A refresh of the summary counts nothing.
LEMMA Summary_Count ==
  ASSUME CountInv, NEW j \in Jobs, NEW r, job' = [job EXCEPT ![j] = r], {"pc", "count"} \subseteq DOMAIN r,
         ~Counting(job[j]), ~Counting(r), "count" \notin owed' => "count" \notin owed,
         ledger' = ledger, scope' = scope, messages' = messages, overtaken' = overtaken
  PROVE  CountInv'
<1>1. UserMessages' = UserMessages
  BY DEF UserMessages
<1>2. /\ job' = [i \in Jobs |-> job'[i]] /\ \A i \in Jobs : job'[i] = IF i = j THEN r ELSE job[i]
  BY DEF CountInv, JobShape
<1>3. \A i \in Jobs : Counting(job'[i]) => job'[i] = job[i]
  BY <1>2
<1>4. \A i \in Jobs : Counting(job[i]) <=> Counting(job'[i])
  BY <1>2
<1>5. JobShape'
  BY <1>2 DEF CountInv, JobShape
<1>6. NotAhead(messages)' /\ CountsBehind'
  BY <1>1, <1>3, <1>4 DEF CountInv, CountsBehind, NotAhead, Counting
<1>7. Alone' = Alone
  BY DEF Alone
<1>8. OneCount'
  BY <1>4, <1>7 DEF CountInv, OneCount, Counting
<1>9. Recent'
  BY <1>1, <1>3, <1>4, <1>7 DEF CountInv, Recent, Counting
<1>10. Reached'
  BY <1>1, <1>4, <1>7 DEF CountInv, Reached, Counting
<1> QED
  BY <1>1, <1>5, <1>6, <1>8, <1>9, <1>10 DEF CountInv

\* A count starts: it has what the ledger has now.
LEMMA Count_Count ==
  ASSUME CountInv, NEW j \in Jobs, CountMessages(j)
  PROVE  CountInv'
<1> DEFINE r == [NoJob EXCEPT !.pc = "counted", !.count = UserMessages]
<1>1. /\ job[j] = NoJob /\ job' = [job EXCEPT ![j] = r] /\ ledger' = ledger /\ scope' = scope /\ messages' = messages
      /\ overtaken' = (overtaken \/ \E i \in Jobs : Counting(job[i]))
  BY DEF CountMessages, UserMessages, Counting, ledgerVars
<1>2. {"pc", "count"} \subseteq DOMAIN r /\ Counting(r) /\ r.count = UserMessages
  BY DEF NoJob, Counting
<1> HIDE DEF r
<1>3. UserMessages' = UserMessages
  BY <1>1 DEF UserMessages
<1>4. /\ job' = [i \in Jobs |-> job'[i]] /\ \A i \in Jobs : job'[i] = IF i = j THEN r ELSE job[i]
  BY <1>1 DEF CountInv, JobShape
<1>5. JobShape'
  BY <1>2, <1>4 DEF CountInv, JobShape
<1>6. NotAhead(messages)' /\ CountsBehind'
  <2>1. NotAhead(UserMessages)
    BY DEF CountInv, NotAhead
  <2> QED
    BY <1>1, <1>2, <1>3, <1>4, <2>1 DEF CountInv, CountsBehind, NotAhead, Counting
<1>7. Alone' => \A i \in Jobs : Counting(job'[i]) => i = j
  <2>1. Alone' => \A i \in Jobs : ~Counting(job[i])
    BY <1>1 DEF Alone
  <2> QED
    BY <1>4, <2>1
<1>8. OneCount' /\ Recent' /\ Reached'
  <2>1. Counting(job'[j]) /\ job'[j].count = UserMessages
    BY <1>2, <1>4
  <2> QED
    BY <1>3, <1>7, <2>1 DEF OneCount, Recent, Reached, Counting
<1> QED
  BY <1>3, <1>5, <1>6, <1>8 DEF CountInv

\* A count ends, or goes on to the write, as the row compares with it.
LEMMA Compare_Count ==
  ASSUME CountInv, NEW j \in Jobs, CompareCount(j)
  PROVE  CountInv'
<1>1. /\ job[j].pc = "counted" /\ ledger' = ledger /\ scope' = scope /\ messages' = messages /\ overtaken' = overtaken
      /\ owed' = owed /\ job' = [job EXCEPT ![j] = IF SkipsCount(j) THEN NoJob ELSE [@ EXCEPT !.pc = "higher"]]
  BY DEF CompareCount, ledgerVars
<1>2. UserMessages' = UserMessages /\ Alone' = Alone
  BY <1>1 DEF UserMessages, Alone
<1>3. UserMessages \in Nat /\ NotAhead(messages) /\ JobShape /\ CountsBehind /\ OneCount /\ Recent /\ Reached
  BY DEF CountInv
<1>4. Counting(job[j])
  BY <1>1 DEF Counting
<1>5. /\ JobShape' /\ \A i \in Jobs : i # j => job'[i] = job[i]
      /\ SkipsCount(j) => ~Counting(job'[j])
      /\ ~SkipsCount(j) => Counting(job'[j]) /\ job'[j].count = job[j].count
  <2>1. /\ job' = [i \in Jobs |-> job'[i]] /\ \A i \in Jobs : i # j => job'[i] = job[i]
        /\ job'[j] = IF SkipsCount(j) THEN NoJob ELSE [job[j] EXCEPT !.pc = "higher"]
    BY <1>1, <1>3 DEF JobShape
  <2>2. {"pc", "count"} \subseteq DOMAIN NoJob /\ ~Counting(NoJob)
    BY DEF NoJob, Counting
  <2>3. {"pc", "count"} \subseteq DOMAIN job[j]
    BY <1>3 DEF JobShape
  <2> DEFINE h == [job[j] EXCEPT !.pc = "higher"]
  <2>4. {"pc", "count"} \subseteq DOMAIN h /\ Counting(h) /\ h.count = job[j].count
    BY <2>3 DEF Counting
  <2> HIDE DEF h
  <2>5. job'[j] = IF SkipsCount(j) THEN NoJob ELSE h
    BY <2>1 DEF h
  <2> QED
    BY <1>3, <2>1, <2>2, <2>4, <2>5 DEF JobShape
<1>6. SkipsCount(j) => job[j].count <= messages
  BY DEF SkipsCount
<1>7. \A i \in Jobs : Counting(job'[i]) => Counting(job[i]) /\ job'[i].count = job[i].count
  BY <1>4, <1>5
<1>8. CountsBehind' /\ NotAhead(messages)' /\ OneCount' /\ Recent'
  BY <1>1, <1>2, <1>3, <1>7 DEF CountsBehind, NotAhead, OneCount, Recent, Counting
<1>9. Reached'
  <2>1. CASE SkipsCount(j)
    <3>1. Alone /\ "count" \notin owed => messages = UserMessages
      <4> SUFFICES ASSUME Alone, "count" \notin owed PROVE messages = UserMessages
        OBVIOUS
      <4>1. job[j].count = UserMessages
        BY <1>3, <1>4 DEF Recent
      <4>2. UserMessages <= messages /\ messages <= UserMessages /\ messages \in Nat /\ UserMessages \in Nat
        BY <1>3, <1>6, <2>1, <4>1 DEF NotAhead
      <4> QED
        BY <4>2
    <3> QED
      BY <1>1, <1>2, <3>1 DEF Reached
  <2>2. CASE ~SkipsCount(j)
    BY <1>5, <2>2 DEF Reached, Counting
  <2> QED
    BY <2>1, <2>2
<1> QED
  BY <1>2, <1>3, <1>5, <1>8, <1>9 DEF CountInv

\* A count is written to the row.
LEMMA Write_Count ==
  ASSUME CountInv, NEW j \in Jobs, WriteCount(j)
  PROVE  CountInv'
<1>1. /\ job[j].pc = "higher" /\ ledger' = ledger /\ scope' = scope /\ messages' = job[j].count /\ overtaken' = overtaken
      /\ owed' = owed /\ job' = [job EXCEPT ![j] = NoJob]
  BY DEF WriteCount, ledgerVars
<1>2. UserMessages' = UserMessages /\ Alone' = Alone
  BY <1>1 DEF UserMessages, Alone
<1>3. UserMessages \in Nat /\ JobShape /\ CountsBehind /\ OneCount /\ Recent /\ Reached
  BY DEF CountInv
<1>4. Counting(job[j])
  BY <1>1 DEF Counting
<1>5. JobShape' /\ \A i \in Jobs : IF i = j THEN ~Counting(job'[i]) ELSE job'[i] = job[i]
  <2>1. /\ job' = [i \in Jobs |-> job'[i]] /\ \A i \in Jobs : job'[i] = IF i = j THEN NoJob ELSE job[i]
    BY <1>1, <1>3 DEF JobShape
  <2>2. {"pc", "count"} \subseteq DOMAIN NoJob /\ ~Counting(NoJob)
    BY DEF NoJob, Counting
  <2> QED
    BY <1>3, <2>1, <2>2 DEF JobShape
<1>6. \A i \in Jobs : Counting(job'[i]) => Counting(job[i]) /\ job'[i] = job[i]
  BY <1>5
<1>7. CountsBehind' /\ OneCount' /\ Recent'
  BY <1>1, <1>2, <1>3, <1>6 DEF CountsBehind, NotAhead, OneCount, Recent, Counting
<1>8. NotAhead(messages)'
  BY <1>1, <1>2, <1>3, <1>4 DEF CountsBehind, NotAhead
<1>9. Reached'
  BY <1>1, <1>2, <1>3, <1>4 DEF Recent, Reached
<1> QED
  BY <1>2, <1>3, <1>5, <1>7, <1>8, <1>9 DEF CountInv

\* Every step of the session keeps the count.
LEMMA Count_Step ==
  ASSUME LedgerInv, CountInv, [Next]_vars
  PROVE  CountInv'
<1> DEFINE Same == /\ ledger' = ledger /\ scope' = scope /\ messages' = messages /\ overtaken' = overtaken
                   /\ job' = job
<1>1. ASSUME Same, "count" \notin owed' => "count" \notin owed PROVE CountInv'
  <2>1. UserMessages' = UserMessages /\ Alone' = Alone
    BY <1>1 DEF UserMessages, Alone
  <2> QED
    BY <1>1, <2>1 DEF CountInv, NotAhead, JobShape, CountsBehind, OneCount, Recent, Reached,
       Counting
<1>2. CASE Persist
  BY <1>2, Persist_Count
<1>3. CASE Browse
  BY <1>1, <1>3 DEF Browse, BrowserNext, FetchRows, FetchCursor, OpenStream, FirstPage, WakeStream,
     DropStream,
     ledgerVars, activityVars
<1>4. CASE Detail
  BY <1>1, <1>4 DEF Detail, PagesNext, FoldStart, FoldRead, FoldStore, ledgerVars, activityVars
<1>5. ASSUME NEW j \in Jobs, ReadPrior(j) \/ FoldEvents(j) \/ WriteSummary(j) PROVE CountInv'
  <2> DEFINE Idle0(r) == {"pc", "count"} \subseteq DOMAIN r /\ ~Counting(r)
  <2>0. /\ Idle0(NoJob) /\ \A p : Idle0([NoJob EXCEPT !.pc = "row", !.prior = p])
        /\ \A n : Idle0([NoJob EXCEPT !.pc = "folded", !.next = n])
    BY DEF NoJob, Counting
  <2> HIDE DEF Idle0
  <2>4. ASSUME ReadPrior(j) PROVE \E r : job' = [job EXCEPT ![j] = r] /\ Idle0(r)
    <3>1. job' = [job EXCEPT ![j] = [NoJob EXCEPT !.pc = "row", !.prior = summary]]
      BY <2>4 DEF ReadPrior
    <3> QED
      BY <2>0, <3>1, Zenon
  <2>5. ASSUME FoldEvents(j) PROVE \E r : job' = [job EXCEPT ![j] = r] /\ Idle0(r)
    <3> DEFINE n == Refreshed(job[j].prior, ledger, read)
    <3>1. job' = [job EXCEPT ![j] = IF n = job[j].prior THEN NoJob ELSE [NoJob EXCEPT !.pc = "folded", !.next = n]]
      BY <2>5, Zenon DEF FoldEvents
    <3> HIDE DEF n
    <3>2. Idle0(IF n = job[j].prior THEN NoJob ELSE [NoJob EXCEPT !.pc = "folded", !.next = n])
      BY <2>0
    <3> QED
      BY <3>1, <3>2, Zenon
  <2>6. ASSUME WriteSummary(j) PROVE \E r : job' = [job EXCEPT ![j] = r] /\ Idle0(r)
    <3>1. job' = [job EXCEPT ![j] = NoJob]
      BY <2>6 DEF WriteSummary
    <3> QED
      BY <2>0, <3>1, Zenon
  <2>7. \E r : job' = [job EXCEPT ![j] = r] /\ Idle0(r)
    BY <1>5, <2>4, <2>5, <2>6
  <2>1. PICK r : job' = [job EXCEPT ![j] = r] /\ {"pc", "count"} \subseteq DOMAIN r /\ ~Counting(r)
    BY <2>7 DEF Idle0
  <2>2. ~Counting(job[j])
    BY <1>5 DEF ReadPrior, FoldEvents, WriteSummary, NoJob, Counting
  <2>3. /\ "count" \notin owed' => "count" \notin owed
        /\ ledger' = ledger /\ scope' = scope /\ messages' = messages /\ overtaken' = overtaken
    BY <1>5 DEF ReadPrior, FoldEvents, WriteSummary, ledgerVars
  <2> QED
    BY <2>1, <2>2, <2>3, Summary_Count
<1>6. ASSUME NEW k, MarkRead(k) PROVE CountInv'
  BY <1>1, <1>6 DEF MarkRead, ledgerVars
<1>7. CASE Sidebar
  BY <1>5, <1>6, <1>7, Count_Count, Compare_Count, Write_Count DEF Sidebar, ActivityNext
<1>8. CASE UNCHANGED vars
  BY <1>1, <1>8 DEF vars, ledgerVars, activityVars
<1> QED
  BY <1>2, <1>3, <1>4, <1>7, <1>8 DEF Next

\* With no count owed and none under way, the row's user_message_count is the
\* ledger's, as long as no two counts overlapped: a count is read, then written
\* (refreshUserMessageCount, chat_activity.go:263), and only overlapping ones
\* can leave a lower number behind.
THEOREM Views_CountSettles ==
  Spec => []CountSettles
<1>1. Init => LedgerInv /\ CountInv
  BY Ledger_Inv, CountInit_Inv
<1>2. LedgerInv /\ CountInv /\ [Next]_vars => LedgerInv' /\ CountInv'
  BY Ledger_Inv, Count_Step
<1>3. CountInv => CountSettles
  <2> SUFFICES ASSUME CountInv, Quiet("count"), ~overtaken PROVE messages = UserMessages
    BY DEF CountSettles, UserMessages
  <2>1. \A j \in Jobs : ~Counting(job[j])
    BY DEF Quiet, NoJob, Counting
  <2>2. Alone /\ "count" \notin owed
    BY DEF Quiet, Alone
  <2> QED
    BY <2>1, <2>2 DEF CountInv, Reached
<1> QED
  BY <1>1, <1>2, <1>3, PTL DEF Spec

(* The cache of a turn's detail.                                               *)

\* The greatest order key of a turn's events, which the marks compare, does not
\* go down and changes when an event of the turn is stored.
LEMMA Greatest_Key ==
  ASSUME NEW E, IsFiniteSet(E), \A e \in E : e.key \in 1..Cardinality(E), NEW S, S \subseteq E
  PROVE  /\ S # {} => Last(S) \in S /\ First(S) \in S
         /\ MaxKey(S) \in Nat /\ MaxKey(S) <= Cardinality(E)
         /\ \A e \in S : e.key <= MaxKey(S)
<1> DEFINE n == Cardinality(E)
<1>1. n \in Nat
  BY FS_CardinalityType
<1>2. \A e \in S : e.key \in 1..n
  OBVIOUS
<1> HIDE DEF n
<1>3. ASSUME S # {} PROVE Last(S) \in S /\ \A e \in S : Last(S).key >= e.key
  <2> DEFINE T == {n - e.key : e \in S}
  <2>1. T \subseteq Nat /\ T # {}
    BY <1>1, <1>2, <1>3
  <2>2. PICK x \in T : \A y \in T : x <= y
    BY <2>1, Least
  <2>3. PICK m \in S : x = n - m.key
    BY <2>2
  <2>4. \A e \in S : m.key >= e.key
    <3> SUFFICES ASSUME NEW e \in S PROVE m.key >= e.key
      OBVIOUS
    <3>1. n - m.key <= n - e.key
      BY <2>2, <2>3
    <3>2. m.key \in Nat /\ e.key \in Nat
      BY <1>1, <1>2
    <3> QED
      BY <1>1, <3>1, <3>2
  <2> QED
    BY <2>4 DEF Last
<1>4. ASSUME S # {} PROVE First(S) \in S
  <2> DEFINE T == {e.key : e \in S}
  <2>1. T \subseteq Nat /\ T # {}
    BY <1>1, <1>2, <1>4
  <2>2. PICK x \in T : \A y \in T : x <= y
    BY <2>1, Least
  <2>3. PICK m \in S : x = m.key
    BY <2>2
  <2>4. \A e \in S : m.key <= e.key
    BY <2>2, <2>3
  <2> QED
    BY <2>4 DEF First
<1>5. CASE S = {}
  BY <1>1, <1>5 DEF MaxKey, n
<1>6. CASE S # {}
  <2>1. MaxKey(S) = Last(S).key
    BY <1>6 DEF MaxKey
  <2> QED
    BY <1>1, <1>2, <1>3, <1>4, <1>6, <2>1 DEF n
<1> QED
  BY <1>5, <1>6

\* A turn whose largest key is one the ledger had before has no new event.
LEMMA Mark_Kept ==
  ASSUME LedgerInv, Appended, NEW u, NEW k \in Nat, k <= Cardinality(ledger),
         k = MaxKey(OfTurn(ledger', u))
  PROVE  OfTurn(ledger', u) = OfTurn(ledger, u)
<1>1. \A e \in OfTurn(ledger', u) : e.key <= k /\ e.key \in Nat
  <2>1. LedgerInv' /\ OfTurn(ledger', u) \subseteq ledger'
    BY DEF Appended, OfTurn
  <2>2. \A S : S \subseteq ledger' => \A e \in S : e.key <= MaxKey(S)
    BY <2>1, Greatest_Key DEF LedgerInv
  <2>3. \A e \in ledger' : e.key \in Nat
    <3>1. Cardinality(ledger') \in Nat
      BY <2>1, FS_CardinalityType DEF LedgerInv
    <3> QED
      BY <2>1, <3>1 DEF LedgerInv
  <2> QED
    BY <2>1, <2>2, <2>3
<1>2. \A e \in OfTurn(ledger', u) : e \in ledger
  <2> SUFFICES ASSUME NEW e \in OfTurn(ledger', u), e \notin ledger PROVE FALSE
    OBVIOUS
  <2>1. e \in ledger' \ ledger
    BY DEF OfTurn
  <2>2. e.key > Cardinality(ledger) /\ Cardinality(ledger) \in Nat
    BY <2>1 DEF Appended
  <2> QED
    BY <1>1, <2>2
<1> QED
  BY <1>2 DEF Appended, OfTurn

\* What is read for such a turn is what was read before.
LEMMA Read_Kept ==
  ASSUME LedgerInv, Appended, NEW u, OfTurn(ledger', u) = OfTurn(ledger, u)
  PROVE  ReadAllTurnEvents(ledger', u) = ReadAllTurnEvents(ledger, u)
<1> DEFINE o == OfTurn(ledger, u)
<1>1. CASE o = {}
  BY <1>1 DEF ReadAllTurnEvents
<1>2. CASE o # {}
  <2>1. First(o) \in ledger /\ o \subseteq ledger
    BY <1>2, Greatest_Key DEF OfTurn, LedgerInv
  <2> DEFINE b == First(o).key
  <2>2. b \in Nat /\ b <= Cardinality(ledger) /\ Cardinality(ledger) \in Nat
    BY <2>1 DEF LedgerInv, Appended
  <2>3. \A e \in ledger' : e.key < b => e \in ledger
    <3> SUFFICES ASSUME NEW e \in ledger' \ ledger, e.key < b PROVE FALSE
      OBVIOUS
    <3>1. e.key > Cardinality(ledger) /\ e.key \in Nat
      <4>1. LedgerInv' /\ Cardinality(ledger') \in Nat
        BY FS_CardinalityType DEF Appended, LedgerInv
      <4> QED
        BY <4>1 DEF Appended, LedgerInv
    <3> QED
      BY <2>2, <3>1
  <2>4. ledger \subseteq ledger'
    BY DEF Appended
  <2>5. Leading(ledger', u) = Leading(ledger, u)
    <3>1. First(OfTurn(ledger', u)).key = b
      OBVIOUS
    <3> HIDE DEF b, o
    <3>2. (\E m \in Of(ledger', "user") : m.key < b) <=> (\E m \in Of(ledger, "user") : m.key < b)
      BY <2>3, <2>4 DEF Of
    <3>3. {e \in Of(ledger', "status") : e.key < b} = {e \in Of(ledger, "status") : e.key < b}
      BY <2>3, <2>4 DEF Of
    <3>4. b = First(OfTurn(ledger, u)).key
      BY DEF b, o
    <3> QED
      BY <3>1, <3>2, <3>3, <3>4 DEF Leading
  <2> QED
    BY <2>5 DEF ReadAllTurnEvents
<1> QED
  BY <1>1, <1>2

\* The turns a set of marks stands for, and what the walk adds after each.
Done(marks) == {m[1] : m \in marks}
Follows(t, u) == NextTurns(ReadAllTurnEvents(ledger, u), t, u)

\* Marks are keys the ledger has.
Observed(marks) ==
  \A m \in marks : m = <<m[1], m[2]>> /\ m[2] \in Nat /\ m[2] <= Cardinality(ledger)
Current(marks) == \A m \in marks : m = Mark(ledger, m[1])

\* The walk that began at t, with the turns of todo still to read.
Walk(t, todo, marks, got) ==
  /\ got = UNION {ReadAllTurnEvents(ledger, u) : u \in Done(marks)}
  /\ t \in Done(marks) \cup todo
  /\ \A u \in Done(marks) : Follows(t, u) \subseteq Done(marks) \cup todo
  /\ \A A : t \in A /\ (\A u \in Done(marks) \cap A : Follows(t, u) \subseteq A)
             => Done(marks) \cup todo \subseteq A

\* What was read is the walk's while every mark is still the ledger's.
FoldInv ==
  fold # NoFold =>
    /\ {"turn", "todo", "marks", "read"} \subseteq DOMAIN fold
    /\ Observed(fold.marks)
    /\ Current(fold.marks) => Walk(fold.turn, fold.todo, fold.marks, fold.read)
CacheInv ==
  cached # NoEntry =>
    /\ Observed(cached.marks)
    /\ Current(cached.marks) => Walk(cached.turn, {}, cached.marks, cached.read)

\* What was read stays what the walk reads while no turn it has read has grown.
LEMMA Grown_Walk ==
  ASSUME LedgerInv, Appended, NEW marks, Observed(marks)
  PROVE  /\ Observed(marks)'
         /\ Current(marks)' => /\ Current(marks)
                               /\ \A t, todo, got : Walk(t, todo, marks, got) => Walk(t, todo, marks, got)'
<1>1. Observed(marks)'
  <2>1. Cardinality(ledger) \in Nat /\ Cardinality(ledger') \in Nat /\ Cardinality(ledger) <= Cardinality(ledger')
    BY FS_CardinalityType DEF Appended, LedgerInv
  <2>2. \A k \in Nat : k <= Cardinality(ledger) => k <= Cardinality(ledger')
    BY <2>1
  <2> QED
    BY <2>2 DEF Observed
<1>2. ASSUME Current(marks)', NEW m \in marks PROVE OfTurn(ledger', m[1]) = OfTurn(ledger, m[1])
  <2>1. m = <<m[1], m[2]>> /\ m[2] \in Nat /\ m[2] <= Cardinality(ledger)
    BY DEF Observed
  <2>2. m = <<m[1], MaxKey(OfTurn(ledger', m[1]))>>
    BY <1>2 DEF Current, Mark
  <2>3. m[2] = MaxKey(OfTurn(ledger', m[1]))
    BY <2>2
  <2> QED
    BY <2>1, <2>3, Mark_Kept
<1>3. ASSUME Current(marks)' PROVE Current(marks)
  <2> SUFFICES ASSUME NEW m \in marks PROVE m = Mark(ledger, m[1])
    BY DEF Current
  <2>1. m = <<m[1], MaxKey(OfTurn(ledger', m[1]))>>
    BY <1>3 DEF Current, Mark
  <2> QED
    BY <1>2, <1>3, <2>1 DEF Mark
<1>4. ASSUME Current(marks)', NEW u \in Done(marks)
      PROVE  ReadAllTurnEvents(ledger', u) = ReadAllTurnEvents(ledger, u)
  BY <1>2, <1>4, Read_Kept DEF Done
<1>5. ASSUME Current(marks)', NEW t, NEW todo, NEW got, Walk(t, todo, marks, got)
      PROVE  Walk(t, todo, marks, got)'
  <2>1. \A u \in Done(marks) : Follows(t, u)' = Follows(t, u)
    BY <1>4, <1>5 DEF Follows
  <2>2. UNION {ReadAllTurnEvents(ledger', u) : u \in Done(marks)} = UNION {ReadAllTurnEvents(ledger, u) : u \in Done(marks)}
    BY <1>4, <1>5
  <2> QED
    BY <1>5, <2>1, <2>2 DEF Walk, Done
<1> QED
  BY <1>1, <1>3, <1>5

\* A fold reads one more turn of its walk.
LEMMA Walk_Step ==
  ASSUME NEW t, NEW todo, NEW marks, NEW got, Walk(t, todo, marks, got), NEW u \in todo
  PROVE  LET m == marks \cup {Mark(ledger, u)}
         IN Walk(t, (todo \cup Follows(t, u)) \ (Done(marks) \cup {u}), m,
                 got \cup ReadAllTurnEvents(ledger, u))
<1> DEFINE m == marks \cup {Mark(ledger, u)}
           rest == (todo \cup Follows(t, u)) \ (Done(marks) \cup {u})
<1>1. Done(m) = Done(marks) \cup {u}
  <2>1. Mark(ledger, u)[1] = u
    BY DEF Mark
  <2> QED
    BY <2>1 DEF Done
<1>2. Done(m) \cup rest = Done(marks) \cup todo \cup Follows(t, u)
  BY <1>1
<1> HIDE DEF m, rest
<1>3. got \cup ReadAllTurnEvents(ledger, u) = UNION {ReadAllTurnEvents(ledger, w) : w \in Done(m)}
  <2>1. got = UNION {ReadAllTurnEvents(ledger, w) : w \in Done(marks)}
    BY DEF Walk
  <2> QED
    BY <1>1, <2>1
<1>4. t \in Done(m) \cup rest
  BY <1>2 DEF Walk
<1>5. \A w \in Done(m) : Follows(t, w) \subseteq Done(m) \cup rest
  BY <1>1, <1>2 DEF Walk
<1>6. ASSUME NEW A, t \in A, \A w \in Done(m) \cap A : Follows(t, w) \subseteq A
      PROVE  Done(m) \cup rest \subseteq A
  <2>1. Done(marks) \cup todo \subseteq A
    BY <1>1, <1>6 DEF Walk
  <2>2. Follows(t, u) \subseteq A
    BY <1>1, <1>6, <2>1
  <2> QED
    BY <1>2, <2>1, <2>2
<1>7. Walk(t, rest, m, got \cup ReadAllTurnEvents(ledger, u))
  BY <1>3, <1>4, <1>5, <1>6 DEF Walk
<1> QED
  BY <1>7 DEF m, rest

\* A step of the fold reads one turn and follows its links.
LEMMA Read_Step ==
  ASSUME LedgerInv, FoldInv, NEW u, FoldRead(u)
  PROVE  FoldInv'
<1>1. u \in fold.todo /\ ledger' = ledger
  BY DEF FoldRead, ledgerVars
<1>2. fold # NoFold
  BY <1>1 DEF NoFold
<1>3. /\ {"turn", "todo", "marks", "read"} \subseteq DOMAIN fold /\ Observed(fold.marks)
      /\ Current(fold.marks) => Walk(fold.turn, fold.todo, fold.marks, fold.read)
  BY <1>2 DEF FoldInv
<1> DEFINE m == fold.marks \cup {Mark(ledger, u)}
           rest == (fold.todo \cup Follows(fold.turn, u)) \ (Done(fold.marks) \cup {u})
           r == fold.read \cup ReadAllTurnEvents(ledger, u)
<1>4. fold' = [fold EXCEPT !.read = r, !.marks = m, !.todo = rest]
  BY DEF FoldRead, ObservedMarks, Follows, Done
<1>5. Observed(m)
  <2>1. OfTurn(ledger, u) \subseteq ledger
    BY DEF OfTurn
  <2>2. MaxKey(OfTurn(ledger, u)) \in Nat /\ MaxKey(OfTurn(ledger, u)) <= Cardinality(ledger)
    BY <2>1, Greatest_Key DEF LedgerInv
  <2> QED
    BY <1>3, <2>2 DEF Observed, Mark
<1>6. Current(m) => Walk(fold.turn, rest, m, r)
  <2>1. Current(m) => Current(fold.marks)
    BY DEF Current
  <2> QED
    BY <1>1, <1>3, <2>1, Walk_Step
<1> HIDE DEF m, rest, r
<1>7. /\ {"turn", "todo", "marks", "read"} \subseteq DOMAIN fold'
      /\ fold'.turn = fold.turn /\ fold'.todo = rest /\ fold'.marks = m /\ fold'.read = r
  BY <1>3, <1>4
<1>8. Observed(fold.marks)'
  BY <1>1, <1>5, <1>7 DEF Observed
<1>9. Current(fold.marks)' => Current(m)
  BY <1>1, <1>7 DEF Current
<1>10. Walk(fold.turn, rest, m, r) => Walk(fold.turn, fold.todo, fold.marks, fold.read)'
  BY <1>1, <1>7 DEF Walk, Done, Follows
<1> QED
  BY <1>6, <1>7, <1>8, <1>9, <1>10 DEF FoldInv

\* A finished walk is stored with the marks it observed as it read each turn.
LEMMA Store_Step ==
  ASSUME FoldInv, FoldStore
  PROVE  CacheInv'
<1>1. /\ fold # NoFold /\ fold.todo = {} /\ ledger' = ledger
      /\ cached'.turn = fold.turn /\ cached'.marks = fold.marks /\ cached'.read = fold.read
  BY DEF FoldStore, ledgerVars
<1>2. Observed(fold.marks) /\ (Current(fold.marks) => Walk(fold.turn, {}, fold.marks, fold.read))
  BY <1>1 DEF FoldInv
<1>3. Observed(cached.marks)'
  BY <1>1, <1>2 DEF Observed
<1>4. Current(cached.marks)' => Current(fold.marks)
  BY <1>1 DEF Current
<1>5. Walk(fold.turn, {}, fold.marks, fold.read) => Walk(cached.turn, {}, cached.marks, cached.read)'
  BY <1>1 DEF Walk, Done, Follows
<1> QED
  BY <1>2, <1>3, <1>4, <1>5 DEF CacheInv

\* A fold starts at the turn that was asked for, with nothing read.
LEMMA Start_Step ==
  ASSUME NEW t, FoldStart(t)
  PROVE  FoldInv'
<1>1. fold' = [NoFold EXCEPT !.turn = t, !.todo = {t}]
  BY DEF FoldStart
<1>2. /\ {"turn", "todo", "marks", "read"} \subseteq DOMAIN fold'
      /\ fold'.turn = t /\ fold'.todo = {t} /\ fold'.marks = {} /\ fold'.read = {}
  BY <1>1 DEF NoFold
<1>3. Observed(fold.marks)'
  BY <1>2 DEF Observed
<1>4. Walk(fold.turn, fold.todo, fold.marks, fold.read)'
  BY <1>2 DEF Walk, Done
<1> QED
  BY <1>2, <1>3, <1>4 DEF FoldInv

\* Every step of the browser or of the ledger keeps what the fold and the cache
\* have.
LEMMA Pages_Step ==
  ASSUME LedgerInv, FoldInv, CacheInv, [Next]_vars
  PROVE  FoldInv' /\ CacheInv'
<1>1. ASSUME fold' = fold, ledger' = ledger PROVE FoldInv'
  BY <1>1 DEF FoldInv, Observed, Current, Walk, Done, Follows
<1>2. ASSUME cached' = cached, ledger' = ledger PROVE CacheInv'
  BY <1>2 DEF CacheInv, Observed, Current, Walk, Done, Follows
<1>3. ASSUME fold' = NoFold PROVE FoldInv'
  BY <1>3 DEF FoldInv
<1>4. ASSUME Appended, fold' = fold, cached' = cached PROVE FoldInv' /\ CacheInv'
  <2>1. ASSUME NEW marks, Observed(marks)
        PROVE  /\ Observed(marks)'
               /\ Current(marks)' => /\ Current(marks)
                                     /\ \A t, todo, got : Walk(t, todo, marks, got) => Walk(t, todo, marks, got)'
    BY <1>4, <2>1, Grown_Walk
  <2>2. FoldInv'
    <3> SUFFICES ASSUME fold # NoFold
                 PROVE  /\ {"turn", "todo", "marks", "read"} \subseteq DOMAIN fold
                        /\ Observed(fold.marks)'
                        /\ Current(fold.marks)' => Walk(fold.turn, fold.todo, fold.marks, fold.read)'
      BY <1>4 DEF FoldInv
    <3>1. PICK t, todo, marks, got : t = fold.turn /\ todo = fold.todo /\ marks = fold.marks /\ got = fold.read
      OBVIOUS
    <3>2. /\ {"turn", "todo", "marks", "read"} \subseteq DOMAIN fold /\ Observed(marks)
          /\ Current(marks) => Walk(t, todo, marks, got)
      BY <3>1 DEF FoldInv
    <3>3. Observed(marks)' /\ (Current(marks)' => Walk(t, todo, marks, got)')
      BY <2>1, <3>2
    <3> QED
      BY <1>4, <3>1, <3>2, <3>3 DEF Observed, Current, Walk, Done, Follows
  <2>3. CacheInv'
    <3> SUFFICES ASSUME cached # NoEntry
                 PROVE  /\ Observed(cached.marks)'
                        /\ Current(cached.marks)' => Walk(cached.turn, {}, cached.marks, cached.read)'
      BY <1>4 DEF CacheInv
    <3>1. PICK t, marks, got : t = cached.turn /\ marks = cached.marks /\ got = cached.read
      OBVIOUS
    <3>2. Observed(marks) /\ (Current(marks) => Walk(t, {}, marks, got))
      BY <3>1 DEF CacheInv
    <3>3. Observed(marks)' /\ (Current(marks)' => Walk(t, {}, marks, got)')
      BY <2>1, <3>2
    <3> QED
      BY <1>4, <3>1, <3>3 DEF Observed, Current, Walk, Done, Follows
  <2> QED
    BY <2>2, <2>3
<1>5. CASE Persist
  BY <1>4, <1>5, LedgerNext_Appends DEF Persist, Refresh, pageVars
<1>6. CASE Detail
  <2>1. ASSUME NEW t, FoldStart(t) PROVE FoldInv' /\ CacheInv'
    BY <1>2, <2>1, Start_Step DEF FoldStart, ledgerVars
  <2>2. ASSUME NEW u, FoldRead(u) PROVE FoldInv' /\ CacheInv'
    BY <1>2, <2>2, Read_Step DEF FoldRead, ledgerVars
  <2>3. ASSUME FoldStore PROVE FoldInv' /\ CacheInv'
    BY <1>3, <2>3, Store_Step DEF FoldStore
  <2> QED
    BY <1>6, <2>1, <2>2, <2>3 DEF Detail, PagesNext
<1>7. CASE Browse \/ Sidebar \/ UNCHANGED vars
  <2>1. fold' = fold /\ cached' = cached
    BY <1>7 DEF Browse, Sidebar, vars, pageVars
  <2>2. ledger' = ledger
    BY <1>7 DEF Browse, BrowserNext, FetchRows, FetchCursor, OpenStream, FirstPage, WakeStream,
       DropStream, Sidebar,
       ActivityNext, ReadPrior, FoldEvents, WriteSummary, CountMessages, CompareCount, WriteCount, MarkRead, vars, ledgerVars
  <2> QED
    BY <1>1, <1>2, <2>1, <2>2
<1> QED
  BY <1>5, <1>6, <1>7 DEF Next

\* A walk with nothing left to read has read the whole chain.
LEMMA Walk_Ends ==
  ASSUME NEW t, NEW marks, NEW got, Walk(t, {}, marks, got)
  PROVE  got = ReadChain(ledger, t)
<1> DEFINE D == Done(marks)
           R == InReach(ledger, t)
<1>1. /\ t \in D /\ \A u \in D : Follows(t, u) \subseteq D
      /\ \A A : t \in A /\ (\A u \in D \cap A : Follows(t, u) \subseteq A) => D \subseteq A
  BY DEF Walk
<1>2. t \in R /\ \A u \in R : Follows(t, u) \subseteq R
  <2>1. \A u : TasksOf(ReadAllTurnEvents(ledger, u)) \subseteq TasksOf(ledger)
    <3>1. \A u : ReadAllTurnEvents(ledger, u) \subseteq ledger
      BY DEF ReadAllTurnEvents, OfTurn, Leading, Of
    <3> QED
      BY <3>1 DEF TasksOf
  <2>2. \A u : WakeTurnsFor(ReadAllTurnEvents(ledger, u), u) \subseteq {WakeTurn(k, 1) : k \in TasksOf(ledger)}
    BY <2>1 DEF WakeTurnsFor
  <2>3. \A u : Follows(t, u) \subseteq
               AskingTurnOf(ReadAllTurnEvents(ledger, t), t) \cup {WakeTurn(k, 1) : k \in TasksOf(ledger)}
    BY <2>2 DEF Follows, NextTurns
  <2> QED
    BY <2>3 DEF InReach
<1>3. D \subseteq R
  BY <1>1, <1>2
<1>4. \A A : Walked(ledger, t, A) <=> t \in A /\ \A u \in A : Follows(t, u) \subseteq A
  BY DEF Walked, Follows
<1> HIDE DEF D, R
<1>5. D = {u \in R : \A A \in SUBSET R : Walked(ledger, t, A) => u \in A}
  <2>1. Walked(ledger, t, D) /\ D \in SUBSET R
    BY <1>1, <1>3, <1>4
  <2>2. \A A : Walked(ledger, t, A) => D \subseteq A
    BY <1>1, <1>4
  <2> QED
    BY <1>3, <2>1, <2>2
<1>6. D = Chain(ledger, t)
  BY <1>5 DEF Chain, R
<1> QED
  BY <1>6 DEF Walk, ReadChain, D

\* What the turn-activity cache answers is what a fold over the ledger would
\* answer now (turnActivityCache, turn_activity_cache.go:52): its marks cover
\* the turn and each turn the walk followed, so an event that could change the
\* answer changes a mark.
THEOREM Views_HitIsFresh ==
  Spec => []HitIsFresh
<1>1. Init => LedgerInv /\ FoldInv /\ CacheInv
  BY Ledger_Inv DEF Init, PagesInit, FoldInv, CacheInv
<1>2. LedgerInv /\ FoldInv /\ CacheInv /\ [Next]_vars => LedgerInv' /\ FoldInv' /\ CacheInv'
  BY Ledger_Inv, Pages_Step
<1>3. CacheInv => HitIsFresh
  <2> SUFFICES ASSUME CacheInv, ServesHit PROVE cached.read = ReadChain(ledger, cached.turn)
    BY DEF HitIsFresh
  <2>1. /\ Current(cached.marks) => Walk(cached.turn, {}, cached.marks, cached.read)
        /\ cached.marks = {Mark(ledger, m[1]) : m \in cached.marks}
    BY DEF CacheInv, ServesHit
  <2>2. ASSUME NEW m \in cached.marks PROVE m = Mark(ledger, m[1])
    <3>1. PICK n \in cached.marks : m = Mark(ledger, n[1])
      BY <2>1
    <3>2. m[1] = n[1]
      BY <3>1 DEF Mark
    <3> QED
      BY <3>1, <3>2
  <2>3. Current(cached.marks)
    BY <2>2 DEF Current
  <2> QED
    BY <2>1, <2>3, Walk_Ends
<1> QED
  BY <1>1, <1>2, <1>3, PTL DEF Spec

(* What the publishers can have written.                                       *)

\* A turn of a user or of a wake; the question shell that such a turn opened.
IsTurn(t) ==
  \/ \E n \in Nat \ {0} : t = UserTurn(n)
  \/ \E k \in Nat, g \in Nat \ {0} : t = WakeTurn(k, g)
IsQuestion(E, q) == \E t : IsTurn(t) /\ q = AskTurn(t) /\ Has(E, "question", t)
IsTask(e) == e.type \in {"taskStart", "taskExit"}
IsMessage(e) == e.type = "user"

TurnsShaped ==
  \A e \in ledger : e.turn = NoTurn \/ IsTurn(e.turn) \/ IsQuestion(ledger, e.turn)
NoticesApart == \A e \in ledger : e.turn = NoTurn <=> e.type \in {"status", "banner"}
AgentsAsk == \A e \in ledger : e.type \in {"started", "question"} => IsTurn(e.turn)
PauseFirst ==
  \A e, f \in ledger :
    e.type = "awaiting" /\ f.turn = e.turn /\ f.type \in TerminalTypes => e.key < f.key
MessagesNumbered ==
  \A e \in ledger : IsMessage(e) => \E n \in 1..UserMessages : e.turn = UserTurn(n)
MessagesSubmitted ==
  \A e \in ledger : IsMessage(e) =>
    \E f \in ledger : f.type = "submitted" /\ f.turn = e.turn /\ e.key < f.key
OneMessage == \A e, f \in ledger : IsMessage(e) /\ IsMessage(f) /\ e.turn = f.turn => e = f
WakesContinue ==
  \A e \in ledger : e.turn[1] = "wake" =>
    \E f \in ledger : IsTask(f) /\ f.task = e.turn[2] /\ Closed(ledger, f.turn)
WakesSubmitted == \A e \in ledger : e.type = "submitted" /\ e.task # 0 => e.turn[1] = "wake"
TasksNumbered == TasksOf(ledger) \subseteq 1..Cardinality(TasksOf(ledger))
TasksStay == \A e, f \in ledger : IsTask(e) /\ IsTask(f) /\ e.task = f.task => e.turn = f.turn

Shape ==
  /\ TurnsShaped /\ NoticesApart /\ AgentsAsk /\ PauseFirst
  /\ MessagesNumbered /\ MessagesSubmitted /\ OneMessage
  /\ WakesContinue /\ WakesSubmitted /\ TasksNumbered /\ TasksStay

\* The ids of turns of users, of wakes and of questions are told apart by their
\* kind, and a question names the turn that asked it.
LEMMA Turn_Ids ==
  /\ NoTurn[1] = "none" /\ \A t : AskTurn(t)[1] = "ask"
  /\ \A n : UserTurn(n)[1] = "turn" /\ IsTurn(NoTurn) = FALSE
  /\ \A k, g : WakeTurn(k, g)[1] = "wake" /\ WakeTurn(k, g)[2] = k
  /\ \A t : IsTurn(t) => t[1] \in {"turn", "wake"} /\ AskingTurn(AskTurn(t)) = t
<1>1. NoTurn[1] = "none" /\ \A t : AskTurn(t)[1] = "ask"
  BY DEF NoTurn, AskTurn
<1>2. \A n : UserTurn(n)[1] = "turn"
  BY DEF UserTurn
<1>3. \A k, g : WakeTurn(k, g)[1] = "wake" /\ WakeTurn(k, g)[2] = k
  BY DEF WakeTurn
<1>4. \A t : IsTurn(t) => t[1] \in {"turn", "wake"}
  <2>1. ASSUME NEW n PROVE UserTurn(n)[1] \in {"turn", "wake"}
    BY <1>2
  <2>2. ASSUME NEW k, NEW g PROVE WakeTurn(k, g)[1] \in {"turn", "wake"}
    BY <1>3
  <2> QED
    BY <2>1, <2>2, Zenon DEF IsTurn
<1>5. ~IsTurn(NoTurn)
  BY <1>1, <1>4
<1>6. ASSUME NEW n PROVE AskingTurn(AskTurn(UserTurn(n))) = UserTurn(n)
  BY DEF AskingTurn, AskTurn, UserTurn
<1>7. ASSUME NEW k, NEW g \in Nat \ {0} PROVE AskingTurn(AskTurn(WakeTurn(k, g))) = WakeTurn(k, g)
  BY DEF AskingTurn, AskTurn, WakeTurn
<1>8. \A t : IsTurn(t) => AskingTurn(AskTurn(t)) = t
  BY <1>6, <1>7, Zenon DEF IsTurn
<1> QED
  BY <1>1, <1>2, <1>3, <1>4, <1>5, <1>8

\* The i-th event of a batch, as it is stored.
Fields(e, type, t, k) ==
  {"key", "type", "turn", "task"} \subseteq DOMAIN e /\ e.type = type /\ e.turn = t /\ e.task = k
Stored(e, i, type, t, k) ==
  e.key = Cardinality(ledger) + i /\ e.type = type /\ e.turn = t /\ e.task = k

\* What the builders of events put into their fields.
LEMMA Event_Fields ==
  ASSUME NEW type, NEW t, NEW k, NEW ref, NEW final
  PROVE  /\ Fields(Event(type, t), type, t, 0)
         /\ Fields([Event(type, t) EXCEPT !.final = final], type, t, 0)
         /\ Fields(TaskEvent(type, t, k), type, t, k)
         /\ Fields(LinkEvent(type, t, ref), type, t, 0)
BY DEF Fields, Event, TaskEvent, LinkEvent

\* The event that is stored differs from the one that is built by its key.
LEMMA Field_Stored ==
  ASSUME NEW a, NEW i, NEW type, NEW t, NEW k, Fields(a, type, t, k)
  PROVE  Stored([a EXCEPT !.key = Cardinality(ledger) + i], i, type, t, k)
BY DEF Fields, Stored

\* Publish gives the events of a batch the next keys, in their order.
LEMMA Published ==
  ASSUME NEW a, NEW b, NEW c, NEW d
  PROVE  LET at(x, i) == [x EXCEPT !.key = Cardinality(ledger) + i]
         IN /\ Publish(<<a>>) => ledger' = ledger \cup {at(a, 1)}
            /\ Publish(<<a, b>>) => ledger' = ledger \cup {at(a, 1), at(b, 2)}
            /\ Publish(<<a>> \o <<b, c>>) => ledger' = ledger \cup {at(a, 1), at(b, 2), at(c, 3)}
            /\ Publish(<<a, b, c, d>>) =>
                 ledger' = ledger \cup {at(a, 1), at(b, 2), at(c, 3), at(d, 4)}
<1> DEFINE n == Cardinality(ledger)
           at(x, i) == [x EXCEPT !.key = n + i]
           all(s) == {[s[i] EXCEPT !.key = n + i] : i \in 1..Len(s)}
<1>1. \A s : Publish(s) => ledger' = ledger \cup all(s)
  BY DEF Publish
<1>2. all(<<a>>) = {at(a, 1)}
  <2>1. 1..Len(<<a>>) = {1}
    OBVIOUS
  <2> QED
    BY <2>1
<1>3. all(<<a, b>>) = {at(a, 1), at(b, 2)}
  <2>1. 1..Len(<<a, b>>) = {1, 2}
    OBVIOUS
  <2> QED
    BY <2>1
<1>4. all(<<a>> \o <<b, c>>) = {at(a, 1), at(b, 2), at(c, 3)}
  <2> DEFINE s == <<a>>
             r == <<b, c>>
             both == s \o r
  <2>1. s \in Seq({a, b, c}) /\ r \in Seq({a, b, c}) /\ Len(s) = 1 /\ Len(r) = 2
    OBVIOUS
  <2>2. s[1] = a /\ r[1] = b /\ r[2] = c
    OBVIOUS
  <2> HIDE DEF s, r
  <2>3. /\ Len(both) = Len(s) + Len(r)
        /\ \A i \in 1..Len(s) + Len(r) : both[i] = IF i <= Len(s) THEN s[i] ELSE r[i - Len(s)]
    BY <2>1, ConcatProperties
  <2> HIDE DEF both
  <2>4. \A i \in 1..3 : both[i] = IF i <= 1 THEN s[i] ELSE r[i - 1]
    BY <2>1, <2>3
  <2>5. Len(both) = 3 /\ both[1] = a /\ both[2] = b /\ both[3] = c
    BY <2>1, <2>2, <2>3, <2>4
  <2>6. 1..Len(both) = {1, 2, 3}
    BY <2>5
  <2>7. all(both) = {at(a, 1), at(b, 2), at(c, 3)}
    BY <2>5, <2>6
  <2> QED
    BY <2>7 DEF both, s, r
<1>5. all(<<a, b, c, d>>) = {at(a, 1), at(b, 2), at(c, 3), at(d, 4)}
  <2>1. 1..Len(<<a, b, c, d>>) = {1, 2, 3, 4}
    OBVIOUS
  <2> QED
    BY <2>1
<1> HIDE DEF all
<1> QED
  BY <1>1, <1>2, <1>3, <1>4, <1>5

\* A batch of one, two, three or four events.
Adds(e) == ledger' = ledger \cup e
\* A batch of one event, and a batch of two.
LEMMA Publish_One ==
  ASSUME NEW a, NEW type, NEW t, NEW k, Fields(a, type, t, k), Publish(<<a>>)
  PROVE  \E e : Stored(e, 1, type, t, k) /\ Adds({e})
BY Published, Field_Stored DEF Adds

\* See Publish_One.
LEMMA Publish_Two ==
  ASSUME NEW a, NEW type, NEW t, NEW k, Fields(a, type, t, k),
         NEW b, NEW type2, NEW t2, NEW k2, Fields(b, type2, t2, k2), Publish(<<a, b>>)
  PROVE  \E e, f : Stored(e, 1, type, t, k) /\ Stored(f, 2, type2, t2, k2) /\ Adds({e, f})
<1> DEFINE e == [a EXCEPT !.key = Cardinality(ledger) + 1]
           f == [b EXCEPT !.key = Cardinality(ledger) + 2]
<1>1. Stored(e, 1, type, t, k) /\ Stored(f, 2, type2, t2, k2)
  BY Field_Stored
<1>2. Adds({e, f})
  BY Published DEF Adds
<1> QED
  BY <1>1, <1>2

\* What one step of the publishers adds.
New == ledger' \ ledger
NewTurns == \A e \in New : e.turn = NoTurn \/ IsTurn(e.turn) \/ IsQuestion(ledger', e.turn)
NewNotices == \A e \in New : e.turn = NoTurn <=> e.type \in {"status", "banner"}
NewAgents == \A e \in New : e.type \in {"started", "question"} => IsTurn(e.turn)
NewPauses ==
  \A e \in New : e.type = "awaiting" =>
    /\ \A f \in ledger : f.turn # e.turn
    /\ \A f \in New : f.turn = e.turn => f.type \notin TerminalTypes
NewMessages ==
  /\ \A e \in New : IsMessage(e) =>
       /\ e.turn = NextTurn
       /\ \E f \in New : f.type = "submitted" /\ f.turn = e.turn /\ e.key < f.key
  /\ \A e, f \in New : IsMessage(e) /\ IsMessage(f) => e = f
NewWakes ==
  \A e \in New :
    /\ e.turn[1] = "wake" =>
         \/ \E f \in ledger : f.turn = e.turn
         \/ \E f \in ledger : IsTask(f) /\ f.task = e.turn[2] /\ Closed(ledger, f.turn)
    /\ e.type = "submitted" /\ e.task # 0 => e.turn[1] = "wake"
NewTasks ==
  \A e \in New : IsTask(e) =>
    /\ New = {e}
    /\ \/ \E f \in ledger : IsTask(f) /\ f.task = e.task /\ f.turn = e.turn
       \/ e.task = Cardinality(TasksOf(ledger)) + 1
NewScope ==
  \E a, q : a[1] # "ask" /\ q[1] = "ask" /\ \A e \in New : e.turn \in {NoTurn, a, q}

ShapedStep ==
  /\ Appended /\ NewTurns /\ NewNotices /\ NewAgents /\ NewPauses /\ NewMessages
  /\ NewWakes /\ NewTasks /\ NewScope

\* A turn of the ledger is a turn of a user or of a wake, or a question that
\* was asked.
LEMMA Turn_Known ==
  ASSUME Shape, NEW t \in TurnsOf(ledger), Appended
  PROVE  /\ t # NoTurn /\ \E f \in ledger : f.turn = t
         /\ IsTurn(t) \/ IsQuestion(ledger', t)
         /\ t[1] # "ask" => IsTurn(t)
<1>1. PICK e \in ledger : e.turn = t
  BY DEF TurnsOf
<1>2. t # NoTurn
  BY DEF TurnsOf
<1>3. IsTurn(t) \/ IsQuestion(ledger, t)
  BY <1>1, <1>2 DEF Shape, TurnsShaped
<1>4. IsQuestion(ledger, t) => IsQuestion(ledger', t) /\ t[1] = "ask"
  BY Turn_Ids DEF IsQuestion, Has, Appended
<1> QED
  BY <1>1, <1>2, <1>3, <1>4

\* An event that is neither a message, a submit nor a pause, on a turn that is known.
LEMMA Plain_Shaped ==
  ASSUME Shape, Appended, NEW type, NEW t \in TurnsOf(ledger), NEW k,
         NEW e, Stored(e, 1, type, t, k), Adds({e}),
         type \notin {"status", "banner", "user", "submitted", "awaiting", "question"},
         type = "started" => t[1] # "ask",
         type \in {"taskStart", "taskExit"} =>
           \/ \E f \in ledger : IsTask(f) /\ f.task = k /\ f.turn = t
           \/ k = Cardinality(TasksOf(ledger)) + 1
  PROVE  ShapedStep
<1>1. New \subseteq {e} /\ e.type = type /\ e.turn = t /\ e.task = k
  BY DEF New, Adds, Stored
<1>2. /\ t # NoTurn /\ \E f \in ledger : f.turn = t
      /\ IsTurn(t) \/ IsQuestion(ledger', t)
      /\ t[1] # "ask" => IsTurn(t)
  BY Turn_Known
<1>3. NewTurns /\ NewNotices /\ NewAgents
  BY <1>1, <1>2 DEF NewTurns, NewNotices, NewAgents
<1>4. NewPauses /\ NewMessages
  BY <1>1 DEF NewPauses, NewMessages, IsMessage
<1>5. NewWakes /\ NewTasks
  BY <1>1, <1>2 DEF NewWakes, NewTasks, IsTask
<1>6. NewScope
  <2>1. CASE t[1] = "ask"
    <3>1. NoTurn[1] # "ask" /\ \A f \in New : f.turn \in {NoTurn, NoTurn, t}
      BY <1>1, Turn_Ids
    <3> QED
      BY <2>1, <3>1 DEF NewScope
  <2>2. CASE t[1] # "ask"
    <3>1. AskTurn(NoTurn)[1] = "ask" /\ \A f \in New : f.turn \in {NoTurn, t, AskTurn(NoTurn)}
      BY <1>1, Turn_Ids
    <3> QED
      BY <2>2, <3>1 DEF NewScope
  <2> QED
    BY <2>1, <2>2
<1> QED
  BY <1>3, <1>4, <1>5, <1>6 DEF ShapedStep

\* Start, Reply, Fail, Stop, Complete, TaskStart, and Stopped on a turn that is
\* no question.
LEMMA Plain_Actions ==
  ASSUME LedgerInv, Shape, Appended, NEW t \in TurnsOf(ledger)
  PROVE  /\ Start(t) \/ Reply(t) \/ Fail(t) \/ Stop(t) \/ Complete(t) => ShapedStep
         /\ TaskStart(t) => ShapedStep
         /\ Stopped(t) /\ t[1] # "ask" => ShapedStep
<1>1. ASSUME NEW type \in {"started", "reply", "failed", "interruptReq", "interrupted"},
             type = "started" => t[1] # "ask", Publish(<<Event(type, t)>>)
      PROVE  ShapedStep
  <2>1. Fields(Event(type, t), type, t, 0)
    BY Event_Fields
  <2>2. PICK e : Stored(e, 1, type, t, 0) /\ Adds({e})
    BY <1>1, <2>1, Publish_One
  <2> QED
    BY <1>1, <2>2, Plain_Shaped
<1>2. ASSUME Start(t) \/ Reply(t) \/ Fail(t) \/ Stop(t) PROVE ShapedStep
  BY <1>1, <1>2 DEF Start, Reply, Fail, Stop
<1>3. ASSUME Complete(t) PROVE ShapedStep
  <2>1. PICK final : Publish(<<[Event("completed", t) EXCEPT !.final = final]>>)
    BY <1>3 DEF Complete
  <2>2. Fields([Event("completed", t) EXCEPT !.final = final], "completed", t, 0)
    BY Event_Fields
  <2>3. PICK e : Stored(e, 1, "completed", t, 0) /\ Adds({e})
    BY <2>1, <2>2, Publish_One
  <2> QED
    BY <2>3, Plain_Shaped
<1>4. ASSUME TaskStart(t) PROVE ShapedStep
  <2> DEFINE k == Cardinality(TasksOf(ledger)) + 1
  <2>1. Publish(<<TaskEvent("taskStart", t, k)>>) /\ Fields(TaskEvent("taskStart", t, k), "taskStart", t, k)
    BY <1>4, Event_Fields DEF TaskStart
  <2>2. PICK e : Stored(e, 1, "taskStart", t, k) /\ Adds({e})
    BY <2>1, Publish_One
  <2>3. k = Cardinality(TasksOf(ledger)) + 1
    OBVIOUS
  <2> HIDE DEF k
  <2>4. "taskStart" \notin {"status", "banner", "user", "submitted", "awaiting", "question"}
    OBVIOUS
  <2>5. "taskStart" = "started" => t[1] # "ask"
    OBVIOUS
  <2> QED
    BY <2>2, <2>3, <2>4, <2>5, Plain_Shaped
<1>5. ASSUME Stopped(t), t[1] # "ask" PROVE ShapedStep
  BY <1>1, <1>5 DEF Stopped
<1> QED
  BY <1>2, <1>3, <1>4, <1>5

\* A task of the ledger has the turn of one of its events.
LEMMA Task_Known ==
  ASSUME LedgerInv, Shape, NEW k \in TasksOf(ledger)
  PROVE  /\ \E f \in ledger : IsTask(f) /\ f.task = k /\ f.turn = TaskTurn(ledger, k)
         /\ TaskTurn(ledger, k) \in TurnsOf(ledger)
         /\ k \in Nat
<1>1. TaskEvents(ledger, k) # {} /\ TaskEvents(ledger, k) \subseteq ledger
  BY DEF TasksOf, TaskEvents
<1>2. Last(TaskEvents(ledger, k)) \in TaskEvents(ledger, k)
  BY <1>1, Greatest_Key DEF LedgerInv
<1>3. PICK f \in TaskEvents(ledger, k) : f.turn = TaskTurn(ledger, k)
  BY <1>1, <1>2 DEF TaskTurn
<1>4. f \in ledger /\ IsTask(f) /\ f.task = k
  BY DEF TaskEvents, IsTask
<1>5. f.turn # NoTurn
  BY <1>4 DEF Shape, NoticesApart, IsTask
<1>6. k \in Nat
  BY DEF Shape, TasksNumbered
<1> QED
  BY <1>3, <1>4, <1>5, <1>6 DEF TurnsOf

\* TaskExit: the event is on the turn that started the task.
LEMMA TaskExit_Shaped ==
  ASSUME LedgerInv, Shape, Appended, NEW k \in TasksOf(ledger), TaskExit(k)
  PROVE  ShapedStep
<1> DEFINE t == TaskTurn(ledger, k)
<1>1. Publish(<<TaskEvent("taskExit", t, k)>>) /\ Fields(TaskEvent("taskExit", t, k), "taskExit", t, k)
  BY Event_Fields DEF TaskExit
<1>2. PICK e : Stored(e, 1, "taskExit", t, k) /\ Adds({e})
  BY <1>1, Publish_One
<1>3. t \in TurnsOf(ledger) /\ \E f \in ledger : IsTask(f) /\ f.task = k /\ f.turn = t
  BY Task_Known
<1> HIDE DEF t
<1> QED
  BY <1>2, <1>3, Plain_Shaped

\* Notice: the event has no turn.
LEMMA Notice_Shaped ==
  ASSUME Appended, NEW type \in {"status", "banner"}, Notice(type)
  PROVE  ShapedStep
<1>1. Publish(<<Event(type, NoTurn)>>) /\ Fields(Event(type, NoTurn), type, NoTurn, 0)
  BY Event_Fields DEF Notice
<1>2. PICK e : Stored(e, 1, type, NoTurn, 0) /\ Adds({e})
  BY <1>1, Publish_One
<1>3. New \subseteq {e} /\ e.type = type /\ e.turn = NoTurn /\ e.task = 0
  BY <1>2 DEF New, Adds, Stored
<1>4. NewTurns /\ NewNotices /\ NewAgents /\ NewPauses
  BY <1>3 DEF NewTurns, NewNotices, NewAgents, NewPauses
<1>5. NewMessages /\ NewWakes /\ NewTasks
  BY <1>3, Turn_Ids DEF NewMessages, IsMessage, NewWakes, NewTasks, IsTask
<1>6. NoTurn[1] # "ask" /\ AskTurn(NoTurn)[1] = "ask" /\ \A f \in New : f.turn \in {NoTurn, NoTurn, AskTurn(NoTurn)}
  BY <1>3, Turn_Ids
<1>7. NewScope
  BY <1>6 DEF NewScope
<1> QED
  BY <1>4, <1>5, <1>7 DEF ShapedStep

\* The next message gets the number after those that are there.
LEMMA Next_Turn ==
  ASSUME LedgerInv
  PROVE  /\ IsTurn(NextTurn) /\ NextTurn[1] = "turn" /\ NextTurn # NoTurn
         /\ UserMessages \in Nat /\ NextTurn = UserTurn(UserMessages + 1)
<1>1. UserMessages \in Nat
  <2>1. Of(ledger, "user") \subseteq ledger
    BY DEF Of
  <2> QED
    BY <2>1, FS_Subset, FS_CardinalityType DEF UserMessages, LedgerInv
<1>2. NextTurn = UserTurn(UserMessages + 1)
  BY DEF NextTurn, UserMessages
<1>3. UserMessages + 1 \in Nat \ {0}
  BY <1>1
<1>4. IsTurn(NextTurn)
  BY <1>2, <1>3 DEF IsTurn
<1> QED
  BY <1>1, <1>2, <1>4, Turn_Ids

\* Submit: a message and, after it, the submit of its turn.
LEMMA Submit_Shaped ==
  ASSUME LedgerInv, Appended, Submit
  PROVE  ShapedStep
<1> DEFINE t == NextTurn
<1>1. Publish(<<Event("user", t), Event("submitted", t)>>)
  BY DEF Submit, UserSubmission
<1>2. Fields(Event("user", t), "user", t, 0) /\ Fields(Event("submitted", t), "submitted", t, 0)
  BY Event_Fields
<1>3. PICK e, f : Stored(e, 1, "user", t, 0) /\ Stored(f, 2, "submitted", t, 0) /\ Adds({e, f})
  BY <1>1, <1>2, Publish_Two
<1>4. IsTurn(t) /\ t[1] = "turn" /\ t # NoTurn
  BY Next_Turn
<1>5. e.key < f.key /\ e.key > Cardinality(ledger) /\ f.key > Cardinality(ledger)
  BY <1>3 DEF Appended, Stored
<1>6. e \in New /\ f \in New /\ \A x \in New : x = e \/ x = f
  <2>1. \A x \in ledger : ~(x.key > Cardinality(ledger))
    BY DEF LedgerInv, Appended
  <2> QED
    BY <1>3, <1>5, <2>1 DEF New, Adds
<1>7. /\ e.type = "user" /\ e.turn = t /\ e.task = 0
      /\ f.type = "submitted" /\ f.turn = t /\ f.task = 0
  BY <1>3 DEF Stored
<1>8. NewTurns /\ NewNotices /\ NewAgents /\ NewPauses
  BY <1>4, <1>6, <1>7 DEF NewTurns, NewNotices, NewAgents, NewPauses
<1>9. NewMessages
  BY <1>5, <1>6, <1>7 DEF NewMessages, IsMessage
<1>10. NewWakes /\ NewTasks
  BY <1>4, <1>6, <1>7 DEF NewWakes, NewTasks, IsTask
<1>11. t[1] # "ask" /\ AskTurn(NoTurn)[1] = "ask" /\ \A x \in New : x.turn \in {NoTurn, t, AskTurn(NoTurn)}
  BY <1>4, <1>6, <1>7, Turn_Ids
<1>12. NewScope
  BY <1>11 DEF NewScope
<1> QED
  BY <1>8, <1>9, <1>10, <1>12 DEF ShapedStep

\* Wake: the first event of a wake turn, of a task whose turn is closed.
LEMMA Wake_Shaped ==
  ASSUME LedgerInv, Shape, Appended, NEW k \in TasksOf(ledger), NEW g \in Nat \ {0}, Wake(k, g)
  PROVE  ShapedStep
<1> DEFINE t == WakeTurn(k, g)
<1>1. Publish(<<TaskEvent("submitted", t, k)>>) /\ Fields(TaskEvent("submitted", t, k), "submitted", t, k)
  BY Event_Fields DEF Wake
<1>2. PICK e : Stored(e, 1, "submitted", t, k) /\ Adds({e})
  BY <1>1, Publish_One
<1>3. \E f \in ledger : IsTask(f) /\ f.task = t[2] /\ Closed(ledger, f.turn)
  <2>1. Closed(ledger, TaskTurn(ledger, k)) /\ t[2] = k
    BY Turn_Ids DEF Wake
  <2> QED
    BY <2>1, Task_Known
<1>4. IsTurn(t) /\ t[1] = "wake" /\ t # NoTurn
  <2>1. k \in Nat
    BY Task_Known
  <2> QED
    BY <2>1, Turn_Ids DEF IsTurn
<1>5. New \subseteq {e} /\ e.type = "submitted" /\ e.turn = t /\ e.task = k
  BY <1>2 DEF New, Adds, Stored
<1> HIDE DEF t
<1>6. NewTurns /\ NewNotices /\ NewAgents /\ NewPauses
  BY <1>4, <1>5 DEF NewTurns, NewNotices, NewAgents, NewPauses
<1>7. NewMessages /\ NewTasks
  BY <1>5 DEF NewMessages, IsMessage, NewTasks, IsTask
<1>8. NewWakes
  BY <1>3, <1>4, <1>5 DEF NewWakes
<1>9. t[1] # "ask" /\ AskTurn(NoTurn)[1] = "ask" /\ \A x \in New : x.turn \in {NoTurn, t, AskTurn(NoTurn)}
  BY <1>4, <1>5, Turn_Ids
<1>10. NewScope
  BY <1>9 DEF NewScope
<1> QED
  BY <1>6, <1>7, <1>8, <1>10 DEF ShapedStep

\* Stopped on a question: its turn and the turn that asked it are interrupted
\* together.
LEMMA Dismissed_Shaped ==
  ASSUME LedgerInv, Shape, Appended, NEW t \in TurnsOf(ledger), Stopped(t), t[1] = "ask"
  PROVE  ShapedStep
<1> DEFINE u == AskingTurn(t)
<1>1. Publish(<<Event("interrupted", t), Event("interrupted", u)>>)
  BY DEF Stopped
<1>2. Fields(Event("interrupted", t), "interrupted", t, 0) /\ Fields(Event("interrupted", u), "interrupted", u, 0)
  BY Event_Fields
<1>3. PICK e, f : Stored(e, 1, "interrupted", t, 0) /\ Stored(f, 2, "interrupted", u, 0) /\ Adds({e, f})
  BY <1>1, <1>2, Publish_Two
<1>4. /\ t # NoTurn /\ IsQuestion(ledger', t)
      /\ IsTurn(u) /\ u # NoTurn /\ u[1] # "ask"
      /\ \E x \in ledger : x.turn = u
  <2>1. t # NoTurn /\ \E x \in ledger : x.turn = t
    BY DEF TurnsOf
  <2>2. ~IsTurn(t)
    BY Turn_Ids
  <2>3. IsQuestion(ledger, t) /\ IsQuestion(ledger', t)
    BY <2>1, <2>2, Turn_Known DEF Shape, TurnsShaped
  <2>4. PICK v : IsTurn(v) /\ t = AskTurn(v) /\ Has(ledger, "question", v)
    BY <2>3 DEF IsQuestion
  <2>5. u = v
    BY <2>4, Turn_Ids
  <2> QED
    BY <2>1, <2>3, <2>4, <2>5, Turn_Ids DEF Has
<1>5. \A x \in New : x.type = "interrupted" /\ x.task = 0 /\ (x.turn = t \/ x.turn = u)
  BY <1>3 DEF New, Adds, Stored
<1> HIDE DEF u
<1>6. NewTurns /\ NewNotices /\ NewAgents /\ NewPauses
  BY <1>4, <1>5 DEF NewTurns, NewNotices, NewAgents, NewPauses
<1>7. NewMessages /\ NewTasks
  BY <1>5 DEF NewMessages, IsMessage, NewTasks, IsTask
<1>8. NewWakes
  BY <1>4, <1>5 DEF NewWakes
<1>9. NewScope
  BY <1>4, <1>5 DEF NewScope
<1> QED
  BY <1>6, <1>7, <1>8, <1>9 DEF ShapedStep

\* The events of a question, as they are stored.
LEMMA Ask_Events ==
  ASSUME NEW t, Ask(t)
  PROVE  \E e, f, g, h :
           /\ Stored(e, 1, "invocation", t, 0) /\ Stored(f, 2, "question", t, 0)
           /\ Stored(g, 3, "submitted", AskTurn(t), 0) /\ Stored(h, 4, "awaiting", AskTurn(t), 0)
           /\ Adds({e, f, g, h})
<1> DEFINE q == AskTurn(t)
           a == LinkEvent("invocation", t, q)
           b == LinkEvent("question", t, q)
           c == Event("submitted", q)
           d == LinkEvent("awaiting", q, t)
<1>1. Publish(<<a, b, c, d>>)
  BY DEF Ask
<1>2. /\ Fields(a, "invocation", t, 0) /\ Fields(b, "question", t, 0)
      /\ Fields(c, "submitted", q, 0) /\ Fields(d, "awaiting", q, 0)
  BY Event_Fields
<1> HIDE DEF a, b, c, d, q
<1> DEFINE e == [a EXCEPT !.key = Cardinality(ledger) + 1]
           f == [b EXCEPT !.key = Cardinality(ledger) + 2]
           g == [c EXCEPT !.key = Cardinality(ledger) + 3]
           h == [d EXCEPT !.key = Cardinality(ledger) + 4]
<1>3. /\ Stored(e, 1, "invocation", t, 0) /\ Stored(f, 2, "question", t, 0)
      /\ Stored(g, 3, "submitted", q, 0) /\ Stored(h, 4, "awaiting", q, 0)
  BY <1>2, Field_Stored
<1>4. Adds({e, f, g, h})
  BY <1>1, Published DEF Adds
<1> QED
  BY <1>3, <1>4 DEF q

\* The events of an answer, as they are stored.
LEMMA Answer_Events ==
  ASSUME NEW u, Answer(u)
  PROVE  \E d, e, f :
           /\ Stored(d, 1, "answered", AskTurn(u), 0) /\ Stored(e, 2, "user", NextTurn, 0)
           /\ Stored(f, 3, "submitted", NextTurn, 0) /\ Adds({d, e, f})
<1> DEFINE q == AskTurn(u)
           t == NextTurn
           a == LinkEvent("answered", q, u)
           b == Event("user", t)
           c == Event("submitted", t)
<1>1. Publish(<<a>> \o <<b, c>>)
  BY DEF Answer, UserSubmission
<1>2. Fields(a, "answered", q, 0) /\ Fields(b, "user", t, 0) /\ Fields(c, "submitted", t, 0)
  BY Event_Fields
<1> HIDE DEF a, b, c, q, t
<1> DEFINE d == [a EXCEPT !.key = Cardinality(ledger) + 1]
           e == [b EXCEPT !.key = Cardinality(ledger) + 2]
           f == [c EXCEPT !.key = Cardinality(ledger) + 3]
<1>3. Stored(d, 1, "answered", q, 0) /\ Stored(e, 2, "user", t, 0) /\ Stored(f, 3, "submitted", t, 0)
  BY <1>2, Field_Stored
<1>4. Adds({d, e, f})
  BY <1>1, Published DEF Adds
<1> QED
  BY <1>3, <1>4 DEF q, t

\* Ask: two events of the asking turn and the first two of the turn of its
\* question, which had none.
LEMMA Ask_Shaped ==
  ASSUME LedgerInv, Shape, Appended, NEW t \in TurnsOf(ledger), Ask(t)
  PROVE  ShapedStep
<1> DEFINE q == AskTurn(t)
<1>1. PICK e, f, g, h :
        /\ Stored(e, 1, "invocation", t, 0) /\ Stored(f, 2, "question", t, 0)
        /\ Stored(g, 3, "submitted", q, 0) /\ Stored(h, 4, "awaiting", q, 0)
        /\ Adds({e, f, g, h})
  BY Ask_Events
<1>2. IsTurn(t) /\ Has(ledger, "started", t) /\ ~Has(ledger, "question", t)
  <2>1. Has(ledger, "started", t) /\ ~Has(ledger, "question", t)
    BY DEF Ask, Running, Asked
  <2> QED
    BY <2>1 DEF Has, Shape, AgentsAsk
<1>3. /\ e.type = "invocation" /\ e.turn = t /\ e.task = 0
      /\ f.type = "question" /\ f.turn = t /\ f.task = 0
      /\ g.type = "submitted" /\ g.turn = q /\ g.task = 0
      /\ h.type = "awaiting" /\ h.turn = q /\ h.task = 0
  BY <1>1 DEF Stored
<1>4. t # NoTurn /\ t[1] # "ask" /\ q[1] = "ask" /\ q # NoTurn /\ AskingTurn(q) = t
  BY <1>2, Turn_Ids
<1>5. IsQuestion(ledger', q)
  <2>1. f \in ledger'
    BY <1>1 DEF Adds
  <2>2. Has(ledger', "question", t)
    BY <1>3, <2>1 DEF Has
  <2> QED
    BY <1>2, <2>2 DEF IsQuestion
<1>6. \A x \in ledger : x.turn # q
  <2> SUFFICES ASSUME NEW x \in ledger, x.turn = q PROVE FALSE
    OBVIOUS
  <2>1. ~IsTurn(q)
    BY <1>4, Turn_Ids
  <2>2. IsQuestion(ledger, q)
    BY <1>4, <2>1 DEF Shape, TurnsShaped
  <2>3. PICK v : IsTurn(v) /\ q = AskTurn(v) /\ Has(ledger, "question", v)
    BY <2>2 DEF IsQuestion
  <2>4. v = t
    BY <1>4, <2>3, Turn_Ids
  <2> QED
    BY <1>2, <2>3, <2>4
<1>7. \E x \in ledger : x.turn = t
  BY DEF TurnsOf
<1>8. \A x \in New : x = e \/ x = f \/ x = g \/ x = h
  BY <1>1 DEF New, Adds
<1> HIDE DEF q
<1>9. NewTurns /\ NewNotices /\ NewAgents
  BY <1>2, <1>3, <1>4, <1>5, <1>8 DEF NewTurns, NewNotices, NewAgents
<1>10. NewPauses
  BY <1>3, <1>6, <1>8 DEF NewPauses, TerminalTypes
<1>11. NewMessages /\ NewTasks
  BY <1>3, <1>8 DEF NewMessages, IsMessage, NewTasks, IsTask
<1>12. NewWakes
  BY <1>3, <1>4, <1>7, <1>8 DEF NewWakes
<1>13. NewScope
  BY <1>3, <1>4, <1>8 DEF NewScope
<1> QED
  BY <1>9, <1>10, <1>11, <1>12, <1>13 DEF ShapedStep

\* Answer: the terminal of the question, and the message and submit of a new
\* turn.
LEMMA Answer_Shaped ==
  ASSUME LedgerInv, Shape, Appended, NEW u \in TurnsOf(ledger), Answer(u)
  PROVE  ShapedStep
<1> DEFINE q == AskTurn(u)
           t == NextTurn
<1>1. PICK d, e, f :
        /\ Stored(d, 1, "answered", q, 0) /\ Stored(e, 2, "user", t, 0)
        /\ Stored(f, 3, "submitted", t, 0) /\ Adds({d, e, f})
  BY Answer_Events
<1>2. IsTurn(t) /\ t[1] = "turn" /\ t # NoTurn
  BY Next_Turn
<1>3. IsQuestion(ledger', q)
  <2>1. Has(ledger, "question", u)
    BY DEF Answer, OpenQuestion, Asked
  <2>2. IsTurn(u)
    BY <2>1 DEF Has, Shape, AgentsAsk
  <2>3. Has(ledger', "question", u)
    BY <2>1 DEF Has, Appended
  <2> QED
    BY <2>2, <2>3 DEF IsQuestion
<1>4. q[1] = "ask" /\ q # NoTurn /\ q # t
  BY <1>2, Turn_Ids
<1>5. /\ d.type = "answered" /\ d.turn = q /\ d.task = 0
      /\ e.type = "user" /\ e.turn = t /\ e.task = 0
      /\ f.type = "submitted" /\ f.turn = t /\ f.task = 0
  BY <1>1 DEF Stored
<1>6. e.key < f.key /\ f.key > Cardinality(ledger)
  BY <1>1 DEF Appended, Stored
<1>7. f \in New /\ \A x \in New : x = d \/ x = e \/ x = f
  <2>1. \A x \in ledger : ~(x.key > Cardinality(ledger))
    BY DEF LedgerInv, Appended
  <2> QED
    BY <1>1, <1>6, <2>1 DEF New, Adds
<1> HIDE DEF q, t
<1>8. NewTurns /\ NewNotices /\ NewAgents /\ NewPauses
  BY <1>2, <1>3, <1>4, <1>5, <1>7 DEF NewTurns, NewNotices, NewAgents, NewPauses
<1>9. NewMessages
  BY <1>4, <1>5, <1>6, <1>7 DEF NewMessages, IsMessage, t
<1>10. NewWakes /\ NewTasks
  BY <1>2, <1>4, <1>5, <1>7 DEF NewWakes, NewTasks, IsTask
<1>11. NewScope
  BY <1>2, <1>4, <1>5, <1>7 DEF NewScope
<1> QED
  BY <1>8, <1>9, <1>10, <1>11 DEF ShapedStep

\* Every step of the publishers, with the lemmas above.
LEMMA LedgerNext_Shaped ==
  ASSUME LedgerInv, Shape, scope \in Scopes, LedgerNext
  PROVE  ShapedStep
<1>1. Appended
  BY LedgerNext_Appends
<1>2. CASE Submit
  BY <1>1, <1>2, Submit_Shaped
<1>3. ASSUME NEW t \in TurnsOf(ledger),
             \/ Start(t) \/ Reply(t) \/ TaskStart(t) \/ Complete(t) \/ Fail(t)
             \/ Ask(t) \/ Answer(t) \/ Stop(t) \/ Stopped(t)
      PROVE  ShapedStep
  BY <1>1, <1>3, Plain_Actions, Ask_Shaped, Answer_Shaped, Dismissed_Shaped
<1>4. ASSUME NEW k \in TasksOf(ledger), TaskExit(k) PROVE ShapedStep
  BY <1>1, <1>4, TaskExit_Shaped
<1>5. ASSUME NEW k \in TasksOf(ledger), NEW g \in 1..scope.gens, Wake(k, g) PROVE ShapedStep
  <2>1. g \in Nat \ {0}
    BY ScopesAssumption
  <2> QED
    BY <1>1, <1>5, <2>1, Wake_Shaped
<1>6. ASSUME NEW type \in {"status", "banner"}, Notice(type) PROVE ShapedStep
  BY <1>1, <1>6, Notice_Shaped
<1> QED
  BY <1>2, <1>3, <1>4, <1>5, <1>6 DEF LedgerNext

\* A closed turn stays closed.
LEMMA Closed_Grows ==
  ASSUME Appended, NEW t
  PROVE  Closed(ledger, t) => Closed(ledger', t)
BY DEF Appended, Closed, Terminals

\* Messages are only added, and a new message is counted.
LEMMA Messages_Grow ==
  ASSUME LedgerInv, Appended
  PROVE  /\ UserMessages \in Nat /\ UserMessages' \in Nat /\ UserMessages <= UserMessages'
         /\ \A e \in New : IsMessage(e) => UserMessages + 1 <= UserMessages'
<1> DEFINE S == Of(ledger, "user")
           S2 == Of(ledger', "user")
<1>1. S \subseteq S2 /\ IsFiniteSet(S) /\ IsFiniteSet(S2)
  <2>1. S \subseteq ledger /\ S2 \subseteq ledger' /\ S \subseteq S2
    BY DEF Of, Appended
  <2> QED
    BY <2>1, FS_Subset DEF LedgerInv, Appended
<1>2. Cardinality(S) \in Nat /\ Cardinality(S2) \in Nat /\ Cardinality(S) <= Cardinality(S2)
  BY <1>1, FS_Subset, FS_CardinalityType
<1>3. ASSUME NEW e \in New, IsMessage(e) PROVE Cardinality(S) + 1 <= Cardinality(S2)
  <2>1. e \in S2 /\ e \notin S
    BY <1>3 DEF New, IsMessage, Of
  <2> HIDE DEF S, S2
  <2>2. IsFiniteSet(S \cup {e}) /\ Cardinality(S \cup {e}) = Cardinality(S) + 1
    BY <1>1, <2>1, FS_AddElement
  <2>3. S \cup {e} \subseteq S2
    BY <1>1, <2>1
  <2> QED
    BY <1>1, <2>2, <2>3, FS_Subset
<1> QED
  BY <1>2, <1>3 DEF UserMessages

\* A session has finitely many tasks.
LEMMA Tasks_Finite ==
  ASSUME LedgerInv
  PROVE  IsFiniteSet(TasksOf(ledger)) /\ Cardinality(TasksOf(ledger)) \in Nat
<1> DEFINE S == {f \in ledger : f.type \in {"taskStart", "taskExit"}}
           g == [e \in S |-> e.task]
<1>1. IsFiniteSet(S)
  <2>1. S \subseteq ledger
    OBVIOUS
  <2> QED
    BY <2>1, FS_Subset DEF LedgerInv
<1>2. TasksOf(ledger) = {g[e] : e \in S}
  BY DEF TasksOf
<1>3. g \in Surjection(S, TasksOf(ledger))
  <2>1. g \in [S -> TasksOf(ledger)] /\ \A k \in TasksOf(ledger) : \E e \in S : g[e] = k
    BY <1>2
  <2> HIDE DEF g, S
  <2> QED
    BY <2>1, Fun_IsSurj
<1> HIDE DEF g, S
<1> QED
  BY <1>1, <1>3, FS_Surjection, FS_CardinalityType DEF ExistsSurjection

\* A shaped step keeps the ledger well shaped: one step per part of Shape.
LEMMA Shape_Step ==
  ASSUME LedgerInv, Shape, ShapedStep
  PROVE  Shape'
<1>1. Appended /\ ledger \subseteq ledger' /\ \A e \in ledger' : e \in ledger \/ e \in New
  BY DEF ShapedStep, Appended, New
<1>2. TurnsShaped'
  <2>1. \A q : IsQuestion(ledger, q) => IsQuestion(ledger', q)
    BY <1>1 DEF IsQuestion, Has
  <2> QED
    BY <1>1, <2>1 DEF TurnsShaped, Shape, ShapedStep, NewTurns
<1>3. NoticesApart' /\ AgentsAsk'
  BY <1>1 DEF NoticesApart, AgentsAsk, Shape, ShapedStep, NewNotices, NewAgents
<1>4. PauseFirst'
  <2> SUFFICES ASSUME NEW e \in ledger', NEW f \in ledger',
                      e.type = "awaiting", f.turn = e.turn, f.type \in TerminalTypes
               PROVE  e.key < f.key
    BY DEF PauseFirst
  <2>1. e \in ledger
    BY <1>1 DEF ShapedStep, NewPauses
  <2>2. CASE f \in ledger
    BY <2>1, <2>2 DEF Shape, PauseFirst
  <2>3. CASE f \in New
    <3>1. e.key \in 1..Cardinality(ledger) /\ f.key > Cardinality(ledger) /\ Cardinality(ledger) \in Nat
      BY <1>1, <2>1, <2>3 DEF LedgerInv, Appended, New
    <3>2. f.key \in Nat
      BY <1>1, FS_CardinalityType DEF Appended, LedgerInv
    <3> QED
      BY <3>1, <3>2
  <2> QED
    BY <1>1, <2>2, <2>3
<1>5. MessagesNumbered'
  <2> SUFFICES ASSUME NEW e \in ledger', IsMessage(e)
               PROVE  \E n \in 1..UserMessages' : e.turn = UserTurn(n)
    BY DEF MessagesNumbered, IsMessage
  <2>1. /\ UserMessages \in Nat /\ UserMessages' \in Nat /\ UserMessages <= UserMessages'
        /\ e \in New => UserMessages + 1 <= UserMessages'
    BY <1>1, Messages_Grow
  <2>2. CASE e \in ledger
    <3>1. PICK n \in 1..UserMessages : e.turn = UserTurn(n)
      BY <2>2 DEF Shape, MessagesNumbered
    <3>2. n \in 1..UserMessages'
      BY <2>1
    <3> QED
      BY <3>1, <3>2
  <2>3. CASE e \in New
    <3>1. e.turn = UserTurn(UserMessages + 1)
      BY <2>3, Next_Turn DEF ShapedStep, NewMessages
    <3>2. UserMessages + 1 \in 1..UserMessages'
      BY <2>1, <2>3
    <3> QED
      BY <3>1, <3>2
  <2> QED
    BY <1>1, <2>2, <2>3
<1>6. MessagesSubmitted'
  BY <1>1 DEF MessagesSubmitted, IsMessage, Shape, ShapedStep, NewMessages, New
<1>7. OneMessage'
  <2> SUFFICES ASSUME NEW e \in ledger', NEW f \in ledger', IsMessage(e), IsMessage(f), e.turn = f.turn
               PROVE  e = f
    BY DEF OneMessage, IsMessage
  <2>1. ASSUME NEW a \in ledger, NEW b \in New, IsMessage(a), IsMessage(b) PROVE a.turn # b.turn
    <3>1. PICK n \in 1..UserMessages : a.turn = UserTurn(n)
      BY <2>1 DEF Shape, MessagesNumbered
    <3>2. b.turn = UserTurn(UserMessages + 1) /\ UserMessages \in Nat
      BY <2>1, Next_Turn DEF ShapedStep, NewMessages
    <3>3. UserTurn(n)[2] = n /\ UserTurn(UserMessages + 1)[2] = UserMessages + 1
      BY DEF UserTurn
    <3>4. n # UserMessages + 1
      BY <3>2
    <3> QED
      BY <3>1, <3>2, <3>3, <3>4
  <2>2. CASE e \in ledger /\ f \in ledger
    BY <2>2 DEF Shape, OneMessage
  <2>3. CASE e \in New /\ f \in New
    BY <2>3 DEF ShapedStep, NewMessages
  <2> QED
    BY <1>1, <2>1, <2>2, <2>3
<1>8. WakesContinue'
  <2> SUFFICES ASSUME NEW e \in ledger', e.turn[1] = "wake"
               PROVE  \E f \in ledger' : IsTask(f) /\ f.task = e.turn[2] /\ Closed(ledger', f.turn)
    BY DEF WakesContinue, IsTask
  <2>1. \E f \in ledger : IsTask(f) /\ f.task = e.turn[2] /\ Closed(ledger, f.turn)
    <3>1. CASE \E f \in ledger : f.turn = e.turn
      BY <3>1 DEF Shape, WakesContinue
    <3>2. CASE ~\E f \in ledger : f.turn = e.turn
      BY <1>1, <3>2 DEF ShapedStep, NewWakes
    <3> QED
      BY <3>1, <3>2
  <2> QED
    BY <1>1, <2>1, Closed_Grows
<1>9. WakesSubmitted'
  BY <1>1 DEF WakesSubmitted, Shape, ShapedStep, NewWakes
<1>10. \A e \in ledger : IsTask(e) => e.task \in TasksOf(ledger)
  BY DEF IsTask, TasksOf
<1>11. Cardinality(TasksOf(ledger)) + 1 \notin TasksOf(ledger)
  BY Tasks_Finite DEF Shape, TasksNumbered
<1>12. TasksNumbered'
  <2> DEFINE T == TasksOf(ledger)
  <2>1. CASE \A e \in New : IsTask(e) => e.task \in T
    <3>1. TasksOf(ledger') = T
      BY <1>1, <2>1 DEF TasksOf, IsTask
    <3> QED
      BY <3>1 DEF Shape, TasksNumbered
  <2>2. ASSUME NEW e \in New, IsTask(e), e.task \notin T PROVE TasksNumbered'
    <3>1. New = {e} /\ e.task = Cardinality(T) + 1
      BY <1>10, <2>2 DEF ShapedStep, NewTasks
    <3>2. TasksOf(ledger') = T \cup {e.task}
      <4>1. \A E, k : k \in TasksOf(E) <=> \E f \in E : IsTask(f) /\ f.task = k
        BY DEF TasksOf, IsTask
      <4>2. ledger' = ledger \cup {e}
        <5>1. e \in ledger'
          BY <2>2 DEF New
        <5>2. \A x \in ledger' : x \in ledger \/ x = e
          BY <1>1, <3>1
        <5> QED
          BY <1>1, <5>1, <5>2
      <4>3. \A k : k \in TasksOf(ledger') <=> k \in T \/ k = e.task
        BY <2>2, <4>1, <4>2
      <4> QED
        BY <4>3
    <3>3. Cardinality(TasksOf(ledger')) = Cardinality(T) + 1 /\ Cardinality(T) \in Nat
      BY <2>2, <3>2, Tasks_Finite, FS_AddElement
    <3>4. T \subseteq 1..Cardinality(T)
      BY DEF Shape, TasksNumbered
    <3> HIDE DEF T
    <3> QED
      BY <3>1, <3>2, <3>3, <3>4 DEF TasksNumbered
  <2> QED
    BY <2>1, <2>2
<1>13. TasksStay'
  <2> SUFFICES ASSUME NEW e \in ledger', NEW f \in ledger', IsTask(e), IsTask(f), e.task = f.task
               PROVE  e.turn = f.turn
    BY DEF TasksStay, IsTask
  <2>1. ASSUME NEW a \in ledger, NEW b \in New, IsTask(a), IsTask(b), a.task = b.task
        PROVE  a.turn = b.turn
    <3>1. PICK g \in ledger : IsTask(g) /\ g.task = b.task /\ g.turn = b.turn
      BY <1>10, <1>11, <2>1 DEF ShapedStep, NewTasks
    <3> QED
      BY <2>1, <3>1 DEF Shape, TasksStay
  <2>2. CASE e \in ledger /\ f \in ledger
    BY <2>2 DEF Shape, TasksStay
  <2>3. CASE e \in New /\ f \in New
    BY <2>3 DEF ShapedStep, NewTasks
  <2> QED
    BY <1>1, <2>1, <2>2, <2>3
<1> QED
  BY <1>2, <1>3, <1>4, <1>5, <1>6, <1>7, <1>8, <1>9, <1>12, <1>13 DEF Shape

\* The ledger of a session is well shaped, whatever its publishers do.
LEMMA Shape_Inv ==
  /\ Init => LedgerInv /\ Shape /\ scope \in Scopes
  /\ LedgerInv /\ Shape /\ scope \in Scopes /\ [Next]_vars => (LedgerInv /\ Shape /\ scope \in Scopes)'
<1>1. ASSUME Init PROVE LedgerInv /\ Shape /\ scope \in Scopes
  <2>1. LedgerInv /\ ledger = {} /\ scope \in Scopes
    BY <1>1, Ledger_Inv DEF Init, LedgerInit
  <2>2. TasksOf({}) = {}
    BY DEF TasksOf
  <2> QED
    BY <2>1, <2>2 DEF Shape, TurnsShaped, NoticesApart, AgentsAsk, PauseFirst, MessagesNumbered,
       MessagesSubmitted, OneMessage, WakesContinue, WakesSubmitted, TasksNumbered, TasksStay
<1>2. ASSUME LedgerInv, Shape, scope \in Scopes, [Next]_vars PROVE (LedgerInv /\ Shape /\ scope \in Scopes)'
  <2>1. LedgerInv'
    BY <1>2, Ledger_Inv
  <2>2. CASE LedgerNext
    BY <1>2, <2>1, <2>2, LedgerNext_Shaped, Shape_Step DEF ShapedStep, Appended
  <2>3. CASE UNCHANGED ledgerVars
    BY <1>2, <2>1, <2>3 DEF ledgerVars, Shape, TurnsShaped, NoticesApart, AgentsAsk, PauseFirst,
       MessagesNumbered,
       MessagesSubmitted, OneMessage, WakesContinue, WakesSubmitted, TasksNumbered, TasksStay, UserMessages
  <2>4. LedgerNext \/ UNCHANGED ledgerVars
    <3>1. CASE Persist
      BY <3>1 DEF Persist, Refresh
    <3>2. CASE Browse \/ Detail \/ Sidebar
      BY <3>2 DEF Browse, BrowserNext, FetchRows, FetchCursor, OpenStream, FirstPage, WakeStream,
         DropStream,
         Detail, PagesNext, FoldStart, FoldRead, FoldStore, Sidebar, ActivityNext, ReadPrior, FoldEvents,
         WriteSummary, CountMessages, CompareCount, WriteCount, MarkRead
    <3>3. CASE UNCHANGED vars
      BY <3>3 DEF vars
    <3> QED
      BY <1>2, <3>1, <3>2, <3>3 DEF Next
  <2> QED
    BY <2>2, <2>3, <2>4
<1> QED
  BY <1>1, <1>2

\* What the projection relies on, of the whole ledger L.
Written(L) ==
  /\ IsFiniteSet(L) /\ Cardinality(L) \in Nat /\ \A e \in L : e.key \in 1..Cardinality(L)
  /\ \A e \in L : e.turn = NoTurn <=> e.type \in {"status", "banner"}
  /\ \A e, f \in L :
       e.type = "awaiting" /\ f.turn = e.turn /\ f.type \in TerminalTypes => e.key < f.key
  /\ \A e \in L : IsMessage(e) =>
       /\ e.turn[1] = "turn"
       /\ \E f \in L : f.type = "submitted" /\ f.turn = e.turn /\ e.key < f.key
  /\ \A e, f \in L : IsMessage(e) /\ IsMessage(f) /\ e.turn = f.turn => e = f
  /\ \A e \in L : e.type = "submitted" /\ e.task # 0 => e.turn[1] = "wake"

\* The ledger is such a set, before and after a step.
LEMMA Written_Ledger ==
  /\ LedgerInv /\ Shape => Written(ledger)
  /\ LedgerInv' /\ Shape' => Written(ledger')
<1>1. ASSUME LedgerInv, Shape PROVE Written(ledger)
  <2>1. IsFiniteSet(ledger) /\ Cardinality(ledger) \in Nat /\ \A e \in ledger : e.key \in 1..Cardinality(ledger)
    BY <1>1, FS_CardinalityType DEF LedgerInv
  <2>2. \A e \in ledger : IsMessage(e) => e.turn[1] = "turn"
    BY <1>1, Turn_Ids DEF Shape, MessagesNumbered
  <2> QED
    BY <1>1, <2>1, <2>2 DEF Written, Shape, NoticesApart, PauseFirst, MessagesSubmitted, OneMessage,
       WakesSubmitted
<1>2. ASSUME LedgerInv', Shape' PROVE Written(ledger')
  <2>1. IsFiniteSet(ledger') /\ Cardinality(ledger') \in Nat /\ \A e \in ledger' : e.key \in 1..Cardinality(ledger')
    BY <1>2, FS_CardinalityType DEF LedgerInv
  <2>2. \A e \in ledger' : IsMessage(e) => e.turn[1] = "turn"
    BY <1>2, Turn_Ids DEF Shape, MessagesNumbered, IsMessage
  <2> QED
    BY <1>2, <2>1, <2>2 DEF Written, Shape, NoticesApart, PauseFirst, MessagesSubmitted, OneMessage,
       WakesSubmitted, IsMessage
<1> QED
  BY <1>1, <1>2

\* A part of the ledger with all events of the turns it has.
Part(L, E) == E \subseteq L /\ \A t \in TurnsOf(E) : OfTurn(L, t) \subseteq E

\* Sets of events have a first and a last one.
LEMMA Ends ==
  ASSUME NEW L, Written(L), NEW S, S \subseteq L
  PROVE  /\ \A e \in S : e.key \in Nat
         /\ S # {} => Last(S) \in S /\ First(S) \in S /\ \A e \in S : e.key <= Last(S).key
<1>1. /\ S # {} => Last(S) \in S /\ First(S) \in S
      /\ \A e \in S : e.key <= MaxKey(S)
  BY Greatest_Key DEF Written
<1>2. S # {} => MaxKey(S) = Last(S).key
  BY DEF MaxKey
<1>3. \A e \in L : e.key \in Nat
  BY DEF Written
<1> QED
  BY <1>1, <1>2, <1>3

\* A set of numbers has a least one.
LEMMA Min_In ==
  ASSUME NEW S, S \subseteq Nat, S # {}
  PROVE  MinOf(S) \in S
<1>1. \E n \in S : \A k \in S : n <= k
  BY Least
<1> QED
  BY <1>1 DEF MinOf

\* An entry is named by its kind, and has a place.
LEMMA Flat_Entries ==
  ASSUME NEW L, Written(L), NEW E, E \subseteq L, NEW x \in Flat(E)
  PROVE  /\ x.id[1] = x.kind /\ x.kind # "shell" /\ x.key \in Nat
         /\ x.kind = "user" =>
              \E e \in E : IsMessage(e) /\ x.turn = e.turn /\ x.key = 2 * e.key
<1> DEFINE Good(y) == /\ y.id[1] = y.kind /\ y.kind # "shell" /\ y.key \in Nat
                      /\ y.kind = "user" =>
                           \E e \in E : IsMessage(e) /\ y.turn = e.turn /\ y.key = 2 * e.key
<1>1. \A e \in E : e.key \in Nat /\ 2 * e.key \in Nat /\ 2 * e.key + 1 \in Nat
  BY Ends
<1>2. ASSUME NEW kind, NEW n, NEW t, NEW k \in Nat, kind # "shell", kind # "user"
      PROVE  Good(Entry(kind, n, t, k))
  <2> DEFINE y == Entry(kind, n, t, k)
  <2>1. y.id[1] = kind /\ y.kind = kind /\ y.key = k
    BY DEF Entry
  <2> HIDE DEF y
  <2>2. Good(y)
    BY <1>2, <2>1
  <2> QED
    BY <2>2 DEF y
<1>3. ASSUME NEW kind, NEW e \in E, kind # "shell", kind = "user" => IsMessage(e)
      PROVE  Good(EventEntry(kind, e))
  <2> DEFINE y == EventEntry(kind, e)
  <2>1. y.id[1] = kind /\ y.kind = kind /\ y.key = 2 * e.key /\ y.turn = e.turn
    BY DEF EventEntry, Entry, OrderKey
  <2> HIDE DEF y
  <2>2. Good(y)
    BY <1>1, <1>3, <2>1
  <2> QED
    BY <2>2 DEF y
<1>4. CASE x \in MessageEntries(E)
  BY <1>3, <1>4 DEF MessageEntries, Of, IsMessage
<1>5. CASE x \in QuestionEntries(E) \cup ItemEntries(E) \cup BannerEntries(E) \cup InterruptEntries(E)
           \cup ProgressEntries(E)
  BY <1>3, <1>5 DEF QuestionEntries, ItemEntries, BannerEntries, InterruptEntries, ProgressEntries,
     Of
<1>6. CASE x \in CardEntries(E) \cup InvocationEntries(E)
  BY <1>1, <1>2, <1>6 DEF CardEntries, InvocationEntries, Suffixed, Of
<1>7. CASE x \in StatusEntries(E)
  BY <1>1, <1>2, <1>7 DEF StatusEntries, OrderKey, Of
<1>8. CASE x \in WakePromptEntries(E)
  BY <1>1, <1>2, <1>8 DEF WakePromptEntries, WakeSubmits, OrderKey
<1>9. CASE x \in TaskEntries(E)
  <2>1. PICK k \in TasksOf(E) : x = Entry("task", k, TaskTurn(E, k), OrderKey(First(TaskEvents(E, k))))
    BY <1>9 DEF TaskEntries
  <2>2. TaskEvents(E, k) # {} /\ TaskEvents(E, k) \subseteq E
    BY DEF TasksOf, TaskEvents
  <2>3. First(TaskEvents(E, k)) \in E
    BY <2>2, Ends
  <2>4. OrderKey(First(TaskEvents(E, k))) \in Nat
    BY <1>1, <2>3 DEF OrderKey
  <2> QED
    BY <1>2, <2>1, <2>4
<1>10. CASE x \in TerminalEntries(E)
  <2>1. PICK t : Closed(E, t) /\ x = EventEntry("terminal", TerminalOf(E, t))
    BY <1>10 DEF TerminalEntries
  <2>2. Terminals(E, t) # {} /\ Terminals(E, t) \subseteq E
    BY <2>1 DEF Closed, Terminals
  <2>3. TerminalOf(E, t) \in E
    BY <2>2, Ends DEF TerminalOf
  <2> QED
    BY <1>3, <2>1, <2>3
<1> QED
  BY <1>4, <1>5, <1>6, <1>7, <1>8, <1>9, <1>10 DEF Flat

\* What a stored row keeps true while the ledger grows around it.
RowOK(L, r) ==
  /\ r.status = "active" => ~Closed(L, r.turn)
  /\ r.id[1] = "user" => \E e \in L : IsMessage(e) /\ r.turn = e.turn /\ r.start = 2 * e.key
  /\ r.id[1] = "shell" => \A e \in L : IsMessage(e) /\ e.turn = r.turn => 2 * e.key < r.start

\* A row of a single entry: it is not active, it is no shell, and the row of a
\* message is at the place and on the turn of that message.
LEMMA Entry_Row ==
  ASSUME NEW L, Written(L), NEW E, E \subseteq L, NEW x \in Flat(E)
  PROVE  RowOK(L, EntryRow(E, x))
<1>1. /\ EntryRow(E, x).status = "" /\ EntryRow(E, x).id = x.id
      /\ EntryRow(E, x).turn = UserFacing(E, x.turn) /\ EntryRow(E, x).start = x.key
  BY DEF EntryRow
<1>2. x.id[1] = x.kind /\ x.kind # "shell"
  BY Flat_Entries
<1>3. ASSUME x.kind = "user"
      PROVE  \E e \in L : IsMessage(e) /\ UserFacing(E, x.turn) = e.turn /\ x.key = 2 * e.key
  <2>1. PICK e \in E : IsMessage(e) /\ x.turn = e.turn /\ x.key = 2 * e.key
    BY <1>3, Flat_Entries
  <2>2. e.turn[1] = "turn"
    BY <2>1 DEF Written
  <2>3. e.turn \notin WakeTurns(E)
    BY <2>2 DEF WakeTurns, WakeSubmits, Written
  <2>4. WakeParent(E, e.turn) = NoTurn
    BY <2>3 DEF WakeParent
  <2> QED
    BY <2>1, <2>4 DEF UserFacing
<1> QED
  BY <1>1, <1>2, <1>3 DEF RowOK

\* The turn that is taken to be active is one without a terminal.
LEMMA Active_Open ==
  ASSUME NEW L, Written(L), NEW E, Part(L, E), ActiveTurn(E) # NoTurn
  PROVE  ActiveTurn(E) \in TurnsOf(E) /\ ~Closed(L, ActiveTurn(E))
<1> DEFINE D == Deciding(E)
           l == Last(D)
<1>1. D # {} /\ l.type \notin TerminalTypes /\ ActiveTurn(E) = l.turn
  BY DEF ActiveTurn
<1>2. D \subseteq E /\ E \subseteq L
  BY DEF Deciding, Part
<1>3. l \in D /\ \A e \in D : e.key <= l.key
  BY <1>1, <1>2, Ends
<1>4. l.turn \in TurnsOf(E)
  BY <1>1, <1>2, <1>3 DEF TurnsOf
<1>5. \A f \in Terminals(L, l.turn) : f \in D /\ f \in Terminals(E, l.turn)
  BY <1>4 DEF Part, OfTurn, Terminals, Deciding
<1>6. ASSUME NEW f \in Terminals(L, l.turn) PROVE FALSE
  <2>1. f \in L /\ l \in L /\ f.key \in Nat /\ l.key \in Nat /\ f.turn = l.turn /\ f.type \in TerminalTypes
    BY <1>2, <1>3, Ends DEF Terminals
  <2>2. ~(l.key < f.key)
    BY <1>3, <1>5, <2>1
  <2>3. l.type = "awaiting" \/ \A h \in Terminals(E, l.turn) : h.key > l.key
    BY <1>1, <1>3 DEF Deciding
  <2>4. CASE l.type = "awaiting"
    BY <2>1, <2>2, <2>4 DEF Written
  <2>5. CASE \A h \in Terminals(E, l.turn) : h.key > l.key
    BY <1>5, <2>1, <2>2, <2>5
  <2> QED
    BY <2>3, <2>4, <2>5
<1> QED
  BY <1>1, <1>4, <1>6 DEF Closed

\* The bodies: of a turn of the events, and with entries or on a live turn.
LEMMA Body_Kinds ==
  ASSUME NEW L, Written(L), NEW E, Part(L, E), NEW b \in Bodies(E, Flat(E))
  PROVE  /\ b.turn \in TurnsOf(E) /\ b.entries \subseteq EntriesOf(Flat(E), b.turn)
         /\ b.compacted \subseteq b.entries
         /\ ~b.active => b.entries # {}
         /\ b.status = "active" => ~Closed(L, b.turn)
<1> DEFINE F == Flat(E)
<1>1. ASSUME NEW t \in TurnsOf(E), Closed(E, t), b = FinishTerminal(E, F, t), b.entries # {}
      PROVE  /\ b.turn = t /\ b.entries \subseteq EntriesOf(F, t) /\ b.compacted \subseteq b.entries
             /\ b.status # "active"
  <2>1. b.turn = t /\ b.entries \subseteq EntriesOf(F, t) /\ b.compacted \subseteq b.entries
        /\ b.status = TerminalOf(E, t).type
    BY <1>1 DEF FinishTerminal, Body
  <2>2. Terminals(E, t) # {} /\ Terminals(E, t) \subseteq L
    BY <1>1 DEF Closed, Terminals, Part
  <2>3. TerminalOf(E, t) \in Terminals(E, t)
    BY <2>2, Ends DEF TerminalOf
  <2> QED
    BY <2>1, <2>3 DEF Terminals, TerminalTypes
<1>2. ASSUME NEW t \in TurnsOf(E), HandsOver(E, t), b = FinishAwaitingInputHandoff(F, t)
      PROVE  /\ b.turn = t /\ b.entries \subseteq EntriesOf(F, t) /\ b.compacted \subseteq b.entries
             /\ b.status # "active" /\ b.entries # {}
  <2>1. /\ b.turn = t /\ b.status = "handoff" /\ b.compacted \subseteq b.entries
        /\ b.entries = {x \in EntriesOf(F, t) : x.kind \notin Hidden}
    BY <1>2 DEF FinishAwaitingInputHandoff, Body
  <2>2. PICK e \in E : e.type = "question" /\ e.turn = t
    BY <1>2 DEF HandsOver, Has
  <2> DEFINE x == EventEntry("question", e)
  <2>3. x.turn = t /\ x.kind = "question"
    BY <2>2 DEF EventEntry, Entry
  <2>4. x \in F
    BY <2>2 DEF Flat, QuestionEntries, Of
  <2> HIDE DEF F, x
  <2>5. x \in b.entries
    BY <2>1, <2>3, <2>4 DEF EntriesOf, Hidden
  <2> QED
    BY <2>1, <2>5
<1>3. ASSUME ActiveTurn(E) # NoTurn, b = FinishActive(E, F, ActiveTurn(E))
      PROVE  /\ b.turn = ActiveTurn(E) /\ b.entries \subseteq EntriesOf(F, ActiveTurn(E))
             /\ b.compacted \subseteq b.entries /\ b.active
  BY <1>3 DEF FinishActive, Body
<1>4. \/ \E t \in TurnsOf(E) : Closed(E, t) /\ b = FinishTerminal(E, F, t) /\ b.entries # {}
      \/ \E t \in TurnsOf(E) : HandsOver(E, t) /\ b = FinishAwaitingInputHandoff(F, t)
      \/ ActiveTurn(E) # NoTurn /\ b = FinishActive(E, F, ActiveTurn(E))
  BY DEF Bodies
<1> HIDE DEF F
<1>5. F = Flat(E)
  BY DEF F
<1> QED
  BY <1>1, <1>2, <1>3, <1>4, <1>5, Active_Open

\* The row of a shell: it is active only on an open turn, and below the message
\* of its turn, for the chip of the submit that follows the message is an entry
\* below it.
LEMMA Shell_Row ==
  ASSUME NEW L, Written(L), NEW E, Part(L, E), NEW b \in Bodies(E, Flat(E))
  PROVE  RowOK(L, ShellRow(E, Flat(E), Bodies(E, Flat(E)), b))
<1> DEFINE F == Flat(E)
           r == ShellRow(E, F, Bodies(E, F), b)
<1>1. r.id[1] = "shell" /\ r.turn = b.turn /\ r.status = b.status /\ r.start = ShellStart(F, b)
  BY DEF ShellRow
<1>2. r.status = "active" => ~Closed(L, r.turn)
  BY <1>1, Body_Kinds
<1>3. ASSUME NEW e \in L, IsMessage(e), e.turn = b.turn PROVE 2 * e.key < ShellStart(F, b)
  <2> DEFINE own == EntriesOf(F, b.turn)
             M == {x.key : x \in {y \in own : y.kind = "user"}}
             BL == {x.key : x \in {y \in own : M # {} /\ y.key > MinOf(M)}}
             P == {x.key : x \in Progress(F, b.turn)}
             n == 2 * e.key
  <2>1. b.turn \in TurnsOf(E) /\ b.entries \subseteq own /\ (~b.active => b.entries # {})
    BY Body_Kinds
  <2>2. e \in E /\ E \subseteq L /\ e.key \in Nat
    BY <1>3, <2>1, Ends DEF Part, OfTurn
  <2>3. PICK f \in L : f.type = "submitted" /\ f.turn = e.turn /\ e.key < f.key
    BY <1>3 DEF Written
  <2>4. f \in E /\ f.key \in Nat
    BY <1>3, <2>1, <2>3, Ends DEF Part, OfTurn
  <2> DEFINE u == EventEntry("user", e)
             p == EventEntry("progress", f)
  <2>5. u \in own /\ u.kind = "user" /\ u.key = n
    <3>1. u.turn = b.turn /\ u.kind = "user" /\ u.key = n
      BY <1>3 DEF EventEntry, Entry, OrderKey
    <3>2. u \in F
      BY <1>3, <2>2 DEF Flat, MessageEntries, Of, IsMessage
    <3> HIDE DEF u, F
    <3> QED
      BY <3>1, <3>2 DEF EntriesOf
  <2>6. p \in own /\ p.kind = "progress" /\ p.key = 2 * f.key
    <3>1. p.turn = b.turn /\ p.kind = "progress" /\ p.key = 2 * f.key
      BY <1>3, <2>3 DEF EventEntry, Entry, OrderKey
    <3>2. p \in F
      BY <2>3, <2>4 DEF Flat, ProgressEntries, Of
    <3> HIDE DEF p, F
    <3> QED
      BY <3>1, <3>2 DEF EntriesOf
  <2>7. \A x \in own : x.key \in Nat /\ (x.kind = "user" => x.key = n)
    <3> SUFFICES ASSUME NEW x \in own PROVE x.key \in Nat /\ (x.kind = "user" => x.key = n)
      OBVIOUS
    <3>1. x \in F /\ x.turn = b.turn
      BY DEF EntriesOf
    <3>2. x.key \in Nat /\ (x.kind = "user" => \E h \in E : IsMessage(h) /\ x.turn = h.turn /\ x.key = 2 * h.key)
      BY <2>2, <3>1, Flat_Entries
    <3>3. \A h \in E : IsMessage(h) /\ h.turn = b.turn => h = e
      BY <1>3, <2>2 DEF Written
    <3> QED
      BY <3>1, <3>2, <3>3
  <2> HIDE DEF own, u, p
  <2>8. n \in Nat /\ n < 2 * f.key
    BY <2>2, <2>3, <2>4
  <2>9. M = {n} /\ MinOf(M) = n
    <3>1. M = {n}
      BY <2>5, <2>7
    <3> HIDE DEF n, M
    <3>2. MinOf({n}) \in {n}
      BY <2>8, Min_In
    <3> QED
      BY <3>1, <3>2
  <2>10. BL # {} /\ MinOf(BL) \in Nat /\ n < MinOf(BL)
    <3>1. 2 * f.key \in BL
      BY <2>6, <2>8, <2>9
    <3>2. \A k \in BL : k \in Nat /\ n < k
      BY <2>7, <2>8, <2>9
    <3> HIDE DEF BL, n
    <3>3. MinOf(BL) \in BL
      BY <3>1, <3>2, Min_In
    <3> QED
      BY <3>1, <3>2, <3>3
  <2>11. SpanStart(F, b) \in Nat
    <3>1. P \subseteq Nat /\ Progress(F, b.turn) # {} /\ P # {}
      BY <2>6, <2>7 DEF Progress, own
    <3>2. b.active \/ {x.key : x \in b.entries} # {}
      BY <2>1
    <3>3. {x.key : x \in b.entries} \subseteq Nat
      BY <2>1, <2>7
    <3>4. MinOf(P) \in Nat /\ (~b.active => MinOf({x.key : x \in b.entries}) \in Nat)
      BY <3>1, <3>2, <3>3, Min_In
    <3> QED
      BY <3>1, <3>4 DEF SpanStart
  <2>12. ShellStart(F, b) = IF M # {} /\ SpanStart(F, b) <= MinOf(M) /\ BL # {}
                            THEN MinOf(BL) ELSE SpanStart(F, b)
    BY DEF ShellStart, own
  <2> HIDE DEF M, BL, P, n, F
  <2>13. n < ShellStart(F, b)
    BY <2>8, <2>9, <2>10, <2>11, <2>12
  <2> QED
    BY <2>13 DEF n
<1> HIDE DEF r, F
<1>4. RowOK(L, r)
  BY <1>1, <1>2, <1>3 DEF RowOK
<1> QED
  BY <1>4 DEF r, F

\* Every row of the projection, of the whole ledger or of a part.
LEMMA Row_OK ==
  ASSUME NEW L, Written(L), NEW E, Part(L, E), NEW r \in Rows(E)
  PROVE  RowOK(L, r)
<1> DEFINE F == Flat(E)
           B == Bodies(E, F)
<1>1. \/ \E x \in F : r = EntryRow(E, x)
      \/ \E b \in B : r = ShellRow(E, F, B, b)
  BY DEF Rows, WithShell
<1>2. E \subseteq L
  BY DEF Part
<1> QED
  BY <1>1, <1>2, Entry_Row, Shell_Row

\* What the projection is applied to is the ledger, the events of one turn with
\* its leading notices, or a single notice: parts of the ledger.
LEMMA Parts ==
  ASSUME NEW L, Written(L)
  PROVE  /\ Part(L, L)
         /\ \A t : Part(L, ReadAllTurnEvents(L, t))
         /\ \A e \in OfTurn(L, NoTurn) : Part(L, {e})
<1>1. Part(L, L)
  BY DEF Part, OfTurn
<1>2. ASSUME NEW t PROVE Part(L, ReadAllTurnEvents(L, t))
  <2> DEFINE E == ReadAllTurnEvents(L, t)
  <2>1. E \subseteq OfTurn(L, t) \cup Of(L, "status") /\ (E # {} => OfTurn(L, t) \subseteq E)
    BY DEF ReadAllTurnEvents, Leading
  <2>2. \A e \in Of(L, "status") : e.turn = NoTurn
    BY DEF Written, Of
  <2> HIDE DEF E
  <2>3. E \subseteq L /\ \A u \in TurnsOf(E) : u = t /\ E # {}
    BY <2>1, <2>2 DEF TurnsOf, OfTurn, Of
  <2>4. Part(L, E)
    BY <2>1, <2>3 DEF Part
  <2> QED
    BY <2>4 DEF E
<1>3. ASSUME NEW e \in OfTurn(L, NoTurn) PROVE Part(L, {e})
  BY DEF Part, OfTurn, TurnsOf
<1> QED
  BY <1>1, <1>2, <1>3

RowsKept == \A r \in rows : RowOK(ledger, r)
RowsInv ==
  LedgerInv /\ Shape /\ scope \in Scopes /\ RowsKept /\ (~Materialized => rows = {})

\* A refresh writes rows of the turns that the batch touches, and keeps others.
LEMMA Scope_Rows ==
  ASSUME NewScope, NEW r \in TurnScope(rows, ledger', New)
  PROVE  \/ r \in rows /\ r.turn \notin TurnsOf(New)
         \/ \E t : r \in Rows(ReadAllTurnEvents(ledger', t))
         \/ \E e \in OfTurn(New, NoTurn) : r \in Rows({e})
<1> DEFINE asking == {t \in TurnsOf(New) : t[1] # "ask"}
           asked == TurnsOf(New) \ asking
           one(Q, T) == IF T = {} THEN Q ELSE ReplaceForTurn(Q, ledger', CHOOSE t \in T : TRUE)
           base == Upsert(rows, NoticeRows(New))
           first == one(base, asking)
<1>1. r \in one(first, asked)
  BY DEF TurnScope
<1>2. PICK a, q : a[1] # "ask" /\ q[1] = "ask" /\ \A e \in New : e.turn \in {NoTurn, a, q}
  BY DEF NewScope
<1>3. asking \subseteq {a} /\ asked \subseteq {q} /\ TurnsOf(New) = asking \cup asked
  BY <1>2 DEF TurnsOf
<1>4. ASSUME NEW Q, NEW T, NEW u, T \subseteq {u}, NEW x \in one(Q, T)
      PROVE  (x \in Q /\ x.turn \notin T) \/ \E t : x \in Rows(ReadAllTurnEvents(ledger', t))
  <2>1. CASE T = {}
    BY <2>1
  <2>2. CASE T = {u}
    <3>1. (CHOOSE t \in T : TRUE) = u
      BY <2>2
    <3>2. x \in ReplaceForTurn(Q, ledger', u)
      BY <2>2, <3>1
    <3> QED
      BY <2>2, <3>2 DEF ReplaceForTurn, Upsert
  <2> QED
    BY <1>4, <2>1, <2>2
<1> HIDE DEF one
<1>5. CASE \E t : r \in Rows(ReadAllTurnEvents(ledger', t))
  BY <1>5
<1>6. CASE ~\E t : r \in Rows(ReadAllTurnEvents(ledger', t))
  <2>1. r \in first /\ r.turn \notin asked
    BY <1>1, <1>3, <1>4, <1>6
  <2>2. r \in base /\ r.turn \notin asking
    BY <1>3, <1>4, <1>6, <2>1
  <2>3. r \in rows \/ r \in NoticeRows(New)
    BY <2>2 DEF Upsert
  <2>4. r \in NoticeRows(New) => \E e \in OfTurn(New, NoTurn) : r \in Rows({e})
    BY DEF NoticeRows
  <2> QED
    BY <1>3, <2>1, <2>2, <2>3, <2>4
<1> QED
  BY <1>5, <1>6

\* A refresh keeps what the stored rows promise: rows of turns that the batch
\* does not touch are as true as before, the others are projected anew.
LEMMA Persist_Rows ==
  ASSUME RowsInv, Persist
  PROVE  RowsInv'
<1>1. LedgerNext /\ ShapedStep /\ Appended /\ scope' = scope
  BY LedgerNext_Shaped DEF RowsInv, Persist, Refresh, ShapedStep, Appended
<1>2. LedgerInv' /\ Shape' /\ scope' \in Scopes
  BY <1>1, Shape_Step DEF RowsInv, Appended
<1>3. Written(ledger')
  BY <1>2, Written_Ledger
<1>4. Materialized' <=> Materialized
  BY <1>1 DEF Materialized
<1>5. CASE ~Materialized
  <2>1. rows = {} /\ rows' = {}
    BY <1>5 DEF RowsInv, Persist, Refresh
  <2> QED
    BY <1>2, <2>1 DEF RowsInv, RowsKept
<1>6. CASE Materialized
  <2>1. RefreshEventBatch
    BY <1>6 DEF Persist, Refresh
  <2>2. ASSUME NEW r \in rows, r.turn \notin TurnsOf(New) PROVE RowOK(ledger', r)
    <3>1. RowOK(ledger, r)
      BY DEF RowsInv, RowsKept
    <3>2. \A e \in ledger' : e \in ledger \/ (e.turn = r.turn => e.type \in {"status", "banner"})
      BY <1>1, <2>2 DEF ShapedStep, NewNotices, New, TurnsOf
    <3>3. Closed(ledger', r.turn) => Closed(ledger, r.turn)
      BY <3>2 DEF Closed, Terminals, TerminalTypes
    <3>4. \A e \in ledger' : IsMessage(e) /\ e.turn = r.turn => e \in ledger
      BY <3>2 DEF IsMessage
    <3>5. ledger \subseteq ledger'
      BY <1>1 DEF Appended
    <3> QED
      BY <3>1, <3>3, <3>4, <3>5 DEF RowOK
  <2>3. ASSUME NEW r \in rows' PROVE RowOK(ledger', r)
    <3>1. CASE CrossTurn(ledger', New)
      <4>1. r \in Rows(ledger')
        BY <2>1, <3>1 DEF RefreshEventBatch, New
      <4> QED
        BY <1>3, <4>1, Parts, Row_OK
    <3>2. CASE ~CrossTurn(ledger', New)
      <4>1. r \in TurnScope(rows, ledger', New)
        BY <2>1, <3>2 DEF RefreshEventBatch, New
      <4>2. NewScope
        BY <1>1 DEF ShapedStep
      <4>3. \A e \in OfTurn(New, NoTurn) : e \in OfTurn(ledger', NoTurn)
        BY DEF OfTurn, New
      <4>4. CASE r \in rows /\ r.turn \notin TurnsOf(New)
        BY <2>2, <4>4
      <4>5. CASE \E t : r \in Rows(ReadAllTurnEvents(ledger', t))
        BY <1>3, <4>5, Parts, Row_OK
      <4>6. CASE \E e \in OfTurn(New, NoTurn) : r \in Rows({e})
        BY <1>3, <4>3, <4>6, Parts, Row_OK
      <4> QED
        BY <4>1, <4>2, <4>4, <4>5, <4>6, Scope_Rows
    <3> QED
      BY <3>1, <3>2
  <2>4. RowsKept'
    BY <2>3 DEF RowsKept
  <2> QED
    BY <1>2, <1>4, <1>6, <2>4 DEF RowsInv
<1> QED
  BY <1>5, <1>6

\* What the stored rows promise is invariant.
LEMMA Rows_Inv ==
  /\ Init => RowsInv
  /\ RowsInv /\ [Next]_vars => RowsInv'
<1>1. ASSUME Init PROVE RowsInv
  <2>1. rows = {}
    BY <1>1 DEF Init, ViewInit
  <2> QED
    BY <1>1, <2>1, Shape_Inv DEF RowsInv, RowsKept
<1>2. ASSUME RowsInv, [Next]_vars PROVE RowsInv'
  <2>1. LedgerInv' /\ Shape' /\ (scope \in Scopes)'
    BY <1>2, Shape_Inv DEF RowsInv
  <2>2. CASE Persist
    BY <1>2, <2>2, Persist_Rows
  <2>3. CASE UNCHANGED <<ledger, scope, rows>>
    BY <1>2, <2>1, <2>3 DEF RowsInv, RowsKept, Materialized
  <2>4. CASE FetchRows
    <3>1. UNCHANGED <<ledger, scope>> /\ Materialized /\ (rows' = rows \/ rows' = Rows(ledger))
      BY <2>4 DEF FetchRows, ledgerVars, Materialized
    <3>2. ASSUME NEW r \in Rows(ledger) PROVE RowOK(ledger, r)
      <4>1. Written(ledger)
        BY <1>2, Written_Ledger DEF RowsInv
      <4> QED
        BY <4>1, Parts, Row_OK
    <3> QED
      BY <1>2, <2>1, <3>1, <3>2 DEF RowsInv, RowsKept, Materialized
  <2>5. CASE Browse /\ ~FetchRows
    BY <2>3, <2>5 DEF Browse, BrowserNext, FetchCursor, OpenStream, FirstPage, WakeStream,
       DropStream, ledgerVars
  <2>6. CASE Detail \/ Sidebar
    BY <2>3, <2>6 DEF Detail, PagesNext, FoldStart, FoldRead, FoldStore, Sidebar, ActivityNext,
       ReadPrior, FoldEvents,
       WriteSummary, CountMessages, CompareCount, WriteCount, MarkRead, viewVars, ledgerVars
  <2>7. CASE UNCHANGED vars
    BY <2>3, <2>7 DEF vars, ledgerVars, viewVars
  <2> QED
    BY <1>2, <2>2, <2>4, <2>5, <2>6, <2>7 DEF Next, Browse
<1> QED
  BY <1>1, <1>2

\* And it is what the properties ask.
LEMMA Rows_Safe == RowsInv => FinishedNotActive /\ ShellBelowMessage
<1> SUFFICES ASSUME RowsInv PROVE FinishedNotActive /\ ShellBelowMessage
  OBVIOUS
<1>1. FinishedNotActive
  BY DEF RowsInv, RowsKept, RowOK, FinishedNotActive
<1>2. ShellBelowMessage
  <2> SUFFICES ASSUME NEW r \in rows, NEW m \in rows, r.id[1] = "shell", m.id[1] = "user", m.turn = r.turn
               PROVE  m.start < r.start
    BY DEF ShellBelowMessage
  <2>1. PICK e \in ledger : IsMessage(e) /\ m.turn = e.turn /\ m.start = 2 * e.key
    BY DEF RowsInv, RowsKept, RowOK
  <2>2. 2 * e.key < r.start
    BY <2>1 DEF RowsInv, RowsKept, RowOK
  <2> QED
    BY <2>1, <2>2
<1> QED
  BY <1>1, <1>2

\* A walk along a function exists.
LEMMA Iterates ==
  ASSUME NEW S, NEW t \in S, NEW D \in [S -> S]
  PROVE  \E f \in [Nat -> S] : \A n \in Nat : f[n] = IF n = 0 THEN t ELSE D[f[n - 1]]
<1> DEFINE Walks(n) == {g \in [0..n -> S] : g[0] = t /\ \A i \in 0..n : i # 0 => g[i] = D[g[i - 1]]}
<1>1. \A n \in Nat : Walks(n) # {}
  <2> DEFINE T == {n \in Nat : Walks(n) = {}}
  <2> SUFFICES ASSUME T # {} PROVE FALSE
    OBVIOUS
  <2>1. PICK m \in T : \A y \in T : m <= y
    <3>1. T \subseteq Nat
      OBVIOUS
    <3> HIDE DEF T
    <3> QED
      BY <3>1, Least
  <2>2. m # 0
    <3> DEFINE g == [i \in 0..0 |-> t]
    <3>1. g \in Walks(0)
      OBVIOUS
    <3> QED
      BY <2>1, <3>1
  <2>3. m - 1 \in Nat /\ m \in Nat /\ Walks(m - 1) # {}
    <3>1. m \in Nat /\ m - 1 \in Nat /\ ~(m <= m - 1)
      BY <2>2
    <3> QED
      BY <2>1, <3>1
  <2>4. PICK g \in Walks(m - 1) : TRUE
    BY <2>3
  <2> DEFINE h == [i \in 0..m |-> IF i = m THEN D[g[m - 1]] ELSE g[i]]
  <2>5. h \in Walks(m)
    <3>1. g \in [0..m - 1 -> S] /\ g[0] = t /\ \A i \in 0..m - 1 : i # 0 => g[i] = D[g[i - 1]]
      BY <2>4
    <3>2. g[m - 1] \in S /\ D[g[m - 1]] \in S
      BY <2>3, <3>1
    <3>3. \A i \in 0..m : i # m => i \in 0..m - 1
      BY <2>3
    <3>4. h \in [0..m -> S]
      BY <3>1, <3>2, <3>3
    <3>5. h[0] = t
      BY <2>2, <2>3, <3>1
    <3>6. ASSUME NEW i \in 0..m, i # 0 PROVE h[i] = D[h[i - 1]]
      <4>1. i - 1 \in 0..m - 1 /\ i - 1 \in 0..m /\ i - 1 # m
        BY <2>3, <3>6
      <4>2. h[i - 1] = g[i - 1]
        BY <4>1
      <4>3. CASE i = m
        BY <4>2, <4>3
      <4>4. CASE i # m
        BY <3>1, <3>3, <3>6, <4>2, <4>4
      <4> QED
        BY <4>3, <4>4
    <3> HIDE DEF h
    <3> QED
      BY <3>4, <3>5, <3>6
  <2> QED
    BY <2>1, <2>5
<1>2. ASSUME NEW m \in Nat, NEW n \in Nat, NEW g \in Walks(m), NEW h \in Walks(n), NEW k \in Nat, k <= m, k <= n
      PROVE  g[k] = h[k]
  <2> DEFINE T == {i \in Nat : i <= m /\ i <= n /\ g[i] # h[i]}
  <2> SUFFICES ASSUME T # {} PROVE FALSE
    BY <1>2
  <2>1. PICK i \in T : \A y \in T : i <= y
    <3>1. T \subseteq Nat
      OBVIOUS
    <3> HIDE DEF T
    <3> QED
      BY <3>1, Least
  <2>2. i \in Nat /\ i <= m /\ i <= n /\ g[i] # h[i] /\ i # 0
    BY <2>1
  <2>3. i - 1 \in Nat /\ i - 1 <= m /\ i - 1 <= n /\ ~(i <= i - 1) /\ i \in 0..m /\ i \in 0..n
    BY <2>2
  <2>4. g[i - 1] = h[i - 1]
    BY <2>1, <2>3
  <2> QED
    BY <2>2, <2>3, <2>4
<1> DEFINE pick(n) == CHOOSE g \in Walks(n) : TRUE
           f == [n \in Nat |-> pick(n)[n]]
<1>3. \A n \in Nat : pick(n) \in Walks(n)
  BY <1>1
<1> HIDE DEF pick
<1>4. f \in [Nat -> S]
  <2>1. ASSUME NEW n \in Nat PROVE pick(n)[n] \in S
    <3>1. pick(n) \in [0..n -> S] /\ n \in 0..n
      BY <1>3
    <3> QED
      BY <3>1
  <2> QED
    BY <2>1
<1>5. ASSUME NEW n \in Nat PROVE f[n] = IF n = 0 THEN t ELSE D[f[n - 1]]
  <2>1. CASE n = 0
    BY <1>3, <2>1
  <2>2. CASE n # 0
    <3>1. n - 1 \in Nat /\ n - 1 <= n /\ n - 1 <= n - 1 /\ n \in 0..n
      BY <2>2
    <3>2. pick(n)[n - 1] = pick(n - 1)[n - 1]
      BY <1>2, <1>3, <3>1
    <3>3. pick(n)[n] = D[pick(n)[n - 1]]
      BY <1>3, <2>2, <3>1
    <3> QED
      BY <2>2, <3>1, <3>2, <3>3
  <2> QED
    BY <2>1, <2>2
<1> HIDE DEF f
<1> QED
  BY <1>4, <1>5

\* The walk of a wake turn ends in the turn that started a task of the session.
LEMMA Wake_Root ==
  ASSUME NEW E, Written(E), NEW t, WakeParent(E, t) # NoTurn
  PROVE  /\ ~isBackgroundWakeTurnID(WakeParent(E, t))
         /\ \E e \in E : e.turn[1] = "wake" /\ WakeParent(E, t) = TaskTurn(E, e.turn[2])
<1> DEFINE S == {NoTurn} \cup {e.turn : e \in E}
           up[n \in Nat] == IF n = 0 THEN t ELSE DirectParent(E, up[n - 1])
           D == [s \in S |-> DirectParent(E, s)]
           last == Cardinality(TasksOf(E)) + 1
           root == WakeParent(E, t)
<1>1. t \in WakeTurns(E) /\ ~isBackgroundWakeTurnID(root) /\ root = up[last]
  BY DEF WakeParent
<1>2. t \in S /\ isBackgroundWakeTurnID(t)
  <2>1. PICK e \in E : e.turn = t /\ e.type = "submitted" /\ e.task # 0
    BY <1>1 DEF WakeTurns, WakeSubmits
  <2> QED
    BY <2>1 DEF Written, isBackgroundWakeTurnID
<1>3. D \in [S -> S]
  <2> SUFFICES ASSUME NEW s \in S PROVE DirectParent(E, s) \in S
    OBVIOUS
  <2>1. TaskTurn(E, s[2]) \in S
    <3>1. CASE TaskEvents(E, s[2]) = {}
      BY <3>1 DEF TaskTurn
    <3>2. CASE TaskEvents(E, s[2]) # {}
      <4>1. TaskEvents(E, s[2]) \subseteq E
        BY DEF TaskEvents
      <4>2. Last(TaskEvents(E, s[2])) \in E
        BY <3>2, <4>1, Ends
      <4> QED
        BY <3>2, <4>2 DEF TaskTurn
    <3> QED
      BY <3>1, <3>2
  <2> QED
    BY <2>1 DEF DirectParent
<1>4. \E f : f = [n \in Nat |-> IF n = 0 THEN t ELSE DirectParent(E, f[n - 1])]
  <2> HIDE DEF D, S
  <2>1. PICK f \in [Nat -> S] : \A n \in Nat : f[n] = IF n = 0 THEN t ELSE D[f[n - 1]]
    <3>1. t \in S /\ D \in [S -> S]
      BY <1>2, <1>3
    <3> QED
      BY <3>1, Iterates
  <2>2. \A n \in Nat : n # 0 => D[f[n - 1]] = DirectParent(E, f[n - 1])
    <3> SUFFICES ASSUME NEW n \in Nat, n # 0 PROVE D[f[n - 1]] = DirectParent(E, f[n - 1])
      OBVIOUS
    <3>1. n - 1 \in Nat
      OBVIOUS
    <3>2. f[n - 1] \in S
      BY <2>1, <3>1
    <3> QED
      BY <3>2 DEF D
  <2>3. f = [n \in Nat |-> IF n = 0 THEN t ELSE DirectParent(E, f[n - 1])]
    BY <2>1, <2>2
  <2> QED
    BY <2>3
<1>5. up = [n \in Nat |-> IF n = 0 THEN t ELSE DirectParent(E, up[n - 1])]
  BY <1>4 DEF up
<1> HIDE DEF up
<1>6. up[0] = t /\ \A n \in Nat : n # 0 => up[n] = DirectParent(E, up[n - 1])
  <2>1. \A n \in Nat : up[n] = IF n = 0 THEN t ELSE DirectParent(E, up[n - 1])
    BY <1>5
  <2> QED
    BY <2>1
<1>7. \A s \in S : DirectParent(E, s) \in S
  <2>1. \A s \in S : D[s] = DirectParent(E, s)
    OBVIOUS
  <2> HIDE DEF D, S
  <2> QED
    BY <1>3, <2>1
<1> HIDE DEF S, D, root
<1>8. \A n \in Nat : up[n] \in S
  <2> DEFINE T == {n \in Nat : up[n] \notin S}
  <2> SUFFICES ASSUME T # {} PROVE FALSE
    OBVIOUS
  <2>1. PICK m \in T : \A y \in T : m <= y
    <3>1. T \subseteq Nat
      OBVIOUS
    <3> HIDE DEF T
    <3> QED
      BY <3>1, Least
  <2>2. m \in Nat /\ m # 0 /\ up[m] \notin S
    BY <1>2, <1>6, <2>1
  <2>3. m - 1 \in Nat /\ ~(m <= m - 1)
    BY <2>2
  <2>4. up[m - 1] \in S
    BY <2>1, <2>3
  <2> QED
    BY <1>6, <1>7, <2>2, <2>4
<1>9. \E n \in Nat : isBackgroundWakeTurnID(up[n]) /\ root = TaskTurn(E, up[n][2])
  <2> DEFINE T == {n \in Nat : up[n] = root}
  <2>1. last \in Nat
    <3>1. IsFiniteSet(TasksOf(E))
      <4> DEFINE A == {f \in E : f.type \in {"taskStart", "taskExit"}}
                 g == [e \in A |-> e.task]
      <4>1. IsFiniteSet(A)
        <5>1. A \subseteq E /\ IsFiniteSet(E)
          BY DEF Written
        <5> QED
          BY <5>1, FS_Subset
      <4>2. g \in [A -> TasksOf(E)] /\ \A k \in TasksOf(E) : \E e \in A : g[e] = k
        BY DEF TasksOf
      <4> HIDE DEF g, A
      <4>3. g \in Surjection(A, TasksOf(E))
        BY <4>2, Fun_IsSurj
      <4> QED
        BY <4>1, <4>3, FS_Surjection DEF ExistsSurjection
    <3>2. Cardinality(TasksOf(E)) \in Nat
      BY <3>1, FS_CardinalityType
    <3> QED
      BY <3>2
  <2>2. T # {} /\ T \subseteq Nat
    BY <1>1, <2>1
  <2>3. PICK m \in T : \A y \in T : m <= y
    <3> HIDE DEF T
    <3> QED
      BY <2>2, Least
  <2>4. m \in Nat /\ m # 0 /\ up[m] = root
    BY <1>1, <1>2, <1>6, <2>3
  <2>5. m - 1 \in Nat /\ ~(m <= m - 1)
    BY <2>4
  <2>6. up[m - 1] # root
    BY <2>3, <2>5
  <2>7. root = DirectParent(E, up[m - 1])
    BY <1>6, <2>4
  <2>8. isBackgroundWakeTurnID(up[m - 1]) /\ root = TaskTurn(E, up[m - 1][2])
    BY <2>6, <2>7 DEF DirectParent
  <2> QED
    BY <2>5, <2>8
<1>10. PICK n \in Nat : isBackgroundWakeTurnID(up[n]) /\ root = TaskTurn(E, up[n][2])
  BY <1>9
<1>11. up[n] # NoTurn
  BY <1>10, Turn_Ids DEF isBackgroundWakeTurnID
<1>12. PICK e \in E : up[n] = e.turn
  BY <1>8, <1>11 DEF S
<1>13. e.turn[1] = "wake" /\ root = TaskTurn(E, e.turn[2])
  BY <1>10, <1>12 DEF isBackgroundWakeTurnID
<1> QED
  BY <1>1, <1>13 DEF root

\* The shell of a turn that shows one holds what its bodies and those of its
\* wake turns hold.
LEMMA Shell_Shows ==
  ASSUME NEW E, NEW b \in WithShell(E, Bodies(E, Flat(E))),
         NEW c \in BodiesOf(E, Bodies(E, Flat(E)), b.turn), NEW x \in c.entries
  PROVE  x.id \in Shown(Rows(E))
<1> DEFINE F == Flat(E)
           B == Bodies(E, F)
           r == ShellRow(E, F, B, b)
<1>1. r \in Rows(E)
  BY DEF Rows
<1>2. x \in MergedEntries(E, B, b.turn)
  BY DEF MergedEntries
<1>3. r.body = {y.id : y \in MergedEntries(E, B, b.turn)}
  BY DEF ShellRow
<1> HIDE DEF r, B, F
<1>4. x.id \in r.body
  BY <1>2, <1>3
<1> QED
  BY <1>1, <1>4 DEF Shown

\* A closed turn takes its entries into a body, but for cards, messages,
\* chips, its last reply and its own terminal.
LEMMA Closed_Body ==
  ASSUME NEW E, NEW t \in TurnsOf(E), Closed(E, t), NEW x \in Flat(E), x.turn = t,
         x.kind \in {"status", "askTool", "task"}
  PROVE  \E b \in Bodies(E, Flat(E)) : b.turn = t /\ x \in b.compacted /\ Compacts(b)
<1> DEFINE F == Flat(E)
           b == FinishTerminal(E, F, t)
<1>1. x \in EntriesOf(F, t) /\ x.kind \notin Hidden /\ x.kind # "terminal" /\ x.kind # "reply" /\ x.kind # "card"
  BY DEF EntriesOf, Hidden
<1>2. b.turn = t /\ x \in b.entries /\ x \in b.compacted
  <2> HIDE DEF F
  <2> QED
    BY <1>1 DEF FinishTerminal, Body
<1>3. b \in Bodies(E, F)
  <2> HIDE DEF b, F
  <2>1. b.entries # {}
    BY <1>2
  <2> QED
    BY <2>1 DEF Bodies, b
<1> HIDE DEF b
<1> QED
  BY <1>2, <1>3 DEF Compacts

\* What a body took out of the transcript is in a shell that is a row: that of
\* the turn, or for a wake turn that of the turn that started its task.
LEMMA Compacted_Shown ==
  ASSUME LedgerInv, Shape, NEW b \in Bodies(ledger, Flat(ledger)), Compacts(b), NEW x \in b.compacted
  PROVE  x.id \in Shown(Rows(ledger))
<1> DEFINE F == Flat(ledger)
           B == Bodies(ledger, F)
           p == WakeParent(ledger, b.turn)
<1>1. Written(ledger) /\ Part(ledger, ledger)
  BY Written_Ledger, Parts
<1>2. x \in b.entries
  BY <1>1, Body_Kinds
<1>3. CASE p = NoTurn
  <2>1. b \in WithShell(ledger, B) /\ b \in BodiesOf(ledger, B, b.turn)
    BY <1>3 DEF WithShell, BodiesOf
  <2> QED
    BY <1>2, <2>1, Shell_Shows
<1>4. CASE p # NoTurn
  <2>1. PICK e \in ledger : e.turn[1] = "wake" /\ p = TaskTurn(ledger, e.turn[2])
    BY <1>1, <1>4, Wake_Root
  <2>2. PICK f \in ledger : IsTask(f) /\ f.task = e.turn[2] /\ Closed(ledger, f.turn)
    BY <2>1 DEF Shape, WakesContinue
  <2> DEFINE k == e.turn[2]
             y == Entry("task", k, p, OrderKey(First(TaskEvents(ledger, k))))
  <2>3. k \in TasksOf(ledger)
    BY <2>2 DEF IsTask, TasksOf
  <2>4. Closed(ledger, p) /\ p \in TurnsOf(ledger)
    <3>1. PICK g \in ledger : IsTask(g) /\ g.task = k /\ g.turn = TaskTurn(ledger, k)
      BY <2>3, Task_Known
    <3>2. g.turn = f.turn
      BY <2>2, <3>1 DEF Shape, TasksStay
    <3> QED
      BY <2>1, <2>2, <2>3, <3>1, <3>2, Task_Known
  <2>5. y \in F /\ y.turn = p /\ y.kind = "task"
    BY <2>1, <2>3 DEF Flat, TaskEntries, Entry
  <2>6. PICK c \in B : c.turn = p /\ Compacts(c)
    <3> HIDE DEF y, p
    <3> QED
      BY <2>4, <2>5, Closed_Body
  <2>7. WakeParent(ledger, p) = NoTurn
    <3>1. p[1] # "wake"
      BY <1>1, <1>4, Wake_Root DEF isBackgroundWakeTurnID
    <3>2. p \notin WakeTurns(ledger)
      BY <3>1 DEF WakeTurns, WakeSubmits, Shape, WakesSubmitted
    <3> HIDE DEF p
    <3> QED
      BY <3>2 DEF WakeParent
  <2>8. c \in WithShell(ledger, B) /\ b \in BodiesOf(ledger, B, c.turn)
    BY <2>6, <2>7 DEF WithShell, BodiesOf
  <2> QED
    BY <1>2, <2>8, Shell_Shows
<1> QED
  BY <1>3, <1>4

\* Entries that are taken out and are no chips are in a body.
LEMMA Compacted_By ==
  ASSUME NEW F, NEW B, NEW x \in Compacted(F, B), x.kind # "progress"
  PROVE  \E b \in B : Compacts(b) /\ x \in b.compacted
<1> DEFINE sets == {b.compacted : b \in {c \in B : Compacts(c)}}
<1>1. x \in UNION sets \/ x \in IF B = {} THEN {} ELSE {y \in F : y.kind = "progress"}
  BY DEF Compacted
<1>2. x \in UNION sets
  BY <1>1
<1>3. PICK s \in sets : x \in s
  BY <1>2
<1> QED
  BY <1>3

\* Every entry of content is a row or in the body of a row.
LEMMA Content_Shown ==
  ASSUME LedgerInv, Shape
  PROVE  {x.id : x \in Content(ledger)} \subseteq Shown(Rows(ledger))
<1> DEFINE F == Flat(ledger)
           B == Bodies(ledger, F)
<1> SUFFICES ASSUME NEW x \in Content(ledger) PROVE x.id \in Shown(Rows(ledger))
  OBVIOUS
<1>1. /\ x \in F /\ x.kind \notin {"progress", "card"}
      /\ x.kind \in {"status", "askTool"} => Closed(ledger, x.turn)
  BY DEF Content
<1>2. CASE x \in Compacted(F, B)
  <2>1. PICK b \in B : Compacts(b) /\ x \in b.compacted
    BY <1>1, <1>2, Compacted_By
  <2> QED
    BY <2>1, Compacted_Shown
<1>3. CASE x \notin Compacted(F, B) /\ x.kind \notin {"status", "askTool"}
  <2>1. EntryRow(ledger, x) \in Rows(ledger)
    BY <1>1, <1>3 DEF Rows
  <2>2. EntryRow(ledger, x).id = x.id
    BY DEF EntryRow
  <2> HIDE DEF F, B
  <2> QED
    BY <2>1, <2>2 DEF Shown
<1>4. CASE x \notin Compacted(F, B) /\ x.kind \in {"status", "askTool"}
  <2>1. Closed(ledger, x.turn)
    BY <1>1, <1>4
  <2>2. x.turn \in TurnsOf(ledger)
    BY <2>1 DEF Closed, Terminals, TerminalTypes, TurnsOf, Shape, NoticesApart
  <2>3. PICK b \in B : x \in b.compacted /\ Compacts(b)
    BY <1>1, <1>4, <2>1, <2>2, Closed_Body
  <2>4. x \in Compacted(F, B)
    <3> HIDE DEF F, B
    <3> QED
      BY <2>3 DEF Compacted
  <2> QED
    BY <1>4, <2>4
<1> QED
  BY <1>2, <1>3, <1>4

\* TranscriptWhole: every entry is a row or in the body of a shell that is a
\* row, no finished turn is shown as active, no shell is above its message
\* (transcript_projection.go, transcript_turn_shell_fold.go).
THEOREM Views_Whole == Spec => []TranscriptWhole
<1>1. RowsInv => TranscriptWhole
  BY Rows_Safe, Content_Shown DEF RowsInv, TranscriptWhole, NothingLost
<1> QED
  BY <1>1, Rows_Inv, PTL DEF Spec

\* ViewsSafe: the transcript is whole (transcript_projection.go), a cached page
\* is the page of now (turn_activity_cache.go:145), the message count is
\* reached (chat_activity.go:263).
THEOREM Views_Safe == Spec => []ViewsSafe
<1> QED
  BY Views_Whole, Views_HitIsFresh, Views_CountSettles, PTL DEF ViewsSafe

-----------------------------------------------------------------------------
(* The unread mark.                                                            *)

\* Events with order keys of their own, as the ledger gives them.
Numbered(E) ==
  /\ IsFiniteSet(E)
  /\ \A e \in E : e.key \in 1..Cardinality(E)
  /\ \A e, f \in E : e.key = f.key => e = f

\* Events of a set that come before one of them.
Before(W, e) == {f \in W : f.key < e.key}

\* InOrder lists the events of a set, each after those with smaller keys.
LEMMA Ranked_In ==
  ASSUME NEW E, Numbered(E), NEW W, W \subseteq E, NEW i \in 1..Cardinality(W)
  PROVE  /\ InOrder(W)[i] \in W
         /\ Cardinality(Before(W, InOrder(W)[i])) = i - 1
         /\ i = Cardinality(W) => \A f \in W : f.key <= InOrder(W)[i].key
<1> DEFINE n == Cardinality(W)
           c(e) == Cardinality(Before(W, e))
<1>0. /\ IsFiniteSet(W) /\ Cardinality(E) \in Nat
      /\ \A e \in W : e.key \in Nat
      /\ \A e, f \in W : e.key = f.key => e = f
  BY FS_Subset, FS_CardinalityType DEF Numbered
<1>00. ASSUME NEW S, S \subseteq W, S # {} PROVE \E m \in S : \A f \in S : f.key <= m.key
  <2>1. S \subseteq E
    BY <1>00
  <2>2. Last(S) \in S /\ \A e \in S : e.key <= MaxKey(S)
    BY <1>00, <2>1, Greatest_Key DEF Numbered
  <2>3. MaxKey(S) = Last(S).key
    BY <1>00 DEF MaxKey
  <2> QED
    BY <2>2, <2>3
<1>1. n \in Nat /\ i \in Nat /\ i >= 1 /\ i <= n
  BY <1>0, FS_CardinalityType
<1>2. ASSUME NEW e \in W PROVE IsFiniteSet(Before(W, e)) /\ c(e) \in Nat
  BY <1>0, FS_Subset, FS_CardinalityType DEF Before
<1>3. \E e \in W : c(e) = i - 1
  <2> DEFINE T == {e \in W : c(e) >= i - 1}
  <2>1. T # {}
    <3> DEFINE K == {n - c(e) : e \in W}
    <3>1. ASSUME NEW e \in W PROVE c(e) <= n
      BY <1>0, FS_Subset DEF Before
    <3>2. \A e \in W : n - c(e) \in Nat
      BY <1>1, <1>2, <3>1
    <3>3. W # {}
      BY <1>0, <1>1, FS_EmptySet
    <3>4. \E m \in W : \A f \in W : f.key <= m.key
      BY <3>3, <1>00
    <3>5. PICK m \in W : \A f \in W : f.key <= m.key
      BY <3>4
    <3>6. Before(W, m) = W \ {m}
      BY <1>0, <3>5 DEF Before
    <3>7. c(m) = n - 1
      BY <1>0, <3>6, FS_RemoveElement
    <3> QED
      BY <1>1, <3>7
  <2> DEFINE K == {e.key : e \in T}
  <2>2. PICK x \in K : \A y \in K : x <= y
    <3>1. K \subseteq Nat /\ K # {}
      BY <1>0, <2>1
    <3> HIDE DEF K
    <3> QED
      BY <3>1, Least
  <2>3. PICK m \in T : x = m.key
    BY <2>2
  <2>4. m \in W /\ c(m) >= i - 1 /\ c(m) \in Nat
    BY <1>2, <2>3
  <2>5. ASSUME c(m) > i - 1 PROVE FALSE
    <3>1. Before(W, m) # {}
      BY <1>1, <2>4, <2>5, FS_EmptySet
    <3>2. Before(W, m) \subseteq W
      BY DEF Before
    <3>3. PICK p \in Before(W, m) : \A f \in Before(W, m) : f.key <= p.key
      BY <3>1, <3>2, <1>00
    <3>4. Before(W, p) = Before(W, m) \ {p}
      BY <1>0, <2>4, <3>3 DEF Before
    <3>5. c(p) = c(m) - 1
      BY <1>2, <2>4, <3>3, <3>4, FS_RemoveElement
    <3>6. p \in T /\ p.key < m.key
      BY <1>1, <2>4, <2>5, <3>3, <3>5 DEF Before
    <3>7. p.key \in K /\ p.key \in Nat /\ m.key \in Nat
      BY <1>0, <2>4, <3>6
    <3>8. x <= p.key
      BY <2>2, <3>7
    <3> HIDE DEF T, K
    <3> QED
      BY <2>3, <3>6, <3>7, <3>8
  <2> QED
    BY <1>1, <2>4, <2>5
<1> DEFINE e == InOrder(W)[i]
<1>4. e \in W /\ c(e) = i - 1
  BY <1>3 DEF InOrder, Before
<1> HIDE DEF e
<1>5. ASSUME i = n, NEW f \in W, f.key > e.key PROVE FALSE
  <2>1. Before(W, e) \subseteq (W \ {f}) \ {e}
    BY <1>0, <1>4, <1>5 DEF Before
  <2>2. e \in W \ {f}
    <3>1. e.key \in Nat /\ e \in W
      BY <1>0, <1>4
    <3>2. e # f
      BY <1>5, <3>1
    <3> QED
      BY <3>1, <3>2
  <2>3. IsFiniteSet(W \ {f}) /\ Cardinality(W \ {f}) = n - 1
    BY <1>0, FS_RemoveElement
  <2>4. IsFiniteSet((W \ {f}) \ {e}) /\ Cardinality((W \ {f}) \ {e}) = n - 1 - 1
    BY <2>2, <2>3, FS_RemoveElement
  <2>5. c(e) <= n - 1 - 1
    BY <2>1, <2>4, FS_Subset
  <2> QED
    BY <1>1, <1>4, <1>5, <2>5
<1>6. ASSUME i = n, NEW f \in W PROVE f.key <= e.key
  BY <1>0, <1>4, <1>5, <1>6
<1> QED
  BY <1>4, <1>6 DEF e

\* The fold of a summary over the events of a set, from the least key on.
EndedBefore(E, e) == {f.turn : f \in {g \in E : g.type \in TurnTerminals /\ g.key < e.key}}
FoldIn(s, E, i) == Fold(s, InOrder(E)[i], EndedBefore(E, InOrder(E)[i]))
Deriving(prior, E, n, it) ==
  it = [s \in SUBSET (1..n) |->
          IF s = {} THEN prior ELSE FoldIn(it[s \ {Lists!Max(s)}], E, Lists!Max(s))]

\* The greatest of some numbers up to n, when n is one of them.
LEMMA Top_Is_Max ==
  ASSUME NEW n \in Nat, NEW s, s \subseteq 1..n, n \in s
  PROVE  Lists!Max(s) = n /\ s \ {n} \subseteq 1..n - 1
<1>1. \A x \in s : n >= x /\ x \in Nat
  OBVIOUS
<1>2. \A x \in s : (\A y \in s : x >= y) => x = n
  <2>1. ASSUME NEW x \in s, \A y \in s : x >= y PROVE x = n
    <3>1. x >= n /\ n >= x /\ x \in Nat
      BY <1>1, <2>1
    <3> QED
      BY <3>1
  <2> QED
    BY <2>1
<1>3. Lists!Max(s) = n
  BY <1>1, <1>2 DEF Lists!Max
<1>4. s \ {n} \subseteq 1..n - 1
  OBVIOUS
<1> QED
  BY <1>3, <1>4

\* There is such a fold, by the least number for which there is none.
LEMMA Derive_Exists ==
  ASSUME NEW prior, NEW E, NEW n \in Nat
  PROVE  \E it : Deriving(prior, E, n, it)
<1> DEFINE T == {m \in Nat : ~ \E it : Deriving(prior, E, m, it)}
<1> SUFFICES ASSUME T # {} PROVE FALSE
  OBVIOUS
<1>1. PICK m \in T : \A y \in T : m <= y
  <2>1. T \subseteq Nat
    OBVIOUS
  <2> HIDE DEF T
  <2> QED
    BY <2>1, Least
<1>2. m # 0
  <2> DEFINE g == [s \in SUBSET (1..0) |-> prior]
  <2>1. \A s \in SUBSET (1..0) : s = {}
    OBVIOUS
  <2>2. Deriving(prior, E, 0, g)
    BY <2>1 DEF Deriving
  <2> QED
    BY <1>1, <2>2
<1>3. m \in Nat /\ m - 1 \in Nat /\ ~(m <= m - 1)
  BY <1>1, <1>2
<1>4. m - 1 \notin T
  BY <1>1, <1>3
<1>5. PICK g : Deriving(prior, E, m - 1, g)
  BY <1>3, <1>4
<1> DEFINE h == [s \in SUBSET (1..m) |-> IF m \in s THEN FoldIn(g[s \ {m}], E, m) ELSE g[s]]
<1>6. \A s \in SUBSET (1..m) : m \notin s => s \in SUBSET (1..m - 1)
  BY <1>3
<1>7. \A s \in SUBSET (1..m - 1) : s \in SUBSET (1..m) /\ m \notin s
  BY <1>3
<1>8. \A s \in SUBSET (1..m - 1) : h[s] = g[s]
  BY <1>7
<1>9. ASSUME NEW s \in SUBSET (1..m), s # {}
      PROVE  h[s] = FoldIn(h[s \ {Lists!Max(s)}], E, Lists!Max(s))
  <2>1. CASE m \in s
    <3>1. Lists!Max(s) = m /\ s \ {m} \in SUBSET (1..m - 1)
      BY <1>3, <2>1, Top_Is_Max
    <3>2. h[s \ {m}] = g[s \ {m}]
      BY <1>8, <3>1
    <3>3. h[s] = FoldIn(g[s \ {m}], E, m)
      BY <2>1
    <3> QED
      BY <3>1, <3>2, <3>3
  <2>2. CASE m \notin s
    <3>1. s \in SUBSET (1..m - 1) /\ s \ {Lists!Max(s)} \in SUBSET (1..m - 1)
      BY <1>6, <2>2
    <3>2. g[s] = FoldIn(g[s \ {Lists!Max(s)}], E, Lists!Max(s))
      BY <1>5, <1>9, <3>1 DEF Deriving
    <3> QED
      BY <1>8, <3>1, <3>2
  <2> QED
    BY <2>1, <2>2
<1>10. h[{}] = prior
  <2>1. {} \in SUBSET (1..m - 1)
    OBVIOUS
  <2>2. g[{}] = prior
    BY <1>5, <2>1 DEF Deriving
  <2> QED
    BY <1>8, <2>1, <2>2
<1>11. h = [s \in SUBSET (1..m) |-> h[s]]
  OBVIOUS
<1> HIDE DEF h
<1>12. Deriving(prior, E, m, h)
  BY <1>9, <1>10, <1>11 DEF Deriving
<1> QED
  BY <1>1, <1>12

\* Derive is the fold over all events of the set.
LEMMA Derive_Unfolds ==
  ASSUME NEW prior, NEW E, NEW n \in Nat, DOMAIN InOrder(E) = 1..n
  PROVE  \E it : Deriving(prior, E, n, it) /\ Derive(prior, E) = it[1..n]
<1> DEFINE good == CHOOSE it : Deriving(prior, E, n, it)
<1>1. Deriving(prior, E, n, good)
  BY Derive_Exists
<1>2. Derive(prior, E) = good[1..n]
  BY Zenon DEF Derive, Lists!FoldLeft, Lists!MapThenFoldSet, Deriving, FoldIn, EndedBefore
<1> QED
  BY <1>1, <1>2

\* The fields of a summary that are read below.
Filled(s) == {"key", "unread", "status", "active"} \subseteq DOMAIN s

\* One event leaves its key.
LEMMA Fold_Key ==
  ASSUME NEW s, Filled(s), NEW e, e.type \in LifecycleTypes, NEW done
  PROVE  Filled(Fold(s, e, done)) /\ Fold(s, e, done).key = e.key
<1> DEFINE t == [s EXCEPT !.key = e.key]
<1>1. Filled(t) /\ t.key = e.key
  BY DEF Filled
<1> HIDE DEF t
<1>2. \A a, b : LET u == [t EXCEPT !.status = a, !.active = b] IN Filled(u) /\ u.key = e.key
  BY <1>1 DEF Filled
<1>3. \A a : LET u == [t EXCEPT !.status = a] IN Filled(u) /\ u.key = e.key
  BY <1>1 DEF Filled
<1>4. e.type \in DOMAIN Boundary \/ e.type \in DOMAIN Outcome \/ e.type = "awaiting" \/ e.type = "interruptReq"
  BY DEF LifecycleTypes, Boundary, Outcome
<1> QED
  BY <1>1, <1>2, <1>3, <1>4 DEF Fold, t

\* The summaries through which a fold goes, from the one it starts with.
Steps(prior, W, at) ==
  LET n == Cardinality(W)
  IN /\ n \in Nat /\ at[0] = prior /\ Derive(prior, W) = at[n]
     /\ \A k \in 1..n : at[k] = FoldIn(at[k - 1], W, k) /\ InOrder(W)[k] \in W
     /\ \A k \in 0..n : Filled(at[k])

\* A fold goes through one summary per event.
LEMMA Derive_Steps ==
  ASSUME NEW E, Numbered(E), NEW W, W \subseteq E, \A e \in W : e.type \in LifecycleTypes,
         NEW prior, Filled(prior)
  PROVE  \E at : Steps(prior, W, at)
<1> DEFINE n == Cardinality(W)
<1>1. n \in Nat /\ DOMAIN InOrder(W) = 1..n /\ IsFiniteSet(W)
  BY FS_Subset, FS_CardinalityType DEF Numbered, InOrder
<1> HIDE DEF n
<1>2. PICK it : Deriving(prior, W, n, it) /\ Derive(prior, W) = it[1..n]
  BY <1>1, Derive_Unfolds
<1> DEFINE at == [k \in 0..n |-> it[1..k]]
<1>3. at[0] = prior /\ at[n] = it[1..n]
  <2>1. {} \in SUBSET (1..n) /\ 1..0 = {}
    OBVIOUS
  <2>2. it[{}] = prior
    BY <1>2, <2>1 DEF Deriving
  <2>3. 0 \in 0..n /\ n \in 0..n
    BY <1>1
  <2> QED
    BY <2>1, <2>2, <2>3
<1>4. ASSUME NEW k \in 1..n PROVE at[k] = FoldIn(at[k - 1], W, k)
  <2>1. k \in Nat /\ 1..k \in SUBSET (1..n) /\ k \in 1..k /\ (1..k) \ {k} = 1..k - 1
    BY <1>1
  <2>2. Lists!Max(1..k) = k
    BY <2>1, Top_Is_Max
  <2>3. 1..k # {}
    BY <2>1
  <2>4. it[1..k] = FoldIn(it[1..k - 1], W, k)
    BY <1>2, <2>1, <2>2, <2>3 DEF Deriving
  <2>5. k \in 0..n /\ k - 1 \in 0..n
    BY <1>1
  <2> QED
    BY <2>4, <2>5
<1>5. ASSUME NEW k \in 1..n PROVE InOrder(W)[k] \in W
  BY <1>5, Ranked_In DEF n
<1> HIDE DEF at
<1>6. \A k \in 0..n : Filled(at[k])
  <2> DEFINE T == {k \in Nat : k <= n /\ ~Filled(at[k])}
  <2> SUFFICES ASSUME T # {} PROVE FALSE
    BY <1>1
  <2>1. PICK k \in T : \A y \in T : k <= y
    <3>1. T \subseteq Nat
      OBVIOUS
    <3> HIDE DEF T
    <3> QED
      BY <3>1, Least
  <2>2. k # 0
    BY <1>3, <2>1
  <2>3. k \in 1..n /\ k - 1 \in Nat /\ k - 1 <= n /\ ~(k <= k - 1)
    BY <1>1, <2>1, <2>2
  <2>4. Filled(at[k - 1])
    BY <2>1, <2>3
  <2>5. Filled(FoldIn(at[k - 1], W, k))
    BY <1>5, <2>3, <2>4, Fold_Key DEF FoldIn
  <2> QED
    BY <1>4, <2>1, <2>3, <2>5
<1>7. Derive(prior, W) = at[n]
  BY <1>2, <1>3
<1>8. Steps(prior, W, at)
  BY <1>1, <1>3, <1>4, <1>5, <1>6, <1>7 DEF Steps, n
<1> QED
  BY <1>8

\* A fold leaves the greatest key.
LEMMA Derive_Key ==
  ASSUME NEW E, Numbered(E), NEW W, W \subseteq E, \A e \in W : e.type \in LifecycleTypes,
         NEW prior, Filled(prior)
  PROVE  /\ Filled(Derive(prior, W))
         /\ Derive(prior, W).key = IF W = {} THEN prior.key ELSE MaxKey(W)
<1> DEFINE n == Cardinality(W)
<1>1. PICK at : Steps(prior, W, at)
  BY Derive_Steps
<1>2. /\ n \in Nat /\ at[0] = prior /\ Derive(prior, W) = at[n]
      /\ \A k \in 1..n : at[k] = FoldIn(at[k - 1], W, k) /\ InOrder(W)[k] \in W
      /\ \A k \in 0..n : Filled(at[k])
  BY <1>1 DEF Steps
<1>3. W = {} <=> n = 0
  BY FS_Subset, FS_EmptySet DEF Numbered
<1> HIDE DEF n
<1>4. CASE W = {}
  BY <1>2, <1>3, <1>4
<1>5. CASE W # {}
  <2>1. n \in 1..n /\ n - 1 \in 0..n /\ n \in 0..n
    BY <1>2, <1>3, <1>5
  <2> DEFINE e == InOrder(W)[n]
  <2>2. e \in W /\ \A f \in W : f.key <= e.key
    BY <2>1, Ranked_In DEF n
  <2>3. Derive(prior, W).key = e.key /\ Filled(Derive(prior, W))
    BY <1>2, <2>1, <2>2, Fold_Key DEF FoldIn
  <2>4. Last(W) \in W /\ e.key <= MaxKey(W) /\ MaxKey(W) = Last(W).key
    BY <1>5, <2>2, Greatest_Key DEF Numbered, MaxKey
  <2> HIDE DEF e
  <2>5. Last(W).key <= e.key
    BY <2>2, <2>4
  <2>6. e.key \in Nat /\ Last(W).key \in Nat
    BY <2>2, <2>4, FS_CardinalityType DEF Numbered
  <2> QED
    BY <1>5, <2>3, <2>4, <2>5, <2>6
<1> QED
  BY <1>4, <1>5

\* The set of events up to which an event comes before or at the last of the life cycle.
Top(E) == MaxKey(Lifecycle(E))

\* A refresh stamps its summary with the key of the last event of the life cycle
\* and counts what is unread.
LEMMA Refreshed_Key ==
  ASSUME NEW E, Numbered(E), NEW prior, Filled(prior), NEW k
  PROVE  LET s == Refreshed(prior, E, k)
         IN /\ Filled(s) /\ s.unread = UnreadOutputCount(E, k)
            /\ s.key = IF Lifecycle(E) = {} THEN prior.key ELSE Top(E)
<1> DEFINE W == LatestLifecycleEvents(E)
           d == Derive(prior, W)
           r == ResolveStopping(E, d)
           o == ScheduledOverride(E, r)
<1>1. W \subseteq Lifecycle(E) /\ Lifecycle(E) \subseteq E /\ \A e \in W : e.type \in LifecycleTypes
  BY DEF LatestLifecycleEvents, Lifecycle
<1>2. Lifecycle(E) = {} => W = {}
  BY <1>1
<1>3. Lifecycle(E) # {} => W # {} /\ MaxKey(W) = Top(E)
  <2> SUFFICES ASSUME Lifecycle(E) # {} PROVE W # {} /\ MaxKey(W) = Top(E)
    OBVIOUS
  <2> DEFINE l == Last(Lifecycle(E))
  <2>1. l \in Lifecycle(E) /\ Top(E) = l.key /\ \A e \in Lifecycle(E) : e.key <= Top(E)
    BY <1>1, Greatest_Key DEF Numbered, Top, MaxKey
  <2>2. \A e \in E : e.key \in Nat
    BY FS_CardinalityType DEF Numbered
  <2> HIDE DEF l
  <2>3. {f \in Lifecycle(E) : f.key > l.key} = {}
    BY <1>1, <2>1, <2>2
  <2>4. l \in W
    <3>1. Cardinality({f \in Lifecycle(E) : f.key > l.key}) < Window
      BY <2>3, FS_EmptySet, ActivityAssumption
    <3> QED
      BY <2>1, <3>1, Zenon DEF LatestLifecycleEvents, W
  <2>5. Last(W) \in W /\ MaxKey(W) = Last(W).key /\ l.key <= MaxKey(W)
    BY <1>1, <2>4, Greatest_Key DEF Numbered, MaxKey
  <2>6. MaxKey(W) <= Top(E) /\ MaxKey(W) \in Nat /\ Top(E) \in Nat
    BY <1>1, <2>1, <2>2, <2>5
  <2> QED
    BY <2>1, <2>4, <2>5, <2>6
<1> HIDE DEF W
<1>4. Filled(d) /\ d.key = IF Lifecycle(E) = {} THEN prior.key ELSE Top(E)
  BY <1>1, <1>2, <1>3, Derive_Key
<1> HIDE DEF d
<1>5. Filled(r) /\ r.key = d.key
  BY <1>4 DEF ResolveStopping, Filled
<1> HIDE DEF r
<1>6. Filled(o) /\ o.key = r.key
  BY <1>5 DEF ScheduledOverride, Filled
<1> HIDE DEF o
<1>7. Refreshed(prior, E, k) = [o EXCEPT !.unread = UnreadOutputCount(E, k)]
  BY Zenon DEF Refreshed, o, r, d, W
<1>8. \A n : LET s == [o EXCEPT !.unread = n] IN Filled(s) /\ s.unread = n /\ s.key = o.key
  BY <1>6 DEF Filled
<1> QED
  BY <1>4, <1>5, <1>6, <1>7, <1>8

\* Less is unread of fewer events, and after a later mark.
LEMMA Unread_Less ==
  ASSUME NEW E, IsFiniteSet(E), \A e \in E : e.key \in Nat, NEW D, D \subseteq E,
         NEW k \in Nat, NEW l \in Nat, k <= l
  PROVE  /\ UnreadOutputCount(E, k) \in Nat /\ UnreadOutputCount(D, l) \in Nat
         /\ UnreadOutputCount(D, l) <= UnreadOutputCount(E, k)
<1> DEFINE R(F, m) == {e \in Of(F, "reply") : e.key > m}
           G(F, m) == {f \in F : f.type \in TurnTerminals /\ f.key > m}
           T(F, m) == {e.turn : e \in G(F, m)}
<1>1. \A e \in D : e.key > l => e.key > k
  OBVIOUS
<1>2. R(D, l) \subseteq R(E, k) /\ R(E, k) \subseteq E
  BY <1>1 DEF Of
<1>3. G(D, l) \subseteq G(E, k) /\ G(E, k) \subseteq E
  BY <1>1
<1>4. T(D, l) \subseteq T(E, k)
  BY <1>3
<1>5. IsFiniteSet(G(E, k))
  BY <1>3, FS_Subset
<1>6. IsFiniteSet(T(E, k))
  <2> DEFINE g == G(E, k)
  <2> HIDE DEF g
  <2>1. IsFiniteSet(g) => IsFiniteSet({e.turn : e \in g})
    <3> DEFINE f == [e \in g |-> e.turn]
               t == {e.turn : e \in g}
    <3>1. f \in Surjection(g, t)
      BY Fun_IsSurj
    <3> HIDE DEF f, t
    <3>2. IsFiniteSet(g) => IsFiniteSet(t)
      BY <3>1, FS_Surjection
    <3> QED
      BY <3>2 DEF t
  <2> QED
    BY <1>5, <2>1 DEF g
<1>7. /\ Cardinality(R(D, l)) \in Nat /\ Cardinality(R(E, k)) \in Nat
      /\ Cardinality(R(D, l)) <= Cardinality(R(E, k))
  BY <1>2, FS_Subset, FS_CardinalityType
<1>8. /\ Cardinality(T(D, l)) \in Nat /\ Cardinality(T(E, k)) \in Nat
      /\ Cardinality(T(D, l)) <= Cardinality(T(E, k))
  BY <1>4, <1>6, FS_Subset, FS_CardinalityType
<1> DEFINE c(F, m) == Cardinality(R(F, m)) + Cardinality(T(F, m))
<1>9. \A F, m : UnreadOutputCount(F, m) = c(F, m)
  BY DEF UnreadOutputCount
<1> HIDE DEF R, T
<1> QED
  BY <1>7, <1>8, <1>9

\* A reply comes before an event of the life cycle, or its turn is still running.
RepliesEnd == \A e \in Of(ledger, "reply") : e.key <= Top(ledger) \/ Running(e.turn)
ReplyInv == Numbered(ledger) /\ RepliesEnd

\* A batch with an event of the life cycle has no reply; any other batch ends
\* nothing and asks nothing, and its replies are of a turn that runs.
Typed(a) == {"key", "type", "turn"} \subseteq DOMAIN a
TypedBatch(batch) == Len(batch) \in Nat /\ \A i \in 1..Len(batch) : Typed(batch[i])
Marks(batch) ==
  /\ \E i \in 1..Len(batch) : batch[i].type \in LifecycleTypes
  /\ \A i \in 1..Len(batch) : batch[i].type # "reply"
EndsNothing(batch) ==
  \A i \in 1..Len(batch) :
    /\ batch[i].type \notin TerminalTypes \cup {"question"}
    /\ batch[i].type = "reply" => Running(batch[i].turn)

\* Either batch keeps the order of replies.
LEMMA Publish_Replies ==
  ASSUME LedgerInv, ReplyInv, Appended, NEW batch, Publish(batch), TypedBatch(batch),
         Marks(batch) \/ EndsNothing(batch)
  PROVE  ReplyInv'
<1> DEFINE n == Cardinality(ledger)
           m == Len(batch)
           at(i) == [batch[i] EXCEPT !.key = n + i]
<1>1. /\ n \in Nat /\ m \in Nat /\ LedgerInv' /\ ledger \subseteq ledger'
      /\ \A e \in ledger : e.key \in Nat /\ e.key <= n
  BY DEF Appended, TypedBatch, LedgerInv
<1>2. ledger' = ledger \cup {at(i) : i \in 1..m}
  BY DEF Publish
<1>3. ASSUME NEW i \in 1..m
      PROVE  at(i).key = n + i /\ at(i).type = batch[i].type /\ at(i).turn = batch[i].turn
  BY DEF TypedBatch, Typed
<1>4. \A i, j \in 1..m : n + i > n /\ (n + i = n + j => i = j)
  BY <1>1
<1> HIDE DEF n, m, at
<1>5. ASSUME NEW e \in ledger', NEW f \in ledger', e.key = f.key PROVE e = f
  <2>1. CASE e \in ledger /\ f \in ledger
    BY <1>5, <2>1 DEF ReplyInv, Numbered
  <2>2. CASE e \notin ledger /\ f \notin ledger
    <3>1. PICK i \in 1..m, j \in 1..m : e = at(i) /\ f = at(j)
      BY <1>2, <2>2
    <3>2. i = j
      BY <1>3, <1>4, <1>5, <3>1
    <3> QED
      BY <3>1, <3>2
  <2>3. CASE e \in ledger /\ f \notin ledger
    <3>1. PICK i \in 1..m : f = at(i)
      BY <1>2, <2>3
    <3>2. e.key <= n /\ e.key \in Nat /\ e.key = n + i /\ n + i > n
      BY <1>1, <1>3, <1>4, <1>5, <2>3, <3>1
    <3> QED
      BY <1>1, <3>2
  <2>4. CASE f \in ledger /\ e \notin ledger
    <3>1. PICK i \in 1..m : e = at(i)
      BY <1>2, <2>4
    <3>2. f.key <= n /\ f.key \in Nat /\ f.key = n + i /\ n + i > n
      BY <1>1, <1>3, <1>4, <1>5, <2>4, <3>1
    <3> QED
      BY <1>1, <3>2
  <2> QED
    BY <2>1, <2>2, <2>3, <2>4
<1>6. Numbered(ledger')
  BY <1>1, <1>5 DEF LedgerInv, Numbered
<1>7. /\ \A e \in Lifecycle(ledger') : e.key <= Top(ledger')
      /\ Top(ledger') \in Nat /\ Top(ledger) \in Nat
      /\ Lifecycle(ledger) # {} => \E e \in Lifecycle(ledger') : Top(ledger) = e.key
      /\ Lifecycle(ledger) = {} => Top(ledger) = 0
  <2>1. Lifecycle(ledger) \subseteq ledger /\ Lifecycle(ledger') \subseteq ledger' /\ Lifecycle(ledger) \subseteq Lifecycle(ledger')
    BY <1>1 DEF Lifecycle
  <2>2. Numbered(ledger)
    BY DEF ReplyInv
  <2> QED
    BY <1>6, <2>1, <2>2, Greatest_Key DEF Numbered, Top, MaxKey
<1>8. Top(ledger) <= Top(ledger')
  BY <1>7
<1>9. \A e \in ledger' \ ledger : \E i \in 1..m : e.type = batch[i].type /\ e.turn = batch[i].turn
  BY <1>2, <1>3
<1>10. ASSUME NEW e \in Of(ledger', "reply") PROVE e.key <= Top(ledger') \/ Running(e.turn)'
  <2>1. CASE Marks(batch)
    <3>1. e \in ledger
      BY <1>9, <2>1 DEF Of, Marks, m
    <3>2. PICK i \in 1..m : batch[i].type \in LifecycleTypes
      BY <2>1 DEF Marks, m
    <3>3. at(i) \in Lifecycle(ledger') /\ at(i).key = n + i
      BY <1>2, <1>3, <3>2 DEF Lifecycle
    <3>4. n + i <= Top(ledger') /\ n + i > n
      BY <1>4, <1>7, <3>3
    <3> QED
      BY <1>1, <1>7, <3>1, <3>4
  <2>2. CASE EndsNothing(batch)
    <3>1. \A f \in ledger' \ ledger : f.type \notin TerminalTypes \cup {"question"}
      BY <1>9, <2>2 DEF EndsNothing, m
    <3>2. \A t : Running(t) => Running(t)'
      BY <1>1, <3>1 DEF Running, Has, Closed, Terminals, Asked
    <3>3. CASE e \in ledger
      <4>1. e.key <= Top(ledger) \/ Running(e.turn)
        BY <1>10, <3>3 DEF ReplyInv, RepliesEnd, Of
      <4> QED
        BY <1>1, <1>7, <1>8, <3>2, <3>3, <4>1
    <3>4. CASE e \notin ledger
      <4>1. Running(e.turn)
        BY <1>9, <1>10, <2>2, <3>4 DEF EndsNothing, Of, m
      <4> QED
        BY <3>2, <4>1
    <3> QED
      BY <3>3, <3>4
  <2> QED
    BY <2>1, <2>2
<1> QED
  BY <1>6, <1>10 DEF ReplyInv, RepliesEnd

\* A batch of one event.
LEMMA One_Reply ==
  ASSUME LedgerInv, ReplyInv, Appended, NEW a, NEW type, NEW t, NEW k, Fields(a, type, t, k), Publish(<<a>>),
         \/ type \in LifecycleTypes
         \/ /\ type \in {"reply", "taskStart", "taskExit", "status", "banner"}
            /\ type = "reply" => Running(t)
  PROVE  ReplyInv'
<1> DEFINE s == <<a>>
<1>1. Len(s) = 1 /\ s[1] = a
  OBVIOUS
<1>2. Publish(s)
  OBVIOUS
<1> HIDE DEF s
<1>3. 1..Len(s) = {1} /\ Len(s) \in Nat
  BY <1>1
<1>4. Typed(a) /\ a.type = type /\ a.turn = t
  BY DEF Fields, Typed
<1>5. TypedBatch(s)
  BY <1>1, <1>3, <1>4 DEF TypedBatch
<1>6. Marks(s) \/ EndsNothing(s)
  BY <1>1, <1>3, <1>4 DEF Marks, EndsNothing, LifecycleTypes, TerminalTypes
<1> QED
  BY <1>2, <1>5, <1>6, Publish_Replies

\* A batch of several events without a reply.
LEMMA More_Replies ==
  ASSUME LedgerInv, ReplyInv, Appended, NEW s, NEW n \in {2, 3, 4}, Len(s) = n, Publish(s),
         \A i \in 1..n : Typed(s[i]) /\ s[i].type # "reply", s[n].type \in LifecycleTypes
  PROVE  ReplyInv'
<1>1. TypedBatch(s)
  BY DEF TypedBatch
<1>2. Marks(s)
  <2>1. n \in 1..Len(s)
    OBVIOUS
  <2> QED
    BY <2>1 DEF Marks
<1> QED
  BY <1>1, <1>2, Publish_Replies

\* Every publisher's step.
LEMMA LedgerNext_Replies ==
  ASSUME LedgerInv, ReplyInv, Appended, LedgerNext
  PROVE  ReplyInv'
<1> USE DEF LifecycleTypes
<1>1. ASSUME NEW t, NEW type \in {"started", "failed", "interruptReq", "interrupted"}, Publish(<<Event(type, t)>>)
      PROVE  ReplyInv'
  <2>1. Fields(Event(type, t), type, t, 0)
    BY Event_Fields
  <2> QED
    BY <1>1, <2>1, One_Reply
<1>2. ASSUME NEW t, Start(t) \/ Fail(t) \/ Stop(t) \/ (Stopped(t) /\ t[1] # "ask") PROVE ReplyInv'
  BY <1>1, <1>2 DEF Start, Fail, Stop, Stopped
<1>3. ASSUME NEW t, Reply(t) PROVE ReplyInv'
  <2>1. Fields(Event("reply", t), "reply", t, 0) /\ Publish(<<Event("reply", t)>>) /\ Running(t)
    BY <1>3, Event_Fields DEF Reply
  <2> QED
    BY <2>1, One_Reply
<1>4. ASSUME NEW t, Complete(t) PROVE ReplyInv'
  <2>1. PICK final : Publish(<<[Event("completed", t) EXCEPT !.final = final]>>)
    BY <1>4 DEF Complete
  <2>2. Fields([Event("completed", t) EXCEPT !.final = final], "completed", t, 0)
    BY Event_Fields
  <2> QED
    BY <2>1, <2>2, One_Reply
<1>5. ASSUME NEW t, NEW k, NEW type \in {"taskStart", "taskExit", "submitted"}, Publish(<<TaskEvent(type, t, k)>>)
      PROVE  ReplyInv'
  <2>1. Fields(TaskEvent(type, t, k), type, t, k)
    BY Event_Fields
  <2> QED
    BY <1>5, <2>1, One_Reply
<1>6. ASSUME NEW t, TaskStart(t) PROVE ReplyInv'
  BY <1>5, <1>6 DEF TaskStart
<1>7. ASSUME NEW k, TaskExit(k) PROVE ReplyInv'
  BY <1>5, <1>7 DEF TaskExit
<1>8. ASSUME NEW k, NEW g, Wake(k, g) PROVE ReplyInv'
  BY <1>5, <1>8 DEF Wake
<1>9. ASSUME NEW type \in {"status", "banner"}, Notice(type) PROVE ReplyInv'
  <2>1. Fields(Event(type, NoTurn), type, NoTurn, 0) /\ Publish(<<Event(type, NoTurn)>>)
    BY <1>9, Event_Fields DEF Notice
  <2> QED
    BY <2>1, One_Reply
<1>10. ASSUME NEW a, NEW b, NEW t, NEW u, NEW type \in {"user", "interrupted"},
              NEW type2 \in {"submitted", "interrupted"},
              a = Event(type, t), b = Event(type2, u), Publish(<<a, b>>)
       PROVE  ReplyInv'
  <2> DEFINE s == <<a, b>>
  <2>1. Typed(a) /\ a.type = type /\ Typed(b) /\ b.type = type2
    BY <1>10, Event_Fields DEF Fields, Typed
  <2>2. Len(s) = 2 /\ s[1] = a /\ s[2] = b /\ Publish(s)
    BY <1>10
  <2> HIDE DEF s
  <2>3. \A i \in 1..2 : Typed(s[i]) /\ s[i].type # "reply"
    BY <2>1, <2>2
  <2>4. s[2].type \in LifecycleTypes
    BY <2>1, <2>2
  <2> QED
    BY <2>2, <2>3, <2>4, More_Replies
<1>11. CASE Submit
  BY <1>10, <1>11 DEF Submit, UserSubmission
<1>12. ASSUME NEW t, Stopped(t), t[1] = "ask" PROVE ReplyInv'
  BY <1>10, <1>12 DEF Stopped
<1>13. ASSUME NEW t, Ask(t) PROVE ReplyInv'
  <2> DEFINE a == LinkEvent("invocation", t, AskTurn(t))
             b == LinkEvent("question", t, AskTurn(t))
             c == Event("submitted", AskTurn(t))
             d == LinkEvent("awaiting", AskTurn(t), t)
             s == <<a, b, c, d>>
  <2>1. /\ Typed(a) /\ a.type = "invocation" /\ Typed(b) /\ b.type = "question"
        /\ Typed(c) /\ c.type = "submitted" /\ Typed(d) /\ d.type = "awaiting"
    BY Event_Fields DEF Fields, Typed
  <2>2. Publish(s)
    BY <1>13 DEF Ask
  <2> HIDE DEF a, b, c, d
  <2>3. Len(s) = 4 /\ s[1] = a /\ s[2] = b /\ s[3] = c /\ s[4] = d
    OBVIOUS
  <2> HIDE DEF s
  <2>4. \A i \in 1..4 : i = 1 \/ i = 2 \/ i = 3 \/ i = 4
    OBVIOUS
  <2>5. \A i \in 1..4 : Typed(s[i]) /\ s[i].type # "reply"
    BY <2>1, <2>3, <2>4
  <2>6. s[4].type \in LifecycleTypes
    BY <2>1, <2>3
  <2> QED
    BY <2>2, <2>3, <2>5, <2>6, More_Replies
<1>14. ASSUME NEW t, Answer(t) PROVE ReplyInv'
  <2> DEFINE a == LinkEvent("answered", AskTurn(t), t)
             b == Event("user", NextTurn)
             c == Event("submitted", NextTurn)
             one == <<a>>
             two == <<b, c>>
             s == one \o two
  <2>1. /\ Typed(a) /\ a.type = "answered" /\ Typed(b) /\ b.type = "user"
        /\ Typed(c) /\ c.type = "submitted"
    BY Event_Fields DEF Fields, Typed
  <2>2. Publish(s)
    BY <1>14 DEF Answer, UserSubmission
  <2> HIDE DEF a, b, c
  <2>3. one \in Seq({a, b, c}) /\ two \in Seq({a, b, c}) /\ Len(one) = 1 /\ Len(two) = 2
    OBVIOUS
  <2>4. one[1] = a /\ two[1] = b /\ two[2] = c
    OBVIOUS
  <2> HIDE DEF one, two
  <2>5. /\ Len(s) = Len(one) + Len(two)
        /\ \A i \in 1..Len(one) + Len(two) : s[i] = IF i <= Len(one) THEN one[i] ELSE two[i - Len(one)]
    BY <2>3, ConcatProperties
  <2> HIDE DEF s
  <2>6. \A i \in 1..3 : s[i] = IF i <= 1 THEN one[i] ELSE two[i - 1]
    BY <2>3, <2>5
  <2>7. Len(s) = 3 /\ s[1] = a /\ s[2] = b /\ s[3] = c
    BY <2>3, <2>4, <2>5, <2>6
  <2>8. \A i \in 1..3 : i = 1 \/ i = 2 \/ i = 3
    OBVIOUS
  <2>9. \A i \in 1..3 : Typed(s[i]) /\ s[i].type # "reply"
    BY <2>1, <2>7, <2>8
  <2>10. s[3].type \in LifecycleTypes
    BY <2>1, <2>7
  <2> QED
    BY <2>2, <2>7, <2>9, <2>10, More_Replies
<1> QED
  BY <1>2, <1>3, <1>4, <1>6, <1>7, <1>8, <1>9, <1>11, <1>12, <1>13, <1>14 DEF LedgerNext

\* A summary that does not hide output: up to its key it counts at least what is
\* unread now.
UpTo(E, k) == {e \in E : e.key <= k}
Honest(s) ==
  /\ Filled(s) /\ s.key \in Nat /\ s.unread \in Nat /\ s.key <= Top(ledger)
  /\ s.unread >= UnreadOutputCount(UpTo(ledger, s.key), read)

\* The row never goes back behind a row that a refresh has read.
RowRead(r) == r.pc = "row"
Folded(r) == r.pc = "folded"
JobsHonest ==
  \A j \in Jobs :
    /\ RowRead(job[j]) => Honest(job[j].prior) /\ job[j].prior.key <= summary.key
    /\ Folded(job[j]) => Honest(job[j].next)

\* With no refresh owed, the row has the ledger's key or a refresh will bring it.
Brings(r) == RowRead(r) \/ (Folded(r) /\ r.next.key = Top(ledger))
CaughtUp ==
  scope.reader = "activity" /\ "activity" \notin owed =>
    summary.key = Top(ledger) \/ \E j \in Jobs : Brings(job[j])
UnreadInv == read \in Nat /\ Honest(summary) /\ JobsHonest /\ CaughtUp

\* The order keys of the life cycle.
LEMMA Top_Key ==
  ASSUME NEW E, Numbered(E)
  PROVE  /\ Top(E) \in Nat /\ Top(E) <= Cardinality(E) /\ Cardinality(E) \in Nat
         /\ \A e \in Lifecycle(E) : e.key <= Top(E)
         /\ Lifecycle(E) # {} => \E e \in Lifecycle(E) : Top(E) = e.key
         /\ Lifecycle(E) = {} => Top(E) = 0
         /\ \A e \in E : e.key \in Nat
<1>1. Lifecycle(E) \subseteq E
  BY DEF Lifecycle
<1>2. Top(E) \in Nat /\ Top(E) <= Cardinality(E) /\ \A e \in Lifecycle(E) : e.key <= Top(E)
  BY <1>1, Greatest_Key DEF Numbered, Top
<1>3. Lifecycle(E) # {} => \E e \in Lifecycle(E) : Top(E) = e.key
  BY <1>1, Greatest_Key DEF Numbered, Top, MaxKey
<1>4. Lifecycle(E) = {} => Top(E) = 0
  BY DEF Top, MaxKey
<1>5. Cardinality(E) \in Nat /\ \A e \in E : e.key \in Nat
  BY FS_CardinalityType DEF Numbered
<1> QED
  BY <1>2, <1>3, <1>4, <1>5

\* Nothing is unread of no summary.
LEMMA UnreadInit_Inv ==
  Init => UnreadInv
<1> SUFFICES ASSUME Init PROVE UnreadInv
  OBVIOUS
<1>1. /\ ledger = {} /\ summary = NoSummary /\ read = 0 /\ owed = {}
      /\ \A j \in Jobs : job[j] = NoJob
  BY DEF Init, LedgerInit, ActivityInit
<1>2. Top(ledger) = 0 /\ UpTo(ledger, 0) = {}
  BY <1>1 DEF Top, MaxKey, Lifecycle, UpTo
<1>3. UnreadOutputCount({}, 0) = 0
  <2>1. Cardinality({e \in Of({}, "reply") : e.key > 0}) = 0
    BY FS_EmptySet DEF Of
  <2>2. Cardinality({e.turn : e \in {f \in {} : f.type \in TurnTerminals /\ f.key > 0}}) = 0
    BY FS_EmptySet
  <2> QED
    BY <2>1, <2>2 DEF UnreadOutputCount
<1>4. Filled(NoSummary) /\ NoSummary.key = 0 /\ NoSummary.unread = 0
  BY DEF Filled, NoSummary, Summary
<1>5. Honest(summary)
  BY <1>1, <1>2, <1>3, <1>4 DEF Honest
<1>6. ~RowRead(NoJob) /\ ~Folded(NoJob)
  BY DEF NoJob, RowRead, Folded
<1> QED
  BY <1>1, <1>2, <1>4, <1>5, <1>6 DEF UnreadInv, JobsHonest, CaughtUp

\* A summary stays honest when events are stored and when the reader goes on.
LEMMA Honest_Kept ==
  ASSUME ReplyInv, ReplyInv', ledger \subseteq ledger', \A e \in ledger' \ ledger : e.key > Cardinality(ledger),
         read \in Nat, read' \in Nat, read <= read', NEW s, Honest(s)
  PROVE  /\ Filled(s) /\ s.key \in Nat /\ s.unread \in Nat /\ s.key <= Top(ledger')
         /\ s.unread >= UnreadOutputCount(UpTo(ledger', s.key), read')
<1>1. Numbered(ledger) /\ Numbered(ledger')
  BY DEF ReplyInv
<1>2. Lifecycle(ledger) \subseteq Lifecycle(ledger')
  BY DEF Lifecycle
<1>3. Top(ledger) <= Top(ledger')
  BY <1>1, <1>2, Top_Key
<1>4. Top(ledger) \in Nat /\ Top(ledger') \in Nat /\ s.key \in Nat /\ s.key <= Top(ledger)
  BY <1>1, Top_Key DEF Honest
<1>5. s.key <= Top(ledger')
  BY <1>3, <1>4
<1>6. UpTo(ledger', s.key) = UpTo(ledger, s.key)
  <2>1. s.key <= Cardinality(ledger) /\ Cardinality(ledger) \in Nat
    BY <1>1, <1>4, Top_Key
  <2>2. \A e \in ledger' : e.key \in Nat
    BY <1>1, Top_Key
  <2>3. \A e \in ledger' \ ledger : ~(e.key <= s.key)
    BY <1>4, <2>1, <2>2
  <2> QED
    BY <2>3 DEF UpTo
<1> DEFINE D == UpTo(ledger, s.key)
<1>7. IsFiniteSet(D) /\ \A e \in D : e.key \in Nat
  BY <1>1, FS_Subset, Top_Key DEF Numbered, UpTo
<1> HIDE DEF D
<1>8. /\ UnreadOutputCount(D, read) \in Nat /\ UnreadOutputCount(D, read') \in Nat
      /\ UnreadOutputCount(D, read') <= UnreadOutputCount(D, read)
  BY <1>7, Unread_Less
<1>9. s.unread >= UnreadOutputCount(D, read)
  BY DEF Honest, D
<1> QED
  BY <1>4, <1>5, <1>6, <1>8, <1>9 DEF Honest, D

\* A step that only stores events or moves the mark on.
LEMMA Grow_Unread ==
  ASSUME UnreadInv, ReplyInv, ReplyInv', ledger \subseteq ledger',
         \A e \in ledger' \ ledger : e.key > Cardinality(ledger),
         read' \in Nat, read <= read', summary' = summary, job' = job, scope' = scope,
         scope.reader = "activity" /\ "activity" \notin owed' =>
           "activity" \notin owed /\ Top(ledger') = Top(ledger)
  PROVE  UnreadInv'
<1>1. read \in Nat /\ Honest(summary) /\ JobsHonest /\ CaughtUp
  BY DEF UnreadInv
<1>2. ASSUME NEW s, Honest(s)
      PROVE  /\ Filled(s) /\ s.key \in Nat /\ s.unread \in Nat /\ s.key <= Top(ledger')
             /\ s.unread >= UnreadOutputCount(UpTo(ledger', s.key), read')
  BY <1>1, <1>2, Honest_Kept
<1>3. Honest(summary)'
  BY <1>1, <1>2 DEF Honest
<1>4. JobsHonest'
  <2> SUFFICES ASSUME NEW j \in Jobs
               PROVE  /\ RowRead(job[j]) => Honest(job[j].prior)' /\ job[j].prior.key <= summary.key
                      /\ Folded(job[j]) => Honest(job[j].next)'
    BY DEF JobsHonest, RowRead, Folded
  <2>1. CASE RowRead(job[j])
    <3>1. Honest(job[j].prior) /\ job[j].prior.key <= summary.key
      BY <1>1, <2>1 DEF JobsHonest
    <3>2. ~Folded(job[j])
      BY <2>1 DEF RowRead, Folded
    <3> QED
      BY <1>2, <3>1, <3>2 DEF Honest
  <2>2. CASE Folded(job[j])
    <3>1. Honest(job[j].next)
      BY <1>1, <2>2 DEF JobsHonest
    <3>2. ~RowRead(job[j])
      BY <2>2 DEF RowRead, Folded
    <3> QED
      BY <1>2, <3>1, <3>2 DEF Honest
  <2> QED
    BY <2>1, <2>2
<1>5. CaughtUp'
  BY <1>1 DEF CaughtUp, Brings, RowRead, Folded
<1> QED
  BY <1>3, <1>4, <1>5 DEF UnreadInv

\* Stored events, which call for a refresh when they are of the life cycle.
LEMMA Persist_Unread ==
  ASSUME LedgerInv, ReplyInv, UnreadInv, Persist
  PROVE  ReplyInv' /\ UnreadInv'
<1>1. Appended /\ LedgerNext
  BY LedgerNext_Appends DEF Persist, Refresh
<1>2. ReplyInv'
  BY <1>1, LedgerNext_Replies
<1>3. /\ summary' = summary /\ job' = job /\ read' = read /\ scope' = scope
      /\ owed' = owed \cup (DeltaClasses(ledger' \ ledger) \cap {scope.reader})
  BY <1>1 DEF Persist, ActivityOnLedger, EmitDelta, Appended
<1>4. read \in Nat /\ read <= read
  BY DEF UnreadInv
<1>5. ASSUME scope.reader = "activity", "activity" \notin owed'
      PROVE  "activity" \notin owed /\ Top(ledger') = Top(ledger)
  <2>1. "activity" \notin DeltaClasses(ledger' \ ledger) /\ "activity" \notin owed
    BY <1>3, <1>5
  <2>2. Lifecycle(ledger' \ ledger) = {}
    BY <2>1 DEF DeltaClasses
  <2>3. Lifecycle(ledger') = Lifecycle(ledger)
    BY <1>1, <2>2 DEF Lifecycle, Appended
  <2> QED
    BY <2>1, <2>3 DEF Top
<1>6. ledger \subseteq ledger' /\ \A e \in ledger' \ ledger : e.key > Cardinality(ledger)
  BY <1>1 DEF Appended
<1> QED
  BY <1>2, <1>3, <1>4, <1>5, <1>6, Grow_Unread

\* A mark of the reader.
LEMMA Mark_Unread ==
  ASSUME ReplyInv, UnreadInv, NEW k \in Nat, MarkRead(k)
  PROVE  UnreadInv'
<1>1. /\ ledger' = ledger /\ scope' = scope /\ summary' = summary /\ job' = job
      /\ read' = Greatest(k) /\ "activity" \in owed'
  BY DEF MarkRead, ledgerVars
<1>2. ReplyInv'
  BY <1>1 DEF ReplyInv, RepliesEnd, Running, Asked
<1>3. read \in Nat
  BY DEF UnreadInv
<1>4. Greatest(k) \in Nat /\ read <= Greatest(k)
  <2>1. \E n \in {k, read} : \A i \in {k, read} : n >= i
    BY <1>3
  <2>2. Greatest(k) \in {k, read} /\ \A i \in {k, read} : Greatest(k) >= i
    BY <2>1 DEF Greatest, MaxOf
  <2> QED
    BY <1>3, <2>2
<1> QED
  BY <1>1, <1>2, <1>4, Grow_Unread

\* A job that is set to another record, the rest being as it was.
LEMMA Set_Unread ==
  ASSUME UnreadInv, JobShape, NEW j \in Jobs, NEW r, job' = [job EXCEPT ![j] = r],
         ledger' = ledger, scope' = scope, read' = read,
         Honest(summary'), summary.key <= summary'.key,
         RowRead(r) => Honest(r.prior) /\ r.prior.key <= summary'.key,
         Folded(r) => Honest(r.next),
         CaughtUp'
  PROVE  UnreadInv'
<1>1. \A i \in Jobs : job'[i] = IF i = j THEN r ELSE job[i]
  BY DEF JobShape
<1>2. \A s : Honest(s) => s.key \in Nat /\ /\ Filled(s) /\ s.unread \in Nat /\ s.key <= Top(ledger')
                         /\ s.unread >= UnreadOutputCount(UpTo(ledger', s.key), read')
  BY DEF Honest
<1>3. JobsHonest'
  <2> SUFFICES ASSUME NEW i \in Jobs
               PROVE  /\ RowRead(job'[i]) => Honest(job[i].prior)' /\ job'[i].prior.key <= summary'.key
                      /\ Folded(job'[i]) => Honest(job[i].next)'
    BY DEF JobsHonest, RowRead, Folded
  <2>1. CASE i = j
    BY <1>1, <1>2, <2>1 DEF Honest
  <2>2. CASE i # j
    <3>1. job'[i] = job[i]
      BY <1>1, <2>2
    <3>2. RowRead(job[i]) => Honest(job[i].prior) /\ job[i].prior.key <= summary.key
      BY DEF UnreadInv, JobsHonest
    <3>3. Folded(job[i]) => Honest(job[i].next)
      BY DEF UnreadInv, JobsHonest
    <3>4. Honest(summary)
      BY DEF UnreadInv
    <3>5. RowRead(job[i]) => job[i].prior.key <= summary'.key
      BY <1>2, <3>2, <3>4
    <3> QED
      BY <1>2, <3>1, <3>2, <3>3, <3>5 DEF Honest
  <2> QED
    BY <2>1, <2>2
<1>4. Honest(summary)'
  BY <1>2 DEF Honest
<1> QED
  BY <1>3, <1>4 DEF UnreadInv

\* The steps of a refresh of the summary.
LEMMA Read_Unread ==
  ASSUME ReplyInv, CountInv, UnreadInv, NEW j \in Jobs, ReadPrior(j)
  PROVE  UnreadInv'
<1> DEFINE r == [NoJob EXCEPT !.pc = "row", !.prior = summary]
<1>1. /\ job' = [job EXCEPT ![j] = r] /\ ledger' = ledger /\ scope' = scope /\ read' = read
      /\ summary' = summary
  BY DEF ReadPrior, ledgerVars
<1>2. RowRead(r) /\ ~Folded(r) /\ r.prior = summary
  BY DEF NoJob, RowRead, Folded
<1> HIDE DEF r
<1>3. JobShape /\ Honest(summary) /\ summary.key <= summary.key
  BY DEF CountInv, UnreadInv, Honest
<1>4. job'[j] = r
  BY <1>1, <1>3 DEF JobShape
<1>5. CaughtUp'
  BY <1>2, <1>4 DEF CaughtUp, Brings, RowRead
<1> QED
  BY <1>1, <1>2, <1>3, <1>5, Set_Unread

\* See Read_Unread.
LEMMA Fold_Unread ==
  ASSUME ReplyInv, CountInv, UnreadInv, NEW j \in Jobs, FoldEvents(j)
  PROVE  UnreadInv'
<1> DEFINE p == job[j].prior
           n == Refreshed(p, ledger, read)
           f == [NoJob EXCEPT !.pc = "folded", !.next = n]
           r == IF n = p THEN NoJob ELSE f
<1>1. /\ job' = [job EXCEPT ![j] = r] /\ ledger' = ledger /\ scope' = scope /\ read' = read
      /\ summary' = summary /\ owed' = owed /\ RowRead(job[j])
  BY DEF FoldEvents, ledgerVars, RowRead
<1>2. Honest(p) /\ p.key <= summary.key /\ Honest(summary) /\ JobShape /\ read \in Nat /\ CaughtUp
  BY <1>1 DEF UnreadInv, JobsHonest, CountInv
<1>3. Numbered(ledger)
  BY DEF ReplyInv
<1>4. /\ Filled(n) /\ n.unread = UnreadOutputCount(ledger, read)
      /\ n.key = IF Lifecycle(ledger) = {} THEN p.key ELSE Top(ledger)
  BY <1>2, <1>3, Refreshed_Key DEF Honest
<1>5. /\ ~RowRead(NoJob) /\ ~Folded(NoJob)
      /\ ~RowRead(f) /\ Folded(f) /\ f.next = n
  BY DEF NoJob, RowRead, Folded
<1> HIDE DEF n, f
<1>6. n.key = Top(ledger) /\ n.key \in Nat
  <2>1. Top(ledger) \in Nat /\ (Lifecycle(ledger) = {} => Top(ledger) = 0)
    BY <1>3, Top_Key
  <2>2. p.key \in Nat /\ p.key <= Top(ledger)
    BY <1>2 DEF Honest
  <2> QED
    BY <1>4, <2>1, <2>2
<1>7. Honest(n)
  <2>1. UpTo(ledger, n.key) \subseteq ledger
    BY DEF UpTo
  <2>2. IsFiniteSet(ledger) /\ \A e \in ledger : e.key \in Nat
    BY <1>3, Top_Key DEF Numbered
  <2>3. /\ UnreadOutputCount(ledger, read) \in Nat
        /\ UnreadOutputCount(UpTo(ledger, n.key), read) \in Nat
        /\ UnreadOutputCount(UpTo(ledger, n.key), read) <= UnreadOutputCount(ledger, read)
    BY <1>2, <2>1, <2>2, Unread_Less
  <2> QED
    BY <1>4, <1>6, <2>3 DEF Honest
<1>8. RowRead(r) => FALSE
  BY <1>5
<1>9. Folded(r) => Honest(r.next)
  BY <1>5, <1>7
<1>10. summary.key <= summary'.key
  BY <1>1, <1>2 DEF Honest
<1>11. /\ job'[j] = r /\ \A i \in Jobs : i # j => job'[i] = job[i]
  BY <1>1, <1>2 DEF JobShape
<1>12. summary.key = Top(ledger) \/ Brings(r)
  <2>1. CASE n = p
    <3>1. p.key <= summary.key /\ summary.key <= Top(ledger) /\ summary.key \in Nat /\ p.key = Top(ledger)
      BY <1>2, <1>6, <2>1 DEF Honest
    <3> QED
      BY <1>6, <2>1, <3>1
  <2>2. CASE n # p
    BY <1>5, <1>6, <2>2 DEF Brings
  <2> QED
    BY <2>1, <2>2
<1>13. CaughtUp'
  BY <1>1, <1>11, <1>12 DEF CaughtUp, Brings, RowRead, Folded
<1> HIDE DEF r
<1> QED
  BY <1>1, <1>2, <1>8, <1>9, <1>10, <1>13, Set_Unread

\* See Read_Unread: the row takes the summary unless it has a greater key.
LEMMA Write_Unread ==
  ASSUME ReplyInv, CountInv, UnreadInv, NEW j \in Jobs, WriteSummary(j)
  PROVE  UnreadInv'
<1> DEFINE n == job[j].next
<1>1. /\ job' = [job EXCEPT ![j] = NoJob] /\ ledger' = ledger /\ scope' = scope /\ read' = read
      /\ summary' = (IF summary.key <= n.key THEN n ELSE summary) /\ owed' = owed /\ Folded(job[j])
  BY DEF WriteSummary, NotStale, ledgerVars, Folded
<1>2. Honest(n) /\ Honest(summary) /\ JobShape /\ CaughtUp
  BY <1>1 DEF UnreadInv, JobsHonest, CountInv
<1>3. ~RowRead(NoJob) /\ ~Folded(NoJob) /\ ~RowRead(job[j])
  BY <1>1 DEF NoJob, RowRead, Folded
<1> HIDE DEF n
<1>4. /\ Honest(summary') /\ summary.key <= summary'.key /\ n.key <= summary'.key
      /\ summary'.key \in Nat /\ summary'.key <= Top(ledger)
      /\ summary.key \in Nat /\ n.key \in Nat /\ n.key <= Top(ledger)
  BY <1>1, <1>2 DEF Honest
<1>5. \A i \in Jobs : i # j => job'[i] = job[i]
  BY <1>1, <1>2 DEF JobShape
<1>6. Top(ledger) \in Nat
  BY Top_Key DEF ReplyInv
<1>7. summary.key = Top(ledger) => summary'.key = Top(ledger)
  BY <1>4, <1>6
<1>8. Brings(job[j]) => summary'.key = Top(ledger)
  BY <1>3, <1>4, <1>6 DEF Brings, n
<1>9. CaughtUp'
  BY <1>1, <1>2, <1>5, <1>7, <1>8 DEF CaughtUp, Brings, RowRead, Folded
<1> QED
  BY <1>1, <1>2, <1>3, <1>4, <1>9, Set_Unread

\* A count of messages sets its job to one that brings no summary.
LEMMA Counts_Set ==
  ASSUME JobShape, NEW j \in Jobs, CountMessages(j) \/ CompareCount(j) \/ WriteCount(j)
  PROVE  \E r : job' = [job EXCEPT ![j] = r] /\ ~RowRead(r) /\ ~Folded(r)
<1>1. {"pc", "count"} \subseteq DOMAIN job[j]
  BY DEF JobShape
<1> DEFINE Counts(r) == ~RowRead(r) /\ ~Folded(r)
<1>2. /\ \A n : Counts([NoJob EXCEPT !.pc = "counted", !.count = n])
      /\ Counts([job[j] EXCEPT !.pc = "higher"]) /\ Counts(NoJob)
  BY <1>1 DEF NoJob, RowRead, Folded
<1> HIDE DEF Counts
<1>3. ASSUME CountMessages(j) PROVE \E r : job' = [job EXCEPT ![j] = r] /\ Counts(r)
  BY <1>2, <1>3, Zenon DEF CountMessages
<1>4. ASSUME CompareCount(j) PROVE \E r : job' = [job EXCEPT ![j] = r] /\ Counts(r)
  <2>1. job' = [job EXCEPT ![j] = IF SkipsCount(j) THEN NoJob ELSE [job[j] EXCEPT !.pc = "higher"]]
    BY <1>4 DEF CompareCount
  <2>2. Counts(IF SkipsCount(j) THEN NoJob ELSE [job[j] EXCEPT !.pc = "higher"])
    BY <1>2
  <2> QED
    BY <2>1, <2>2, Zenon
<1>5. ASSUME WriteCount(j) PROVE \E r : job' = [job EXCEPT ![j] = r] /\ Counts(r)
  BY <1>2, <1>5, Zenon DEF WriteCount
<1>6. \E r : job' = [job EXCEPT ![j] = r] /\ Counts(r)
  BY <1>3, <1>4, <1>5
<1> QED
  BY <1>6 DEF Counts

\* A count of messages leaves the summary alone.
LEMMA Counts_Unread ==
  ASSUME ReplyInv, CountInv, UnreadInv, NEW j \in Jobs, CountMessages(j) \/ CompareCount(j) \/ WriteCount(j)
  PROVE  UnreadInv'
<1>1. JobShape /\ CaughtUp /\ Honest(summary)
  BY DEF CountInv, UnreadInv
<1>2. /\ ledger' = ledger /\ scope' = scope /\ read' = read /\ summary' = summary
      /\ "activity" \notin owed' => "activity" \notin owed
  BY DEF CountMessages, CompareCount, WriteCount, ledgerVars
<1>3. ~RowRead(job[j]) /\ ~Folded(job[j])
  BY DEF CountMessages, CompareCount, WriteCount, NoJob, RowRead, Folded
<1>4. PICK r : job' = [job EXCEPT ![j] = r] /\ ~RowRead(r) /\ ~Folded(r)
  BY <1>1, Counts_Set
<1>5. \A i \in Jobs : i # j => job'[i] = job[i]
  BY <1>1, <1>4 DEF JobShape
<1>6. CaughtUp'
  BY <1>1, <1>2, <1>3, <1>5 DEF CaughtUp, Brings, RowRead, Folded
<1>7. summary.key <= summary'.key /\ Honest(summary')
  BY <1>1, <1>2 DEF Honest
<1> QED
  BY <1>1, <1>2, <1>4, <1>6, <1>7, Set_Unread

\* Every step of the session keeps the summaries honest.
LEMMA Unread_Step ==
  ASSUME LedgerInv, ReplyInv, CountInv, UnreadInv, [Next]_vars
  PROVE  ReplyInv' /\ UnreadInv'
<1>1. ASSUME ledger' = ledger PROVE ReplyInv'
  BY <1>1 DEF ReplyInv, RepliesEnd, Running, Asked
<1>2. ASSUME ledger' = ledger, scope' = scope, UNCHANGED activityVars PROVE UnreadInv'
  BY <1>2 DEF activityVars, UnreadInv, Honest, JobsHonest, CaughtUp, Brings, RowRead, Folded
<1>3. CASE Browse
  BY <1>1, <1>2, <1>3 DEF Browse, BrowserNext, FetchRows, FetchCursor, OpenStream, FirstPage, WakeStream,
     DropStream, ledgerVars
<1>4. CASE Detail
  BY <1>1, <1>2, <1>4 DEF Detail, PagesNext, FoldStart, FoldRead, FoldStore, ledgerVars
<1>5. CASE Sidebar
  <2>1. ledger' = ledger
    BY <1>5 DEF Sidebar, ActivityNext, ReadPrior, FoldEvents,
       WriteSummary, CountMessages, CompareCount, WriteCount, MarkRead, ledgerVars
  <2>2. \A e \in ledger : e.key \in Nat
    BY DEF LedgerInv
  <2>3. UnreadInv'
    BY <1>5, <2>2, Read_Unread, Fold_Unread, Write_Unread, Counts_Unread, Mark_Unread
       DEF Sidebar, ActivityNext
  <2> QED
    BY <1>1, <2>1, <2>3
<1>6. CASE UNCHANGED vars
  BY <1>1, <1>2, <1>6 DEF vars, ledgerVars
<1> QED
  BY <1>3, <1>4, <1>5, <1>6, Persist_Unread DEF Next

\* Once no refresh is under way the summary of a finished session counts at least
\* the replies and finished turns that are unread (UnreadOutputCount,
\* chat_activity.go), in whatever order the refreshes read and wrote: the row's key
\* is the last of the life cycle, which every reply of a finished session precedes.
THEOREM Views_UnreadNotHidden ==
  Spec => []UnreadNotHidden
<1>1. Init => LedgerInv /\ Shape /\ scope \in Scopes /\ CountInv /\ ReplyInv /\ UnreadInv
  <2>1. Init => ReplyInv
    BY FS_EmptySet DEF Init, LedgerInit, ReplyInv, Numbered, RepliesEnd, Of
  <2> QED
    BY <2>1, Shape_Inv, CountInit_Inv, UnreadInit_Inv
<1>2. LedgerInv /\ Shape /\ scope \in Scopes /\ CountInv /\ ReplyInv /\ UnreadInv /\ [Next]_vars
        => LedgerInv' /\ Shape' /\ (scope \in Scopes)' /\ CountInv' /\ ReplyInv' /\ UnreadInv'
  BY Shape_Inv, Count_Step, Unread_Step
<1>3. Shape /\ ReplyInv /\ UnreadInv => UnreadNotHidden
  <2> SUFFICES ASSUME Shape, ReplyInv, UnreadInv, Quiet("activity"), Finished
               PROVE  summary.unread >= UnreadOutputCount(ledger, read)
    BY DEF UnreadNotHidden
  <2>1. \A j \in Jobs : ~Brings(job[j])
    BY DEF Quiet, NoJob, Brings, RowRead, Folded
  <2>2. summary.key = Top(ledger)
    BY <2>1 DEF Quiet, UnreadInv, CaughtUp
  <2> DEFINE D == UpTo(ledger, summary.key)
  <2>3. \A e \in Of(ledger, "reply") : e.key <= Top(ledger)
    <3> SUFFICES ASSUME NEW e \in Of(ledger, "reply"), Running(e.turn) PROVE FALSE
      BY DEF ReplyInv, RepliesEnd
    <3>1. e \in ledger /\ e.type = "reply"
      BY DEF Of
    <3>2. e.turn # NoTurn
      BY <3>1 DEF Shape, NoticesApart
    <3>3. e.turn \in TurnsOf(ledger)
      BY <3>1, <3>2 DEF TurnsOf
    <3> QED
      BY <3>3 DEF Finished, Running, Asked
  <2>4. \A e \in ledger : e.type \in TurnTerminals => e.key <= Top(ledger)
    <3>1. \A e \in ledger : e.type \in TurnTerminals => e \in Lifecycle(ledger)
      BY DEF Lifecycle, LifecycleTypes, TurnTerminals
    <3> QED
      BY <3>1, Top_Key DEF ReplyInv
  <2>5. /\ {e \in Of(ledger, "reply") : e.key > read} = {e \in Of(D, "reply") : e.key > read}
        /\ {f \in ledger : f.type \in TurnTerminals /\ f.key > read}
             = {f \in D : f.type \in TurnTerminals /\ f.key > read}
    BY <2>2, <2>3, <2>4 DEF Of, UpTo
  <2>6. UnreadOutputCount(ledger, read) = UnreadOutputCount(D, read)
    BY <2>5, Zenon DEF UnreadOutputCount
  <2> QED
    BY <2>6 DEF UnreadInv, Honest
<1> QED
  BY <1>1, <1>2, <1>3, PTL DEF Spec

(* The course of a session's turns. *)

\* The events that decide what the sidebar shows: all of the life cycle but the
\* requests to stop.
Decided(E) == {e \in Lifecycle(E) : e.type # "interruptReq"}
Busy(t) == Running(t) \/ \E u \in TurnsOf(ledger) : OpenQuestion(u) /\ t = AskTurn(u)

BoundaryFirst ==
  \A e, f \in ledger :
    e.type \in {"submitted", "started"} /\ f.type \in TerminalTypes /\ f.turn = e.turn => e.key < f.key
RequestsFollow ==
  \A e \in Of(ledger, "interruptReq") :
    \E f \in Decided(ledger) :
      f.key < e.key /\ \A g \in Lifecycle(ledger) : g.key <= f.key \/ g.key >= e.key
OneBusy == \A t, u : Busy(t) /\ Busy(u) => t = u
LastRequest == \A e \in Of(ledger, "interruptReq") : Top(ledger) = e.key => Busy(e.turn)
RunningShown ==
  \A t : Running(t) =>
    \E f \in Decided(ledger) :
      f.type \notin {"completed", "answered"} /\ \A g \in Decided(ledger) : g.key <= f.key
TurnsBegun == TurnsOf(ledger) # {} => Lifecycle(ledger) # {}
UserTurnsNumbered == \A e \in ledger, n \in Nat : e.turn = UserTurn(n) => n <= UserMessages

Course ==
  /\ BoundaryFirst /\ RequestsFollow /\ OneBusy /\ LastRequest /\ RunningShown
  /\ TurnsBegun /\ UserTurnsNumbered

\* What one step of the publishers adds to it.
Decides(e) == e.type \in LifecycleTypes \ {"interruptReq"}
NewBoundaries ==
  \A e \in New : e.type \in {"submitted", "started"} =>
    ~Closed(ledger, e.turn) /\ \A f \in New : f.turn = e.turn => f.type \notin TerminalTypes
NewRequests ==
  \A e \in New : e.type = "interruptReq" =>
    New = {e} /\ Busy(e.turn) /\ ~Has(ledger, "interruptReq", e.turn)
NewStarts == \A e \in New : e.type = "started" => New = {e} /\ Idle
NewQuestions ==
  \A e \in New : e.type = "question" =>
    /\ Running(e.turn) /\ \E f \in New : Decides(f)
    /\ \A f \in New : f.type = "question" => f.turn = e.turn
NewOutcomes ==
  \A e \in New : e.type \in {"completed", "answered"} =>
    \/ \E f \in New : Decides(f) /\ f.key > e.key
    \/ New = {e} /\ Running(e.turn)
NewKnown ==
  \A e \in New :
    \/ e.turn \in TurnsOf(ledger) \cup {NoTurn}
    \/ /\ \E f \in New : Decides(f)
       /\ e.turn[1] = "turn" => e.turn = NextTurn /\ \E m \in New : IsMessage(m)

NewTasksRun == \A e \in New : IsTask(e) => e.task \in TasksOf(ledger) \/ Running(e.turn)

CourseStep ==
  /\ Appended /\ NewBoundaries /\ NewRequests /\ NewStarts /\ NewQuestions /\ NewOutcomes
  /\ NewKnown /\ NewTasksRun

\* A turn that runs, or has asked, is a turn of the ledger; one that is busy after
\* a step was busy before, started with it or asked with it.
LEMMA Busy_Turns ==
  ASSUME Shape, NewQuestions, Appended
  PROVE  /\ \A t : Running(t) => t \in TurnsOf(ledger) /\ IsTurn(t)
         /\ \A t : Asked(t) => t \in TurnsOf(ledger)
         /\ \A t : Running(t)' => Running(t) \/ \E e \in New : e.type = "started" /\ e.turn = t
         /\ \A t : OpenQuestion(t)' => OpenQuestion(t) \/ \E e \in New : e.type = "question" /\ e.turn = t
         /\ (\A e \in New : ~Decides(e)) => \A t : Busy(t) => Busy(t)'
         /\ \A t : Busy(t) => TurnsOf(ledger) # {}
<1>1. ASSUME NEW t, Running(t) PROVE t \in TurnsOf(ledger) /\ IsTurn(t)
  <2>1. PICK e \in ledger : e.type = "started" /\ e.turn = t
    BY <1>1 DEF Running, Has
  <2> QED
    BY <2>1 DEF Shape, NoticesApart, AgentsAsk, TurnsOf
<1>2. ASSUME NEW t, Asked(t) PROVE t \in TurnsOf(ledger)
  <2>1. PICK e \in ledger : e.type = "question" /\ e.turn = t
    BY <1>2 DEF Asked, Has
  <2> QED
    BY <2>1 DEF Shape, NoticesApart, TurnsOf
<1>3. /\ ledger \subseteq ledger'
      /\ \A t : Closed(ledger, t) => Closed(ledger', t)
      /\ \A type, t : Has(ledger', type, t) => Has(ledger, type, t) \/ \E e \in New : e.type = type /\ e.turn = t
      /\ \A type, t : Has(ledger, type, t) => Has(ledger', type, t)
  BY Closed_Grows DEF Appended, Has, New
<1>4. ASSUME NEW t, Running(t)' PROVE Running(t) \/ \E e \in New : e.type = "started" /\ e.turn = t
  BY <1>3, <1>4 DEF Running, Asked
<1>5. ASSUME NEW t, OpenQuestion(t)' PROVE OpenQuestion(t) \/ \E e \in New : e.type = "question" /\ e.turn = t
  BY <1>3, <1>5 DEF OpenQuestion, Asked
<1>6. ASSUME \A e \in New : ~Decides(e), NEW t, Busy(t) PROVE Busy(t)'
  <2>1. \A e \in New : e.type # "question"
    BY <1>6 DEF NewQuestions
  <2>2. \A e \in New : e.type \notin TerminalTypes
    BY <1>6 DEF Decides, LifecycleTypes, TerminalTypes
  <2>3. \A u : Closed(ledger', u) => Closed(ledger, u)
    BY <2>2 DEF Closed, Terminals, New
  <2>4. \A u : Asked(u)' => Asked(u)
    BY <1>3, <2>1 DEF Asked
  <2>5. \A u : Asked(u) => Asked(u)'
    BY <1>3 DEF Asked
  <2>6. CASE Running(t)
    <3>1. Running(t)'
      BY <1>3, <2>3, <2>4, <2>6 DEF Running
    <3> QED
      BY <3>1 DEF Busy
  <2>7. ASSUME NEW u \in TurnsOf(ledger), OpenQuestion(u), t = AskTurn(u) PROVE Busy(t)'
    <3>1. OpenQuestion(u)'
      BY <2>3, <2>5, <2>7 DEF OpenQuestion
    <3>2. u \in TurnsOf(ledger')
      BY <1>3 DEF TurnsOf
    <3> QED
      BY <2>7, <3>1, <3>2 DEF Busy
  <2> QED
    BY <1>6, <2>6, <2>7 DEF Busy
<1>7. ASSUME NEW t, Busy(t) PROVE TurnsOf(ledger) # {}
  BY <1>1, <1>7 DEF Busy
<1> QED
  BY <1>1, <1>2, <1>4, <1>5, <1>6, <1>7

\* At most one turn or question is at work.
LEMMA OneBusy_Step ==
  ASSUME Shape, OneBusy, CourseStep
  PROVE  OneBusy'
<1>1. /\ \A t : Running(t) => t \in TurnsOf(ledger) /\ IsTurn(t)
      /\ \A t : Asked(t) => t \in TurnsOf(ledger)
      /\ \A t : Running(t)' => Running(t) \/ \E e \in New : e.type = "started" /\ e.turn = t
      /\ \A t : OpenQuestion(t)' => OpenQuestion(t) \/ \E e \in New : e.type = "question" /\ e.turn = t
  BY Busy_Turns DEF CourseStep
<1>2. \A t : OpenQuestion(t) => t \in TurnsOf(ledger)
  BY <1>1 DEF OpenQuestion
<1>3. ASSUME NEW e \in New, e.type = "started" PROVE OneBusy'
  <2>1. New = {e} /\ Idle
    BY <1>3 DEF CourseStep, NewStarts
  <2>2. \A t : ~Running(t) /\ ~OpenQuestion(t)
    BY <1>1, <1>2, <2>1 DEF Idle
  <2>3. \A t : ~OpenQuestion(t)'
    BY <1>1, <1>3, <2>1, <2>2
  <2>4. \A t : Running(t)' => t = e.turn
    BY <1>1, <2>1, <2>2
  <2>5. \A t : Busy(t)' => t = e.turn
    BY <2>3, <2>4 DEF Busy
  <2> QED
    BY <2>5 DEF OneBusy
<1>4. ASSUME NEW e \in New, e.type = "question" PROVE OneBusy'
  <2> DEFINE v == e.turn
  <2>1. Running(v) /\ \A f \in New : f.type = "question" => f.turn = v
    BY <1>4 DEF CourseStep, NewQuestions
  <2>2. Busy(v) /\ IsTurn(v) /\ v[1] # "ask"
    BY <1>1, <2>1, Turn_Ids DEF Busy
  <2>3. \A f \in New : f.type # "started"
    BY <1>4 DEF CourseStep, NewStarts
  <2>4. Asked(v)'
    BY <1>4 DEF Asked, Has, New
  <2> HIDE DEF v
  <2>5. \A t : ~Running(t)'
    <3> SUFFICES ASSUME NEW t, Running(t)' PROVE FALSE
      OBVIOUS
    <3>1. Running(t)
      BY <1>1, <2>3
    <3>2. t = v
      BY <2>2, <3>1 DEF OneBusy, Busy
    <3> QED
      BY <2>4, <3>2 DEF Running
  <2>6. \A t : OpenQuestion(t)' => t = v
    <3> SUFFICES ASSUME NEW t, OpenQuestion(t) PROVE FALSE
      BY <1>1, <2>1
    <3>1. Busy(AskTurn(t))
      BY <1>2 DEF Busy
    <3>2. AskTurn(t) = v /\ AskTurn(t)[1] = "ask"
      BY <2>2, <3>1, Turn_Ids DEF OneBusy
    <3> QED
      BY <2>2, <3>2
  <2>7. \A t : Busy(t)' => t = AskTurn(v)
    BY <2>5, <2>6 DEF Busy
  <2> QED
    BY <2>7 DEF OneBusy
<1>5. ASSUME \A e \in New : e.type \notin {"started", "question"} PROVE OneBusy'
  <2>1. \A t : Running(t)' => Running(t)
    BY <1>1, <1>5
  <2>2. \A t : OpenQuestion(t)' => OpenQuestion(t)
    BY <1>1, <1>5
  <2>3. \A t : Busy(t)' => Busy(t)
    BY <1>2, <2>1, <2>2 DEF Busy
  <2> QED
    BY <2>3 DEF OneBusy
<1> QED
  BY <1>3, <1>4, <1>5

\* A step of the publishers keeps the course of the turns.
LEMMA Course_Step ==
  ASSUME LedgerInv, Shape, Course, Numbered(ledger), Numbered(ledger'), CourseStep
  PROVE  Course'
<1> DEFINE n == Cardinality(ledger)
<1>1. /\ n \in Nat /\ ledger \subseteq ledger' /\ ledger' = ledger \cup New
      /\ \A e \in ledger : e.key \in Nat /\ e.key <= n
      /\ \A e \in New : e.key \in Nat /\ e.key > n
      /\ \A e \in New : e \notin ledger
  BY Top_Key DEF CourseStep, Appended, LedgerInv, New
<1>2. /\ \A e \in Lifecycle(ledger') : e.key <= Top(ledger')
      /\ Top(ledger) \in Nat /\ Top(ledger') \in Nat /\ Top(ledger) <= n
      /\ \A e \in Lifecycle(ledger) : e.key <= Top(ledger)
      /\ Lifecycle(ledger) # {} => \E e \in Lifecycle(ledger) : Top(ledger) = e.key
  BY Top_Key
<1>3. /\ \A e \in Decided(ledger') : e \in Decided(ledger) \/ (e \in New /\ Decides(e))
      /\ \A e \in New : Decides(e) => e \in Decided(ledger')
      /\ Decided(ledger) \subseteq Decided(ledger')
      /\ Decided(ledger') \subseteq Lifecycle(ledger')
      /\ Lifecycle(ledger) \subseteq Lifecycle(ledger')
      /\ Decided(ledger) \subseteq ledger /\ Decided(ledger') \subseteq ledger' /\ Lifecycle(ledger) \subseteq ledger
  BY <1>1 DEF Decided, Decides, Lifecycle
<1> HIDE DEF n
<1>4. BoundaryFirst'
  <2> SUFFICES ASSUME NEW e \in ledger', NEW f \in ledger', e.type \in {"submitted", "started"},
                      f.type \in TerminalTypes, f.turn = e.turn
               PROVE  e.key < f.key
    BY DEF BoundaryFirst
  <2>1. CASE e \in ledger /\ f \in ledger
    BY <2>1 DEF Course, BoundaryFirst
  <2>2. CASE e \in ledger /\ f \in New
    BY <1>1, <2>2
  <2>3. CASE e \in New /\ f \in ledger
    BY <2>3 DEF CourseStep, NewBoundaries, Closed, Terminals
  <2>4. CASE e \in New /\ f \in New
    BY <2>4 DEF CourseStep, NewBoundaries
  <2> QED
    BY <1>1, <2>1, <2>2, <2>3, <2>4
<1>5. RequestsFollow'
  <2> SUFFICES ASSUME NEW e \in ledger', e.type = "interruptReq"
               PROVE  \E f \in Decided(ledger') :
                        f.key < e.key /\ \A g \in Lifecycle(ledger') : g.key <= f.key \/ g.key >= e.key
    BY DEF RequestsFollow, Of
  <2>1. CASE e \in ledger
    <3>1. PICK f \in Decided(ledger) :
            f.key < e.key /\ \A g \in Lifecycle(ledger) : g.key <= f.key \/ g.key >= e.key
      BY <2>1 DEF Course, RequestsFollow, Of
    <3>2. ASSUME NEW g \in Lifecycle(ledger'), g \notin Lifecycle(ledger) PROVE g.key >= e.key
      <4>1. g \in New
        BY <1>1, <3>2 DEF Lifecycle
      <4> QED
        BY <1>1, <2>1, <4>1
    <3> QED
      BY <1>3, <3>1, <3>2
  <2>2. CASE e \in New
    <3>1. New = {e} /\ Busy(e.turn) /\ ~Has(ledger, "interruptReq", e.turn)
      BY <2>2 DEF CourseStep, NewRequests
    <3>2. Lifecycle(ledger) # {}
      BY <3>1, Busy_Turns DEF CourseStep, Course, TurnsBegun
    <3>3. PICK f \in Lifecycle(ledger) : Top(ledger) = f.key
      BY <1>2, <3>2
    <3>4. f.type # "interruptReq"
      <4> SUFFICES ASSUME f.type = "interruptReq" PROVE FALSE
        OBVIOUS
      <4>1. f \in ledger /\ f \in Of(ledger, "interruptReq")
        BY <1>3 DEF Of
      <4>2. Busy(f.turn)
        BY <3>3, <4>1 DEF Course, LastRequest
      <4>3. f.turn = e.turn
        BY <3>1, <4>2 DEF Course, OneBusy
      <4> QED
        BY <3>1, <4>1, <4>3 DEF Has
    <3>5. f \in Decided(ledger') /\ f.key < e.key
      <4>1. f \in Decided(ledger)
        BY <3>4 DEF Decided
      <4>2. f \in Decided(ledger') /\ f \in ledger
        BY <1>3, <4>1
      <4> QED
        BY <1>1, <2>2, <4>2
    <3>6. ASSUME NEW g \in Lifecycle(ledger') PROVE g.key <= f.key \/ g.key >= e.key
      <4>1. g \in Lifecycle(ledger) \/ g = e
        BY <1>1, <3>1 DEF Lifecycle
      <4>2. e.key >= e.key
        BY <1>1, <2>2
      <4> QED
        BY <1>2, <3>3, <4>1, <4>2
    <3> QED
      BY <3>5, <3>6
  <2> QED
    BY <1>1, <2>1, <2>2
<1>6. OneBusy'
  BY OneBusy_Step DEF Course
<1>7. LastRequest'
  <2> SUFFICES ASSUME NEW e \in ledger', e.type = "interruptReq", Top(ledger') = e.key
               PROVE  Busy(e.turn)'
    BY DEF LastRequest, Of
  <2>1. CASE e \in New
    <3>1. New = {e} /\ Busy(e.turn)
      BY <2>1 DEF CourseStep, NewRequests
    <3>2. \A f \in New : ~Decides(f)
      BY <3>1 DEF Decides
    <3> QED
      BY <3>1, <3>2, Busy_Turns DEF CourseStep
  <2>2. CASE e \in ledger
    <3>1. \A f \in New : f \notin Lifecycle(ledger')
      BY <1>1, <1>2, <2>2
    <3>2. Lifecycle(ledger') = Lifecycle(ledger)
      BY <1>1, <1>3, <3>1 DEF Lifecycle
    <3>3. Top(ledger) = e.key
      BY <3>2 DEF Top
    <3>4. Busy(e.turn)
      BY <2>2, <3>3 DEF Course, LastRequest, Of
    <3>5. \A f \in New : ~Decides(f)
      BY <1>3, <3>1
    <3> QED
      BY <3>4, <3>5, Busy_Turns DEF CourseStep
  <2> QED
    BY <1>1, <2>1, <2>2
<1>8. RunningShown'
  <2> SUFFICES ASSUME NEW t, Running(t)'
               PROVE  \E f \in Decided(ledger') :
                        f.type \notin {"completed", "answered"} /\ \A g \in Decided(ledger') : g.key <= f.key
    BY DEF RunningShown
  <2>1. Running(t) \/ \E e \in New : e.type = "started" /\ e.turn = t
    BY Busy_Turns DEF CourseStep
  <2>2. CASE \A e \in New : ~Decides(e)
    <3>1. Running(t)
      BY <2>1, <2>2 DEF Decides, LifecycleTypes
    <3>2. Decided(ledger') = Decided(ledger)
      BY <1>3, <2>2
    <3> QED
      BY <3>1, <3>2 DEF Course, RunningShown
  <2>3. CASE \E e \in New : Decides(e)
    <3> DEFINE S == {e \in New : Decides(e)}
               f == Last(S)
    <3>1. S # {} /\ S \subseteq ledger'
      BY <1>1, <2>3
    <3>2. f \in S /\ \A e \in S : e.key <= f.key
      BY <3>1, Greatest_Key DEF Numbered, MaxKey
    <3> HIDE DEF f
    <3>3. f \in New /\ Decides(f) /\ f \in Decided(ledger')
      BY <1>3, <3>2
    <3>4. \A g \in Decided(ledger') : g.key <= f.key
      BY <1>1, <1>3, <3>2, <3>3
    <3>5. f.type \notin {"completed", "answered"}
      <4> SUFFICES ASSUME f.type \in {"completed", "answered"} PROVE FALSE
        OBVIOUS
      <4>1. ~ \E g \in New : Decides(g) /\ g.key > f.key
        BY <1>1, <3>2, <3>3
      <4>2. New = {f} /\ Running(f.turn)
        BY <3>3, <4>1 DEF CourseStep, NewOutcomes
      <4>3. Running(t)
        BY <2>1, <4>2
      <4>4. t = f.turn
        BY <4>2, <4>3 DEF Course, OneBusy, Busy
      <4>5. Closed(ledger', t)
        BY <1>1, <3>3, <4>4 DEF Closed, Terminals, TerminalTypes
      <4> QED
        BY <4>5 DEF Running
    <3> QED
      BY <3>3, <3>4, <3>5
  <2> QED
    BY <2>2, <2>3
<1>9. TurnsBegun'
  <2> SUFFICES ASSUME NEW e \in ledger', e.turn # NoTurn, Lifecycle(ledger') = {} PROVE FALSE
    BY DEF TurnsBegun, TurnsOf
  <2>1. TurnsOf(ledger) = {}
    BY <1>3 DEF Course, TurnsBegun
  <2>2. e \in New
    BY <1>1, <2>1 DEF TurnsOf
  <2>3. \E f \in New : Decides(f)
    BY <2>1, <2>2 DEF CourseStep, NewKnown
  <2> QED
    BY <1>3, <2>3
<1>10. UserTurnsNumbered'
  <2> SUFFICES ASSUME NEW e \in ledger', NEW i \in Nat, e.turn = UserTurn(i) PROVE i <= UserMessages'
    BY DEF UserTurnsNumbered
  <2>1. /\ UserMessages \in Nat /\ UserMessages' \in Nat /\ UserMessages <= UserMessages'
        /\ \A x \in New : IsMessage(x) => UserMessages + 1 <= UserMessages'
    BY Messages_Grow DEF CourseStep
  <2>2. ASSUME NEW x \in ledger, x.turn = UserTurn(i) PROVE i <= UserMessages'
    <3>1. i <= UserMessages
      BY <2>2 DEF Course, UserTurnsNumbered
    <3> QED
      BY <2>1, <3>1
  <2>3. ASSUME e \in New, e.turn \notin TurnsOf(ledger) PROVE i <= UserMessages'
    <3>1. e.turn[1] = "turn" /\ e.turn # NoTurn
      BY Turn_Ids
    <3>2. e.turn = NextTurn /\ \E m \in New : IsMessage(m)
      BY <2>3, <3>1 DEF CourseStep, NewKnown
    <3>3. UserTurn(i) = UserTurn(UserMessages + 1)
      BY <3>2, Next_Turn
    <3>4. i = UserMessages + 1
      BY <3>3 DEF UserTurn
    <3> QED
      BY <2>1, <3>2, <3>4
  <2>4. ASSUME e.turn \in TurnsOf(ledger) PROVE i <= UserMessages'
    BY <2>2, <2>4 DEF TurnsOf
  <2> QED
    BY <1>1, <2>2, <2>3, <2>4
<1> QED
  BY <1>4, <1>5, <1>6, <1>7, <1>8, <1>9, <1>10 DEF Course

\* An event that is stored has a key that no event had.
LEMMA Stored_New ==
  ASSUME LedgerInv, NEW e, NEW i \in Nat \ {0}, NEW type, NEW t, NEW k, Stored(e, i, type, t, k)
  PROVE  e \notin ledger
<1>1. Cardinality(ledger) \in Nat
  BY FS_CardinalityType DEF LedgerInv
<1>2. e.key > Cardinality(ledger)
  BY <1>1 DEF Stored
<1> QED
  BY <1>1, <1>2 DEF LedgerInv

\* A batch of one event.
LEMMA One_Course ==
  ASSUME LedgerInv, Appended, NEW type, NEW t, NEW k, NEW e, Stored(e, 1, type, t, k), Adds({e}),
         type \in {"submitted", "started"} => ~Closed(ledger, t),
         type = "interruptReq" => Busy(t) /\ ~Has(ledger, "interruptReq", t),
         type = "started" => Idle,
         type # "question",
         type \in {"completed", "answered"} => Running(t),
         t \in TurnsOf(ledger) \cup {NoTurn} \/ (t[1] # "turn" /\ type = "submitted"),
         type \in {"taskStart", "taskExit"} => k \in TasksOf(ledger) \/ Running(t)
  PROVE  CourseStep
<1>1. e.type = type /\ e.turn = t /\ e.task = k
  BY DEF Stored
<1>2. New = {e}
  <2>1. e \notin ledger
    BY Stored_New
  <2> QED
    BY <2>1 DEF New, Adds
<1>3. NewBoundaries
  BY <1>1, <1>2 DEF NewBoundaries, TerminalTypes
<1>4. NewRequests /\ NewStarts
  BY <1>1, <1>2 DEF NewRequests, NewStarts
<1>5. NewQuestions /\ NewOutcomes
  BY <1>1, <1>2 DEF NewQuestions, NewOutcomes
<1>6. NewKnown
  BY <1>1, <1>2 DEF NewKnown, Decides, LifecycleTypes
<1>7. NewTasksRun
  BY <1>1, <1>2 DEF NewTasksRun, IsTask
<1> QED
  BY <1>3, <1>4, <1>5, <1>6, <1>7 DEF CourseStep

\* The steps of a turn that store one event.
LEMMA Turn_Course ==
  ASSUME LedgerInv, Shape, Course, Appended, NEW t \in TurnsOf(ledger),
         \/ Start(t) \/ Reply(t) \/ TaskStart(t) \/ Complete(t) \/ Fail(t) \/ Stop(t)
         \/ (Stopped(t) /\ t[1] # "ask")
  PROVE  CourseStep
<1>1. \A type : Fields(Event(type, t), type, t, 0)
  BY Event_Fields
<1>2. ASSUME Start(t) PROVE CourseStep
  <2>1. PICK e : Stored(e, 1, "started", t, 0) /\ Adds({e})
    BY <1>1, <1>2, Publish_One DEF Start
  <2>2. Idle /\ ~Closed(ledger, t)
    BY <1>2 DEF Start
  <2> QED
    BY <2>1, <2>2, One_Course
<1>3. ASSUME NEW type \in {"reply", "failed", "interrupted"}, Publish(<<Event(type, t)>>) PROVE CourseStep
  <2>1. PICK e : Stored(e, 1, type, t, 0) /\ Adds({e})
    BY <1>1, <1>3, Publish_One
  <2> QED
    BY <2>1, One_Course
<1>4. ASSUME TaskStart(t) PROVE CourseStep
  <2> DEFINE k == Cardinality(TasksOf(ledger)) + 1
  <2>1. Publish(<<TaskEvent("taskStart", t, k)>>) /\ Fields(TaskEvent("taskStart", t, k), "taskStart", t, k)
    BY <1>4, Event_Fields DEF TaskStart
  <2>2. PICK e : Stored(e, 1, "taskStart", t, k) /\ Adds({e})
    BY <2>1, Publish_One
  <2>3. Running(t)
    BY <1>4 DEF TaskStart
  <2> HIDE DEF k
  <2> QED
    BY <2>2, <2>3, One_Course
<1>5. ASSUME Complete(t) PROVE CourseStep
  <2>1. PICK final : Publish(<<[Event("completed", t) EXCEPT !.final = final]>>)
    BY <1>5 DEF Complete
  <2>2. Fields([Event("completed", t) EXCEPT !.final = final], "completed", t, 0)
    BY Event_Fields
  <2>3. PICK e : Stored(e, 1, "completed", t, 0) /\ Adds({e})
    BY <2>1, <2>2, Publish_One
  <2>4. Running(t)
    BY <1>5 DEF Complete
  <2> QED
    BY <2>3, <2>4, One_Course
<1>6. ASSUME Stop(t) PROVE CourseStep
  <2>1. PICK e : Stored(e, 1, "interruptReq", t, 0) /\ Adds({e})
    BY <1>1, <1>6, Publish_One DEF Stop
  <2>2. Busy(t) /\ ~Has(ledger, "interruptReq", t)
    BY <1>6 DEF Stop, Busy
  <2> QED
    BY <2>1, <2>2, One_Course
<1> QED
  BY <1>2, <1>3, <1>4, <1>5, <1>6 DEF Reply, Fail, Stopped

\* The end of a task, a notice and the submit of a wake turn.
LEMMA Outer_Course ==
  ASSUME LedgerInv, Shape, Course, Appended
  PROVE  /\ \A k \in TasksOf(ledger) : TaskExit(k) => CourseStep
         /\ \A type \in {"status", "banner"} : Notice(type) => CourseStep
         /\ scope.gens \in Nat => \A k \in TasksOf(ledger), g \in 1..scope.gens : Wake(k, g) => CourseStep
<1>1. ASSUME NEW k \in TasksOf(ledger), TaskExit(k) PROVE CourseStep
  <2> DEFINE t == TaskTurn(ledger, k)
  <2>1. Publish(<<TaskEvent("taskExit", t, k)>>) /\ Fields(TaskEvent("taskExit", t, k), "taskExit", t, k)
    BY <1>1, Event_Fields DEF TaskExit
  <2>2. PICK e : Stored(e, 1, "taskExit", t, k) /\ Adds({e})
    BY <2>1, Publish_One
  <2>3. t \in TurnsOf(ledger)
    BY Task_Known
  <2> HIDE DEF t
  <2> QED
    BY <2>2, <2>3, One_Course
<1>2. ASSUME NEW type \in {"status", "banner"}, Notice(type) PROVE CourseStep
  <2>1. Publish(<<Event(type, NoTurn)>>) /\ Fields(Event(type, NoTurn), type, NoTurn, 0)
    BY <1>2, Event_Fields DEF Notice
  <2>2. PICK e : Stored(e, 1, type, NoTurn, 0) /\ Adds({e})
    BY <2>1, Publish_One
  <2> QED
    BY <2>2, One_Course
<1>3. ASSUME scope.gens \in Nat, NEW k \in TasksOf(ledger), NEW g \in 1..scope.gens, Wake(k, g) PROVE CourseStep
  <2> DEFINE t == WakeTurn(k, g)
  <2>1. Publish(<<TaskEvent("submitted", t, k)>>) /\ Fields(TaskEvent("submitted", t, k), "submitted", t, k)
    BY <1>3, Event_Fields DEF Wake
  <2>2. PICK e : Stored(e, 1, "submitted", t, k) /\ Adds({e})
    BY <2>1, Publish_One
  <2>3. t[1] = "wake" /\ t # NoTurn
    BY Turn_Ids
  <2>4. t \notin TurnsOf(ledger)
    <3>1. g \in g .. scope.gens
      BY <1>3
    <3>2. TurnsOf(ledger) \cap {WakeTurn(k, h) : h \in g .. scope.gens} = {}
      BY <1>3 DEF Wake
    <3> QED
      BY <3>1, <3>2
  <2>5. ~Closed(ledger, t)
    BY <2>3, <2>4 DEF Closed, Terminals, TurnsOf
  <2> HIDE DEF t
  <2> QED
    BY <2>2, <2>3, <2>5, One_Course
<1> QED
  BY <1>1, <1>2, <1>3

\* The turn of the next message has no events.
LEMMA Next_Fresh ==
  ASSUME LedgerInv, Course
  PROVE  \A e \in ledger : e.turn # NextTurn
<1> SUFFICES ASSUME NEW e \in ledger, e.turn = NextTurn PROVE FALSE
  OBVIOUS
<1>1. UserMessages \in Nat /\ e.turn = UserTurn(UserMessages + 1)
  BY Next_Turn
<1>2. UserMessages + 1 \in Nat
  BY <1>1, SMT
<1>3. UserMessages + 1 <= UserMessages
  BY <1>1, <1>2, Zenon DEF Course, UserTurnsNumbered
<1> QED
  BY <1>1, <1>3, SMT

\* Submit, and the two terminals of a question that is dismissed.
LEMMA Pairs_Course ==
  ASSUME LedgerInv, Shape, Course, Appended
  PROVE  /\ Submit => CourseStep
         /\ \A t \in TurnsOf(ledger) : Stopped(t) /\ t[1] = "ask" => CourseStep
<1>1. \A type, t : Fields(Event(type, t), type, t, 0)
  BY Event_Fields
<1>2. ASSUME Submit PROVE CourseStep
  <2> DEFINE t == NextTurn
  <2>1. Publish(<<Event("user", t), Event("submitted", t)>>)
    BY <1>2 DEF Submit, UserSubmission
  <2>0. Fields(Event("user", t), "user", t, 0) /\ Fields(Event("submitted", t), "submitted", t, 0)
    BY <1>1
  <2>2. PICK e, f : Stored(e, 1, "user", t, 0) /\ Stored(f, 2, "submitted", t, 0) /\ Adds({e, f})
    BY <2>0, <2>1, Publish_Two
  <2>3. ~Closed(ledger, t)
    BY Next_Fresh DEF Closed, Terminals
  <2>4. e \notin ledger /\ f \notin ledger
    BY <2>2, Stored_New
  <2>5. New = {e, f}
    BY <2>2, <2>4 DEF New, Adds
  <2>6. e.type = "user" /\ e.turn = t /\ f.type = "submitted" /\ f.turn = t
    BY <2>2 DEF Stored
  <2>7. NewBoundaries /\ NewRequests /\ NewStarts /\ NewQuestions /\ NewOutcomes
    BY <2>3, <2>5, <2>6 DEF NewBoundaries, NewRequests, NewStarts, NewQuestions, NewOutcomes, TerminalTypes
  <2>8. NewKnown /\ NewTasksRun
    BY <2>5, <2>6 DEF NewKnown, NewTasksRun, IsMessage, IsTask, Decides, LifecycleTypes
  <2> QED
    BY <2>7, <2>8 DEF CourseStep
<1>3. ASSUME NEW t \in TurnsOf(ledger), Stopped(t), t[1] = "ask" PROVE CourseStep
  <2> DEFINE u == AskingTurn(t)
  <2>1. Publish(<<Event("interrupted", t), Event("interrupted", u)>>)
    BY <1>3 DEF Stopped
  <2>0. Fields(Event("interrupted", t), "interrupted", t, 0) /\ Fields(Event("interrupted", u), "interrupted", u, 0)
    BY <1>1
  <2>2. PICK e, f : Stored(e, 1, "interrupted", t, 0) /\ Stored(f, 2, "interrupted", u, 0) /\ Adds({e, f})
    BY <2>0, <2>1, Publish_Two
  <2>3. u \in TurnsOf(ledger)
    <3>1. t # NoTurn /\ \E x \in ledger : x.turn = t
      BY DEF TurnsOf
    <3>2. ~IsTurn(t)
      BY <1>3, Turn_Ids
    <3>3. IsQuestion(ledger, t)
      BY <3>1, <3>2 DEF Shape, TurnsShaped
    <3>4. PICK v : IsTurn(v) /\ t = AskTurn(v) /\ Has(ledger, "question", v)
      BY <3>3 DEF IsQuestion
    <3>5. u = v /\ v # NoTurn
      BY <3>4, Turn_Ids
    <3> QED
      BY <3>4, <3>5 DEF Has, TurnsOf
  <2>4. \A x \in New : x.type = "interrupted" /\ x.turn \in TurnsOf(ledger)
    BY <2>2, <2>3 DEF New, Adds, Stored
  <2>5. NewBoundaries /\ NewRequests /\ NewStarts /\ NewQuestions /\ NewOutcomes
    BY <2>4 DEF NewBoundaries, NewRequests, NewStarts, NewQuestions, NewOutcomes
  <2>6. NewKnown /\ NewTasksRun
    BY <2>4 DEF NewKnown, NewTasksRun, IsTask
  <2> QED
    BY <2>5, <2>6, <1>3 DEF CourseStep
<1> QED
  BY <1>2, <1>3

\* A question, and its answer.
LEMMA Questions_Course ==
  ASSUME LedgerInv, Shape, Course, Appended, NEW t \in TurnsOf(ledger)
  PROVE  (Ask(t) => CourseStep) /\ (Answer(t) => CourseStep)
<1> DEFINE q == AskTurn(t)
<1>1. q[1] = "ask"
  BY Turn_Ids
<1>2. ASSUME Ask(t) PROVE CourseStep
  <2>1. PICK e, f, g, h :
          /\ Stored(e, 1, "invocation", t, 0) /\ Stored(f, 2, "question", t, 0)
          /\ Stored(g, 3, "submitted", q, 0) /\ Stored(h, 4, "awaiting", q, 0)
          /\ Adds({e, f, g, h})
    BY <1>2, Ask_Events
  <2>2. e \notin ledger /\ f \notin ledger /\ g \notin ledger /\ h \notin ledger
    BY <2>1, Stored_New
  <2>3. New = {e, f, g, h}
    BY <2>1, <2>2 DEF New, Adds
  <2>4. /\ e.type = "invocation" /\ e.turn = t /\ f.type = "question" /\ f.turn = t
        /\ g.type = "submitted" /\ g.turn = q /\ h.type = "awaiting" /\ h.turn = q
    BY <2>1 DEF Stored
  <2>5. Running(t) /\ ~Has(ledger, "question", t)
    BY <1>2 DEF Ask, Running, Asked
  <2>6. IsTurn(t)
    BY <2>5 DEF Running, Has, Shape, AgentsAsk
  <2>7. ~Closed(ledger, q)
    <3> SUFFICES ASSUME NEW x \in ledger, x.turn = q PROVE FALSE
      BY DEF Closed, Terminals
    <3>1. ~IsTurn(q) /\ q # NoTurn
      BY <1>1, Turn_Ids
    <3>2. IsQuestion(ledger, q)
      BY <3>1 DEF Shape, TurnsShaped
    <3>3. PICK v : IsTurn(v) /\ q = AskTurn(v) /\ Has(ledger, "question", v)
      BY <3>2 DEF IsQuestion
    <3>4. v = t
      BY <2>6, <3>3, Turn_Ids
    <3> QED
      BY <2>5, <3>3, <3>4
  <2> HIDE DEF q
  <2>8. NewBoundaries /\ NewRequests /\ NewStarts /\ NewOutcomes
    BY <2>3, <2>4, <2>7 DEF NewBoundaries, NewRequests, NewStarts, NewOutcomes, TerminalTypes
  <2>9. Decides(g)
    BY <2>4 DEF Decides, LifecycleTypes
  <2>10. NewQuestions /\ NewTasksRun
    BY <2>3, <2>4, <2>5, <2>9 DEF NewQuestions, NewTasksRun, IsTask
  <2>11. NewKnown
    BY <1>1, <2>3, <2>4, <2>9 DEF NewKnown
  <2> QED
    BY <2>8, <2>10, <2>11 DEF CourseStep
<1>3. ASSUME Answer(t) PROVE CourseStep
  <2> DEFINE u == NextTurn
  <2>1. PICK d, e, f :
          /\ Stored(d, 1, "answered", q, 0) /\ Stored(e, 2, "user", u, 0)
          /\ Stored(f, 3, "submitted", u, 0) /\ Adds({d, e, f})
    BY <1>3, Answer_Events
  <2>2. d \notin ledger /\ e \notin ledger /\ f \notin ledger
    BY <2>1, Stored_New
  <2>3. New = {d, e, f}
    BY <2>1, <2>2 DEF New, Adds
  <2>4. /\ d.type = "answered" /\ d.turn = q /\ e.type = "user" /\ e.turn = u
        /\ f.type = "submitted" /\ f.turn = u
    BY <2>1 DEF Stored
  <2>5. d.key < f.key
    BY <2>1 DEF Appended, Stored
  <2>6. ~Closed(ledger, u) /\ u # q
    BY <1>1, Next_Fresh, Next_Turn DEF Closed, Terminals
  <2> HIDE DEF q
  <2>7. Decides(f) /\ Decides(d)
    BY <2>4 DEF Decides, LifecycleTypes
  <2>8. NewBoundaries /\ NewRequests /\ NewStarts
    BY <2>3, <2>4, <2>6 DEF NewBoundaries, NewRequests, NewStarts, TerminalTypes
  <2>9. NewQuestions /\ NewTasksRun /\ NewOutcomes
    BY <2>3, <2>4, <2>5, <2>7 DEF NewQuestions, NewTasksRun, NewOutcomes, IsTask
  <2>10. NewKnown
    BY <1>1, <2>3, <2>4, <2>7 DEF NewKnown, IsMessage
  <2> QED
    BY <2>8, <2>9, <2>10 DEF CourseStep
<1> QED
  BY <1>2, <1>3

\* Every step of the publishers, with the lemmas above.
LEMMA LedgerNext_Course ==
  ASSUME LedgerInv, Shape, Course, scope \in Scopes, LedgerNext
  PROVE  CourseStep
<1>1. Appended
  BY LedgerNext_Appends
<1>2. scope.gens \in Nat
  BY ScopesAssumption
<1>3. ASSUME NEW t \in TurnsOf(ledger),
             \/ Start(t) \/ Reply(t) \/ TaskStart(t) \/ Complete(t) \/ Fail(t)
             \/ Ask(t) \/ Answer(t) \/ Stop(t) \/ Stopped(t)
      PROVE  CourseStep
  BY <1>1, <1>3, Turn_Course, Questions_Course, Pairs_Course
<1>4. CASE Submit
  BY <1>1, <1>4, Pairs_Course
<1> QED
  BY <1>1, <1>2, <1>3, <1>4, Outer_Course DEF LedgerNext

\* No turn has begun in an empty ledger.
LEMMA CourseInit_Inv ==
  Init => Course
<1> SUFFICES ASSUME ledger = {} PROVE Course
  BY DEF Init, LedgerInit
<1>1. BoundaryFirst /\ RequestsFollow /\ LastRequest /\ UserTurnsNumbered
  BY DEF BoundaryFirst, RequestsFollow, LastRequest, UserTurnsNumbered, Of
<1>2. (\A t : ~Running(t)) /\ TurnsOf(ledger) = {}
  BY DEF Running, Has, TurnsOf
<1> QED
  BY <1>1, <1>2 DEF Course, OneBusy, RunningShown, TurnsBegun, Busy

\* An event is the last of a set when none has a greater key, the last but one
\* when one has.
LEMMA Rank_Last ==
  ASSUME NEW E, Numbered(E), NEW W, W \subseteq E
  PROVE  /\ \A e \in W :
              (\A f \in W : f.key <= e.key) =>
                Cardinality(W) >= 1 /\ InOrder(W)[Cardinality(W)] = e
         /\ \A e, p \in W :
              /\ p.key < e.key
              /\ \A f \in W : f.key <= e.key
              /\ \A f \in W : f.key <= p.key \/ f.key >= e.key
              => /\ Cardinality(W) >= 2 /\ InOrder(W)[Cardinality(W)] = e
                 /\ InOrder(W)[Cardinality(W) - 1] = p
<1> DEFINE n == Cardinality(W)
<1>1. /\ IsFiniteSet(W) /\ n \in Nat /\ \A e \in W : e.key \in Nat
      /\ \A e, f \in W : e.key = f.key => e = f
  BY FS_Subset, FS_CardinalityType DEF Numbered
<1>2. ASSUME NEW e \in W, \A f \in W : f.key <= e.key PROVE n >= 1 /\ InOrder(W)[n] = e
  <2>1. n >= 1
    BY <1>1, FS_EmptySet
  <2>2. n \in 1..n
    BY <1>1, <2>1
  <2>3. InOrder(W)[n] \in W /\ \A f \in W : f.key <= InOrder(W)[n].key
    BY <2>2, Ranked_In
  <2> DEFINE m == InOrder(W)[n]
  <2>4. m \in W /\ m.key <= e.key /\ e.key <= m.key
    BY <1>2, <2>3
  <2> HIDE DEF m, n
  <2>5. m.key = e.key
    BY <1>1, <2>4
  <2>6. m = e
    BY <1>1, <2>4, <2>5
  <2> QED
    BY <2>1, <2>6 DEF m
<1>3. ASSUME NEW e \in W, NEW p \in W, p.key < e.key, \A f \in W : f.key <= e.key,
             \A f \in W : f.key <= p.key \/ f.key >= e.key
      PROVE  n >= 2 /\ InOrder(W)[n] = e /\ InOrder(W)[n - 1] = p
  <2>1. InOrder(W)[n] = e
    BY <1>2, <1>3
  <2>2. e # p
    BY <1>1, <1>3
  <2>3. IsFiniteSet(W \ {e}) /\ Cardinality(W \ {e}) = n - 1
    BY <1>1, FS_RemoveElement
  <2>4. p \in W \ {e}
    BY <2>2
  <2>5. n - 1 >= 1
    <3>1. W \ {e} # {} /\ n - 1 \in Nat
      BY <2>3, <2>4, FS_CardinalityType
    <3> QED
      BY <2>3, <3>1, FS_EmptySet
  <2>6. n - 1 \in 1..n /\ n >= 2
    BY <1>1, <2>5
  <2> DEFINE m == InOrder(W)[n - 1]
  <2>7. m \in W /\ Cardinality(Before(W, m)) = n - 1 - 1
    BY <2>6, Ranked_In
  <2> HIDE DEF m
  <2>8. m # e
    <3>1. ASSUME m = e PROVE FALSE
      <4>1. Before(W, e) = W \ {e}
        BY <1>1, <1>3 DEF Before
      <4> QED
        BY <1>1, <2>3, <2>7, <3>1, <4>1
    <3> QED
      BY <3>1
  <2>9. m.key <= p.key
    <3>1. m.key <= e.key /\ m.key # e.key /\ m.key \in Nat /\ e.key \in Nat
      BY <1>1, <1>3, <2>7, <2>8
    <3> QED
      BY <1>3, <2>7, <3>1
  <2>10. m = p
    <3>1. ASSUME m # p PROVE FALSE
      <4>1. m.key < p.key
        BY <1>1, <2>7, <2>9, <3>1
      <4>2. Before(W, m) \subseteq ((W \ {e}) \ {p}) \ {m}
        BY <1>1, <1>3, <2>7, <2>9 DEF Before
      <4>3. IsFiniteSet((W \ {e}) \ {p}) /\ Cardinality((W \ {e}) \ {p}) = n - 1 - 1
        BY <2>3, <2>4, FS_RemoveElement
      <4>4. m \in (W \ {e}) \ {p}
        BY <2>7, <2>8, <3>1
      <4> DEFINE R == (W \ {e}) \ {p}
      <4> HIDE DEF R
      <4>5. IsFiniteSet(R \ {m}) /\ Cardinality(R \ {m}) = n - 1 - 1 - 1
        BY <4>3, <4>4, FS_RemoveElement DEF R
      <4>6. Cardinality(Before(W, m)) <= n - 1 - 1 - 1
        BY <4>2, <4>5, FS_Subset DEF R
      <4> QED
        BY <1>1, <2>7, <4>6
    <3> QED
      BY <3>1
  <2> QED
    BY <2>1, <2>6, <2>10 DEF m
<1> HIDE DEF n
<1>4. /\ \A e \in W : (\A f \in W : f.key <= e.key) => n >= 1 /\ InOrder(W)[n] = e
      /\ \A e, p \in W :
           /\ p.key < e.key
           /\ \A f \in W : f.key <= e.key
           /\ \A f \in W : f.key <= p.key \/ f.key >= e.key
           => n >= 2 /\ InOrder(W)[n] = e /\ InOrder(W)[n - 1] = p
  BY <1>2, <1>3
<1> QED
  BY <1>4 DEF n

\* What a summary shows after an event other than a request to stop.
ShownStatus(e) ==
  IF e.type \in DOMAIN Boundary THEN Boundary[e.type]
  ELSE IF e.type \in DOMAIN Outcome THEN Outcome[e.type] ELSE "needs_input"
ShownTurn(e) == IF e.type \in DOMAIN Outcome THEN NoTurn ELSE e.turn

\* One event.
LEMMA Fold_Shows ==
  ASSUME NEW s, Filled(s), NEW e, e.type \in LifecycleTypes, NEW done
  PROVE  /\ e.type # "interruptReq" /\ (e.type \in DOMAIN Boundary => e.turn \notin done) =>
              Fold(s, e, done).status = ShownStatus(e) /\ Fold(s, e, done).active = ShownTurn(e)
         /\ e.type = "interruptReq" =>
              /\ Fold(s, e, done).active = s.active
              /\ Fold(s, e, done).status = IF canTransitionToStopping(s.status) THEN "stopping" ELSE s.status
<1> DEFINE t == [s EXCEPT !.key = e.key]
<1>1. Filled(t) /\ t.status = s.status /\ t.active = s.active
  BY DEF Filled
<1>2. Fold(s, e, done) =
        CASE e.type \in DOMAIN Boundary ->
               IF e.turn \in done THEN t
               ELSE [t EXCEPT !.status = Boundary[e.type], !.active = e.turn]
          [] e.type \in DOMAIN Outcome ->
               [t EXCEPT !.status = Outcome[e.type], !.active = NoTurn]
          [] e.type = "awaiting" -> [t EXCEPT !.status = "needs_input", !.active = e.turn]
          [] e.type = "interruptReq" ->
               IF canTransitionToStopping(s.status) THEN [t EXCEPT !.status = "stopping"] ELSE t
  BY DEF Fold
<1> HIDE DEF t
<1>3. \A a, b : LET u == [t EXCEPT !.status = a, !.active = b] IN u.status = a /\ u.active = b
  BY <1>1 DEF Filled
<1>4. \A a : LET u == [t EXCEPT !.status = a] IN u.status = a /\ u.active = s.active
  BY <1>1 DEF Filled
<1>5. DOMAIN Boundary = {"submitted", "started"} /\ DOMAIN Outcome = TerminalTypes
  BY DEF Boundary, Outcome, TerminalTypes
<1>6. CASE e.type \in DOMAIN Boundary
  <2>1. e.type \notin DOMAIN Outcome /\ e.type # "awaiting" /\ e.type # "interruptReq"
    BY <1>5, <1>6 DEF TerminalTypes
  <2>2. e.turn \notin done =>
          Fold(s, e, done) = [t EXCEPT !.status = Boundary[e.type], !.active = e.turn]
    BY <1>2, <1>6, <2>1
  <2>3. ShownTurn(e) = e.turn /\ ShownStatus(e) = Boundary[e.type]
    BY <1>6, <2>1 DEF ShownTurn, ShownStatus
  <2>4. ASSUME e.turn \notin done
        PROVE  Fold(s, e, done).status = ShownStatus(e) /\ Fold(s, e, done).active = ShownTurn(e)
    <3>1. Fold(s, e, done) = [t EXCEPT !.status = Boundary[e.type], !.active = e.turn]
      BY <2>2, <2>4
    <3> QED
      BY <1>3, <2>3, <3>1
  <2> QED
    BY <1>6, <2>1, <2>4
<1>7. CASE e.type \in DOMAIN Outcome
  <2>1. e.type \notin DOMAIN Boundary /\ e.type # "awaiting" /\ e.type # "interruptReq"
    BY <1>5, <1>7 DEF TerminalTypes
  <2>2. Fold(s, e, done) = [t EXCEPT !.status = Outcome[e.type], !.active = NoTurn]
    BY <1>2, <1>7, <2>1
  <2>3. ShownTurn(e) = NoTurn /\ ShownStatus(e) = Outcome[e.type]
    BY <1>7, <2>1 DEF ShownTurn, ShownStatus
  <2> QED
    BY <1>3, <2>1, <2>2, <2>3
<1>8. CASE e.type = "awaiting"
  <2>1. e.type \notin DOMAIN Boundary /\ e.type \notin DOMAIN Outcome /\ e.type # "interruptReq"
    BY <1>5, <1>8 DEF TerminalTypes
  <2>2. Fold(s, e, done) = [t EXCEPT !.status = "needs_input", !.active = e.turn]
    BY <1>2, <1>8, <2>1
  <2>3. ShownTurn(e) = e.turn /\ ShownStatus(e) = "needs_input"
    BY <2>1 DEF ShownTurn, ShownStatus
  <2> QED
    BY <1>3, <2>1, <2>2, <2>3
<1>9. CASE e.type = "interruptReq"
  <2>1. e.type \notin DOMAIN Boundary /\ e.type \notin DOMAIN Outcome /\ e.type # "awaiting"
    BY <1>5, <1>9 DEF TerminalTypes
  <2>2. Fold(s, e, done) = IF canTransitionToStopping(s.status) THEN [t EXCEPT !.status = "stopping"] ELSE t
    BY <1>2, <1>9, <2>1
  <2> QED
    BY <1>1, <1>4, <1>9, <2>2
<1> QED
  BY <1>5, <1>6, <1>7, <1>8, <1>9 DEF LifecycleTypes, TerminalTypes

\* The last events of the life cycle: the last one, and the last one that is no
\* request to stop.
LEMMA Decided_Last ==
  ASSUME Numbered(ledger), Course, Lifecycle(ledger) # {}
  PROVE  LET m == Last(Lifecycle(ledger))
             p == Last(Decided(ledger))
         IN /\ m \in Lifecycle(ledger) /\ \A f \in Lifecycle(ledger) : f.key <= m.key
            /\ p \in Decided(ledger) /\ \A f \in Decided(ledger) : f.key <= p.key
            /\ m.type # "interruptReq" => m = p
            /\ m.type = "interruptReq" =>
                 p.key < m.key /\ \A f \in Lifecycle(ledger) : f.key <= p.key \/ f.key >= m.key
<1> DEFINE L == Lifecycle(ledger)
           D == Decided(ledger)
           m == Last(L)
           p == Last(D)
<1>1. /\ IsFiniteSet(ledger) /\ L \subseteq ledger /\ D \subseteq L /\ \A e \in ledger : e.key \in Nat
      /\ \A e, f \in L : e.key = f.key => e = f
      /\ \A e \in L : e.type # "interruptReq" => e \in D
  BY FS_CardinalityType DEF Numbered, Lifecycle, Decided
<1> HIDE DEF L, D
<1>2. m \in L /\ \A f \in L : f.key <= m.key
  BY <1>1, Greatest_Key DEF Numbered, MaxKey, L
<1>3. ASSUME m.type = "interruptReq"
      PROVE  \E f \in D : f.key < m.key /\ \A g \in L : g.key <= f.key \/ g.key >= m.key
  <2>1. m \in Of(ledger, "interruptReq")
    BY <1>1, <1>2, <1>3 DEF Of
  <2> HIDE DEF m
  <2> QED
    BY <2>1 DEF Course, RequestsFollow, L, D
<1>4. D # {}
  BY <1>1, <1>2, <1>3
<1>5. p \in D /\ \A f \in D : f.key <= p.key
  <2>1. D \subseteq ledger
    BY <1>1
  <2> QED
    BY <1>1, <1>4, <2>1, Greatest_Key DEF Numbered, MaxKey
<1> HIDE DEF m, p
<1>6. p \in L /\ p.key \in Nat /\ m.key \in Nat
  BY <1>1, <1>2, <1>5
<1>7. ASSUME m.type # "interruptReq" PROVE m = p
  <2>1. m \in D
    BY <1>1, <1>2, <1>7
  <2>2. m.key <= p.key /\ p.key <= m.key
    BY <1>2, <1>5, <1>6, <2>1
  <2> QED
    BY <1>1, <1>2, <1>6, <2>2
<1>8. ASSUME m.type = "interruptReq"
      PROVE  p.key < m.key /\ \A f \in L : f.key <= p.key \/ f.key >= m.key
  <2>1. PICK f \in D : f.key < m.key /\ \A g \in L : g.key <= f.key \/ g.key >= m.key
    BY <1>3, <1>8
  <2>2. f \in L /\ f.key \in Nat /\ f.key <= p.key
    BY <1>1, <1>5, <2>1
  <2>3. p.key <= f.key
    <3>1. ASSUME p.key >= m.key PROVE FALSE
      <4>1. p.key = m.key
        BY <1>2, <1>6, <3>1
      <4>2. p = m
        BY <1>1, <1>2, <1>6, <4>1
      <4>3. p.type # "interruptReq"
        BY <1>5 DEF D, Decided
      <4> QED
        BY <1>8, <4>2, <4>3
    <3> QED
      BY <1>6, <2>1, <3>1
  <2>4. p.key = f.key
    BY <1>6, <2>2, <2>3
  <2> QED
    BY <2>1, <2>4
<1> QED
  BY <1>2, <1>5, <1>7, <1>8 DEF L, D, m, p

\* What the summary of the ledger shows, before the pending wakes are looked at.
DerivedStatus(E) ==
  LET shown == ShownStatus(Last(Decided(E)))
  IN IF Last(Lifecycle(E)).type = "interruptReq" /\ canTransitionToStopping(shown) THEN "stopping" ELSE shown
DerivedTurn(E) == ShownTurn(Last(Decided(E)))

\* The fold over the whole life cycle and over the events of a window end with it,
\* whatever the summary they start from.
LEMMA Derive_Shows ==
  ASSUME Numbered(ledger), Course, Lifecycle(ledger) # {}, NEW prior, Filled(prior),
         NEW W, W \in {Lifecycle(ledger), LatestLifecycleEvents(ledger)}
  PROVE  /\ Derive(prior, W).status = DerivedStatus(ledger)
         /\ Derive(prior, W).active = DerivedTurn(ledger)
         /\ Filled(Derive(prior, W))
<1> DEFINE L == Lifecycle(ledger)
           m == Last(L)
           p == Last(Decided(ledger))
           n == Cardinality(W)
<1>1. /\ m \in L /\ \A f \in L : f.key <= m.key
      /\ p \in Decided(ledger) /\ \A f \in Decided(ledger) : f.key <= p.key
      /\ m.type # "interruptReq" => m = p
      /\ m.type = "interruptReq" => p.key < m.key /\ \A f \in L : f.key <= p.key \/ f.key >= m.key
  BY Decided_Last
<1>2. /\ L \subseteq ledger /\ W \subseteq L /\ W \subseteq ledger /\ \A e \in W : e.type \in LifecycleTypes
      /\ p \in L /\ p.type # "interruptReq"
      /\ \A e \in L : e.key \in Nat
      /\ \A e, f \in L : e.key = f.key => e = f
  <2>1. L \subseteq ledger /\ W \subseteq L /\ \A e \in L : e.type \in LifecycleTypes
    BY DEF Lifecycle, LatestLifecycleEvents
  <2>2. p \in L /\ p.type # "interruptReq"
    BY <1>1 DEF Decided
  <2>3. (\A e \in ledger : e.key \in Nat) /\ \A e, f \in ledger : e.key = f.key => e = f
    BY FS_CardinalityType DEF Numbered
  <2> HIDE DEF L, p
  <2> QED
    BY <2>1, <2>2, <2>3
<1> HIDE DEF m, p, n
<1>3. m \in W /\ p \in W
  <2>1. CASE W = L
    BY <1>1, <1>2, <2>1
  <2>2. CASE W = LatestLifecycleEvents(ledger)
    <3>1. \A e \in L : Cardinality({f \in L : f.key > e.key}) < Window => e \in W
      BY <2>2, Zenon DEF LatestLifecycleEvents, L
    <3>2. 0 < Window /\ 1 < Window
      BY ActivityAssumption
    <3>3. {f \in L : f.key > m.key} = {}
      BY <1>1, <1>2
    <3>4. m \in W
      <4>1. Cardinality({f \in L : f.key > m.key}) < Window
        BY <3>2, <3>3, FS_EmptySet
      <4> QED
        BY <1>1, <3>1, <4>1
    <3>5. m.type = "interruptReq" => p \in W
      <4>1. ASSUME m.type = "interruptReq" PROVE {f \in L : f.key > p.key} = {m}
        BY <1>1, <1>2, <4>1
      <4>2. ASSUME m.type = "interruptReq" PROVE Cardinality({f \in L : f.key > p.key}) < Window
        BY <3>2, <4>1, <4>2, FS_Singleton
      <4> QED
        BY <1>2, <3>1, <4>2
    <3> QED
      BY <1>1, <3>4, <3>5
  <2> QED
    BY <2>1, <2>2
<1>4. PICK at : Steps(prior, W, at)
  BY <1>2, Derive_Steps
<1>5. /\ n \in Nat /\ Derive(prior, W) = at[n]
      /\ \A k \in 1..n : at[k] = Fold(at[k - 1], InOrder(W)[k], EndedBefore(W, InOrder(W)[k]))
      /\ \A k \in 0..n : Filled(at[k])
  BY <1>4 DEF Steps, FoldIn, n
<1>6. n >= 1 /\ InOrder(W)[n] = m
  BY <1>1, <1>2, <1>3, Rank_Last DEF n
<1>7. n \in 1..n /\ n - 1 \in 0..n /\ n \in 0..n
  BY <1>5, <1>6
<1>8. Derive(prior, W) = Fold(at[n - 1], m, EndedBefore(W, m))
  BY <1>5, <1>6, <1>7
<1>9. p.type \in DOMAIN Boundary => p.turn \notin EndedBefore(W, p)
  <2> SUFFICES ASSUME p.type \in DOMAIN Boundary, NEW g \in W, g.type \in TurnTerminals,
                      g.key < p.key, g.turn = p.turn
               PROVE  FALSE
    BY DEF EndedBefore
  <2>1. p.type \in {"submitted", "started"} /\ g.type \in TerminalTypes
    BY DEF Boundary, TurnTerminals, TerminalTypes
  <2>2. p.key < g.key
    BY <1>2, <2>1 DEF Course, BoundaryFirst
  <2> QED
    BY <1>2, <2>2
<1>10. \A s : Filled(s) => /\ Fold(s, p, EndedBefore(W, p)).status = ShownStatus(p)
                          /\ Fold(s, p, EndedBefore(W, p)).active = ShownTurn(p)
  BY <1>2, <1>3, <1>9, Fold_Shows
<1>11. CASE m.type # "interruptReq"
  <2>1. m = p
    BY <1>1, <1>11
  <2>2. /\ Derive(prior, W).status = ShownStatus(p)
        /\ Derive(prior, W).active = ShownTurn(p)
    BY <1>5, <1>7, <1>8, <1>10, <2>1
  <2> QED
    BY <1>5, <1>7, <1>11, <2>2 DEF DerivedStatus, DerivedTurn, L, m, p
<1>12. CASE m.type = "interruptReq"
  <2>1. n >= 2 /\ InOrder(W)[n - 1] = p
    BY <1>1, <1>2, <1>3, <1>12, Rank_Last DEF n
  <2>2. n - 1 \in 1..n /\ n - 1 - 1 \in 0..n
    BY <1>5, <2>1
  <2>3. at[n - 1] = Fold(at[n - 1 - 1], p, EndedBefore(W, p))
    BY <1>5, <2>1, <2>2
  <2>4. at[n - 1].status = ShownStatus(p) /\ at[n - 1].active = ShownTurn(p)
    BY <1>5, <1>10, <2>2, <2>3
  <2>5. Filled(at[n - 1]) /\ m.type \in LifecycleTypes
    BY <1>2, <1>3, <1>5, <1>7
  <2>6. /\ Derive(prior, W).active = ShownTurn(p)
        /\ Derive(prior, W).status =
             IF canTransitionToStopping(ShownStatus(p)) THEN "stopping" ELSE ShownStatus(p)
    BY <1>8, <1>12, <2>4, <2>5, Fold_Shows
  <2> QED
    BY <1>5, <1>7, <1>12, <2>6 DEF DerivedStatus, DerivedTurn, L, m, p
<1> QED
  BY <1>11, <1>12

\* The statuses that one event leaves.
LEMMA Shown_Status ==
  ASSUME NEW e, e.type \in LifecycleTypes \ {"interruptReq"}
  PROVE  /\ ShownStatus(e) \notin {"scheduled", "stopping"}
         /\ ShownStatus(e) = "ready" <=> e.type \in {"completed", "answered"}
         /\ ShownStatus(e) = "needs_input" <=> e.type = "awaiting"
         /\ canTransitionToStopping(ShownStatus(e)) <=> e.type \in {"submitted", "started", "awaiting"}
         /\ ShownTurn(e) = IF e.type \in TerminalTypes THEN NoTurn ELSE e.turn
<1>1. DOMAIN Boundary = {"submitted", "started"} /\ DOMAIN Outcome = TerminalTypes
  BY DEF Boundary, Outcome, TerminalTypes
<1>2. Boundary["submitted"] = "submitted" /\ Boundary["started"] = "streaming"
  BY DEF Boundary
<1>3. /\ Outcome["completed"] = "ready" /\ Outcome["failed"] = "error"
      /\ Outcome["interrupted"] = "stopped" /\ Outcome["answered"] = "ready"
  BY DEF Outcome
<1>4. e.type \in {"submitted", "started", "completed", "failed", "interrupted", "awaiting", "answered"}
  BY DEF LifecycleTypes
<1>5. ShownTurn(e) = IF e.type \in TerminalTypes THEN NoTurn ELSE e.turn
  BY <1>1 DEF ShownTurn
<1>6. ShownStatus(e) = IF e.type \in {"submitted", "started"} THEN Boundary[e.type]
                       ELSE IF e.type \in TerminalTypes THEN Outcome[e.type] ELSE "needs_input"
  BY <1>1 DEF ShownStatus
<1> QED
  BY <1>2, <1>3, <1>4, <1>5, <1>6 DEF TerminalTypes, canTransitionToStopping

\* What the summary of the ledger shows.
SettledStatus(E) ==
  IF Lifecycle(E) = {} THEN "ready"
  ELSE IF DerivedStatus(E) = "ready" /\ HasPendingWake(E) THEN "scheduled" ELSE DerivedStatus(E)
SettledTurn(E) == IF Lifecycle(E) = {} THEN NoTurn ELSE DerivedTurn(E)

\* A session whose life cycle has not begun has no task.
LEMMA No_Tasks ==
  ASSUME Shape, Course, Lifecycle(ledger) = {}
  PROVE  ~HasPendingWake(ledger)
<1>1. TurnsOf(ledger) = {}
  BY DEF Course, TurnsBegun
<1>2. \A e \in ledger : ~IsTask(e)
  BY <1>1 DEF TurnsOf, Shape, NoticesApart, IsTask
<1>3. TasksOf(ledger) = {}
  BY <1>2 DEF TasksOf, IsTask
<1> QED
  BY <1>3 DEF HasPendingWake

\* While a turn is stopping, it has no terminal.
LEMMA Stopping_Open ==
  ASSUME Numbered(ledger), Shape, Course, Lifecycle(ledger) # {}, DerivedStatus(ledger) = "stopping"
  PROVE  \A e \in ledger : e.type \in TurnTerminals => e.turn # DerivedTurn(ledger)
<1> DEFINE p == Last(Decided(ledger))
<1>1. p \in Decided(ledger) /\ \A f \in Decided(ledger) : f.key <= p.key
  BY Decided_Last
<1> HIDE DEF p
<1>2. p \in ledger /\ p.type \in LifecycleTypes \ {"interruptReq"}
  BY <1>1 DEF Decided, Lifecycle
<1>3. p.type \in {"submitted", "started", "awaiting"} /\ DerivedTurn(ledger) = p.turn
  <2>1. canTransitionToStopping(ShownStatus(p))
    BY <1>2, Shown_Status DEF DerivedStatus, p
  <2>2. p.type \in {"submitted", "started", "awaiting"}
    BY <1>2, <2>1, Shown_Status
  <2>3. p.type \notin TerminalTypes
    BY <2>2 DEF TerminalTypes
  <2> QED
    BY <1>2, <2>2, <2>3, Shown_Status DEF DerivedTurn, p
<1> SUFFICES ASSUME NEW e \in ledger, e.type \in TurnTerminals, e.turn = p.turn PROVE FALSE
  BY <1>3
<1>4. e \in Decided(ledger) /\ e.type \in TerminalTypes
  BY DEF Decided, Lifecycle, LifecycleTypes, TurnTerminals, TerminalTypes
<1>5. p.key < e.key
  BY <1>2, <1>3, <1>4 DEF Shape, PauseFirst, Course, BoundaryFirst
<1>6. e.key <= p.key /\ e.key \in Nat /\ p.key \in Nat
  BY <1>1, <1>2, <1>4, FS_CardinalityType DEF Numbered
<1> QED
  BY <1>5, <1>6

\* A refresh shows what the ledger shows, whatever the summary it starts from.
LEMMA Refresh_Settles ==
  ASSUME Numbered(ledger), Shape, Course, NEW prior, Filled(prior),
         Lifecycle(ledger) = {} => prior.status = "ready" /\ prior.active = NoTurn,
         NEW W, W \in {Lifecycle(ledger), LatestLifecycleEvents(ledger)}
  PROVE  LET s == ScheduledOverride(ledger, ResolveStopping(ledger, Derive(prior, W)))
         IN /\ s.status = SettledStatus(ledger) /\ s.active = SettledTurn(ledger)
            /\ Filled(s) /\ s.key = Derive(prior, W).key
<1> DEFINE d == Derive(prior, W)
           r == ResolveStopping(ledger, d)
           o == ScheduledOverride(ledger, r)
           status == IF Lifecycle(ledger) = {} THEN "ready" ELSE DerivedStatus(ledger)
<1>1. W \subseteq ledger /\ (\A e \in W : e.type \in LifecycleTypes)
      /\ (Lifecycle(ledger) = {} => W = {})
  BY DEF Lifecycle, LatestLifecycleEvents
<1>2. d.status = status /\ d.active = SettledTurn(ledger) /\ Filled(d)
  <2>1. CASE Lifecycle(ledger) = {}
    <3>1. PICK at : Steps(prior, W, at)
      BY <1>1, Derive_Steps
    <3>2. Cardinality(W) = 0
      BY <1>1, <2>1, FS_EmptySet
    <3>3. d = prior
      BY <3>1, <3>2 DEF Steps
    <3> QED
      BY <2>1, <3>3 DEF SettledTurn
  <2>2. CASE Lifecycle(ledger) # {}
    BY <2>2, Derive_Shows DEF SettledTurn
  <2> QED
    BY <2>1, <2>2
<1> HIDE DEF d
<1>3. r = d
  <2>1. CASE d.status # "stopping"
    BY <2>1 DEF ResolveStopping
  <2>2. CASE d.status = "stopping"
    <3>1. Lifecycle(ledger) # {} /\ DerivedStatus(ledger) = "stopping" /\ d.active = DerivedTurn(ledger)
      BY <1>2, <2>2 DEF SettledTurn
    <3>2. {e \in ledger : e.type \in TurnTerminals /\ e.turn = d.active} = {}
      BY <3>1, Stopping_Open
    <3> QED
      BY <3>2 DEF ResolveStopping
  <2> QED
    BY <2>1, <2>2
<1> HIDE DEF r
<1>4. status # "scheduled"
  <2>1. CASE Lifecycle(ledger) = {}
    BY <2>1
  <2>2. CASE Lifecycle(ledger) # {}
    <3>1. Last(Decided(ledger)) \in Decided(ledger)
      BY <2>2, Decided_Last
    <3>2. Last(Decided(ledger)).type \in LifecycleTypes \ {"interruptReq"}
      BY <3>1 DEF Decided, Lifecycle
    <3>3. ShownStatus(Last(Decided(ledger))) # "scheduled"
      BY <3>2, Shown_Status
    <3> QED
      BY <2>2, <3>3 DEF DerivedStatus
  <2> QED
    BY <2>1, <2>2
<1>5. SettledStatus(ledger) = IF status = "ready" /\ HasPendingWake(ledger) THEN "scheduled" ELSE status
  BY No_Tasks DEF SettledStatus
<1> HIDE DEF status
<1>6. o = IF status = "ready" /\ HasPendingWake(ledger) THEN [d EXCEPT !.status = "scheduled"] ELSE d
  BY <1>2, <1>3, <1>4 DEF ScheduledOverride
<1> HIDE DEF o
<1>7. /\ o.status = SettledStatus(ledger) /\ o.active = SettledTurn(ledger)
      /\ Filled(o) /\ o.key = d.key
  BY <1>2, <1>5, <1>6 DEF Filled
<1> QED
  BY <1>7, Zenon DEF o, r, d

\* A summary with the ledger's key shows what the ledger shows.
Settles(s) ==
  s.key = Top(ledger) => s.status = SettledStatus(ledger) /\ s.active = SettledTurn(ledger)
SettlesInv ==
  /\ Settles(summary)
  /\ \A j \in Jobs :
       /\ RowRead(job[j]) => Settles(job[j].prior)
       /\ Folded(job[j]) => Settles(job[j].next)

\* What is stored without an event of the life cycle changes nothing that the ledger
\* shows: a task begins only while a turn runs.
LEMMA Shown_Kept ==
  ASSUME Numbered(ledger), Shape, Course, CourseStep, Lifecycle(ledger') = Lifecycle(ledger)
  PROVE  SettledStatus(ledger') = SettledStatus(ledger) /\ SettledTurn(ledger') = SettledTurn(ledger)
<1>1. Decided(ledger') = Decided(ledger)
  BY DEF Decided
<1>2. DerivedStatus(ledger') = DerivedStatus(ledger) /\ DerivedTurn(ledger') = DerivedTurn(ledger)
  BY <1>1 DEF DerivedStatus, DerivedTurn
<1>3. ledger \subseteq ledger' /\ ledger' = ledger \cup New
  BY DEF CourseStep, Appended, New
<1>4. \A e \in New : ~Decides(e)
  BY <1>3 DEF Decides, Lifecycle, New
<1>5. TurnsOf(ledger') = TurnsOf(ledger)
  <2>1. \A e \in New : e.turn \in TurnsOf(ledger) \cup {NoTurn}
    BY <1>4 DEF CourseStep, NewKnown
  <2>2. TurnsOf(ledger) \subseteq TurnsOf(ledger')
    BY <1>3 DEF TurnsOf
  <2>3. ASSUME NEW t \in TurnsOf(ledger') PROVE t \in TurnsOf(ledger)
    <3>1. PICK e \in ledger' : e.turn = t
      BY DEF TurnsOf
    <3>2. t # NoTurn
      BY DEF TurnsOf
    <3>3. e \in ledger => t \in TurnsOf(ledger)
      BY <3>1, <3>2 DEF TurnsOf
    <3> QED
      BY <1>3, <2>1, <3>1, <3>2, <3>3
  <2> QED
    BY <2>2, <2>3
<1>6. CASE TasksOf(ledger') = TasksOf(ledger)
  <2>1. HasPendingWake(ledger') = HasPendingWake(ledger)
    BY <1>5, <1>6 DEF HasPendingWake
  <2> QED
    BY <1>2, <2>1 DEF SettledStatus, SettledTurn
<1>7. CASE TasksOf(ledger') # TasksOf(ledger)
  <2>1. PICK e \in New : IsTask(e) /\ e.task \notin TasksOf(ledger)
    <3>1. TasksOf(ledger) \subseteq TasksOf(ledger')
      BY <1>3 DEF TasksOf
    <3>2. PICK k \in TasksOf(ledger') : k \notin TasksOf(ledger)
      BY <1>7, <3>1
    <3>3. PICK e \in ledger' : IsTask(e) /\ e.task = k
      BY <3>2 DEF TasksOf, IsTask
    <3>4. e \notin ledger
      BY <3>2, <3>3 DEF TasksOf, IsTask
    <3> QED
      BY <1>3, <3>2, <3>3, <3>4
  <2>2. Running(e.turn)
    BY <2>1 DEF CourseStep, NewTasksRun
  <2>3. PICK f \in Decided(ledger) :
          f.type \notin {"completed", "answered"} /\ \A g \in Decided(ledger) : g.key <= f.key
    BY <2>2 DEF Course, RunningShown
  <2>4. Lifecycle(ledger) # {} /\ f \in ledger /\ f.type \in LifecycleTypes \ {"interruptReq"}
    BY <2>3 DEF Decided, Lifecycle
  <2>5. Last(Decided(ledger)) = f
    <3>1. /\ Last(Decided(ledger)) \in Decided(ledger)
          /\ \A g \in Decided(ledger) : g.key <= Last(Decided(ledger)).key
      BY <2>4, Decided_Last
    <3> DEFINE p == Last(Decided(ledger))
    <3> HIDE DEF p
    <3>2. p \in ledger /\ p.key <= f.key /\ f.key <= p.key
      BY <2>3, <3>1 DEF Decided, Lifecycle, p
    <3>3. p.key = f.key
      BY <2>4, <3>2, FS_CardinalityType DEF Numbered
    <3> QED
      BY <2>4, <3>2, <3>3 DEF Numbered, p
  <2>6. DerivedStatus(ledger) # "ready"
    BY <2>3, <2>4, <2>5, Shown_Status DEF DerivedStatus
  <2> QED
    BY <1>2, <2>6 DEF SettledStatus, SettledTurn
<1> QED
  BY <1>6, <1>7

\* No event has been folded into the first summary.
LEMMA SettlesInit_Inv ==
  Init => SettlesInv
<1> SUFFICES ASSUME Init PROVE SettlesInv
  OBVIOUS
<1>1. ledger = {} /\ summary = NoSummary /\ \A j \in Jobs : job[j] = NoJob
  BY DEF Init, LedgerInit, ActivityInit
<1>2. Lifecycle(ledger) = {}
  BY <1>1 DEF Lifecycle
<1>3. NoSummary.status = "ready" /\ NoSummary.active = NoTurn
  BY DEF NoSummary, Summary
<1>4. ~RowRead(NoJob) /\ ~Folded(NoJob)
  BY DEF NoJob, RowRead, Folded
<1> QED
  BY <1>1, <1>2, <1>3, <1>4 DEF SettlesInv, Settles, SettledStatus, SettledTurn

\* Stored events: a summary that has the key of the ledger afterwards had it before.
LEMMA Persist_Settles ==
  ASSUME LedgerInv, ReplyInv, ReplyInv', Shape, scope \in Scopes, Course, UnreadInv, SettlesInv, Persist
  PROVE  Course' /\ SettlesInv'
<1>1. LedgerNext /\ summary' = summary /\ job' = job
  BY DEF Persist, Refresh, ActivityOnLedger
<1>2. CourseStep /\ Appended
  BY <1>1, LedgerNext_Course DEF CourseStep
<1>3. Numbered(ledger) /\ Numbered(ledger')
  BY DEF ReplyInv
<1>4. Course'
  BY <1>2, <1>3, Course_Step
<1>5. ASSUME NEW s, Honest(s), Settles(s), s.key = Top(ledger')
      PROVE  s.status = SettledStatus(ledger') /\ s.active = SettledTurn(ledger')
  <2>1. /\ s.key \in Nat /\ s.key <= Top(ledger) /\ Top(ledger) <= Cardinality(ledger)
        /\ Top(ledger) \in Nat /\ Cardinality(ledger) \in Nat
    BY <1>3, <1>5, Top_Key DEF Honest
  <2>2. \A e \in Lifecycle(ledger') : e.key <= Top(ledger') /\ e.key \in Nat
    BY <1>3, Top_Key DEF Lifecycle
  <2>3. \A e \in Lifecycle(ledger') : e.key <= Cardinality(ledger)
    BY <1>5, <2>1, <2>2
  <2>4. Lifecycle(ledger') = Lifecycle(ledger)
    <3>1. \A e \in ledger' \ ledger : e.key > Cardinality(ledger)
      BY <1>2 DEF Appended
    <3>2. \A e \in Lifecycle(ledger') : e \in ledger
      BY <2>1, <2>2, <2>3, <3>1 DEF Lifecycle
    <3> QED
      BY <1>2, <3>2 DEF Lifecycle, Appended
  <2>5. s.key = Top(ledger)
    BY <1>5, <2>4 DEF Top
  <2> QED
    BY <1>2, <1>3, <1>5, <2>4, <2>5, Shown_Kept DEF Settles
<1>6. SettlesInv'
  BY <1>1, <1>5 DEF SettlesInv, Settles, UnreadInv, JobsHonest, RowRead, Folded
<1> QED
  BY <1>4, <1>6

\* The steps of a refresh, and those that leave the summaries alone.
LEMMA Jobs_Settle ==
  ASSUME ReplyInv, CountInv, Shape, Course, UnreadInv, SettlesInv, ActivityNext
  PROVE  SettlesInv'
<1>1. /\ Numbered(ledger) /\ JobShape /\ ledger' = ledger
      /\ Settles(summary) /\ Honest(summary)
  BY DEF ReplyInv, CountInv, UnreadInv, SettlesInv, ActivityNext, ReadPrior, FoldEvents,
     WriteSummary, CountMessages, CompareCount, WriteCount, MarkRead, ledgerVars
<1>2. ASSUME NEW j \in Jobs, NEW r, job' = [job EXCEPT ![j] = r],
             Settles(summary'), RowRead(r) => Settles(r.prior), Folded(r) => Settles(r.next)
      PROVE  SettlesInv'
  <2>1. \A i \in Jobs : job'[i] = IF i = j THEN r ELSE job[i]
    BY <1>1, <1>2 DEF JobShape
  <2> QED
    BY <1>1, <1>2, <2>1 DEF SettlesInv, Settles, RowRead, Folded
<1>3. ~RowRead(NoJob) /\ ~Folded(NoJob)
  BY DEF NoJob, RowRead, Folded
<1>4. ASSUME NEW j \in Jobs, ReadPrior(j) PROVE SettlesInv'
  <2> DEFINE r == [NoJob EXCEPT !.pc = "row", !.prior = summary]
  <2>1. job' = [job EXCEPT ![j] = r] /\ summary' = summary
    BY <1>4 DEF ReadPrior
  <2>2. RowRead(r) /\ ~Folded(r) /\ r.prior = summary
    BY DEF NoJob, RowRead, Folded
  <2> HIDE DEF r
  <2> QED
    BY <1>1, <1>2, <2>1, <2>2
<1>5. ASSUME NEW j \in Jobs, FoldEvents(j) PROVE SettlesInv'
  <2> DEFINE p == job[j].prior
             W == LatestLifecycleEvents(ledger)
             o == ScheduledOverride(ledger, ResolveStopping(ledger, Derive(p, W)))
             n == Refreshed(p, ledger, read)
             f == [NoJob EXCEPT !.pc = "folded", !.next = n]
             r == IF n = p THEN NoJob ELSE f
  <2>1. job' = [job EXCEPT ![j] = r] /\ summary' = summary /\ RowRead(job[j])
    BY <1>5 DEF FoldEvents, RowRead
  <2>2. Honest(p) /\ Settles(p)
    BY <2>1 DEF UnreadInv, JobsHonest, SettlesInv
  <2>3. Lifecycle(ledger) = {} => p.status = "ready" /\ p.active = NoTurn
    <3>1. Lifecycle(ledger) = {} => Top(ledger) = 0 /\ p.key = 0
      BY <1>1, <2>2, Top_Key DEF Honest
    <3> QED
      BY <2>2, <3>1 DEF Settles, SettledStatus, SettledTurn
  <2>4. o.status = SettledStatus(ledger) /\ o.active = SettledTurn(ledger) /\ Filled(o)
    BY <1>1, <2>2, <2>3, Refresh_Settles DEF Honest
  <2>5. n = [o EXCEPT !.unread = UnreadOutputCount(ledger, read)]
    BY Zenon DEF Refreshed
  <2> HIDE DEF o
  <2>6. n.status = SettledStatus(ledger) /\ n.active = SettledTurn(ledger)
    BY <2>4, <2>5 DEF Filled
  <2>7. ~RowRead(f) /\ f.next = n
    BY DEF NoJob, RowRead
  <2> HIDE DEF n, f
  <2>8. Settles(n)
    BY <2>6 DEF Settles
  <2>9. (RowRead(r) => Settles(r.prior)) /\ (Folded(r) => Settles(r.next))
    BY <1>3, <2>7, <2>8
  <2> HIDE DEF r
  <2> QED
    BY <1>1, <1>2, <2>1, <2>9
<1>6. ASSUME NEW j \in Jobs, WriteSummary(j) PROVE SettlesInv'
  <2>1. job' = [job EXCEPT ![j] = NoJob] /\ Folded(job[j]) /\ summary' \in {job[j].next, summary}
    BY <1>6 DEF WriteSummary, Folded
  <2>2. Settles(job[j].next)
    BY <2>1 DEF SettlesInv
  <2>3. Settles(summary')
    BY <1>1, <2>1, <2>2
  <2> QED
    BY <1>2, <1>3, <2>1, <2>3
<1>7. ASSUME NEW j \in Jobs, CountMessages(j) \/ CompareCount(j) \/ WriteCount(j) PROVE SettlesInv'
  <2>1. summary' = summary
    BY <1>7 DEF CountMessages, CompareCount, WriteCount
  <2>2. PICK r : job' = [job EXCEPT ![j] = r] /\ ~RowRead(r) /\ ~Folded(r)
    BY <1>1, <1>7, Counts_Set
  <2> QED
    BY <1>1, <1>2, <2>1, <2>2
<1>8. ASSUME NEW k, MarkRead(k) PROVE SettlesInv'
  BY <1>1, <1>8 DEF MarkRead, SettlesInv, Settles, RowRead, Folded
<1> QED
  BY <1>4, <1>5, <1>6, <1>7, <1>8 DEF ActivityNext

\* Every step of the session.
LEMMA Settles_Step ==
  ASSUME LedgerInv, ReplyInv, ReplyInv', CountInv, Shape, scope \in Scopes, Course, UnreadInv, SettlesInv,
         [Next]_vars
  PROVE  Course' /\ SettlesInv'
<1>1. ASSUME ledger' = ledger PROVE Course'
  BY <1>1 DEF Course, BoundaryFirst, RequestsFollow, OneBusy, LastRequest, RunningShown, TurnsBegun,
     UserTurnsNumbered, Busy, Running, Asked, OpenQuestion, UserMessages
<1>2. ASSUME ledger' = ledger, UNCHANGED activityVars PROVE SettlesInv'
  BY <1>2 DEF activityVars, SettlesInv, Settles, RowRead, Folded
<1>3. CASE Browse
  BY <1>1, <1>2, <1>3 DEF Browse, BrowserNext, FetchRows, FetchCursor, OpenStream, FirstPage, WakeStream,
     DropStream, ledgerVars
<1>4. CASE Detail
  BY <1>1, <1>2, <1>4 DEF Detail, PagesNext, FoldStart, FoldRead, FoldStore, ledgerVars
<1>5. CASE Sidebar
  <2>1. ledger' = ledger
    BY <1>5 DEF Sidebar, ActivityNext, ReadPrior, FoldEvents,
       WriteSummary, CountMessages, CompareCount, WriteCount, MarkRead, ledgerVars
  <2> QED
    BY <1>1, <1>5, <2>1, Jobs_Settle DEF Sidebar
<1>6. CASE UNCHANGED vars
  BY <1>1, <1>2, <1>6 DEF vars, ledgerVars
<1> QED
  BY <1>3, <1>4, <1>5, <1>6, Persist_Settles DEF Next

\* The events that the projection looks at for the running turn are those that
\* decide what the sidebar shows.
LEMMA Sidebar_Agrees ==
  ASSUME Numbered(ledger), Course
  PROVE  /\ SettledTurn(ledger) = ActiveTurn(ledger)
         /\ SettledStatus(ledger) = "needs_input" <=> NeedsInput(ledger)
<1> DEFINE L == Lifecycle(ledger)
           D == Decided(ledger)
           m == Last(L)
           p == Last(D)
<1>1. Deciding(ledger) = D
  <2>1. ASSUME NEW e \in ledger, e.type \in {"submitted", "started"}, NEW f \in Terminals(ledger, e.turn)
        PROVE  f.key > e.key
    <3>1. f \in ledger /\ f.type \in TerminalTypes /\ f.turn = e.turn
      BY DEF Terminals
    <3>2. e.key < f.key /\ e.key \in Nat /\ f.key \in Nat
      BY <2>1, <3>1, FS_CardinalityType DEF Course, BoundaryFirst, Numbered
    <3> QED
      BY <3>2
  <2>2. LifecycleTypes \ {"interruptReq"} = TerminalTypes \cup {"awaiting", "submitted", "started"}
    BY DEF LifecycleTypes, TerminalTypes
  <2> QED
    BY <2>1, <2>2 DEF Deciding, Decided, Lifecycle
<1>2. D \cup Of(ledger, "interruptReq") = L
  BY DEF Decided, Lifecycle, Of, LifecycleTypes
<1>3. CASE L = {}
  <2>1. D = {}
    BY <1>3 DEF Decided
  <2>2. ActiveTurn(ledger) = NoTurn /\ ~NeedsInput(ledger)
    BY <1>1, <1>2, <1>3, <2>1 DEF ActiveTurn, NeedsInput
  <2> QED
    BY <1>3, <2>2 DEF SettledTurn, SettledStatus
<1>4. CASE L # {}
  <2>1. /\ m \in L /\ p \in D /\ (m.type # "interruptReq" => m = p)
    BY <1>4, Decided_Last
  <2>2. p.type \in LifecycleTypes \ {"interruptReq"}
    BY <2>1 DEF Decided, Lifecycle
  <2>3. ActiveTurn(ledger) = IF p.type \in TerminalTypes THEN NoTurn ELSE p.turn
    BY <1>1, <2>1 DEF ActiveTurn
  <2>4. NeedsInput(ledger) <=> m.type = "awaiting"
    BY <1>1, <1>2, <1>4 DEF NeedsInput
  <2>5. SettledTurn(ledger) = ShownTurn(p)
    BY <1>4 DEF SettledTurn, DerivedTurn
  <2>6. SettledStatus(ledger) = "needs_input" <=> DerivedStatus(ledger) = "needs_input"
    BY <1>4 DEF SettledStatus
  <2>7. DerivedStatus(ledger) = IF m.type = "interruptReq" /\ canTransitionToStopping(ShownStatus(p))
                                THEN "stopping" ELSE ShownStatus(p)
    BY DEF DerivedStatus
  <2>8. canTransitionToStopping("needs_input")
    BY DEF canTransitionToStopping
  <2>9. ShownStatus(p) = "needs_input" <=> p.type = "awaiting"
    BY <2>2, Shown_Status
  <2>10. ShownTurn(p) = IF p.type \in TerminalTypes THEN NoTurn ELSE p.turn
    BY <2>2, Shown_Status
  <2> HIDE DEF m, p
  <2>11. DerivedStatus(ledger) = "needs_input" <=> m.type = "awaiting"
    BY <2>1, <2>7, <2>8, <2>9
  <2> QED
    BY <2>3, <2>4, <2>5, <2>6, <2>10, <2>11
<1> QED
  BY <1>3, <1>4

\* Once no refresh is under way the summary shows the status, the turn and the key
\* of the whole ledger and the turn that the transcript shows, and hides no output
\* of a finished session (RefreshSessionActivity and applyRowColumnChanges), in
\* whatever order the refreshes read and wrote.
THEOREM Views_SummarySettles ==
  Spec => []SummarySettles
<1> DEFINE Inv == /\ LedgerInv /\ Shape /\ scope \in Scopes /\ CountInv /\ ReplyInv /\ UnreadInv
                  /\ Course /\ SettlesInv
<1>1. Init => Inv
  <2>1. Init => ReplyInv
    BY FS_EmptySet DEF Init, LedgerInit, ReplyInv, Numbered, RepliesEnd, Of
  <2> QED
    BY <2>1, Shape_Inv, CountInit_Inv, UnreadInit_Inv, CourseInit_Inv, SettlesInit_Inv
<1>2. Inv /\ [Next]_vars => Inv'
  <2> SUFFICES ASSUME Inv, [Next]_vars PROVE Inv'
    OBVIOUS
  <2>1. LedgerInv' /\ Shape' /\ (scope \in Scopes)' /\ CountInv' /\ ReplyInv' /\ UnreadInv'
    BY Shape_Inv, Count_Step, Unread_Step
  <2>2. Course' /\ SettlesInv'
    BY <2>1, Settles_Step
  <2> QED
    BY <2>1, <2>2
<1>3. Inv => StatusSettles /\ SidebarAgrees
  <2> SUFFICES ASSUME Inv, Quiet("activity") PROVE StatusSettles /\ SidebarAgrees
    BY DEF StatusSettles, SidebarAgrees
  <2>1. \A j \in Jobs : ~Brings(job[j])
    BY DEF Quiet, NoJob, Brings, RowRead, Folded
  <2>2. summary.key = Top(ledger)
    BY <2>1 DEF Quiet, UnreadInv, CaughtUp
  <2>3. Numbered(ledger)
    BY DEF ReplyInv
  <2>4. summary.status = SettledStatus(ledger) /\ summary.active = SettledTurn(ledger)
    BY <2>2 DEF SettlesInv, Settles
  <2> DEFINE full == ScheduledOverride(ledger,
                       ResolveStopping(ledger, Derive(NoSummary, Lifecycle(ledger))))
  <2>5. Filled(NoSummary) /\ NoSummary.key = 0 /\ NoSummary.status = "ready" /\ NoSummary.active = NoTurn
    BY DEF NoSummary, Summary, Filled
  <2>6. /\ full.status = SettledStatus(ledger) /\ full.active = SettledTurn(ledger)
        /\ full.key = Derive(NoSummary, Lifecycle(ledger)).key
    BY <2>3, <2>5, Refresh_Settles
  <2>7. Derive(NoSummary, Lifecycle(ledger)).key = Top(ledger)
    <3>1. Lifecycle(ledger) \subseteq ledger /\ \A e \in Lifecycle(ledger) : e.type \in LifecycleTypes
      BY DEF Lifecycle
    <3>2. Derive(NoSummary, Lifecycle(ledger)).key =
            IF Lifecycle(ledger) = {} THEN 0 ELSE MaxKey(Lifecycle(ledger))
      BY <2>3, <2>5, <3>1, Derive_Key
    <3> QED
      BY <3>2 DEF Top, MaxKey
  <2> HIDE DEF full
  <2>8. summary.key = full.key /\ summary.active = full.active /\ summary.status = full.status
    BY <2>2, <2>4, <2>6, <2>7
  <2>9. StatusSettles
    BY <2>8 DEF StatusSettles, full
  <2>10. SidebarAgrees
    BY <2>3, <2>4, Sidebar_Agrees DEF SidebarAgrees
  <2> QED
    BY <2>9, <2>10
<1> QED
  BY <1>1, <1>2, <1>3, Views_UnreadNotHidden, PTL DEF Spec, SummarySettles
=============================================================================
