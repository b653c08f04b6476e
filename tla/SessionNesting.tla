--------------------------- MODULE SessionNesting ---------------------------
(***************************************************************************)
(* Nested sessions: parent_session_id, stamped when an agent spawns a      *)
(* session and moved by the user.  A move reads the chain above the new    *)
(* parent row by row and then writes; nothing ties the reads to the write. *)
(***************************************************************************)
EXTENDS Naturals, FiniteSets

CONSTANTS
  MaxSessions,  \* sessions of one owner, numbered in sidebar order
  Movers,       \* browser tabs that nest and un-nest
  MaxMoves,     \* bound: moves asked for
  MaxDeletes    \* bound: sessions deleted

ASSUME NestingAssumption == MaxSessions \in Nat \ {0} /\ MaxMoves \in Nat /\ MaxDeletes \in Nat

SidebarIds == 1 .. MaxSessions
Root == 0

VARIABLES
  parent,   \* sessions.parent_session_id; Root: NULL
  created,  \* sessions with a row
  visible,  \* those not deleted
  move,     \* what each tab's request is doing
  moves,    \* moves asked for so far
  unchecked \* history: rows whose parent was written after another nesting had
            \* overtaken the check

nvars == <<parent, created, visible, move, moves, unchecked>>

NoMove == [pc |-> "idle", child |-> 1, target |-> Root, cur |-> Root, visited |-> {}, overtaken |-> FALSE]

NestingInit ==
  /\ parent = [s \in SidebarIds |-> Root]
  /\ created = {} /\ visible = {}
  /\ move = [m \in Movers |-> NoMove]
  /\ moves = 0 /\ unchecked = {}

\* Create, with the spawning session as its origin or none; that one may be deleted by now.
\* An origin in another scope has no row here, and ends every walk as none does.
Create(s, origin) ==
  /\ s \notin created /\ \A u \in SidebarIds : u < s => u \in created
  /\ created' = created \cup {s} /\ visible' = visible \cup {s}
  /\ parent' = [parent EXCEPT ![s] = origin]
  /\ UNCHANGED <<move, moves, unchecked>>

Delete(s) ==
  /\ s \in visible /\ Cardinality(created \ visible) < MaxDeletes
  /\ visible' = visible \ {s}
  /\ UNCHANGED <<parent, created, move, moves, unchecked>>

\* SetParentSession: the child is visible; a parent, if one is named, is visible and another.
SetParentSession(m, c, p) ==
  /\ move[m].pc = "idle" /\ moves < MaxMoves
  /\ c \in visible
  /\ p = Root \/ (p \in visible /\ p # c)
  /\ moves' = moves + 1
  /\ move' = [move EXCEPT ![m] = [NoMove EXCEPT !.pc = "walk", !.child = c, !.target = p, !.cur = p]]
  /\ UNCHANGED <<parent, created, visible, unchecked>>

\* parentChainContains: one row of the chain, deleted rows included.
WalkRejects(m) == move[m].cur = move[m].child
Passed(req) == [req EXCEPT !.pc = "write", !.cur = Root, !.visited = {}]
WalkEnds(m) == move[m].cur = Root \/ move[m].cur \in move[m].visited

ParentChainContains_TargetOnly(m) ==
  /\ move[m].pc = "walk"
  /\ move' = [move EXCEPT ![m] = IF WalkRejects(m) THEN NoMove ELSE Passed(@)]
  /\ UNCHANGED <<parent, created, visible, moves, unchecked>>
ParentChainContains(m) ==
  /\ move[m].pc = "walk"
  /\ move' = CASE WalkRejects(m) -> [move EXCEPT ![m] = NoMove]
               [] ~WalkRejects(m) /\ WalkEnds(m) -> [move EXCEPT ![m] = Passed(@)]
               [] OTHER -> [move EXCEPT ![m].cur = parent[move[m].cur], ![m].visited = @ \cup {move[m].cur}]
  /\ UNCHANGED <<parent, created, visible, moves, unchecked>>

\* The UPDATE, which asks nothing.
WriteParent(m) ==
  /\ move[m].pc = "write"
  /\ parent' = [parent EXCEPT ![move[m].child] = move[m].target]
  /\ unchecked' = IF move[m].overtaken THEN unchecked \cup {move[m].child} ELSE unchecked \ {move[m].child}
  /\ move' = [n \in Movers |->
       IF n = m THEN NoMove
       ELSE IF move[n].pc # "idle" /\ move[m].target # Root THEN [move[n] EXCEPT !.overtaken = TRUE]
       ELSE move[n]]
  /\ UNCHANGED <<created, visible, moves>>

MoveStep(m) == ParentChainContains(m) \/ WriteParent(m)

\* The request is dropped: the replica or the database is gone.
DropMove(m) ==
  /\ move[m].pc # "idle"
  /\ move' = [move EXCEPT ![m] = NoMove]
  /\ UNCHANGED <<parent, created, visible, moves, unchecked>>

NestingNext ==
  \/ \E s \in SidebarIds : (\E o \in created \cup {Root} : Create(s, o)) \/ Delete(s)
  \/ \E m \in Movers :
       \/ \E c \in SidebarIds, p \in SidebarIds \cup {Root} : SetParentSession(m, c, p)
       \/ MoveStep(m) \/ DropMove(m)

NestingSpec == NestingInit /\ [][NestingNext]_nvars
NestingFairness == \A m \in Movers : WF_nvars(MoveStep(m))
-----------------------------------------------------------------------------
\* The sessions above s, along the parents in p: those in every set that has
\* the parent of s and, with a session, its parent.
Above(s, p) ==
  LET closed(A) == p[s] \in A \cup {Root} /\ \A v \in A : p[v] \in A \cup {Root}
  IN {u \in SidebarIds : \A A \in SUBSET SidebarIds : closed(A) => u \in A}

NestingTypeOK ==
  /\ parent \in [SidebarIds -> {Root} \cup created]
  /\ visible \subseteq created /\ unchecked \subseteq created
  /\ \A m \in Movers : move[m].pc \in {"idle", "walk", "write"} /\ move[m].cur \in {Root} \cup created

\* "The durable tree is kept acyclic on write": a cycle takes an edge whose check was overtaken
\* by another nesting.  Un-nest those, and no session is above itself.
NestingIsAcyclic ==
  LET p == [s \in SidebarIds |-> IF s \in unchecked THEN Root ELSE parent[s]]
  IN \A s \in created : s \notin Above(s, p)

\* Every move is answered, even in a chain that has become a cycle.
MovesEnd == \A m \in Movers : []<>(move[m].pc = "idle")

\* The durable tree, through overlapping moves (manager.go:1004).
NestingSafe == NestingTypeOK /\ NestingIsAcyclic
=============================================================================
