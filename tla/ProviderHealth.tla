--------------------------- MODULE ProviderHealth ---------------------------
(***************************************************************************)
(* The "sign-in expired" banner of one provider.  Every replica polls the  *)
(* api-proxy, turns a change into a guarded write of the provider's health *)
(* row and, when it wins, fans a session.status event out to the sessions  *)
(* of its own scope that need the provider; a session created during an    *)
(* outage reads the row itself.                                            *)
(*                                                                         *)
(* The row is keyed by provider and 'host': the replicas of production and *)
(* those of the validation slots share it, so the poller that wins a       *)
(* transition tells the sessions of one scope, and nobody tells the others.*)
(*                                                                         *)
(* The banner events of a session and provider share one event id: the     *)
(* ledger keeps the first (session_events_event_identity), the transcript  *)
(* row shows the last one refreshed until the session is projected again.  *)
(***************************************************************************)
EXTENDS Integers

CONSTANTS
    Pollers,         \* replicas running Manager.Run, of production and of the slots
    Clients,         \* sessions whose mode needs the provider
    Scope,           \* the session scope of a replica or a session
    DebounceCycles,  \* failed polls that do not yet count
    MaxFlips,        \* bound: changes of the proxy's report
    MaxLosses        \* bound: crashes and failed calls

ASSUME HealthAssumption ==
    DebounceCycles \in Nat /\ MaxFlips \in Nat /\ MaxLosses \in Nat

VARIABLES
    proxy,     \* result in the api-proxy's snapshot
    health,    \* provider_credential_health: status and row_version (0: no row)
    cycles,    \* per poller: failedCycles
    poll,      \* per poller: where it is, what it wants, the version it read, whom it tells
    client,    \* per session: "none", "reading", "telling", "live", "gone"
    banner,    \* per session: the event in session_events
    shown,     \* per session: the banner row of the transcript
    astray,    \* history: sessions whose last banner was lost, overtaken or rebuilt,
               \* or who were not told of a transition that another scope won
    restarted, \* history: a first write has put the version of a row back to 1
    flips, losses

hvars == <<proxy, health, cycles, poll, client, banner, shown, astray, restarted,
           flips, losses>>

Results  == {"success", "unknown", "http_error"}
Statuses == {"healthy", "failed"}
NoPoll   == [pc |-> "idle", want |-> "healthy", seen |-> 0, todo |-> {}]

HealthTypeOK ==
    /\ proxy \in Results
    /\ health \in [status : Statuses, version : Nat]
    /\ cycles \in [Pollers -> 0..DebounceCycles]
    /\ poll \in [Pollers -> [pc : {"idle", "read", "write", "insert", "list", "emit"},
                             want : Statuses, seen : Nat, todo : SUBSET Clients]]
    /\ client \in [Clients -> {"none", "reading", "telling", "live", "gone"}]
    /\ banner \in [Clients -> {"none"} \union Statuses]
    /\ shown \in [Clients -> {"none"} \union Statuses]
    /\ astray \subseteq Clients /\ restarted \in BOOLEAN
    /\ flips \in 0..MaxFlips /\ losses \in 0..MaxLosses

HealthInit ==
    /\ proxy = "unknown"
    /\ health = [status |-> "healthy", version |-> 0]
    /\ cycles = [r \in Pollers |-> 0]
    /\ poll = [r \in Pollers |-> NoPoll]
    /\ client = [s \in Clients |-> "none"]
    /\ banner = [s \in Clients |-> "none"] /\ shown = [s \in Clients |-> "none"]
    /\ astray = {} /\ restarted = FALSE /\ flips = 0 /\ losses = 0

----------------------------------------------------------------------------
(* One poll *)

Loss == losses < MaxLosses /\ losses' = losses + 1

\* A result without a known failure reads as healthy, "unknown" included.
ClassifySnapshot(result) == IF result = "http_error" THEN "failed" ELSE "healthy"

\* A failed fetch skips the cycle and changes nothing.
Fetch(r) ==
    /\ poll[r].pc = "idle"
    /\ poll' = [poll EXCEPT ![r] = [NoPoll EXCEPT !.pc = "read", !.want = ClassifySnapshot(proxy)]]
    /\ UNCHANGED <<proxy, health, cycles, client, banner, shown, astray, restarted, flips, losses>>

\* The consecutive failed polls of this replica, this one included, as far as the
\* debounce window reaches.
FailedCycles(r) ==
    IF poll[r].want = "healthy" THEN 0
    ELSE IF cycles[r] < DebounceCycles THEN cycles[r] + 1 ELSE DebounceCycles

Get(r) ==
    /\ poll[r].pc = "read"
    /\ cycles' = [cycles EXCEPT ![r] = FailedCycles(r)]
    /\ poll' = [poll EXCEPT ![r] =
         IF (@.want = "failed" /\ cycles[r] < DebounceCycles) \/ @.want = health.status
         THEN NoPoll
         ELSE [@ EXCEPT !.pc = "write", !.seen = health.version]]
    /\ UNCHANGED <<proxy, health, client, banner, shown, astray, restarted, flips, losses>>

\* Mutant: a transition is written over whatever has been written since the read.
LostRace_Never(r) == FALSE

\* A first write (no row was read) is not compared.
LostRace(r) == poll[r].seen > 0 /\ health.version # poll[r].seen

\* Nobody will tell the sessions of the other scopes that are past reading the row,
\* or show a failure already: their pollers read what this one wrote, and see no
\* transition.
Untold(r) == {s \in Clients : /\ Scope[s] # Scope[r]
                              /\ client[s] = "live" \/ shown[s] = "failed"}

\* The transaction locks the row it finds; finding none it locks nothing, and
\* writes version 1 over whatever another first write has put there.
UpsertTransition(r) ==
    /\ \/ /\ poll[r].pc = "write" /\ health.version = 0
          /\ poll' = [poll EXCEPT ![r].pc = "insert"]
          /\ UNCHANGED <<health, astray, restarted>>
       \/ /\ poll[r].pc = "write" /\ health.version > 0 /\ LostRace(r)
          /\ poll' = [poll EXCEPT ![r] = NoPoll]
          /\ UNCHANGED <<health, astray, restarted>>
       \/ /\ \/ /\ poll[r].pc = "write" /\ health.version > 0 /\ ~LostRace(r)
                /\ health' = [status |-> poll[r].want, version |-> health.version + 1]
                /\ UNCHANGED restarted
             \/ /\ poll[r].pc = "insert"
                /\ health' = [status |-> poll[r].want, version |-> 1]
                /\ restarted' = (restarted \/ health.version > 0)
          /\ poll' = [poll EXCEPT ![r].pc = "list"]
          /\ astray' = astray \union Untold(r)
    /\ UNCHANGED <<proxy, cycles, client, banner, shown, flips, losses>>

\* listActiveSessions filters by the scope of the replica.
Listed(r) == {s \in Clients : /\ client[s] \in {"reading", "telling", "live"}
                              /\ Scope[s] = Scope[r]}

ListActiveSessions(r) ==
    /\ poll[r].pc = "list"
    /\ poll' = [poll EXCEPT ![r] = IF Listed(r) = {} THEN NoPoll
                                   ELSE [@ EXCEPT !.pc = "emit", !.todo = Listed(r)]]
    /\ UNCHANGED <<proxy, health, cycles, client, banner, shown, astray, restarted, flips, losses>>

\* Mutant: the row is projected from the event the ledger kept.
Emit_FromLedger(s, status) ==
    /\ banner' = [banner EXCEPT ![s] = IF @ = "none" THEN status ELSE @]
    /\ shown' = banner'
    /\ astray' = IF status = health.status THEN astray \ {s} ELSE astray \union {s}

\* Upsert keeps the first event of the id; RefreshEvent projects the event it is
\* handed.  An emission of what the row no longer says has been overtaken.
Emit(s, status) ==
    /\ banner' = [banner EXCEPT ![s] = IF @ = "none" THEN status ELSE @]
    /\ shown' = [shown EXCEPT ![s] = status]
    /\ astray' = IF status = health.status THEN astray \ {s} ELSE astray \union {s}

Passed(r, s) ==
    [poll EXCEPT ![r] = IF @.todo = {s} THEN NoPoll ELSE [poll[r] EXCEPT !.todo = @ \ {s}]]

EmitForSession(r, s) ==
    /\ s \in poll[r].todo
    /\ Emit(s, poll[r].want)
    /\ poll' = Passed(r, s)
    /\ UNCHANGED <<proxy, health, cycles, client, restarted, flips, losses>>

\* Logged and passed over, with or without the ledger row.
EmitFails(r, s) ==
    /\ s \in poll[r].todo /\ Loss
    /\ banner' \in {banner, [banner EXCEPT ![s] = IF @ = "none" THEN poll[r].want ELSE @]}
    /\ astray' = astray \union {s}
    /\ poll' = Passed(r, s)
    /\ UNCHANGED <<proxy, health, cycles, client, shown, restarted, flips>>

\* A crash, or a store error that ends the poll; a restart forgets the cycles.
PollEnds(r) ==
    /\ poll[r].pc # "idle" /\ Loss
    /\ astray' = astray \union (IF poll[r].pc = "list" THEN Listed(r) ELSE poll[r].todo)
    /\ poll' = [poll EXCEPT ![r] = NoPoll]
    /\ cycles' \in {cycles, [cycles EXCEPT ![r] = 0]}
    /\ UNCHANGED <<proxy, health, client, banner, shown, restarted, flips>>

----------------------------------------------------------------------------
(* Sessions *)

\* handleCreateSession: the visible row first, then backfillProviderHealthBanner.
CreateClient(s) ==
    /\ client[s] = "none"
    /\ client' = [client EXCEPT ![s] = "reading"]
    /\ UNCHANGED <<proxy, health, cycles, poll, banner, shown, astray, restarted, flips, losses>>

\* Spokes, internal creates and resurrected sessions have no backfill.
SpawnClient(s) ==
    /\ client[s] = "none"
    /\ client' = [client EXCEPT ![s] = "live"]
    /\ astray' = IF health.status = "failed" THEN astray \union {s} ELSE astray
    /\ UNCHANGED <<proxy, health, cycles, poll, banner, shown, restarted, flips, losses>>

CurrentHealth(s) ==
    /\ client[s] = "reading"
    /\ client' = [client EXCEPT ![s] = IF health.status = "failed" THEN "telling" ELSE "live"]
    /\ UNCHANGED <<proxy, health, cycles, poll, banner, shown, astray, restarted, flips, losses>>

BackfillBanner(s) ==
    /\ client[s] = "telling"
    /\ Emit(s, "failed")
    /\ client' = [client EXCEPT ![s] = "live"]
    /\ UNCHANGED <<proxy, health, cycles, poll, restarted, flips, losses>>

\* The lookup or the emission fails, or the replica dies; the create stands.
BackfillFails(s) ==
    /\ client[s] \in {"reading", "telling"} /\ Loss
    /\ client' = [client EXCEPT ![s] = "live"]
    /\ astray' = astray \union {s}
    /\ UNCHANGED <<proxy, health, cycles, poll, banner, shown, restarted, flips>>

\* Hidden, or neither Pending nor Active any more: never listed again.
DeleteClient(s) ==
    /\ client[s] = "live"
    /\ client' = [client EXCEPT ![s] = "gone"]
    /\ UNCHANGED <<proxy, health, cycles, poll, banner, shown, astray, restarted, flips, losses>>

\* A session-scope projection rewrites the row from the ledger.
Reproject(s) ==
    /\ shown[s] # banner[s]
    /\ shown' = [shown EXCEPT ![s] = banner[s]]
    /\ astray' = astray \union {s}
    /\ UNCHANGED <<proxy, health, cycles, poll, client, banner, restarted, flips, losses>>

ProxyChanges ==
    /\ flips < MaxFlips /\ flips' = flips + 1
    /\ proxy' \in Results \ {proxy}
    /\ UNCHANGED <<health, cycles, poll, client, banner, shown, astray, restarted, losses>>

----------------------------------------------------------------------------

PollStep(r) ==
    \/ Fetch(r) \/ Get(r) \/ UpsertTransition(r) \/ ListActiveSessions(r)
    \/ \E s \in Clients : EmitForSession(r, s)

HealthNext ==
    \/ \E r \in Pollers : PollStep(r) \/ PollEnds(r) \/ \E s \in Clients : EmitFails(r, s)
    \/ \E s \in Clients :
         \/ CreateClient(s) \/ SpawnClient(s) \/ CurrentHealth(s) \/ BackfillBanner(s)
         \/ BackfillFails(s) \/ DeleteClient(s) \/ Reproject(s)
    \/ ProxyChanges

\* The tickers tick and a poll goes on.
HealthFairness == \A r \in Pollers : WF_hvars(PollStep(r))

HealthSpec == HealthInit /\ [][HealthNext]_hvars /\ HealthFairness

----------------------------------------------------------------------------
(* Properties *)

\* A session's banner differs from the health row only while a fan-out of its
\* scope or its backfill still has to reach it, or after an emission was lost,
\* overtaken by a later transition, or undone by a projection from the ledger, or
\* when it was there at a transition that a poller of another scope won (nobody
\* tells it of that one; the next transition its own scope wins sets it right).
\* Sessions that are created around a transition are not missed: the row is
\* written before the sessions are listed, and a session is listed before it reads
\* the row, whichever scope wrote it.
BannersAgree ==
    \A s \in Clients \ astray :
        \/ client[s] # "live"
        \/ \E r \in Pollers : /\ Scope[r] = Scope[s]
                              /\ poll[r].pc = "list" \/ s \in poll[r].todo
        \/ health.status = "failed" /\ shown[s] = "failed"
        \/ health.status = "healthy" /\ shown[s] # "failed"

\* A replica that read the row fans out only a change of it: of any number of
\* replicas that see the same transition one wins, the others are stale.  It takes
\* versions that only grow: once two first writes have met, and the later one has
\* put the version back to 1, a version that was read may come again.
WinnersFlip ==
    [][\A r \in Pollers :
         (~restarted /\ poll[r].pc = "write" /\ poll'[r].pc = "list" /\ poll[r].seen > 0)
            => health'.status # health.status]_hvars

\* Once the proxy stops changing (MaxFlips), what it reports becomes the recorded
\* health and stays it, through debouncing, lost races and crashes.
RowFollowsProxy == <>[](health.status = ClassifySnapshot(proxy))

\* The banners against the health row, through races of polls, creates and crashes.
HealthSafe == HealthTypeOK /\ BannersAgree

\* The health row: written once for a transition and, in the end, what the proxy says.
HealthFollows == WinnersFlip /\ RowFollowsProxy
=============================================================================
