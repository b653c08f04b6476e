----------------------------- MODULE AvatarDeck -----------------------------
(***************************************************************************)
(* Session avatars.  Administrators upload, edit, re-kind and delete       *)
(* avatars, whose images live in a blob store beside their row; a session  *)
(* create draws an agent and a system avatar from its owner's shuffled     *)
(* decks, each avatar once in a cycle.                                     *)
(*                                                                         *)
(* A draw is one transaction under the owner's advisory locks: the agent   *)
(* deck's lock is taken first and held to the end, so at most one draw is  *)
(* open.  Its writes show when it commits.  The order of a shuffled deck   *)
(* is left open: any unused entry may be the next.                         *)
(***************************************************************************)
EXTENDS Integers, Sequences, FiniteSets

CONSTANTS
    Avatars,
    Defaults,      \* the avatars every start of the server seeds
    Admins,        \* requests an administrator has under way, or a starting server
    NoAvatar,
    MaxDraws, MaxEdits, MaxMishaps

ASSUME AvatarAssumption ==
    /\ Defaults \subseteq Avatars /\ NoAvatar \notin Avatars
    /\ MaxDraws \in Nat /\ MaxEdits \in Nat /\ MaxMishaps \in Nat

VARIABLES
    asset,   \* avatar_assets: the kind, "deleted", or "none"
    blob,    \* the image variants in the blob store
    edit,    \* per admin: the request under way
    deck,    \* avatar_deck_entries: per kind, the cycles with their unused and used avatars
    draw,    \* the open draw transaction
    times,   \* history: how often an avatar was drawn from a kind's deck
    mixed,   \* history: <<kind, avatar>> listed for a cycle around a change of its kind
    adrift,  \* history: avatars whose images were left behind, or taken from a live row
    draws, edits, mishaps

dvars == <<asset, blob, edit, deck, draw, times, mixed, adrift, draws, edits, mishaps>>

AvatarKinds == {"agent", "system"}
Variants    == {"avatar", "backing"}
NoEdit == [op |-> "none", avatar |-> NoAvatar, pc |-> "idle", kind |-> "agent", erase |-> 0]
NoDraw == [pc |-> "idle", kind |-> "agent", pool |-> [k \in AvatarKinds |-> {}],
           took |-> [k \in AvatarKinds |-> NoAvatar]]
Other(k) == IF k = "agent" THEN "system" ELSE "agent"

DeckTypeOK ==
    /\ asset \in [Avatars -> AvatarKinds \union {"none", "deleted"}]
    /\ blob \in [Avatars -> SUBSET Variants]
    /\ \A q \in Admins : edit[q] \in
         [op : {"none", "create", "update", "kind", "delete", "seed"},
          avatar : Avatars \union {NoAvatar},
          pc : {"idle", "put", "backing", "row", "erase", "commit", "clean"},
          kind : AvatarKinds, erase : Nat]
    /\ \A k \in AvatarKinds : \A c \in DOMAIN deck[k] :
         /\ deck[k][c] \in [left : SUBSET Avatars, used : SUBSET Avatars]
         /\ deck[k][c].left \intersect deck[k][c].used = {}
    /\ draw \in [pc : {"idle", "look", "list", "pick", "commit"}, kind : AvatarKinds,
                 pool : [AvatarKinds -> SUBSET Avatars],
                 took : [AvatarKinds -> Avatars \union {NoAvatar}]]
    /\ draws \in 0..MaxDraws /\ edits \in 0..MaxEdits /\ mishaps \in 0..MaxMishaps

\* A deployment that was seeded, and has had uploads, before.
DeckInit ==
    /\ asset \in [Avatars -> {"none", "agent"}] /\ \A a \in Defaults : asset[a] = "agent"
    /\ blob = [a \in Avatars |-> IF asset[a] = "none" THEN {} ELSE Variants]
    /\ edit = [q \in Admins |-> NoEdit]
    /\ deck = [k \in AvatarKinds |-> <<>>]
    /\ draw = NoDraw
    /\ times = [k \in AvatarKinds |-> [a \in Avatars |-> 0]]
    /\ mixed = {} /\ adrift = {} /\ draws = 0 /\ edits = 0 /\ mishaps = 0

----------------------------------------------------------------------------
(* A draw: ReserveSessionAvatars *)

Mishap == mishaps < MaxMishaps /\ mishaps' = mishaps + 1

Live(a) == asset[a] \in AvatarKinds

\* The newest cycle that has an entry; 0 before the first.
Cycle(k) ==
    LET dealt == {c \in DOMAIN deck[k] : deck[k][c].left \union deck[k][c].used # {}}
    IN  IF dealt = {} THEN 0 ELSE CHOOSE c \in dealt : \A e \in dealt : e <= c

\* Entries another transaction has deleted and not committed.
Erased(k) ==
    {edit[q].avatar : q \in {p \in Admins : edit[p].pc = "commit" /\ edit[p].kind = k}}

Drawable(k) ==
    IF Cycle(k) = 0 THEN {} ELSE {a \in deck[k][Cycle(k)].left : Live(a)}

ReserveSessionAvatars ==
    /\ draw.pc = "idle" /\ draws < MaxDraws
    /\ draw' = [NoDraw EXCEPT !.pc = "look"]
    /\ draws' = draws + 1
    /\ UNCHANGED <<asset, blob, edit, deck, times, mixed, adrift, edits, mishaps>>

\* draw with a taken from the deck in hand (or none left to take), on its way to the other deck.
Took(a) ==
    [draw EXCEPT !.took[draw.kind] = a,
                 !.kind = "system",
                 !.pc = IF draw.kind = "agent" THEN "look" ELSE "commit"]

\* The next unused entry whose avatar is live; an entry that is being deleted
\* is waited for.
UseNextAvatarDeckEntry ==
    /\ draw.pc = "look"
    /\ \/ \E a \in Drawable(draw.kind) \ Erased(draw.kind) : draw' = Took(a)
       \/ Drawable(draw.kind) = {} /\ draw' = [draw EXCEPT !.pc = "list"]
    /\ UNCHANGED <<asset, blob, edit, deck, times, mixed, adrift, draws, edits, mishaps>>

\* Nothing is left: a new cycle of the avatars of this kind.
ActiveAvatarIDs ==
    /\ draw.pc = "list"
    /\ LET ids == {a \in Avatars : asset[a] = draw.kind}
       IN  draw' = IF ids = {} THEN Took(NoAvatar)
                   ELSE [draw EXCEPT !.pc = "pick", !.pool[draw.kind] = ids]
    /\ UNCHANGED <<asset, blob, edit, deck, times, mixed, adrift, draws, edits, mishaps>>

\* Only the deletion of an avatar is noticed here, not a change of its kind.
DrawFromNewCycle ==
    /\ draw.pc = "pick"
    /\ LET ids == {a \in draw.pool[draw.kind] : Live(a)}
       IN  \/ \E a \in ids : draw' = Took(a)
           \/ ids = {} /\ draw' = Took(NoAvatar)
    /\ UNCHANGED <<asset, blob, edit, deck, times, mixed, adrift, draws, edits, mishaps>>

Dealt(k) ==
    LET fresh == draw.pool[k]
        c     == Cycle(k)
        a     == draw.took[k]
    IN  IF fresh # {}
        THEN SubSeq(deck[k], 1, c) \o <<[left |-> fresh \ {a}, used |-> fresh \intersect {a}]>>
        ELSE IF a = NoAvatar THEN deck[k]
        ELSE [deck[k] EXCEPT ![c] = [left |-> @.left \ {a}, used |-> @.used \union {a}]]

\* The new cycles' entries whose avatar changed its kind since it was listed.
Overtaken ==
    {e \in AvatarKinds \X Avatars :
        e[2] \in draw.pool[e[1]] \ {draw.took[e[1]]} /\ asset[e[2]] = Other(e[1])}

\* An owner with no agent avatar left is refused the session; what was drawn
\* stays drawn.
CommitDraw ==
    /\ draw.pc = "commit"
    /\ deck' = [k \in AvatarKinds |-> Dealt(k)]
    /\ times' = [k \in AvatarKinds |-> [a \in Avatars |->
                   IF draw.took[k] = a THEN times[k][a] + 1 ELSE times[k][a]]]
    /\ mixed' = mixed \union Overtaken
    /\ draw' = NoDraw
    /\ UNCHANGED <<asset, blob, edit, adrift, draws, edits, mishaps>>

\* A failed statement, a crash: rolled back, and the create fails.
AbortDraw ==
    /\ draw.pc # "idle" /\ Mishap
    /\ draw' = NoDraw
    /\ UNCHANGED <<asset, blob, edit, deck, times, mixed, adrift, draws, edits>>

----------------------------------------------------------------------------
(* Administration *)

Start(q, request) ==
    /\ edit[q] = NoEdit /\ edits < MaxEdits
    /\ edits' = edits + 1
    /\ edit' = [edit EXCEPT ![q] = request]

Step(q, pc) == edit' = [edit EXCEPT ![q].pc = pc]
End(q)      == edit' = [edit EXCEPT ![q] = NoEdit]

\* The row lock a change of kind holds from its SELECT FOR UPDATE on.
Locked(a) == \E q \in Admins : edit[q].avatar = a /\ edit[q].pc \in {"erase", "commit"}

\* handleCreateAvatar: a fresh id, so nobody else works on it.
CreateAvatar(q, a, k) ==
    /\ asset[a] = "none" /\ blob[a] = {} /\ \A p \in Admins : edit[p].avatar # a
    /\ Start(q, [NoEdit EXCEPT !.op = "create", !.avatar = a, !.pc = "put", !.kind = k])
    /\ UNCHANGED <<asset, blob, deck, draw, times, mixed, adrift, draws, mishaps>>

\* handleUpdateAvatar and seedDefaultAvatarAssets, up to their Put.
UpdateAvatar(q, a) ==
    /\ Live(a)
    /\ Start(q, [NoEdit EXCEPT !.op = "update", !.avatar = a, !.pc = "put"])
    /\ UNCHANGED <<asset, blob, deck, draw, times, mixed, adrift, draws, mishaps>>

SeedDefault(q, a) ==
    /\ a \in Defaults
    /\ Start(q, [NoEdit EXCEPT !.op = "seed", !.avatar = a, !.pc = "put"])
    /\ UNCHANGED <<asset, blob, deck, draw, times, mixed, adrift, draws, mishaps>>

\* One key holds both variants of a default avatar.  An image put after the
\* row's deletion was cleaned up stays behind.
PutImage(q) ==
    LET a == edit[q].avatar
        v == IF edit[q].pc = "backing" THEN {"backing"}
             ELSE IF a \in Defaults THEN Variants ELSE {"avatar"}
    IN  /\ edit[q].pc \in {"put", "backing"}
        /\ blob' = [blob EXCEPT ![a] = @ \union v]
        /\ adrift' = IF asset[a] = "deleted" THEN adrift \union {a} ELSE adrift
        /\ Step(q, IF edit[q].op = "create" /\ edit[q].pc = "put" THEN "backing" ELSE "row")
        /\ UNCHANGED <<asset, deck, draw, times, mixed, draws, edits, mishaps>>

\* Create inserts, Ensure inserts what is not there, Update finds a live row or
\* answers 404: it waits for a lock on the row.
WriteRow(q) ==
    LET a == edit[q].avatar
    IN  /\ edit[q].pc = "row" /\ ~Locked(a)
        /\ asset' = [asset EXCEPT ![a] =
             IF edit[q].op # "update" /\ @ = "none" THEN edit[q].kind ELSE @]
        /\ End(q)
        /\ UNCHANGED <<blob, deck, draw, times, mixed, adrift, draws, edits, mishaps>>

\* Mutant: only the first key is removed.
CleanupAvatarImageKeys_First(a) == [blob EXCEPT ![a] = @ \ {"avatar"}]

CleanupAvatarImageKeys(a) == [blob EXCEPT ![a] = {}]

\* A Put or the row write of a create fails, and the create removes what it
\* has put, or fails at that too.  An answer that was lost leaves the row.
CreateFails(q) ==
    LET a == edit[q].avatar
    IN  /\ edit[q].op = "create" /\ Mishap
        /\ \/ /\ blob' = CleanupAvatarImageKeys(a) /\ UNCHANGED <<asset, adrift>>
           \/ /\ adrift' = adrift \union {a} /\ UNCHANGED <<asset, blob>>
           \/ /\ edit[q].pc = "row"
              /\ asset' = [asset EXCEPT ![a] = edit[q].kind]
              /\ blob' = CleanupAvatarImageKeys(a)
              /\ adrift' = adrift \union {a}
        /\ End(q)
        /\ UNCHANGED <<deck, draw, times, mixed, draws, edits>>

DeleteAvatar(q, a) ==
    /\ Live(a) /\ ~Locked(a)
    /\ Start(q, [NoEdit EXCEPT !.op = "delete", !.avatar = a, !.pc = "clean"])
    /\ asset' = [asset EXCEPT ![a] = "deleted"]
    /\ UNCHANGED <<blob, deck, draw, times, mixed, adrift, draws, mishaps>>

CleanDeleted(q) ==
    /\ edit[q].pc = "clean"
    /\ blob' = CleanupAvatarImageKeys(edit[q].avatar)
    /\ End(q)
    /\ UNCHANGED <<asset, deck, draw, times, mixed, adrift, draws, edits, mishaps>>

\* UpdateKind: SELECT FOR UPDATE and the row's update, seen by nobody yet.
UpdateKind(q, a) ==
    /\ Live(a) /\ ~Locked(a)
    /\ Start(q, [NoEdit EXCEPT !.op = "kind", !.avatar = a, !.pc = "erase", !.kind = asset[a]])
    /\ UNCHANGED <<asset, blob, deck, draw, times, mixed, adrift, draws, mishaps>>

\* The DELETE sees the cycles committed by now, and waits for an entry that an
\* open draw has taken.
CleanupDeck(q) ==
    /\ edit[q].pc = "erase"
    /\ ~ (draw.took[edit[q].kind] = edit[q].avatar /\ draw.pool[edit[q].kind] = {})
    /\ edit' = [edit EXCEPT ![q].pc = "commit", ![q].erase = Len(deck[edit[q].kind])]
    /\ UNCHANGED <<asset, blob, deck, draw, times, mixed, adrift, draws, edits, mishaps>>

Erase(entry, a) == [entry EXCEPT !.left = @ \ {a}]

CommitKind(q) ==
    LET a == edit[q].avatar
        k == edit[q].kind
    IN  /\ edit[q].pc = "commit"
        /\ asset' = [asset EXCEPT ![a] = Other(k)]
        /\ deck' = [deck EXCEPT ![k] = [c \in DOMAIN @ |->
             IF c <= edit[q].erase THEN Erase(@[c], a) ELSE @[c]]]
        /\ mixed' = mixed \union
             {<<k, b>> : b \in {b \in {a} :
                \E c \in DOMAIN deck[k] : c > edit[q].erase /\ b \in deck[k][c].left}}
        /\ End(q)
        /\ UNCHANGED <<blob, draw, times, adrift, draws, edits, mishaps>>

\* The handler's process ends, or a call fails and its handler gives up; an
\* open transaction is rolled back, images already put or not yet removed stay.
AbandonEdit(q) ==
    /\ edit[q].pc # "idle" /\ Mishap
    /\ adrift' = IF edit[q].op \in {"create", "delete"} \/ asset[edit[q].avatar] = "none"
                 THEN adrift \union {edit[q].avatar} ELSE adrift
    /\ End(q)
    /\ UNCHANGED <<asset, blob, deck, draw, times, mixed, draws, edits>>

DeckNext ==
    \/ ReserveSessionAvatars \/ UseNextAvatarDeckEntry \/ ActiveAvatarIDs
    \/ DrawFromNewCycle \/ CommitDraw \/ AbortDraw
    \/ \E q \in Admins :
         \/ PutImage(q) \/ WriteRow(q) \/ CreateFails(q) \/ CleanDeleted(q)
         \/ CleanupDeck(q) \/ CommitKind(q) \/ AbandonEdit(q)
         \/ \E a \in Avatars :
              \/ UpdateAvatar(q, a) \/ SeedDefault(q, a) \/ DeleteAvatar(q, a) \/ UpdateKind(q, a)
              \/ \E k \in AvatarKinds : CreateAvatar(q, a, k)

DeckSpec == DeckInit /\ [][DeckNext]_dvars

----------------------------------------------------------------------------
(* Properties *)

\* No avatar is drawn from a deck more often than the deck has had cycles: an
\* avatar comes up once in a cycle, and no change of kinds (UpdateKind deletes
\* entries) makes a draw fall back to an earlier cycle.
OncePerCycle == \A k \in AvatarKinds : \A a \in Avatars : times[k][a] <= Cycle(k)

\* An avatar that waits in a deck is of the deck's kind, or deleted and passed
\* over, unless its cycle was listed while its kind was changing.
DeckKind ==
    \A k \in AvatarKinds : \A a \in Avatars :
        <<k, a>> \notin mixed =>
            \A c \in DOMAIN deck[k] : a \in deck[k][c].left => asset[a] \in {k, "deleted"}

\* An avatar that can be served has both its images, and one that cannot be
\* and is not being worked on has none, unless a failure or an edit that
\* outlived a deletion left them behind (or took them from a committed row).
ImagesFollowRows ==
    \A a \in Avatars \ adrift :
        /\ Live(a) => blob[a] = Variants
        /\ (~Live(a) /\ \A q \in Admins : edit[q].avatar # a) => blob[a] = {}

\* Decks and images through draws, edits and deletions that overlap.
DeckSafe == DeckTypeOK /\ OncePerCycle /\ DeckKind /\ ImagesFollowRows
=============================================================================
