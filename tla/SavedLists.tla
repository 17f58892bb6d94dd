----------------------------- MODULE SavedLists -----------------------------
(***************************************************************************)
(* The lists an account keeps on the server: the saved practice boards     *)
(* (api/devices/[deviceId]/practice-board/preloads) and the saved pitchers *)
(* (api/devices/[deviceId]/pitchkount/players).                            *)
(*                                                                         *)
(* A request that creates or updates an entry prunes the list of its owner *)
(* afterwards: the entries beyond the limit, oldest first, are read and    *)
(* then deleted.  Each query is a step; requests run at once.  Access to   *)
(* the display is left out: a user has access to the one in the address.   *)
(* Two updates of one entry are not under way at the same time.            *)
(***************************************************************************)
EXTENDS Naturals, FiniteSets

CONSTANTS
  Owners,      \* users
  EntryIds,    \* bound on the entries made in a run
  ListLimit,   \* PRACTICE_BOARD_PRELOAD_LIMIT, PITCHKOUNT_PLAYERS_LIMIT
  MaxWrites, MaxQueryFailures   \* bounds of a run

ASSUME SavedListsAssumption == {ListLimit, MaxWrites, MaxQueryFailures} \subseteq Nat

Kinds == {"preload", "profile"}

VARIABLES
  kind,       \* which of the two lists
  entries,    \* rows: id, owner and updatedAt
  used,       \* ids that have been given out
  saves,      \* requests that write, under way
  writes,     \* the clock of updatedAt
  queryFailures,
  unpruned    \* history: owners of whom a prune failed while they were beyond the
              \* limit, and who have not been within it since

listVars == <<kind, entries, used, saves, writes, queryFailures, unpruned>>

-----------------------------------------------------------------------------
RowsOf(o) == {e \in entries : e.owner = o}
Ids(rows) == {e.id : e \in rows}

\* Mutant: the entry at the limit is skipped too.
ExcessBeyond(o) ==
  Ids({e \in RowsOf(o) : Cardinality({f \in RowsOf(o) : f.stamp > e.stamp}) > ListLimit})

\* findMany ordered by updatedAt, newest first, skipping the limit.
Excess(o) ==
  Ids({e \in RowsOf(o) : Cardinality({f \in RowsOf(o) : f.stamp > e.stamp}) >= ListLimit})

\* GET: at most ListLimit, newest first.  Pitchers that an old version stored
\* with the display are left out.
Listing(o) == Ids(RowsOf(o)) \ Excess(o)

WithRow(id, o) == {e \in entries : e.id # id} \cup {[id |-> id, owner |-> o, stamp |-> writes + 1]}

\* Writes are counted by the clock.
Write == writes < MaxWrites /\ writes' = writes + 1

Begin(r) == saves' = saves \cup {r}
MoveOn(r, next) == saves' = (saves \ {r}) \cup {next}

-----------------------------------------------------------------------------
(* POST: the row is created, then the list is pruned.                      *)

Create(o) ==
  /\ Write
  /\ \E id \in EntryIds \ used :
       /\ used' = used \cup {id} /\ entries' = WithRow(id, o)
       /\ Begin([owner |-> o, stage |-> "prune", id |-> id, excess |-> {}])
  /\ UNCHANGED <<kind, queryFailures, unpruned>>

CreatePreload(o) == kind = "preload" /\ Create(o)
CreateProfile(o) == kind = "profile" /\ Create(o)

-----------------------------------------------------------------------------
(* PUT: the owner is checked, the row updated, the list pruned.            *)

FindOwn(o) ==
  /\ \E id \in Ids(RowsOf(o)) :
       /\ \A r \in saves : r.id # id
       /\ Begin([owner |-> o, stage |-> "found", id |-> id, excess |-> {}])
  /\ UNCHANGED <<kind, entries, used, writes, queryFailures, unpruned>>

FindPreload(o) == kind = "preload" /\ FindOwn(o)
FindProfile(o) == kind = "profile" /\ FindOwn(o)

\* A row that has been deleted since: update throws, the answer is 500.
UpdateRow(r) ==
  /\ r.stage = "found" /\ UNCHANGED <<kind, used, queryFailures, unpruned>>
  /\ \/ /\ r.id \in Ids(entries) /\ Write
        /\ entries' = WithRow(r.id, r.owner)
        /\ MoveOn(r, [r EXCEPT !.stage = "prune"])
     \/ /\ r.id \notin Ids(entries)
        /\ saves' = saves \ {r} /\ UNCHANGED <<entries, writes>>

-----------------------------------------------------------------------------
(* prunePracticeBoardPreloads, prunePitchKountProfiles.                    *)

PruneRead(r) ==
  /\ r.stage = "prune"
  /\ IF Excess(r.owner) = {} THEN saves' = saves \ {r}
     ELSE MoveOn(r, [r EXCEPT !.stage = "delete", !.excess = Excess(r.owner)])
  /\ UNCHANGED <<kind, entries, used, writes, queryFailures, unpruned>>

Within(o, rows) == Cardinality({e \in rows : e.owner = o}) <= ListLimit

PruneDelete(r) ==
  /\ r.stage = "delete" /\ saves' = saves \ {r}
  /\ entries' = {e \in entries : ~(e.owner = r.owner /\ e.id \in r.excess)}
  /\ unpruned' = IF Within(r.owner, entries') THEN unpruned \ {r.owner} ELSE unpruned
  /\ UNCHANGED <<kind, used, writes, queryFailures>>

\* A query fails after the row was written: 500, and no prune.
PruneFails(r) ==
  /\ r.stage \in {"prune", "delete"} /\ queryFailures < MaxQueryFailures
  /\ queryFailures' = queryFailures + 1 /\ saves' = saves \ {r}
  /\ unpruned' = IF Within(r.owner, entries) THEN unpruned ELSE unpruned \cup {r.owner}
  /\ UNCHANGED <<kind, entries, used, writes>>

\* DELETE: deleteMany by id and owner.
DeleteOwn(o) ==
  /\ \E id \in Ids(RowsOf(o)) : entries' = {e \in entries : e.id # id}
  /\ unpruned' = IF Within(o, entries') THEN unpruned \ {o} ELSE unpruned
  /\ UNCHANGED <<kind, used, saves, writes, queryFailures>>

DeletePreloadRow(o) == kind = "preload" /\ DeleteOwn(o)
DeleteProfileRow(o) == kind = "profile" /\ DeleteOwn(o)

-----------------------------------------------------------------------------
ListInit ==
  /\ kind \in Kinds /\ entries = {} /\ used = {} /\ saves = {}
  /\ writes = 0 /\ queryFailures = 0 /\ unpruned = {}

ListNext ==
  \/ \E o \in Owners :
       \/ CreatePreload(o) \/ CreateProfile(o) \/ FindPreload(o) \/ FindProfile(o)
       \/ DeletePreloadRow(o) \/ DeleteProfileRow(o)
  \/ \E r \in saves : UpdateRow(r) \/ PruneRead(r) \/ PruneDelete(r) \/ PruneFails(r)

ListSpec == ListInit /\ [][ListNext]_listVars

ListTypeOK ==
  /\ entries \subseteq [id : EntryIds, owner : Owners, stamp : 1..MaxWrites]
  /\ used \subseteq EntryIds /\ unpruned \subseteq Owners
  /\ \A r \in saves : r.owner \in Owners /\ r.stage \in {"found", "prune", "delete"}

\* However the saves, updates and deletions of an account interleave, its
\* list is back within the limit once they are answered, unless a prune
\* failed since; then everything that is kept can be listed.
ListWithinLimit ==
  \A o \in Owners \ unpruned :
    (\A r \in saves : r.owner # o) => Within(o, entries) /\ Listing(o) = Ids(RowsOf(o))

=============================================================================
