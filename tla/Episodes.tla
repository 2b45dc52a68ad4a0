------------------------------- MODULE Episodes -------------------------------
(***************************************************************************)
(* The episodes of a serie (src/src/model/episodes.rs,                     *)
(* store/sql/library/episodes.rs and the triggers on series and episodes). *)
(*                                                                         *)
(* A refresh deletes all episodes and adds those Trakt lists one by one,   *)
(* each in a call of its own.  Refreshes are started by add_serie, by the  *)
(* route and by a scheduled task, and nothing keeps two of them apart: the *)
(* primary key (serie, season, number) makes the second insertion of an    *)
(* episode fail, and the refresh that meets it stops.                      *)
(***************************************************************************)
EXTENDS Naturals

CONSTANTS
  Refreshes,   \* calls of refresh_episodes
  NumListed,   \* Trakt lists the episodes 1..NumListed
  Medias

ASSUME EpisodeAssumption == NumListed \in Nat

Listed == 1..NumListed

VARIABLES
  present,   \* the row of the serie
  table,     \* its episodes
  mapped,    \* media_serie_mapping: pairs of a media and an episode
  refresh,   \* progress of each refresh; next is the first episode not yet added
  cleared,   \* some refresh deleted the episodes
  spoiled,   \* an editor touched the episodes, or a refresh was dropped
  late       \* episodes added when the serie was gone

vars == <<present, table, mapped, refresh, cleared, spoiled, late>>

TypeOK ==
  /\ present \in BOOLEAN /\ cleared \in BOOLEAN /\ spoiled \in BOOLEAN
  /\ table \subseteq Listed /\ late \subseteq Listed
  /\ mapped \subseteq Medias \X Listed
  /\ refresh \in [Refreshes -> [pc : {"idle", "fetch", "clear", "add", "get", "ended"},
                                next : 1..NumListed + 1]]

Init ==
  /\ present = TRUE
  /\ table \in SUBSET Listed
  /\ mapped \in SUBSET (Medias \X table)
  /\ refresh = [r \in Refreshes |-> [pc |-> "idle", next |-> 1]]
  /\ cleared = FALSE /\ spoiled = FALSE
  /\ late = {}

At(r, pc)       == refresh[r].pc = pc
Active(r)       == refresh[r].pc \in {"add", "get"}
Go(r, pc, next) == refresh' = [refresh EXCEPT ![r] = [pc |-> pc, next |-> next]]
Stops(r)        == Go(r, "ended", refresh[r].next)

\* DELETE FROM episodes: trigger 5 removes the mappings to each of them.
Delete(gone) ==
  /\ table' = table \ gone
  /\ mapped' = {p \in mapped : p[2] \notin gone}

\* INSERT INTO episodes.
Insert(n) ==
  /\ n \notin table
  /\ table' = table \cup {n}
  /\ late' = IF present THEN late ELSE late \cup {n}

-----------------------------------------------------------------------------
(* refresh_episodes.                                                       *)

\* get_serie_ids: the serie must be there.
ReadIds(r) ==
  /\ At(r, "idle")
  /\ Go(r, IF present THEN "fetch" ELSE "ended", 1)
  /\ UNCHANGED <<present, table, mapped, cleared, spoiled, late>>

\* all_episodes of Trakt, or its error.
Fetch(r) ==
  /\ At(r, "fetch")
  /\ Go(r, "clear", 1) \/ Go(r, "ended", 1)
  /\ UNCHANGED <<present, table, mapped, cleared, spoiled, late>>

\* Mutant: only what Trakt does not list is deleted, here nothing.
ClearOthers(r) ==
  /\ At(r, "clear")
  /\ Delete({})
  /\ Go(r, "add", 1)
  /\ cleared' = TRUE
  /\ UNCHANGED <<present, spoiled, late>>

\* remove_all_serie_episodes.
Clear(r) ==
  /\ At(r, "clear")
  /\ Delete(table)
  /\ Go(r, "add", 1)
  /\ cleared' = TRUE
  /\ UNCHANGED <<present, spoiled, late>>

Add(r) ==
  LET n == refresh[r].next
  IN  /\ At(r, "add") /\ n <= NumListed
      /\ Insert(n)
      /\ Go(r, "get", n + 1)
      /\ UNCHANGED <<present, mapped, cleared, spoiled>>

\* The primary key is taken: `?` ends the refresh.
AddConflicts(r) ==
  /\ At(r, "add") /\ refresh[r].next \in table
  /\ Stops(r)
  /\ UNCHANGED <<present, table, mapped, cleared, spoiled, late>>

\* add_episode reads what it added; deleted meanwhile, it is an error.
Reread(r) ==
  /\ At(r, "get")
  /\ IF refresh[r].next - 1 \in table THEN Go(r, "add", refresh[r].next) ELSE Stops(r)
  /\ UNCHANGED <<present, table, mapped, cleared, spoiled, late>>

Finish(r) ==
  /\ At(r, "add") /\ refresh[r].next = NumListed + 1
  /\ Stops(r)
  /\ UNCHANGED <<present, table, mapped, cleared, spoiled, late>>

\* The client of the route hangs up, or the database fails.
Drop(r) ==
  /\ refresh[r].pc \in {"fetch", "clear", "add", "get"}
  /\ Stops(r)
  /\ spoiled' = (spoiled \/ Active(r))
  /\ UNCHANGED <<present, table, mapped, cleared, late>>

-----------------------------------------------------------------------------
(* The other writers.                                                      *)

AddEpisode(n) ==
  /\ Insert(n)
  /\ spoiled' = TRUE
  /\ UNCHANGED <<present, mapped, refresh, cleared>>

RemoveEpisode(n) ==
  /\ n \in table
  /\ Delete({n})
  /\ spoiled' = TRUE
  /\ UNCHANGED <<present, refresh, cleared, late>>

\* A media is put in the serie: the episode is not looked up.
MapMedia(m, n) ==
  /\ mapped' = mapped \cup {<<m, n>>}
  /\ UNCHANGED <<present, table, refresh, cleared, spoiled, late>>

\* remove_serie; trigger 4 removes its episodes and their mappings.
RemoveSerie ==
  /\ present
  /\ present' = FALSE
  /\ table' = {} /\ mapped' = {}
  /\ spoiled' = TRUE
  /\ UNCHANGED <<refresh, cleared, late>>

Next ==
  \/ \E r \in Refreshes : \/ ReadIds(r) \/ Fetch(r) \/ Clear(r) \/ Add(r) \/ AddConflicts(r)
                          \/ Reread(r) \/ Finish(r) \/ Drop(r)
  \/ \E n \in Listed : \/ AddEpisode(n) \/ RemoveEpisode(n)
                       \/ \E m \in Medias : MapMedia(m, n)
  \/ RemoveSerie

Spec == Init /\ [][Next]_vars

-----------------------------------------------------------------------------
\* However refreshes overlap, and whichever of them stops at an episode
\* another has added, once all have ended the list is the one of Trakt.
RefreshesComplete ==
  cleared /\ ~spoiled /\ (\A r \in Refreshes : ~Active(r)) => table = Listed

\* An episode whose serie is gone was added by a refresh that went on.
OrphansAreLate == present \/ table \subseteq late

=============================================================================
