--------------------------------- MODULE Tags ---------------------------------
(***************************************************************************)
(* The tags of a library (src/src/model/tags.rs, store/sql/library/tags.rs *)
(* and the tag trigger of 051 - CASCADE DELETE.sql).                       *)
(*                                                                         *)
(* Every tag stores its parent and, a second time, the names of all its    *)
(* ancestors: its path.  Adding, renaming, moving, merging and removing    *)
(* must keep the two in agreement, for descendants are found by path       *)
(* alone.  A path is the sequence of the ancestors' names.                 *)
(***************************************************************************)
EXTENDS Naturals, Sequences

LOCAL INSTANCE SequencesExt

CONSTANTS
  MaxTags,     \* tags ever made: a tag is the number of its creation
  Names,
  Callers,     \* requests
  MaxCalls,    \* bound on the calls made
  None

Ids   == 1..MaxTags
Kinds == {"media", "book", "channel"}   \* one item of each kind is enough

VARIABLES
  tags,      \* the table: [name, parent, path], None without a row
  used,      \* tags made so far
  mapping,   \* the three tag mapping tables: pairs of a kind and a tag
  call,      \* what each request is doing
  calls,     \* calls made so far
  late,      \* rows added to a mapping for a tag that was already gone
  crossed    \* requests whose merge another merge or a removal overlapped

vars == <<tags, used, mapping, call, calls, late, crossed>>

Live       == {t \in Ids : tags[t] # None}
Idle       == [pc |-> "idle", op |-> None, tag |-> None, into |-> None, seen |-> None, had |-> {}]
ChildsPath(tag) == Append(tag.path, tag.name)

\* Descendants by path: `path LIKE childs_path || '%'`.
Under(table, tag) == {t \in Ids : table[t] # None /\ IsPrefix(ChildsPath(tag), table[t].path)}

TypeOK ==
  /\ \A t \in Live : /\ tags[t].name \in Names
                     /\ tags[t].parent \in Ids \cup {None}
                     /\ tags[t].path \in Seq(Names)
  /\ used \in 0..MaxTags /\ Live \subseteq 1..used
  /\ mapping \subseteq Kinds \X Ids
  /\ \A c \in Callers : /\ DOMAIN call[c] = DOMAIN Idle
                        /\ call[c].pc \in {"idle", "update", "merge", "remove", "recall", "find",
                                           "make", "findLast", "makeLast", "ok", "failed"}
  /\ calls \in 0..MaxCalls
  /\ late \subseteq Kinds \X Ids /\ crossed \subseteq Callers

\* A library with a few tags: any tree of them made by add_tag.
Init ==
  /\ used \in 0..MaxTags
  /\ \E parent \in [1..used -> Ids \cup {None}], name \in [1..used -> Names] :
       /\ \A t \in 1..used : parent[t] # None => parent[t] < t
       /\ LET path[t \in 1..used] == IF parent[t] = None THEN <<>>
                                     ELSE Append(path[parent[t]], name[parent[t]])
          IN  tags = [t \in Ids |-> IF t > used THEN None
                                    ELSE [name |-> name[t], parent |-> parent[t], path |-> path[t]]]
  /\ mapping \in {{}} \cup {Kinds \X {t} : t \in 1..used}
  /\ call = [c \in Callers |-> Idle]
  /\ calls = 0
  /\ late = {}
  /\ crossed = {}

Starts(c)      == call[c].pc = "idle" /\ calls < MaxCalls /\ calls' = calls + 1
At(c, pc)      == call[c].pc = pc
Becomes(c, to) == call' = [call EXCEPT ![c] = to]
Busy(d)        == call[d].op # None
Crosses(c)     == LET others == {d \in Callers \ {c} : Busy(d)}
                  IN  crossed' = (crossed \ {c}) \cup others \cup IF others = {} THEN {} ELSE {c}
Answer(c, how) == call' = [call EXCEPT ![c].pc = how]

-----------------------------------------------------------------------------
(* The statements on the database; each runs in one call.                  *)

\* add_tag: the path is made from the parent's row, in the same call.
AddRow(name, parent) ==
  /\ used < MaxTags
  /\ parent \in Live \cup {None}
  /\ used' = used + 1
  /\ tags' = [tags EXCEPT ![used + 1] =
       [name |-> name, parent |-> parent,
        path |-> IF parent = None THEN <<>> ELSE ChildsPath(tags[parent])]]

\* Replace(path, from, to) in the rows whose path is exactly `from`.
MovePaths(table, from, to) ==
  [t \in Ids |-> IF table[t] # None /\ table[t].path = from
                 THEN [table[t] EXCEPT !.path = to] ELSE table[t]]

\* update_tag with a new name; `seen` is the row it read before.
RenameRow(t, seen, name) ==
  LET named == IF tags[t] = None THEN tags ELSE [tags EXCEPT ![t].name = name]
  IN  tags' = MovePaths(named, ChildsPath(seen), Append(seen.path, name))

\* update_tag with a new parent.
MoveRow(t, seen, parent) ==
  LET below == ChildsPath(tags[parent])
      moved == IF tags[t] = None THEN tags ELSE [tags EXCEPT ![t].parent = parent, ![t].path = below]
  IN  tags' = MovePaths(moved, ChildsPath(seen), Append(below, seen.name))

\* Mutant: the channels are forgotten.
MigrateMediaRows(old, into) ==
  mapping' = {r \in mapping : r[2] # old \/ r[1] = "book"}
               \cup {<<"media", into>> : r \in mapping \cap {<<"media", old>>}}

\* update_tag with migrate_to: medias and channels move, books do not.
MigrateRows(old, into) ==
  LET moving == {k \in {"media", "channel"} : <<k, old>> \in mapping}
  IN  mapping' = {r \in mapping : r[2] # old \/ r[1] = "book"} \cup (moving \X {into})

\* Mutant: the trigger forgets the mappings of books.
CascadeKeepsBooks(gone) == mapping' = {r \in mapping : r[2] \notin gone \/ r[1] = "book"}

\* Trigger 6: no mapping of what was deleted remains.
CascadeMappings(gone) == mapping' = {r \in mapping : r[2] \notin gone}

\* remove_tag, with trigger 6 on each deleted row: it and its descendants by path.
RemoveRow(t) ==
  LET gone == {t} \cup Under(tags, tags[t])
  IN  /\ tags' = [u \in Ids |-> IF u \in gone THEN None ELSE tags[u]]
      /\ CascadeMappings(gone)

-----------------------------------------------------------------------------
(* The requests.                                                           *)

AddTag(c) ==
  /\ Starts(c)
  /\ \E name \in Names, parent \in Live \cup {None} : AddRow(name, parent)
  /\ UNCHANGED <<mapping, call, late, crossed>>

\* add_tag_to_media and its like: the tag is not looked up.
TagItem(c) ==
  /\ Starts(c)
  /\ \E k \in Kinds, t \in 1..used :
       /\ mapping' = mapping \cup {<<k, t>>}
       /\ late' = IF tags[t] = None THEN late \cup {<<k, t>>} ELSE late
  /\ UNCHANGED <<tags, used, call, crossed>>

\* update_tag reads the row; the update is a call of its own.
StartUpdate(c) ==
  /\ Starts(c)
  /\ \E t \in Live : Becomes(c, [Idle EXCEPT !.pc = "update", !.tag = t, !.seen = tags[t]])
  /\ UNCHANGED <<tags, used, mapping, late, crossed>>

Rename(c) ==
  /\ At(c, "update")
  /\ \E name \in Names : RenameRow(call[c].tag, call[c].seen, name)
  /\ Becomes(c, Idle)
  /\ UNCHANGED <<used, mapping, calls, late, crossed>>

\* The new parent may be a descendant, or the tag itself: nothing looks.
Move(c) ==
  /\ At(c, "update")
  /\ \E parent \in Live : MoveRow(call[c].tag, call[c].seen, parent)
  /\ Becomes(c, Idle)
  /\ UNCHANGED <<used, mapping, calls, late, crossed>>

StartMerge(c) ==
  /\ Starts(c)
  /\ \E old, into \in Live :
       Becomes(c, [Idle EXCEPT !.pc = "merge", !.op = "merge", !.tag = old, !.into = into,
                     !.had = {k \in Kinds : <<k, old>> \in mapping}])
  /\ Crosses(c)
  /\ UNCHANGED <<tags, used, mapping, late>>

\* The alternative names of `into`, then the mappings of `old`.
Migrate(c) ==
  LET old == call[c].tag
      into == call[c].into
  IN  /\ At(c, "merge")
      /\ MigrateRows(old, into)
      /\ late' = IF tags[into] = None THEN late \cup {<<k, into>> : k \in Kinds} ELSE late
      /\ Answer(c, "remove")
      /\ UNCHANGED <<tags, used, calls, crossed>>

\* One of the two was not found by update_tag.
MergeFails(c) ==
  /\ At(c, "merge")
  /\ tags[call[c].tag] = None \/ tags[call[c].into] = None
  /\ Answer(c, "failed")
  /\ UNCHANGED <<tags, used, mapping, calls, late, crossed>>

StartRemove(c) ==
  /\ Starts(c)
  /\ \E t \in Live : Becomes(c, [Idle EXCEPT !.pc = "remove", !.op = "remove", !.tag = t])
  /\ Crosses(c)
  /\ UNCHANGED <<tags, used, mapping, late>>

\* remove_tag; a merge then reads the tag it merged into.
RemoveTag(c) ==
  /\ At(c, "remove")
  /\ tags[call[c].tag] # None
  /\ RemoveRow(call[c].tag)
  /\ Answer(c, IF call[c].op = "merge" THEN "recall" ELSE "ok")
  /\ UNCHANGED <<used, calls, late, crossed>>

RemoveFails(c) ==
  /\ At(c, "remove")
  /\ tags[call[c].tag] = None
  /\ Answer(c, "failed")
  /\ UNCHANGED <<tags, used, mapping, calls, late, crossed>>

MergeAnswers(c) ==
  /\ At(c, "recall")
  /\ Answer(c, IF tags[call[c].into] = None THEN "failed" ELSE "ok")
  /\ UNCHANGED <<tags, used, mapping, calls, late, crossed>>

\* get_tags by name and parent: without a parent, any tag of that name.
Matches(name, parent) ==
  {t \in Live : tags[t].name = name /\ (parent = None \/ tags[t].parent = parent)}

\* get_or_create_path of two names.  (The look for the whole path finds
\* nothing: it has no leading slash.)
StartPath(c) ==
  /\ Starts(c)
  /\ \E first, last \in Names : Becomes(c, [Idle EXCEPT !.pc = "find", !.seen = <<first, last>>])
  /\ UNCHANGED <<tags, used, mapping, late, crossed>>

FindParent(c) ==
  /\ At(c, "find")
  /\ LET found == Matches(call[c].seen[1], None)
     IN  \/ \E t \in found : Becomes(c, [call[c] EXCEPT !.pc = "findLast", !.tag = t])
         \/ found = {} /\ Answer(c, "make")
  /\ UNCHANGED <<tags, used, mapping, calls, late, crossed>>

MakeParent(c) ==
  /\ At(c, "make")
  /\ AddRow(call[c].seen[1], None)
  /\ Becomes(c, [call[c] EXCEPT !.pc = "findLast", !.tag = used + 1])
  /\ UNCHANGED <<mapping, calls, late, crossed>>

FindLast(c) ==
  /\ At(c, "findLast")
  /\ Answer(c, IF Matches(call[c].seen[2], call[c].tag) = {} THEN "makeLast" ELSE "ok")
  /\ UNCHANGED <<tags, used, mapping, calls, late, crossed>>

\* add_tag fails when the parent is gone.
MakeLast(c) ==
  /\ At(c, "makeLast")
  /\ \/ AddRow(call[c].seen[2], call[c].tag) /\ Answer(c, "ok")
     \/ /\ tags[call[c].tag] = None /\ Answer(c, "failed")
        /\ UNCHANGED <<tags, used>>
  /\ UNCHANGED <<mapping, calls, late, crossed>>

\* The client has its answer, or hung up before.
Return(c) ==
  /\ ~At(c, "idle")
  /\ Becomes(c, Idle)
  /\ UNCHANGED <<tags, used, mapping, calls, late, crossed>>

Next ==
  \E c \in Callers :
    \/ AddTag(c) \/ TagItem(c) \/ StartUpdate(c) \/ Rename(c) \/ Move(c)
    \/ StartMerge(c) \/ Migrate(c) \/ MergeFails(c) \/ MergeAnswers(c)
    \/ StartRemove(c) \/ RemoveTag(c) \/ RemoveFails(c)
    \/ StartPath(c) \/ FindParent(c) \/ MakeParent(c) \/ FindLast(c) \/ MakeLast(c)
    \/ Return(c)

Spec == Init /\ [][Next]_vars

-----------------------------------------------------------------------------
\* No removal leaves an item tagged with a tag that is gone: such a row was
\* written when the tag was gone already (nothing checks it).
MappingsLive == \A r \in mapping \ late : tags[r[2]] # None

\* The answer to a merge is true: a media or a channel that had the old tag
\* still has one, unless another merge or removal overlapped it (two merges
\* that cross can lose both sides).  The mappings of books are not moved.
MergeKeepsItems ==
  [][\A c \in Callers :
       call[c].pc = "recall" /\ call'[c].pc = "ok" /\ c \notin crossed =>
         \A k \in call[c].had \ {"book"} : \E t \in Live : <<k, t>> \in mapping]_vars

\* Removing a tag removes all its descendants ("path-based to catch all
\* descendants", the comment of the trigger).
DescendantsRemoved == \A t \in Live : tags[t].parent = None \/ tags[tags[t].parent] # None

=============================================================================
