----------------------------- MODULE ChannelLists -----------------------------
(* The channels of an IPTV library and their import from a playlist             *)
(* (src/src/model/channels.rs, src/src/model/store/sql/library/channels.rs):    *)
(* what imports that fail, are dropped or overlap leave in the tables, beside   *)
(* the calls of users who remove channels and tag them.                         *)
(*                                                                              *)
(* A channel, and a variant, has the identifier of the import that added it.    *)
(* Of an entry of a playlist the fields count that choose a row: its tvg-id,    *)
(* its name and its group, which is the tag it gets.  The rest, the address     *)
(* first, is one version for the whole playlist.                                *)
EXTENDS Naturals

CONSTANTS
  Imports,     \* calls of import_m3u, of a route or of the scheduled refresh
  MaxImports,  \* bound on those that are made
  MaxCalls,    \* bound on the calls of users and on the failures of imports
  Entries,     \* what a playlist may list: live entries with a tvg-id
  Versions,
  None

VARIABLES
  channels,    \* the table channels
  variants,    \* the table channel_variants
  mapping,     \* channel_tag_mapping: "auto" is confidence 0, "user" is NULL
  import,      \* what each import does
  made, calls, \* how many imports, and how many of the others, there were
  assigned,    \* tags a user gave a channel that did not have them
  last         \* the playlist of the last import, None unless it ended alone

vars == <<channels, variants, mapping, import, made, calls, assigned, last>>

TvgIds   == {e.tvg_id : e \in Entries}
Names    == {e.name : e \in Entries}
Groups   == {e.group : e \in Entries}
Rows == [by : 1..MaxImports, tvg_id : TvgIds]

Playlists == [entries : SUBSET Entries, version : Versions]
Of(playlist, k) == {e \in playlist.entries : e.tvg_id = k}

Idle == [pc |-> "idle", run |-> 0, playlist |-> None, existing |-> {}, seen |-> {},
         todo |-> {}, channel |-> None, auto |-> {}, left |-> {}, row |-> None, alone |-> TRUE]

At(i, pc) == import[i].pc = pc
Active(i) == ~At(i, "idle")
Becomes(i, r) == import' = [import EXCEPT ![i] = r]

Init ==
  /\ channels = {} /\ variants = {}
  /\ mapping = [x \in Rows \X Groups |-> None]
  /\ import = [i \in Imports |-> Idle]
  /\ made = 0 /\ calls = 0
  /\ assigned = {}
  /\ last = None

-----------------------------------------------------------------------------
(* The import.                                                                 *)

\* Fetched and parsed, and the tags of its groups are there; the status of the reply
\* is not looked at, so that a page without entries is an empty playlist.
Fetch(i) ==
  /\ ~Active(i) /\ made < MaxImports
  /\ made' = made + 1
  /\ last' = None
  /\ \E p \in Playlists :
       LET others == {j \in Imports : Active(j)}
       IN  import' = [j \in Imports |->
             IF j = i THEN [Idle EXCEPT !.pc = "existing", !.run = made', !.playlist = p,
                                        !.alone = others = {}]
             ELSE [import[j] EXCEPT !.alone = @ /\ j \notin others]]
  /\ UNCHANGED <<channels, variants, mapping, calls, assigned>>

get_all_channel_ids(i) ==
  /\ At(i, "existing")
  /\ Becomes(i, [import[i] EXCEPT !.pc = "next", !.existing = channels,
                                  !.todo = {e.tvg_id : e \in import[i].playlist.entries}])
  /\ UNCHANGED <<channels, variants, mapping, made, calls, assigned, last>>

\* The row is the import's; the update of its name and logo is abstracted.
update_channel(i, c, k) ==
  Becomes(i, [import[i] EXCEPT !.pc = "auto", !.channel = c, !.todo = @ \ {k},
                               !.seen = @ \cup {c}])

\* One of the rows of a tvg-id: nothing makes it unique.
get_channel_by_tvg_id(i) ==
  /\ At(i, "next")
  /\ \E k \in import[i].todo :
       LET found == {c \in channels : c.tvg_id = k}
           new   == [by |-> import[i].run, tvg_id |-> k]
       IN  IF found # {} THEN \E c \in found : update_channel(i, c, k)
           ELSE Becomes(i, [import[i] EXCEPT !.pc = "add", !.channel = new, !.todo = @ \ {k}])
  /\ UNCHANGED <<channels, variants, mapping, made, calls, assigned, last>>

add_channel(i) ==
  /\ At(i, "add")
  /\ channels' = channels \cup {import[i].channel}
  /\ Becomes(i, [import[i] EXCEPT !.pc = "auto", !.seen = @ \cup {import[i].channel}])
  /\ UNCHANGED <<variants, mapping, made, calls, assigned, last>>

Auto(c) == {g \in Groups : mapping[<<c, g>>] = "auto"}
Tagged(c) == {g \in Groups : mapping[<<c, g>>] # None}

\* The tags of its groups, then the variants of the entries.
Listed(i) == Of(import[i].playlist, import[i].channel.tvg_id)
Wanted(i)   == {e.group : e \in Listed(i)}
HasTags(i, tags) ==
  Becomes(i, IF tags # Wanted(i) THEN [import[i] EXCEPT !.pc = "tags", !.auto = tags]
             ELSE [import[i] EXCEPT !.pc = "variants", !.auto = {}, !.left = Listed(i)])

get_channel_auto_tag_ids(i) ==
  /\ At(i, "auto") /\ HasTags(i, Auto(import[i].channel))
  /\ UNCHANGED <<channels, variants, mapping, made, calls, assigned, last>>

\* Mutant: INSERT OR REPLACE.
replace_channel_tag(c, g, confidence) == mapping' = [mapping EXCEPT ![<<c, g>>] = confidence]

\* INSERT OR IGNORE: a tag that is there stays what it is.
add_channel_tag(c, g, confidence) ==
  mapping' = [mapping EXCEPT ![<<c, g>>] = IF @ = None THEN confidence ELSE @]

AddTag(i) ==
  /\ At(i, "tags")
  /\ \E g \in Wanted(i) \ import[i].auto :
       add_channel_tag(import[i].channel, g, "auto") /\ HasTags(i, import[i].auto \cup {g})
  /\ UNCHANGED <<channels, variants, made, calls, assigned, last>>

\* Only with confidence 0, whatever was read.
remove_channel_auto_tag(c, g) ==
  mapping' = [mapping EXCEPT ![<<c, g>>] = IF @ = "auto" THEN None ELSE @]

RemoveTag(i) ==
  /\ At(i, "tags") /\ Wanted(i) \subseteq import[i].auto
  /\ \E g \in import[i].auto \ Wanted(i) :
       remove_channel_auto_tag(import[i].channel, g) /\ HasTags(i, import[i].auto \ {g})
  /\ UNCHANGED <<channels, variants, made, calls, assigned, last>>

SameRow(v, w) == <<v.channel, v.name, v.by>> = <<w.channel, w.name, w.by>>
Named(c, n) == {v \in variants : v.channel = c /\ v.name = n}

\* One of the rows of that name, or a new one; written only if it differs.
get_channel_variant_by_tvg_name(i) ==
  /\ At(i, "variants")
  /\ LET c == import[i].channel
         version == import[i].playlist.version
     IN  \E e \in import[i].left :
           LET found == Named(c, e.name)
               new   == [channel |-> c, name |-> e.name, by |-> import[i].run, version |-> version]
           IN  \E v \in IF found = {} THEN {new} ELSE found :
                 Becomes(i, IF found # {} /\ v.version = version
                            THEN [import[i] EXCEPT !.left = @ \ {e}]
                            ELSE [import[i] EXCEPT !.left = @ \ {e}, !.pc = "variant",
                                                   !.row = [v EXCEPT !.version = version]])
  /\ UNCHANGED <<channels, variants, mapping, made, calls, assigned, last>>

\* The foreign key of a variant whose channel has gone stops the import.
RefuseVariant(i) ==
  /\ At(i, "variant") /\ import[i].channel \notin channels
  /\ Becomes(i, Idle)
  /\ UNCHANGED <<channels, variants, mapping, made, calls, assigned, last>>

\* INSERT OR REPLACE by identifier.
add_channel_variant(i) ==
  /\ At(i, "variant") /\ import[i].channel \in channels
  /\ variants' = {v \in variants : ~SameRow(v, import[i].row)} \cup {import[i].row}
  /\ Becomes(i, [import[i] EXCEPT !.pc = "variants", !.row = None])
  /\ UNCHANGED <<channels, mapping, made, calls, assigned, last>>

\* Those whose names are not in the playlist are removed, then comes the next channel.
Stale(i, rows) ==
  Becomes(i, IF rows # {} THEN [import[i] EXCEPT !.pc = "stale", !.left = rows]
             ELSE [import[i] EXCEPT !.pc = "next", !.left = {}, !.channel = None])

get_channel_variants(i) ==
  /\ At(i, "variants") /\ import[i].left = {}
  /\ Stale(i, {v \in variants : /\ v.channel = import[i].channel
                                /\ v.name \notin {e.name : e \in Listed(i)}})
  /\ UNCHANGED <<channels, variants, mapping, made, calls, assigned, last>>

remove_channel_variant(i) ==
  /\ At(i, "stale")
  /\ \E v \in import[i].left : /\ variants' = {w \in variants : ~SameRow(v, w)}
                               /\ Stale(i, import[i].left \ {v})
  /\ UNCHANGED <<channels, mapping, made, calls, assigned, last>>

\* Its tags and variants first, in one call.
RemoveRow(c) ==
  /\ channels' = channels \ {c}
  /\ variants' = {v \in variants : v.channel # c}
  /\ mapping' = [x \in DOMAIN mapping |-> IF x[1] = c THEN None ELSE mapping[x]]
  /\ assigned' = {x \in assigned : x[1] # c}

\* The rows there were at the beginning and that no entry was found to be: of two of
\* a tvg-id, one goes.
remove_channel(i) ==
  /\ At(i, "next") /\ import[i].todo = {}
  /\ \E c \in import[i].existing \ import[i].seen :
       /\ RemoveRow(c)
       /\ Becomes(i, [import[i] EXCEPT !.existing = @ \ {c}])
  /\ UNCHANGED <<made, calls, last>>

Done(i) ==
  /\ At(i, "next") /\ import[i].todo = {} /\ import[i].existing \subseteq import[i].seen
  /\ Becomes(i, Idle)
  /\ last' = IF import[i].alone THEN import[i].playlist ELSE None
  /\ UNCHANGED <<channels, variants, mapping, made, calls, assigned>>

\* Any call fails, or the client of the route hangs up.
Fail(i) ==
  /\ Active(i)
  /\ calls < MaxCalls /\ calls' = calls + 1
  /\ Becomes(i, Idle)
  /\ UNCHANGED <<channels, variants, mapping, made, assigned, last>>

-----------------------------------------------------------------------------
(* The calls of users.                                                         *)

Called ==
  /\ calls < MaxCalls /\ calls' = calls + 1
  /\ import' = [i \in Imports |-> [import[i] EXCEPT !.alone = @ /\ ~Active(i)]]
  /\ last' = None
  /\ UNCHANGED made

RemoveChannel == Called /\ \E c \in channels : RemoveRow(c)

\* NULL is for a user's: but one that an import gave stays the import's.
AddUserTag ==
  /\ Called
  /\ \E c \in channels, g \in Groups :
       /\ add_channel_tag(c, g, "user")
       /\ assigned' = IF mapping[<<c, g>>] = None THEN assigned \cup {<<c, g>>} ELSE assigned
  /\ UNCHANGED <<channels, variants>>

remove_channel_tag ==
  /\ Called
  /\ \E c \in channels : \E g \in Tagged(c) :
       /\ mapping' = [mapping EXCEPT ![<<c, g>>] = None]
       /\ assigned' = assigned \ {<<c, g>>}
  /\ UNCHANGED <<channels, variants>>

Next ==
  \/ \E i \in Imports :
       \/ Fetch(i) \/ get_all_channel_ids(i)
       \/ get_channel_by_tvg_id(i) \/ add_channel(i)
       \/ get_channel_auto_tag_ids(i) \/ AddTag(i) \/ RemoveTag(i)
       \/ get_channel_variant_by_tvg_name(i) \/ add_channel_variant(i) \/ RefuseVariant(i)
       \/ get_channel_variants(i) \/ remove_channel_variant(i)
       \/ remove_channel(i) \/ Done(i) \/ Fail(i)
  \/ RemoveChannel \/ AddUserTag \/ remove_channel_tag

Spec == Init /\ [][Next]_vars

-----------------------------------------------------------------------------
\* The tags users gave stay theirs, whatever imports do meanwhile.  And one that met
\* nobody leaves what its playlist says, whatever those before it left that overlapped
\* or stopped midway: one channel for each tvg-id, tagged by its groups and by users,
\* with the variants of the playlist, of which one is up to date: two imports that
\* overlap may add a name twice, and the other row then stays as it is.
PlaylistImported ==
  /\ \A x \in assigned : mapping[x] = "user"
  /\ last # None =>
       /\ \A c, d \in channels : c.tvg_id = d.tvg_id => c = d
       /\ {c.tvg_id : c \in channels} = {e.tvg_id : e \in last.entries}
       /\ \A c \in channels :
            LET listed == Of(last, c.tvg_id)
            IN  /\ Auto(c) \subseteq {e.group : e \in listed}
                /\ {e.group : e \in listed} \subseteq Tagged(c)
                /\ {v.name : v \in {w \in variants : w.channel = c}} = {e.name : e \in listed}
                /\ \A e \in listed : \E v \in Named(c, e.name) : v.version = last.version

=============================================================================
