-------------------------- MODULE MCChannelStreams --------------------------
(* The live channels for TLC: their streams, with two channels and one     *)
(* quality of each, so that a key is a channel; or their import, with a    *)
(* channel that a playlist may list under two names and in two groups.     *)
(* The two share no state: `subject` says which one a behaviour is of.     *)
EXTENDS ChannelStreams, TLC

CONSTANTS
  Subjects, r1, r2, r3, c1, c2, k1, k2,
  Imports, MaxImports, MaxCalls, Entries, n1, n2, g1, g2, Versions

VARIABLES subject, channels, variants, mapping, import, made, calls, assigned, last

MCChannelOf == [k \in Keys |-> IF k = k1 THEN c1 ELSE c2]

\* r1 and r2 ask for the same channel, r3 for another one.
SameChannel == [r \in Requests |-> IF r = r3 THEN k2 ELSE k1]

MCEntries ==
  {[tvg_id |-> c1, name |-> n1, group |-> g1], [tvg_id |-> c1, name |-> n2, group |-> g2]}

\* A tag that is not there is no tag.
ASSUME ListsAssumption == MaxImports \in Nat /\ None \notin {"auto", "user"}

Lists == INSTANCE ChannelLists

listVars == <<channels, variants, mapping, import, made, calls, assigned, last>>

NoList ==
  /\ channels = None /\ variants = None /\ mapping = None /\ import = None
  /\ made = None /\ calls = None /\ assigned = None /\ last = None

MCInit ==
  /\ subject \in Subjects
  /\ Init
  /\ IF subject = "lists" THEN Lists!Init ELSE NoList

MCNext ==
  /\ UNCHANGED subject
  /\ \/ subject = "streams" /\ Next       /\ UNCHANGED listVars
     \/ subject = "lists"   /\ Lists!Next /\ UNCHANGED vars

MCSpec == MCInit /\ [][MCNext]_<<subject, vars, listVars>>

\* The imports, the versions, and the two entries.
MCSymmetry ==
  {p \in Permutations(Imports \cup Versions \cup {n1, n2, g1, g2}) :
     /\ {p[i] : i \in Imports} = Imports /\ {p[v] : v \in Versions} = Versions
     /\ <<p[n1], p[n2], p[g1], p[g2]>> \in {<<n1, n2, g1, g2>>, <<n2, n1, g2, g1>>}}

PlaylistImported == subject = "lists" => Lists!PlaylistImported

=============================================================================
