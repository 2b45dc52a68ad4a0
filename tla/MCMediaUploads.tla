---------------------------- MODULE MCMediaUploads ----------------------------
(* What comes into a library, for TLC: two uploads of the same name and the  *)
(* same bytes, which is where they meet; two downloads; and the conversions, *)
(* merges and splits that make medias out of others.  They share no state    *)
(* here, so that a behaviour is one of one of them: `subject` says which.    *)
EXTENDS MediaUploads, Sequences, TLC

CONSTANTS
  u1, u2, r1, r2, t1, t2, g1, g2, x, y,
  name, bytes,
  Tasks, Requests, Lists, Named, Post, a, b,
  Jobs, Merges, Splits, RequestIds

VARIABLES
  subject,
  kind, download, held, raced,
  password, job, plugin, late, segments, final, shared, medias

MCNameOf    == [u \in Uploads |-> name]
MCContentOf == [u \in Uploads |-> bytes]

MCLists     == {<<a, b>>, <<b>>}

\* A list has something in it, and what is one kind of work is not another.
ASSUME DownloadsAssumption ==
  \A list \in Lists : list # <<>> /\ list \in Seq(Requests)
ASSUME ConversionsAssumption ==
  Jobs \cap Merges = {} /\ Jobs \cap Splits = {} /\ Merges \cap Splits = {}

Downloads == INSTANCE Downloads WITH job <- download, medias <- held

Conversions == INSTANCE Conversions

downloadVars == <<kind, download, held, raced>>
convertVars  == <<password, job, plugin, late, segments, final, shared, medias>>

\* What has no part in a behaviour has no state.
NoDownload == kind = None /\ download = None /\ held = None /\ raced = None

NoConversion ==
  /\ password = None /\ job = None /\ plugin = None /\ late = None
  /\ segments = None /\ final = None /\ shared = None /\ medias = None

MCInit ==
  /\ Init
  /\ \/ subject = "uploads"     /\ NoDownload     /\ NoConversion
     \/ subject = "downloads"   /\ Downloads!Init /\ NoConversion
     \/ subject = "conversions" /\ NoDownload     /\ Conversions!Init

MCNext ==
  /\ UNCHANGED subject
  /\ \/ subject = "uploads" /\ Next /\ UNCHANGED <<downloadVars, convertVars>>
     \/ subject = "downloads" /\ Downloads!Next /\ UNCHANGED <<vars, convertVars>>
     \/ subject = "conversions" /\ Conversions!Next /\ UNCHANGED <<vars, downloadVars>>

MCSpec == MCInit /\ [][MCNext]_<<subject, vars, downloadVars, convertVars>>

\* A behaviour is one of one component, so that what is interchangeable in one
\* can be exchanged together with what is in another: uploads with downloads and
\* merges, removers with the ids of merges.
MCSymmetry ==
  {p \in Permutations({u1, u2, t1, t2, g1, g2}) :
     <<p[u1], p[u2], p[t1], p[t2], p[g1], p[g2]>> \in
       {<<u1, u2, t1, t2, g1, g2>>, <<u2, u1, t2, t1, g2, g1>>}}
  \cup
  {p \in Permutations({r1, r2, x, y}) :
     <<p[r1], p[r2], p[x], p[y]>> \in {<<r1, r2, x, y>>, <<r2, r1, y, x>>}}

ListsStored  == subject = "downloads" => Downloads!ListsStored
ResultsWhole == subject = "conversions" => Conversions!ResultsWhole

=============================================================================
