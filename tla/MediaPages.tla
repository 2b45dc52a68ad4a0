------------------------------ MODULE MediaPages ------------------------------
(***************************************************************************)
(* Paging through the medias of a library: get_medias with a page key      *)
(* (src/src/model/store/sql/library/medias.rs, model/medias.rs and         *)
(* routes/medias.rs), while the medias are edited, added and removed.      *)
(*                                                                         *)
(* Nothing of a request is kept on the server: the client makes the key    *)
(* from the last media of a full page, and stops at a page that is not     *)
(* full.  The filters of a query are the same for each of its pages: a row *)
(* is of a media they let through.                                         *)
(***************************************************************************)
EXTENDS Integers, FiniteSets

CONSTANTS
  MaxMedias,    \* medias of the library; a media is its identifier
  MaxLimit,     \* largest page asked for
  MaxEdits,     \* bound on the edits made while a client pages
  MaxClock,
  None

Ids == 1..MaxMedias
Sorts  == {"modified", "created", "size", "name"}
Dates  == {"modified", "created"}

VARIABLES
  rows,      \* of each media [value, modified], None without a row; value is its
             \* size or its creation date, whichever the query sorts by
  clock, edits,
  query,     \* what the client asks for: [sort, order, limit, style, since]
  key,       \* the page key of its next request
  given,     \* medias given so far
  start,     \* medias that answered to the query when it began
  done,      \* the last page was not full
  twice,     \* medias given more than once
  moved,     \* medias whose place in the order changed since
  marks,     \* values that were keys
  ignored    \* a key was of no use

vars == <<rows, clock, edits, query, key, given, start, done, twice, moved, marks, ignored>>

Live  == {m \in Ids : rows[m] # None}
First == [value |-> None, id |-> 0]     \* no key yet

TypeOK ==
  /\ \A m \in Live : /\ rows[m].value \in 0..1 \cup {None}
                     /\ rows[m].modified \in 0..MaxClock
  /\ clock \in 0..MaxClock /\ edits \in 0..MaxEdits
  /\ query.sort \in Sorts /\ query.order \in {"ASC", "DESC"} /\ query.limit \in 1..MaxLimit
  /\ key.id \in 0..MaxMedias
  /\ given \cup start \cup twice \cup moved \subseteq Ids
  /\ done \in BOOLEAN /\ ignored \in BOOLEAN

-----------------------------------------------------------------------------
(* The query.                                                              *)

\* Names are their own order; what is stored of the others is a number or NULL.
Column(sort, m) == CASE sort = "modified" -> rows[m].modified
                     [] sort = "name"     -> m
                     [] OTHER             -> rows[m].value

\* x comes after y in the order; NULL compares with nothing.
Beyond(order, x, y) == /\ x # None /\ y # None
                       /\ IF order = "DESC" THEN x < y ELSE x > y

\* Mutant: the identifiers are compared as if the order were ascending.
PastPairAscending(q, k, m) ==
  \/ Beyond(q.order, Column(q.sort, m), k.value)
  \/ Column(q.sort, m) = k.value /\ m > k.id

\* A key of two parts: the value and the identifier of the last media.
PastPair(q, k, m) ==
  \/ Beyond(q.order, Column(q.sort, m), k.value)
  \/ Column(q.sort, m) = k.value /\ Beyond(q.order, m, k.id)

\* The column the bounds `after` and `before` are about.
Bounded(q, m) == IF q.sort \in Dates THEN Column(q.sort, m) ELSE rows[m].modified

\* A key of one part takes the place of `before` or `after`; with both, only
\* `after` is looked at.
Bounds(q, k) ==
  [after  |-> IF q.style = "single" /\ k.value # None /\ q.order = "ASC" THEN k.value ELSE q.since,
   before |-> IF q.style = "single" /\ k.value # None /\ q.order = "DESC" THEN k.value ELSE None]

Selected(q, k) ==
  LET bound == Bounds(q, k)
  IN  {m \in Live :
         /\ q.style = "pair" /\ k.value # None => PastPair(q, k, m)
         /\ IF bound.after # None THEN Beyond("ASC", Bounded(q, m), bound.after)
            ELSE bound.before # None => Beyond("DESC", Bounded(q, m), bound.before)}

\* By the column, then by the identifier, both in the order asked for; NULL is
\* the smallest.
Precedes(q, m, n) ==
  LET rank(x)    == IF Column(q.sort, x) = None THEN -1 ELSE Column(q.sort, x)
      less(x, y) == rank(x) < rank(y) \/ (rank(x) = rank(y) /\ x < y)
  IN  IF q.order = "DESC" THEN less(n, m) ELSE less(m, n)

\* As many as the limit, and the first of them; or all there are.
Full(q, k) == Cardinality(Selected(q, k)) >= q.limit

Pages(q, k) ==
  IF ~Full(q, k) THEN {Selected(q, k)}
  ELSE {page \in SUBSET Selected(q, k) :
          /\ Cardinality(page) = q.limit
          /\ \A m \in page, n \in Selected(q, k) \ page : Precedes(q, m, n)}

-----------------------------------------------------------------------------
\* The key the client makes: a name is no number, and the server passes it over
\* as it does the absence of a value.
KeyOf(q, m) == [value |-> IF q.sort = "name" THEN None ELSE Column(q.sort, m), id |-> m]

Useless(q, k) == /\ k.id # 0
                 /\ \/ k.value = None
                    \/ q.style = "single" /\ q.order = "DESC" /\ q.since # None

Init ==
  /\ clock = 1 /\ edits = 0
  /\ query \in [sort : Sorts, order : {"ASC", "DESC"}, limit : 1..MaxLimit,
                style : {"pair", "single"}, since : {None, 0}]
  /\ rows \in [Ids -> {None} \cup [value : IF query.sort = "size" THEN {None, 0, 1} ELSE {0, 1},
                                      modified : {0, 1}]]
  /\ key = First
  /\ start = Selected(query, First)
  /\ given = {} /\ twice = {} /\ moved = {} /\ marks = {}
  /\ done = FALSE /\ ignored = FALSE

NextPage ==
  /\ ~done
  /\ \E page \in Pages(query, key) :
       /\ given' = given \cup page
       /\ twice' = twice \cup (given \cap page)
       /\ IF page = {} THEN key' = key
          ELSE \E last \in page : /\ \A m \in page \ {last} : Precedes(query, m, last)
                                 /\ key' = KeyOf(query, last)
  /\ done' = ~Full(query, key)
  /\ marks' = IF query.style = "single" THEN marks \cup {key'.value} ELSE marks
  /\ ignored' = (ignored \/ Useless(query, key))
  /\ UNCHANGED <<rows, clock, edits, query, start, moved>>

\* Time may have passed since the edit before.
Edits == /\ ~done
         /\ edits < MaxEdits /\ edits' = edits + 1
         /\ clock' \in clock..MaxClock

\* A media that is edited is modified now (trigger modified_medias).
Edit ==
  /\ Edits
  /\ \E m \in Live :
       /\ rows' = [rows EXCEPT ![m].modified = clock']
       /\ moved' = IF query.sort = "modified" THEN moved \cup {m} ELSE moved
  /\ UNCHANGED <<query, key, given, start, done, twice, marks, ignored>>

\* The size: the trigger sees it.  The creation date alone: it does not.
SetValue ==
  /\ Edits
  /\ query.sort \in {"size", "created"}
  /\ \E m \in Live, v \in 0..1 :
       /\ rows' = [rows EXCEPT ![m] = [value |-> v,
                     modified |-> IF query.sort = "size" THEN clock' ELSE rows[m].modified]]
       /\ moved' = moved \cup {m}
  /\ UNCHANGED <<query, key, given, start, done, twice, marks, ignored>>

AddMedia ==
  /\ Edits
  /\ \E m \in Ids \ Live, v \in 0..1 :
       /\ rows' = [rows EXCEPT ![m] = [value |-> v, modified |-> clock']]
       /\ moved' = moved \cup {m}
  /\ UNCHANGED <<query, key, given, start, done, twice, marks, ignored>>

RemoveMedia ==
  /\ Edits /\ clock' = clock
  /\ \E m \in Live : rows' = [rows EXCEPT ![m] = None] /\ moved' = moved \cup {m}
  /\ UNCHANGED <<query, key, given, start, done, twice, marks, ignored>>

Next == NextPage \/ Edit \/ SetValue \/ AddMedia \/ RemoveMedia

Spec == Init /\ [][Next]_vars

-----------------------------------------------------------------------------
\* A client that follows the keys to the end is given every media that answered
\* to its query when it began and kept its place, and none of those twice,
\* whatever is edited, added and removed on the way.  Left aside: a media
\* without the value sorted by; keys that are of no use (by name, of a media
\* without the value, one part with a descending order and `after`), which give
\* the first page again; and keys of one part, which are dates, for a sort that
\* is not, and pass over the other medias of the same date.
PagesFollowed ==
  ~ignored /\ (query.style = "single" => query.sort \in Dates) =>
    /\ twice \subseteq moved
    /\ done => \A m \in start \ moved :
         \/ m \in given
         \/ Column(query.sort, m) = None
         \/ query.style = "single" /\ Column(query.sort, m) \in marks

=============================================================================
