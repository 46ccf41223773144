------------------------------- MODULE Search -------------------------------
(***************************************************************************)
(* The event list: one administrator pages through the events, ranked by   *)
(* a search or by arrival (app/search/query.py, events_page of             *)
(* app/web/routes.py), while events are stored, backdated by the demo seed *)
(* and deleted, and while app/search/backfill.py gives terms to events     *)
(* that have none.                                                         *)
(*                                                                         *)
(* One query is modelled: what an event's terms are is one of the Texts,   *)
(* as far as that query can tell them apart.  Events that the filters on   *)
(* fields fixed at ingest (endpoint, status, method, type) leave out are   *)
(* left out of the model.  So is a query that begins with "$" and names a  *)
(* field holding text, or is no field path at all: a request for the       *)
(* latter fails.                                                           *)
(***************************************************************************)
EXTENDS Integers, FiniteSets

CONSTANTS
    Ids,          \* ObjectIds, which sort like numbers
    Times,        \* values of received_at
    Words,        \* tokens
    Exact,        \* the query, normalised
    Literal,      \* it does not begin with "$"
    Starts,       \* words that start with it
    Terms,        \* words of the query
    Grams,        \* trigrams of the query
    Texts,        \* what a text is indexed as: [tokens, trigrams]
    Found,        \* what the collection may hold at the start
    Asks,         \* requests for a first page: [ranked, from, to]
    PageSize,     \* PAGE_SIZE
    BatchSize,    \* BATCH_SIZE
    NoEvent, Gone, NoTerms, NoCursor,
    MaxChanges,   \* bound: events stored, backdated or deleted
    MaxFills      \* bound: backfills started

Text  == [tokens : SUBSET Words, trigrams : SUBSET Grams]
Event == [at : Times, text : Texts, terms : Texts \cup {NoTerms}]
Key   == [score : Nat, at : Times, id : Ids]

ASSUME SearchAssumption ==
    /\ Ids \subseteq Nat /\ Times \subseteq Nat
    /\ Literal \in BOOLEAN
    /\ Exact \in Starts /\ Starts \subseteq Words /\ Terms \subseteq Words
    /\ IsFiniteSet(Grams) /\ (Terms = {} => Grams = {})
    /\ Texts \subseteq Text /\ Found \subseteq [Ids -> Event \cup {NoEvent}]
    /\ Asks \subseteq [ranked : BOOLEAN, from : Nat, to : Nat]
    /\ PageSize \in Nat \ {0} /\ BatchSize \in Nat \ {0}
    /\ NoEvent \notin Event /\ Gone \notin Event /\ NoEvent # Gone
    /\ NoTerms \notin Text /\ NoCursor \notin Key
    /\ MaxChanges \in Nat /\ MaxFills \in Nat

VARIABLES
    event,      \* the collection; terms is the search field
    ask,        \* the request being paged through
    phase,      \* "new", "paging" or "ended"
    cursor,     \* of the link to the next page
    fill,       \* the backfill: "off", "reading" or "done"
    rebuild,    \* its --rebuild
    read,       \* events its query has returned
    batch,      \* operations
    \* history
    shown,      \* events on the pages so far, as they now are
    repeated,   \* one was shown twice
    steady,     \* events that answered the request and have not changed since
    cuts,       \* received_at of the last rows of unranked pages
    todo,       \* events the backfill found without terms, or found at all
    changes, fills

walk    == <<ask, phase, cursor, shown, repeated, steady, cuts>>
filling == <<fill, rebuild, read, batch, todo, fills>>
vars    == <<event, walk, filling, changes>>

Stored == {i \in Ids : event[i] \notin {NoEvent, Gone}}

TypeOK ==
    /\ event \in [Ids -> Event \cup {NoEvent, Gone}]
    /\ ask \in [ranked : BOOLEAN, from : Nat, to : Nat]
    /\ phase \in {"new", "paging", "ended"}
    /\ cursor \in Key \cup {NoCursor}
    /\ fill \in {"off", "reading", "done"} /\ rebuild \in BOOLEAN
    /\ read \subseteq Ids /\ batch \subseteq read /\ todo \subseteq Ids
    /\ shown \subseteq Stored /\ steady \subseteq Stored
    /\ repeated \in BOOLEAN /\ cuts \subseteq Times
    /\ changes \in 0..MaxChanges /\ fills \in 0..MaxFills

-----------------------------------------------------------------------------
(* Scores.  A unit is 1/|Grams| of a point, which makes them whole.        *)

Scale == IF Grams = {} THEN 1 ELSE Cardinality(Grams)

MinScore == 12 * Scale     \* FUZZY_SCORE * FUZZY_MIN_RATIO

(* _candidate_clause *)
Candidate(t) ==
    \/ Exact \in t.tokens
    \/ Starts \cap t.tokens # {}
    \/ Terms # {} /\ Terms \subseteq t.tokens
    \/ Grams \cap t.trigrams # {}

(* _score_expression.  The query stands in it as an expression: one that   *)
(* begins with "$" is read as the path of a field that is not there, which *)
(* is equal to no token and starts none.                                   *)
Score(t) ==
    CASE Literal /\ Exact \in t.tokens -> 100 * Scale
      [] Literal /\ Exact \notin t.tokens /\ Starts \cap t.tokens # {} -> 60 * Scale
      [] (Literal => Starts \cap t.tokens = {}) /\ Terms \subseteq t.tokens -> 40 * Scale
      [] OTHER -> 30 * Cardinality(Grams \cap t.trigrams)

(* What a search finds, whatever the index offers: the query, a word that  *)
(* starts with it, all of its words, or enough of its trigrams.  What a    *)
(* query that begins with "$" is to find by the first two, it finds only   *)
(* with all of its words.                                                  *)
Relevant(t) ==
    \/ Starts \cap t.tokens # {} /\ (Literal \/ Terms \subseteq t.tokens)
    \/ Terms # {} /\ Terms \subseteq t.tokens
    \/ Grams # {} /\ 30 * Cardinality(Grams \cap t.trigrams) >= MinScore

-----------------------------------------------------------------------------
(* Pages.                                                                  *)

Indexed(i) == event[i].terms # NoTerms

(* The sort key of a stored event; an unranked list sorts by at alone. *)
KeyOf(ranked, i) ==
    [score |-> IF ranked THEN Score(event[i].terms) ELSE 0, at |-> event[i].at, id |-> i]

(* Mutant: the keyset without its last part. *)
AfterWithoutId(k, c) ==
    \/ k.score < c.score
    \/ k.score = c.score /\ k.at < c.at

(* Mutant: the last row is returned again. *)
AfterOrSame(k, c) ==
    \/ k.score < c.score
    \/ k.score = c.score /\ k.at < c.at
    \/ k.score = c.score /\ k.at = c.at /\ k.id <= c.id

(* _cursor_clause: key k comes after the cursor c *)
After(k, c) ==
    \/ k.score < c.score
    \/ k.score = c.score /\ k.at < c.at
    \/ k.score = c.score /\ k.at = c.at /\ k.id < c.id

(* Mutant: the cursor replaces both date filters. *)
DatedByCursor(q, c, at) ==
    IF ~q.ranked /\ c # NoCursor THEN at < c.at ELSE q.from <= at /\ at < q.to

(* The date filters of to_query.  In list_events the cursor's "$lt"        *)
(* replaces the one of date_to.                                            *)
Dated(q, c, at) ==
    q.from <= at /\ (IF ~q.ranked /\ c # NoCursor THEN at < c.at ELSE at < q.to)

(* build_pipeline, and the query of list_events *)
Matches(q, c) ==
    {i \in Stored :
       /\ Dated(q, c, event[i].at)
       /\ q.ranked =>
            /\ Indexed(i)
            /\ Candidate(event[i].terms)
            /\ Score(event[i].terms) >= MinScore
            /\ c # NoCursor => After(KeyOf(TRUE, i), c)}

(* "$sort": i comes before j.  Events an unranked list finds equal come in *)
(* any order.                                                              *)
Precedes(ranked, i, j) ==
    LET a == KeyOf(ranked, i)
        b == KeyOf(ranked, j)
    IN  \/ a.score > b.score
        \/ a.score = b.score /\ a.at > b.at
        \/ ranked /\ a.score = b.score /\ a.at = b.at /\ i > j

(* What find_events may return: "$sort" and "$limit" *)
Pages(q, c) ==
    LET m == Matches(q, c)
    IN  {rows \in SUBSET m :
           /\ \/ Cardinality(rows) = PageSize
              \/ Cardinality(rows) < PageSize /\ rows = m
           /\ \A i \in rows, j \in m \ rows : ~Precedes(q.ranked, j, i)}

LastOf(ranked, rows) == {i \in rows : \A j \in rows : ~Precedes(ranked, i, j)}

(* What an answer to the request is, page or no page. *)
Answers(q) ==
    {i \in Stored :
       /\ q.from <= event[i].at /\ event[i].at < q.to
       /\ q.ranked => Indexed(i) /\ Relevant(event[i].terms)}

(* stream_events, while nothing changes *)
Exported == Matches(ask, NoCursor)

Init ==
    /\ event \in Found
    /\ ask \in Asks /\ phase = "new" /\ cursor = NoCursor
    /\ fill = "off" /\ rebuild = FALSE /\ read = {} /\ batch = {} /\ todo = {}
    /\ shown = {} /\ repeated = FALSE /\ steady = {} /\ cuts = {}
    /\ changes = 0 /\ fills = 0

(* events_page: a page that is full carries a link to the next. *)
Page(c) ==
    \E rows \in Pages(ask, c) :
       /\ shown' = shown \cup rows
       /\ repeated' = (repeated \/ shown \cap rows # {})
       /\ IF Cardinality(rows) = PageSize
          THEN \E l \in LastOf(ask.ranked, rows) :
                 /\ phase' = "paging"
                 /\ cursor' = KeyOf(ask.ranked, l)
                 /\ cuts' = IF ask.ranked THEN cuts ELSE cuts \cup {event[l].at}
          ELSE phase' = "ended" /\ cursor' = NoCursor /\ UNCHANGED cuts
       /\ UNCHANGED <<event, ask, filling, changes>>

FirstPage == phase = "new" /\ Page(NoCursor) /\ steady' = Answers(ask)

NextPage == phase = "paging" /\ Page(cursor) /\ UNCHANGED steady

-----------------------------------------------------------------------------
(* What happens meanwhile.                                                 *)

(* An event that changed counts as another one from then on. *)
Changed(is) ==
    /\ shown' = shown \ is /\ steady' = steady \ is
    /\ UNCHANGED <<ask, phase, cursor, repeated, cuts>>

Change == changes < MaxChanges /\ changes' = changes + 1 /\ UNCHANGED filling

(* receive's insert_one: received_at is read before, several awaits ago. *)
Insert(i, at, x) ==
    /\ event[i] = NoEvent
    /\ event' = [event EXCEPT ![i] = [at |-> at, text |-> x, terms |-> x]]
    /\ Change /\ UNCHANGED walk

(* seed.backdate *)
Backdate(i, at) ==
    /\ i \in Stored
    /\ event' = [event EXCEPT ![i].at = at]
    /\ Change /\ Changed({i})

(* The TTL monitor, or seed.reset *)
Remove(i) ==
    /\ i \in Stored
    /\ event' = [event EXCEPT ![i] = Gone]
    /\ Change /\ Changed({i})

-----------------------------------------------------------------------------
(* The backfill.                                                           *)

(* Its query. *)
Unread == {i \in Stored \ read : rebuild \/ ~Indexed(i)}

StartBackfill ==
    /\ fill # "reading" /\ fills < MaxFills
    /\ fill' = "reading" /\ fills' = fills + 1
    /\ rebuild' \in BOOLEAN
    /\ read' = {} /\ batch' = {}
    /\ todo' = {i \in Stored : rebuild' \/ ~Indexed(i)}
    /\ UNCHANGED <<event, walk, changes>>

Full == Cardinality(batch) >= BatchSize

(* The cursor returns every event that matches from its start on, and may  *)
(* return others.                                                          *)
Read(i) ==
    /\ fill = "reading" /\ ~Full /\ i \in Unread
    /\ read' = read \cup {i} /\ batch' = batch \cup {i}
    /\ UNCHANGED <<event, walk, fill, rebuild, todo, fills, changes>>

(* Mutant: bulk_write with upserts. *)
WriteUpsert(is) ==
    /\ event' = [i \in Ids |-> CASE i \in is \cap Stored ->
                                  [event[i] EXCEPT !.terms = event[i].text]
                             [] i \in is \ Stored -> [terms |-> NoTerms]
                             [] OTHER -> event[i]]
    /\ Changed({})

(* bulk_write: updates of events that are still there *)
Write(is) ==
    /\ event' = [i \in Ids |-> IF i \in is \cap Stored
                               THEN [event[i] EXCEPT !.terms = event[i].text] ELSE event[i]]
    /\ Changed({i \in is \cap Stored : event[i].terms # event[i].text})

(* Mutant: the operations are kept after they were written. *)
FlushKept ==
    /\ fill = "reading" /\ Full
    /\ Write(batch) /\ UNCHANGED batch
    /\ UNCHANGED <<fill, rebuild, read, todo, fills, changes>>

Flush ==
    /\ fill = "reading" /\ Full
    /\ Write(batch) /\ batch' = {}
    /\ UNCHANGED <<fill, rebuild, read, todo, fills, changes>>

(* Mutant: the operations left in the last batch are dropped. *)
RestDropped == {}

(* after the loop *)
Rest == batch

AllRead == todo \cap Unread = {}

Finish ==
    /\ fill = "reading" /\ ~Full /\ AllRead
    /\ Write(Rest) /\ batch' = {} /\ fill' = "done"
    /\ UNCHANGED <<rebuild, read, todo, fills, changes>>

(* The process dies, or a bulk_write fails after some of its updates. *)
Crash ==
    /\ fill = "reading"
    /\ \E part \in SUBSET batch : (Full \/ AllRead \/ part = {}) /\ Write(part)
    /\ fill' = "off" /\ batch' = {}
    /\ UNCHANGED <<rebuild, read, todo, fills, changes>>

Fill == (\E i \in Ids : Read(i)) \/ Flush \/ Finish

Next ==
    \/ FirstPage \/ NextPage
    \/ \E i \in Ids, at \in Times :
         Backdate(i, at) \/ \E x \in Texts : Insert(i, at, x)
    \/ \E i \in Ids : Remove(i)
    \/ StartBackfill \/ Fill \/ Crash

Spec == Init /\ [][Next]_vars

(* A backfill that does not die goes on. *)
FairSpec == Spec /\ WF_vars(Fill)

-----------------------------------------------------------------------------
(* Keyset pagination shows no event twice, unless the event moved.         *)
NoRepeat == ~repeated

(* When the pages are through, every event that answered the request and   *)
(* has not changed since was on one of them, whatever was stored, moved or *)
(* deleted in between.  The one exception is the unranked list, whose      *)
(* cursor is received_at alone: an event of the same millisecond as the    *)
(* last row of a page can be missed.                                       *)
SkippedOnlyByTie ==
    phase = "ended" => \A i \in steady \ shown : ~ask.ranked /\ event[i].at \in cuts

(* docs/architecture.md: "an export can never disagree with the table it   *)
(* was launched from".  Here: once the table has been paged through, and   *)
(* if nothing it answers with has changed meanwhile.                       *)
ExportAgrees == phase = "ended" /\ steady = Exported => shown = Exported

(* Pages hold answers only: a cursor that takes the place of a date filter *)
(* does not let events past it, and what an index offers is scored.        *)
PagesAnswer == shown \subseteq Answers(ask)

(* A backfill that ends has given every event it was to cover the terms of *)
(* its text, unless it is gone, whatever was stored meanwhile.             *)
BackfillCovers ==
    fill = "done" => \A i \in todo \cap Stored : event[i].terms = event[i].text

(* No batch is left behind for ever: a backfill that does not die ends,    *)
(* though events are stored and deleted under its cursor.                  *)
BackfillEnds == fill = "reading" ~> fill # "reading"
=============================================================================
