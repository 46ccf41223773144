---------------------------- MODULE SearchProofs ----------------------------
(***************************************************************************)
(* Proofs about Search, for every query, page size, batch size and number  *)
(* of events.  The walk through the pages rests on one fact: what has not  *)
(* been shown yet still lies beyond the cursor, and what has been shown    *)
(* does not.                                                               *)
(***************************************************************************)
EXTENDS Search, FiniteSetTheorems, TLAPS

-----------------------------------------------------------------------------
(* Scores.                                                                 *)

LEMMA HitsNat ==
    ASSUME NEW t
    PROVE  /\ Cardinality(Grams \cap t.trigrams) \in Nat
           /\ Cardinality(Grams \cap t.trigrams) = 0 <=> Grams \cap t.trigrams = {}
<1>1. IsFiniteSet(Grams \cap t.trigrams)
  BY SearchAssumption, FS_Intersection
<1> QED
  BY <1>1, FS_CardinalityType, FS_EmptySet

LEMMA ScaleNat == Scale \in Nat \ {0}
  BY SearchAssumption, FS_CardinalityType, FS_EmptySet DEF Scale

(* The four tiers, one by one. *)
LEMMA ScoreTiers ==
    ASSUME NEW t \in Texts
    PROVE  /\ Literal /\ Exact \in t.tokens => Score(t) = 100 * Scale
           /\ Literal /\ Exact \notin t.tokens /\ Starts \cap t.tokens # {}
                => Score(t) = 60 * Scale
           /\ (Literal => Starts \cap t.tokens = {}) /\ Terms \subseteq t.tokens
                => Score(t) = 40 * Scale
           /\ (Literal => Starts \cap t.tokens = {}) /\ ~(Terms \subseteq t.tokens)
                => Score(t) = 30 * Cardinality(Grams \cap t.trigrams)
<1>1. Starts \cap t.tokens = {} => Exact \notin t.tokens
  BY SearchAssumption
<1>2. CASE Literal /\ Exact \in t.tokens
  BY <1>1, <1>2 DEF Score
<1>3. CASE Literal /\ Exact \notin t.tokens /\ Starts \cap t.tokens # {}
  BY <1>3 DEF Score
<1>4. CASE (Literal => Starts \cap t.tokens = {}) /\ Terms \subseteq t.tokens
  BY <1>1, <1>4 DEF Score
<1>5. CASE (Literal => Starts \cap t.tokens = {}) /\ ~(Terms \subseteq t.tokens)
  BY <1>1, <1>5 DEF Score
<1> QED
  BY <1>1, <1>2, <1>3, <1>4, <1>5, SearchAssumption

LEMMA ScoreNat == ASSUME NEW t \in Texts PROVE Score(t) \in Nat
<1>1. /\ Scale \in Nat /\ 100 * Scale \in Nat /\ 60 * Scale \in Nat /\ 40 * Scale \in Nat
      /\ 30 * Cardinality(Grams \cap t.trigrams) \in Nat
  BY ScaleNat, HitsNat
<1> QED
  BY <1>1, ScoreTiers

(* The index offers every text worth MIN_SCORE, and the score keeps those  *)
(* that are relevant.                                                      *)
LEMMA FoundIsRelevant ==
    ASSUME NEW t \in Texts
    PROVE  Candidate(t) /\ Score(t) >= MinScore <=> Relevant(t)
<1> DEFINE h == Cardinality(Grams \cap t.trigrams)
<1>1. h \in Nat /\ (h = 0 <=> Grams \cap t.trigrams = {}) /\ Scale \in Nat \ {0}
  BY HitsNat, ScaleNat
<1>2. CASE Literal /\ Starts \cap t.tokens # {}
  <2>1. Score(t) >= MinScore
    BY <1>1, <1>2, ScoreTiers DEF MinScore
  <2> QED
    BY <1>2, <2>1 DEF Candidate, Relevant
<1>3. CASE (Literal => Starts \cap t.tokens = {}) /\ Terms \subseteq t.tokens
  <2>1. Score(t) >= MinScore
    BY <1>1, <1>3, ScoreTiers DEF MinScore
  <2>2. Exact \in t.tokens => Starts \cap t.tokens # {}
    BY SearchAssumption
  <2>3. CASE Terms = {}
    BY <1>3, <2>1, <2>2, <2>3, SearchAssumption DEF Candidate, Relevant
  <2>4. CASE Terms # {}
    BY <1>3, <2>1, <2>4 DEF Candidate, Relevant
  <2> QED
    BY <2>3, <2>4
<1>4. CASE (Literal => Starts \cap t.tokens = {}) /\ ~(Terms \subseteq t.tokens)
  <2>1. Score(t) = 30 * h
    BY <1>4, ScoreTiers
  <2>2. 30 * h >= MinScore => h # 0
    BY <1>1 DEF MinScore
  <2>3. h # 0 => Grams # {}
    BY <1>1
  <2>4. h # 0 => Candidate(t)
    BY <1>1 DEF Candidate
  <2>5. Relevant(t) <=> Grams # {} /\ 30 * h >= MinScore
    BY <1>4, SearchAssumption DEF Relevant
  <2> HIDE DEF h
  <2> QED
    BY <2>1, <2>2, <2>3, <2>4, <2>5
<1> QED
  BY <1>2, <1>3, <1>4

-----------------------------------------------------------------------------
(* Types.                                                                  *)

LEMMA NotEvents == NoEvent \notin Event /\ Gone \notin Event /\ NoEvent # Gone
  BY SearchAssumption

LEMMA StoredIs ==
    ASSUME TypeOK, NEW i \in Ids
    PROVE  i \in Stored <=> event[i] \in Event
  BY NotEvents DEF TypeOK, Stored

LEMMA KeyType ==
    ASSUME TypeOK, NEW r \in BOOLEAN, NEW i \in Stored, r => Indexed(i)
    PROVE  /\ KeyOf(r, i) \in Key /\ KeyOf(r, i) # NoCursor
           /\ KeyOf(r, i).at = event[i].at /\ KeyOf(r, i).id = i
           /\ KeyOf(r, i).score = IF r THEN Score(event[i].terms) ELSE 0
<1>1. i \in Ids /\ event[i] \in Event
  BY StoredIs DEF Stored
<1>2. r => Score(event[i].terms) \in Nat
  BY <1>1, ScoreNat DEF Event, Indexed
<1> QED
  BY <1>1, <1>2, SearchAssumption DEF KeyOf, Key, Event

LEMMA MatchesStored ==
    ASSUME NEW q, NEW c
    PROVE  /\ Matches(q, c) \subseteq Stored
           /\ \A i \in Matches(q, c) : q.ranked => Indexed(i)
  BY DEF Matches

(* A change of the collection, and what it does to the walk. *)
LEMMA WriteType ==
    ASSUME TypeOK, NEW is, Write(is)
    PROVE  /\ event' \in [Ids -> Event \cup {NoEvent, Gone}]
           /\ Stored' = Stored
           /\ \A i \in Ids : event'[i] # event[i] =>
                 i \in is \cap Stored /\ event[i].terms # event[i].text
           /\ \A i \in is \cap Stored :
                 event'[i] = [event[i] EXCEPT !.terms = event[i].text]
<1>1. ASSUME NEW i \in is \cap Stored
      PROVE  /\ i \in Ids /\ event'[i] = [event[i] EXCEPT !.terms = event[i].text]
             /\ event'[i] \in Event
             /\ event[i].terms = event[i].text => event'[i] = event[i]
  <2>1. i \in Ids /\ event[i] \in Event
    BY StoredIs DEF Stored
  <2> QED
    BY <2>1 DEF Write, Event
<1>2. \A i \in Ids \ (is \cap Stored) : event'[i] = event[i]
  BY DEF Write
<1>3. event' \in [Ids -> Event \cup {NoEvent, Gone}]
  <2>1. event' = [i \in Ids |-> event'[i]]
    BY DEF Write
  <2>2. \A i \in Ids : event'[i] \in Event \cup {NoEvent, Gone}
    BY <1>1, <1>2 DEF TypeOK
  <2> QED
    BY <2>1, <2>2
<1>4. Stored' = Stored
  BY <1>1, <1>2, NotEvents DEF Stored
<1> QED
  BY <1>1, <1>2, <1>3, <1>4

LEMMA InitTypeOK == Init => TypeOK
<1>1. ASSUME Init
      PROVE  /\ event \in [Ids -> Event \cup {NoEvent, Gone}]
             /\ ask \in [ranked : BOOLEAN, from : Nat, to : Nat]
  <2>1. event \in [Ids -> Event \cup {NoEvent}]
    BY <1>1, SearchAssumption DEF Init
  <2> QED
    BY <1>1, <2>1, SearchAssumption DEF Init
<1>2. 0 \in 0..MaxChanges /\ 0 \in 0..MaxFills
  BY SearchAssumption
<1> QED
  BY <1>1, <1>2 DEF Init, TypeOK

LEMMA PageType ==
    ASSUME TypeOK, NEW c, Page(c), steady' \subseteq Stored
    PROVE  TypeOK'
<1>1. PICK rows \in Pages(ask, c) :
         /\ shown' = shown \cup rows
         /\ repeated' = (repeated \/ shown \cap rows # {})
         /\ IF Cardinality(rows) = PageSize
            THEN \E l \in LastOf(ask.ranked, rows) :
                   /\ phase' = "paging"
                   /\ cursor' = KeyOf(ask.ranked, l)
                   /\ cuts' = IF ask.ranked THEN cuts ELSE cuts \cup {event[l].at}
            ELSE phase' = "ended" /\ cursor' = NoCursor /\ UNCHANGED cuts
  BY DEF Page
<1>2. /\ rows \subseteq Stored /\ \A i \in rows : ask.ranked => Indexed(i)
  BY MatchesStored DEF Pages
<1>3. UNCHANGED <<event, ask, fill, rebuild, read, batch, todo, fills, changes>>
  BY DEF Page, filling
<1>4. Stored' = Stored
  BY <1>3 DEF Stored
<1>5. phase' \in {"new", "paging", "ended"} /\ cursor' \in Key \cup {NoCursor} /\ cuts' \subseteq Times
  <2>1. ASSUME NEW l \in LastOf(ask.ranked, rows)
        PROVE  KeyOf(ask.ranked, l) \in Key /\ event[l].at \in Times
    <3>1. l \in Stored /\ (ask.ranked => Indexed(l)) /\ ask.ranked \in BOOLEAN
      BY <1>2 DEF LastOf, TypeOK
    <3>2. event[l] \in Event
      BY <3>1, StoredIs DEF Stored
    <3> QED
      BY <3>1, <3>2, KeyType DEF Event
  <2> QED
    BY <1>1, <2>1 DEF TypeOK
<1>6. shown' \subseteq Stored /\ repeated' \in BOOLEAN
  BY <1>1, <1>2 DEF TypeOK
<1> QED
  BY <1>3, <1>4, <1>5, <1>6 DEF TypeOK

LEMMA ChangeType ==
    ASSUME TypeOK, Change, NEW is, Changed(is),
           event' \in [Ids -> Event \cup {NoEvent, Gone}],
           \A i \in Stored \ is : event'[i] = event[i]
    PROVE  TypeOK'
<1>1. Stored \ is \subseteq Stored'
  BY DEF Stored
<1>2. changes' \in 0..MaxChanges
  BY SearchAssumption DEF Change, TypeOK
<1> QED
  BY <1>1, <1>2 DEF Change, Changed, TypeOK, filling

LEMMA NextTypeOK ==
    ASSUME TypeOK, [Next]_vars
    PROVE  TypeOK'
<1>1. CASE FirstPage
  <2>1. Answers(ask) \subseteq Stored
    BY DEF Answers
  <2> QED
    BY <1>1, <2>1, PageType DEF FirstPage
<1>2. CASE NextPage
  BY <1>2, PageType DEF NextPage, TypeOK
<1>3. ASSUME NEW i \in Ids, NEW at \in Times, Backdate(i, at)
      PROVE  TypeOK'
  <2>1. event[i] \in Event /\ event' = [event EXCEPT ![i].at = at]
    BY <1>3, StoredIs DEF Backdate
  <2>2. [event[i] EXCEPT !.at = at] \in Event
    BY <2>1 DEF Event
  <2>3. /\ event' \in [Ids -> Event \cup {NoEvent, Gone}]
        /\ \A j \in Stored \ {i} : event'[j] = event[j]
    BY <2>1, <2>2 DEF TypeOK, Stored
  <2> QED
    BY <1>3, <2>3, ChangeType DEF Backdate
<1>4. ASSUME NEW i \in Ids, NEW at \in Times, NEW x \in Texts, Insert(i, at, x)
      PROVE  TypeOK'
  <2>1. [at |-> at, text |-> x, terms |-> x] \in Event
    BY DEF Event
  <2>2. /\ event' \in [Ids -> Event \cup {NoEvent, Gone}]
        /\ \A j \in Stored : event'[j] = event[j]
    BY <1>4, <2>1 DEF Insert, TypeOK, Stored
  <2>3. Changed({}) /\ Change
    BY <1>4 DEF Insert, Changed, walk
  <2> QED
    BY <2>2, <2>3, ChangeType
<1>5. ASSUME NEW i \in Ids, Remove(i)
      PROVE  TypeOK'
  <2>1. /\ event' \in [Ids -> Event \cup {NoEvent, Gone}]
        /\ \A j \in Stored \ {i} : event'[j] = event[j]
    BY <1>5 DEF Remove, TypeOK, Stored
  <2> QED
    BY <1>5, <2>1, ChangeType DEF Remove
<1>6. CASE StartBackfill
  <2>1. /\ fill' = "reading" /\ rebuild' \in BOOLEAN /\ read' = {} /\ batch' = {}
        /\ todo' \subseteq Ids /\ fills' \in 0..MaxFills
    BY <1>6, SearchAssumption DEF StartBackfill, TypeOK, Stored
  <2> QED
    BY <1>6, <2>1 DEF StartBackfill, walk, TypeOK, Stored
<1>7. ASSUME NEW i \in Ids, Read(i)
      PROVE  TypeOK'
  BY <1>7 DEF Read, walk, TypeOK, Stored
<1>8. CASE Flush
  <2>1. shown' \subseteq shown /\ steady' \subseteq steady
    BY <1>8 DEF Flush, Write, Changed
  <2> QED
    BY <1>8, <2>1, WriteType DEF Flush, Write, Changed, TypeOK
<1>9. CASE Finish
  <2>1. shown' \subseteq shown /\ steady' \subseteq steady
    BY <1>9 DEF Finish, Write, Changed
  <2> QED
    BY <1>9, <2>1, WriteType DEF Finish, Write, Changed, TypeOK
<1>10. CASE Crash
  <2>1. PICK part \in SUBSET batch : Write(part)
    BY <1>10 DEF Crash
  <2>2. shown' \subseteq shown /\ steady' \subseteq steady
    BY <2>1 DEF Write, Changed
  <2> QED
    BY <1>10, <2>1, <2>2, WriteType DEF Crash, Write, Changed, TypeOK
<1>11. CASE UNCHANGED vars
  BY <1>11 DEF vars, walk, filling, TypeOK, Stored
<1> QED
  BY <1>1, <1>2, <1>3, <1>4, <1>5, <1>6, <1>7, <1>8, <1>9, <1>10, <1>11 DEF Next, Fill

(* The collection, the walk and the backfill keep their types: a bulk_write *)
(* makes no event of one that is gone.                                      *)
THEOREM TypeCorrect == Spec => []TypeOK
<1>1. TypeOK /\ [Next]_vars => TypeOK'
  BY NextTypeOK
<1> QED
  BY <1>1, InitTypeOK, PTL DEF Spec

-----------------------------------------------------------------------------
(* The walk.                                                               *)

(* Event i comes after the cursor c in the order of the list. *)
Beyond(i, c) ==
    IF ask.ranked THEN After(KeyOf(TRUE, i), c) ELSE event[i].at < c.at

(* The unshown lie beyond the cursor, the shown do not. *)
WalkInv ==
    /\ PagesAnswer
    /\ steady \subseteq Answers(ask)
    /\ NoRepeat
    /\ phase = "new" => shown = {}
    /\ SkippedOnlyByTie
    /\ phase = "paging" =>
         /\ cursor \in Key
         /\ ~ask.ranked => cursor.at < ask.to
         /\ \A i \in shown : ~Beyond(i, cursor)
         /\ \A i \in steady \ shown :
              Beyond(i, cursor) \/ (~ask.ranked /\ event[i].at \in cuts)

LEMMA FirstMatches ==
    ASSUME TypeOK
    PROVE  Matches(ask, NoCursor) = Answers(ask)
<1>1. ASSUME NEW i \in Stored, Indexed(i)
      PROVE  Candidate(event[i].terms) /\ Score(event[i].terms) >= MinScore
               <=> Relevant(event[i].terms)
  <2>1. event[i].terms \in Texts
    BY <1>1, StoredIs DEF Stored, Event, Indexed
  <2> QED
    BY <2>1, FoundIsRelevant
<1> QED
  BY <1>1 DEF Matches, Answers, Dated

LEMMA NextMatches ==
    ASSUME TypeOK, cursor \in Key, ~ask.ranked => cursor.at < ask.to
    PROVE  Matches(ask, cursor) = {i \in Answers(ask) : Beyond(i, cursor)}
<1>1. cursor # NoCursor
  BY SearchAssumption
<1>2. CASE ask.ranked
  <2>1. Matches(ask, cursor) =
          {i \in Matches(ask, NoCursor) : After(KeyOf(TRUE, i), cursor)}
    BY <1>1, <1>2 DEF Matches, Dated
  <2> QED
    BY <1>2, <2>1, FirstMatches DEF Beyond
<1>3. CASE ~ask.ranked
  <2>1. ASSUME NEW i \in Stored
        PROVE  /\ event[i].at \in Nat /\ cursor.at \in Nat /\ ask.to \in Nat
    BY <2>1, StoredIs, SearchAssumption DEF Stored, Event, Key, TypeOK
  <2>2. ASSUME NEW i \in Stored
        PROVE  i \in Matches(ask, cursor) <=> i \in Answers(ask) /\ Beyond(i, cursor)
    <3>1. i \in Matches(ask, cursor) <=> ask.from <= event[i].at /\ event[i].at < cursor.at
      BY <1>1, <1>3 DEF Matches, Dated
    <3>2. i \in Answers(ask) <=> ask.from <= event[i].at /\ event[i].at < ask.to
      BY <1>3 DEF Answers
    <3>3. Beyond(i, cursor) <=> event[i].at < cursor.at
      BY <1>3 DEF Beyond
    <3> QED
      BY <1>3, <2>1, <3>1, <3>2, <3>3
  <2> QED
    BY <2>2 DEF Matches, Answers
<1> QED
  BY <1>2, <1>3

(* The last row of a page cuts the list in two. *)
LEMMA PageCuts ==
    ASSUME TypeOK, NEW c, NEW rows \in Pages(ask, c), NEW l \in LastOf(ask.ranked, rows)
    PROVE  /\ l \in Matches(ask, c)
           /\ KeyOf(ask.ranked, l) \in Key /\ KeyOf(ask.ranked, l).at = event[l].at
           /\ \A i \in rows : ~Beyond(i, KeyOf(ask.ranked, l))
           /\ \A i \in Matches(ask, c) \ rows :
                \/ Beyond(i, KeyOf(ask.ranked, l))
                \/ ~ask.ranked /\ event[i].at = event[l].at
           /\ c \in Key /\ Beyond(l, c) =>
                \A i \in Stored : (ask.ranked => Indexed(i)) /\ ~Beyond(i, c)
                                     => ~Beyond(i, KeyOf(ask.ranked, l))
<1> DEFINE r == ask.ranked
           K(i) == KeyOf(r, i)
<1>1. r \in BOOLEAN
  BY DEF TypeOK
<1>2. /\ rows \subseteq Matches(ask, c) /\ l \in rows
      /\ \A i \in rows : ~Precedes(r, l, i)
      /\ \A i \in Matches(ask, c) \ rows : ~Precedes(r, i, l)
  BY DEF Pages, LastOf
<1>3. ASSUME NEW i \in Stored, r => Indexed(i)
      PROVE  /\ K(i) \in Key /\ K(i).at = event[i].at /\ K(i).id = i
             /\ K(i).score \in Nat /\ K(i).at \in Nat /\ i \in Nat
             /\ (~r => K(i).score = 0)
  BY <1>1, <1>3, KeyType, SearchAssumption DEF Key, Stored
<1>4. \A i \in Matches(ask, c) : i \in Stored /\ (r => Indexed(i))
  BY MatchesStored
<1>5. \A i, k : Beyond(i, k) <=> IF r THEN After(K(i), k) ELSE event[i].at < k.at
  BY DEF Beyond
<1>6. ASSUME NEW i \in rows
      PROVE  ~Beyond(i, K(l))
  BY <1>2, <1>3, <1>4, <1>5, <1>6 DEF Precedes, After
<1>7. ASSUME NEW i \in Matches(ask, c) \ rows
      PROVE  Beyond(i, K(l)) \/ (~r /\ event[i].at = event[l].at)
  <2>1. i # l
    BY <1>2, <1>7
  <2> QED
    BY <1>2, <1>3, <1>4, <1>5, <1>7, <2>1 DEF Precedes, After
<1>8. ASSUME c \in Key, Beyond(l, c), NEW i \in Stored, r => Indexed(i), ~Beyond(i, c)
      PROVE  ~Beyond(i, K(l))
  <2>1. c.score \in Nat /\ c.at \in Nat /\ c.id \in Nat
    BY <1>8, SearchAssumption DEF Key
  <2> QED
    BY <1>2, <1>3, <1>4, <1>5, <1>8, <2>1 DEF After
<1> QED
  BY <1>2, <1>3, <1>4, <1>6, <1>7, <1>8

(* A page, the first or another, keeps the invariant. *)
LEMMA PageKeeps ==
    ASSUME TypeOK, NEW c, Page(c), WalkInv,
           Matches(ask, c) = {i \in Answers(ask) : c \in Key => Beyond(i, c)},
           c \in Key =>
               /\ ~ask.ranked => c.at < ask.to
               /\ \A i \in shown : ~Beyond(i, c)
               /\ \A i \in steady' \ shown :
                    Beyond(i, c) \/ (~ask.ranked /\ event[i].at \in cuts),
           c \notin Key => c = NoCursor /\ shown = {},
           steady' \subseteq Answers(ask)
    PROVE  WalkInv'
<1> DEFINE m == Matches(ask, c)
<1>1. PICK rows \in Pages(ask, c) :
         /\ shown' = shown \cup rows
         /\ repeated' = (repeated \/ shown \cap rows # {})
         /\ IF Cardinality(rows) = PageSize
            THEN \E l \in LastOf(ask.ranked, rows) :
                   /\ phase' = "paging"
                   /\ cursor' = KeyOf(ask.ranked, l)
                   /\ cuts' = IF ask.ranked THEN cuts ELSE cuts \cup {event[l].at}
            ELSE phase' = "ended" /\ cursor' = NoCursor /\ UNCHANGED cuts
  BY DEF Page
<1>2. /\ event' = event /\ ask' = ask /\ Answers(ask)' = Answers(ask)
      /\ \A i, k : Beyond(i, k)' = Beyond(i, k)
  BY DEF Page, Answers, Stored, Indexed, Beyond, KeyOf
<1>3. rows \subseteq m /\ (Cardinality(rows) # PageSize => rows = m)
  BY DEF Pages
<1>4. shown \cap rows = {}
  BY <1>3
<1>5. PagesAnswer' /\ NoRepeat' /\ steady' \subseteq Answers(ask)'
  BY <1>1, <1>2, <1>3, <1>4 DEF WalkInv, PagesAnswer, NoRepeat
<1>6. CASE Cardinality(rows) = PageSize
  <2>1. PICK l \in LastOf(ask.ranked, rows) :
           /\ phase' = "paging"
           /\ cursor' = KeyOf(ask.ranked, l)
           /\ cuts' = IF ask.ranked THEN cuts ELSE cuts \cup {event[l].at}
    BY <1>1, <1>6
  <2>2. l \in m /\ l \in Answers(ask) /\ (c \in Key => Beyond(l, c))
    BY <2>1, PageCuts
  <2>3. cursor' \in Key /\ (~ask.ranked => cursor'.at < ask.to)
    BY <2>1, <2>2, PageCuts DEF Answers
  <2>4. \A i \in shown' : ~Beyond(i, cursor')
    <3>1. \A i \in rows : ~Beyond(i, cursor')
      BY <2>1, PageCuts
    <3>2. \A i \in shown : i \in Stored /\ (ask.ranked => Indexed(i))
      BY DEF WalkInv, PagesAnswer, Answers
    <3>3. \A i \in shown : ~Beyond(i, cursor')
      BY <2>1, <2>2, <3>2, PageCuts
    <3> QED
      BY <1>1, <3>1, <3>3
  <2>5. ASSUME NEW i \in steady' \ shown'
        PROVE  Beyond(i, cursor') \/ (~ask.ranked /\ event[i].at \in cuts')
    <3>1. i \notin rows /\ i \notin shown /\ i \in Answers(ask)
      BY <1>1, <2>5
    <3>2. CASE i \in m
      BY <2>1, <3>1, <3>2, PageCuts
    <3>3. CASE i \notin m
      <4>1. ~ask.ranked /\ event[i].at \in cuts
        BY <2>5, <3>1, <3>3
      <4> QED
        BY <2>1, <4>1
    <3> QED
      BY <3>2, <3>3
  <2> QED
    BY <1>2, <1>5, <2>1, <2>3, <2>4, <2>5 DEF WalkInv, SkippedOnlyByTie
<1>7. CASE Cardinality(rows) # PageSize
  <2>1. phase' = "ended" /\ cuts' = cuts /\ shown' = shown \cup m
    BY <1>1, <1>3, <1>7
  <2>2. ASSUME NEW i \in steady' \ shown'
        PROVE  ~ask.ranked /\ event[i].at \in cuts
    BY <2>1, <2>2
  <2> QED
    BY <1>2, <1>5, <2>1, <2>2 DEF WalkInv, SkippedOnlyByTie
<1> QED
  BY <1>6, <1>7

(* What else happens takes the events it touches out of the walk. *)
LEMMA OthersKeep ==
    ASSUME TypeOK, WalkInv, NEW is, Changed(is),
           \A i \in (shown \cup steady) \ is : event'[i] = event[i]
    PROVE  WalkInv'
<1>1. /\ shown' = shown \ is /\ steady' = steady \ is
      /\ ask' = ask /\ phase' = phase /\ cursor' = cursor /\ repeated' = repeated
      /\ cuts' = cuts
  BY DEF Changed
<1>2. ASSUME NEW i \in shown' \cup steady'
      PROVE  i \in Answers(ask) => i \in Answers(ask)'
  BY <1>1 DEF Answers, Stored, Indexed
<1>3. ASSUME NEW i \in shown' \cup steady', NEW k
      PROVE  Beyond(i, k)' = Beyond(i, k)
  BY <1>1 DEF Beyond, KeyOf
<1>4. PagesAnswer' /\ NoRepeat' /\ steady' \subseteq Answers(ask)'
  BY <1>1, <1>2 DEF WalkInv, PagesAnswer, NoRepeat
<1>5. \A i \in steady' \ shown' :
          i \in steady \ shown /\ event'[i] = event[i]
  BY <1>1
<1>6. SkippedOnlyByTie'
  BY <1>1, <1>5 DEF WalkInv, SkippedOnlyByTie
<1>7. \A i \in shown' \cup steady' : Beyond(i, cursor)' = Beyond(i, cursor)
  BY <1>1, <1>3
<1> QED
  BY <1>1, <1>4, <1>5, <1>6, <1>7 DEF WalkInv

LEMMA InitWalk == Init => WalkInv
  BY DEF Init, WalkInv, PagesAnswer, NoRepeat, SkippedOnlyByTie

LEMMA WriteKeeps ==
    ASSUME TypeOK, WalkInv, NEW is, Write(is)
    PROVE  WalkInv'
<1> DEFINE js == {i \in is \cap Stored : event[i].terms # event[i].text}
<1>1. Changed(js)
  BY DEF Write
<1>2. \A i \in (shown \cup steady) \ js : event'[i] = event[i]
  BY WriteType DEF TypeOK, Stored
<1> HIDE DEF js
<1> QED
  BY <1>1, <1>2, OthersKeep

LEMMA NextWalk ==
    ASSUME TypeOK, WalkInv, [Next]_vars
    PROVE  WalkInv'
<1>1. CASE FirstPage
  <2>1. NoCursor \notin Key
    BY SearchAssumption
  <2>2. Page(NoCursor) /\ steady' = Answers(ask) /\ shown = {}
    BY <1>1 DEF FirstPage, WalkInv
  <2>3. Matches(ask, NoCursor) =
          {i \in Answers(ask) : NoCursor \in Key => Beyond(i, NoCursor)}
    BY <2>1, FirstMatches
  <2> QED
    BY <2>1, <2>2, <2>3, PageKeeps
<1>2. CASE NextPage
  <2>1. /\ Page(cursor) /\ steady' = steady /\ cursor \in Key
        /\ ~ask.ranked => cursor.at < ask.to
        /\ \A i \in shown : ~Beyond(i, cursor)
        /\ \A i \in steady' \ shown :
             Beyond(i, cursor) \/ (~ask.ranked /\ event[i].at \in cuts)
        /\ steady' \subseteq Answers(ask)
    BY <1>2 DEF NextPage, WalkInv
  <2>2. Matches(ask, cursor) = {i \in Answers(ask) : cursor \in Key => Beyond(i, cursor)}
    BY <2>1, NextMatches
  <2> QED
    BY <2>1, <2>2, PageKeeps
<1>3. ASSUME NEW i \in Ids, NEW at \in Times, Backdate(i, at)
      PROVE  WalkInv'
  <2>1. \A j \in (shown \cup steady) \ {i} : event'[j] = event[j]
    BY <1>3 DEF Backdate, TypeOK, Stored
  <2> QED
    BY <1>3, <2>1, OthersKeep DEF Backdate
<1>4. ASSUME NEW i \in Ids, NEW at \in Times, NEW x \in Texts, Insert(i, at, x)
      PROVE  WalkInv'
  <2>1. Changed({}) /\ \A j \in (shown \cup steady) \ {} : event'[j] = event[j]
    BY <1>4 DEF Insert, Changed, walk, TypeOK, Stored
  <2> QED
    BY <2>1, OthersKeep
<1>5. ASSUME NEW i \in Ids, Remove(i)
      PROVE  WalkInv'
  <2>1. \A j \in (shown \cup steady) \ {i} : event'[j] = event[j]
    BY <1>5 DEF Remove, TypeOK, Stored
  <2> QED
    BY <1>5, <2>1, OthersKeep DEF Remove
<1>6. CASE UNCHANGED <<event, walk>>
  <2>1. Changed({}) /\ \A j \in (shown \cup steady) \ {} : event'[j] = event[j]
    BY <1>6 DEF Changed, walk
  <2> QED
    BY <2>1, OthersKeep
<1>7. CASE Flush \/ Finish \/ Crash
  BY <1>7, WriteKeeps DEF Flush, Finish, Crash
<1> QED
  BY <1>1, <1>2, <1>3, <1>4, <1>5, <1>6, <1>7
     DEF Next, Fill, StartBackfill, Read, vars

LEMMA WalkInvariance == Spec => [](TypeOK /\ WalkInv)
<1>1. TypeOK /\ WalkInv /\ [Next]_vars => TypeOK' /\ WalkInv'
  BY NextTypeOK, NextWalk
<1> QED
  BY <1>1, InitTypeOK, InitWalk, PTL DEF Spec

(* Whatever happens between two pages, no event is shown twice unless it   *)
(* moved.                                                                  *)
THEOREM ShownOnce == Spec => []NoRepeat
<1>1. WalkInv => NoRepeat
  BY DEF WalkInv
<1> QED
  BY <1>1, WalkInvariance, PTL

(* When the pages are through, what was there from the first page on has   *)
(* been shown, but for the ties of an unranked list.                       *)
THEOREM NothingElseSkipped == Spec => []SkippedOnlyByTie
<1>1. WalkInv => SkippedOnlyByTie
  BY DEF WalkInv
<1> QED
  BY <1>1, WalkInvariance, PTL

(* Every row answers the request, though the cursor stands in for date_to. *)
THEOREM RowsAnswer == Spec => []PagesAnswer
<1>1. WalkInv => PagesAnswer
  BY DEF WalkInv
<1> QED
  BY <1>1, WalkInvariance, PTL

-----------------------------------------------------------------------------
(* The backfill.                                                           *)

(* What it set out to cover is covered, in the batch, or still unread. *)
FillInv ==
    /\ \A i \in todo : event[i] # NoEvent
    /\ fill = "reading" => \A i \in todo \cap Stored :
         i \in Unread \/ i \in batch \/ event[i].terms = event[i].text
    /\ BackfillCovers

LEMMA InitFill == Init => FillInv
  BY DEF Init, FillInv, BackfillCovers

(* Changes by others leave terms alone and bring back no event. *)
LEMMA OthersLeaveTerms ==
    ASSUME TypeOK, FillInv, UNCHANGED filling,
           \A i \in todo : event[i] # NoEvent => event'[i] # NoEvent,
           \A i \in todo \cap Stored' :
             /\ i \in Stored
             /\ event'[i].terms = event[i].terms /\ event'[i].text = event[i].text
    PROVE  FillInv'
<1>1. /\ fill' = fill /\ rebuild' = rebuild /\ read' = read /\ batch' = batch
      /\ todo' = todo
  BY DEF filling
<1>2. ASSUME NEW i \in todo \cap Stored', i \in Unread
      PROVE  i \in Unread'
  BY <1>1, <1>2 DEF Unread, Indexed
<1> QED
  BY <1>1, <1>2 DEF FillInv, BackfillCovers

LEMMA WriteCovers ==
    ASSUME TypeOK, NEW is, Write(is)
    PROVE  /\ Stored' = Stored
           /\ \A i \in is \cap Stored : event'[i].terms = event'[i].text
           /\ \A i \in Stored :
                /\ event[i].terms = event[i].text => event'[i].terms = event'[i].text
                /\ i \notin is => event'[i] = event[i]
           /\ \A i \in Ids : event[i] # NoEvent => event'[i] # NoEvent
<1>1. ASSUME NEW i \in is \cap Stored
      PROVE  event'[i].terms = event'[i].text
  <2>1. event[i] \in Event /\ event'[i] = [event[i] EXCEPT !.terms = event[i].text]
    BY WriteType, StoredIs DEF Stored
  <2> QED
    BY <2>1 DEF Event
<1>2. Stored' = Stored
  BY WriteType
<1>3. \A i \in Ids \ (is \cap Stored) : event'[i] = event[i]
  BY WriteType
<1>4. ASSUME NEW i \in Ids, event[i] # NoEvent
      PROVE  event'[i] # NoEvent
  <2>1. CASE i \in Stored
    BY <1>2, <2>1 DEF Stored
  <2>2. CASE i \notin Stored
    BY <1>3, <1>4, <2>2
  <2> QED
    BY <2>1, <2>2
<1> QED
  BY <1>1, <1>2, <1>3, <1>4 DEF Stored

LEMMA NextFill ==
    ASSUME TypeOK, FillInv, [Next]_vars
    PROVE  FillInv'
<1>1. CASE FirstPage \/ NextPage
  BY <1>1, OthersLeaveTerms DEF FirstPage, NextPage, Page, Stored
<1>2. ASSUME NEW i \in Ids, NEW at \in Times, Backdate(i, at)
      PROVE  FillInv'
  <2>1. event' = [event EXCEPT ![i].at = at] /\ event[i] \in Event /\ UNCHANGED filling
    BY <1>2, StoredIs DEF Backdate, Change
  <2>2. [event[i] EXCEPT !.at = at] \in Event
    BY <2>1 DEF Event
  <2>3. \A j \in Ids \ {i} : event'[j] = event[j]
    BY <2>1 DEF TypeOK
  <2>4. /\ event'[i] \in Event
        /\ event'[i].terms = event[i].terms /\ event'[i].text = event[i].text
    BY <2>1, <2>2 DEF TypeOK, Event
  <2> QED
    BY <1>2, <2>1, <2>3, <2>4, NotEvents, OthersLeaveTerms DEF Stored, TypeOK, Backdate
<1>3. ASSUME NEW i \in Ids, NEW at \in Times, NEW x \in Texts, Insert(i, at, x)
      PROVE  FillInv'
  <2>1. i \notin todo /\ UNCHANGED filling /\ \A j \in Ids \ {i} : event'[j] = event[j]
    BY <1>3 DEF Insert, Change, FillInv, TypeOK
  <2> QED
    BY <2>1, OthersLeaveTerms DEF Stored, TypeOK
<1>4. ASSUME NEW i \in Ids, Remove(i)
      PROVE  FillInv'
  <2>1. /\ event'[i] = Gone /\ \A j \in Ids \ {i} : event'[j] = event[j]
        /\ UNCHANGED filling
    BY <1>4 DEF Remove, Change, TypeOK
  <2> QED
    BY <2>1, NotEvents, OthersLeaveTerms DEF Stored, TypeOK
<1>5. CASE StartBackfill
  <2>1. /\ event' = event /\ fill' = "reading" /\ read' = {}
        /\ todo' = {i \in Stored : rebuild' \/ ~Indexed(i)}
    BY <1>5 DEF StartBackfill
  <2>2. \A i \in todo' : i \in Unread' /\ event'[i] # NoEvent
    BY <2>1 DEF Unread, Stored, Indexed
  <2> QED
    BY <2>1, <2>2 DEF FillInv, BackfillCovers
<1>6. ASSUME NEW i \in Ids, Read(i)
      PROVE  FillInv'
  <2>1. /\ event' = event /\ fill' = fill /\ fill = "reading" /\ rebuild' = rebuild
        /\ todo' = todo /\ read' = read \cup {i} /\ batch' = batch \cup {i}
        /\ Stored' = Stored
    BY <1>6 DEF Read, Stored
  <2>2. \A j \in Unread : j \in Unread' \/ j \in batch'
    BY <2>1 DEF Unread, Indexed
  <2> QED
    BY <2>1, <2>2 DEF FillInv, BackfillCovers
<1>7. CASE Flush
  <2>1. /\ Write(batch) /\ fill = "reading" /\ fill' = "reading" /\ rebuild' = rebuild
        /\ todo' = todo /\ read' = read
    BY <1>7 DEF Flush
  <2>2. \A j \in Unread : j \in Unread'
    BY <2>1, WriteCovers DEF Unread, Indexed, TypeOK
  <2>3. \A j \in todo' : event'[j] # NoEvent
    BY <2>1, WriteCovers DEF FillInv, TypeOK
  <2> QED
    BY <2>1, <2>2, <2>3, WriteCovers DEF FillInv, BackfillCovers
<1>8. CASE Finish
  <2>1. /\ Write(batch) /\ fill = "reading" /\ fill' = "done" /\ todo' = todo
        /\ todo \cap Unread = {}
    BY <1>8 DEF Finish, AllRead, Rest
  <2>2. \A j \in todo' : event'[j] # NoEvent
    BY <2>1, WriteCovers DEF FillInv, TypeOK
  <2> QED
    BY <2>1, <2>2, WriteCovers DEF FillInv, BackfillCovers
<1>9. CASE Crash
  <2>1. /\ fill' = "off" /\ todo' = todo
        /\ \A j \in Ids : event[j] # NoEvent => event'[j] # NoEvent
    BY <1>9, WriteCovers DEF Crash
  <2> QED
    BY <2>1 DEF FillInv, BackfillCovers, TypeOK
<1>10. CASE UNCHANGED vars
  BY <1>10, OthersLeaveTerms DEF vars, Stored
<1> QED
  BY <1>1, <1>2, <1>3, <1>4, <1>5, <1>6, <1>7, <1>8, <1>9, <1>10 DEF Next, Fill

(* A backfill that ends has covered what it found at its start, whatever   *)
(* was stored and deleted under its cursor and between its batches.        *)
THEOREM BackfillIsComplete == Spec => []BackfillCovers
<1>1. TypeOK /\ FillInv /\ [Next]_vars => TypeOK' /\ FillInv'
  BY NextTypeOK, NextFill
<1>2. FillInv => BackfillCovers
  BY DEF FillInv
<1> QED
  BY <1>1, <1>2, InitTypeOK, InitFill, PTL DEF Spec

(* backfill gets on: while it runs nothing it has read is read again, and  *)
(* each of its steps either reads another event, empties a batch that was  *)
(* not empty, or ends it.  With finitely many events in the collection it  *)
(* takes finitely many steps: what BackfillEnds needs besides fairness.    *)
BackfillAdvances ==
    [][/\ fill = "reading" /\ fill' = "reading" =>
            read \subseteq read' /\ (read' = read => batch' \in {batch, {}})
       /\ Fill => \/ \E i \in Ids \ read : read' = read \cup {i}
                  \/ read' = read /\ batch # {} /\ batch' = {}
                  \/ fill' = "done"]_vars

(* backfill: neither its query nor its batches can go round in circles.    *)
THEOREM BackfillGetsOn == Spec => BackfillAdvances
<1>1. ASSUME [Next]_vars, fill = "reading", fill' = "reading"
      PROVE  read \subseteq read' /\ (read' = read => batch' \in {batch, {}})
  <2>1. CASE UNCHANGED filling
    BY <2>1 DEF filling
  <2>2. ASSUME NEW i \in Ids, Read(i)
        PROVE  read \subseteq read' /\ (read' = read => batch' \in {batch, {}})
    BY <2>2 DEF Read, Unread
  <2>3. CASE Flush
    BY <2>3 DEF Flush
  <2>4. ~StartBackfill /\ ~Finish /\ ~Crash
    BY <1>1 DEF StartBackfill, Finish, Crash
  <2>5. UNCHANGED filling \/ Fill
    BY <1>1, <2>4 DEF Next, FirstPage, NextPage, Page, Backdate, Insert, Remove, Change, vars
  <2> QED
    BY <2>1, <2>2, <2>3, <2>4, <2>5 DEF Fill
<1>2. Full => batch # {}
  <2>1. Cardinality({}) = 0
    BY FS_EmptySet
  <2>2. ~(0 >= BatchSize)
    BY SearchAssumption
  <2> QED
    BY <2>1, <2>2 DEF Full
<1>3. ASSUME Fill
      PROVE  \/ \E i \in Ids \ read : read' = read \cup {i}
             \/ read' = read /\ batch # {} /\ batch' = {}
             \/ fill' = "done"
  BY <1>2, <1>3 DEF Fill, Read, Flush, Finish, Unread, Stored
<1> QED
  BY <1>1, <1>3, InitTypeOK, NextTypeOK, PTL DEF Spec, BackfillAdvances
=============================================================================
