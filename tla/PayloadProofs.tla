---------------------------- MODULE PayloadProofs ----------------------------
(***************************************************************************)
(* Proofs about Payload, for bodies of any size and depth, any keys and    *)
(* any limit: the scan over the bytes measures what the parser reaches in  *)
(* a body that is UTF-8, and what is stored, indexed and exported is what  *)
(* was parsed.                                                             *)
(***************************************************************************)
EXTENDS Payload, SequenceTheorems, TLAPS

-----------------------------------------------------------------------------
(* Keys.                                                                   *)

Lookalikes(k) == k.lead = "dollarLike" \/ k.dots \in {"dotLike", "both"}

PlainKey == {k \in Key : ~Lookalikes(k)}

LEMMA KeyParts ==
  ASSUME NEW k \in Key
  PROVE  /\ k = [lead |-> k.lead, name |-> k.name, dots |-> k.dots]
         /\ k.lead \in {"plain", "dollar", "dollarLike"} /\ k.name \in Names
         /\ k.dots \in {"none", "dot", "dotLike", "both"}
  BY DEF Key

LEMMA KeysEqual ==
  ASSUME NEW j \in Key, NEW k \in Key, j.lead = k.lead, j.name = k.name, j.dots = k.dots
  PROVE  j = k
  BY DEF Key

LEMMA KeyFields ==
  ASSUME NEW a, NEW n, NEW d, NEW k, k = [lead |-> a, name |-> n, dots |-> d]
  PROVE  k.lead = a /\ k.name = n /\ k.dots = d
  OBVIOUS

LEMMA EscapeOf ==
  ASSUME NEW k \in Key
  PROVE  /\ Escape[k].lead = IF k.lead = "dollar" THEN "dollarLike" ELSE k.lead
         /\ Escape[k].name = k.name
         /\ Escape[k].dots = IF k.dots \in {"dot", "both"} THEN "dotLike" ELSE k.dots
         /\ Escape[k] \in StoredKey /\ Escape[k] \in Key
<1> DEFINE a == IF k.lead = "dollar" THEN "dollarLike" ELSE k.lead
           d == IF k.dots \in {"dot", "both"} THEN "dotLike" ELSE k.dots
<1>1. Escape[k] = [lead |-> a, name |-> k.name, dots |-> d]
  BY DEF Escape, Key
<1>2. a \in {"plain", "dollarLike"} /\ d \in {"none", "dotLike"}
  BY DEF Key
<1> HIDE DEF a, d
<1>3. Escape[k].lead = a /\ Escape[k].name = k.name /\ Escape[k].dots = d
  BY <1>1, KeyFields
<1>4. Escape[k] \in Key
  BY <1>1, <1>2, KeyParts DEF Key
<1> QED
  BY <1>2, <1>3, <1>4 DEF StoredKey, a, d

LEMMA UnescapeOf ==
  ASSUME NEW k \in Key
  PROVE  /\ Unescape[k].lead = IF k.lead = "dollarLike" THEN "dollar" ELSE k.lead
         /\ Unescape[k].name = k.name
         /\ Unescape[k].dots = IF k.dots \in {"dotLike", "both"} THEN "dot" ELSE k.dots
         /\ Unescape[k] \in Key
<1> DEFINE a == IF k.lead = "dollarLike" THEN "dollar" ELSE k.lead
           d == IF k.dots \in {"dotLike", "both"} THEN "dot" ELSE k.dots
<1>1. Unescape[k] = [lead |-> a, name |-> k.name, dots |-> d]
  BY DEF Unescape, Key
<1>2. a \in {"plain", "dollar"} /\ d \in {"none", "dot"}
  BY DEF Key
<1> HIDE DEF a, d
<1>3. Unescape[k].lead = a /\ Unescape[k].name = k.name /\ Unescape[k].dots = d
  BY <1>1, KeyFields
<1>4. Unescape[k] \in Key
  BY <1>1, <1>2, KeyParts DEF Key
<1> QED
  BY <1>3, <1>4 DEF a, d

(* A rewriting of keys that leaves names alone. *)
Renaming(f) == f \in [Key -> Key] /\ \A k \in Key : f[k].name = k.name

LEMMA Renamings == Renaming(Escape) /\ Renaming(Unescape)
<1>1. \A k \in Key : Escape[k] \in Key /\ Escape[k].name = k.name
  BY EscapeOf DEF StoredKey
<1>2. \A k \in Key : Unescape[k] \in Key /\ Unescape[k].name = k.name
  BY UnescapeOf
<1> QED
  BY <1>1, <1>2 DEF Renaming, Escape, Unescape

(* Keys that hold no lookalike survive being escaped and unescaped. *)
LEMMA EscapedBack ==
  ASSUME NEW k \in PlainKey
  PROVE  Unescape[Escape[k]] = k
<1>1. k \in Key /\ k.lead \in {"plain", "dollar"} /\ k.dots \in {"none", "dot"}
  BY DEF PlainKey, Lookalikes, Key
<1>2. Escape[k] \in Key
  BY <1>1, EscapeOf DEF StoredKey
<1>3. Escape[k].lead = IF k.lead = "dollar" THEN "dollarLike" ELSE k.lead
  BY <1>1, EscapeOf
<1>4. Escape[k].dots = IF k.dots \in {"dot", "both"} THEN "dotLike" ELSE k.dots
  BY <1>1, EscapeOf
<1>5. Escape[k].name = k.name
  BY <1>1, EscapeOf
<1>6. Unescape[Escape[k]].lead = k.lead
  BY <1>1, <1>2, <1>3, UnescapeOf
<1>7. Unescape[Escape[k]].dots = k.dots
  BY <1>1, <1>2, <1>4, UnescapeOf
<1>8. Unescape[Escape[k]].name = k.name /\ Unescape[Escape[k]] \in Key
  BY <1>2, <1>5, UnescapeOf
<1> QED
  BY <1>1, <1>6, <1>7, <1>8, KeysEqual

(* Stored keys are never unescaped to the same key. *)
LEMMA StoredApart ==
  ASSUME NEW j \in StoredKey, NEW k \in StoredKey, Unescape[j] = Unescape[k]
  PROVE  j = k
<1>1. j \in Key /\ k \in Key
  BY DEF StoredKey
<1>2. /\ j.lead \in {"plain", "dollarLike"} /\ j.dots \in {"none", "dotLike"}
      /\ k.lead \in {"plain", "dollarLike"} /\ k.dots \in {"none", "dotLike"}
  BY <1>1, KeyParts DEF StoredKey
<1>3. /\ Unescape[j].lead = Unescape[k].lead /\ Unescape[j].name = Unescape[k].name
      /\ Unescape[j].dots = Unescape[k].dots
  OBVIOUS
<1>4. j.lead = k.lead
  BY <1>1, <1>2, <1>3, UnescapeOf
<1>5. j.name = k.name
  BY <1>1, <1>3, UnescapeOf
<1>6. j.dots = k.dots
  BY <1>1, <1>2, <1>3, UnescapeOf
<1> QED
  BY <1>1, <1>4, <1>5, <1>6, KeysEqual

-----------------------------------------------------------------------------
(* Paths.                                                                  *)

LEMMA MappedSeq ==
  ASSUME NEW S, NEW T, NEW f, \A k \in S : f[k] \in T, NEW p \in Seq(S)
  PROVE  Mapped(f, p) \in Seq(T)
<1>1. Len(p) \in Nat /\ \A n \in 1..Len(p) : p[n] \in S
  BY LenProperties, ElementOfSeq
<1>2. Mapped(f, p) \in [1..Len(p) -> T]
  BY <1>1 DEF Mapped
<1> QED
  BY <1>1, <1>2

LEMMA MappedLen ==
  ASSUME NEW S, NEW f, NEW p \in Seq(S)
  PROVE  /\ Len(Mapped(f, p)) = Len(p)
         /\ \A n \in 1..Len(p) : Mapped(f, p)[n] = f[p[n]]
<1> DEFINE T == {f[k] : k \in S}
<1>1. Len(p) \in Nat /\ \A n \in 1..Len(p) : p[n] \in S
  BY LenProperties, ElementOfSeq
<1>2. Mapped(f, p) \in [1..Len(p) -> T]
  BY <1>1 DEF Mapped
<1>3. Mapped(f, p) \in Seq(T)
  BY <1>1, <1>2
<1>4. Len(Mapped(f, p)) = Len(p)
  BY <1>1, <1>2, <1>3, LenProperties
<1> QED
  BY <1>4 DEF Mapped

(* The values a rewriting gives: their paths are rewritten paths, and each *)
(* leaf was a leaf at such a path.                                         *)
LEMMA RewrittenLeaves ==
  ASSUME NEW f, NEW b, NEW e \in Rewritten(f, b)
  PROVE  /\ e = [p \in DOMAIN e |-> e[p]]
         /\ \A p \in DOMAIN e : \E q \in DOMAIN b : p = Mapped(f, q) /\ e[p] = b[q]
<1>1. PICK w \in SUBSET DOMAIN b :
         e = [p \in {Mapped(f, q) : q \in w} |-> b[CHOOSE q \in w : Mapped(f, q) = p]]
  BY DEF Rewritten
<1>2. ASSUME NEW p \in DOMAIN e
      PROVE  \E q \in DOMAIN b : p = Mapped(f, q) /\ e[p] = b[q]
  <2>1. \E q \in w : Mapped(f, q) = p
    BY <1>1, <1>2
  <2>2. (CHOOSE q \in w : Mapped(f, q) = p) \in w
    BY <2>1
  <2>3. Mapped(f, CHOOSE q \in w : Mapped(f, q) = p) = p
    BY <2>1
  <2> QED
    BY <1>1, <1>2, <2>2, <2>3
<1>3. e = [p \in DOMAIN e |-> e[p]]
  BY <1>1
<1> QED
  BY <1>2, <1>3

(* Where keys stay apart, there is one value, and no leaf is lost. *)
LEMMA Faithful ==
  ASSUME NEW S, NEW f, \A j, k \in S : f[j] = f[k] => j = k,
         NEW b, DOMAIN b \subseteq Seq(S), NEW e \in Rewritten(f, b)
  PROVE  /\ \A p : p \in DOMAIN e <=> \E q \in DOMAIN b : p = Mapped(f, q)
         /\ \A q \in DOMAIN b : e[Mapped(f, q)] = b[q]
<1>1. \A p, q \in DOMAIN b : ~Clash(f, p, q)
  <2> SUFFICES ASSUME NEW p \in DOMAIN b, NEW q \in DOMAIN b, NEW n \in 1..Len(p),
                      n <= Len(q), f[p[n]] = f[q[n]]
               PROVE  p[n] = q[n]
    <3>1. ASSUME NEW p \in DOMAIN b, NEW q \in DOMAIN b, Clash(f, p, q)
          PROVE  \E n \in 1..Len(p) : n <= Len(q) /\ p[n] # q[n] /\ f[p[n]] = f[q[n]]
      <4>1. PICK n \in 1..Len(p) : /\ n <= Len(q) /\ p[n] # q[n]
                                   /\ \A m \in 1..n : f[p[m]] = f[q[m]]
        BY <3>1 DEF Clash
      <4>2. p \in Seq(S)
        OBVIOUS
      <4>3. n \in 1..n
        BY <4>2, LenProperties
      <4> QED
        BY <4>1, <4>3
    <3> QED
      BY <3>1
  <2>1. p \in Seq(S) /\ q \in Seq(S)
    OBVIOUS
  <2>2. Len(p) \in Nat /\ Len(q) \in Nat
    BY <2>1, LenProperties
  <2>3. p[n] \in S /\ q[n] \in S
    BY <2>1, <2>2, ElementOfSeq
  <2> QED
    BY <2>3
<1>2. PICK w \in SUBSET DOMAIN b :
         /\ \A p \in DOMAIN b : p \in w <=> \A q \in w : ~Clash(f, p, q)
         /\ e = [p \in {Mapped(f, q) : q \in w} |-> b[CHOOSE q \in w : Mapped(f, q) = p]]
  BY DEF Rewritten
<1>3. w = DOMAIN b
  BY <1>1, <1>2
<1>4. ASSUME NEW p \in DOMAIN b, NEW q \in DOMAIN b, Mapped(f, p) = Mapped(f, q)
      PROVE  p = q
  <2>1. p \in Seq(S) /\ q \in Seq(S)
    OBVIOUS
  <2>2. Len(p) = Len(q)
    <3>1. Len(Mapped(f, p)) = Len(p)
      BY <2>1, MappedLen
    <3>2. Len(Mapped(f, q)) = Len(q)
      BY <2>1, MappedLen
    <3> QED
      BY <1>4, <3>1, <3>2
  <2>3. \A n \in 1..Len(p) : p[n] \in S /\ q[n] \in S
    BY <2>1, <2>2, ElementOfSeq
  <2>4. \A n \in 1..Len(p) : f[p[n]] = f[q[n]]
    <3>1. \A n \in 1..Len(p) : Mapped(f, p)[n] = f[p[n]]
      BY DEF Mapped
    <3>2. \A n \in 1..Len(p) : Mapped(f, q)[n] = f[q[n]]
      BY <2>2 DEF Mapped
    <3> QED
      BY <1>4, <3>1, <3>2
  <2> QED
    BY <2>1, <2>2, <2>3, <2>4, SeqEqual
<1>5. ASSUME NEW q \in DOMAIN b
      PROVE  e[Mapped(f, q)] = b[q]
  <2>1. (CHOOSE p \in w : Mapped(f, p) = Mapped(f, q)) = q
    BY <1>3, <1>4
  <2> QED
    BY <1>2, <1>3, <2>1
<1> QED
  BY <1>2, <1>3, <1>5
-----------------------------------------------------------------------------
(* Bodies.                                                                 *)

(* A body as the code handles it: a function from paths. *)
Value(b) == b = [p \in DOMAIN b |-> b[p]] /\ DOMAIN b \subseteq Paths

LEMMA RewrittenValue ==
  ASSUME NEW f, NEW S, \A k \in Key : f[k] \in S,
         NEW b, Value(b), NEW e \in Rewritten(f, b)
  PROVE  e = [p \in DOMAIN e |-> e[p]] /\ DOMAIN e \subseteq Seq(S)
<1>1. ASSUME NEW p \in DOMAIN e
      PROVE  p \in Seq(S)
  <2>1. PICK q \in DOMAIN b : p = Mapped(f, q)
    BY RewrittenLeaves
  <2>2. q \in Seq(Key)
    BY DEF Value, Paths
  <2> QED
    BY <2>1, <2>2, MappedSeq
<1> QED
  BY <1>1, RewrittenLeaves

(* MongoDB's restriction: what is stored holds no '.' and no leading '$'. *)
LEMMA StoredValue ==
  ASSUME NEW b, Value(b), NEW e \in EscapedKeys(b)
  PROVE  e = [p \in DOMAIN e |-> e[p]] /\ DOMAIN e \subseteq Seq(StoredKey)
  BY RewrittenValue, EscapeOf DEF EscapedKeys

LEMMA StoredPaths == Seq(StoredKey) \subseteq Paths
  BY SeqMonotonic DEF Paths, StoredKey

LEMMA ExportedValue ==
  ASSUME NEW b, Value(b), NEW e \in UnescapedKeys(b)
  PROVE  Value(e)
  BY RewrittenValue, UnescapeOf DEF UnescapedKeys, Value, Paths

LEMMA UnescapedApart ==
  ASSUME NEW b, DOMAIN b \subseteq Seq(StoredKey), NEW e \in Rewritten(Unescape, b)
  PROVE  /\ \A p : p \in DOMAIN e <=> \E q \in DOMAIN b : p = Mapped(Unescape, q)
         /\ \A q \in DOMAIN b : e[Mapped(Unescape, q)] = b[q]
<1>1. \A j, k \in StoredKey : Unescape[j] = Unescape[k] => j = k
  BY StoredApart
<1> QED
  BY <1>1, Faithful

(* A body without lookalikes of its own comes back as it was. *)
LEMMA RoundTripped ==
  ASSUME NEW b, Value(b), ~Lookalike(b),
         NEW e \in EscapedKeys(b), NEW x \in UnescapedKeys(e)
  PROVE  x = b
<1>1. \A q \in DOMAIN b : q \in Seq(PlainKey)
  <2> SUFFICES ASSUME NEW q \in DOMAIN b PROVE q \in Seq(PlainKey)
    OBVIOUS
  <2>1. q \in Seq(Key)
    BY DEF Value, Paths
  <2>2. Len(q) \in Nat /\ \A n \in 1..Len(q) : q[n] \in Key
    BY <2>1, LenProperties, ElementOfSeq
  <2>3. \A n \in 1..Len(q) : q[n] \in PlainKey
    BY <2>2 DEF Lookalike, PlainKey, Lookalikes
  <2>4. q \in [1..Len(q) -> PlainKey]
    BY <2>1, <2>3, LenProperties
  <2> QED
    BY <2>2, <2>4
<1>2. \A j, k \in PlainKey : Escape[j] = Escape[k] => j = k
  BY EscapedBack
<1>3. /\ \A p : p \in DOMAIN e <=> \E q \in DOMAIN b : p = Mapped(Escape, q)
      /\ \A q \in DOMAIN b : e[Mapped(Escape, q)] = b[q]
  <2>1. DOMAIN b \subseteq Seq(PlainKey) /\ e \in Rewritten(Escape, b)
    BY <1>1 DEF EscapedKeys
  <2> QED
    BY <1>2, <2>1, Faithful
<1>4. DOMAIN e \subseteq Seq(StoredKey)
  BY StoredValue
<1>5. /\ \A q : q \in DOMAIN x <=> \E p \in DOMAIN e : q = Mapped(Unescape, p)
      /\ \A p \in DOMAIN e : x[Mapped(Unescape, p)] = e[p]
  <2>1. x \in Rewritten(Unescape, e)
    BY DEF UnescapedKeys
  <2> QED
    BY <1>4, <2>1, UnescapedApart
<1>6. ASSUME NEW q \in DOMAIN b
      PROVE  Mapped(Unescape, Mapped(Escape, q)) = q
  <2>1. q \in Seq(PlainKey)
    BY <1>1
  <2>2. \A k \in PlainKey : Escape[k] \in Key
    BY EscapeOf DEF PlainKey
  <2>3. Mapped(Escape, q) \in Seq(Key)
    BY <2>1, <2>2, MappedSeq
  <2>4. /\ Len(Mapped(Escape, q)) = Len(q)
        /\ \A n \in 1..Len(q) : Mapped(Escape, q)[n] = Escape[q[n]]
    BY <2>1, MappedLen
  <2>5. /\ Len(Mapped(Unescape, Mapped(Escape, q))) = Len(q)
        /\ \A n \in 1..Len(q) : Mapped(Unescape, Mapped(Escape, q))[n] = Unescape[Escape[q[n]]]
    BY <2>3, <2>4, MappedLen
  <2>6. \A n \in 1..Len(q) : q[n] \in PlainKey
    BY <2>1, ElementOfSeq
  <2>7. \A n \in 1..Len(q) : Mapped(Unescape, Mapped(Escape, q))[n] = q[n]
    BY <2>5, <2>6, EscapedBack
  <2>8. Mapped(Unescape, Mapped(Escape, q)) \in Seq(Key)
    BY <2>3, UnescapeOf, MappedSeq
  <2>9. q \in Seq(Key)
    BY DEF Value, Paths
  <2> QED
    BY <2>5, <2>7, <2>8, <2>9, SeqEqual
<1>7. DOMAIN x = DOMAIN b
  BY <1>3, <1>5, <1>6
<1>8. \A q \in DOMAIN b : x[q] = b[q]
  BY <1>3, <1>5, <1>6
<1>9. x = [p \in DOMAIN x |-> x[p]]
  BY RewrittenLeaves DEF UnescapedKeys
<1> QED
  BY <1>7, <1>8, <1>9 DEF Value

-----------------------------------------------------------------------------
(* Secrets.                                                                *)

(* What is private stands under a sensitive key. *)
Guarded(b) ==
    \A p \in DOMAIN b : b[p] \in Private => \E m \in 1..Len(p) : p[m].name \in Secrets

LEMMA RewrittenGuarded ==
  ASSUME NEW f, Renaming(f), NEW b, Value(b), Guarded(b), NEW e \in Rewritten(f, b)
  PROVE  Guarded(e)
<1> SUFFICES ASSUME NEW p \in DOMAIN e, e[p] \in Private
             PROVE  \E m \in 1..Len(p) : p[m].name \in Secrets
  BY DEF Guarded
<1>1. PICK q \in DOMAIN b : p = Mapped(f, q) /\ e[p] = b[q]
  BY RewrittenLeaves
<1>2. q \in Seq(Key)
  BY DEF Value, Paths
<1>3. PICK m \in 1..Len(q) : q[m].name \in Secrets
  BY <1>1 DEF Guarded
<1>4. Len(p) = Len(q) /\ p[m] = f[q[m]]
  BY <1>1, <1>2, <1>3, MappedLen
<1>5. q[m] \in Key
  BY <1>2, <1>3, ElementOfSeq
<1>6. p[m].name = q[m].name
  BY <1>4, <1>5 DEF Renaming
<1> QED
  BY <1>3, <1>4, <1>6

LEMMA GuardedUnsearchable ==
  ASSUME NEW b, Value(b), Guarded(b), NEW w \in Private
  PROVE  [text |-> w] \notin Collected(b)
<1> SUFFICES ASSUME NEW p \in DOMAIN b, [text |-> w] \in KeysOn(p) \cup LeafAt(b, p)
             PROVE  FALSE
  BY DEF Collected
<1>1. p \in Seq(Key)
  BY DEF Value, Paths
<1>2. ASSUME [text |-> w] \in KeysOn(p)
      PROVE  FALSE
  <2>1. PICK n \in 1..Len(p) : [text |-> w] = p[n]
    BY <1>2 DEF KeysOn
  <2>2. p[n] \in Key
    BY <1>1, ElementOfSeq
  <2>3. DOMAIN p[n] = {"lead", "name", "dots"}
    BY <2>2 DEF Key
  <2>4. DOMAIN [text |-> w] = {"text"}
    OBVIOUS
  <2> QED
    BY <2>1, <2>3, <2>4
<1>3. ASSUME [text |-> w] \in LeafAt(b, p)
      PROVE  FALSE
  <2>1. Clear(p, Len(p)) /\ [text |-> w] = [text |-> b[p]]
    BY <1>3 DEF LeafAt
  <2>2. b[p] = w
    BY <2>1
  <2> QED
    BY <2>1, <2>2 DEF Guarded, Clear
<1> QED
  BY <1>2, <1>3
-----------------------------------------------------------------------------
(* The scan and the parser.                                                *)

(* Outside a string only brackets and quotes count. *)
LEMMA ScanOutside ==
  ASSUME NEW l \in Level, NEW byte, ~l.inString
  PROVE  /\ Scan(l, byte) = [depth |-> CASE byte = "open" -> l.depth + 1
                                          [] byte = "close" -> l.depth - 1
                                          [] OTHER -> l.depth,
                             inString |-> byte = "quote", escaped |-> l.escaped]
  BY DEF Scan, Level

LEMMA ScanTyped ==
  ASSUME NEW l \in Level, NEW byte
  PROVE  Scan(l, byte) \in Level
<1>1. CASE l.inString
  BY <1>1 DEF Scan, Level
<1>2. CASE ~l.inString
  <2> DEFINE d == CASE byte = "open" -> l.depth + 1 [] byte = "close" -> l.depth - 1
                    [] OTHER -> l.depth
  <2>1. d \in Int
    <3>1. l.depth \in Int
      BY DEF Level
    <3>2. CASE byte = "open"
      BY <3>1, <3>2
    <3>3. CASE byte = "close"
      BY <3>1, <3>3
    <3>4. CASE byte # "open" /\ byte # "close"
      BY <3>1, <3>4
    <3> QED
      BY <3>2, <3>3, <3>4
  <2>2. Scan(l, byte) = [depth |-> d, inString |-> byte = "quote", escaped |-> l.escaped]
    BY <1>2, ScanOutside
  <2> HIDE DEF d
  <2> QED
    BY <2>1, <2>2 DEF Level
<1> QED
  BY <1>1, <1>2

(* Every level is what the byte before it makes of the last one, and       *)
(* maximum is the greatest depth so far.                                   *)
ScanInv ==
    /\ levels \in Seq(Level) /\ Scanned \in 0..Len(raw) /\ raw \in Seq(Bytes)
    /\ maximum \in Nat
    /\ levels[1] = Outside
    /\ \A n \in 1..Scanned : levels[n + 1] = Scan(levels[n], raw[n])
    /\ \A n \in 1..Len(levels) : levels[n].depth <= maximum
    /\ \E n \in 1..Len(levels) : levels[n].depth = maximum

LevelOf(d, s, e) == [depth |-> d, inString |-> s, escaped |-> e]

(* The parser's state.  Before it starts there is nothing read. *)
ReadInv ==
    /\ coding \in Coding
    /\ at \in Nat /\ inside \in BOOLEAN /\ nest \in Nat /\ deepest \in Nat
    /\ phase = "measure" =>
         coding = Utf8 /\ at = 0 /\ ~inside /\ nest = 0 /\ deepest = 0
    /\ media # "json" => coding = Utf8

(* While it parses UTF-8, the parser is where the scan was after as many   *)
(* bytes; in between two items of a string no byte is escaped.             *)
ParseInv ==
    /\ at \in 0..Len(raw) /\ inside \in BOOLEAN /\ nest \in Nat /\ deepest \in Nat
    /\ nest <= MaxDepth
    /\ phase = "measure" => at = 0 /\ ~inside /\ nest = 0 /\ deepest = 0
    /\ phase = "parse" =>
         /\ media = "json" /\ Scanned = Len(raw) /\ maximum <= MaxDepth
         /\ levels[at + 1] = LevelOf(nest, inside, FALSE)
         /\ \A n \in 1..(at + 1) : levels[n].depth <= deepest
         /\ deepest <= maximum

LEMMA OutsideLevel == Outside \in Level /\ Outside.depth = 0 /\ ~Outside.inString
                        /\ ~Outside.escaped
  BY DEF Outside, Level

LEMMA OneLevel ==
  /\ <<Outside>> \in Seq(Level) /\ Len(<<Outside>>) = 1 /\ <<Outside>>[1] = Outside
  /\ <<>> \in Seq(Bytes) /\ Len(<<>>) = 0
  BY OutsideLevel

LEMMA RawTyped == Init => raw \in Seq(Bytes)
  BY PayloadAssumption DEF Init

LEMMA DetectedTyped == ASSUME NEW t PROVE Detected(t) \in Coding
  BY DEF Detected, Code, Utf8, Coding

(* In UTF-8 the characters that count are bytes. *)
LEMMA Narrow ==
  ASSUME coding = Utf8, at \in Nat
  PROVE  /\ \A n \in Nat : Char(n) = raw[n]
         /\ \A n \in Nat : Left(n) <=> at + n <= Len(raw)
         /\ Ended <=> at = Len(raw)
<1>1. coding.width = 1 /\ coding.low = 1 /\ coding.mark = 0
  BY DEF Utf8, Code
<1>2. ASSUME NEW n \in Nat PROVE Char(n) = raw[n]
  <2>1. (n - 1) * 1 = n - 1 /\ 0 + (n - 1) + 1 = n
    OBVIOUS
  <2>2. \A m \in 1..1 : m = 1
    OBVIOUS
  <2> QED
    BY <1>1, <2>1, <2>2 DEF Char
<1>3. \A n \in Nat : Left(n) <=> at + n <= Len(raw)
  BY <1>1 DEF Left
<1>4. Ended <=> at = Len(raw)
  BY <1>1 DEF Ended
<1> QED
  BY <1>2, <1>3, <1>4

(* What Parsed leaves of the bytes satisfies both. *)
LEMMA ResetInv ==
  ASSUME raw' = <<>>, levels' = <<Outside>>, maximum' = 0
  PROVE  ScanInv'
<1>1. /\ levels' \in Seq(Level) /\ Len(levels') = 1 /\ levels'[1] = Outside
      /\ raw' \in Seq(Bytes) /\ Len(raw') = 0
  BY OneLevel
<1>2. Scanned' = 0
  BY <1>1 DEF Scanned
<1>3. \A n \in 1..Len(levels') : levels'[n].depth = 0
  BY <1>1, OutsideLevel
<1> QED
  BY <1>1, <1>2, <1>3 DEF ScanInv

LEMMA ScanInit == Init => ScanInv
<1> SUFFICES ASSUME Init PROVE ScanInv
  OBVIOUS
<1>1. /\ levels \in Seq(Level) /\ Len(levels) = 1 /\ levels[1] = Outside
      /\ maximum = 0
  BY OneLevel DEF Init
<1>2. raw \in Seq(Bytes) /\ Len(raw) \in Nat
  BY RawTyped, LenProperties
<1>3. Scanned = 0
  BY <1>1 DEF Scanned
<1>4. \A n \in 1..Len(levels) : levels[n].depth = 0
  BY <1>1, OutsideLevel
<1> QED
  BY <1>1, <1>2, <1>3, <1>4 DEF ScanInv

LEMMA MeasureScan == ScanInv /\ Measure => ScanInv'
<1> SUFFICES ASSUME ScanInv, Measure PROVE ScanInv'
  OBVIOUS
<1> DEFINE k == Len(levels)
           l == Scan(levels[k], raw[k])
<1>1. /\ levels \in Seq(Level) /\ raw \in Seq(Bytes) /\ k \in Nat /\ k >= 1
      /\ Len(raw) \in Nat /\ k <= Len(raw) /\ maximum \in Nat
  <2>1. levels \in Seq(Level) /\ raw \in Seq(Bytes)
    BY DEF ScanInv
  <2>2. k \in Nat /\ Len(raw) \in Nat
    BY <2>1, LenProperties
  <2> QED
    BY <2>1, <2>2 DEF ScanInv, Measure, Scanned
<1>2. levels[k] \in Level
  BY <1>1, ElementOfSeq
<1>3. l \in Level
  BY <1>2, ScanTyped
<1>4. levels' = Append(levels, l) /\ raw' = raw
      /\ maximum' = IF l.depth > maximum THEN l.depth ELSE maximum
  BY DEF Measure
<1>5. l.depth \in Int
  BY <1>3 DEF Level
<1> HIDE DEF l
<1>6. /\ levels' \in Seq(Level) /\ Len(levels') = k + 1
      /\ \A n \in 1..k : levels'[n] = levels[n]
      /\ levels'[k + 1] = l
  BY <1>1, <1>3, <1>4
<1>7. maximum' \in Nat /\ maximum' >= maximum /\ maximum' >= l.depth
      /\ maximum' \in {maximum, l.depth}
  BY <1>1, <1>4, <1>5
<1>8. Scanned' = k /\ Scanned = k - 1
  BY <1>1, <1>6 DEF Scanned
<1>9. \A n \in 1..k : levels'[n + 1] = Scan(levels'[n], raw'[n])
  <2>1. \A n \in 1..(k - 1) : levels'[n + 1] = Scan(levels'[n], raw'[n])
    <3> SUFFICES ASSUME NEW n \in 1..(k - 1)
                 PROVE  levels'[n + 1] = Scan(levels'[n], raw'[n])
      OBVIOUS
    <3>1. levels[n + 1] = Scan(levels[n], raw[n])
      BY <1>8 DEF ScanInv
    <3>2. n \in 1..k /\ n + 1 \in 1..k
      BY <1>1
    <3> QED
      BY <1>4, <1>6, <3>1, <3>2
  <2>2. levels'[k + 1] = Scan(levels'[k], raw'[k])
    <3>1. k \in 1..k
      BY <1>1
    <3> QED
      BY <1>4, <1>6, <3>1 DEF l
  <2>3. \A n \in 1..k : n = k \/ n \in 1..(k - 1)
    BY <1>1
  <2> QED
    BY <2>1, <2>2, <2>3
<1>10. \A n \in 1..(k + 1) : levels'[n].depth <= maximum'
  <2> SUFFICES ASSUME NEW n \in 1..(k + 1) PROVE levels'[n].depth <= maximum'
    OBVIOUS
  <2>1. CASE n \in 1..k
    <3>1. levels[n].depth <= maximum /\ levels[n] \in Level
      BY <1>1, <2>1, ElementOfSeq DEF ScanInv
    <3>2. levels[n].depth \in Int
      BY <3>1 DEF Level
    <3> QED
      BY <1>1, <1>6, <1>7, <2>1, <3>1, <3>2
  <2>2. CASE n = k + 1
    BY <1>6, <1>7, <2>2
  <2> QED
    BY <1>1, <2>1, <2>2
<1>11. \E n \in 1..(k + 1) : levels'[n].depth = maximum'
  <2>1. PICK n \in 1..k : levels[n].depth = maximum
    BY DEF ScanInv
  <2>2. n \in 1..(k + 1) /\ k + 1 \in 1..(k + 1)
    BY <1>1
  <2> QED
    BY <1>6, <1>7, <2>1, <2>2
<1>12. levels'[1] = Outside
  BY <1>1, <1>6 DEF ScanInv
<1>13. Scanned' \in 0..Len(raw')
  BY <1>1, <1>4, <1>8
<1> QED
  BY <1>1, <1>4, <1>6, <1>7, <1>8, <1>9, <1>10, <1>11, <1>12, <1>13 DEF ScanInv

(* One byte of a string, after a byte that was no escape or one that was. *)
LEMMA ScanInside ==
  ASSUME NEW d \in Int, NEW byte
  PROVE  /\ byte = "quote" =>
              Scan(LevelOf(d, TRUE, FALSE), byte) = LevelOf(d, FALSE, FALSE)
         /\ byte = "backslash" =>
              Scan(LevelOf(d, TRUE, FALSE), byte) = LevelOf(d, TRUE, TRUE)
         /\ byte \notin {"quote", "backslash"} =>
              Scan(LevelOf(d, TRUE, FALSE), byte) = LevelOf(d, TRUE, FALSE)
         /\ Scan(LevelOf(d, TRUE, TRUE), byte) = LevelOf(d, TRUE, FALSE)
  BY DEF Scan, LevelOf

(* One byte outside a string. *)
LEMMA ScanToken ==
  ASSUME NEW d \in Int, NEW byte
  PROVE  /\ byte = "quote" =>
              Scan(LevelOf(d, FALSE, FALSE), byte) = LevelOf(d, TRUE, FALSE)
         /\ byte = "open" =>
              Scan(LevelOf(d, FALSE, FALSE), byte) = LevelOf(d + 1, FALSE, FALSE)
         /\ byte = "close" =>
              Scan(LevelOf(d, FALSE, FALSE), byte) = LevelOf(d - 1, FALSE, FALSE)
         /\ byte \in {"digit", "other"} =>
              Scan(LevelOf(d, FALSE, FALSE), byte) = LevelOf(d, FALSE, FALSE)
  BY DEF Scan, LevelOf

(* More of the body read: nothing but at, inside, nest and deepest changes. *)
LEMMA ParseOn ==
  ASSUME ScanInv, ParseInv, phase = "parse", NEW m \in Nat, m > at, m <= Len(raw),
         \A n \in (at + 2)..m : levels[n].depth <= nest,
         UNCHANGED <<phase, media, measuring>>, at' = m,
         inside' \in BOOLEAN, nest' \in Nat,
         deepest' = IF nest' > deepest THEN nest' ELSE deepest,
         levels[m + 1] = LevelOf(nest', inside', FALSE)
  PROVE  ParseInv'
<1>0. levels[m + 1].depth = nest' /\ levels[at + 1].depth = nest
  BY DEF LevelOf, ParseInv
<1>1. /\ at \in Nat /\ Len(levels) = Len(raw) + 1 /\ levels \in Seq(Level)
      /\ Len(raw) \in Nat /\ maximum \in Nat /\ nest \in Nat /\ deepest \in Nat
      /\ maximum <= MaxDepth /\ deepest <= maximum /\ MaxDepth \in Nat
  <2>1. Len(levels) \in Nat /\ Len(raw) \in Nat
    BY LenProperties DEF ScanInv
  <2> QED
    BY <2>1, PayloadAssumption DEF ScanInv, ParseInv, Scanned
<1>2. levels' = levels /\ raw' = raw /\ maximum' = maximum /\ Scanned' = Scanned
  BY DEF measuring, Scanned
<1>3. nest' <= maximum
  <2>1. m + 1 \in 1..Len(levels)
    BY <1>1
  <2> QED
    BY <1>0, <2>1 DEF ScanInv
<1>4. deepest' \in Nat /\ deepest' <= maximum /\ nest' <= deepest' /\ deepest <= deepest'
  BY <1>1, <1>3
<1>5. nest <= deepest
  <2>1. at + 1 \in 1..(at + 1)
    BY <1>1
  <2> QED
    BY <1>0, <2>1 DEF ParseInv
<1>6. ASSUME NEW n \in 1..(m + 1) PROVE levels[n].depth <= deepest'
  <2>0. levels[n].depth \in Int
    <3>1. n \in 1..Len(levels)
      BY <1>1, <1>6
    <3>2. levels[n] \in Level
      BY <1>1, <3>1, ElementOfSeq
    <3> QED
      BY <3>2 DEF Level
  <2>1. CASE n \in 1..(at + 1)
    <3>1. levels[n].depth <= deepest
      BY <2>1 DEF ParseInv
    <3> QED
      BY <1>1, <1>4, <2>0, <3>1
  <2>2. CASE n \in (at + 2)..m
    <3>1. levels[n].depth <= nest
      BY <2>2
    <3> QED
      BY <1>1, <1>4, <1>5, <2>0, <3>1
  <2>3. CASE n = m + 1
    BY <1>0, <1>4, <2>3
  <2> QED
    BY <1>1, <1>6, <2>1, <2>2, <2>3
<1>7. nest' <= MaxDepth
  BY <1>1, <1>3
<1>8. at' \in 0..Len(raw') /\ phase' = "parse" /\ media' = "json" /\ Scanned' = Len(raw')
  BY <1>1, <1>2 DEF ParseInv
<1> QED
  BY <1>1, <1>2, <1>4, <1>6, <1>7, <1>8 DEF ParseInv

LEMMA ReadParse == ScanInv /\ ParseInv /\ coding = Utf8 /\ Read => ParseInv'
<1> SUFFICES ASSUME ScanInv, ParseInv, coding = Utf8, Read PROVE ParseInv'
  OBVIOUS
<1>0. /\ \A n \in Nat : Char(n) = raw[n]
      /\ \A n \in Nat : Left(n) <=> at + n <= Len(raw)
      /\ at + 1 \in Nat
  <2>1. at \in Nat
    BY LenProperties DEF ParseInv, ScanInv
  <2> QED
    BY <2>1, Narrow
<1>1. /\ at \in Nat /\ Len(levels) = Len(raw) + 1 /\ levels \in Seq(Level)
      /\ Len(raw) \in Nat /\ nest \in Nat /\ phase = "parse" /\ at <= Len(raw)
      /\ deepest \in Nat /\ inside \in BOOLEAN /\ nest \in Int
  <2>1. Len(levels) \in Nat /\ Len(raw) \in Nat
    BY LenProperties DEF ScanInv
  <2> QED
    BY <2>1 DEF ScanInv, ParseInv, Scanned, Read
<1>2. levels[at + 1] = LevelOf(nest, inside, FALSE)
  BY <1>1 DEF ParseInv
<1>3. ASSUME NEW n \in 1..Len(raw)
      PROVE  levels[n + 1] = Scan(levels[n], raw[n])
  <2>1. n \in 1..Scanned
    BY <1>1, <1>3 DEF Scanned
  <2> QED
    BY <2>1 DEF ScanInv
<1>4. nest <= deepest
  <2>1. at + 1 \in 1..(at + 1) /\ levels[at + 1].depth = nest
    BY <1>1, <1>2 DEF LevelOf
  <2> QED
    BY <1>1, <2>1 DEF ParseInv
<1>5. UNCHANGED <<phase, media, measuring>>
  BY DEF Read
<1>6. ASSUME Left(1)
      PROVE  /\ at + 1 \in 1..Len(raw) /\ (at + 1) + 1 = at + 2 /\ at + 1 \in Nat
             /\ at + 1 > at /\ at + 1 <= Len(raw)
             /\ levels[at + 2] = Scan(levels[at + 1], raw[at + 1])
             /\ \A n \in (at + 2)..(at + 1) : levels[n].depth <= nest
  <2>1. at + 1 \in 1..Len(raw) /\ (at + 1) + 1 = at + 2
    BY <1>0, <1>1, <1>6
  <2>2. levels[(at + 1) + 1] = Scan(levels[at + 1], raw[at + 1])
    BY <1>3, <2>1
  <2> QED
    BY <1>1, <2>1, <2>2
<1>7. CASE ReadString
  <2>1. inside = TRUE /\ nest' = nest /\ deepest' = deepest
    BY <1>1, <1>7 DEF ReadString
  <2>2. deepest' = IF nest' > deepest THEN nest' ELSE deepest
    BY <1>1, <1>4, <2>1
  <2>3. CASE Left(1) /\ raw[at + 1] \notin {"quote", "backslash"} /\ at' = at + 1
             /\ inside' = inside
    <3>1. levels[at + 2] = LevelOf(nest', inside', FALSE)
      BY <1>1, <1>2, <1>6, <2>1, <2>3, ScanInside
    <3> QED
      BY <1>1, <1>5, <1>6, <2>1, <2>2, <2>3, <3>1, ParseOn
  <2>4. CASE Left(1) /\ raw[at + 1] = "quote" /\ at' = at + 1 /\ inside' = FALSE
    <3>1. levels[at + 2] = LevelOf(nest', inside', FALSE)
      BY <1>1, <1>2, <1>6, <2>1, <2>4, ScanInside
    <3> QED
      BY <1>1, <1>5, <1>6, <2>1, <2>2, <2>4, <3>1, ParseOn
  <2>5. CASE Left(2) /\ raw[at + 1] = "backslash" /\ at' = at + 2 /\ inside' = inside
    <3>1. Left(1) /\ at + 2 \in 1..Len(raw) /\ (at + 2) + 1 = at + 3
      BY <1>0, <1>1, <2>5
    <3>2. levels[at + 2] = LevelOf(nest, TRUE, TRUE)
      BY <1>1, <1>2, <1>6, <2>1, <2>5, <3>1, ScanInside
    <3>3. levels[(at + 2) + 1] = Scan(levels[at + 2], raw[at + 2])
      BY <1>3, <3>1
    <3>4. levels[at + 3] = LevelOf(nest', inside', FALSE)
      BY <1>1, <2>1, <2>5, <3>1, <3>2, <3>3, ScanInside
    <3>5. \A n \in (at + 2)..(at + 2) : levels[n].depth <= nest
      <4>1. levels[at + 2].depth = nest
        BY <3>2 DEF LevelOf
      <4> QED
        BY <1>1, <4>1
    <3>6. at + 2 \in Nat /\ at + 2 > at /\ at + 2 <= Len(raw)
      BY <1>1, <3>1
    <3> QED
      BY <1>1, <1>5, <2>1, <2>2, <2>5, <3>1, <3>4, <3>5, <3>6, ParseOn
  <2> QED
    BY <1>0, <1>7, <2>3, <2>4, <2>5 DEF ReadString
<1>8. CASE ReadToken
  <2>1. inside = FALSE /\ Left(1) /\ at' = at + 1
    BY <1>1, <1>8 DEF ReadToken
  <2>2. CASE raw[at + 1] = "quote" /\ inside' = TRUE /\ UNCHANGED <<nest, deepest>>
    <3>1. levels[at + 2] = LevelOf(nest', inside', FALSE)
      BY <1>1, <1>2, <1>6, <2>1, <2>2, ScanToken
    <3>2. nest' \in Nat /\ inside' \in BOOLEAN
             /\ deepest' = IF nest' > deepest THEN nest' ELSE deepest
      BY <1>1, <1>4, <2>1, <2>2
    <3> QED
      BY <1>1, <1>5, <1>6, <2>1, <2>2, <3>1, <3>2, ParseOn
  <2>3. CASE raw[at + 1] \in {"digit", "other"} /\ UNCHANGED <<inside, nest, deepest>>
    <3>1. levels[at + 2] = LevelOf(nest', inside', FALSE)
      BY <1>1, <1>2, <1>6, <2>1, <2>3, ScanToken
    <3>2. nest' \in Nat /\ inside' \in BOOLEAN
             /\ deepest' = IF nest' > deepest THEN nest' ELSE deepest
      BY <1>1, <1>4, <2>1, <2>3
    <3> QED
      BY <1>1, <1>5, <1>6, <2>1, <2>3, <3>1, <3>2, ParseOn
  <2>4. CASE /\ raw[at + 1] = "open"
             /\ nest' = nest + 1
             /\ deepest' = IF nest' > deepest THEN nest' ELSE deepest
             /\ UNCHANGED inside
    <3>1. levels[at + 2] = LevelOf(nest', inside', FALSE)
      BY <1>1, <1>2, <1>6, <2>1, <2>4, ScanToken
    <3>2. nest' \in Nat /\ inside' \in BOOLEAN
             /\ deepest' = IF nest' > deepest THEN nest' ELSE deepest
      BY <1>1, <1>4, <2>1, <2>4
    <3> QED
      BY <1>1, <1>5, <1>6, <2>1, <2>4, <3>1, <3>2, ParseOn
  <2>5. CASE raw[at + 1] = "close" /\ nest > 0 /\ nest' = nest - 1
               /\ UNCHANGED <<inside, deepest>>
    <3>1. levels[at + 2] = LevelOf(nest', inside', FALSE)
      BY <1>1, <1>2, <1>6, <2>1, <2>5, ScanToken
    <3>2. nest' \in Nat /\ deepest' = IF nest' > deepest THEN nest' ELSE deepest
      BY <1>1, <1>4, <2>5
    <3> QED
      BY <1>1, <1>5, <1>6, <2>1, <2>5, <3>1, <3>2, ParseOn
  <2> QED
    BY <1>0, <1>8, <2>2, <2>3, <2>4, <2>5 DEF ReadToken
<1> QED
  BY <1>7, <1>8 DEF Read
-----------------------------------------------------------------------------
(* The request.                                                            *)

(* What is kept of a body is made of it, and nothing is kept before.       *)
BodyInv ==
    /\ body \in Bodies \cup {None}
    /\ media = "json" /\ coding = Utf8 => Within(body, MaxDepth)
    /\ phase # "stored" => stored = None /\ terms = {} /\ exported = None
    /\ phase = "stored" =>
         /\ stored \in EscapedKeys(body)
         /\ exported \in UnescapedKeys(stored) \cup {None}
         /\ \E b \in UnescapedKeys(stored) \cup {body} : terms = Collected(b)

PhaseInv ==
    /\ phase \in {"measure", "parse", "parsed", "stored", "failed"}
    /\ media \in {"json", "form", "text", "other"}

FollowInv == coding = Utf8 => ParseInv

IInv == PhaseInv /\ ScanInv /\ ReadInv /\ FollowInv /\ BodyInv

LEMMA NoneValue == DOMAIN None = {} /\ Value(None) /\ Guarded(None) /\ Within(None, MaxDepth)
  BY DEF None, Value, Guarded, Within

LEMMA BodyValue ==
  ASSUME NEW b \in Bodies \cup {None}
  PROVE  Value(b) /\ Guarded(b)
<1>1. CASE b \in Bodies
  <2>1. b \in [DOMAIN b -> Words \cup {Silent, Unencodable}] /\ DOMAIN b \subseteq Paths
    BY <1>1, PayloadAssumption
  <2>2. Value(b)
    BY <2>1 DEF Value
  <2>3. Guarded(b)
    BY <1>1, PayloadAssumption DEF Guarded
  <2> QED
    BY <2>2, <2>3
<1>2. CASE b = None
  BY <1>2, NoneValue
<1> QED
  BY <1>1, <1>2

(* Before it parses. *)
LEMMA AtStart ==
  ASSUME Len(raw) \in Nat, at = 0, inside = FALSE, nest = 0, deepest = 0, phase # "parse"
  PROVE  ParseInv
<1>1. inside \in BOOLEAN /\ ~inside
  OBVIOUS
<1>2. 0 \in 0..Len(raw) /\ 0 <= MaxDepth
  BY PayloadAssumption
<1> QED
  BY <1>1, <1>2 DEF ParseInv

LEMMA AtStartNext ==
  ASSUME Len(raw') \in Nat, at' = 0, inside' = FALSE, nest' = 0, deepest' = 0,
         phase' # "parse"
  PROVE  ParseInv'
<1>1. inside' \in BOOLEAN /\ ~inside'
  OBVIOUS
<1>2. 0 \in 0..Len(raw') /\ 0 <= MaxDepth
  BY PayloadAssumption
<1> QED
  BY <1>1, <1>2 DEF ParseInv

LEMMA InitInv == Init => IInv
<1> SUFFICES ASSUME Init PROVE IInv
  OBVIOUS
<1>1. PhaseInv
  BY DEF Init, PhaseInv
<1>2. ScanInv
  BY ScanInit
<1>3. ReadInv /\ FollowInv
  <2>1. Len(raw) \in Nat
    BY RawTyped, LenProperties
  <2>2. Utf8 \in Coding
    BY DEF Utf8, Code, Coding
  <2> QED
    BY <2>1, <2>2, AtStart DEF Init, ReadInv, FollowInv
<1>4. BodyInv
  BY NoneValue DEF Init, BodyInv
<1> QED
  BY <1>1, <1>2, <1>3, <1>4 DEF IInv

(* A parsed body, whatever it was before. *)
LEMMA ParsedInv ==
  ASSUME IInv, phase # "stored", NEW b \in Bodies \cup {None}, Parsed(b),
         media = "json" /\ coding = Utf8 => Within(b, MaxDepth)
  PROVE  IInv'
<1>1. PhaseInv'
  BY DEF IInv, PhaseInv, Parsed
<1>2. ScanInv'
  BY ResetInv DEF Parsed
<1>3. ReadInv' /\ FollowInv'
  <2>1. ParseInv'
    BY OneLevel, AtStartNext DEF Parsed
  <2>2. ReadInv'
    BY DEF IInv, ReadInv, Parsed
  <2> QED
    BY <2>1, <2>2 DEF FollowInv
<1>4. BodyInv'
  <2>1. stored' = None /\ terms' = {} /\ exported' = None
    BY DEF IInv, BodyInv, Parsed, document
  <2>2. Within(body, MaxDepth)' <=> Within(b, MaxDepth)
    BY DEF Parsed, Within
  <2> QED
    BY <2>1, <2>2 DEF Parsed, BodyInv
<1> QED
  BY <1>1, <1>2, <1>3, <1>4 DEF IInv

(* Steps that leave the bytes and the parser alone. *)
LEMMA BytesKept ==
  ASSUME IInv, UNCHANGED <<media, measuring, parsing>>,
         phase' \in {"parsed", "stored", "failed"}
  PROVE  PhaseInv' /\ ScanInv' /\ ReadInv' /\ FollowInv'
<1>1. PhaseInv' /\ ScanInv'
  BY DEF IInv, PhaseInv, ScanInv, Scanned, measuring
<1>2. ReadInv' /\ FollowInv'
  BY DEF IInv, ReadInv, FollowInv, ParseInv, Scanned, measuring, parsing
<1> QED
  BY <1>1, <1>2

LEMMA NextInv == IInv /\ [Next]_vars => IInv'
<1> SUFFICES ASSUME IInv, [Next]_vars PROVE IInv'
  OBVIOUS
<1>1. CASE Measure
  <2>1. ScanInv'
    BY <1>1, MeasureScan DEF IInv
  <2>2. PhaseInv' /\ ReadInv' /\ FollowInv'
    <3>1. PhaseInv' /\ ReadInv'
      BY <1>1 DEF Measure, IInv, PhaseInv, ReadInv, parsing
    <3>2. ParseInv
      BY <1>1 DEF Measure, IInv, ReadInv, FollowInv
    <3>3. ParseInv'
      BY <1>1, <3>2 DEF Measure, ParseInv, parsing
    <3> QED
      BY <3>1, <3>3 DEF FollowInv
  <2>3. BodyInv'
    BY <1>1 DEF Measure, IInv, BodyInv, parsing, document
  <2> QED
    BY <2>1, <2>2, <2>3 DEF IInv
<1>2. CASE Empty \/ TooDeep \/ Undecodable \/ Malformed
  BY <1>2, ParsedInv, NoneValue DEF Empty, TooDeep, Undecodable, Measured, Malformed
<1>3. CASE Load
  <2>1. /\ phase' = "parse" /\ coding' = Detected(raw)
        /\ UNCHANGED <<media, measuring, at, inside, nest, deepest, body, document>>
        /\ phase = "measure" /\ media = "json" /\ Scanned = Len(raw) /\ ~Deep
    BY <1>3 DEF Load, Measured
  <2>2. PhaseInv' /\ ScanInv'
    BY <2>1 DEF IInv, PhaseInv, ScanInv, Scanned, measuring
  <2>3. coding = Utf8 /\ at = 0 /\ inside = FALSE /\ nest = 0 /\ deepest = 0
    BY <2>1 DEF IInv, ReadInv
  <2>4. levels[at + 1] = LevelOf(nest, inside, FALSE) /\ levels[1].depth = 0
    <3>1. levels[1] = LevelOf(0, FALSE, FALSE)
      BY DEF IInv, ScanInv, LevelOf, Outside
    <3>2. at + 1 = 1
      BY <2>3
    <3>3. levels[1].depth = 0
      BY <3>1 DEF LevelOf
    <3> QED
      BY <2>3, <3>1, <3>2, <3>3
  <2>5. maximum \in Nat /\ maximum <= MaxDepth
    BY <2>1, PayloadAssumption DEF IInv, ScanInv, Deep
  <2>6. /\ at' = 0 /\ inside' = FALSE /\ nest' = 0 /\ deepest' = 0 /\ levels' = levels
        /\ raw' = raw /\ maximum' = maximum /\ Scanned' = Scanned /\ media' = "json"
    BY <2>1, <2>3 DEF measuring, Scanned
  <2>7. ParseInv'
    <3>1. \A n \in 1..(0 + 1) : levels[n].depth <= 0
      BY <2>4
    <3>2. levels[0 + 1] = LevelOf(0, FALSE, FALSE)
      BY <2>3, <2>4
    <3>3. 0 \in 0..Len(raw) /\ 0 <= MaxDepth
      BY LenProperties, PayloadAssumption DEF IInv, ScanInv
    <3>4. inside' \in BOOLEAN /\ Scanned' = Len(raw') /\ phase' = "parse"
      BY <2>1, <2>6
    <3>5. levels'[at' + 1] = LevelOf(nest', inside', FALSE)
      BY <2>6, <3>2
    <3>6. \A n \in 1..(at' + 1) : levels'[n].depth <= deepest'
      BY <2>6, <3>1
    <3>7. deepest' <= maximum' /\ maximum' <= MaxDepth /\ nest' <= MaxDepth
      BY <2>5, <2>6, <3>3
    <3>8. at' \in 0..Len(raw') /\ nest' \in Nat /\ deepest' \in Nat
      BY <2>6, <3>3
    <3> QED
      BY <2>6, <3>4, <3>5, <3>6, <3>7, <3>8 DEF ParseInv
  <2>8. ReadInv' /\ FollowInv'
    <3>1. coding' \in Coding
      BY <2>1, DetectedTyped
    <3>2. ReadInv'
      <4>1. coding' \in Coding /\ phase' # "measure" /\ media' = "json"
        BY <2>1, <2>6, <3>1
      <4>2. at' \in Nat /\ inside' \in BOOLEAN /\ nest' \in Nat /\ deepest' \in Nat
        BY <2>6
      <4> QED
        BY <4>1, <4>2 DEF ReadInv
    <3> QED
      BY <2>7, <3>2 DEF FollowInv
  <2>9. BodyInv'
    BY <2>1, <2>3 DEF IInv, BodyInv, document
  <2> QED
    BY <2>2, <2>8, <2>9 DEF IInv
<1>4. CASE Read
  <2>1. FollowInv'
    BY <1>4, ReadParse DEF IInv, FollowInv, Read
  <2>3. ReadInv'
    <3>1. UNCHANGED <<phase, media, coding>> /\ phase = "parse" /\ ReadInv
      BY <1>4 DEF Read, IInv
    <3>2. /\ at' \in Nat /\ inside' \in BOOLEAN /\ nest' \in Nat /\ deepest' \in Nat
      <4>0. at \in Nat /\ inside \in BOOLEAN /\ nest \in Nat /\ deepest \in Nat
        BY <3>1 DEF ReadInv
      <4>1. CASE ReadString
        <5>1. at' = at + 1 \/ at' = at + 2
          BY <4>1 DEF ReadString
        <5>2. (inside' = inside \/ inside' = FALSE) /\ nest' = nest /\ deepest' = deepest
          BY <4>1 DEF ReadString
        <5>3. inside' \in BOOLEAN
          BY <4>0, <5>2
        <5>4. at' \in Nat
          BY <4>0, <5>1
        <5> QED
          BY <4>0, <5>2, <5>3, <5>4
      <4>2. CASE ReadToken
        <5>1. /\ at' = at + 1
              /\ nest' = nest \/ nest' = nest + 1 \/ (nest > 0 /\ nest' = nest - 1)
              /\ deepest' = deepest \/ deepest' = nest'
          BY <4>2 DEF ReadToken
        <5>2. inside' = inside \/ inside' = TRUE
          BY <4>2 DEF ReadToken
        <5>3. inside' \in BOOLEAN
          BY <4>0, <5>2
        <5>4. at' \in Nat /\ nest' \in Nat /\ deepest' \in Nat
          BY <4>0, <5>1
        <5> QED
          BY <5>3, <5>4
      <4> QED
        BY <1>4, <4>1, <4>2 DEF Read
    <3> QED
      BY <3>1, <3>2 DEF ReadInv
  <2>2. PhaseInv' /\ ScanInv' /\ BodyInv'
    BY <1>4 DEF Read, IInv, PhaseInv, ScanInv, Scanned, BodyInv, measuring, document
  <2> QED
    BY <2>1, <2>2, <2>3 DEF IInv
<1>5. CASE Overlong
  <2>1. PhaseInv' /\ ScanInv' /\ ReadInv' /\ FollowInv'
    BY <1>5, BytesKept DEF Overlong
  <2>2. BodyInv'
    BY <1>5 DEF Overlong, IInv, BodyInv, parsing, document
  <2> QED
    BY <2>1, <2>2 DEF IInv
<1>6. CASE Loaded
  <2>1. PICK b \in Bodies : Within(b, deepest) /\ Parsed(b)
    BY <1>6 DEF Loaded
  <2>2. ASSUME coding = Utf8
        PROVE  Within(b, MaxDepth)
    <3>1. deepest \in Nat /\ maximum \in Nat /\ deepest <= MaxDepth /\ MaxDepth \in Nat
      BY <1>6, <2>2, PayloadAssumption DEF Loaded, IInv, FollowInv, ScanInv, ParseInv
    <3>2. \A p \in DOMAIN b : Len(p) \in Nat
      BY PayloadAssumption, LenProperties DEF Paths
    <3> QED
      BY <2>1, <3>1, <3>2 DEF Within
  <2> QED
    BY <1>6, <2>1, <2>2, ParsedInv DEF Loaded
<1>7. CASE Form
  BY <1>7, ParsedInv DEF Form
<1>8. CASE Text
  BY <1>8, ParsedInv DEF Text
<1>9. CASE Store
  <2>1. PhaseInv' /\ ScanInv' /\ ReadInv' /\ FollowInv'
    BY <1>9, BytesKept DEF Store
  <2>2. BodyInv'
    BY <1>9 DEF Store, IInv, BodyInv, parsing
  <2> QED
    BY <2>1, <2>2 DEF IInv
<1>10. CASE Fail
  <2>1. PhaseInv' /\ ScanInv' /\ ReadInv' /\ FollowInv'
    BY <1>10, BytesKept DEF Fail
  <2>2. BodyInv'
    BY <1>10 DEF Fail, IInv, BodyInv, parsing, document
  <2> QED
    BY <2>1, <2>2 DEF IInv
<1>11. CASE Rebuild
  <2>1. PhaseInv' /\ ScanInv' /\ ReadInv' /\ FollowInv'
    BY <1>11, BytesKept DEF Rebuild
  <2>2. BodyInv'
    BY <1>11 DEF Rebuild, IInv, BodyInv, parsing, Indexed
  <2> QED
    BY <2>1, <2>2 DEF IInv
<1>12. CASE Export
  <2>1. PhaseInv' /\ ScanInv' /\ ReadInv' /\ FollowInv'
    BY <1>12, BytesKept DEF Export
  <2>2. BodyInv'
    BY <1>12 DEF Export, IInv, BodyInv, parsing
  <2> QED
    BY <2>1, <2>2 DEF IInv
<1>13. CASE UNCHANGED vars
  <2>0. PhaseInv' /\ ScanInv'
    BY <1>13 DEF IInv, PhaseInv, ScanInv, Scanned, vars, measuring
  <2>1. ReadInv' /\ FollowInv'
    BY <1>13 DEF IInv, ReadInv, FollowInv, ParseInv, Scanned, vars, measuring, parsing
  <2>2. BodyInv'
    BY <1>13 DEF IInv, BodyInv, vars, parsing, document
  <2> QED
    BY <2>0, <2>1, <2>2 DEF IInv
<1> QED
  BY <1>1, <1>2, <1>3, <1>4, <1>5, <1>6, <1>7, <1>8, <1>9, <1>10, <1>11, <1>12, <1>13
  DEF Next

LEMMA Invariant == Spec => []IInv
  BY InitInv, NextInv, PTL DEF Spec

-----------------------------------------------------------------------------
(* Every state has the types TypeOK gives it; in particular no key that is *)
(* stored holds a '.' or starts with a '$'.                                *)
THEOREM TypeCorrect == Spec => []TypeOK
<1>1. IInv => TypeOK
  <2> SUFFICES ASSUME IInv PROVE TypeOK
    OBVIOUS
  <2>1. DOMAIN stored \subseteq Seq(StoredKey)
    <3>1. CASE phase = "stored"
      <4>1. Value(body) /\ stored \in EscapedKeys(body)
        BY <3>1, BodyValue DEF IInv, BodyInv
      <4> QED
        BY <4>1, StoredValue
    <3>2. CASE phase # "stored"
      BY <3>2, NoneValue DEF IInv, BodyInv
    <3> QED
      BY <3>1, <3>2
  <2>2. body # None => body \in Bodies
    BY DEF IInv, BodyInv
  <2> QED
    BY <2>1, <2>2 DEF IInv, PhaseInv, ScanInv, ReadInv, TypeOK
<1> QED
  BY <1>1, Invariant, PTL

(* parse_body: of a body that json.loads decodes as UTF-8, the parser      *)
(* recurses no deeper than max_json_depth, nor does what walks its result. *)
THEOREM RecursionBounded == Spec => []NestingBounded
<1>1. IInv => NestingBounded
  BY DEF IInv, FollowInv, ParseInv, BodyInv, NestingBounded, DepthLimited
<1> QED
  BY <1>1, Invariant, PTL

(* nesting_depth measures the depth the parser reaches in such a body,     *)
(* brackets in strings and escapes notwithstanding.                        *)
THEOREM DepthMeasured == Spec => []DepthExact
<1>1. IInv => DepthExact
  <2> SUFFICES ASSUME IInv, phase = "parse", coding = Utf8, Ended
               PROVE  maximum = deepest
    BY DEF DepthExact
  <2>0. ParseInv /\ at = Len(raw)
    BY Narrow DEF IInv, FollowInv, ReadInv
  <2>1. /\ Len(levels) = at + 1 /\ deepest \in Nat /\ maximum \in Nat
        /\ deepest <= maximum
    <3>1. Len(levels) \in Nat /\ Len(raw) \in Nat
      BY LenProperties DEF IInv, ScanInv
    <3> QED
      BY <2>0, <3>1 DEF IInv, ScanInv, ParseInv, Scanned
  <2>2. PICK n \in 1..Len(levels) : levels[n].depth = maximum
    BY DEF IInv, ScanInv
  <2>3. levels[n].depth <= deepest
    BY <2>0, <2>1 DEF ParseInv
  <2> QED
    BY <2>1, <2>2, <2>3
<1> QED
  BY <1>1, Invariant, PTL

(* A body that holds no lookalike of its own is exported as it was parsed. *)
THEOREM ExportedAsParsed == Spec => []RoundTrip
<1>1. IInv => RoundTrip
  <2> SUFFICES ASSUME IInv, exported # None, ~Lookalike(body) PROVE exported = body
    BY DEF RoundTrip
  <2>1. stored \in EscapedKeys(body) /\ exported \in UnescapedKeys(stored)
    BY DEF IInv, BodyInv
  <2>2. Value(body)
    BY BodyValue DEF IInv, BodyInv
  <2> QED
    BY <2>1, <2>2, RoundTripped
<1> QED
  BY <1>1, Invariant, PTL

(* A rebuild gives such an event the terms it has. *)
THEOREM RebuildChangesNothing == Spec => []TermsStable
<1>1. IInv => TermsStable
  <2> SUFFICES ASSUME IInv, phase = "stored", ~Lookalike(body)
               PROVE  terms = Collected(body)
    BY DEF TermsStable
  <2>1. PICK b \in UnescapedKeys(stored) \cup {body} : terms = Collected(b)
    BY DEF IInv, BodyInv
  <2>2. Value(body) /\ stored \in EscapedKeys(body)
    BY BodyValue DEF IInv, BodyInv
  <2>3. b = body
    BY <2>2, RoundTripped
  <2> QED
    BY <2>1, <2>3
<1> QED
  BY <1>1, Invariant, PTL

(* What stands under sensitive keys only is never a search term. *)
THEOREM SecretsKept == Spec => []SecretsUnsearchable
<1>1. IInv => SecretsUnsearchable
  <2> SUFFICES ASSUME IInv, NEW w \in Private PROVE [text |-> w] \notin terms
    BY DEF SecretsUnsearchable
  <2>1. CASE phase # "stored"
    BY <2>1 DEF IInv, BodyInv
  <2>2. CASE phase = "stored"
    <3>1. PICK b \in UnescapedKeys(stored) \cup {body} : terms = Collected(b)
      BY <2>2 DEF IInv, BodyInv
    <3>2. Value(body) /\ Guarded(body) /\ stored \in EscapedKeys(body)
      BY <2>2, BodyValue DEF IInv, BodyInv
    <3>3. Value(stored) /\ Guarded(stored)
      <4>1. Value(stored)
        BY <3>2, StoredValue, StoredPaths DEF Value
      <4>2. Guarded(stored)
        BY <3>2, Renamings, RewrittenGuarded DEF EscapedKeys
      <4> QED
        BY <4>1, <4>2
    <3>4. Value(b) /\ Guarded(b)
      <4>1. CASE b = body
        BY <3>2, <4>1
      <4>2. CASE b \in UnescapedKeys(stored)
        <5>1. Value(b)
          BY <3>3, <4>2, ExportedValue
        <5>2. Guarded(b)
          BY <3>3, <4>2, Renamings, RewrittenGuarded DEF UnescapedKeys
        <5> QED
          BY <5>1, <5>2
      <4> QED
        BY <3>1, <4>1, <4>2
    <3> QED
      BY <3>1, <3>4, GuardedUnsearchable
  <2> QED
    BY <2>1, <2>2
<1> QED
  BY <1>1, Invariant, PTL
=============================================================================
