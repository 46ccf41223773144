------------------------------- MODULE Payload -------------------------------
(***************************************************************************)
(* What becomes of a webhook's body: it is measured and parsed             *)
(* (app/ingest/parser.py), stored with its keys escaped and its search     *)
(* terms (app/ingest/receiver.py, app/search/tokenize.py), indexed again   *)
(* by a rebuild (app/search/backfill.py) and exported (app/export.py).     *)
(*                                                                         *)
(* A body is measured byte by byte and parsed character by character.      *)
(* What it parses to is a function from the paths of a JSON value to its   *)
(* leaves.                                                                 *)
(***************************************************************************)
EXTENDS Integers, Sequences, FiniteSets, SequencesExt

CONSTANTS
    MaxDepth,     \* limits.max_json_depth
    Names,        \* what keys are called, '.' and a leading '$' apart
    Secrets,      \* names that hold a marker of SENSITIVE_KEYS
    Items,        \* positions in a list
    Words,        \* texts and numbers
    Private,      \* words that bodies hold under sensitive keys only
    Silent,       \* true, false, null, {} and []
    Unencodable,  \* a value BSON has no form for, such as 2^64
    Bodies,       \* what bodies parse to
    MaxDigits,    \* of an integer that Python converts (external): 4300
    RawBodies     \* bodies as they are sent

(* 0x22, 0x5C, [ and {, ] and }, a digit, 0x00, the two bytes of a byte    *)
(* order mark, and all the rest.                                           *)
Bytes == {"quote", "backslash", "open", "close", "digit", "zero", "fe", "ff", "other"}

(* A key: how it starts, what it is called and which dots it holds.        *)
(* dollarLike and dotLike are the lookalikes U+FF04 and U+FF0E.            *)
Key == [lead : {"plain", "dollar", "dollarLike"},
        name : Names,
        dots : {"none", "dot", "dotLike", "both"}]

Paths == Seq(Key)

(* MongoDB restricts '.' and a leading '$'. *)
StoredKey == {k \in Key : k.lead # "dollar" /\ k.dots \notin {"dot", "both"}}

(* A body that is not parsed has no leaves; every JSON value has one. *)
None == [p \in {} |-> Silent]

ASSUME PayloadAssumption ==
    /\ MaxDepth \in Nat /\ MaxDigits \in Nat
    /\ RawBodies \subseteq Seq(Bytes)
    /\ Secrets \subseteq Names /\ Items \subseteq Names \ Secrets
    /\ \A b \in Bodies :
         /\ DOMAIN b # {} /\ DOMAIN b \subseteq Paths
         /\ b \in [DOMAIN b -> Words \cup {Silent, Unencodable}]
    /\ Private \subseteq Words
    /\ \A b \in Bodies : \A p \in DOMAIN b :
         b[p] \in Private => \E m \in 1..Len(p) : p[m].name \in Secrets

VARIABLES
    phase,     \* of the request: "measure", "parse", "parsed", "stored" or "failed"
    media,     \* the media type: "json", "form", "text" or "other"
    raw,
    levels,    \* of nesting_depth: its locals after each byte
    maximum,
    coding,    \* how json.loads decodes the body
    at,        \* characters the JSON parser has read
    inside,    \* it is inside a string
    nest,      \* containers it is inside of, that is how deep it has recursed
    deepest,   \* the deepest it has been
    body,      \* body, as parsed
    stored,    \* request.body of the stored event
    terms,     \* its search field
    exported   \* the body of an export or of the event page

measuring == <<raw, levels, maximum>>
parsing   == <<coding, at, inside, nest, deepest>>
document  == <<stored, terms, exported>>
vars      == <<phase, media, measuring, parsing, body, document>>

(* An encoding: the bytes of a character, which of them is the low one,    *)
(* and how many bytes of a mark come first.  The mark of UTF-8 is no       *)
(* bracket and no quote, and counts as text here.                          *)
Coding == [width : {1, 2, 4}, low : 1..4, mark : {0, 2, 4}]

Code(width, low, mark) == [width |-> width, low |-> low, mark |-> mark]

Utf8 == Code(1, 1, 0)

Level == [depth : Int, inString : BOOLEAN, escaped : BOOLEAN]

Outside == [depth |-> 0, inString |-> FALSE, escaped |-> FALSE]

Scanned == Len(levels) - 1      \* bytes measured

TypeOK ==
    /\ phase \in {"measure", "parse", "parsed", "stored", "failed"}
    /\ media \in {"json", "form", "text", "other"}
    /\ raw \in Seq(Bytes)
    /\ levels \in Seq(Level) /\ Scanned \in 0..Len(raw) /\ maximum \in Nat
    /\ coding \in Coding
    /\ at \in Nat /\ inside \in BOOLEAN /\ nest \in Nat /\ deepest \in Nat
    /\ body # None => body \in Bodies
    /\ DOMAIN stored \subseteq Seq(StoredKey)

Init ==
    /\ phase = "measure" /\ media \in {"json", "form", "text", "other"}
    /\ raw \in RawBodies
    /\ media = "json" \/ raw \in {<<>>, <<"other">>}     \* not looked into
    /\ levels = <<Outside>> /\ maximum = 0
    /\ coding = Utf8 /\ at = 0 /\ inside = FALSE /\ nest = 0 /\ deepest = 0
    /\ body = None /\ stored = None /\ terms = {} /\ exported = None

-----------------------------------------------------------------------------
(* Depth.                                                                  *)

(* Mutant: a backslash hides only a quote, not another backslash. *)
ScanQuoteOnly(l, byte) ==
    IF l.inString
    THEN [l EXCEPT !.escaped = byte = "backslash",
                   !.inString = l.escaped \/ byte # "quote"]
    ELSE [l EXCEPT !.inString = byte = "quote",
                   !.depth = CASE byte = "open" -> @ + 1 [] byte = "close" -> @ - 1
                                  [] OTHER -> @]

(* nesting_depth: one turn of its loop *)
Scan(l, byte) ==
    IF l.inString
    THEN [l EXCEPT !.escaped = ~l.escaped /\ byte = "backslash",
                   !.inString = l.escaped \/ byte # "quote"]
    ELSE [l EXCEPT !.inString = byte = "quote",
                   !.depth = CASE byte = "open" -> @ + 1 [] byte = "close" -> @ - 1
                                  [] OTHER -> @]

Measure ==
    /\ phase = "measure" /\ media = "json" /\ Scanned < Len(raw)
    /\ LET l == Scan(levels[Len(levels)], raw[Len(levels)])
       IN  /\ levels' = Append(levels, l)
           /\ maximum' = IF l.depth > maximum THEN l.depth ELSE maximum
    /\ UNCHANGED <<phase, media, raw, parsing, body, document>>

(* The body is None, or what was parsed.  The bytes are stored as they     *)
(* are, and play no further part.                                          *)
Parsed(b) ==
    /\ phase' = "parsed" /\ body' = b
    /\ raw' = <<>> /\ levels' = <<Outside>> /\ maximum' = 0
    /\ at' = 0 /\ inside' = FALSE /\ nest' = 0 /\ deepest' = 0
    /\ UNCHANGED <<media, coding, document>>

Empty == phase = "measure" /\ Len(raw) = 0 /\ Parsed(None)

(* Mutant: one level too many. *)
DeepLong == maximum > MaxDepth + 1

Deep == maximum > MaxDepth

Measured == phase = "measure" /\ media = "json" /\ raw # <<>> /\ Scanned = Len(raw)

TooDeep == Measured /\ Deep /\ Parsed(None)

(* json.detect_encoding (external): a byte order mark tells, or else where *)
(* the first character, which is ASCII, has its zero bytes.                *)
Marked(s, mark) == IsPrefix(mark, s)

Detected(s) ==
    LET Zero(n) == Len(s) >= n /\ s[n] = "zero"
        four    == Len(s) >= 4
        two     == Len(s) = 2 \/ four
    IN  CASE Marked(s, <<"zero", "zero", "fe", "ff">>)    -> Code(4, 4, 4)
          [] Marked(s, <<"fe", "ff">>)                    -> Code(2, 2, 2)
          [] Marked(s, <<"ff", "fe", "zero", "zero">>)    -> Code(4, 1, 4)
          [] Marked(s, <<"ff", "fe">>) /\ ~(Zero(3) /\ Zero(4)) -> Code(2, 1, 2)
          [] four /\ Zero(1) /\ Zero(2) /\ ~Marked(s, <<"zero", "zero", "fe", "ff">>)
                                                          -> Code(4, 4, 0)
          [] two /\ Zero(1) /\ ~(four /\ Zero(2))         -> Code(2, 2, 0)
          [] four /\ ~Zero(1) /\ Zero(2) /\ Zero(3) /\ Zero(4) -> Code(4, 1, 0)
          [] two /\ ~Zero(1) /\ Zero(2) /\ ~(Zero(3) /\ Zero(4)) -> Code(2, 1, 0)
          [] OTHER                                        -> Utf8

(* bytes.decode (external): whole characters, and no byte that UTF-8 does  *)
(* not have.                                                               *)
Decodable(c) ==
    /\ (Len(raw) - c.mark) % c.width = 0
    /\ c = Utf8 => \A n \in 1..Len(raw) : raw[n] \notin {"fe", "ff"}

Undecodable == Measured /\ ~Deep /\ ~Decodable(Detected(raw)) /\ Parsed(None)

(* json.loads decodes the body. *)
Load ==
    /\ Measured /\ ~Deep
    /\ Decodable(Detected(raw))
    /\ coding' = Detected(raw)
    /\ phase' = "parse"
    /\ UNCHANGED <<media, measuring, at, inside, nest, deepest, body, document>>

(* The paths' lengths: how deep escape_keys, unescape_keys and _collect    *)
(* recurse.                                                                *)
Within(b, d) == \A p \in DOMAIN b : Len(p) <= d

(* The n-th character.  Above 0xFF all are alike, whatever bytes they are  *)
(* made of.                                                                *)
Char(n) ==
    LET before == coding.mark + (n - 1) * coding.width
    IN  IF \A m \in 1..coding.width : m = coding.low \/ raw[before + m] = "zero"
        THEN raw[before + coding.low] ELSE "high"

Left(n) == coding.mark + (at + n) * coding.width <= Len(raw)

Ended == coding.mark + at * coding.width = Len(raw)

(* The JSON parser (external): an item of a string is a character, if not  *)
(* a control character, or an escape of two.                               *)
ReadString ==
    /\ inside
    /\ \/ /\ Left(1) /\ Char(at + 1) \notin {"quote", "backslash", "zero"}
          /\ at' = at + 1 /\ UNCHANGED inside
       \/ /\ Left(2) /\ Char(at + 1) = "backslash"
          /\ at' = at + 2 /\ UNCHANGED inside
       \/ /\ Left(1) /\ Char(at + 1) = "quote"
          /\ at' = at + 1 /\ inside' = FALSE
    /\ UNCHANGED <<nest, deepest>>

(* A string, a list or an object follows a bracket, ',', ':' or a space. *)
Begins == at > 0 => Char(at) \in {"open", "other"}

ReadToken ==
    /\ ~inside /\ Left(1) /\ at' = at + 1
    /\ \/ Char(at + 1) = "quote" /\ Begins /\ inside' = TRUE /\ UNCHANGED <<nest, deepest>>
       \/ Char(at + 1) \in {"digit", "other"} /\ UNCHANGED <<inside, nest, deepest>>
       \/ /\ Char(at + 1) = "open" /\ Begins
          /\ nest' = nest + 1 /\ deepest' = IF nest' > deepest THEN nest' ELSE deepest
          /\ UNCHANGED inside
       \/ Char(at + 1) = "close" /\ nest > 0 /\ nest' = nest - 1 /\ UNCHANGED <<inside, deepest>>

Read ==
    /\ phase = "parse" /\ (ReadString \/ ReadToken)
    /\ UNCHANGED <<phase, media, measuring, coding, body, document>>

(* At any character the body may prove not to be JSON. *)
Malformed == phase = "parse" /\ Parsed(None)

(* After more digits than Python converts to an integer: json.loads raises *)
(* a ValueError that parse_body does not expect, and the request is        *)
(* answered with 500.  (Of a fraction there may be more.)                  *)
Overlong ==
    /\ phase = "parse" /\ ~inside
    /\ at > MaxDigits /\ \A n \in (at - MaxDigits)..at : Char(n) = "digit"
    /\ phase' = "failed"
    /\ UNCHANGED <<media, measuring, parsing, body, document>>

Loaded ==
    /\ phase = "parse" /\ Ended /\ ~inside /\ nest = 0
    /\ \E b \in Bodies : Within(b, deepest) /\ Parsed(b)

(* A form: names with a text or a list of texts. *)
Form ==
    /\ phase = "measure" /\ media = "form" /\ raw # <<>>
    /\ \E b \in Bodies \cup {None} : Within(b, 2) /\ Parsed(b)

(* A text, or nothing of use; also when it is not UTF-8. *)
Text ==
    /\ phase = "measure" /\ media \in {"text", "other"} /\ raw # <<>>
    /\ \E b \in Bodies \cup {None} :
         (b # None => media = "text" /\ DOMAIN b = {<<>>}) /\ Parsed(b)

-----------------------------------------------------------------------------
(* Keys.                                                                   *)

(* Mutant: a leading '$' is left alone. *)
EscapeDots ==
    [k \in Key |-> [k EXCEPT !.dots = IF @ \in {"dot", "both"} THEN "dotLike" ELSE @]]

(* _escape_key *)
Escape ==
    [k \in Key |-> [k EXCEPT !.dots = IF @ \in {"dot", "both"} THEN "dotLike" ELSE @,
                             !.lead = IF @ = "dollar" THEN "dollarLike" ELSE @]]

(* Mutant: a leading lookalike of '$' is left alone. *)
UnescapeDots ==
    [k \in Key |-> [k EXCEPT !.dots = IF @ \in {"dotLike", "both"} THEN "dot" ELSE @]]

(* _unescape_key *)
Unescape ==
    [k \in Key |-> [k EXCEPT !.dots = IF @ \in {"dotLike", "both"} THEN "dot" ELSE @,
                             !.lead = IF @ = "dollarLike" THEN "dollar" ELSE @]]

(* A path with its keys rewritten by f. *)
Mapped(f, p) == [n \in 1..Len(p) |-> f[p[n]]]

(* Two paths that part at keys that become the same. *)
Clash(f, p, q) ==
    \E n \in 1..Len(p) :
       /\ n <= Len(q) /\ p[n] # q[n]
       /\ \A m \in 1..n : f[p[m]] = f[q[m]]

(* The values that rewriting the keys may give: of keys that become the    *)
(* same the last one stays, with all that is under it.                     *)
Rewritten(f, b) ==
    LET kept == {w \in SUBSET DOMAIN b :
                   \A p \in DOMAIN b : p \in w <=> \A q \in w : ~Clash(f, p, q)}
    IN  {[p \in {Mapped(f, q) : q \in w} |-> b[CHOOSE q \in w : Mapped(f, q) = p]] :
           w \in kept}

(* escape_keys, unescape_keys *)
EscapedKeys(b) == Rewritten(Escape, b)
UnescapedKeys(b) == Rewritten(Unescape, b)

-----------------------------------------------------------------------------
(* Search terms.                                                           *)

(* Mutant: only the key of a value is looked at, not what it is inside of. *)
ClearAtEnd(p, n) == n = 0 \/ p[n].name \notin Secrets

(* is_sensitive, for every key on the way down to the n-th *)
Clear(p, n) == \A m \in 1..n : p[m].name \notin Secrets

(* source_strings: keys and leaves, with nothing under a sensitive key *)
KeysOn(p) == {p[n] : n \in {m \in 1..Len(p) : Clear(p, m) /\ p[m].name \notin Items}}

LeafAt(b, p) == IF Clear(p, Len(p)) /\ b[p] \in Words THEN {[text |-> b[p]]} ELSE {}

Collected(b) == UNION {KeysOn(p) \cup LeafAt(b, p) : p \in DOMAIN b}

-----------------------------------------------------------------------------
(* The stored event.                                                       *)

Encodable(b) == \A p \in DOMAIN b : b[p] # Unencodable

(* receive, from the parsed body to insert_one *)
Store ==
    /\ phase = "parsed" /\ Encodable(body)
    /\ phase' = "stored"
    /\ stored' \in EscapedKeys(body)
    /\ terms' = Collected(body)
    /\ UNCHANGED <<media, measuring, parsing, body, exported>>

(* insert_one raises, and the request is answered with 500. *)
Fail ==
    /\ phase = "parsed" /\ ~Encodable(body)
    /\ phase' = "failed"
    /\ UNCHANGED <<media, measuring, parsing, body, document>>

(* Mutant: terms of the keys as they are stored. *)
IndexedEscaped == {stored}

(* build_from_event *)
Indexed == UnescapedKeys(stored)

(* backfill with --rebuild *)
Rebuild ==
    /\ phase = "stored"
    /\ \E b \in Indexed : terms' = Collected(b)
    /\ UNCHANGED <<phase, media, measuring, parsing, body, stored, exported>>

(* public, and the event page *)
Export ==
    /\ phase = "stored"
    /\ exported' \in UnescapedKeys(stored)
    /\ UNCHANGED <<phase, media, measuring, parsing, body, stored, terms>>

Next ==
    \/ Measure \/ Empty \/ TooDeep \/ Undecodable \/ Load \/ Read \/ Malformed \/ Overlong \/ Loaded
    \/ Form \/ Text \/ Store \/ Fail \/ Rebuild \/ Export

Spec == Init /\ [][Next]_vars

-----------------------------------------------------------------------------
(* docs/security.md: "Nesting depth is bounded."  The JSON parser and all  *)
(* that walk its result recurse no deeper than max_json_depth ...          *)
DepthLimited ==
    /\ nest <= MaxDepth
    /\ media = "json" => Within(body, MaxDepth)

(* ... if the body is decoded as UTF-8, though only its bytes were scanned *)
(* (nesting_depth).  json.loads takes UTF-16 and UTF-32 as well, and there *)
(* DepthLimited is false: the bytes of some characters are quotes.         *)
NestingBounded == coding = Utf8 => DepthLimited

(* "... correctly ignoring brackets inside strings": of a whole JSON text  *)
(* in UTF-8 the scan measures the very depth, so none within the limit is  *)
(* left unparsed.                                                          *)
DepthExact ==
    phase = "parse" /\ coding = Utf8 /\ Ended /\ ~inside /\ nest = 0
        => maximum = deepest

(* The body holds a lookalike of its own. *)
Lookalike(b) ==
    \E p \in DOMAIN b : \E n \in 1..Len(p) :
       p[n].lead = "dollarLike" \/ p[n].dots \in {"dotLike", "both"}

(* What is exported is what was parsed; "a payload key that genuinely      *)
(* contained those lookalikes would round-trip incorrectly"                *)
(* (docs/architecture.md), and nothing else does.                          *)
RoundTrip ==
    exported # None => exported = body \/ Lookalike(body)

(* A rebuild changes nothing: an event has the terms it got at ingest,     *)
(* though these came from the parsed body and a rebuild reads the stored   *)
(* one.                                                                    *)
TermsStable ==
    phase = "stored" => terms = Collected(body) \/ Lookalike(body)

(* "A body field called `api_key` ... never becomes a searchable term":    *)
(* what a body holds only under sensitive keys is not found, at ingest or  *)
(* after a rebuild.                                                        *)
SecretsUnsearchable == \A w \in Private : [text |-> w] \notin terms
=============================================================================
