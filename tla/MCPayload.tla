------------------------------ MODULE MCPayload ------------------------------
(* Instances of Payload for TLC: a few values, and bodies in every         *)
(* encoding.                                                               *)
EXTENDS Payload

Texts(chars, n) == UNION {[1..m -> chars] : m \in 0..n}

(* Bytes in any order, and numbers: alone, in a list, in a string.         *)
Narrow == Texts({"quote", "backslash", "open", "close", "other"}, 7)

Numbers == Texts({"digit", "quote", "open", "other"}, 5)

(* Bytes that are decoded in one way or another. *)
Odd == Texts({"zero", "fe", "ff", "open", "quote"}, 5)

(* The bytes of a character, low byte first: of ASCII, or of U+2200, which *)
(* has a quote's byte.                                                     *)
Low(c, width) == [m \in 1..width |-> IF m = 1 THEN IF c = "forall" THEN "zero" ELSE c
                                     ELSE IF m = 2 /\ c = "forall" THEN "quote"
                                     ELSE "zero"]

Encode(text, width, little, mark) ==
    mark \o FlattenSeq([n \in DOMAIN text |->
                 IF little THEN Low(text[n], width) ELSE Reverse(Low(text[n], width))])

Wide == {Encode(text, width, little, <<>>) :
           text \in Texts({"open", "close", "quote", "forall"}, 5),
           width \in {2, 4}, little \in BOOLEAN}
        \cup {Encode(text, 2, TRUE, <<"ff", "fe">>) : text \in Texts({"open", "quote", "forall"}, 4)}
        \cup {Encode(text, 4, FALSE, <<"zero", "zero", "fe", "ff">>) :
                text \in Texts({"open", "quote", "forall"}, 4)}

(* ["U+2200",[[ *)
Hiding == {Encode(<<"open", "quote", "forall", "quote", "other", "open", "open">>, 2, TRUE, <<>>)}

SomeRaw == Narrow \cup Numbers \cup Odd \cup Wide \cup Hiding

Plain(n) == [lead |-> "plain", name |-> n, dots |-> "none"]
Dotted   == [lead |-> "plain", name |-> "id", dots |-> "dot"]
DotLike  == [lead |-> "plain", name |-> "id", dots |-> "dotLike"]
Dollar   == [lead |-> "dollar", name |-> "id", dots |-> "dot"]
First    == Plain("0")

SomeKeys == {Plain("id"), Plain("token"), Dotted, DotLike, Dollar, First}

SomePaths == {<<k>> : k \in SomeKeys} \cup {<<j, k>> : j, k \in SomeKeys}

(* Two leaves of one value: they part at two keys of one object. *)
Parting(p, q) ==
    \/ p[1] # q[1] /\ First \notin {p[1], q[1]}
    \/ /\ p[1] = q[1] /\ Len(p) = 2 /\ Len(q) = 2
       /\ p[2] # q[2] /\ First \notin {p[2], q[2]}

(* Each path has a word of its own, private under a token. *)
WordAt(p) == IF \E n \in 1..Len(p) : p[n].name = "token" THEN "secret" ELSE "word"

SomeBodies ==
    {[p \in d |-> WordAt(p)] :
       d \in {{p} : p \in SomePaths}
               \cup {{p, q} : <<p, q>> \in {x \in SomePaths \X SomePaths : Parting(x[1], x[2])}}}
      \cup {[p \in {<<>>} |-> "word"], [p \in {<<>>} |-> "silent"],
            [p \in {<<Dotted>>} |-> "silent"],
            [p \in {<<Dotted>>} |-> "unencodable"],
            [p \in {<<Plain("token"), First>>} |-> "unencodable"]}
=============================================================================
