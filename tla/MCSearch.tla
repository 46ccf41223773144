------------------------------ MODULE MCSearch ------------------------------
EXTENDS Search

(* A query with five trigrams, two of which are the least that is found: a *)
(* text with a longer word, one with a typo, and one too different.        *)
Longer  == [tokens |-> {"hooks"}, trigrams |-> {1, 2, 3, 4}]
Typo    == [tokens |-> {"hoot"}, trigrams |-> {1, 2}]
Another == [tokens |-> {"shoe"}, trigrams |-> {1}]

SomeTexts == {Longer, Typo, Another}

(* Stored with its terms, before there were terms, and with terms that     *)
(* only a rebuild corrects.                                                *)
Stored2(x)  == [at |-> 2, text |-> x, terms |-> x]
Early(x, t) == [at |-> t, text |-> x, terms |-> NoTerms]
Wrong       == [at |-> 2, text |-> Longer, terms |-> Another]

SomeFound ==
    {<<Stored2(Typo), Stored2(Typo), Stored2(Typo), NoEvent>>,
     <<Stored2(Longer), Stored2(Typo), Stored2(Longer), Stored2(Typo)>>,
     <<Early(Typo, 3), Wrong, Stored2(Typo), NoEvent>>,
     <<Wrong, Early(Typo, 2), Early(Longer, 2), NoEvent>>}

SomeAsks ==
    {[ranked |-> FALSE, from |-> 2, to |-> 3], [ranked |-> FALSE, from |-> 2, to |-> 4],
     [ranked |-> TRUE, from |-> 2, to |-> 4]}
=============================================================================
