--------------------------- MODULE MCBilouDecoding ---------------------------
(***************************************************************************)
(* Instances of BilouDecoding for TLC.                                     *)
(***************************************************************************)
EXTENDS BilouDecoding

(***************************************************************************)
(* Every vector of the network with entries 1 or 2, and one entity.        *)
(***************************************************************************)
MCAllOutcomes == [0 .. 4 -> {1, 2}]

NoProcessors == <<>>
MCPlainSentences == {[size |-> n, matches |-> <<>>] : n \in 1 .. MaxWords}

(***************************************************************************)
(* Vectors for two entities: I, L, O, then B and U of each entity.  They   *)
(* prefer, in turn, O; U of the second entity; to begin; to go on, whether *)
(* or not an entity has begun; and everything equally.                     *)
(***************************************************************************)
MCFewOutcomes ==
    { <<1, 1, 3, 1, 1, 1, 1>>, <<1, 1, 1, 1, 1, 1, 3>>, <<1, 1, 1, 3, 1, 2, 1>>,
      <<3, 2, 1, 1, 1, 1, 1>>, <<1, 1, 1, 1, 1, 1, 1>> }
MCOutcomes == {[v \in 0 .. 6 |-> oc[v + 1]] : oc \in MCFewOutcomes}

MCProcessors == <<"gazetteers", "url", "gazetteers">>

(***************************************************************************)
(* All sets of at most two gazetteer matches for the first processor, one  *)
(* for the second gazetteers, and an e-mail or no e-mail at one word.      *)
(***************************************************************************)
Match(s, l, e) == [start |-> s, length |-> l, entity |-> e]
SpansOf(n, e) == {Match(s, l, e) : s \in 0 .. n - 1, l \in 1 .. n} \cap
                 {m \in Span : m.start + m.length <= n}
MCMatchSentences ==
    {[size |-> n, matches |-> <<P, U, G>>] :
        n \in {MaxWords},
        P \in {X \cup Y : X, Y \in {{}} \cup {{m} : m \in SpansOf(MaxWords, 0)}},
        U \in {{}} \cup {{Match(w, 1, 1)} : w \in {1}},
        G \in {{}, {Match(0, 2, 1)}, {Match(1, 2, Unknown)}}}

(***************************************************************************)
(* Sentences of every length, the empty one included, for calls that share *)
(* a cache.                                                                *)
(***************************************************************************)
MCReuseProcessors == <<"gazetteers">>
MCReuseSentences ==
    {[size |-> 0, matches |-> <<{}>>], [size |-> 1, matches |-> <<{}>>],
     [size |-> 2, matches |-> <<{}>>], [size |-> 2, matches |-> <<{Match(0, 2, 0)}>>],
     [size |-> 2, matches |-> <<{Match(1, 1, 0)}>>]}
MCReuseOutcomes == [0 .. 4 -> {1}] \cup
    {[v \in 0 .. 4 |-> IF v = b THEN 2 ELSE 1] : b \in {0, 2, 3}}
=============================================================================
