---------------------------- MODULE MCEntityOutput ----------------------------
(***************************************************************************)
(* EntityOutput for TLC: every list of sorted, disjoint entities of up to  *)
(* two words in sentences of up to four, two sets of overlapping hard_post *)
(* matches, both orders of the processors, all forms of output.            *)
(***************************************************************************)
EXTENDS EntityOutput

CONSTANTS MaxWords

Extractable == {"pf", "ps", "td", "tm", "ty"}

MCTypes == Extractable \cup {"P", "T"}

MCTemplates == {<<"gazetteers", "containers">>, <<"containers", "gazetteers">>}

Candidates(from, size) ==
    {x \in [start : {from}, length : {1, 2}, type : Extractable] :
        End(x) <= size /\ (x.length = 2 => x.type \in {"pf", "tm"})}

EntityLists(size) ==
    LET lists[from \in 0 .. size] ==
        IF from = size THEN {<<>>}
        ELSE lists[from + 1]
             \cup UNION {{<<x>> \o rest : rest \in lists[End(x)]} : x \in Candidates(from, size)}
    IN lists[0]

Match(start, length, type) == [start |-> start, length |-> length, type |-> type]

MatchSets(size) ==
    {{m \in ms : End(m) <= size} :
        ms \in {{Match(0, 1, "pf"), Match(0, 2, "ps"), Match(1, 1, "td"), Match(2, 1, "tm")},
                    {Match(0, 3, "tm"), Match(1, 1, "ps"), Match(1, 2, "pf"), Match(2, 2, "ty")}}}

InBothProcessors(ms) ==
    {[processor |-> k, start |-> m.start, length |-> m.length, type |-> m.type] : k \in 1 .. 2, m \in ms}

SentencesOf(size) ==
    {[size |-> size, entities |-> es, matches |-> InBothProcessors(ms)] :
        es \in EntityLists(size), ms \in MatchSets(size)}

MCSentences == UNION {SentencesOf(size) : size \in 1 .. MaxWords}
=============================================================================
