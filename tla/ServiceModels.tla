---------------------------- MODULE ServiceModels ----------------------------
(***************************************************************************)
(* The data of nametag_service: the models of the server, the identifiers  *)
(* and aliases they are known by, and how a handler chooses its answer     *)
(* from the parameters of a request.                                       *)
(*                                                                         *)
(* A string is the sequence of the parts a hyphen separates, and <<>> the  *)
(* empty string; no part is empty.  A part that consists of six digits is  *)
(* in Versions; no other part begins with six digits.                      *)
(***************************************************************************)
EXTENDS Naturals, Sequences

CONSTANT Versions  \* the parts that are six digits

NoMap == [k \in {} |-> 0]  \* no identifiers: init has not succeeded

-----------------------------------------------------------------------------
(***************************************************************************)
(* nametag_service::init.  A model is a record with its rest_id, whether   *)
(* its file loads and whether it can_tokenize; models are known by their   *)
(* place in the sequence.                                                  *)
(***************************************************************************)
WithoutPart(s, k) == SubSeq(s, 1, k - 1) \o SubSeq(s, k + 1, Len(s))

(***************************************************************************)
(* A version is left out only where something follows it.                  *)
(***************************************************************************)
WithoutVersion(s) == {WithoutPart(s, k) : k \in {j \in 2 .. Len(s) - 1 : s[j] \in Versions}}

HyphenPrefixes(s) == {SubSeq(s, 1, k) : k \in 1 .. Len(s) - 1}

Aliases(s) == WithoutVersion(s) \cup HyphenPrefixes(s)

Emplace(map, keys, model) ==
    [k \in DOMAIN map \cup keys |-> IF k \in DOMAIN map THEN map[k] ELSE model]

RestModelsMap(models) ==
    LET after[n \in 0 .. Len(models)] ==
            IF n = 0 THEN NoMap
            ELSE Emplace(Emplace(after[n - 1], {models[n].rest_id}, n),
                         Aliases(models[n].rest_id), n)
        inUse == \E n \in 1 .. Len(models) : models[n].rest_id \in DOMAIN after[n - 1]
        loaded == models # <<>> /\ \A n \in 1 .. Len(models) : models[n].loads
    IN  IF loaded /\ ~inUse THEN Emplace(after[Len(models)], {<<>>}, 1) ELSE NoMap

-----------------------------------------------------------------------------
(***************************************************************************)
(* The handlers.  An answer has the HTTP code, the model that gave it (or  *)
(* 0), and what was wrong.                                                 *)
(***************************************************************************)
Answer(code, model, what) == [code |-> code, model |-> model, what |-> what]

Ask(params, key) == IF key \in DOMAIN params THEN params[key] ELSE <<>>

Has(params, key) == key \in DOMAIN params

NoTokenizer(model, params) ==
    \/ ~Has(params, "input") /\ ~model.can_tokenize
    \/ /\ Has(params, "input")
       /\ IF params["input"] = <<"untokenized">> THEN ~model.can_tokenize
                                                 ELSE params["input"] # <<"vertical">>

UnknownOutput(params) ==
    Has(params, "output") /\ params["output"] \notin {<<"xml">>, <<"vertical">>, <<"conll">>}

Recognize(models, map, params) ==
    LET rest_id == Ask(params, "model")
    IN  IF rest_id \notin DOMAIN map THEN Answer(400, 0, "model")
        ELSE LET m == map[rest_id]
             IN  IF ~Has(params, "data") THEN Answer(400, m, "data")
                 ELSE IF NoTokenizer(models[m], params) THEN Answer(400, m, "input")
                 ELSE IF UnknownOutput(params) THEN Answer(400, m, "output")
                 ELSE Answer(200, m, "")

Tokenize(models, map, params) ==
    LET rest_id == Ask(params, "model")
    IN  IF rest_id \notin DOMAIN map THEN Answer(400, 0, "model")
        ELSE LET m == map[rest_id]
             IN  IF ~models[m].can_tokenize THEN Answer(400, m, "operation")
                 ELSE IF ~Has(params, "data") THEN Answer(400, m, "data")
                 ELSE IF UnknownOutput(params) \/ Ask(params, "output") = <<"conll">>
                   THEN Answer(400, m, "output")
                 ELSE Answer(200, m, "")

ServiceHandle(models, map, url, params) ==
    IF url = "/models" THEN Answer(200, 0, "")
    ELSE IF url = "/recognize" THEN Recognize(models, map, params)
    ELSE IF url = "/tokenize" THEN Tokenize(models, map, params)
    ELSE Answer(404, 0, "url")
=============================================================================
