---------------------------- MODULE MCRestServer ----------------------------
(***************************************************************************)
(* Two connections.  The client of the first sends requests of all kinds,  *)
(* that of the second two simple ones.  The lists of models have aliases   *)
(* in common, and a model named like the alias of a later one.  Init       *)
(* refuses those that are empty, have a model named like an earlier alias, *)
(* or one that does not load.                                              *)
(***************************************************************************)
EXTENDS RestServer, TLC

CONSTANTS c1, c2

MCConnections == {c1, c2}
MCVersions == {"140304", "140408"}
MCKeys == {"model", "data", "input", "output"}
MCBodySizes == {0, 2}
Invalid == "<80>"

Model(id, tokenizes) == [rest_id |-> id, loads |-> TRUE, can_tokenize |-> tokenizes]
Unloadable(id) == [rest_id |-> id, loads |-> FALSE, can_tokenize |-> TRUE]

MCModelLists == {
    <<>>,
    <<Model(<<"czech", "no">>, TRUE), Model(<<"czech", "140304", "no">>, FALSE), Model(<<"no", "140304">>, TRUE)>>,
    <<Model(<<"english">>, TRUE), Model(<<"czech", "140408", "no">>, TRUE), Model(<<"czech", "no">>, FALSE)>>,
    <<Model(<<"czech", "140304", "no">>, TRUE), Model(<<"czech", "140408", "no">>, FALSE)>>,
    <<Model(<<"czech">>, FALSE), Model(<<"czech", "no">>, TRUE)>>,
    <<Model(<<"czech", "no">>, TRUE), Model(<<"czech">>, TRUE)>>,
    <<Model(<<"czech">>, TRUE), Unloadable(<<"no">>)>>}

Argument(k, v) == [key |-> k, value |-> v]
Piece(k, isFirst, parts) == [key |-> k, first |-> isFirst, data |-> parts, encoding_supported |-> TRUE]
Filler == Piece(None, FALSE, <<>>)
Base64(k) == [Piece(k, TRUE, <<>>) EXCEPT !.encoding_supported = FALSE]

Data == Argument("data", <<"text">>)
Input(v) == Argument("input", <<v>>)
Output(v) == Argument("output", <<v>>)

Get(path, arguments) ==
    [method |-> "GET", url |-> path, form |-> FALSE, get |-> arguments, body |-> <<>>]
Post(path, arguments, units) ==
    [method |-> "POST", url |-> path, form |-> TRUE, get |-> arguments, body |-> units]

Rich == {
    Get("/recognize", <<Argument("model", <<"czech", "no">>), Data, Argument("model", <<"czech">>)>>),
    Get("/recognize", <<Argument("model", <<"czech", "140408", "no">>), Data, Input("vertical")>>),
    Get("/tokenize", <<Argument("model", <<"czech", "140408">>), Data, Output("conll")>>),
    Get("/tokenize", <<Data, Output("json")>>),
    Get("/tokenize", <<Argument("model", <<"no">>), Data>>),
    Get("/tokenize", <<Argument("model", <<"czech">>)>>),
    Get("/recognize", <<Data, Output("json")>>),
    Get("/recognize", <<Data, Input(Invalid)>>),
    Get("/recognize", <<Data, Input("sentences")>>),
    Post("/recognize", <<Argument("model", <<"no">>), Data>>,
         <<Piece("model", TRUE, <<"czech">>), Piece("model", FALSE, <<"no">>)>>),
    Post("/recognize", <<Data>>,
         <<Piece("model", TRUE, <<"no">>), Piece("model", FALSE, <<"no">>), Piece("model", TRUE, <<"czech">>)>>),
    Post("/recognize", <<>>, <<Filler, Piece("data", TRUE, <<"text">>), Base64("model"), Filler>>),
    [Post("/recognize", <<Data>>, <<Piece("model", TRUE, <<"czech">>), Filler>>) EXCEPT !.form = FALSE],
    [Post("/recognize", <<Data>>, <<Filler>>) EXCEPT !.method = "PATCH"]}

Simple == {Get("/models", <<>>),
           Post("/other", <<>>, <<Filler, Filler>>)}

MCRequests == (c1 :> Rich) @@ (c2 :> Simple)

JustOne == (c1 :> {Get("/models", <<>>)})
OneConnection == {c1}
OneModel == {<<Model(<<"czech">>, TRUE)>>}
=============================================================================
