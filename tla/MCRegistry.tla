----------------------------- MODULE MCRegistry -----------------------------
(***************************************************************************)
(* The whole table. Paths to rows of each kind, some of one service and    *)
(* one length, to none, and with a parameter that is not safe; processes   *)
(* with all the keys, with some of them, one blank, and with none.         *)
(***************************************************************************)
EXTENDS Registry, RouteTable

MCPaths ==
    {<<"openai", "v1", "images", "generations">>, <<"deepseek", "v1", "chat", "completions">>,
     <<"openweather", "v1", "forecast">>, <<"notion", "v1", "databases", "a%2Fb", "query">>}

MCLower == [f \in {"q", "APPID"} |-> IF f = "APPID" THEN "appid" ELSE f]

MCBodies ==
    {[json |-> TRUE, strings |-> {"q", "APPID"}],
     [json |-> FALSE, strings |-> {}]}

MCEnvs ==
    {[key \in Keys |-> "set"],
     [key \in Keys |-> "unset"],
     [key \in Keys |-> IF key = "OPENAI_API_KEY" THEN "blank"
                       ELSE IF key \in {"DEEPSEEK_API_KEY", "PINECONE_API_KEY"} THEN "unset"
                       ELSE "set"]}

=============================================================================
