---------------------------- MODULE MCLocalFiles ----------------------------
(***************************************************************************)
(* Two processes that run four commands between them, one of which may be  *)
(* killed.                                                                 *)
(***************************************************************************)
EXTENDS LocalFiles, TLC

Do(op, file, entry) == [NoCommand EXCEPT !.op = op, !.file = file, !.entry = entry]

MCCommands ==
    {Do("init", "wallet", <<>>),
     [Do("init", "wallet", <<>>) EXCEPT !.force = TRUE, !.password = "secret"],
     Do("agent", "wallet", <<>>),
     [Do("agent", "wallet", <<>>) EXCEPT !.create = TRUE],
     [Do("pin", "wallet", <<>>) EXCEPT !.password = "1234"],
     [Do("save", "session", <<>>) EXCEPT !.password = "1234"],
     Do("clear", "session", <<>>),
     Do("open", "wallet", <<>>),
     Do("add", "contacts", <<"alice", "address1">>),
     Do("add", "contacts", <<"bob", "address1">>),
     Do("remove", "contacts", <<"alice">>),
     Do("add", "mcp", <<"solobank">>),
     Do("remove", "mcp", <<"solobank">>),
     Do("add", "config", <<"locked">>),
     Do("remove", "config", <<"locked">>)}

Symmetry == Permutations(Keys) \cup Permutations(Processes)

MCServers == {<<"other">>}

=============================================================================
