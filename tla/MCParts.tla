------------------------------- MODULE MCParts --------------------------------
(***************************************************************************)
(* Instances of four components that share no state with each other:       *)
(* SseParser, ToolNames, InitTransaction and Profiles.  A behaviour runs   *)
(* one of them while the others rest in an initial state, so the states of *)
(* the run are those of the four.                                          *)
(***************************************************************************)
EXTENDS SseParser, ToolNames, InitTransaction, Profiles

VARIABLE part

(* Events with either line end, characters of two bytes, two data lines, a *)
(* name, a comment, extra blank lines, and a byte that is not UTF-8.       *)
LF == <<"LF">>
CRLF == <<"CR", "LF">>
Data(values, nl) ==
  [before |-> <<>>, name |-> Absent, comment |-> FALSE, data |-> values, newline |-> nl]

MCEvents ==
  {Data(<<<<"x">>>>, LF), Data(<<<<"c1", "c2">>>>, LF), Data(<<<<"y">>, <<"c1", "c2">>>>, CRLF),
   Data(<<<<"x", "bad">>>>, LF),
   [Data(<<<<"x">>>>, CRLF) EXCEPT !.name = "error"],
   [Data(<<>>, CRLF) EXCEPT !.comment = TRUE],
   [Data(<<<<"y">>>>, LF) EXCEPT !.before = CRLF],
   [Data(<<<<"y">>>>, CRLF) EXCEPT !.before = LF \o LF]}

(* Tools whose chat names collide as they are, once sanitised, once cut,   *)
(* once numbered, once flattened, or with the tool search.                 *)
MCToolSearchName == <<"t", "_">>
MCLegal == {"a", "b", "t", "_"} \cup {ToString(n) : n \in 0..9}
MCCharacters == MCLegal \cup {".", "sp"}
MCDecimal == [n \in 2..10 |-> IF n = 10 THEN <<"1", "0">> ELSE <<ToString(n)>>]
Tool(type, name) == [type |-> type, name |-> name, children |-> <<>>]

MCToolDefs ==
  {Tool("function", <<"a">>), Tool("function", <<"b", ".">>), Tool("function", <<"sp", "b">>),
   Tool("function", <<"a", "_", "_", "b">>), Tool("function", <<"a", "a", "a", "a", "b", "b">>),
   Tool("custom", <<"a">>), Tool("custom", <<"b", "_">>), Tool("custom", <<"b", "_", "2">>),
   Tool("tool_search", <<>>), Tool("function", <<"t", "_">>), Tool("function", <<"t", ".">>),
   [Tool("namespace", <<"a">>) EXCEPT !.children = <<<<"b">>, <<"a", ".">>>>],
   [Tool("namespace", <<"a", "_", "_", "b">>) EXCEPT !.children = <<<<"b">>>>]}

(* The kinds of change of init: files it writes, then one it deletes.      *)
MCChanges == <<"write", "write", "delete">>

(* A workspace with a project inside another and one beside it, called     *)
(* with and without the key and with a token of nobody's.                  *)
MCParentDir == [d \in Dirs |-> IF d = 2 THEN 1 ELSE NoDir]
MCEnvironments ==
  {[NoSettings EXCEPT !.key = k, !.token = t] : k \in {Unset, ApiKey}, t \in {Unset, ForeignToken}}
MCFlags == {NoSettings, [NoSettings EXCEPT !.key = ApiKey, !.limit = 1],
            [NoSettings EXCEPT !.token = ForeignToken]}

Init ==
  /\ part \in {"parser", "tools", "transaction", "profiles"}
  /\ SseInit /\ ToolInit /\ TxnInit /\ ProfilesInit
  /\ part # "transaction" => before = [f \in Files |-> "none"]

Next ==
  \/ part = "parser" /\ SseNext /\ UNCHANGED <<part, toolVars, txnVars, profileVars>>
  \/ part = "tools" /\ ToolNext /\ UNCHANGED <<part, sseVars, txnVars, profileVars>>
  \/ part = "transaction" /\ TxnNext /\ UNCHANGED <<part, sseVars, toolVars, profileVars>>
  \/ part = "profiles" /\ ProfilesNext /\ UNCHANGED <<part, sseVars, toolVars, txnVars>>

Spec == Init /\ [][Next]_<<part, sseVars, toolVars, txnVars, profileVars>>
===============================================================================
