-------------------------- MODULE MCStreamAssembler --------------------------
(***************************************************************************)
(* Small instances of StreamAssembler: two tool-call keys, three names (a  *)
(* function, a custom tool, a blank one), two upstream ids, one of which   *)
(* is the id the adapter itself makes up for key 0.                        *)
(***************************************************************************)
EXTENDS StreamAssembler

MCFallback == [k \in Indices |-> IF k = 0 THEN "call_0" ELSE "call_1"]

Quiet == [reasoning |-> <<>>, content |-> <<>>, calls |-> FALSE,
          delta |-> [index |-> None, id |-> NoText, name |-> NoText, args |-> <<>>],
          finish |-> NoText]

Reason(t) == [Quiet EXCEPT !.reasoning = t]
Say(t) == [Quiet EXCEPT !.content = t]
Finish(f) == [Quiet EXCEPT !.finish = f]
NoCall == [Quiet EXCEPT !.calls = TRUE]
CallDelta(k, id, name, args) ==
  [Quiet EXCEPT !.calls = TRUE,
     !.delta = [index |-> k, id |-> id, name |-> name, args |-> args]]

(* Chunks that open, feed, switch between and close items, among them the  *)
(* malformed ones: a name without an id, an id without a name, a changed   *)
(* id and name, arguments before either, a blank name.                     *)
ItemChunks ==
  {Say(<<"x">>), Say(<<"ws">>), Reason(<<"x">>), NoCall,
   CallDelta(0, "a", "f", <<"x">>),
   CallDelta(0, "call_0", "c", <<>>),
   CallDelta(0, NoText, "f", <<>>),
   CallDelta(0, NoText, NoText, <<"ws", "x">>),
   CallDelta(1, "a", NoText, <<"x">>),
   CallDelta(1, "a", "c", <<"ws", "x">>),
   CallDelta(1, NoText, " ", <<>>),
   [CallDelta(1, "call_0", "f", <<>>) EXCEPT !.reasoning = <<"x">>, !.content = <<"x">>],
   Finish("tool_calls"), Finish("length")}

(* Every cut of a tagged answer at its token boundaries, with whitespace,  *)
(* a stray "<" and the tags out of place.                                  *)
ThinkChunks ==
  {Say(t) : t \in {<<"x">>, <<"ws">>, <<"<">>, <<"think>">>, <<"/think>">>,
                   <<"<", "think>", "x">>, <<"<", "think>", "<", "ws">>,
                   <<"x", "<", "/think>", "ws", "x">>,
                   <<"ws", "<", "think>", "x", "ws", "<", "/think>", "x">>}}
  \cup {[NoCall EXCEPT !.finish = "stop"], Reason(<<"x">>)}
MCChunks == ItemChunks \cup ThinkChunks

(* The bound of the instance: three chunks of the first kind, or MaxChunks *)
(* of the second.  Streams that mix tool calls with every cut of a tag add *)
(* nothing: the first call or reasoning chunk ends the recognition of the  *)
(* tags.  Only AcceptChunk leaves the bound, and it is never the only step *)
(* enabled, so no fair behaviour is cut short by it.                       *)
Bounded ==
  \/ ToSet(fed) \subseteq ItemChunks /\ Len(fed) <= 3
  \/ ToSet(fed) \subseteq ThinkChunks
==============================================================================
