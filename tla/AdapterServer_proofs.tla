------------------------- MODULE AdapterServer_proofs -------------------------
(***************************************************************************)
(* Proofs about AdapterServer, for any number of requests, any limit and   *)
(* any number of restarts.                                                 *)
(***************************************************************************)
EXTENDS AdapterServer, FiniteSetTheorems, SequenceTheorems, TLAPS

------------------------------------------------------------------------------
(* What a sequence of events contains.                                     *)

Has(s, e) == \E i \in DOMAIN s : s[i] = e

LEMMA HasConcat ==
  ASSUME NEW s \in Seq(Events), NEW t \in Seq(Events), NEW e, Has(s \o t, e)
  PROVE  Has(s, e) \/ Has(t, e)
<1>1. /\ Len(s) \in Nat /\ DOMAIN s = 1..Len(s)
      /\ Len(t) \in Nat /\ DOMAIN t = 1..Len(t)
  BY LenProperties
<1>2. /\ DOMAIN (s \o t) = 1..(Len(s) + Len(t))
      /\ \A i \in 1..(Len(s) + Len(t)) :
           (s \o t)[i] = IF i <= Len(s) THEN s[i] ELSE t[i - Len(s)]
  BY ConcatProperties, LenProperties
<1>3. PICK i \in 1..(Len(s) + Len(t)) : (s \o t)[i] = e
  BY <1>2 DEF Has
<1>4. CASE i <= Len(s)
  BY <1>1, <1>2, <1>3, <1>4 DEF Has
<1>5. CASE ~(i <= Len(s))
  <2>1. i - Len(s) \in 1..Len(t) /\ t[i - Len(s)] = e
    BY <1>1, <1>2, <1>3, <1>5
  <2>2. QED BY <1>1, <2>1 DEF Has
<1>6. QED BY <1>4, <1>5

(* The sequences the adapter sends. *)
LEMMA RepliesTyped ==
  /\ \A e \in Events : <<e>> \in Seq(Events) /\ (\A f : Has(<<e>>, f) => f = e)
  /\ \A e \in Events :
       /\ Reply(<<e>>) \in Seq(Events)
       /\ \A f : Has(Reply(<<e>>), f) => f \in {e, "[DONE]"}
  /\ Reply(<<"created", "failed">>) \in Seq(Events)
  /\ \A f : Has(Reply(<<"created", "failed">>), f) => f \in {"created", "failed", "[DONE]"}
<1>1. /\ "created" \in Events /\ "failed" \in Events /\ "[DONE]" \in Events
  BY DEF Events
<1>2. \A e \in Events : <<e>> \in Seq(Events) /\ (\A f : Has(<<e>>, f) => f = e)
  BY DEF Has
<1>3. /\ <<"created", "failed">> \in Seq(Events)
      /\ \A f : Has(<<"created", "failed">>, f) => f \in {"created", "failed"}
  BY <1>1 DEF Has
<1>4. ASSUME NEW e \in Events
      PROVE  /\ Reply(<<e>>) \in Seq(Events)
             /\ \A f : Has(Reply(<<e>>), f) => f \in {e, "[DONE]"}
  BY <1>1, <1>2, HasConcat, ConcatProperties DEF Reply
<1>5. /\ Reply(<<"created", "failed">>) \in Seq(Events)
      /\ \A f : Has(Reply(<<"created", "failed">>), f) => f \in {"created", "failed", "[DONE]"}
  BY <1>1, <1>2, <1>3, HasConcat, ConcatProperties DEF Reply
<1>6. QED BY <1>2, <1>4, <1>5

------------------------------------------------------------------------------
(* The inductive invariant.  Told speaks of what the client has read; an   *)
(* event on its way, in the queue, must not lie either, and a request that *)
(* is still being worked on has no row and no verdict.                     *)

Sent(r, e) == Has(queue[r], e) \/ Has(view[r], e)

Honest(r) ==
  /\ Sent(r, "completed") => r \in rows
  /\ Sent(r, "failed") \/ Sent(r, "error") => r \notin rows
  /\ pc[r] \in {"idle", "spawned", "upstream"} =>
       /\ r \notin rows
       /\ ~Sent(r, "completed") /\ ~Sent(r, "failed") /\ ~Sent(r, "error")

IInv ==
  /\ TypeOK
  /\ PermitsConserved
  /\ server = "down" => \A r \in Requests : pc[r] \notin {"spawned", "upstream"}
  /\ \A r \in Requests : Honest(r)

LEMMA UpstreamFinite ==
  ASSUME NEW f \in [Requests -> {"idle", "spawned", "upstream", "ended", "dropped", "lost"}],
         NEW r \in Requests, NEW l \in {"ended", "dropped", "spawned"}
  PROVE  LET In(g) == {q \in Requests : g[q] = "upstream"} IN
         /\ Cardinality(In(f)) \in Nat
         /\ f[r] # "upstream" =>
              /\ Cardinality(In([f EXCEPT ![r] = "upstream"])) = Cardinality(In(f)) + 1
              /\ Cardinality(In([f EXCEPT ![r] = l])) = Cardinality(In(f))
         /\ f[r] = "upstream" =>
              /\ Cardinality(In(f)) > 0
              /\ Cardinality(In([f EXCEPT ![r] = l])) = Cardinality(In(f)) - 1
<1> DEFINE In(g) == {q \in Requests : g[q] = "upstream"}
<1>1. IsFiniteSet(In(f)) /\ Cardinality(In(f)) \in Nat
  BY LimitsAssumption, FS_Subset, FS_CardinalityType
<1>2. ASSUME f[r] # "upstream"
      PROVE  /\ Cardinality(In([f EXCEPT ![r] = "upstream"])) = Cardinality(In(f)) + 1
             /\ Cardinality(In([f EXCEPT ![r] = l])) = Cardinality(In(f))
  <2>1. In([f EXCEPT ![r] = "upstream"]) = In(f) \cup {r} /\ r \notin In(f)
    BY <1>2
  <2>2. In([f EXCEPT ![r] = l]) = In(f)
    BY <1>2
  <2> HIDE DEF In
  <2>3. QED BY <1>1, <2>1, <2>2, FS_AddElement
<1>3. ASSUME f[r] = "upstream"
      PROVE  /\ Cardinality(In(f)) > 0
             /\ Cardinality(In([f EXCEPT ![r] = l])) = Cardinality(In(f)) - 1
  <2>1. In([f EXCEPT ![r] = l]) = In(f) \ {r} /\ r \in In(f)
    BY <1>3
  <2> HIDE DEF In
  <2>2. Cardinality(In(f)) # 0
    BY <1>1, <2>1, FS_EmptySet
  <2>3. Cardinality(In([f EXCEPT ![r] = l])) = Cardinality(In(f)) - 1
    BY <1>1, <2>1, FS_RemoveElement
  <2>4. QED BY <1>1, <2>2, <2>3
<1>4. QED BY <1>1, <1>2, <1>3

------------------------------------------------------------------------------
(* Steps of one request.                                                   *)

LEMMA SendKeeps ==
  ASSUME TypeOK, NEW r \in Requests, NEW ev \in Seq(Events), Send(r, ev)
  PROVE  /\ queue' \in [Requests -> Seq(Events)]
         /\ \A q \in Requests \ {r} : queue'[q] = queue[q]
         /\ \A e : Has(queue'[r], e) => Has(queue[r], e) \/ Has(ev, e)
<1> DEFINE new == IF client[r] = "gone" THEN <<>> ELSE queue[r] \o ev
<1>1. queue \in [Requests -> Seq(Events)] /\ queue' = [queue EXCEPT ![r] = new]
  BY DEF TypeOK, Send
<1>2. new \in Seq(Events)
  BY <1>1, ConcatProperties
<1>3. \A e : Has(new, e) => Has(queue[r], e) \/ Has(ev, e)
  BY <1>1, HasConcat DEF Has
<1> HIDE DEF new
<1>4. QED BY <1>1, <1>2, <1>3

Open(l) == l \in {"idle", "spawned", "upstream"}

(* A step of request r that gives it the verdict v, or none. *)
LEMMA StepHonest ==
  ASSUME IInv, NEW r \in Requests,
         NEW v \in {"none", "completed", "failed", "error"},
         \A q \in Requests \ {r} :
           pc'[q] = pc[q] /\ queue'[q] = queue[q] /\ view'[q] = view[q],
         rows' = IF v = "completed" THEN rows \cup {r} ELSE rows,
         \A e \in {"completed", "failed", "error"} : Sent(r, e)' => Sent(r, e) \/ e = v,
         v # "none" => Open(pc[r]) /\ ~Open(pc'[r]),
         v = "none" => (Open(pc'[r]) => Open(pc[r]))
  PROVE  \A q \in Requests : Honest(q)'
<1>1. ASSUME NEW q \in Requests, q # r
      PROVE  Honest(q)'
  <2>1. Honest(q) /\ (q \in rows' <=> q \in rows)
    BY <1>1 DEF IInv
  <2>2. pc'[q] = pc[q] /\ queue'[q] = queue[q] /\ view'[q] = view[q]
    BY <1>1
  <2>3. QED BY <2>1, <2>2 DEF Honest, Sent, Has
<1>2. Honest(r)'
  <2>1. Honest(r)
    BY DEF IInv
  <2>2. CASE v = "none"
    BY <2>1, <2>2 DEF Honest, Open
  <2>3. CASE v # "none"
    <3>1. /\ r \notin rows
          /\ ~Sent(r, "completed") /\ ~Sent(r, "failed") /\ ~Sent(r, "error")
      BY <2>1, <2>3 DEF Honest, Open
    <3>2. ~Open(pc'[r])
      BY <2>3
    <3>3. /\ Sent(r, "completed")' => v = "completed"
          /\ Sent(r, "failed")' => v = "failed"
          /\ Sent(r, "error")' => v = "error"
      BY <3>1
    <3>4. QED BY <3>1, <3>2, <3>3 DEF Honest, Open
  <2>4. QED BY <2>2, <2>3
<1>3. QED BY <1>1, <1>2

LEMMA MaxConcurrencyNat == MaxConcurrency \in Nat
BY LimitsAssumption DEF MaxConcurrency

(* Taking a permit, giving it back, and neither. *)
LEMMA PermitStep ==
  ASSUME IInv, server # "down", NEW r \in Requests,
         NEW l \in {"ended", "dropped", "spawned", "upstream"}, Goto(r, l),
         \/ Acquire /\ pc[r] # "upstream" /\ l = "upstream"
         \/ Release /\ pc[r] = "upstream" /\ l # "upstream"
         \/ UNCHANGED permits /\ pc[r] # "upstream" /\ l # "upstream"
  PROVE  /\ permits' \in 0..MaxConcurrency
         /\ permits' + Cardinality(InUpstream') = MaxConcurrency
         /\ pc' \in [Requests -> {"idle", "spawned", "upstream", "ended", "dropped", "lost"}]
         /\ pc'[r] = l
         /\ \A q \in Requests \ {r} : pc'[q] = pc[q]
<1>1. /\ pc \in [Requests -> {"idle", "spawned", "upstream", "ended", "dropped", "lost"}]
      /\ permits \in 0..MaxConcurrency /\ MaxConcurrency \in Nat
      /\ pc' = [pc EXCEPT ![r] = l]
      /\ permits + Cardinality(InUpstream) = MaxConcurrency
  BY MaxConcurrencyNat DEF IInv, TypeOK, PermitsConserved, Goto
<1> DEFINE In(g) == {q \in Requests : g[q] = "upstream"}
<1>2. InUpstream = In(pc) /\ InUpstream' = In(pc')
  BY DEF InUpstream
<1>3. Cardinality(In(pc)) \in Nat
  BY <1>1, UpstreamFinite
<1>4. CASE Acquire /\ pc[r] # "upstream" /\ l = "upstream"
  <2>1. Cardinality(In(pc')) = Cardinality(In(pc)) + 1
    BY <1>1, <1>4, UpstreamFinite
  <2>2. permits > 0 /\ permits' = permits - 1
    BY <1>4 DEF Acquire
  <2> HIDE DEF In
  <2>3. QED BY <1>1, <1>2, <1>3, <2>1, <2>2
<1>5. CASE Release /\ pc[r] = "upstream" /\ l # "upstream"
  <2>1. /\ Cardinality(In(pc')) = Cardinality(In(pc)) - 1
        /\ Cardinality(In(pc)) > 0
    BY <1>1, <1>5, UpstreamFinite
  <2>2. permits' = permits + 1
    BY <1>5 DEF Release
  <2> HIDE DEF In
  <2>3. QED BY <1>1, <1>2, <1>3, <2>1, <2>2
<1>6. CASE UNCHANGED permits /\ pc[r] # "upstream" /\ l # "upstream"
  <2>1. Cardinality(In(pc')) = Cardinality(In(pc))
    BY <1>1, <1>6, UpstreamFinite
  <2> HIDE DEF In
  <2>2. QED BY <1>1, <1>2, <1>3, <1>6, <2>1
<1>7. QED BY <1>4, <1>5, <1>6

(* An action that moves request r to l, sends ev and gives the verdict v. *)
LEMMA RequestStep ==
  ASSUME IInv, server # "down", NEW r \in Requests,
         NEW l \in {"ended", "dropped", "spawned", "upstream"}, Goto(r, l),
         \/ Acquire /\ pc[r] # "upstream" /\ l = "upstream"
         \/ Release /\ pc[r] = "upstream" /\ l # "upstream"
         \/ UNCHANGED permits /\ pc[r] # "upstream" /\ l # "upstream",
         queue' \in [Requests -> Seq(Events)],
         \A q \in Requests \ {r} : queue'[q] = queue[q],
         client' \in [Requests -> {"none", "waiting", "gone"}],
         NEW v \in {"none", "completed", "failed", "error"},
         \A e \in {"completed", "failed", "error"} :
           Has(queue'[r], e) => Has(queue[r], e) \/ e = v,
         rows' = IF v = "completed" THEN rows \cup {r} ELSE rows,
         v # "none" => Open(pc[r]) /\ l = "ended",
         Open(l) => Open(pc[r]),
         UNCHANGED <<server, starts, kind, view>>
  PROVE  IInv'
<1>1. /\ permits' \in 0..MaxConcurrency
      /\ permits' + Cardinality(InUpstream') = MaxConcurrency
      /\ pc' \in [Requests -> {"idle", "spawned", "upstream", "ended", "dropped", "lost"}]
      /\ pc'[r] = l
      /\ \A q \in Requests \ {r} : pc'[q] = pc[q]
  BY PermitStep
<1>2. TypeOK'
  <2>1. rows' \subseteq Requests
    BY DEF IInv, TypeOK
  <2>2. QED BY <1>1, <2>1 DEF IInv, TypeOK, MaxConcurrency
<1>3. PermitsConserved'
  BY <1>1 DEF PermitsConserved, MaxConcurrency
<1>4. \A e \in {"completed", "failed", "error"} : Sent(r, e)' => Sent(r, e) \/ e = v
  BY DEF Sent, Has
<1>5. \A q \in Requests \ {r} :
        pc'[q] = pc[q] /\ queue'[q] = queue[q] /\ view'[q] = view[q]
  BY <1>1
<1>6. /\ v # "none" => Open(pc[r]) /\ ~Open(pc'[r])
      /\ v = "none" => (Open(pc'[r]) => Open(pc[r]))
  BY <1>1 DEF Open
<1>7. \A q \in Requests : Honest(q)'
  BY <1>4, <1>5, <1>6, StepHonest
<1>8. QED BY <1>2, <1>3, <1>7 DEF IInv

LEMMA ArriveIInv ==
  ASSUME IInv, NEW r \in Requests, Arrive(r)
  PROVE  IInv'
<1>1. /\ server = "up" /\ pc[r] = "idle" /\ client' = [client EXCEPT ![r] = "waiting"]
      /\ UNCHANGED <<server, starts, kind, view, rows>>
  BY DEF Arrive, RefuseStream, SpawnStream, RefuseWhole, StartWhole, LimitWhole, Accepts
<1>2. /\ client' \in [Requests -> {"none", "waiting", "gone"}]
      /\ queue \in [Requests -> Seq(Events)]
  BY <1>1 DEF IInv, TypeOK
<1>3. ASSUME NEW ev \in Seq(Events), NEW v \in {"failed", "error"},
             \A e \in {"completed", "failed", "error"} : Has(ev, e) => e = v,
             Goto(r, "ended"), queue' = [queue EXCEPT ![r] = ev], UNCHANGED permits
      PROVE  IInv'
  <2>1. /\ queue' \in [Requests -> Seq(Events)]
        /\ \A q \in Requests \ {r} : queue'[q] = queue[q]
        /\ queue'[r] = ev
    BY <1>2, <1>3
  <2>2. rows' = IF v = "completed" THEN rows \cup {r} ELSE rows
    BY <1>1
  <2>3. QED BY <1>1, <1>2, <1>3, <2>1, <2>2, RequestStep DEF Open
<1>4. CASE RefuseStream(r)
  <2> DEFINE ev == Reply(<<"created", "failed">>)
  <2>1. /\ ev \in Seq(Events)
        /\ \A e \in {"completed", "failed", "error"} : Has(ev, e) => e = "failed"
    BY RepliesTyped
  <2>2. Goto(r, "ended") /\ queue' = [queue EXCEPT ![r] = ev] /\ UNCHANGED permits
    BY <1>4 DEF RefuseStream
  <2> HIDE DEF ev
  <2>3. QED BY <1>3, <2>1, <2>2
<1>5. CASE RefuseWhole(r)
  <2> DEFINE ev == <<"failed">>
  <2>1. /\ ev \in Seq(Events)
        /\ \A e \in {"completed", "failed", "error"} : Has(ev, e) => e = "failed"
    BY RepliesTyped DEF Events
  <2>2. Goto(r, "ended") /\ queue' = [queue EXCEPT ![r] = ev] /\ UNCHANGED permits
    BY <1>5 DEF RefuseWhole
  <2> HIDE DEF ev
  <2>3. QED BY <1>3, <2>1, <2>2
<1>6. CASE LimitWhole(r)
  <2> DEFINE ev == <<"error">>
  <2>1. /\ ev \in Seq(Events)
        /\ \A e \in {"completed", "failed", "error"} : Has(ev, e) => e = "error"
    BY RepliesTyped DEF Events
  <2>2. Goto(r, "ended") /\ queue' = [queue EXCEPT ![r] = ev] /\ UNCHANGED permits
    BY <1>6 DEF LimitWhole
  <2> HIDE DEF ev
  <2>3. QED BY <1>3, <2>1, <2>2
<1>7. CASE SpawnStream(r)
  <2>1. Goto(r, "spawned") /\ UNCHANGED <<permits, queue>>
    BY <1>7 DEF SpawnStream
  <2>2. rows' = IF "none" = "completed" THEN rows \cup {r} ELSE rows
    BY <1>1
  <2>3. QED BY <1>1, <1>2, <2>1, <2>2, RequestStep DEF Open
<1>8. CASE StartWhole(r)
  <2>1. Goto(r, "upstream") /\ Acquire /\ UNCHANGED queue
    BY <1>8 DEF StartWhole
  <2>2. rows' = IF "none" = "completed" THEN rows \cup {r} ELSE rows
    BY <1>1
  <2>3. QED BY <1>1, <1>2, <2>1, <2>2, RequestStep DEF Open
<1>9. QED BY <1>4, <1>5, <1>6, <1>7, <1>8 DEF Arrive

(* The steps of a task or handler on its way to the end. *)
LEMMA WorkIInv ==
  ASSUME IInv, NEW r \in Requests,
         \/ StartStream(r) \/ LimitStream(r) \/ FinishStream(r) \/ FailStream(r)
         \/ FinishWhole(r) \/ FailWhole(r)
  PROVE  IInv'
<1>1. /\ pc[r] \in {"spawned", "upstream"} /\ server # "down" /\ TypeOK
      /\ UNCHANGED <<server, starts, kind, client, view>>
  BY DEF IInv, StartStream, LimitStream, FinishStream, FailStream, FinishWhole, FailWhole,
    EndStream, EndWhole
<1>2. client' \in [Requests -> {"none", "waiting", "gone"}]
  BY <1>1 DEF TypeOK
<1>3. ASSUME NEW ev \in Seq(Events), NEW v \in {"none", "completed", "failed", "error"},
             \A e \in {"completed", "failed", "error"} : Has(ev, e) => e = v,
             NEW l \in {"ended", "upstream"}, Goto(r, l), Send(r, ev),
             v # "none" => l = "ended",
             \/ Acquire /\ pc[r] # "upstream" /\ l = "upstream"
             \/ Release /\ pc[r] = "upstream" /\ l # "upstream"
             \/ UNCHANGED permits /\ pc[r] # "upstream" /\ l # "upstream",
             rows' = IF v = "completed" THEN rows \cup {r} ELSE rows
      PROVE  IInv'
  <2>1. /\ queue' \in [Requests -> Seq(Events)]
        /\ \A q \in Requests \ {r} : queue'[q] = queue[q]
        /\ \A e : Has(queue'[r], e) => Has(queue[r], e) \/ Has(ev, e)
    BY <1>1, <1>3, SendKeeps
  <2>2. \A e \in {"completed", "failed", "error"} :
          Has(queue'[r], e) => Has(queue[r], e) \/ e = v
    BY <1>3, <2>1
  <2>3. Open(pc[r])
    BY <1>1 DEF Open
  <2>4. QED BY <1>1, <1>2, <1>3, <2>1, <2>2, <2>3, RequestStep
<1>4. CASE StartStream(r)
  <2> DEFINE ev == <<"created">>
  <2>1. /\ ev \in Seq(Events)
        /\ \A e \in {"completed", "failed", "error"} : Has(ev, e) => e = "none"
    BY RepliesTyped DEF Events
  <2>2. /\ Goto(r, "upstream") /\ Send(r, ev) /\ Acquire /\ pc[r] # "upstream"
        /\ rows' = IF "none" = "completed" THEN rows \cup {r} ELSE rows
    BY <1>4 DEF StartStream
  <2> HIDE DEF ev
  <2>3. QED BY <1>3, <2>1, <2>2
<1>5. CASE LimitStream(r)
  <2> DEFINE ev == Reply(<<"created", "failed">>)
  <2>1. /\ ev \in Seq(Events)
        /\ \A e \in {"completed", "failed", "error"} : Has(ev, e) => e = "failed"
    BY RepliesTyped
  <2>2. /\ Goto(r, "ended") /\ Send(r, ev) /\ UNCHANGED permits /\ pc[r] # "upstream"
        /\ rows' = IF "failed" = "completed" THEN rows \cup {r} ELSE rows
    BY <1>5 DEF LimitStream
  <2> HIDE DEF ev
  <2>3. QED BY <1>3, <2>1, <2>2
<1>6. ASSUME NEW v \in {"completed", "failed"}, NEW ev \in {Reply(<<v>>), <<v>>},
             Goto(r, "ended"), Send(r, ev), Release, pc[r] = "upstream",
             rows' = IF v = "completed" THEN rows \cup {r} ELSE rows
      PROVE  IInv'
  <2>1. v \in Events
    BY <1>6 DEF Events
  <2>2. /\ ev \in Seq(Events)
        /\ \A e \in {"completed", "failed", "error"} : Has(ev, e) => e = v
    BY <1>6, <2>1, RepliesTyped
  <2>3. v \in {"none", "completed", "failed", "error"}
    BY <1>6
  <2>4. QED BY <1>3, <1>6, <2>2, <2>3
<1>7. CASE FinishStream(r)
  BY <1>6, <1>7 DEF FinishStream, EndStream
<1>8. CASE FailStream(r)
  BY <1>6, <1>8 DEF FailStream, EndStream
<1>9. CASE FinishWhole(r)
  BY <1>6, <1>9 DEF FinishWhole, EndWhole
<1>10. CASE FailWhole(r)
  BY <1>6, <1>10 DEF FailWhole, EndWhole
<1>11. QED BY <1>4, <1>5, <1>7, <1>8, <1>9, <1>10

------------------------------------------------------------------------------
(* The client and the process.                                             *)

LEMMA DeliverIInv ==
  ASSUME IInv, NEW r \in Requests, Deliver(r)
  PROVE  IInv'
<1>1. /\ queue[r] # <<>>
      /\ view' = [view EXCEPT ![r] = Append(@, Head(queue[r]))]
      /\ queue' = [queue EXCEPT ![r] = Tail(@)]
      /\ UNCHANGED <<server, starts, permits, kind, pc, client, rows>>
  BY DEF Deliver
<1>2. /\ queue \in [Requests -> Seq(Events)] /\ view \in [Requests -> Seq(Events)]
      /\ queue[r] \in Seq(Events) /\ view[r] \in Seq(Events)
  BY DEF IInv, TypeOK
<1> DEFINE h == Head(queue[r])
           t == Tail(queue[r])
           w == Append(view[r], h)
<1>3. h \in Events /\ Has(queue[r], h)
  BY <1>1, <1>2, HeadTailProperties, LenProperties, EmptySeq DEF Has
<1>4. t \in Seq(Events) /\ \A e : Has(t, e) => Has(queue[r], e)
  <2>1. /\ t \in Seq(Events) /\ Len(t) = Len(queue[r]) - 1
        /\ \A i \in 1..Len(t) : t[i] = queue[r][i + 1]
    BY <1>1, <1>2, HeadTailProperties
  <2>2. /\ DOMAIN t = 1..Len(t) /\ Len(queue[r]) \in Nat
        /\ DOMAIN queue[r] = 1..Len(queue[r])
    BY <1>2, <2>1, LenProperties
  <2> HIDE DEF t
  <2>3. ASSUME NEW e, Has(t, e)
        PROVE  Has(queue[r], e)
    <3>1. PICK i \in 1..Len(t) : t[i] = e
      BY <2>2, <2>3 DEF Has
    <3>2. i + 1 \in DOMAIN queue[r] /\ queue[r][i + 1] = e
      BY <2>1, <2>2, <3>1
    <3>3. QED BY <3>2 DEF Has
  <2>4. QED BY <2>1, <2>3
<1>5. w \in Seq(Events) /\ \A e : Has(w, e) => Has(view[r], e) \/ e = h
  <2>1. /\ w \in Seq(Events) /\ Len(w) = Len(view[r]) + 1
        /\ \A i \in 1..Len(view[r]) : w[i] = view[r][i]
        /\ w[Len(view[r]) + 1] = h
    BY <1>2, <1>3, AppendProperties
  <2>2. /\ DOMAIN w = 1..Len(w) /\ Len(view[r]) \in Nat
        /\ DOMAIN view[r] = 1..Len(view[r])
    BY <1>2, <2>1, LenProperties
  <2> HIDE DEF w, h
  <2>3. QED BY <2>1, <2>2 DEF Has
<1>6. /\ view' = [view EXCEPT ![r] = w] /\ queue' = [queue EXCEPT ![r] = t]
  BY <1>1
<1> HIDE DEF h, t, w
<1>7. view' \in [Requests -> Seq(Events)] /\ queue' \in [Requests -> Seq(Events)]
  BY <1>2, <1>4, <1>5, <1>6
<1>8. TypeOK' /\ PermitsConserved'
  BY <1>1, <1>7 DEF IInv, TypeOK, PermitsConserved, InUpstream, MaxConcurrency
<1>9. \A e \in {"completed", "failed", "error"} : Sent(r, e)' => Sent(r, e) \/ e = "none"
  BY <1>2, <1>3, <1>4, <1>5, <1>6 DEF Sent
<1>10. /\ rows' = IF "none" = "completed" THEN rows \cup {r} ELSE rows
       /\ \A q \in Requests \ {r} :
            pc'[q] = pc[q] /\ queue'[q] = queue[q] /\ view'[q] = view[q]
       /\ Open(pc'[r]) => Open(pc[r])
  BY <1>1, <1>2, <1>6
<1>11. \A q \in Requests : Honest(q)'
  BY <1>9, <1>10, StepHonest
<1>12. QED BY <1>1, <1>8, <1>11 DEF IInv

LEMMA HangUpIInv ==
  ASSUME IInv, NEW r \in Requests, HangUp(r)
  PROVE  IInv'
<1>1. /\ server # "down" /\ client' = [client EXCEPT ![r] = "gone"]
      /\ queue' = [queue EXCEPT ![r] = <<>>]
      /\ UNCHANGED <<server, starts, kind, view, rows>>
  BY DEF HangUp
<1>2. /\ queue' \in [Requests -> Seq(Events)] /\ queue'[r] = <<>>
      /\ \A q \in Requests \ {r} : queue'[q] = queue[q]
      /\ client' \in [Requests -> {"none", "waiting", "gone"}]
  BY <1>1 DEF IInv, TypeOK
<1>3. \A e \in {"completed", "failed", "error"} :
        Has(queue'[r], e) => Has(queue[r], e) \/ e = "none"
  BY <1>2 DEF Has
<1>4. rows' = IF "none" = "completed" THEN rows \cup {r} ELSE rows
  BY <1>1
<1>5. CASE pc[r] = "upstream" /\ kind[r] = "whole"
  <2>1. Release /\ Goto(r, "dropped")
    BY <1>5 DEF HangUp
  <2>2. QED BY <1>1, <1>2, <1>3, <1>4, <1>5, <2>1, RequestStep DEF Open
<1>6. CASE ~(pc[r] = "upstream" /\ kind[r] = "whole")
  <2>1. UNCHANGED <<permits, pc>>
    BY <1>6 DEF HangUp
  <2>2. TypeOK' /\ PermitsConserved'
    BY <1>1, <1>2, <2>1 DEF IInv, TypeOK, PermitsConserved, InUpstream, MaxConcurrency
  <2>3. \A e \in {"completed", "failed", "error"} : Sent(r, e)' => Sent(r, e) \/ e = "none"
    BY <1>1, <1>3 DEF Sent, Has
  <2>4. \A q \in Requests : Honest(q)'
    BY <1>1, <1>2, <1>4, <2>1, <2>3, StepHonest
  <2>5. QED BY <1>1, <2>2, <2>4 DEF IInv
<1>7. QED BY <1>5, <1>6

LEMMA StopIInv ==
  ASSUME IInv, Stop
  PROVE  IInv'
<1>1. /\ server' = "down"
      /\ pc' = [r \in Requests |-> IF r \in Running THEN "lost" ELSE pc[r]]
      /\ queue' = [r \in Requests |-> <<>>]
      /\ UNCHANGED <<starts, permits, kind, client, view, rows>>
  BY DEF Stop
<1>2. \A r \in Requests : pc'[r] = "lost" \/ (pc'[r] = pc[r] /\ r \notin Running)
  BY <1>1
<1>3. TypeOK'
  <2>1. queue' \in [Requests -> Seq(Events)]
    BY <1>1
  <2>2. pc' \in [Requests -> {"idle", "spawned", "upstream", "ended", "dropped", "lost"}]
    BY <1>1 DEF IInv, TypeOK
  <2>3. QED BY <1>1, <2>1, <2>2 DEF IInv, TypeOK, MaxConcurrency
<1>4. PermitsConserved'
  BY <1>1 DEF PermitsConserved
<1>5. \A r \in Requests : pc'[r] \notin {"spawned", "upstream"}
  BY <1>2 DEF Running
<1>6. ASSUME NEW r \in Requests
      PROVE  Honest(r)'
  <2>1. \A e : Sent(r, e)' => Sent(r, e)
    BY <1>1 DEF Sent, Has
  <2>2. Honest(r) /\ (r \in rows' <=> r \in rows)
    BY <1>1 DEF IInv
  <2>3. QED BY <1>2, <2>1, <2>2 DEF Honest
<1>7. QED BY <1>3, <1>4, <1>5, <1>6 DEF IInv

LEMMA RestartIInv ==
  ASSUME IInv, Restart
  PROVE  IInv'
<1>1. /\ server = "down" /\ server' = "up" /\ starts < MaxStarts /\ starts' = starts + 1
      /\ permits' = MaxConcurrency
      /\ client' = [r \in Requests |-> IF client[r] = "waiting" THEN "gone" ELSE client[r]]
      /\ UNCHANGED <<kind, pc, queue, view, rows>>
  BY DEF Restart
<1>2. TypeOK'
  BY <1>1, MaxConcurrencyNat, LimitsAssumption DEF IInv, TypeOK, MaxConcurrency
<1>3. PermitsConserved'
  <2>1. InUpstream' = {}
    BY <1>1 DEF IInv, InUpstream
  <2>2. QED BY <1>1, <2>1, FS_EmptySet, MaxConcurrencyNat
    DEF PermitsConserved, MaxConcurrency
<1>4. \A r \in Requests : Honest(r)'
  BY <1>1 DEF IInv, Honest, Sent, Has
<1>5. QED BY <1>1, <1>2, <1>3, <1>4 DEF IInv

LEMMA StutterIInv ==
  ASSUME IInv, UNCHANGED <<starts, permits, kind, pc, client, queue, view, rows>>,
         \/ server' = server
         \/ server' = "draining" /\ server = "up"
  PROVE  IInv'
<1>1. TypeOK' /\ PermitsConserved'
  BY DEF IInv, TypeOK, PermitsConserved, InUpstream, MaxConcurrency
<1>2. \A r \in Requests : Honest(r)'
  BY DEF IInv, Honest, Sent, Has
<1>3. QED BY <1>1, <1>2 DEF IInv

------------------------------------------------------------------------------
(* The theorems.                                                           *)

LEMMA InitIInv == Init => IInv
<1> SUFFICES ASSUME Init PROVE IInv
  OBVIOUS
<1>1. TypeOK
  BY MaxConcurrencyNat, LimitsAssumption DEF Init, TypeOK
<1>2. PermitsConserved
  <2>1. InUpstream = {}
    BY DEF Init, InUpstream
  <2>2. QED BY <2>1, FS_EmptySet, MaxConcurrencyNat DEF Init, PermitsConserved
<1>3. \A r \in Requests : Honest(r)
  BY DEF Init, Honest, Sent, Has
<1>4. QED BY <1>1, <1>2, <1>3 DEF IInv, Init

LEMMA NextIInv == IInv /\ [Next]_vars => IInv'
<1> SUFFICES ASSUME IInv, [Next]_vars PROVE IInv'
  OBVIOUS
<1>1. ASSUME NEW r \in Requests, Arrive(r) PROVE IInv'
  BY <1>1, ArriveIInv
<1>2. ASSUME NEW r \in Requests, Handle(r) PROVE IInv'
  <2>1. CASE Deliver(r)
    BY <2>1, DeliverIInv
  <2>2. CASE ~Deliver(r)
    BY <1>2, <2>2, WorkIInv DEF Handle
  <2>3. QED BY <2>1, <2>2
<1>3. ASSUME NEW r \in Requests, HangUp(r) PROVE IInv'
  BY <1>3, HangUpIInv
<1>4. CASE Shutdown
  <2>1. /\ server = "up" /\ server' = "draining"
        /\ UNCHANGED <<starts, permits, kind, pc, client, queue, view, rows>>
    BY <1>4 DEF Shutdown
  <2>2. QED BY <2>1, StutterIInv
<1>5. CASE Exit \/ Crash
  BY <1>5, StopIInv DEF Exit, Crash
<1>6. CASE Restart
  BY <1>6, RestartIInv
<1>7. CASE Finished \/ UNCHANGED vars
  <2>1. /\ server' = server
        /\ UNCHANGED <<starts, permits, kind, pc, client, queue, view, rows>>
    BY <1>7 DEF Finished, vars
  <2>2. QED BY <2>1, StutterIInv
<1>8. QED BY <1>1, <1>2, <1>3, <1>4, <1>5, <1>6, <1>7 DEF Next

LEMMA Invariance == Spec => []IInv
BY InitIInv, NextIInv, PTL DEF Spec

(* Type correctness of the server's variables. *)
THEOREM TypeCorrect == Spec => []TypeOK
<1>1. IInv => TypeOK
  BY DEF IInv
<1>2. QED BY <1>1, Invariance, PTL

(* However many requests come, end, fail or are abandoned, the permits and *)
(* the requests in the upstream add up to the limit.                       *)
THEOREM PermitsNeverLeak == Spec => []PermitsConserved
<1>1. IInv => PermitsConserved
  BY DEF IInv
<1>2. QED BY <1>1, Invariance, PTL

(* A response a client was told completed is in the store, also after any  *)
(* number of crashes and restarts.                                         *)
THEOREM CompletedStored == Spec => []CompletedIsStored
<1>1. IInv => CompletedIsStored
  BY DEF IInv, Honest, Sent, Has, Told, CompletedIsStored
<1>2. QED BY <1>1, Invariance, PTL

(* A response a client was told failed is not in the store. *)
THEOREM FailedNotStored == Spec => []FailedIsNotStored
<1>1. IInv => FailedIsNotStored
  BY DEF IInv, Honest, Sent, Has, Told, FailedIsNotStored
<1>2. QED BY <1>1, Invariance, PTL
------------------------------------------------------------------------------
(* Whole replies.  ReplyIsWhole speaks of ended requests only; Progress    *)
(* says what a waiting client was sent before, by how far its request is.  *)
(* Nothing is said of a client of a former process: no reply will follow.  *)

Sofar(r) == view[r] \o queue[r]

Progress(r) ==
  /\ pc[r] = "idle" => view[r] = <<>> /\ queue[r] = <<>>
  /\ pc[r] = "spawned" => kind[r] = "stream"
  /\ server # "down" /\ client[r] = "waiting" =>
       /\ pc[r] = "spawned" => Sofar(r) = <<>>
       /\ pc[r] = "upstream" =>
            Sofar(r) = IF kind[r] = "stream" THEN <<"created">> ELSE <<>>
       /\ pc[r] = "ended" => IsReply(kind[r], Sofar(r))

LEMMA Associative ==
  \A s \in Seq(Events), t \in Seq(Events), u \in Seq(Events) : (s \o t) \o u = s \o (t \o u)
BY ConcatAssociative

LEMMA HeadThenTail ==
  ASSUME NEW s \in Seq(Events), s # <<>>
  PROVE  <<Head(s)>> \o Tail(s) = s
<1> DEFINE h == <<Head(s)>>
           t == Tail(s)
<1>1. /\ h \in Seq(Events) /\ Len(h) = 1 /\ h[1] = Head(s)
      /\ t \in Seq(Events) /\ Len(t) = Len(s) - 1
      /\ \A i \in 1..Len(t) : t[i] = s[i + 1]
  BY HeadTailProperties
<1>2. Len(s) \in Nat \ {0} /\ Head(s) = s[1]
  BY EmptySeq
<1> HIDE DEF h, t
<1>3. /\ h \o t \in Seq(Events) /\ Len(h \o t) = Len(s)
      /\ \A i \in 1..Len(s) : (h \o t)[i] = IF i <= 1 THEN h[i] ELSE t[i - 1]
  <2>1. /\ h \o t \in Seq(Events) /\ Len(h \o t) = Len(h) + Len(t)
        /\ \A i \in 1..(Len(h) + Len(t)) :
             (h \o t)[i] = IF i <= Len(h) THEN h[i] ELSE t[i - Len(h)]
    <3>1. h \in Seq(Events) /\ t \in Seq(Events)
      BY <1>1
    <3>2. QED BY <3>1, ConcatProperties
  <2>2. Len(h) + Len(t) = Len(s)
    BY <1>1, <1>2
  <2>3. QED BY <1>1, <2>1, <2>2
<1>4. ASSUME NEW i \in 1..Len(s)
      PROVE  (h \o t)[i] = s[i]
  <2>1. CASE i = 1
    BY <1>1, <1>2, <1>3, <2>1
  <2>2. CASE i # 1
    BY <1>1, <1>2, <1>3, <2>2
  <2>3. QED BY <2>1, <2>2
<1>5. h \o t = s
  BY <1>2, <1>3, <1>4, SeqEqual
<1>6. QED BY <1>5 DEF h, t

(* The stream that "created" and an end make. *)
LEMMA CreatedThen ==
  ASSUME NEW e \in Events
  PROVE  <<"created">> \o Reply(<<e>>) = Reply(<<"created", e>>)
<1>1. /\ <<"created">> \in Seq(Events) /\ <<e>> \in Seq(Events)
      /\ <<"[DONE]">> \in Seq(Events)
  BY DEF Events
<1>2. <<"created">> \o <<e>> = <<"created", e>>
  <2> DEFINE s == <<"created">>
             t == <<e>>
             u == <<"created", e>>
  <2>1. /\ s \in Seq(Events) /\ Len(s) = 1 /\ s[1] = "created"
        /\ t \in Seq(Events) /\ Len(t) = 1 /\ t[1] = e
        /\ u \in Seq(Events) /\ Len(u) = 2 /\ u[1] = "created" /\ u[2] = e
    BY DEF Events
  <2> HIDE DEF s, t, u
  <2>2. /\ s \o t \in Seq(Events) /\ Len(s \o t) = Len(s) + Len(t)
        /\ \A i \in 1..(Len(s) + Len(t)) :
             (s \o t)[i] = IF i <= Len(s) THEN s[i] ELSE t[i - Len(s)]
    BY <2>1, ConcatProperties
  <2>3. Len(s \o t) = 2 /\ (s \o t)[1] = "created" /\ (s \o t)[2] = e
    BY <2>1, <2>2
  <2>4. \A i \in 1..Len(s \o t) : (s \o t)[i] = u[i]
    BY <2>1, <2>3
  <2>5. s \o t = u
    BY <2>1, <2>2, <2>3, <2>4, SeqEqual
  <2>6. QED BY <2>5 DEF s, t, u
<1>3. <<"created">> \o (<<e>> \o <<"[DONE]">>) = (<<"created">> \o <<e>>) \o <<"[DONE]">>
  BY <1>1, Associative
<1>4. QED BY <1>2, <1>3 DEF Reply

(* What is sent comes after what was sent before. *)
LEMMA SendSofar ==
  ASSUME TypeOK, NEW r \in Requests, NEW ev \in Seq(Events), Send(r, ev),
         client[r] = "waiting", view' = view
  PROVE  Sofar(r)' = Sofar(r) \o ev
<1>1. /\ queue \in [Requests -> Seq(Events)] /\ queue[r] \in Seq(Events)
      /\ view[r] \in Seq(Events)
  BY DEF TypeOK
<1>2. queue'[r] = queue[r] \o ev
  BY <1>1 DEF Send
<1>3. view[r] \o (queue[r] \o ev) = (view[r] \o queue[r]) \o ev
  BY <1>1, Associative
<1>4. QED BY <1>2, <1>3 DEF Sofar

LEMMA OtherProgress ==
  ASSUME NEW q \in Requests, Progress(q), kind' = kind, server' = server,
         pc'[q] = pc[q], client'[q] = client[q], queue'[q] = queue[q], view'[q] = view[q]
  PROVE  Progress(q)'
BY DEF Progress, Sofar

LEMMA ArriveProgress ==
  ASSUME TypeOK, NEW r \in Requests, Arrive(r), \A q \in Requests : Progress(q)
  PROVE  \A q \in Requests : Progress(q)'
<1>1. /\ pc[r] = "idle" /\ client' = [client EXCEPT ![r] = "waiting"]
      /\ UNCHANGED <<server, kind, view>>
      /\ kind[r] = "stream" \/ kind[r] = "whole"
  BY DEF Arrive, RefuseStream, SpawnStream, RefuseWhole, StartWhole, LimitWhole, Accepts
<1>2. PICK l \in {"spawned", "upstream", "ended"}, ev \in Seq(Events) :
        /\ pc' = [pc EXCEPT ![r] = l] /\ queue' = [queue EXCEPT ![r] = ev]
        /\ l = "spawned" => kind[r] = "stream" /\ ev = <<>>
        /\ l = "upstream" => kind[r] = "whole" /\ ev = <<>>
        /\ l = "ended" => IsReply(kind[r], ev)
  <2>1. queue = [queue EXCEPT ![r] = <<>>] /\ <<>> \in Seq(Events)
    BY <1>1 DEF TypeOK, Progress
  <2>2. CASE RefuseStream(r)
    <3>1. /\ Reply(<<"created", "failed">>) \in Seq(Events)
          /\ IsReply(kind[r], Reply(<<"created", "failed">>))
      BY <2>2, RepliesTyped DEF RefuseStream, Accepts, IsReply
    <3>2. QED BY <2>2, <3>1 DEF RefuseStream, Goto
  <2>3. CASE SpawnStream(r)
    BY <2>1, <2>3 DEF SpawnStream, Goto, Accepts
  <2>4. CASE RefuseWhole(r)
    <3>1. <<"failed">> \in Seq(Events) /\ IsReply(kind[r], <<"failed">>)
      BY <2>4 DEF RefuseWhole, Accepts, IsReply, Events
    <3>2. QED BY <2>4, <3>1 DEF RefuseWhole, Goto
  <2>5. CASE StartWhole(r)
    BY <2>1, <2>5 DEF StartWhole, Goto, Accepts
  <2>6. CASE LimitWhole(r)
    <3>1. <<"error">> \in Seq(Events) /\ IsReply(kind[r], <<"error">>)
      BY <2>6 DEF LimitWhole, Accepts, IsReply, Events
    <3>2. QED BY <2>6, <3>1 DEF LimitWhole, Goto
  <2>7. QED BY <2>2, <2>3, <2>4, <2>5, <2>6 DEF Arrive
<1>3. pc'[r] = l /\ queue'[r] = ev /\ view'[r] = <<>>
  BY <1>1, <1>2 DEF TypeOK, Progress
<1>4. Sofar(r)' = ev
  BY <1>2, <1>3, ConcatEmptySeq DEF Sofar
<1>5. Progress(r)'
  BY <1>1, <1>2, <1>3, <1>4 DEF Progress
<1>6. ASSUME NEW q \in Requests, q # r
      PROVE  Progress(q)'
  BY <1>1, <1>2, <1>6, OtherProgress DEF TypeOK
<1>7. QED BY <1>5, <1>6

LEMMA WorkProgress ==
  ASSUME TypeOK, NEW r \in Requests, \A q \in Requests : Progress(q),
         \/ StartStream(r) \/ LimitStream(r) \/ FinishStream(r) \/ FailStream(r)
         \/ FinishWhole(r) \/ FailWhole(r)
  PROVE  \A q \in Requests : Progress(q)'
<1>1. UNCHANGED <<server, kind, client, view>>
  BY DEF StartStream, LimitStream, FinishStream, FailStream, FinishWhole, FailWhole,
    EndStream, EndWhole
<1>2. /\ Sofar(r) \in Seq(Events) /\ kind[r] \in {"stream", "whole"}
      /\ \A s \in Seq(Events) : <<>> \o s = s
  BY ConcatProperties, ConcatEmptySeq DEF TypeOK, Sofar
<1>3. PICK l \in {"upstream", "ended"}, ev \in Seq(Events) :
        /\ pc' = [pc EXCEPT ![r] = l] /\ Send(r, ev)
        /\ server # "down" /\ client[r] = "waiting" =>
             /\ l = "upstream" => kind[r] = "stream" /\ Sofar(r) \o ev = <<"created">>
             /\ l = "ended" => IsReply(kind[r], Sofar(r) \o ev)
  <2>1. /\ Reply(<<"created", "failed">>) \in Seq(Events)
        /\ \A e \in Events : <<e>> \in Seq(Events) /\ Reply(<<e>>) \in Seq(Events)
        /\ {"created", "completed", "failed"} \subseteq Events
    BY RepliesTyped DEF Events
  <2>2. CASE StartStream(r)
    <3>1. /\ pc' = [pc EXCEPT ![r] = "upstream"] /\ Send(r, <<"created">>)
          /\ pc[r] = "spawned" /\ <<"created">> \in Seq(Events)
      BY <2>1, <2>2 DEF StartStream, Goto
    <3>2. kind[r] = "stream" /\
          (server # "down" /\ client[r] = "waiting" => Sofar(r) \o <<"created">> = <<"created">>)
      BY <1>2, <3>1 DEF Progress
    <3>3. QED BY <3>1, <3>2
  <2>3. CASE LimitStream(r)
    <3> DEFINE ev == Reply(<<"created", "failed">>)
    <3>1. /\ pc' = [pc EXCEPT ![r] = "ended"] /\ Send(r, ev)
          /\ pc[r] = "spawned" /\ ev \in Seq(Events)
      BY <2>1, <2>3 DEF LimitStream, Goto
    <3>2. kind[r] = "stream"
      BY <3>1 DEF Progress
    <3>3. IsReply(kind[r], ev)
      BY <3>2 DEF IsReply
    <3> HIDE DEF ev
    <3>4. server # "down" /\ client[r] = "waiting" => Sofar(r) \o ev = ev
      BY <1>2, <3>1 DEF Progress
    <3>5. QED BY <3>1, <3>3, <3>4
  <2>4. ASSUME NEW e \in {"completed", "failed"}, NEW store, EndStream(r, store, e)
        PROVE  \E ev \in Seq(Events) :
                 /\ pc' = [pc EXCEPT ![r] = "ended"] /\ Send(r, ev)
                 /\ server # "down" /\ client[r] = "waiting" => IsReply(kind[r], Sofar(r) \o ev)
    <3>1. /\ pc' = [pc EXCEPT ![r] = "ended"] /\ Send(r, Reply(<<e>>))
          /\ pc[r] = "upstream" /\ kind[r] = "stream"
          /\ Reply(<<e>>) \in Seq(Events) /\ e \in Events
      BY <2>1, <2>4 DEF EndStream, Goto
    <3>2. server # "down" /\ client[r] = "waiting" =>
            Sofar(r) \o Reply(<<e>>) = Reply(<<"created", e>>)
      BY <3>1, CreatedThen DEF Progress
    <3>3. IsReply(kind[r], Reply(<<"created", e>>))
      BY <2>4, <3>1 DEF IsReply
    <3>4. QED BY <3>1, <3>2, <3>3
  <2>5. ASSUME NEW e \in {"completed", "failed"}, NEW store, EndWhole(r, store, e)
        PROVE  \E ev \in Seq(Events) :
                 /\ pc' = [pc EXCEPT ![r] = "ended"] /\ Send(r, ev)
                 /\ server # "down" /\ client[r] = "waiting" => IsReply(kind[r], Sofar(r) \o ev)
    <3>1. /\ pc' = [pc EXCEPT ![r] = "ended"] /\ Send(r, <<e>>)
          /\ pc[r] = "upstream" /\ kind[r] = "whole" /\ <<e>> \in Seq(Events)
      BY <2>1, <2>5 DEF EndWhole, Goto
    <3>2. server # "down" /\ client[r] = "waiting" => Sofar(r) \o <<e>> = <<e>>
      BY <1>2, <3>1 DEF Progress
    <3>3. IsReply(kind[r], <<e>>)
      BY <2>5, <3>1 DEF IsReply
    <3>4. QED BY <3>1, <3>2, <3>3
  <2>6. CASE FinishStream(r) \/ FailStream(r)
    BY <2>4, <2>6 DEF FinishStream, FailStream
  <2>7. CASE FinishWhole(r) \/ FailWhole(r)
    BY <2>5, <2>7 DEF FinishWhole, FailWhole
  <2>8. QED BY <2>2, <2>3, <2>6, <2>7
<1>4. /\ pc'[r] = l /\ queue' \in [Requests -> Seq(Events)]
      /\ \A q \in Requests \ {r} : queue'[q] = queue[q] /\ pc'[q] = pc[q]
  BY <1>3, SendKeeps DEF TypeOK
<1>5. Progress(r)'
  <2>1. client[r] = "waiting" => Sofar(r)' = Sofar(r) \o ev
    BY <1>1, <1>3, SendSofar
  <2>2. QED BY <1>1, <1>3, <1>4, <2>1 DEF Progress
<1>6. ASSUME NEW q \in Requests, q # r
      PROVE  Progress(q)'
  BY <1>1, <1>4, <1>6, OtherProgress
<1>7. QED BY <1>5, <1>6

(* Reading takes from the queue what it adds to the view. *)
LEMMA DeliverProgress ==
  ASSUME TypeOK, NEW r \in Requests, Deliver(r), \A q \in Requests : Progress(q)
  PROVE  \A q \in Requests : Progress(q)'
<1>1. /\ queue[r] # <<>> /\ queue[r] \in Seq(Events) /\ view[r] \in Seq(Events)
      /\ view'[r] = Append(view[r], Head(queue[r])) /\ queue'[r] = Tail(queue[r])
      /\ \A q \in Requests \ {r} : view'[q] = view[q] /\ queue'[q] = queue[q]
      /\ UNCHANGED <<server, kind, pc, client>>
  BY DEF Deliver, TypeOK
<1>2. Sofar(r)' = Sofar(r)
  <2>1. /\ Head(queue[r]) \in Events /\ Tail(queue[r]) \in Seq(Events)
        /\ <<Head(queue[r])>> \in Seq(Events)
    BY <1>1, HeadTailProperties
  <2>2. Append(view[r], Head(queue[r])) = view[r] \o <<Head(queue[r])>>
    BY <1>1, <2>1, AppendIsConcat
  <2>3. (view[r] \o <<Head(queue[r])>>) \o Tail(queue[r])
          = view[r] \o (<<Head(queue[r])>> \o Tail(queue[r]))
    BY <1>1, <2>1, Associative
  <2>4. QED BY <1>1, <2>2, <2>3, HeadThenTail DEF Sofar
<1>3. Progress(r)'
  BY <1>1, <1>2 DEF Progress
<1>4. ASSUME NEW q \in Requests, q # r
      PROVE  Progress(q)'
  BY <1>1, <1>4, OtherProgress
<1>5. QED BY <1>3, <1>4

LEMMA NextProgress ==
  ASSUME IInv, \A q \in Requests : Progress(q), [Next]_vars
  PROVE  \A q \in Requests : Progress(q)'
<1>1. TypeOK
  BY DEF IInv
<1>2. ASSUME NEW r \in Requests, Arrive(r) PROVE \A q \in Requests : Progress(q)'
  BY <1>1, <1>2, ArriveProgress
<1>3. ASSUME NEW r \in Requests, Handle(r) PROVE \A q \in Requests : Progress(q)'
  <2>1. CASE Deliver(r)
    BY <1>1, <2>1, DeliverProgress
  <2>2. CASE ~Deliver(r)
    BY <1>1, <1>3, <2>2, WorkProgress DEF Handle
  <2>3. QED BY <2>1, <2>2
<1>4. ASSUME NEW r \in Requests, HangUp(r) PROVE \A q \in Requests : Progress(q)'
  <2>1. /\ client'[r] = "gone" /\ queue'[r] = <<>> /\ view'[r] = view[r]
        /\ pc'[r] = pc[r] \/ pc'[r] = "dropped"
        /\ \A q \in Requests \ {r} :
             client'[q] = client[q] /\ queue'[q] = queue[q] /\ pc'[q] = pc[q] /\ view'[q] = view[q]
        /\ UNCHANGED <<server, kind>>
    BY <1>1, <1>4 DEF HangUp, Goto, TypeOK
  <2>2. Progress(r)'
    BY <2>1 DEF Progress
  <2>3. ASSUME NEW q \in Requests, q # r
        PROVE  Progress(q)'
    BY <2>1, <2>3, OtherProgress
  <2>4. QED BY <2>2, <2>3
<1>5. CASE Exit \/ Crash
  <2>1. /\ server' = "down" /\ UNCHANGED <<kind, view>>
        /\ \A q \in Requests :
             queue'[q] = <<>> /\ (pc'[q] = "lost" \/ pc'[q] = pc[q])
    BY <1>5 DEF Exit, Crash, Stop
  <2>2. QED BY <2>1 DEF Progress
<1>6. CASE Restart
  <2>1. /\ UNCHANGED <<kind, pc, queue, view>>
        /\ \A q \in Requests : client'[q] # "waiting"
    BY <1>6 DEF Restart
  <2>2. QED BY <2>1 DEF Progress
<1>7. CASE Shutdown
  BY <1>7 DEF Shutdown, Progress, Sofar
<1>8. CASE Finished \/ UNCHANGED vars
  <2>1. UNCHANGED <<server, kind, pc, client, queue, view>>
    BY <1>8 DEF Finished, vars
  <2>2. QED BY <2>1 DEF Progress, Sofar
<1>9. QED BY <1>2, <1>3, <1>4, <1>5, <1>6, <1>7, <1>8 DEF Next

(* While the adapter runs, what a waiting client was sent is a whole reply *)
(* once its request has ended, whichever way it ended.                     *)
THEOREM RepliesWhole == Spec => []ReplyIsWhole
<1> DEFINE AllProgress == \A q \in Requests : Progress(q)
<1>1. Init => AllProgress
  BY DEF Init, Progress
<1>2. IInv /\ AllProgress /\ [Next]_vars => AllProgress'
  BY NextProgress
<1>3. AllProgress => ReplyIsWhole
  BY DEF Progress, Sofar, ReplyIsWhole
<1> HIDE DEF AllProgress
<1>4. QED BY <1>1, <1>2, <1>3, Invariance, PTL DEF Spec
==============================================================================
